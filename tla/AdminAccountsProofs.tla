------------------------- MODULE AdminAccountsProofs -------------------------
(***************************************************************************)
(* Proofs about AdminAccounts, for every set of accounts and of requests.  *)
(***************************************************************************)
EXTENDS AdminAccounts, TLAPS

\* What a request in flight knows of its target and its caller.
FrameOK(f) ==
  /\ f.pc # "free" => f.op \in Op /\ f.actor \in Admin /\ f.target \in Admin
  /\ f.pc = "write" /\ f.op = "createAdminUser" => f.role \in Role
  /\ f.pc = "write" /\ f.op # "updateAdminUser" => f.actor # f.target
  /\ f.pc = "write" /\ ~f.crossed => f.old = account[f.target]
  /\ f.pc = "audit" /\ ~f.crossed => f.old = f.was

FramesOK == \A r \in Request : FrameOK(frame[r])

Inv == TypeOK /\ FramesOK /\ LockoutAccounted /\ AuthorsExist

LEMMA FreeFrame == Free \in Frame /\ Free.pc = "free" /\ FrameOK(Free)
BY DEF Free, Frame, FrameOK

LEMMA InitInv == Init => Inv
<1> SUFFICES ASSUME Init PROVE Inv
  OBVIOUS
<1>1. TypeOK
  BY FreeFrame DEF Init, TypeOK
<1>2. FramesOK
  BY FreeFrame DEF Init, FramesOK
<1> QED
  BY <1>1, <1>2 DEF Init, Inv, LockoutAccounted, AuthorsExist

LEMMA ArriveInv ==
  ASSUME Inv, NEW r \in Request, NEW op \in Op, NEW a \in Admin, NEW t \in Admin,
         NEW role \in Role \cup {Nil}, Arrive(r, op, a, t, role),
         op = "createAdminUser" => role \in Role,
         op # "updateAdminUser" => a # t
  PROVE  Inv'
<1> PICK g : g = [Free EXCEPT !.op = op, !.pc = "write", !.actor = a, !.target = t,
                              !.role = role, !.old = account[t]]
  OBVIOUS
<1>1. /\ frame' = [frame EXCEPT ![r] = g]
      /\ UNCHANGED <<account, authors, pass, waived>>
  BY DEF Arrive
<1>2. /\ g \in Frame /\ g.op = op /\ g.pc = "write" /\ g.actor = a /\ g.target = t
      /\ g.role = role /\ g.old = account[t]
  BY FreeFrame DEF Free, Frame, Inv, TypeOK
<1>3. TypeOK'
  BY <1>1, <1>2 DEF Inv, TypeOK
<1>4. ASSUME NEW q \in Request PROVE FrameOK(frame[q])'
  <2>1. CASE q = r
    <3>1. frame'[q] = g
      BY <1>1, <2>1 DEF Inv, TypeOK
    <3> QED
      BY <1>1, <1>2, <3>1 DEF FrameOK
  <2>2. CASE q # r
    <3>1. frame'[q] = frame[q] /\ FrameOK(frame[q])
      BY <1>1, <2>2 DEF Inv, TypeOK, FramesOK
    <3> QED
      BY <1>1, <3>1 DEF FrameOK
  <2> QED
    BY <2>1, <2>2
<1>5. LockoutAccounted' /\ AuthorsExist'
  BY <1>1 DEF Inv, LockoutAccounted, AuthorsExist, InCharge, InChargeOf
<1> QED
  BY <1>3, <1>4, <1>5 DEF Inv, FramesOK

LEMMA ArrivalInv ==
  ASSUME Inv, NEW r \in Request, NEW a \in Admin, NEW t \in Admin, Arrival(r, a, t)
  PROVE  Inv'
<1>1. CASE \E role \in Role : CreateAdminUser(r, a, t, role)
  <2>1. PICK role \in Role : CreateAdminUser(r, a, t, role)
    BY <1>1
  <2>2. a # t
    BY <2>1 DEF CreateAdminUser, Arrive
  <2> QED
    BY <2>1, <2>2, ArriveInv DEF CreateAdminUser, Op
<1>2. CASE \E role \in Role \cup {Nil} : UpdateAdminUser(r, a, t, role)
  BY <1>2, ArriveInv DEF UpdateAdminUser, Op
<1>3. CASE DeleteAdminUser(r, a, t)
  BY <1>3, ArriveInv DEF DeleteAdminUser, Op
<1>4. CASE ToggleAdminStatus(r, a, t)
  BY <1>4, ArriveInv DEF ToggleAdminStatus, Op
<1> QED
  BY <1>1, <1>2, <1>3, <1>4 DEF Arrival

\* A request that leaves disturbs no other.
LEMMA LeaveFrames ==
  ASSUME Inv, NEW r \in Request, Leave(r), UNCHANGED account
  PROVE  frame' \in [Request -> Frame] /\ FramesOK'
<1>1. frame' = [frame EXCEPT ![r] = Free] /\ frame \in [Request -> Frame]
  BY DEF Leave, Inv, TypeOK
<1>2. ASSUME NEW q \in Request PROVE FrameOK(frame[q])'
  <2>1. FrameOK(frame'[q])
    BY <1>1, FreeFrame DEF Inv, FramesOK
  <2> QED
    BY <2>1 DEF FrameOK
<1> QED
  BY <1>1, <1>2, FreeFrame DEF FramesOK

LEMMA ResultType ==
  ASSUME Inv, NEW r \in Request, frame[r].pc = "write"
  PROVE  /\ Result(frame[r]) \in Account \cup {Nil}
         /\ Result(frame[r]) = Nil =>
              account[frame[r].target] = Nil \/ frame[r].op = "deleteAdminUser"
<1> PICK f, row : f = frame[r] /\ row = account[f.target]
  OBVIOUS
<1>1. /\ f \in Frame /\ FrameOK(f) /\ f.op \in Op /\ row \in Account \cup {Nil}
      /\ f.pc = "write" /\ f.role \in Role \cup {Nil}
  BY DEF Inv, TypeOK, FramesOK, FrameOK, Frame
<1>2. CASE f.op = "createAdminUser"
  <2>1. Result(f) = [role |-> f.role, active |-> TRUE] /\ f.role \in Role
    BY <1>1, <1>2 DEF Result, FrameOK
  <2>2. Result(f) \in Account
    BY <2>1 DEF Account
  <2> QED
    BY <2>2, NilAssumption
<1>3. CASE f.op = "deleteAdminUser"
  BY <1>3 DEF Result
<1>4. CASE f.op = "updateAdminUser"
  <2>1. Result(f) = IF row = Nil \/ f.role = Nil THEN row
                    ELSE [row EXCEPT !.role = f.role]
    BY <1>4 DEF Result
  <2>2. row # Nil /\ f.role # Nil => [row EXCEPT !.role = f.role] \in Account
    BY <1>1 DEF Account
  <2> QED
    BY <1>1, <2>1, <2>2, NilAssumption
<1>5. CASE f.op = "toggleAdminStatus"
  <2>1. Result(f) = IF row = Nil THEN row ELSE [row EXCEPT !.active = ~@]
    BY <1>5 DEF Result
  <2>2. row # Nil => [row EXCEPT !.active = ~@] \in Account
    BY <1>1 DEF Account
  <2> QED
    BY <1>1, <2>1, <2>2, NilAssumption
<1> QED
  BY <1>1, <1>2, <1>3, <1>4, <1>5 DEF Op

LEMMA WriteInv ==
  ASSUME Inv, NEW r \in Request, Write(r)
  PROVE  Inv'
<1> PICK f : f = frame[r]
  OBVIOUS
<1>1. /\ f \in Frame /\ f.pc = "write" /\ FrameOK(f) /\ f.op \in Op
      /\ f.actor \in Admin /\ f.target \in Admin
      /\ UNCHANGED <<authors, pass>>
  BY DEF Write, Inv, TypeOK, FramesOK, FrameOK
<1>2. CASE Refused(f)
  <2>1. Leave(r) /\ UNCHANGED <<account, waived>>
    BY <1>2 DEF Write
  <2>2. TypeOK' /\ FramesOK'
    BY <1>1, <2>1, LeaveFrames DEF Inv, TypeOK
  <2> QED
    BY <1>1, <2>1, <2>2 DEF Inv, LockoutAccounted, AuthorsExist, InCharge, InChargeOf
<1>3. CASE ~Refused(f)
  <2> PICK g : g = [f EXCEPT !.pc = "audit", !.role = Nil, !.was = account[f.target]]
    OBVIOUS
  <2>1. /\ account' = [account EXCEPT ![f.target] = Result(f)]
        /\ frame' = [Crossed(r, f.target) EXCEPT ![r] = g]
        /\ waived' = /\ \A a \in Admin : ~InChargeOf(account', a)
                     /\ waived \/ SelfDemoted(f) \/ ~InCharge(f.actor)
    BY <1>3 DEF Write
  <2>2. /\ g \in Frame /\ g.pc = "audit" /\ g.op = f.op /\ g.actor = f.actor
        /\ g.target = f.target /\ g.old = f.old /\ g.was = account[f.target]
        /\ g.crossed = f.crossed
    BY <1>1 DEF Frame, Inv, TypeOK
  <2>3. frame'[r] = g
    BY <2>1 DEF Crossed
  <2>4. FrameOK(frame[r])'
    BY <1>1, <2>2, <2>3 DEF FrameOK
  <2>5. ASSUME NEW q \in Request, q # r
        PROVE  frame'[q] \in Frame /\ FrameOK(frame[q])'
    <3> PICK h : h = frame[q]
      OBVIOUS
    <3>1. h \in Frame /\ FrameOK(h)
      BY DEF Inv, TypeOK, FramesOK
    <3>2. CASE h.pc = "write" /\ h.target = f.target
      <4>1. frame'[q] = [h EXCEPT !.crossed = TRUE]
        BY <2>1, <2>5, <3>2 DEF Crossed
      <4>2. /\ frame'[q] \in Frame /\ frame'[q].crossed /\ frame'[q].pc = h.pc
            /\ frame'[q].op = h.op /\ frame'[q].target = h.target
            /\ frame'[q].actor = h.actor /\ frame'[q].role = h.role
        BY <3>1, <4>1 DEF Frame
      <4> QED
        BY <3>1, <3>2, <4>2 DEF FrameOK
    <3>3. CASE ~(h.pc = "write" /\ h.target = f.target)
      <4>1. frame'[q] = h
        BY <2>1, <2>5, <3>3 DEF Crossed
      <4>2. h.pc = "write" => account'[h.target] = account[h.target]
        BY <1>1, <2>1, <3>1, <3>3 DEF FrameOK, Inv, TypeOK
      <4> QED
        BY <3>1, <4>1, <4>2 DEF FrameOK
    <3> QED
      BY <3>2, <3>3
  <2>6. TypeOK'
    <3>1. frame' \in [Request -> Frame]
      BY <2>1, <2>2, <2>3, <2>5 DEF Crossed
    <3>2. account' \in [Admin -> Account \cup {Nil}]
      BY <1>1, <2>1, ResultType DEF Inv, TypeOK
    <3> QED
      BY <1>1, <2>1, <3>1, <3>2 DEF Inv, TypeOK
  <2>7. LockoutAccounted'
    <3> SUFFICES ASSUME \A a \in Admin : ~InChargeOf(account', a)
                 PROVE  waived'
      BY DEF LockoutAccounted, InCharge
    <3>1. CASE InCharge(f.actor) /\ ~SelfDemoted(f)
      <4>1. f.actor # f.target
        BY <1>1, <3>1 DEF FrameOK, SelfDemoted
      <4>2. account'[f.actor] = account[f.actor]
        BY <1>1, <2>1, <4>1 DEF Inv, TypeOK
      <4> QED
        BY <1>1, <3>1, <4>2 DEF InCharge, InChargeOf
    <3> QED
      BY <2>1, <3>1
  <2>8. AuthorsExist'
    <3> SUFFICES ASSUME NEW a \in authors PROVE account'[a] # Nil
      BY <1>1 DEF AuthorsExist
    <3>1. a \in Admin /\ account[a] # Nil
      BY DEF Inv, TypeOK, AuthorsExist
    <3>2. CASE a = f.target
      BY <1>1, <1>3, <2>1, <3>1, <3>2, ResultType DEF Refused, Inv, TypeOK
    <3>3. CASE a # f.target
      BY <2>1, <3>1, <3>3 DEF Inv, TypeOK
    <3> QED
      BY <3>2, <3>3
  <2> QED
    BY <2>4, <2>5, <2>6, <2>7, <2>8 DEF Inv, FramesOK
<1> QED
  BY <1>2, <1>3

\* The steps that change no account.
LEMMA OtherInv ==
  ASSUME Inv, UNCHANGED <<account, waived>>,
         \/ \E a \in Admin : Authenticate(a) \/ ExpirePass(a) \/ AuditElsewhere(a)
         \/ \E r \in Request : Audit(r) \/ Abort(r)
  PROVE  Inv'
<1>1. pass' \subseteq Admin
  BY DEF Authenticate, ExpirePass, AuditElsewhere, Audit, Abort, Inv, TypeOK
<1>2. \A a \in authors' : a \in authors \/ (a \in Admin /\ account[a] # Nil)
  <2>1. ASSUME NEW r \in Request, Audit(r)
        PROVE  \A a \in authors' : a \in authors \/ (a \in Admin /\ account[a] # Nil)
    BY <2>1 DEF Audit, Inv, FramesOK, FrameOK
  <2> QED
    BY <2>1 DEF Authenticate, ExpirePass, AuditElsewhere, Abort
<1>3. frame' \in [Request -> Frame] /\ FramesOK'
  <2>1. CASE UNCHANGED frame
    BY <2>1 DEF Inv, TypeOK, FramesOK, FrameOK
  <2>2. CASE \E r \in Request : Leave(r)
    BY <2>2, LeaveFrames
  <2> QED
    BY <2>1, <2>2 DEF Authenticate, ExpirePass, AuditElsewhere, Audit, Abort
<1>4. TypeOK'
  BY <1>1, <1>2, <1>3 DEF Inv, TypeOK
<1>5. LockoutAccounted' /\ AuthorsExist'
  BY <1>2 DEF Inv, LockoutAccounted, AuthorsExist, InCharge, InChargeOf
<1> QED
  BY <1>3, <1>4, <1>5 DEF Inv

LEMMA NextInv == Inv /\ [Next]_vars => Inv'
<1> SUFFICES ASSUME Inv, [Next]_vars PROVE Inv'
  OBVIOUS
<1>1. CASE \/ \E a \in Admin : Authenticate(a) \/ ExpirePass(a) \/ AuditElsewhere(a)
           \/ \E r \in Request : Audit(r) \/ Abort(r)
  <2>1. UNCHANGED <<account, waived>>
    BY <1>1 DEF Authenticate, ExpirePass, AuditElsewhere, Audit, Abort
  <2> QED
    BY <1>1, <2>1, OtherInv
<1>2. CASE UNCHANGED vars
  BY <1>2 DEF vars, Inv, TypeOK, FramesOK, FrameOK, LockoutAccounted, AuthorsExist,
              InCharge, InChargeOf
<1> QED
  BY <1>1, <1>2, ArrivalInv, WriteInv DEF Next

LEMMA Invariance == Spec => []Inv
BY InitInv, NextInv, PTL DEF Spec

\* The service cannot lock itself out but in the two ways named
\* (AdminAccounts!LockoutAccounted).
THEOREM SomeoneInCharge == Spec => []LockoutAccounted
<1>1. Inv => LockoutAccounted
  BY DEF Inv
<1> QED
  BY <1>1, Invariance, PTL

\* Every audit row has an author with an account (AdminAccounts!AuthorsExist).
THEOREM AuthorsStay == Spec => []AuthorsExist
<1>1. Inv => AuthorsExist
  BY DEF Inv
<1> QED
  BY <1>1, Invariance, PTL

\* An audit row's before is what the write found, unless another request wrote
\* in between (AdminAccounts!BeforeAccounted).
THEOREM BeforeFound == Spec => []BeforeAccounted
<1>1. Inv => BeforeAccounted
  BY DEF Inv, FramesOK, FrameOK, BeforeAccounted
<1> QED
  BY <1>1, Invariance, PTL

=============================================================================
