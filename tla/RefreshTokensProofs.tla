------------------------ MODULE RefreshTokensProofs ------------------------
(***************************************************************************)
(* Proofs about RefreshTokens, for every set of devices and requests, any  *)
(* faults and any number of tokens.                                        *)
(***************************************************************************)
EXTENDS RefreshTokens, TLAPS

\* What a request is at each point of its handler, whatever the key holds.
FrameOK(f) ==
  /\ f.dev = Nil \/ f.pc = "free" \/ f.op = "none" => f = Free
  /\ f.pc = "set" => f.op \in {"login", "refresh"}
  /\ f.op = "login" => f.pc \in {"set", "reply"} /\ f.live
  /\ f.op = "logout" => f.pc \in {"sent", "reply"} /\ f.reply = 0
  /\ f.op = "refresh" =>
       /\ f.pc \in {"sent", "set"} => f.reply = 0
       /\ f.pc \in {"set", "reply"} => f.live
  /\ f.op \in {"login", "refresh"} /\ f.pc = "reply" => f.reply # 0

\* What a request still knows of its account and, unless it is late, of the key
\* of its device.
FrameKnows(f) ==
  f.dev # Nil =>
    /\ account = "active" => f.live
    /\ f.token <= issued[f.dev] /\ f.reply <= issued[f.dev]
    /\ ~f.late /\ f.op = "refresh" /\ f.pc \in {"findUser", "set"} /\ f.reply = 0
         => Current(f.dev, f.token)
    /\ ~f.late /\ f.pc \in {"findUser", "reply"} /\ f.reply # 0
         => Current(f.dev, f.reply)

\* The key holds the newest token ever issued.
Newest(d) == /\ cookie[d] <= issued[d]
             /\ store[d] # Nil => store[d].token = issued[d]

\* An unexcused cookie is honoured, and no refresh carries a newer token: were
\* the cookie the previous token, a rotation of the current one would strand it.
CookieOK(d) ==
  d \notin excused /\ cookie[d] # 0 =>
    /\ Honoured(d, cookie[d])
    /\ \A r \in Request : frame[r].dev = d /\ frame[r].op = "refresh" =>
         frame[r].token <= cookie[d]

Inv ==
  /\ TypeOK
  /\ \A r \in Request : FrameOK(frame[r]) /\ FrameKnows(frame[r])
  /\ \A d \in Device : Newest(d) /\ CookieOK(d)

----------------------------------------------------------------------------
LEMMA FreeFrame ==
  /\ Free \in Frame /\ FrameOK(Free) /\ FrameKnows(Free)
  /\ FrameKnows(Free)'
  /\ Free.dev = Nil /\ Free.op = "none"
BY DEF Free, Frame, FrameOK, FrameKnows, Pc, Op, Token

\* A request in flight belongs to a device.
LEMMA Busy ==
  ASSUME Inv, NEW r \in Request, frame[r].pc # "free"
  PROVE  frame[r] \in Frame /\ frame[r].dev \in Device
BY DEF Inv, TypeOK, Frame, FrameOK, Free

\* Nothing changes but one request, which gets no new token to present, or
\* the one in the cookie.
LEMMA OneFrame ==
  ASSUME Inv, NEW r \in Request, NEW g \in Frame,
         frame' = [frame EXCEPT ![r] = g],
         UNCHANGED <<account, issued, store, cookie, excused>>,
         FrameOK(g), FrameKnows(g),
         \/ g.dev \notin Device \/ g.op # "refresh"
         \/ g.token = cookie[g.dev]
         \/ /\ g.token = frame[r].token /\ g.dev = frame[r].dev
            /\ frame[r].op = "refresh"
  PROVE  Inv'
<1>1. TypeOK'
  BY DEF Inv, TypeOK
<1>2. \A q \in Request : FrameOK(frame'[q]) /\ FrameKnows(frame'[q])
  BY DEF Inv, TypeOK
<1>3. \A q \in Request : FrameOK(frame[q])' /\ FrameKnows(frame[q])'
  BY <1>2 DEF FrameOK, FrameKnows, Current
<1>4. \A d \in Device : Newest(d)'
  BY DEF Inv, Newest
<1>5. ASSUME NEW d \in Device PROVE CookieOK(d)'
  <2> SUFFICES ASSUME d \notin excused, cookie[d] # 0
               PROVE  /\ Honoured(d, cookie[d])'
                      /\ \A q \in Request :
                           frame'[q].dev = d /\ frame'[q].op = "refresh" =>
                             frame'[q].token <= cookie[d]
    BY DEF CookieOK
  <2>1. /\ Honoured(d, cookie[d])
        /\ \A q \in Request : frame[q].dev = d /\ frame[q].op = "refresh" =>
             frame[q].token <= cookie[d]
    BY DEF Inv, CookieOK
  <2>2. Honoured(d, cookie[d])'
    BY <2>1 DEF Honoured, Current, Previous
  <2>3. ASSUME NEW q \in Request, frame'[q].dev = d, frame'[q].op = "refresh"
        PROVE  frame'[q].token <= cookie[d]
    <3>1. cookie[d] \in Nat
      BY DEF Inv, TypeOK, Token
    <3>2. CASE q = r
      BY <2>1, <2>3, <3>1, <3>2 DEF Inv, TypeOK
    <3>3. CASE q # r
      BY <2>1, <2>3, <3>3 DEF Inv, TypeOK
    <3> QED
      BY <3>2, <3>3
  <2> QED
    BY <2>2, <2>3
<1> QED
  BY <1>1, <1>3, <1>4, <1>5 DEF Inv

\* The other requests, when the key of d changes.
LEMMA TouchedFrames ==
  ASSUME Inv, NEW d \in Device, NEW q \in Request,
         frame'[q] = Touched(d)[q],
         issued' \in [Device -> Nat], \A e \in Device : issued[e] <= issued'[e],
         account' = account, \A e \in Device \ {d} : store'[e] = store[e]
  PROVE  /\ frame'[q] \in Frame
         /\ FrameOK(frame[q])' /\ FrameKnows(frame[q])'
         /\ frame'[q].dev = frame[q].dev /\ frame'[q].op = frame[q].op
         /\ frame'[q].token = frame[q].token
<1> PICK f : f = frame[q]
  OBVIOUS
<1>1. f \in Frame /\ FrameOK(f) /\ FrameKnows(f)
  BY DEF Inv, TypeOK
<1>t. issued \in [Device -> Nat]
  BY DEF Inv, TypeOK, Token
<1>2. CASE f.dev = d /\ f.pc # "sent"
  <2>1. frame'[q] = [f EXCEPT !.late = TRUE]
    BY <1>2 DEF Touched
  <2>2. frame'[q] \in Frame
    BY <1>1, <2>1 DEF Frame
  <2>3. FrameOK(frame[q])'
    <3>1. f.dev # Nil /\ f.pc # "free" /\ f.op # "none"
      BY <1>1, <1>2, NilAssumption DEF FrameOK, Free
    <3> QED
      BY <1>1, <2>1, <3>1 DEF FrameOK, Frame
  <2>4. FrameKnows(frame[q])'
    <3>1. f.token <= issued[d] /\ f.reply <= issued[d]
      BY <1>1, <1>2, NilAssumption DEF FrameKnows
    <3>2. f.token <= issued'[d] /\ f.reply <= issued'[d]
      BY <1>1, <1>t, <3>1 DEF Frame, Token
    <3> QED
      BY <1>1, <1>2, <2>1, <3>2 DEF FrameKnows, Frame
  <2> QED
    BY <1>1, <2>1, <2>2, <2>3, <2>4 DEF Frame
<1>3. CASE ~(f.dev = d /\ f.pc # "sent")
  <2>1. frame'[q] = f
    BY <1>3 DEF Touched
  <2>2. FrameKnows(frame[q])'
    <3> SUFFICES ASSUME f.dev # Nil PROVE FrameKnows(f)'
      BY <2>1 DEF FrameKnows
    <3>1. f.dev \in Device /\ f.token \in Nat /\ f.reply \in Nat
      BY <1>1 DEF Frame, Token
    <3>2. f.token <= issued[f.dev] /\ f.reply <= issued[f.dev]
      BY <1>1 DEF FrameKnows
    <3>3. f.token <= issued'[f.dev] /\ f.reply <= issued'[f.dev]
      BY <1>t, <3>1, <3>2
    <3>4. CASE f.dev = d
      BY <1>1, <1>3, <2>1, <3>3, <3>4 DEF FrameKnows
    <3>5. CASE f.dev # d
      BY <1>1, <2>1, <3>1, <3>3, <3>5 DEF FrameKnows, Current
    <3> QED
      BY <3>4, <3>5
  <2> QED
    BY <1>1, <2>1, <2>2 DEF FrameOK
<1> QED
  BY <1>2, <1>3

----------------------------------------------------------------------------
\* A key is deleted: its device is excused.
LEMMA KeyDeleted ==
  ASSUME Inv, NEW d \in Device, store' = [store EXCEPT ![d] = Nil],
         excused' = excused \cup {d},
         UNCHANGED <<account, issued, cookie>>,
         frame' \in [Request -> Frame],
         \A q \in Request : \/ frame'[q] = Touched(d)[q]
                            \/ frame'[q] = Free
                            \/ /\ FrameOK(frame'[q]) /\ FrameKnows(frame[q])'
                               /\ frame'[q].dev = d
  PROVE  Inv'
<1>t. /\ issued \in [Device -> Nat] /\ issued' = issued
      /\ store \in [Device -> Session \cup {Nil}]
  BY DEF Inv, TypeOK, Token
<1>1. TypeOK'
  BY <1>t DEF Inv, TypeOK
<1>2. \A e \in Device \ {d} : store'[e] = store[e]
  BY <1>t
<1>3. ASSUME NEW q \in Request
      PROVE  /\ FrameOK(frame[q])' /\ FrameKnows(frame[q])'
             /\ \/ frame'[q].dev = Nil \/ frame'[q].dev = d
                \/ /\ frame'[q].dev = frame[q].dev /\ frame'[q].op = frame[q].op
                   /\ frame'[q].token = frame[q].token
  <2>1. CASE frame'[q] = Touched(d)[q]
    BY <1>t, <1>2, <2>1, TouchedFrames
  <2>2. CASE frame'[q] = Free
    BY <2>2, FreeFrame DEF FrameOK, FrameKnows
  <2>3. CASE /\ FrameOK(frame'[q]) /\ FrameKnows(frame[q])'
             /\ frame'[q].dev = d
    BY <2>3 DEF FrameOK
  <2> QED
    BY <2>1, <2>2, <2>3
<1>4. ASSUME NEW e \in Device PROVE Newest(e)' /\ CookieOK(e)'
  <2>1. CASE e = d
    BY <1>t, <2>1 DEF Inv, Newest, CookieOK
  <2>2. CASE e # d
    <3>1. store'[e] = store[e] /\ Newest(e) /\ CookieOK(e)
      BY <1>2, <2>2 DEF Inv
    <3>2. Newest(e)'
      BY <3>1 DEF Newest
    <3>3. \A q \in Request : frame'[q].dev = e =>
             /\ frame[q].dev = e /\ frame'[q].op = frame[q].op
             /\ frame'[q].token = frame[q].token
      BY <1>3, <2>2, NilAssumption
    <3>4. CookieOK(e)'
      BY <2>2, <3>1, <3>3 DEF CookieOK, Honoured, Current, Previous
    <3> QED
      BY <3>2, <3>4
  <2> QED
    BY <2>1, <2>2
<1> QED
  BY <1>1, <1>3, <1>4 DEF Inv

----------------------------------------------------------------------------
(* Steps.  Each lemma takes the invariant over one action.                 *)

LEMMA SendInv ==
  ASSUME Inv, NEW r \in Request, NEW d \in Device, NEW op \in Op, NEW pc \in Pc,
         Send(r, d, op, pc), pc # "free",
         op = "login" => pc = "set" /\ account = "active",
         op = "refresh" => pc = "sent",
         op = "logout" => pc \in {"sent", "reply"}
  PROVE  Inv'
<1> DEFINE g == [Free EXCEPT !.op = op, !.pc = pc, !.dev = d,
                             !.token = IF op = "login" THEN 0 ELSE cookie[d],
                             !.live = (account = "active")]
<1>1. /\ cookie[d] \in Nat /\ issued[d] \in Nat /\ cookie[d] <= issued[d]
  BY DEF Inv, TypeOK, Newest, Token
<1>2. g \in Frame
  BY <1>1 DEF Free, Frame, Token
<1>3. FrameOK(g)
  BY <1>1, NilAssumption DEF Free, FrameOK, Op
<1>4. FrameKnows(g)
  <2>1. /\ g.op = op /\ g.pc = pc /\ g.dev = d
        /\ g.reply = 0 /\ g.token \in {0, cookie[d]}
    BY DEF Free
  <2>2. ASSUME account = "active" PROVE g.live
    BY <2>2 DEF Free
  <2> HIDE DEF g
  <2> QED
    BY <1>1, <2>1, <2>2 DEF FrameKnows
<1>5. g.dev = d /\ (g.op = "refresh" => g.token = cookie[d])
  BY <1>1 DEF Free
<1>6. /\ frame' = [frame EXCEPT ![r] = g]
      /\ UNCHANGED <<account, issued, store, cookie, excused>>
  BY DEF Send
<1> HIDE DEF g
<1> QED
  BY <1>2, <1>3, <1>4, <1>5, <1>6, OneFrame

LEMMA ArrivalInv ==
  ASSUME Inv, NEW r \in Request, Arrival(r)
  PROVE  Inv'
<1> SUFFICES ASSUME NEW d \in Device, Login(r, d) \/ Refresh(r, d) \/ Logout(r, d)
             PROVE  Inv'
  BY DEF Arrival
<1>1. CASE Login(r, d)
  BY <1>1, SendInv DEF Login, Op, Pc
<1>2. CASE Refresh(r, d)
  BY <1>2, SendInv DEF Refresh, Op, Pc
<1>3. CASE Logout(r, d)
  BY <1>3, SendInv DEF Logout, Op, Pc
<1> QED
  BY <1>1, <1>2, <1>3

LEMMA LeaveInv ==
  ASSUME Inv, NEW r \in Request, Leave(r),
         UNCHANGED <<account, issued, store, cookie, excused>>
  PROVE  Inv'
BY FreeFrame, OneFrame DEF Leave

LEMMA GetSessionInv ==
  ASSUME Inv, NEW r \in Request, GetSession(r)
  PROVE  Inv'
<1> DEFINE f == frame[r]
           g == [f EXCEPT !.pc = "findUser"]
           h == [f EXCEPT !.pc = "findUser", !.reply = store[f.dev].token]
<1>1. /\ f.op = "refresh" /\ f.pc = "sent" /\ f \in Frame /\ f.dev \in Device
      /\ UNCHANGED <<account, issued, store, cookie, excused>>
  BY Busy DEF GetSession, At
<1>2. FrameOK(f) /\ FrameKnows(f) /\ f.reply = 0
  BY <1>1 DEF Inv, FrameOK
<1>3. CASE Current(f.dev, f.token)
  <2>1. frame' = [frame EXCEPT ![r] = g]
    BY <1>3 DEF GetSession
  <2>2. g \in Frame /\ g.token = f.token /\ g.dev = f.dev
    BY <1>1 DEF Frame, Pc
  <2>3. FrameOK(g)
    BY <1>1, <1>2, NilAssumption DEF FrameOK, Frame
  <2>4. FrameKnows(g)
    BY <1>1, <1>2, <1>3, NilAssumption DEF FrameKnows, Frame
  <2> QED
    BY <1>1, <2>1, <2>2, <2>3, <2>4, OneFrame
<1>4. CASE ~Current(f.dev, f.token) /\ Previous(f.dev, f.token)
  <2>1. frame' = [frame EXCEPT ![r] = h]
    BY <1>4 DEF GetSession
  <2>2. /\ store[f.dev] # Nil /\ store[f.dev].token \in Nat
        /\ store[f.dev].token = issued[f.dev]
    BY <1>1, <1>4 DEF Previous, Inv, TypeOK, Newest, Session, Token
  <2>3. h \in Frame /\ h.token = f.token /\ h.dev = f.dev
        /\ h.reply = store[f.dev].token
    BY <1>1, <2>2 DEF Frame, Pc, Token
  <2>4. FrameOK(h)
    BY <1>1, <1>2, NilAssumption DEF FrameOK, Frame
  <2>5. f.token <= issued[f.dev] /\ h.reply <= issued[f.dev]
    BY <1>1, <1>2, <2>2, <2>3, NilAssumption DEF FrameKnows
  <2>6. FrameKnows(h)
    <3>1. Current(f.dev, h.reply)
      BY <2>2, <2>3 DEF Current
    <3>2. ~(h.reply = 0) \/ Current(f.dev, h.token)
      <4> SUFFICES ASSUME h.reply = 0 PROVE h.token = 0
        BY <3>1
      <4>1. issued[f.dev] = 0 /\ f.token \in Nat
        BY <1>1, <2>2, <2>3 DEF Frame, Token
      <4> QED
        BY <2>3, <2>5, <4>1
    <3>3. account = "active" => h.live
      BY <1>1, <1>2, NilAssumption DEF FrameKnows, Frame
    <3> HIDE DEF h
    <3> QED
      BY <2>3, <2>5, <3>1, <3>2, <3>3 DEF FrameKnows
  <2> QED
    BY <1>1, <2>1, <2>3, <2>4, <2>6, OneFrame
<1>5. CASE ~Current(f.dev, f.token) /\ ~Previous(f.dev, f.token)
  BY <1>1, <1>5, LeaveInv DEF GetSession
<1> QED
  BY <1>3, <1>4, <1>5

LEMMA FindUserInv ==
  ASSUME Inv, NEW r \in Request, FindUser(r)
  PROVE  Inv'
<1> DEFINE f == frame[r]
<1>1. /\ f.op = "refresh" /\ f.pc = "findUser" /\ f \in Frame /\ f.dev \in Device
      /\ UNCHANGED <<account, issued, store, cookie, excused>>
  BY Busy DEF FindUser, At
<1>2. FrameOK(f) /\ FrameKnows(f)
  BY DEF Inv
<1>3. ASSUME NEW pc \in {"revoke", "reply", "set"},
             frame' = [frame EXCEPT ![r].pc = pc],
             pc = "reply" => f.reply # 0, pc = "set" => f.reply = 0,
             pc # "revoke" => f.live
      PROVE  Inv'
  <2> DEFINE g == [f EXCEPT !.pc = pc]
  <2>1. g \in Frame /\ g.token = f.token /\ g.dev = f.dev /\ g.reply = f.reply
    BY <1>1 DEF Frame, Pc
  <2>2. FrameOK(g)
    BY <1>1, <1>2, <1>3, NilAssumption DEF FrameOK, Frame
  <2>3. FrameKnows(g)
    BY <1>1, <1>2, <1>3, NilAssumption DEF FrameKnows, Frame
  <2>4. frame' = [frame EXCEPT ![r] = g]
    BY <1>3
  <2> QED
    BY <1>1, <2>1, <2>2, <2>3, <2>4, OneFrame
<1>4. CASE account # "active"
  BY <1>1, <1>3, <1>4 DEF FindUser
<1>5. CASE account = "active" /\ f.reply # 0
  <2>1. f.live
    BY <1>1, <1>2, <1>5, NilAssumption DEF FrameKnows
  <2> QED
    BY <1>1, <1>3, <1>5, <2>1 DEF FindUser
<1>6. CASE account = "active" /\ f.reply = 0
  <2>1. f.live
    BY <1>1, <1>2, <1>6, NilAssumption DEF FrameKnows
  <2> QED
    BY <1>1, <1>3, <1>6, <2>1 DEF FindUser
<1> QED
  BY <1>4, <1>5, <1>6

\* A token is issued: to an unexcused device only by a login, which excuses it,
\* or by a refresh that still knows the key, whose token the cookie is.
LEMMA IssueInv ==
  ASSUME Inv, NEW r \in Request, NEW prev \in Token, NEW grace \in BOOLEAN,
         Issue(r, prev, grace), frame[r].pc = "set",
         excused' = excused \cup {frame[r].dev}
         \/ /\ excused' = excused /\ ~frame[r].late /\ frame[r].op = "refresh"
            /\ prev = frame[r].token /\ grace
  PROVE  Inv'
<1> PICK f, d, t, g :
      /\ f = frame[r] /\ d = f.dev /\ t = issued[d] + 1
      /\ g = [f EXCEPT !.pc = "reply", !.reply = t, !.late = FALSE]
  OBVIOUS
<1>1. /\ f \in Frame /\ d \in Device /\ FrameOK(f) /\ FrameKnows(f)
      /\ f.op \in {"login", "refresh"}
  BY Busy DEF Inv, FrameOK
<1>t. /\ issued \in [Device -> Nat] /\ t \in Nat /\ t # 0
      /\ store \in [Device -> Session \cup {Nil}]
      /\ cookie \in [Device -> Nat] /\ f.token \in Nat
  BY <1>1 DEF Inv, TypeOK, Token, Frame
<1>2. /\ issued' = [issued EXCEPT ![d] = t]
      /\ store' = [store EXCEPT
           ![d] = [token |-> t, previous |-> prev, grace |-> grace]]
      /\ frame' = [Touched(d) EXCEPT ![r] = g]
      /\ account' = account /\ cookie' = cookie
  BY DEF Issue
<1>3. /\ issued'[d] = t /\ issued' \in [Device -> Nat]
      /\ \A e \in Device : issued[e] <= issued'[e]
      /\ \A e \in Device \ {d} : store'[e] = store[e] /\ issued'[e] = issued[e]
  BY <1>1, <1>2, <1>t
<1>4. /\ store'[d] = [token |-> t, previous |-> prev, grace |-> grace]
      /\ store'[d] \in Session /\ store'[d] # Nil
      /\ store'[d].token = t /\ store'[d].previous = prev
      /\ store'[d].grace = grace
  BY <1>1, <1>2, <1>t, SessionAssumption DEF Session, Token
<1>5. /\ g \in Frame /\ g.pc = "reply" /\ g.reply = t /\ ~g.late /\ g.dev = d
      /\ g.op = f.op /\ g.token = f.token /\ g.live = f.live
  BY <1>1, <1>t DEF Frame, Pc, Token
<1>6. frame'[r] = g
  BY <1>2 DEF Touched
<1>7. FrameOK(frame[r])' /\ FrameKnows(frame[r])'
  <2>1. FrameOK(g)
    <3>1. g.live /\ g.op # "none" /\ g.dev # Nil /\ g.pc # "free"
      BY <1>1, <1>5, NilAssumption DEF FrameOK
    <3> QED
      BY <1>1, <1>5, <1>t, <3>1 DEF FrameOK
  <2>2. f.token <= issued[d] /\ f.token <= t /\ f.live
    BY <1>1, <1>t, NilAssumption DEF FrameKnows, FrameOK
  <2>3. Current(d, t)'
    BY <1>4 DEF Current
  <2>4. FrameKnows(frame[r])'
    BY <1>3, <1>5, <1>6, <1>t, <2>2, <2>3 DEF FrameKnows
  <2> QED
    BY <1>6, <2>1, <2>4 DEF FrameOK
<1>8. ASSUME NEW q \in Request, q # r
      PROVE  /\ frame'[q] \in Frame
             /\ FrameOK(frame[q])' /\ FrameKnows(frame[q])'
             /\ frame'[q].dev = frame[q].dev /\ frame'[q].op = frame[q].op
             /\ frame'[q].token = frame[q].token
  <2>1. frame'[q] = Touched(d)[q]
    BY <1>2, <1>8 DEF Touched
  <2> QED
    BY <1>1, <1>2, <1>3, <2>1, TouchedFrames
<1>9. TypeOK'
  <2>1. frame' \in [Request -> Frame]
    BY <1>2, <1>5, <1>6, <1>8 DEF Touched
  <2>2. store' \in [Device -> Session \cup {Nil}]
    BY <1>2, <1>4, <1>t
  <2>3. excused' \subseteq Device
    BY <1>1 DEF Inv, TypeOK
  <2> QED
    BY <1>2, <1>3, <2>1, <2>2, <2>3 DEF Inv, TypeOK, Token
<1>10. \A q \in Request : /\ frame'[q].dev = frame[q].dev
                          /\ frame'[q].op = frame[q].op
                          /\ frame'[q].token = frame[q].token
  BY <1>5, <1>6, <1>8
<1>11. ASSUME NEW e \in Device PROVE Newest(e)' /\ CookieOK(e)'
  <2>1. CASE e # d
    <3>1. store'[e] = store[e] /\ issued'[e] = issued[e] /\ cookie'[e] = cookie[e]
      BY <1>2, <1>3, <2>1
    <3>2. Newest(e)' /\ (e \notin excused' => e \notin excused)
      BY <2>1, <3>1 DEF Inv, Newest
    <3> QED
      BY <1>10, <3>1, <3>2 DEF Inv, CookieOK, Honoured, Current, Previous
  <2>2. CASE e = d
    <3>1. cookie[d] <= issued[d] /\ cookie[d] <= t
      BY <1>1, <1>t DEF Inv, Newest
    <3>2. Newest(d)'
      BY <1>2, <1>3, <1>4, <3>1 DEF Newest
    <3>3. ASSUME d \notin excused', cookie[d] # 0
          PROVE  /\ Honoured(d, cookie[d])'
                 /\ \A q \in Request : frame'[q].dev = d /\ frame'[q].op = "refresh"
                      => frame'[q].token <= cookie[d]
      <4>1. /\ ~f.late /\ f.op = "refresh" /\ prev = f.token /\ grace
            /\ d \notin excused
        BY <3>3
      <4>2. /\ Honoured(d, cookie[d])
            /\ \A q \in Request : frame[q].dev = d /\ frame[q].op = "refresh" =>
                 frame[q].token <= cookie[d]
        BY <1>1, <3>3, <4>1 DEF Inv, CookieOK
      <4>3. store[d] # Nil /\ store[d].token = f.token
        BY <1>1, <4>1, NilAssumption DEF FrameKnows, FrameOK, Current
      <4>4. f.token = issued[d]
        BY <1>1, <4>3 DEF Inv, Newest
      <4>5. cookie[d] = f.token
        BY <1>1, <1>t, <3>1, <4>1, <4>2, <4>4
      <4>6. Previous(d, cookie[d])'
        BY <1>2, <1>4, <3>3, <4>1, <4>5 DEF Previous
      <4> QED
        BY <1>2, <1>10, <4>2, <4>6 DEF Honoured
    <3> QED
      BY <1>2, <2>2, <3>2, <3>3 DEF CookieOK
  <2> QED
    BY <2>1, <2>2
<1> QED
  BY <1>7, <1>8, <1>9, <1>11 DEF Inv

LEMMA LoginSetInv ==
  ASSUME Inv, NEW r \in Request, LoginSet(r)
  PROVE  Inv'
<1>1. frame[r].dev \in Device
  BY Busy DEF LoginSet, At
<1> QED
  BY <1>1, IssueInv DEF LoginSet, At, Token

LEMMA RotateInv ==
  ASSUME Inv, NEW r \in Request, Rotate(r)
  PROVE  Inv'
<1>1. frame[r].token \in Token
  BY Busy DEF Rotate, At, Frame
<1>3. Issue(r, frame[r].token, TRUE) /\ frame[r].pc = "set"
  BY DEF Rotate, At
<1>4. \/ excused' = excused \cup {frame[r].dev}
      \/ excused' = excused /\ ~frame[r].late /\ frame[r].op = "refresh"
  BY DEF Rotate, At
<1> QED
  BY <1>1, <1>3, <1>4, IssueInv

LEMMA RevokeInv ==
  ASSUME Inv, NEW r \in Request, Revoke(r)
  PROVE  Inv'
<1> PICK d : d = frame[r].dev
  OBVIOUS
<1>1. d \in Device
  BY Busy DEF Revoke, At
<1>2. frame' = [Touched(d) EXCEPT ![r] = Free]
  BY DEF Revoke
<1>3. \A q \in Request : Touched(d)[q] \in Frame
  BY DEF Touched, Inv, TypeOK, Frame
<1>4. frame' \in [Request -> Frame]
  BY <1>2, <1>3, FreeFrame DEF Touched
<1>5. \A q \in Request : frame'[q] = Touched(d)[q] \/ frame'[q] = Free
  BY <1>2 DEF Touched
<1> QED
  BY <1>1, <1>4, <1>5, KeyDeleted DEF Revoke

LEMMA DelSessionInv ==
  ASSUME Inv, NEW r \in Request, DelSession(r)
  PROVE  Inv'
<1> PICK f, d, g : f = frame[r] /\ d = f.dev /\ g = [f EXCEPT !.pc = "reply"]
  OBVIOUS
<1>1. /\ d \in Device /\ f \in Frame /\ f.op = "logout"
      /\ FrameOK(f) /\ FrameKnows(f)
  BY Busy DEF DelSession, At, Inv
<1>2. frame' = [Touched(d) EXCEPT ![r] = g]
  BY DEF DelSession
<1>3. /\ g \in Frame /\ g.dev = d /\ g.op = "logout" /\ g.pc = "reply"
      /\ g.reply = 0 /\ g.token = f.token /\ g.live = f.live
  BY <1>1 DEF Frame, Pc, FrameOK
<1>4. \A q \in Request : Touched(d)[q] \in Frame
  BY DEF Touched, Inv, TypeOK, Frame
<1>5. frame' \in [Request -> Frame]
  BY <1>2, <1>3, <1>4 DEF Touched
<1>6. frame'[r] = g /\ \A q \in Request \ {r} : frame'[q] = Touched(d)[q]
  BY <1>2 DEF Touched
<1>7. FrameOK(g)
  BY <1>1, <1>3, NilAssumption DEF FrameOK
<1>8. FrameKnows(frame[r])'
  <2>1. f.token <= issued[d] /\ 0 <= issued[d] /\ (account = "active" => f.live)
    BY <1>1, NilAssumption DEF FrameKnows, FrameOK, Inv, TypeOK, Token
  <2>2. issued' = issued /\ account' = account
    BY DEF DelSession
  <2> QED
    BY <1>3, <1>6, <2>1, <2>2 DEF FrameKnows
<1>9. /\ store' = [store EXCEPT ![d] = Nil] /\ excused' = excused \cup {d}
      /\ UNCHANGED <<account, issued, cookie>>
  BY DEF DelSession
<1>10. \A q \in Request : \/ frame'[q] = Touched(d)[q]
                          \/ /\ FrameOK(frame'[q]) /\ FrameKnows(frame[q])'
                             /\ frame'[q].dev = d
  BY <1>3, <1>6, <1>7, <1>8
<1> QED
  BY <1>1, <1>5, <1>9, <1>10, KeyDeleted

LEMMA ExpireInv ==
  ASSUME Inv, NEW d \in Device, Expire(d)
  PROVE  Inv'
<1>1. frame' = Touched(d)
  BY DEF Expire
<1>2. frame' \in [Request -> Frame]
  <2>1. \A q \in Request : Touched(d)[q] \in Frame
    BY DEF Touched, Inv, TypeOK, Frame
  <2> QED
    BY <1>1, <2>1 DEF Touched
<1>4. /\ store' = [store EXCEPT ![d] = Nil] /\ excused' = excused \cup {d}
      /\ UNCHANGED <<account, issued, cookie>>
  BY DEF Expire
<1>5. \A q \in Request : frame'[q] = Touched(d)[q]
  BY <1>1
<1> QED
  BY <1>2, <1>4, <1>5, KeyDeleted

LEMMA DeliverInv ==
  ASSUME Inv, NEW r \in Request, Deliver(r)
  PROVE  Inv'
<1> PICK f, d : f = frame[r] /\ d = f.dev
  OBVIOUS
<1>1. /\ f.pc = "reply" /\ d \in Device /\ f \in Frame
      /\ FrameOK(f) /\ FrameKnows(f)
  BY Busy DEF Deliver, Inv
<1>2. /\ cookie' = [cookie EXCEPT ![d] = f.reply]
      /\ frame' = [frame EXCEPT ![r] = Free]
      /\ UNCHANGED <<account, issued, store>>
  BY DEF Deliver, Leave
<1>t. /\ cookie \in [Device -> Nat] /\ f.reply \in Nat
      /\ issued \in [Device -> Nat] /\ frame \in [Request -> Frame]
  BY <1>1 DEF Inv, TypeOK, Frame, Token
<1>3. \/ excused' = excused \cup {d}
      \/ /\ excused' = excused \ {d}
         /\ ~f.late \/ f.op = "logout"
  BY DEF Deliver
<1>4. TypeOK'
  BY <1>1, <1>2, <1>3, <1>t, FreeFrame DEF Inv, TypeOK, Token
<1>5. \A q \in Request : FrameOK(frame[q])' /\ FrameKnows(frame[q])'
  <2>1. \A q \in Request : frame'[q] = Free \/ frame'[q] = frame[q]
    BY <1>2, <1>t
  <2>2. \A q \in Request : FrameOK(frame[q]) /\ FrameKnows(frame[q])
    BY DEF Inv
  <2> QED
    BY <1>2, <2>1, <2>2, FreeFrame DEF FrameOK, FrameKnows, Current
<1>6. \A q \in Request : frame'[q].dev \in Device => frame'[q] = frame[q]
  BY <1>2, <1>t, FreeFrame, NilAssumption
<1>7. ASSUME NEW e \in Device PROVE Newest(e)' /\ CookieOK(e)'
  <2>1. CASE e # d
    <3>1. cookie'[e] = cookie[e] /\ (e \notin excused' => e \notin excused)
      BY <1>2, <1>3, <1>t, <2>1
    <3> QED
      BY <1>2, <1>6, <3>1 DEF Inv, Newest, CookieOK, Honoured, Current, Previous
  <2>2. CASE e = d
    <3>1. cookie'[d] = f.reply /\ f.reply <= issued[d] /\ Newest(d)
      BY <1>1, <1>2, <1>t, NilAssumption DEF Inv, FrameKnows
    <3>2. Newest(d)'
      BY <1>2, <3>1 DEF Newest
    <3>3. ASSUME d \notin excused', f.reply # 0
          PROVE  /\ Honoured(d, cookie[d])'
                 /\ \A q \in Request : frame'[q].dev = d => frame'[q].token <= f.reply
      <4>1. ~f.late
        BY <1>1, <1>3, <3>3 DEF FrameOK
      <4>2. Current(d, f.reply)
        BY <1>1, <3>3, <4>1, NilAssumption DEF FrameKnows
      <4>3. f.reply = issued[d]
        BY <3>1, <4>2 DEF Newest, Current
      <4>4. Honoured(d, cookie[d])'
        BY <1>2, <3>1, <4>2 DEF Honoured, Current
      <4>5. \A q \in Request : frame[q].dev = d => frame[q].token <= issued[d]
        BY <1>1, NilAssumption DEF Inv, FrameKnows
      <4> QED
        BY <1>1, <1>6, <4>3, <4>4, <4>5
    <3>4. CookieOK(d)'
      BY <1>2, <3>1, <3>3 DEF CookieOK
    <3> QED
      BY <2>2, <3>2, <3>4
  <2> QED
    BY <2>1, <2>2
<1> QED
  BY <1>4, <1>5, <1>7 DEF Inv

LEMMA FailInv ==
  ASSUME Inv, NEW r \in Request, Fail(r)
  PROVE  Inv'
<1> DEFINE f == frame[r]
           g == [f EXCEPT !.pc = "reply"]
<1>1. /\ f \in Frame /\ f.dev \in Device /\ FrameOK(f) /\ FrameKnows(f)
      /\ UNCHANGED <<account, issued, store, cookie, excused>>
  BY Busy DEF Fail, Inv
<1>2. CASE f.op = "logout"
  <2>1. /\ g \in Frame /\ g.dev = f.dev /\ g.token = f.token /\ g.op = "logout"
        /\ g.pc = "reply" /\ g.reply = 0 /\ g.live = f.live
    BY <1>1, <1>2 DEF Frame, Pc, FrameOK
  <2>2. f.token <= issued[f.dev] /\ 0 <= issued[f.dev] /\ (account = "active" => f.live)
    BY <1>1, NilAssumption DEF FrameKnows, Inv, TypeOK, Token
  <2>3. frame' = [frame EXCEPT ![r] = g]
    BY <1>2 DEF Fail
  <2> HIDE DEF g
  <2>4. FrameOK(g) /\ FrameKnows(g)
    BY <1>1, <2>1, <2>2, NilAssumption DEF FrameOK, FrameKnows
  <2> QED
    BY <1>1, <2>1, <2>3, <2>4, OneFrame
<1>3. CASE f.op # "logout"
  BY <1>1, <1>3, LeaveInv DEF Fail
<1> QED
  BY <1>2, <1>3

LEMMA LapseInv ==
  ASSUME Inv, NEW d \in Device, Lapse(d)
  PROVE  Inv'
<1>1. /\ store[d] \in Session /\ store[d] # Nil
      /\ store' = [store EXCEPT ![d].grace = FALSE]
      /\ UNCHANGED <<account, issued, cookie, frame>>
      /\ store \in [Device -> Session \cup {Nil}]
  BY DEF Lapse, Inv, TypeOK
<1>2. /\ store'[d] \in Session /\ store'[d] # Nil
      /\ store'[d].token = store[d].token /\ store'[d].previous = store[d].previous
      /\ \A e \in Device \ {d} : store'[e] = store[e]
  BY <1>1, SessionAssumption DEF Session
<1>3. \A e \in Device : \A t : Current(e, t)' <=> Current(e, t)
  BY <1>1, <1>2 DEF Current
<1>4. TypeOK'
  BY <1>1, <1>2 DEF Lapse, Inv, TypeOK
<1>5. \A q \in Request : FrameOK(frame[q])' /\ FrameKnows(frame[q])'
  <2>1. \A q \in Request :
          /\ frame[q].dev \in Device \cup {Nil}
          /\ FrameOK(frame[q]) /\ FrameKnows(frame[q])
    BY DEF Inv, TypeOK, Frame
  <2> QED
    BY <1>1, <1>3, <2>1 DEF FrameOK, FrameKnows
<1>6. ASSUME NEW e \in Device PROVE Newest(e)' /\ CookieOK(e)'
  <2>1. Newest(e)'
    BY <1>1, <1>2 DEF Inv, Newest
  <2>2. e \notin excused' => e \notin excused
    BY DEF Lapse
  <2>3. CASE e # d
    BY <1>1, <1>2, <2>1, <2>2, <2>3
       DEF Inv, CookieOK, Honoured, Current, Previous
  <2>4. CASE e = d /\ cookie[d] = store[d].previous
    BY <1>1, <2>1, <2>4 DEF Lapse, CookieOK
  <2>5. CASE e = d /\ cookie[d] # store[d].previous
    <3>1. Honoured(d, cookie[d]) => Honoured(d, cookie[d])'
      BY <1>1, <1>3, <2>5 DEF Honoured, Previous
    <3> QED
      BY <1>1, <2>1, <2>2, <2>5, <3>1 DEF Inv, CookieOK
  <2> QED
    BY <2>3, <2>4, <2>5
<1> QED
  BY <1>4, <1>5, <1>6 DEF Inv

LEMMA SetAccountInv ==
  ASSUME Inv, NEW status \in {"active", "inactive", "gone"}, SetAccount(status)
  PROVE  Inv'
<1>1. /\ account' = status
      /\ UNCHANGED <<issued, store, cookie, excused>>
  BY DEF SetAccount
<1>2. ASSUME NEW q \in Request
      PROVE  /\ frame'[q] \in Frame
             /\ FrameOK(frame[q])' /\ FrameKnows(frame[q])'
             /\ frame'[q].dev = frame[q].dev /\ frame'[q].op = frame[q].op
             /\ frame'[q].token = frame[q].token
  <2> PICK f, g : f = frame[q] /\ g = frame'[q]
    OBVIOUS
  <2>1. f \in Frame /\ FrameOK(f) /\ FrameKnows(f)
    BY DEF Inv, TypeOK
  <2>2. g = [f EXCEPT !.live = @ \/ (f # Free /\ status = "active")]
    BY DEF SetAccount
  <2>3. CASE f = Free
    <3>1. (f.live \/ (f # Free /\ status = "active")) = FALSE
      BY <2>3 DEF Free
    <3>2. g = [Free EXCEPT !.live = FALSE]
      BY <2>2, <2>3, <3>1
    <3>3. g = Free
      BY <3>2 DEF Free
    <3> QED
      BY <2>3, <3>3, FreeFrame DEF FrameOK, FrameKnows
  <2>4. CASE f # Free
    <3>1. /\ g \in Frame /\ g.op = f.op /\ g.pc = f.pc /\ g.dev = f.dev
          /\ g.token = f.token /\ g.reply = f.reply /\ g.late = f.late
          /\ g.dev # Nil /\ g.pc # "free" /\ g.op # "none"
      BY <2>1, <2>2, <2>4 DEF Frame, FrameOK
    <3>2. f.live => g.live
      BY <2>1, <2>2 DEF Frame
    <3>3. status = "active" => g.live
      BY <2>1, <2>2, <2>4 DEF Frame
    <3>4. FrameOK(g)
      BY <2>1, <3>1, <3>2 DEF FrameOK
    <3>5. FrameKnows(frame[q])'
      BY <1>1, <2>1, <3>1, <3>3 DEF FrameKnows, Current
    <3> QED
      BY <3>1, <3>4, <3>5 DEF FrameOK
  <2> QED
    BY <2>3, <2>4
<1>3. TypeOK'
  BY <1>1, <1>2 DEF Inv, TypeOK, SetAccount
<1>4. ASSUME NEW e \in Device PROVE Newest(e)' /\ CookieOK(e)'
  BY <1>1, <1>2 DEF Inv, Newest, CookieOK, Honoured, Current, Previous
<1> QED
  BY <1>2, <1>3, <1>4 DEF Inv

----------------------------------------------------------------------------
LEMMA InitInv == Init => Inv
<1> SUFFICES ASSUME Init PROVE Inv
  OBVIOUS
<1>1. \A d \in Device : /\ issued[d] \in {0, 1} /\ cookie[d] = issued[d]
                        /\ issued[d] = 0 => store[d] = Nil
                        /\ issued[d] # 0 => store[d] = [token |-> 1, previous |-> 0,
                                                        grace |-> FALSE]
  BY DEF Init
<1>2. TypeOK
  <2>1. store \in [Device -> Session \cup {Nil}]
    BY <1>1 DEF Init, Session, Token
  <2> QED
    BY <1>1, <2>1, FreeFrame DEF Init, TypeOK, Token
<1>3. \A r \in Request : frame[r] = Free
  BY DEF Init
<1>4. ASSUME NEW d \in Device PROVE Newest(d) /\ CookieOK(d)
  <2>1. CASE issued[d] = 0
    BY <1>1, <2>1 DEF Newest, CookieOK
  <2>2. CASE issued[d] = 1
    <3>1. store[d] = [token |-> 1, previous |-> 0, grace |-> FALSE]
      BY <1>1, <2>2
    <3>2. store[d] \in Session /\ store[d].token = 1
      BY <3>1 DEF Session, Token
    <3> QED
      BY <1>1, <1>3, <2>2, <3>2, FreeFrame, SessionAssumption
         DEF Newest, CookieOK, Honoured, Current
  <2> QED
    BY <1>1, <2>1, <2>2
<1> QED
  BY <1>2, <1>3, <1>4, FreeFrame DEF Inv

LEMMA NextInv == Inv /\ [Next]_vars => Inv'
<1> SUFFICES ASSUME Inv, [Next]_vars PROVE Inv'
  OBVIOUS
<1>1. ASSUME NEW r \in Request, Advance(r) PROVE Inv'
  BY <1>1, LoginSetInv, GetSessionInv, FindUserInv, RotateInv, RevokeInv,
     DelSessionInv, DeliverInv DEF Advance
<1>2. ASSUME NEW r \in Request, Lose(r) \/ Fail(r) PROVE Inv'
  BY <1>2, LeaveInv, FailInv DEF Lose
<1>3. ASSUME NEW d \in Device, Expire(d) \/ Lapse(d) PROVE Inv'
  BY <1>3, ExpireInv, LapseInv
<1>4. CASE Toggle \/ DeleteAccount
  BY <1>4, SetAccountInv DEF Toggle, DeleteAccount
<1>5. CASE UNCHANGED vars
  <2>1. \A r \in Request : FrameOK(frame[r])' /\ FrameKnows(frame[r])'
    BY <1>5 DEF vars, Inv, FrameOK, FrameKnows, Current
  <2>2. \A d \in Device : Newest(d)' /\ CookieOK(d)'
    BY <1>5 DEF vars, Inv, Newest, CookieOK, Honoured, Current, Previous
  <2> QED
    BY <1>5, <2>1, <2>2 DEF vars, Inv, TypeOK
<1> QED
  BY <1>1, <1>2, <1>3, <1>4, <1>5, ArrivalInv DEF Next

LEMMA Invariance == Spec => []Inv
BY InitInv, NextInv, PTL DEF Spec

\* Type correctness of the sessions (RefreshTokens!TypeOK).
THEOREM TypeCorrect == Spec => []TypeOK
<1>1. Inv => TypeOK
  BY DEF Inv
<1> QED
  BY <1>1, Invariance, PTL

\* The grace period does its work: in every interleaving of logins, refreshes,
\* logouts, lost answers and crashes, a cookie that would be refused has one of
\* the listed reasons (RefreshTokens!CookieAccounted).
THEOREM CookieHonoured == Spec => []CookieAccounted
<1>1. Inv => CookieAccounted
  BY DEF Inv, CookieOK, CookieAccounted
<1> QED
  BY <1>1, Invariance, PTL

\* No token for an account that was inactive all through the request
\* (RefreshTokens!InactiveGetsNothing).
THEOREM NothingForInactive == Spec => []InactiveGetsNothing
<1>1. Inv => InactiveGetsNothing
  <2> SUFFICES ASSUME Inv, NEW r \in Request, frame[r].reply # 0,
                      frame[r].pc = "reply"
               PROVE  frame[r].live
    BY DEF InactiveGetsNothing
  <2>1. frame[r].op \in Op \cup {"none"} /\ FrameOK(frame[r])
    BY DEF Inv, TypeOK, Frame
  <2> QED
    BY <2>1 DEF FrameOK, Op, Free
<1> QED
  BY <1>1, Invariance, PTL

\* A session that ended is revived only by a login or by a refresh that had read
\* it before (RefreshTokens!EndedStaysEnded).
THEOREM EndedStays == Spec => EndedStaysEnded
<1>1. ASSUME Inv, [Next]_vars, NEW d \in Device, store[d] = Nil, store'[d] # Nil
      PROVE  \E r \in Request : /\ frame[r].dev = d
                                /\ frame[r].pc = "set"
                                /\ frame[r].op = "login" \/ frame[r].late
  <2>t. store \in [Device -> Session \cup {Nil}]
    BY <1>1 DEF Inv, TypeOK
  <2>1. CASE \E r \in Request : LoginSet(r) \/ Rotate(r)
    <3>1. PICK r \in Request : LoginSet(r) \/ Rotate(r)
      BY <2>1
    <3>2. frame[r].dev = d /\ frame[r].pc = "set"
      BY <1>1, <2>t, <3>1 DEF LoginSet, Rotate, Issue, At
    <3>3. CASE LoginSet(r)
      BY <3>2, <3>3 DEF LoginSet, At
    <3>4. CASE Rotate(r)
      <4>1. frame[r].op = "refresh" /\ (~frame[r].late => Current(d, frame[r].token))
        BY <1>1, <3>2, <3>4, NilAssumption
           DEF Rotate, At, Inv, FrameOK, FrameKnows
      <4> QED
        BY <1>1, <3>2, <4>1 DEF Current
    <3> QED
      BY <3>1, <3>3, <3>4
  <2>2. CASE ~\E r \in Request : LoginSet(r) \/ Rotate(r)
    <3>1. \A r \in Request : Arrival(r) => store' = store
      BY DEF Arrival, Login, Refresh, Logout, Send
    <3>2. \A r \in Request : Advance(r) => store'[d] \in {store[d], Nil}
      BY <2>2, <2>t DEF Advance, GetSession, FindUser, Revoke, DelSession, Deliver
    <3>3. \A r \in Request : Lose(r) \/ Fail(r) => store' = store
      BY DEF Lose, Fail
    <3>4. \A e \in Device : Expire(e) \/ Lapse(e) => store'[d] \in {store[d], Nil}
      BY <1>1, <2>t DEF Expire, Lapse
    <3>5. Toggle \/ DeleteAccount => store' = store
      BY DEF Toggle, DeleteAccount, SetAccount
    <3> QED
      BY <1>1, <3>1, <3>2, <3>3, <3>4, <3>5 DEF Next, vars
  <2> QED
    BY <2>1, <2>2
<1>2. Inv /\ [Next]_vars =>
        [\A d \in Device :
           store[d] = Nil /\ store'[d] # Nil =>
             \E r \in Request : /\ frame[r].dev = d
                                /\ frame[r].pc = "set"
                                /\ frame[r].op = "login" \/ frame[r].late]_vars
  BY <1>1
<1> QED
  BY <1>2, Invariance, PTL DEF Spec, EndedStaysEnded

=============================================================================
