---------------------------- MODULE ClientProofs ----------------------------
(***************************************************************************)
(* Theorems about what a client of the backend gets to see: of one request *)
(* (RequestPath) for any number of requests and admins, any choice of      *)
(* routes and adjustments and any size of integers, and of a list read     *)
(* page by page (ListWalk) for any set of products, any order of creation, *)
(* any page size and any number of handlers that change the list.  The two *)
(* have no variable in common.                                             *)
(***************************************************************************)
EXTENDS RequestPath, ListWalk, FiniteSetTheorems, SequenceTheorems, TLAPS

-----------------------------------------------------------------------------
(* A request on its path.                                                  *)


\* What is known of one request, wherever it is: an answer never runs ahead
\* of the work, a refusal is only given when the work is over, and the name
\* in the metadata is the sender's.
FrameOK(r) ==
    /\ at[r] = "idle" <=> sent[r] = Nil
    /\ sent[r] = Nil => answer[r].tier = Unheard
    /\ at[r] \in {"idle", "gateway", "proxy", "handler"} => times[r] = 0
    /\ at[r] = "written" => times[r] = 1
    /\ at[r] \in {"proxy", "handler"} => Admission(sent[r]) = "OK"
    /\ times[r] = 1 => Admission(sent[r]) = "OK"
    /\ at[r] = "proxy" => RouteOf(r) \in Proxied
    /\ meta[r] # Nil => sent[r] # Nil /\ meta[r] = sent[r].by
    /\ at[r] = "handler" /\ RouteOf(r) \in Guarded => meta[r] # Nil
    /\ log[r] # Nil => times[r] = 1 /\ log[r] = sent[r].by
    /\ times[r] = 1 => CustomerIdSchema(r)
    /\ IF times[r] = 1 /\ RouteOf(r) = "updateStock"
       THEN IsWhole(applied[r], sent[r].delta)
       ELSE applied[r] = 0

\* Why a tier answers PERMISSION_DENIED.
Denied(r) == /\ RouteOf(r) \in AdminRoute
             /\ \/ ~HasRole(sent[r])
                \/ /\ RoleOf[sent[r].by] # Super
                   /\ RouteOf(r) = "getDashboardStats"
                \/ /\ RoleOf[sent[r].by] = Super
                   /\ sent[r].own
                   /\ RouteOf(r) \in OwnAccount

\* What an answer on its way says is so.
AnswerOK(r) ==
    answer[r].tier # Unheard =>
        /\ Outcome(answer[r].status) = "ok" => times[r] = 1
        /\ Outcome(answer[r].status) = "refused" => times[r] = 0 /\ at[r] = "over"
        /\ answer[r].status = "UNAUTHENTICATED" => ~Authenticated(sent[r])
        /\ answer[r].status = "PERMISSION_DENIED" => Denied(r)

IInv == TypeOK /\ \A r \in Request : FrameOK(r) /\ AnswerOK(r)

-----------------------------------------------------------------------------
(* Lemmas.                                                                 *)

\* A multiple of b leaves nothing.
LEMMA MultipleMod == ASSUME NEW k \in Int, NEW b \in Nat \ {0} PROVE (k * b) % b = 0
  <1> DEFINE q == (k * b) \div b
             m == (k * b) % b
  <1>1. q \in Int /\ m \in 0..(b - 1) /\ k * b = b * q + m
    OBVIOUS
  <1>2. (k - q) * b = m
    BY <1>1
  <1>3. CASE k - q >= 1
    <2>1. (k - q) * b >= b
      BY <1>1, <1>3
    <2> QED BY <2>1, <1>1, <1>2
  <1>4. CASE k - q <= -1
    <2>1. (k - q) * b <= -b
      BY <1>1, <1>4
    <2> QED BY <2>1, <1>1, <1>2
  <1>5. CASE k - q = 0
    BY <1>1, <1>2, <1>5
  <1> QED BY <1>1, <1>3, <1>4, <1>5

\* What arrives is the adjustment in whole.
LEMMA WireWhole == ASSUME NEW n \in Int PROVE Wire(n) \in Int /\ IsWhole(Wire(n), n)
  <1>1. Span \in Nat \ {0}
    BY ConstantsOK DEF Span
  <1>2. PICK q \in Int : n = Span * q + (n % Span)
    <2>1. n \div Span \in Int /\ n = (Span * (n \div Span)) + (n % Span)
      BY <1>1
    <2> QED BY <2>1
  <1>3. n % Span \in Int /\ n % Span \in 0..(Span - 1)
    BY <1>1
  <1>4. Fits(n) => Wire(n) = n
    <2>1. CASE n >= 0
      BY <2>1, ConstantsOK DEF Fits, Span, Wire
    <2>2. CASE n < 0
      <3>1. Fits(n) => n % Span = n + Span BY <2>2, ConstantsOK DEF Fits, Span
      <3> QED BY <3>1, <2>2, ConstantsOK DEF Fits, Span, Wire
    <2> QED BY <2>1, <2>2
  <1>5. \/ Wire(n) - n = (-q) * Span
        \/ Wire(n) - n = (-q - 1) * Span
    <2>1. Wire(n) = n % Span \/ Wire(n) = (n % Span) - Span
      BY DEF Wire
    <2> HIDE DEF Span
    <2> QED BY <1>1, <1>2, <1>3, <2>1
  <1>6. (Wire(n) - n) % Span = 0
    BY <1>1, <1>5, MultipleMod
  <1>7. Wire(n) \in Int
    BY <1>3, <1>1 DEF Wire
  <1> QED BY <1>4, <1>6, <1>7 DEF IsWhole

-----------------------------------------------------------------------------
(* The invariant is inductive.                                             *)

LEMMA InitIInv == Init => IInv
  <1> SUFFICES ASSUME Init PROVE IInv
    OBVIOUS
  <1>1. TypeOK
    BY ConstantsOK DEF Init, TypeOK, Step, Tier, Status, Awaited, Unheard
  <1>2. ASSUME NEW r \in Request PROVE FrameOK(r) /\ AnswerOK(r)
    BY DEF Init, FrameOK, AnswerOK, Awaited, Unheard
  <1> QED BY <1>1, <1>2 DEF IInv

\* An action on one request says nothing of the others.
LEMMA OthersKept ==
    ASSUME IInv, NEW r \in Request, NEW q \in Request, q # r,
           sent'[q] = sent[q], at'[q] = at[q], meta'[q] = meta[q],
           answer'[q] = answer[q], log'[q] = log[q], times'[q] = times[q],
           applied'[q] = applied[q]
    PROVE  FrameOK(q)' /\ AnswerOK(q)'
  <1>1. FrameOK(q)'
    BY DEF IInv, FrameOK, RouteOf, CustomerIdSchema
  <1>2. AnswerOK(q)'
    BY DEF IInv, AnswerOK, RouteOf, Denied
  <1> QED BY <1>1, <1>2

\* What Respond does to the answer of r, and to no other.
LEMMA Responded ==
    ASSUME TypeOK, NEW r \in Request, NEW tier \in Tier, NEW status \in Status,
           Respond(r, tier, status)
    PROVE  /\ answer' \in [Request -> [tier : Tier, status : Status]]
           /\ \A q \in Request \ {r} : answer'[q] = answer[q]
           /\ \/ answer'[r] = [tier |-> tier, status |-> status]
              \/ answer'[r] = answer[r] /\ answer[r].tier >= tier
  BY DEF TypeOK, Respond, Tier

LEMMA CallerTier == ASSUME NEW r \in Request PROVE Caller(r) \in Tier \ {Unheard}
  BY DEF Caller, Tier, Client, Gateway, Middle, Unheard

LEMMA AskKept == ASSUME IInv, NEW r \in Request, Ask(r) PROVE IInv'
  <1>1. PICK e \in Errand : sent' = [sent EXCEPT ![r] = e]
    BY DEF Ask
  <1>2. TypeOK'
    BY <1>1 DEF IInv, TypeOK, Ask, Step
  <1>3. FrameOK(r)' /\ AnswerOK(r)'
    <2>1. sent'[r] = e /\ e # Nil /\ at'[r] = "gateway"
      BY <1>1, NilApart DEF IInv, TypeOK, Ask
    <2>2. at[r] = "idle" /\ times[r] = 0 /\ meta[r] = Nil /\ log[r] = Nil
             /\ answer[r].tier = Unheard /\ applied[r] = 0
      BY DEF IInv, FrameOK, Ask
    <2> QED BY <2>1, <2>2 DEF Ask, IInv, TypeOK, FrameOK, AnswerOK
  <1>4. ASSUME NEW q \in Request, q # r PROVE FrameOK(q)' /\ AnswerOK(q)'
    BY <1>1, <1>4, OthersKept DEF Ask, IInv, TypeOK
  <1> QED BY <1>2, <1>3, <1>4 DEF IInv

\* A step that ends the work on r with a true answer keeps answers true.
LEMMA EndedTruly ==
    ASSUME IInv, NEW r \in Request, NEW tier \in Tier, NEW status \in Status,
           Respond(r, tier, status), at' = [at EXCEPT ![r] = "over"],
           UNCHANGED <<sent, times>>,
           Outcome(status) = "ok" => times[r] = 1,
           Outcome(status) = "refused" => times[r] = 0,
           status = "UNAUTHENTICATED" => ~Authenticated(sent[r]),
           status = "PERMISSION_DENIED" => Denied(r)
    PROVE  AnswerOK(r)'
  <1>1. at'[r] = "over" /\ times'[r] = times[r] /\ sent'[r] = sent[r]
    BY DEF IInv, TypeOK
  <1>2. CASE answer'[r] = [tier |-> tier, status |-> status]
    BY <1>1, <1>2 DEF AnswerOK, RouteOf, Denied
  <1>3. CASE answer'[r] = answer[r]
    BY <1>1, <1>3 DEF AnswerOK, IInv, RouteOf, Denied
  <1> QED BY <1>2, <1>3, Responded DEF IInv

LEMMA TurnAwayKept == ASSUME IInv, NEW r \in Request, TurnAway(r) PROVE IInv'
  <1> DEFINE s == Admission(sent[r])
  <1>1. s \in Status /\ s # "OK" /\ Client \in Tier
    BY DEF TurnAway, Admission, Status, Client, Tier
  <1>2. TypeOK'
    BY <1>1, Responded DEF IInv, TypeOK, TurnAway, Step
  <1>3. FrameOK(r)' /\ AnswerOK(r)'
    <2>1. sent[r] # Nil /\ sent[r] \in Errand /\ times[r] = 0 /\ log[r] = Nil
      BY DEF TurnAway, IInv, FrameOK, TypeOK
    <2>2. at'[r] = "over" /\ times'[r] = 0 /\ sent'[r] = sent[r]
      BY <2>1 DEF TurnAway, IInv, TypeOK
    <2>3. FrameOK(r)'
      BY <2>1, <2>2 DEF TurnAway, IInv, FrameOK, TypeOK
    <2>4. Outcome(s) # "ok"
      BY DEF Admission, Outcome, grpcToHttp, TurnAway
    <2>5. s = "PERMISSION_DENIED" => Denied(r)
      BY <2>1 DEF Admission, HasRole, RouteOf, Denied
    <2>7. s = "UNAUTHENTICATED" => ~Authenticated(sent[r])
      BY DEF Admission
    <2>6. AnswerOK(r)'
      <3> HIDE DEF s
      <3> QED BY <1>1, <2>1, <2>4, <2>5, <2>7, EndedTruly DEF TurnAway, s
    <2> QED BY <2>3, <2>6
  <1>4. ASSUME NEW q \in Request, q # r PROVE FrameOK(q)' /\ AnswerOK(q)'
    BY <1>1, <1>4, OthersKept, Responded DEF TurnAway, IInv, TypeOK
  <1> QED BY <1>2, <1>3, <1>4 DEF IInv

LEMMA ForwardKept == ASSUME IInv, NEW r \in Request, Forward(r) PROVE IInv'
  <1> DEFINE e == sent[r]
  <1>1. e # Nil /\ e \in Errand /\ times[r] = 0 /\ log[r] = Nil
    BY DEF Forward, IInv, FrameOK, TypeOK
  <1>0. e.route \in AdminRoute => e.by \in Admin
    BY DEF Forward, Admission, HasRole
  <1>2. buildMeta(e) \in Admin \cup {Nil} /\ (buildMeta(e) # Nil => buildMeta(e) = e.by)
    BY <1>0 DEF buildMeta
  <1>3. e.route \in Guarded => buildMeta(e) # Nil /\ e.route \notin Proxied
    BY <1>0, ConstantsOK DEF buildMeta, Guarded, AdminRoute,
       UserEdit, UserRead, SystemRead, Proxied, InventoryRoute, InventoryEdit,
       InventoryDelete, InventoryRead, PublicRead
  <1>4. TypeOK'
    BY <1>2 DEF IInv, TypeOK, Forward, Step
  <1>5. FrameOK(r)' /\ AnswerOK(r)'
    <2>1. /\ sent'[r] = e /\ times'[r] = 0 /\ log'[r] = Nil /\ meta'[r] = buildMeta(e)
          /\ at'[r] = IF e.route \in Proxied THEN "proxy" ELSE "handler"
      BY <1>1 DEF Forward, IInv, TypeOK, RouteOf
    <2>2. FrameOK(r)'
      BY <1>1, <1>2, <1>3, <2>1 DEF Forward, IInv, FrameOK, RouteOf
    <2>3. AnswerOK(r)'
      BY <2>1 DEF Forward, IInv, AnswerOK, RouteOf, Denied
    <2> QED BY <2>2, <2>3
  <1>6. ASSUME NEW q \in Request, q # r PROVE FrameOK(q)' /\ AnswerOK(q)'
    BY <1>6, OthersKept DEF Forward, IInv, TypeOK
  <1> QED BY <1>4, <1>5, <1>6 DEF IInv

LEMMA ProxyKept == ASSUME IInv, NEW r \in Request, Proxy(r) PROVE IInv'
  <1>1. forwardMeta(r) \in {meta[r], Nil}
    BY DEF forwardMeta
  <1>2. sent[r] # Nil /\ times[r] = 0 /\ RouteOf(r) \notin Guarded
    BY DEF Proxy, IInv, FrameOK, Guarded, UserEdit, UserRead, Proxied,
       InventoryRoute, InventoryEdit, InventoryDelete, InventoryRead, PublicRead
  <1>3. TypeOK'
    BY <1>1 DEF IInv, TypeOK, Proxy, Step
  <1>4. FrameOK(r)' /\ AnswerOK(r)'
    <2>1. at'[r] = "handler" /\ meta'[r] = forwardMeta(r)
      BY DEF Proxy, IInv, TypeOK
    <2>2. FrameOK(r)'
      BY <1>1, <1>2, <2>1 DEF Proxy, IInv, FrameOK, RouteOf
    <2>3. AnswerOK(r)'
      BY <2>1 DEF Proxy, IInv, AnswerOK, RouteOf, Denied
    <2> QED BY <2>2, <2>3
  <1>5. ASSUME NEW q \in Request, q # r PROVE FrameOK(q)' /\ AnswerOK(q)'
    BY <1>5, OthersKept DEF Proxy, IInv, TypeOK
  <1> QED BY <1>3, <1>4, <1>5 DEF IInv

LEMMA RefuseKept == ASSUME IInv, NEW r \in Request, Refuse(r) PROVE IInv'
  <1>1. PICK s \in Status : Refusal(r, s) /\ Respond(r, Caller(r), s)
    BY DEF Refuse
  <1>2. sent[r] # Nil /\ sent[r] \in Errand /\ times[r] = 0 /\ log[r] = Nil
           /\ Admission(sent[r]) = "OK"
    BY DEF Refuse, IInv, FrameOK, TypeOK
  <1>3. Caller(r) \in Tier
    BY CallerTier
  <1>4. TypeOK'
    BY <1>1, <1>3, Responded DEF IInv, TypeOK, Refuse, Step
  <1>5. FrameOK(r)'
    BY <1>2 DEF Refuse, IInv, FrameOK, TypeOK, RouteOf, CustomerIdSchema
  <1>6. AnswerOK(r)'
    <2>1. Outcome(s) # "ok"
      BY <1>1 DEF Refusal, Outcome, grpcToHttp
    <2>2. s = "PERMISSION_DENIED" => Denied(r)
      <3> SUFFICES ASSUME s = "PERMISSION_DENIED" PROVE Denied(r)
        OBVIOUS
      <3>1. CASE requireSuperAdmin(r)
        <4>1. RouteOf(r) \in OwnAccount /\ sent[r].own
          BY <1>1, <3>1 DEF Refusal, ForbiddenError
        <4>2. RouteOf(r) \in AdminRoute /\ RouteOf(r) \in Guarded
          BY <4>1 DEF OwnAccount, AdminRoute, UserEdit, Guarded
        <4>3. RoleOf[sent[r].by] = Super
          BY <3>1, <4>2 DEF requireSuperAdmin, Refuse, IInv, FrameOK
        <4> QED BY <4>1, <4>2, <4>3 DEF Denied
      <3>2. CASE ~requireSuperAdmin(r)
        <4>1. RouteOf(r) \in Guarded /\ meta[r] = sent[r].by /\ meta[r] \in Admin
          BY <3>2 DEF requireSuperAdmin, Refuse, IInv, FrameOK, TypeOK
        <4>2. RoleOf[meta[r]] # Super
          BY <3>2, <4>1, ConstantsOK DEF requireSuperAdmin
        <4>3. RouteOf(r) \in UserEdit \cup UserRead
                 => RoleOf[sent[r].by] \notin requireRole(RouteOf(r))
          BY <4>1, <4>2 DEF requireRole, UserEdit, UserRead, InventoryEdit
        <4>4. RouteOf(r) \in AdminRoute
          BY <4>1 DEF Guarded, AdminRoute, SystemRead
        <4> QED BY <4>1, <4>2, <4>3, <4>4 DEF Denied, Guarded, HasRole, RouteOf
      <3> QED BY <3>1, <3>2
    <2>3. s # "UNAUTHENTICATED"
      BY <1>1 DEF Refusal
    <2> QED BY <1>1, <1>2, <1>3, <2>1, <2>2, <2>3, EndedTruly DEF Refuse
  <1>7. ASSUME NEW q \in Request, q # r PROVE FrameOK(q)' /\ AnswerOK(q)'
    BY <1>1, <1>3, <1>7, OthersKept, Responded DEF Refuse, IInv, TypeOK
  <1> QED BY <1>4, <1>5, <1>6, <1>7 DEF IInv

LEMMA WriteKept == ASSUME IInv, NEW r \in Request, Write(r) PROVE IInv'
  <1>1. /\ sent[r] # Nil /\ sent[r] \in Errand /\ times[r] = 0 /\ log[r] = Nil
        /\ applied[r] = 0 /\ Admission(sent[r]) = "OK" /\ CustomerIdSchema(r)
    BY DEF Write, Passes, IInv, FrameOK, TypeOK
  <1>2. /\ at'[r] = "written" /\ times'[r] = 1
        /\ \A q \in Request \ {r} : at'[q] = at[q] /\ times'[q] = times[q]
                                      /\ applied'[q] = applied[q]
    BY <1>1 DEF Write, IInv, TypeOK
  <1>3. stock \in Int /\ stock' \in 0..MaxInt
    BY DEF Write, IInv, TypeOK
  <1>4. IF RouteOf(r) = "updateStock" THEN IsWhole(applied'[r], sent[r].delta)
                                      ELSE applied'[r] = 0
    <2>1. applied'[r] = stock' - stock
      BY <1>1, <1>3 DEF Write, IInv, TypeOK
    <2>2. sent[r].delta \in Int
      <3>1. Delta \cup {0} \subseteq Int
        BY ConstantsOK
      <3>2. sent[r].delta \in Delta \cup {0}
        BY <1>1 DEF Errand
      <3> QED BY <3>1, <3>2
    <2>3. RouteOf(r) = "updateStock" => applied'[r] = Wire(sent[r].delta)
      BY <1>3, <2>1, <2>2, WireWhole DEF Write, DeltaOf
    <2>4. RouteOf(r) # "updateStock" => applied'[r] = 0
      BY <1>3, <2>1 DEF Write
    <2> QED BY <2>2, <2>3, <2>4, WireWhole
  <1>5. TypeOK'
    <2>1. times' \in [Request -> {0, 1}] /\ applied' \in [Request -> Int]
      BY <1>1, <1>3 DEF Write, IInv, TypeOK
    <2> QED BY <1>3, <2>1 DEF Write, IInv, TypeOK, Step
  <1>6. FrameOK(r)'
    BY <1>1, <1>2, <1>4 DEF Write, IInv, FrameOK, RouteOf, CustomerIdSchema
  <1>7. AnswerOK(r)'
    BY <1>2 DEF Write, IInv, AnswerOK, RouteOf, Denied
  <1>8. ASSUME NEW q \in Request, q # r PROVE FrameOK(q)' /\ AnswerOK(q)'
    BY <1>2, <1>8, OthersKept DEF Write
  <1> QED BY <1>5, <1>6, <1>7, <1>8 DEF IInv

LEMMA FinishKept == ASSUME IInv, NEW r \in Request, Finish(r) PROVE IInv'
  <1>1. sent[r] # Nil /\ times[r] = 1 /\ log[r] \in Admin \cup {Nil}
    BY DEF Finish, IInv, FrameOK, TypeOK
  <1>2. Caller(r) \in Tier /\ "OK" \in Status
    BY CallerTier DEF Status
  <1>3. \/ log' = [log EXCEPT ![r] = meta[r]]
        \/ log' = log
    BY DEF Finish
  <1>4. TypeOK'
    BY <1>2, <1>3, Responded DEF IInv, TypeOK, Finish, Step
  <1>5. FrameOK(r)'
    BY <1>1, <1>3 DEF Finish, IInv, FrameOK, TypeOK, RouteOf, CustomerIdSchema
  <1>6. AnswerOK(r)'
    BY <1>1, <1>2, EndedTruly DEF Finish, Outcome, grpcToHttp
  <1>7. ASSUME NEW q \in Request, q # r PROVE FrameOK(q)' /\ AnswerOK(q)'
    BY <1>2, <1>3, <1>7, OthersKept, Responded DEF Finish, IInv, TypeOK
  <1> QED BY <1>4, <1>5, <1>6, <1>7 DEF IInv

LEMMA FailKept == ASSUME IInv, NEW r \in Request, Fail(r) PROVE IInv'
  <1>1. PICK s \in {"INTERNAL", "UNAVAILABLE", "RESOURCE_EXHAUSTED"} :
           Respond(r, Caller(r), s)
    BY DEF Fail
  <1>2. Caller(r) \in Tier /\ s \in Status
    BY CallerTier DEF Status
  <1>3. TypeOK'
    BY <1>1, <1>2, Responded DEF IInv, TypeOK, Fail, Step
  <1>4. FrameOK(r)'
    BY DEF Fail, IInv, FrameOK, TypeOK, RouteOf, CustomerIdSchema
  <1>5. AnswerOK(r)'
    <2>1. Outcome(s) = "failed"
      BY DEF Outcome, grpcToHttp
    <2> QED BY <1>1, <1>2, <2>1, EndedTruly DEF Fail
  <1>6. ASSUME NEW q \in Request, q # r PROVE FrameOK(q)' /\ AnswerOK(q)'
    BY <1>1, <1>2, <1>6, OthersKept, Responded DEF Fail, IInv, TypeOK
  <1> QED BY <1>3, <1>4, <1>5, <1>6 DEF IInv

LEMMA LoseKept == ASSUME IInv, NEW r \in Request, Lose(r) PROVE IInv'
  <1>1. PICK tier \in {Middle, Gateway, Client} :
           at[r] # "idle" /\ Respond(r, tier, "UNAVAILABLE")
    BY DEF Lose, Middle, Gateway, Client
  <1>2. tier \in Tier /\ "UNAVAILABLE" \in Status
    BY DEF Tier, Middle, Gateway, Client, Status
  <1>3. TypeOK'
    BY <1>1, <1>2, Responded DEF IInv, TypeOK, Lose
  <1>4. FrameOK(r)' /\ AnswerOK(r)'
    <2>1. FrameOK(r)'
      BY <1>1 DEF Lose, IInv, FrameOK, RouteOf, CustomerIdSchema
    <2>2. AnswerOK(r)'
      <3>1. Outcome("UNAVAILABLE") = "failed"
        BY DEF Outcome, grpcToHttp
      <3>2. CASE answer'[r] = [tier |-> tier, status |-> "UNAVAILABLE"]
        BY <3>1, <3>2 DEF AnswerOK
      <3>3. CASE answer'[r] = answer[r]
        BY <3>3 DEF Lose, IInv, AnswerOK, RouteOf, Denied
      <3> QED BY <1>1, <1>2, <3>2, <3>3, Responded DEF IInv
    <2> QED BY <2>1, <2>2
  <1>5. ASSUME NEW q \in Request, q # r PROVE FrameOK(q)' /\ AnswerOK(q)'
    BY <1>1, <1>2, <1>5, OthersKept, Responded DEF Lose, IInv, TypeOK
  <1> QED BY <1>3, <1>4, <1>5 DEF IInv

LEMMA ReturnKept == ASSUME IInv, NEW r \in Request, Return(r) PROVE IInv'
  <1> DEFINE up == answer[r].tier + 1
             s == answer[r].status
  <1>1. up \in Tier /\ s \in Status /\ answer[r].tier # Unheard
    BY DEF Return, IInv, TypeOK, Tier, Middle, Gateway, Unheard
  <1>2. TypeOK'
    BY <1>1, Responded DEF IInv, TypeOK, Return
  <1>3. FrameOK(r)'
    BY <1>1 DEF Return, IInv, FrameOK, RouteOf, CustomerIdSchema
  <1>4. AnswerOK(r)'
    <2>1. answer'[r].status = s
      <3>1. TypeOK /\ Respond(r, up, s)
        BY DEF Return, IInv
      <3>2. answer'[r] = [tier |-> up, status |-> s] \/ answer'[r] = answer[r]
        <4> HIDE DEF up, s
        <4> QED BY <1>1, <3>1, Responded
      <3> QED BY <3>2
    <2> QED BY <1>1, <2>1 DEF Return, IInv, AnswerOK, RouteOf, Denied
  <1>5. ASSUME NEW q \in Request, q # r PROVE FrameOK(q)' /\ AnswerOK(q)'
    BY <1>1, <1>5, OthersKept, Responded DEF Return, IInv, TypeOK
  <1> QED BY <1>2, <1>3, <1>4, <1>5 DEF IInv

LEMMA NextIInv == IInv /\ [Next]_vars => IInv'
  <1> SUFFICES ASSUME IInv, [Next]_vars PROVE IInv'
    OBVIOUS
  <1>1. CASE UNCHANGED vars
    BY <1>1 DEF vars, IInv, TypeOK, FrameOK, AnswerOK, RouteOf, CustomerIdSchema, Denied, Denied
  <1>2. ASSUME NEW r \in Request, Ask(r) \/ Serve(r) \/ Lose(r) PROVE IInv'
    BY <1>2, AskKept, TurnAwayKept, ForwardKept, ProxyKept, RefuseKept, WriteKept,
       FinishKept, FailKept, LoseKept, ReturnKept DEF Serve
  <1> QED BY <1>1, <1>2 DEF Next
-----------------------------------------------------------------------------
(* Theorems.                                                               *)

LEMMA IInvAlways == Spec => []IInv
  <1>1. Init => IInv
    BY InitIInv
  <1>2. IInv /\ [Next]_vars => IInv'
    BY NextIInv
  <1> QED BY <1>1, <1>2, PTL DEF Spec

\* Types, the stock within its column, and nothing carried out twice.
THEOREM TypeCorrect == Spec => []TypeOK
  <1>1. IInv => TypeOK
    BY DEF IInv
  <1> QED BY <1>1, IInvAlways, PTL

\* Each role's routes are among those the README grants it; what the routes keep
\* back of these is the maintainers' deletions.
LEMMA RolesGranted ==
    ASSUME NEW role \in Role, NEW route \in AdminRoute
    PROVE  /\ role \in requireRole(route) => route \in Granted(role)
           /\ role \notin requireRole(route) =>
                 \/ route \notin Granted(role)
                 \/ role = "maintainer" /\ route \in InventoryDelete
  <1>1. CASE role = Super
    BY <1>1 DEF Granted, Super, requireRole, Role
  <1>2. CASE role = "maintainer"
    BY <1>2 DEF Granted, Super, requireRole, Role, AdminRoute, InventoryRoute,
       InventoryEdit, InventoryDelete, InventoryRead, UserEdit, UserRead, SystemRead
  <1>3. CASE role = "reporter"
    BY <1>3 DEF Granted, Super, requireRole, Role, AdminRoute, InventoryRoute,
       InventoryEdit, InventoryDelete, InventoryRead, UserEdit, UserRead, SystemRead
  <1> QED BY <1>1, <1>2, <1>3 DEF Role

\* Whatever token anyone sends to whatever route, nothing is carried out for
\* whom it is not meant: requireRole (auth.middleware.ts) stops customers and
\* admins without the role, validateGrpc in customer-service the admins.
THEOREM CarriedOutOnlyIfGranted == Spec => []CarriedOutIfGranted
  <1>1. IInv => CarriedOutIfGranted
    <2> SUFFICES ASSUME IInv, NEW r \in Request, times[r] > 0
                 PROVE  MayUse(sent[r])
      BY DEF CarriedOutIfGranted
    <2>1. Admission(sent[r]) = "OK" /\ CustomerIdSchema(r)
      BY DEF IInv, FrameOK, TypeOK
    <2>2. HasRole(sent[r])
      BY <2>1 DEF Admission
    <2>3. ASSUME RouteOf(r) \in AdminRoute
          PROVE  sent[r].by \in Admin /\ RouteOf(r) \in Granted(RoleOf[sent[r].by])
      <3>1. sent[r].by \in Admin /\ RoleOf[sent[r].by] \in requireRole(RouteOf(r))
        BY <2>2, <2>3 DEF HasRole, RouteOf
      <3> QED BY <2>3, <3>1, RolesGranted, ConstantsOK
    <2> QED BY <2>1, <2>3 DEF MayUse, CustomerIdSchema, RouteOf
  <1> QED BY <1>1, IInvAlways, PTL

\* A 401 means that no token was sent, and a 403 has one of its four reasons,
\* whichever of the tiers gives it (requireRole in the gateway, requireSuperAdmin
\* and the look at one's own account in admin-service).
THEOREM RefusedOnlyIfNotGranted == Spec => []RefusedIfNotGranted
  <1>1. IInv => RefusedIfNotGranted
    <2> SUFFICES ASSUME IInv, NEW r \in Request, Answered(r)
                 PROVE  /\ answer[r].status = "UNAUTHENTICATED" =>
                              sent[r].by = Nobody /\ RouteOf(r) \notin PublicRead
                        /\ answer[r].status = "PERMISSION_DENIED" =>
                              MayBeForbidden(sent[r])
      BY DEF RefusedIfNotGranted
    <2>1. AnswerOK(r) /\ answer[r].tier # Unheard
      BY DEF IInv, Answered, Client, Unheard
    <2>2. answer[r].status = "UNAUTHENTICATED" =>
             sent[r].by = Nobody /\ RouteOf(r) \notin PublicRead
      BY <2>1 DEF AnswerOK, Authenticated, RouteOf
    <2>3. ASSUME answer[r].status = "PERMISSION_DENIED"
          PROVE  MayBeForbidden(sent[r])
      <3> DEFINE e == sent[r]
      <3>1. Denied(r) /\ e.route \in AdminRoute
        BY <2>1, <2>3 DEF AnswerOK, Denied, RouteOf
      <3>2. CASE e.by \notin Admin
        BY <3>1, <3>2 DEF MayBeForbidden, MayUse
      <3>3. CASE e.by \in Admin
        <4>1. RoleOf[e.by] \in Role
          BY <3>3, ConstantsOK
        <4>2. CASE ~HasRole(e)
          <5>1. RoleOf[e.by] \notin requireRole(e.route)
            BY <3>3, <4>2 DEF HasRole
          <5> QED BY <3>1, <4>1, <5>1, RolesGranted DEF MayBeForbidden, MayUse
        <4>3. CASE HasRole(e)
          BY <3>1, <4>3 DEF Denied, MayBeForbidden, RouteOf
        <4> QED BY <4>2, <4>3
      <3> QED BY <3>2, <3>3
    <2> QED BY <2>2, <2>3
  <1> QED BY <1>1, IInvAlways, PTL

\* An audit row names the sender of the request it tells of.
THEOREM Attributed == Spec => []AttributedToSender
  <1>1. IInv => AttributedToSender
    BY DEF IInv, FrameOK, AttributedToSender
  <1> QED BY <1>1, IInvAlways, PTL

\* What the browser hears of an adjustment is what the stock has gone through.
THEOREM Adjusted == Spec => []AdjustedAsTold
  <1>1. IInv => AdjustedAsTold
    <2> SUFFICES ASSUME IInv, NEW r \in Request, Answered(r)
                 PROVE  LET outcome == Outcome(answer[r].status)
                            whole == RouteOf(r) = "updateStock"
                                       /\ IsWhole(applied[r], sent[r].delta)
                        IN  /\ outcome = "ok" => whole \/ RouteOf(r) # "updateStock"
                            /\ outcome = "refused" => applied[r] = 0
                            /\ applied[r] = 0 \/ whole
      BY DEF AdjustedAsTold
    <2>1. /\ Outcome(answer[r].status) = "ok" => times[r] = 1
          /\ Outcome(answer[r].status) = "refused" => times[r] = 0
      BY DEF IInv, AnswerOK, Answered, Client, Unheard
    <2>2. IF times[r] = 1 /\ RouteOf(r) = "updateStock"
          THEN IsWhole(applied[r], sent[r].delta)
          ELSE applied[r] = 0
      BY DEF IInv, FrameOK
    <2> QED BY <2>1, <2>2
  <1> QED BY <1>1, IInvAlways, PTL

-----------------------------------------------------------------------------
(* The path implements Rpc.                                                *)

Reply(r) == IF Answered(r) THEN Outcome(answer[r].status) ELSE "none"

\* A step of one request that sends it maps to Ask.
LEMMA AskMaps == ASSUME IInv, NEW r \in Request, Ask(r)
                 PROVE  Promise!Ask(r)
  <1>1. PICK e \in Errand : sent' = [sent EXCEPT ![r] = e]
    BY DEF Ask
  <1>2. sent[r] = Nil /\ sent'[r] # Nil /\ \A q \in Request \ {r} : sent'[q] = sent[q]
    BY <1>1, NilApart DEF Ask, IInv, TypeOK
  <1> QED BY <1>2 DEF Promise!Ask, Ask, Answered

\* Writing maps to CarryOut: as long as the handler has not written, nobody
\* has been told that the request was refused.
LEMMA WriteMaps == ASSUME IInv, NEW r \in Request, Write(r)
                   PROVE  Promise!CarryOut(r)
  <1>1. sent[r] # Nil /\ times[r] = 0
    BY DEF Write, IInv, FrameOK
  <1>2. Reply(r) # "refused"
    BY DEF Write, IInv, AnswerOK, Reply, Answered, Client, Unheard
  <1>3. times' = [times EXCEPT ![r] = 1]
    BY <1>1 DEF Write, IInv, TypeOK
  <1> QED BY <1>1, <1>2, <1>3 DEF Promise!CarryOut, Write, Answered, Reply

\* A step that sends nothing and writes nothing maps to Answer or a stutter.
LEMMA QuietMaps ==
    ASSUME IInv, IInv', NEW r \in Request, sent[r] # Nil,
           UNCHANGED <<sent, times>>,
           answer[r].tier = Client => answer'[r] = answer[r],
           \A q \in Request \ {r} : answer'[q] = answer[q]
    PROVE  \/ \E a \in Promise!Reply \ {"none"} : Promise!Answer(r, a)
           \/ UNCHANGED Promise!vars
  <1>1. \A q \in Request \ {r} : Reply(q)' = Reply(q)
    BY DEF Reply, Answered
  <1>2. CASE Answered(r)' /\ ~Answered(r)
    <2> DEFINE a == Outcome(answer'[r].status)
    <2>1. a \in {"ok", "refused", "failed"}
      BY DEF Outcome
    <2>2. (a = "ok" => times[r] = 1) /\ (a = "refused" => times[r] = 0)
      BY <1>2 DEF IInv, AnswerOK, Answered, Client, Unheard
    <2>3. Reply(r) = "none" /\ Reply(r)' = a
      BY <1>2 DEF Reply
    <2>4. [q \in Request |-> Reply(q)'] = [[q \in Request |-> Reply(q)] EXCEPT ![r] = a]
      BY <1>1, <2>3
    <2> HIDE DEF a
    <2>5. Promise!Answer(r, a)
      BY <2>2, <2>3, <2>4 DEF Promise!Answer, Reply
    <2> QED BY <2>1, <2>5 DEF Promise!Reply
  <1>3. CASE ~(Answered(r)' /\ ~Answered(r))
    <2>1. Reply(r)' = Reply(r)
      BY <1>3 DEF Reply, Answered
    <2>2. [q \in Request |-> Reply(q)'] = [q \in Request |-> Reply(q)]
      BY <1>1, <2>1
    <2> QED BY <2>2 DEF Promise!vars, Reply
  <1> QED BY <1>2, <1>3

\* Whatever responds leaves an answer the browser has as it is.
LEMMA AnswerFinal ==
    ASSUME TypeOK, NEW r \in Request, NEW tier \in Tier, NEW status \in Status,
           Respond(r, tier, status)
    PROVE  answer[r].tier = Client => answer'[r] = answer[r]
  BY DEF TypeOK, Respond, Tier, Client

LEMMA StepMaps == ASSUME IInv, [Next]_vars PROVE [Promise!Next]_(Promise!vars)
  <1>0. IInv'
    BY NextIInv
  <1>1. CASE UNCHANGED vars
    BY <1>1 DEF vars, Promise!vars, Answered
  <1>2. ASSUME NEW r \in Request, Ask(r) \/ Serve(r) \/ Lose(r)
        PROVE  Promise!Next \/ UNCHANGED Promise!vars
    <2>1. CASE Ask(r)
      BY <2>1, AskMaps DEF Promise!Next
    <2>2. CASE Write(r)
      BY <2>2, WriteMaps DEF Promise!Next
    <2>3. CASE Forward(r) \/ Proxy(r)
      BY <2>3 DEF Forward, Proxy, Promise!vars, Answered
    <2>4. CASE TurnAway(r) \/ Refuse(r) \/ Finish(r) \/ Fail(r) \/ Lose(r) \/ Return(r)
      <3>1. sent[r] # Nil /\ UNCHANGED <<sent, times>>
        BY <2>4 DEF TurnAway, Refuse, Finish, Fail, Lose, Return, IInv, FrameOK,
           Unheard, Middle, Gateway, Client
      <3>2. \E tier \in Tier, status \in Status : Respond(r, tier, status)
        <4>1. CASE TurnAway(r)
          BY <4>1 DEF TurnAway, Admission, Status, Tier, Client
        <4>2. CASE Refuse(r) \/ Finish(r) \/ Fail(r)
          BY <4>2, CallerTier DEF Refuse, Finish, Fail, Status
        <4>3. CASE Lose(r)
          BY <4>3 DEF Lose, Status, Tier, Middle, Gateway, Client
        <4>4. CASE Return(r)
          <5>1. answer[r].tier + 1 \in Tier /\ answer[r].status \in Status
            BY <4>4 DEF Return, IInv, TypeOK, Tier, Middle, Gateway
          <5> QED BY <4>4, <5>1 DEF Return
        <4> QED BY <2>4, <4>1, <4>2, <4>3, <4>4
      <3>3. /\ answer[r].tier = Client => answer'[r] = answer[r]
            /\ \A q \in Request \ {r} : answer'[q] = answer[q]
        BY <3>2, AnswerFinal, Responded DEF IInv
      <3> QED BY <1>0, <3>1, <3>3, QuietMaps DEF Promise!Next
    <2> QED BY <1>2, <2>1, <2>2, <2>3, <2>4 DEF Serve
  <1> QED BY <1>1, <1>2 DEF Next

\* Every behaviour of the path is one that Rpc allows: nothing is carried out
\* twice, success is answered only to what was, a 4xx only to what never is.
THEOREM PathKeepsPromise == Spec => PromiseKept
  <1>1. Init => Promise!Init
    <2> SUFFICES ASSUME Init PROVE Promise!Init
      OBVIOUS
    <2>1. \A r \in Request : (sent[r] # Nil) = FALSE
      BY DEF Init
    <2>2. [r \in Request |-> sent[r] # Nil] = [r \in Request |-> FALSE]
      BY <2>1, Zenon
    <2>3. ASSUME NEW r \in Request PROVE ~Answered(r)
      <3>1. answer[r] = Awaited
        BY DEF Init
      <3> QED BY <3>1 DEF Awaited, Answered, Client, Unheard
    <2>4. [r \in Request |-> Reply(r)] = [r \in Request |-> "none"]
      BY <2>3 DEF Reply
    <2>5. times = [r \in Request |-> 0]
      BY DEF Init
    <2> QED BY <2>2, <2>4, <2>5, Zenon DEF Promise!Init, Reply
  <1>2. IInv /\ [Next]_vars => [Promise!Next]_(Promise!vars)
    BY StepMaps
  <1> QED BY <1>1, <1>2, IInvAlways, PTL DEF Spec, PromiseKept, Promise!Spec

-----------------------------------------------------------------------------
(* A walk through a list: places and ranks.                                *)

\* Where a product is in a list without ties.
Rank(p) == Cardinality({q \in listed : created[q] > created[p]})

WalkLists ==
  /\ created \in [Product -> Second]
  /\ listed \in SUBSET Product

LEMMA MinOfTwo ==
  ASSUME NEW a \in Int, NEW b \in Int
  PROVE  Min({a, b}) = IF a <= b THEN a ELSE b
BY DEF Min

LEMMA ListedFinite ==
  ASSUME WalkLists
  PROVE  /\ IsFiniteSet(listed) /\ Total \in Nat
         /\ \A p \in Product : /\ Rank(p) \in Nat
                               /\ p \in listed => Rank(p) < Total
<1>1. IsFiniteSet(listed) /\ Total \in Nat
  BY WalkProducts, FS_Subset, FS_CardinalityType DEF WalkLists, Total
<1>2. ASSUME NEW p \in Product
      PROVE  Rank(p) \in Nat /\ (p \in listed => Rank(p) < Total)
  <2> DEFINE newer == {q \in listed : created[q] > created[p]}
  <2>1. IsFiniteSet(newer) /\ Cardinality(newer) \in Nat /\ Cardinality(newer) <= Total
    BY <1>1, FS_Subset, FS_CardinalityType DEF Total
  <2>2. p \notin newer
    <3>1. created[p] \in Int
      BY WalkSeconds DEF WalkLists
    <3>2. ~(created[p] > created[p])
      BY <3>1
    <3> QED
      BY <3>2
  <2>3. p \in listed => newer # listed
    BY <2>2
  <2>4. p \in listed => Cardinality(newer) # Total
    BY <1>1, <2>3, FS_Subset DEF Total
  <2> HIDE DEF newer
  <2>5. p \in listed => Cardinality(newer) < Total
    BY <1>1, <2>1, <2>4
  <2> QED
    BY <2>1, <2>5 DEF Rank, newer
<1> QED
  BY <1>1, <1>2

\* An order has every listed product at one place, the newer ones before it.
LEMMA InOrder ==
  ASSUME WalkLists, NEW s \in Orders
  PROVE  /\ s \in [1..Total -> listed] /\ s \in Seq(listed) /\ Len(s) = Total
         /\ \A i, j \in 1..Total : i # j => s[i] # s[j]
         /\ \A i, j \in 1..Total : i < j => created[s[i]] >= created[s[j]]
         /\ \A p \in listed : \E i \in 1..Total : s[i] = p
<1>1. IsFiniteSet(listed) /\ Total \in Nat
  BY ListedFinite
<1>2. /\ s \in [1..Total -> listed]
      /\ \A i, j \in 1..Total : i # j => s[i] # s[j]
      /\ \A i, j \in 1..Total : i < j => created[s[i]] >= created[s[j]]
  BY DEF Orders, SetToSeqs, Total
<1>3. s \in Seq(listed) /\ Len(s) = Total
  BY <1>1, <1>2
<1>4. s \in Injection(1..Total, listed)
  BY <1>2 DEF Injection, IsInjective
<1>5. IsFiniteSet(1..Total) /\ Cardinality(1..Total) = Total
  BY <1>1, FS_Interval
<1>6. s \in Surjection(1..Total, listed)
  BY <1>1, <1>4, <1>5, FS_Injection DEF Total
<1> QED
  BY <1>2, <1>3, <1>6 DEF Surjection

Alone(p) == \A q \in listed \ {p} : created[q] # created[p]

\* Without a tie, the place is the rank.
LEMMA PlaceIsRank ==
  ASSUME WalkLists, NEW s \in Orders, NEW i \in 1..Total, Alone(s[i])
  PROVE  Rank(s[i]) = i - 1
<1> DEFINE newer == {q \in listed : created[q] > created[s[i]]}
           f == [j \in 1..(i - 1) |-> s[j]]
<1>1. Total \in Nat
  BY ListedFinite
<1>2. 1..(i - 1) \subseteq 1..Total /\ i \in Int /\ \A j \in 1..(i - 1) : j < i /\ j \in 1..Total
  BY <1>1
<1>3. /\ s \in [1..Total -> listed]
      /\ \A j, k \in 1..Total : j # k => s[j] # s[k]
      /\ \A j, k \in 1..Total : j < k => created[s[j]] >= created[s[k]]
      /\ \A p \in listed : \E j \in 1..Total : s[j] = p
  BY InOrder
<1>4. \A q \in listed : created[q] \in Int
  BY WalkSeconds DEF WalkLists
<1>5. ASSUME NEW j \in 1..(i - 1) PROVE s[j] \in newer
  <2>1. j < i /\ j \in 1..Total /\ j # i
    BY <1>2
  <2>2. s[j] \in listed /\ s[i] \in listed /\ s[j] # s[i] /\ created[s[j]] >= created[s[i]]
    BY <1>3, <2>1
  <2>3. created[s[j]] # created[s[i]]
    BY <2>2 DEF Alone
  <2> QED
    BY <1>4, <2>2, <2>3
<1>6. ASSUME NEW q \in newer PROVE \E j \in 1..(i - 1) : s[j] = q
  <2>1. PICK j \in 1..Total : s[j] = q
    BY <1>3
  <2>2. created[s[i]] \in Int /\ created[q] \in Int /\ created[q] > created[s[i]]
    BY <1>3, <1>4
  <2>3. ~(i < j) /\ j # i
    BY <1>3, <2>1, <2>2
  <2>4. j \in 1..(i - 1)
    BY <1>1, <2>3
  <2> QED
    BY <2>1, <2>4
<1>7. f \in Bijection(1..(i - 1), newer)
  <2>1. f \in [1..(i - 1) -> newer]
    BY <1>5
  <2>2. \A j, k \in 1..(i - 1) : f[j] = f[k] => j = k
    BY <1>2, <1>3
  <2>3. \A q \in newer : \E j \in 1..(i - 1) : f[j] = q
    BY <1>6
  <2> HIDE DEF newer, f
  <2> QED
    BY <2>1, <2>2, <2>3 DEF Bijection, Injection, IsInjective, Surjection
<1>8. IsFiniteSet(1..(i - 1)) /\ Cardinality(1..(i - 1)) = i - 1
  BY <1>1, <1>2, FS_Interval
<1>9. Cardinality(newer) = i - 1
  BY <1>7, <1>8, FS_Bijection DEF ExistsBijection
<1> QED
  BY <1>9 DEF Rank

\* A page shows just the products whose rank is on it.
LEMMA PageShows ==
  ASSUME WalkLists, NEW page \in Nat, page > 0, NEW rows \in Rows(page)
  PROVE  /\ rows \in Seq(Product) /\ ToSet(rows) \subseteq listed
         /\ \A p \in listed : Alone(p) =>
              (p \in ToSet(rows) <=>
                 (page - 1) * Limit <= Rank(p) /\ Rank(p) < page * Limit)
<1> DEFINE off == (page - 1) * Limit
<1>1. Limit \in Nat /\ Limit > 0 /\ Limit <= MaxLimit /\ MaxLimit \in Nat
  BY WalkLimits
<1>2. off \in Nat /\ page * Limit = off + Limit
  BY <1>1
<1>3. clampPagination(page, Limit) = [safeLimit |-> Limit, safeOffset |-> off]
  <2>1. Min({Limit, MaxLimit}) = Limit
    BY <1>1, MinOfTwo
  <2> QED
    BY <1>1, <2>1 DEF clampPagination
<1> HIDE DEF off
<1>4. PICK s \in Orders :
        rows = SubSeq(s, off + 1, Min({off + Limit, Len(s)}))
  <2>1. /\ clampPagination(page, Limit).safeOffset = off
        /\ clampPagination(page, Limit).safeLimit = Limit
    BY <1>3
  <2> QED
    BY <2>1, Zenon DEF Rows
<1>5. /\ s \in [1..Total -> listed] /\ s \in Seq(listed) /\ Len(s) = Total
      /\ \A i, j \in 1..Total : i # j => s[i] # s[j]
      /\ \A p \in listed : \E i \in 1..Total : s[i] = p
      /\ Total \in Nat
  BY InOrder, ListedFinite
<1> DEFINE last == IF off + Limit <= Total THEN off + Limit ELSE Total
<1>6. rows = SubSeq(s, off + 1, last)
  <2>1. Min({off + Limit, Total}) = last
    BY <1>1, <1>2, <1>5, MinOfTwo
  <2> HIDE DEF last
  <2> QED
    BY <1>4, <1>5, <2>1, Zenon
<1>7. last \in Int /\ off + 1 \in Int /\ \A i \in (off + 1)..last : i \in 1..Total
  BY <1>1, <1>2, <1>5
<1>8. /\ rows \in Seq(listed)
      /\ Len(rows) = IF off + 1 <= last THEN last - (off + 1) + 1 ELSE 0
      /\ \A i \in 1..(last - (off + 1) + 1) : rows[i] = s[off + 1 + i - 1]
  <2>1. \A i \in (off + 1)..last : s[i] \in listed
    BY <1>5, <1>7
  <2> HIDE DEF last
  <2>2. LET t == SubSeq(s, off + 1, last)
        IN  /\ t \in Seq(listed)
            /\ Len(t) = IF off + 1 <= last THEN last - (off + 1) + 1 ELSE 0
            /\ \A i \in 1..(last - (off + 1) + 1) : t[i] = s[off + 1 + i - 1]
    BY <1>7, <2>1, SubSeqProperties
  <2> QED
    BY <1>6, <2>2, Zenon
<1>9. rows \in Seq(Product) /\ ToSet(rows) \subseteq listed
  <2>1. rows \in Seq(Product)
    BY <1>8, SeqMonotonic DEF WalkLists
  <2>2. DOMAIN rows = 1..Len(rows) /\ \A i \in 1..Len(rows) : rows[i] \in listed
    BY <1>8, LenProperties, ElementOfSeq
  <2> QED
    BY <2>1, <2>2 DEF ToSet
<1>10. ASSUME NEW p \in listed, Alone(p)
       PROVE  p \in ToSet(rows) <=> off <= Rank(p) /\ Rank(p) < off + Limit
  <2>1. PICK k \in 1..Total : s[k] = p
    BY <1>5
  <2>2. Rank(p) = k - 1
    BY <1>10, <2>1, PlaceIsRank
  <2>3. p \in ToSet(rows) <=> \E i \in 1..Len(rows) : rows[i] = p
    BY <1>8, LenProperties DEF ToSet
  <2>4. ASSUME NEW i \in 1..Len(rows)
        PROVE  off + i \in 1..Total /\ i <= Limit /\ rows[i] = s[off + i]
    <3>1. i \in 1..(last - (off + 1) + 1) /\ off + 1 + i - 1 = off + i
      BY <1>2, <1>7, <1>8
    <3>2. off + i \in 1..Total /\ i <= Limit
      BY <1>1, <1>2, <1>5, <3>1
    <3> QED
      BY <1>8, <3>1, <3>2
  <2>5. ASSUME NEW i \in 1..Len(rows), rows[i] = p
        PROVE  off <= k - 1 /\ k - 1 < off + Limit
    <3>1. off + i = k
      BY <1>5, <2>1, <2>4, <2>5
    <3> QED
      BY <1>1, <1>2, <2>4, <3>1
  <2>6. ASSUME off <= k - 1, k - 1 < off + Limit
        PROVE  \E i \in 1..Len(rows) : rows[i] = p
    <3>1. k - off \in 1..Len(rows)
      BY <1>1, <1>2, <1>5, <1>8, <2>6
    <3>2. rows[k - off] = s[k]
      <4>1. off + (k - off) = k
        BY <1>2
      <4> QED
        BY <2>4, <3>1, <4>1
    <3> QED
      BY <2>1, <3>1, <3>2
  <2> QED
    BY <2>2, <2>3, <2>5, <2>6
<1> QED
  BY <1>2, <1>9, <1>10 DEF off

WalkStep == {"idle", "get", "select", "count", "set", "answer"}

WalkType ==
  /\ WalkLists
  /\ entered \in SUBSET Product /\ left \in SUBSET Product /\ stale \in BOOLEAN
  /\ frame \in [pc : WalkStep, page : Nat, rows : Seq(Product), total : Nat]
  /\ walk \in [page : Nat, over : BOOLEAN,
               seen : SUBSET Product, twice : SUBSET Product]
  /\ cache # NoPage => cache \in [rows : Seq(Product), total : Nat]

\* What the request under way and the walk it belongs to have to do with one
\* another.
WalkPages ==
  /\ frame.pc = "idle" => frame = Idle
  /\ walk.over => frame.pc = "idle"
  /\ frame.pc # "idle" => frame.page = walk.page
  /\ frame.pc = "get" => frame.page = 1
  /\ ~walk.over => walk.page > 0
  /\ walk.page = 1 => walk.seen = {} /\ walk.twice = {}

Selected == frame.pc \in {"count", "set", "answer"}

\* A product that keeps its place, or moves backward, or forward.
Steady(p) == Ties(p) = {} /\ ~stale
NeverForward(p) == Steady(p) /\ left \cap Newer(p) = {}
NeverBackward(p) == Steady(p) /\ entered \cap Newer(p) = {}

\* A product not seen so far is on none of the pages so far.
Candidate == {p \in listed \ (entered \cup left \cup walk.seen) : NeverForward(p)}

AheadOf(p) ==
  /\ (walk.page - 1) * Limit <= Rank(p)
  /\ Selected /\ p \notin ToSet(frame.rows) =>
       /\ walk.page * Limit <= Rank(p)
       /\ frame.pc # "count" => walk.page * Limit < frame.total

Ahead == ~walk.over => \A p \in Candidate : AheadOf(p)

\* One seen is on one of them.
SeenBefore == \A p \in walk.seen :
  NeverBackward(p) => Rank(p) < (walk.page - 1) * Limit

ShownNow == Selected => \A p \in ToSet(frame.rows) :
  NeverBackward(p) => p \notin walk.seen /\ Rank(p) < walk.page * Limit

SeenTwice == \A p \in walk.twice : ~NeverBackward(p)

Behind == ~walk.over => SeenBefore /\ ShownNow /\ SeenTwice

WalkInv == WalkType /\ WalkPages /\ Ahead /\ Behind

LEMMA RankMoves ==
  ASSUME WalkLists, WalkLists', created' = created, NEW p \in Product
  PROVE  /\ Rank(p) \in Nat /\ Rank(p)' \in Nat
         /\ listed \subseteq listed' => Rank(p) <= Rank(p)'
         /\ listed' \subseteq listed => Rank(p)' <= Rank(p)
         /\ (\A q \in Newer(p) : q \in listed <=> q \in listed') => Rank(p)' = Rank(p)
<1> DEFINE newer == {q \in listed : created[q] > created[p]}
           later == {q \in listed' : created[q] > created[p]}
<1>1. Rank(p) = Cardinality(newer) /\ Rank(p)' = Cardinality(later)
  BY DEF Rank
<1>2. IsFiniteSet(newer) /\ IsFiniteSet(later)
  BY WalkProducts, FS_Subset DEF WalkLists
<1>3. listed \subseteq listed' => newer \subseteq later
  OBVIOUS
<1>4. listed' \subseteq listed => later \subseteq newer
  OBVIOUS
<1>5. (\A q \in Newer(p) : q \in listed <=> q \in listed') => newer = later
  BY DEF Newer, WalkLists
<1> HIDE DEF newer, later
<1>6. Cardinality(newer) \in Nat /\ Cardinality(later) \in Nat
  BY <1>2, FS_CardinalityType
<1>7. listed \subseteq listed' => Cardinality(newer) <= Cardinality(later)
  BY <1>2, <1>3, FS_Subset
<1>8. listed' \subseteq listed => Cardinality(later) <= Cardinality(newer)
  BY <1>2, <1>4, FS_Subset
<1> QED
  BY <1>1, <1>5, <1>6, <1>7, <1>8

LEMMA TiesStay ==
  ASSUME created' = created, listed \cup left \subseteq listed' \cup left'
  PROVE  \A p : Ties(p)' = {} => Ties(p) = {}
BY DEF Ties

LEMMA NoTieAlone == \A p : Ties(p) = {} => Alone(p)
BY DEF Ties, Alone

LEMMA LimitPositive == Limit \in Nat /\ Limit > 0
BY WalkLimits

-----------------------------------------------------------------------------
(* Types, and the request and its walk.                                    *)

LEMMA IdleType == Idle \in [pc : WalkStep, page : Nat, rows : Seq(Product), total : Nat]
<1>1. <<>> \in Seq(Product)
  BY EmptySeq
<1> QED
  BY <1>1 DEF Idle, WalkStep

LEMMA WalkInitType == WalkInit => WalkType /\ WalkPages
<1> SUFFICES ASSUME WalkInit PROVE WalkType /\ WalkPages
  OBVIOUS
<1>1. WalkType
  BY IdleType DEF WalkInit, WalkType, WalkLists
<1>2. WalkPages
  BY DEF WalkInit, WalkPages, Idle
<1> QED
  BY <1>1, <1>2

LEMMA WalkTypeStep ==
  ASSUME WalkType, WalkPages, [WalkNext]_walkVars
  PROVE  WalkType' /\ WalkPages'
<1> USE DEF WalkType, WalkPages, WalkLists, WalkStep, Idle, Walking
<1>1. CASE \E p \in Product : Enter(p)
  BY <1>1 DEF Enter
<1>2. CASE \E p \in Product : Leave(p)
  BY <1>2 DEF Leave
<1>3. CASE DropList
  BY <1>3 DEF DropList
<1>4. CASE WriterFails
  BY <1>4 DEF WriterFails
<1>5. CASE Expire
  BY <1>5 DEF Expire
<1>6. CASE ListProducts
  <2> DEFINE page == IF Walking THEN walk.page ELSE 1
  <2>1. page \in Nat /\ page > 0
    OBVIOUS
  <2>2. frame' = [Idle EXCEPT !.pc = IF page = 1 THEN "get" ELSE "select",
                              !.page = page]
    BY <1>6 DEF ListProducts
  <2>3. WalkType'
    <3>1. frame' \in [pc : WalkStep, page : Nat, rows : Seq(Product), total : Nat]
      BY <2>1, <2>2, IdleType
    <3>2. walk' \in [page : Nat, over : BOOLEAN,
                     seen : SUBSET Product, twice : SUBSET Product]
      <4>1. walk' = walk
              \/ walk' = [page |-> 1, over |-> FALSE, seen |-> {}, twice |-> {}]
        BY <1>6 DEF ListProducts
      <4>2. walk \in [page : Nat, over : BOOLEAN,
                      seen : SUBSET Product, twice : SUBSET Product]
        OBVIOUS
      <4>3. [page |-> 1, over |-> FALSE, seen |-> {}, twice |-> {}]
              \in [page : Nat, over : BOOLEAN,
                   seen : SUBSET Product, twice : SUBSET Product]
        OBVIOUS
      <4> QED
        BY <4>1, <4>2, <4>3, Zenon
    <3>3. /\ entered' \in SUBSET Product /\ left' \in SUBSET Product
          /\ UNCHANGED <<created, listed, cache, stale>>
      BY <1>6 DEF ListProducts
    <3> QED
      BY <3>1, <3>2, <3>3
  <2>4. WalkPages'
    BY <1>6, <2>1, <2>2 DEF ListProducts
  <2> QED
    BY <2>3, <2>4
<1>7. CASE GetPage
  <2>1. CASE cache = NoPage
    BY <1>7, <2>1 DEF GetPage
  <2>2. CASE cache # NoPage
    <3>1. cache.rows \in Seq(Product) /\ cache.total \in Nat
      BY <2>2
    <3>2. /\ frame' = [frame EXCEPT !.pc = "answer", !.rows = cache.rows,
                                    !.total = cache.total]
          /\ stale' = (cache.rows \notin Rows(1) \/ cache.total # Total)
          /\ UNCHANGED <<created, listed, writers, cache, walk, entered, left>>
      BY <1>7, <2>2 DEF GetPage
    <3>3. stale' \in BOOLEAN
      BY <3>2
    <3>4. frame' \in [pc : WalkStep, page : Nat, rows : Seq(Product), total : Nat]
      BY <3>1, <3>2
    <3> QED
      BY <1>7, <3>2, <3>3, <3>4 DEF GetPage
  <2> QED
    BY <2>1, <2>2
<1>8. CASE SelectRows
  <2>1. PICK rows \in Rows(frame.page) :
          frame' = [frame EXCEPT !.pc = "count", !.rows = rows]
    BY <1>8 DEF SelectRows
  <2>2. frame.page \in Nat /\ frame.page > 0
    BY <1>8 DEF SelectRows
  <2>3. rows \in Seq(Product)
    BY <2>2, PageShows
  <2> QED
    BY <1>8, <2>1, <2>3 DEF SelectRows
<1>9. CASE CountRows
  <2>1. Total \in Nat
    BY ListedFinite
  <2> QED
    BY <1>9, <2>1 DEF CountRows
<1>10. CASE SetPage
  BY <1>10 DEF SetPage
<1>11. CASE Answer
  <2>1. ToSet(frame.rows) \in SUBSET Product
    BY LenProperties, ElementOfSeq DEF ToSet
  <2>2. walk.page \in Nat /\ walk.page > 0 /\ frame.page = walk.page
    BY <1>11 DEF Answer
  <2> QED
    BY <1>11, <2>1, <2>2 DEF Answer
<1>12. CASE WalkFails
  BY <1>12 DEF WalkFails
<1>13. CASE UNCHANGED walkVars
  BY <1>13 DEF walkVars
<1> QED
  BY <1>1, <1>2, <1>3, <1>4, <1>5, <1>6, <1>7, <1>8, <1>9, <1>10, <1>11,
     <1>12, <1>13 DEF WalkNext

-----------------------------------------------------------------------------
(* What a page shows of a product that keeps its place.                    *)

LEMMA SelectShows ==
  ASSUME WalkType, NEW page \in Nat, page > 0, NEW rows \in Rows(page)
  PROVE  /\ ToSet(rows) \subseteq listed
         /\ \A p \in listed : Ties(p) = {} =>
              (p \in ToSet(rows) <=>
                 (page - 1) * Limit <= Rank(p) /\ Rank(p) < page * Limit)
BY PageShows, NoTieAlone DEF WalkType

\* Steps that leave the lists and what is known of them alone.
LEMMA NothingMoves ==
  ASSUME UNCHANGED <<created, listed, entered, left, stale>>
  PROVE  /\ \A p : Rank(p)' = Rank(p)
         /\ \A p : NeverForward(p)' <=> NeverForward(p)
         /\ \A p : NeverBackward(p)' <=> NeverBackward(p)
BY DEF Rank, NeverForward, NeverBackward, Steady, Ties, Newer

\* A writer moves a product forward or backward, or not at all.
LEMMA WritesMove ==
  ASSUME WalkType, WalkType', NEW q \in Product, Enter(q) \/ Leave(q), ~walk.over
  PROVE  \A p \in Product :
           /\ NeverForward(p)' => NeverForward(p) /\ Rank(p) <= Rank(p)'
           /\ NeverBackward(p)' => NeverBackward(p) /\ Rank(p)' <= Rank(p)
           /\ Rank(p) \in Nat /\ Rank(p)' \in Nat
<1> TAKE p \in Product
<1>0. /\ WalkLists /\ WalkLists' /\ created' = created /\ stale' = stale
      /\ Newer(p)' = Newer(p)
  BY DEF WalkType, Enter, Leave, Newer
<1>1. CASE Enter(q)
  <2>1. listed' = listed \cup {q} /\ entered' = entered \cup {q} /\ left' = left
    BY <1>1 DEF Enter, Walking
  <2>2. Ties(p)' = {} => Ties(p) = {}
    BY <1>0, <2>1, TiesStay
  <2>3. NeverForward(p)' => NeverForward(p)
    BY <1>0, <2>1, <2>2 DEF NeverForward, Steady
  <2>4. NeverBackward(p)' => NeverBackward(p) /\ q \notin Newer(p)
    BY <1>0, <2>1, <2>2 DEF NeverBackward, Steady
  <2>5. q \notin Newer(p) => Rank(p)' = Rank(p)
    BY <1>0, <2>1, RankMoves
  <2>6. Rank(p) \in Nat /\ Rank(p)' \in Nat /\ Rank(p) <= Rank(p)'
    BY <1>0, <2>1, RankMoves
  <2> QED
    BY <2>3, <2>4, <2>5, <2>6
<1>2. CASE Leave(q)
  <2>1. listed' = listed \ {q} /\ entered' = entered /\ left' = left \cup {q}
    BY <1>2 DEF Leave, Walking
  <2>2. Ties(p)' = {} => Ties(p) = {}
    BY <1>0, <2>1, TiesStay
  <2>3. NeverForward(p)' => NeverForward(p) /\ q \notin Newer(p)
    BY <1>0, <2>1, <2>2 DEF NeverForward, Steady
  <2>4. NeverBackward(p)' => NeverBackward(p)
    BY <1>0, <2>1, <2>2 DEF NeverBackward, Steady
  <2>5. q \notin Newer(p) => Rank(p)' = Rank(p)
    BY <1>0, <2>1, RankMoves
  <2>6. Rank(p) \in Nat /\ Rank(p)' \in Nat /\ Rank(p)' <= Rank(p)
    BY <1>0, <2>1, RankMoves
  <2> QED
    BY <2>3, <2>4, <2>5, <2>6
<1> QED
  BY <1>1, <1>2

-----------------------------------------------------------------------------
(* A product not seen so far is on none of the pages so far.               *)

LEMMA WritesAhead ==
  ASSUME WalkType, WalkType', WalkPages, Ahead, NEW q \in Product,
         Enter(q) \/ Leave(q)
  PROVE  Ahead'
<1> SUFFICES ASSUME ~walk.over, NEW p \in Candidate' PROVE AheadOf(p)'
  <2>1. walk' = walk
    BY DEF Enter, Leave
  <2> QED
    BY <2>1 DEF Ahead
<1>1. /\ walk' = walk /\ frame' = frame
      /\ p \in listed' \ (entered' \cup left' \cup walk.seen) /\ NeverForward(p)'
      /\ p \in Product
  BY DEF Enter, Leave, Candidate, WalkType, WalkLists
<1>2. p \in listed /\ p \notin entered /\ p \notin left
  BY <1>1 DEF Enter, Leave, Walking
<1>3. NeverForward(p) /\ Rank(p) <= Rank(p)' /\ Rank(p) \in Nat /\ Rank(p)' \in Nat
  BY <1>1, WritesMove
<1>4. AheadOf(p)
  BY <1>1, <1>2, <1>3 DEF Ahead, Candidate
<1>5. walk.page \in Nat /\ Limit \in Nat
  BY LimitPositive DEF WalkType
<1>6. (walk.page - 1) * Limit \in Int /\ walk.page * Limit \in Int
  BY <1>5
<1> QED
  BY <1>1, <1>3, <1>4, <1>6 DEF AheadOf, Selected

LEMMA QuietAhead ==
  ASSUME Ahead, UNCHANGED <<created, listed, entered, left, stale, walk>>,
         frame' = frame \/ ~Selected'
  PROVE  Ahead'
<1>1. Candidate' = Candidate
  BY NothingMoves DEF Candidate
<1>2. ASSUME NEW p, AheadOf(p) PROVE AheadOf(p)'
  BY <1>2, NothingMoves DEF AheadOf, Selected
<1> QED
  BY <1>1, <1>2 DEF Ahead

LEMMA FirstAhead ==
  ASSUME WalkType, WalkType', created' = created, walk'.page = 1, ~Selected'
  PROVE  Ahead'
<1> SUFFICES ASSUME NEW p \in Candidate' PROVE AheadOf(p)'
  BY DEF Ahead
<1>1. Rank(p)' \in Nat
  <2>1. p \in Product
    BY DEF Candidate, WalkType, WalkLists
  <2> QED
    BY <2>1, RankMoves DEF WalkType
<1>2. (walk'.page - 1) * Limit = 0
  BY LimitPositive
<1> QED
  BY <1>1, <1>2 DEF AheadOf

LEMMA Bounds ==
  ASSUME WalkType
  PROVE  /\ Limit \in Nat /\ walk.page \in Nat
         /\ (walk.page - 1) * Limit \in Int /\ walk.page * Limit \in Int
         /\ (walk.page + 1 - 1) * Limit = walk.page * Limit
         /\ frame.total \in Nat /\ Total \in Nat
         /\ \A p \in Product : Rank(p) \in Nat
         /\ \A p \in listed : p \in Product /\ Rank(p) < Total
<1>1. Limit \in Nat /\ walk.page \in Nat /\ frame.total \in Nat
  BY LimitPositive DEF WalkType
<1>2. walk.page + 1 - 1 = walk.page
  BY <1>1
<1> QED
  BY <1>1, <1>2, ListedFinite DEF WalkType, WalkLists

LEMMA GetAhead ==
  ASSUME WalkType, WalkType', WalkPages, GetPage
  PROVE  Ahead'
<1>1. /\ walk' = walk /\ walk.page = 1 /\ frame.page = 1
      /\ UNCHANGED <<created, listed, entered, left>>
  BY DEF GetPage, WalkPages
<1>2. CASE cache = NoPage
  <2>1. ~Selected'
    BY <1>2 DEF GetPage, Selected, WalkType
  <2> QED
    BY <1>1, <2>1, FirstAhead
<1>3. CASE cache # NoPage
  <2>1. /\ frame'.rows = cache.rows /\ frame'.total = cache.total
        /\ stale' = (cache.rows \notin Rows(1) \/ cache.total # Total)
    BY <1>3 DEF GetPage, WalkType
  <2> SUFFICES ASSUME NEW p \in Candidate' PROVE AheadOf(p)'
    BY DEF Ahead
  <2>2. p \in listed /\ Ties(p) = {} /\ ~stale' /\ Rank(p)' = Rank(p)
    BY <1>1 DEF Candidate, NeverForward, Steady, Ties, Rank
  <2>3. cache.rows \in Rows(1) /\ cache.total = Total
    BY <2>1, <2>2
  <2>4. p \in ToSet(cache.rows) <=>
          (1 - 1) * Limit <= Rank(p) /\ Rank(p) < 1 * Limit
    BY <2>2, <2>3, SelectShows
  <2>5. Limit \in Nat /\ Rank(p) \in Nat /\ Rank(p) < Total /\ Total \in Nat
    BY <2>2, Bounds
  <2>6. (1 - 1) * Limit = 0 /\ 1 * Limit = Limit
    BY <2>5
  <2>7. 0 <= Rank(p) /\ (p \notin ToSet(cache.rows) => Limit <= Rank(p) /\ Limit < Total)
    BY <2>4, <2>5, <2>6
  <2> QED
    BY <1>1, <2>1, <2>2, <2>3, <2>6, <2>7 DEF AheadOf
<1> QED
  BY <1>2, <1>3

LEMMA SelectAhead ==
  ASSUME WalkType, WalkPages, Ahead, SelectRows
  PROVE  Ahead'
<1>1. PICK rows \in Rows(frame.page) :
        frame' = [frame EXCEPT !.pc = "count", !.rows = rows]
  BY DEF SelectRows
<1>2. /\ UNCHANGED <<created, listed, entered, left, stale, walk>>
      /\ ~walk.over /\ walk.page > 0 /\ frame.page = walk.page
  BY DEF SelectRows, WalkPages
<1>3. frame'.rows = rows /\ frame'.pc = "count"
  BY <1>1 DEF WalkType
<1> SUFFICES ASSUME NEW p \in Candidate' PROVE AheadOf(p)'
  BY DEF Ahead
<1>4. p \in Candidate /\ Rank(p)' = Rank(p)
  BY <1>2, NothingMoves DEF Candidate
<1>5. p \in listed /\ Ties(p) = {}
  BY <1>4 DEF Candidate, NeverForward, Steady
<1>6. (walk.page - 1) * Limit <= Rank(p)
  BY <1>2, <1>4 DEF Ahead, AheadOf
<1>7. p \in ToSet(rows) <=>
        (walk.page - 1) * Limit <= Rank(p) /\ Rank(p) < walk.page * Limit
  BY <1>1, <1>2, <1>5, SelectShows, Bounds
<1>8. p \notin ToSet(rows) => walk.page * Limit <= Rank(p)
  <2>1. walk.page * Limit \in Int /\ Rank(p) \in Int
    BY <1>5, Bounds
  <2> QED
    BY <1>6, <1>7, <2>1
<1> QED
  BY <1>2, <1>3, <1>4, <1>6, <1>8 DEF AheadOf

LEMMA CountAhead ==
  ASSUME WalkType, WalkPages, Ahead, CountRows
  PROVE  Ahead'
<1>1. /\ UNCHANGED <<created, listed, entered, left, stale, walk>>
      /\ ~walk.over /\ Selected
      /\ frame'.rows = frame.rows /\ frame'.total = Total
  BY DEF CountRows, WalkPages, WalkType, Selected
<1> SUFFICES ASSUME NEW p \in Candidate' PROVE AheadOf(p)'
  BY DEF Ahead
<1>2. p \in Candidate /\ Rank(p)' = Rank(p) /\ p \in listed
  BY <1>1, NothingMoves DEF Candidate
<1>3. AheadOf(p)
  BY <1>1, <1>2 DEF Ahead
<1>4. walk.page * Limit <= Rank(p) => walk.page * Limit < Total
  <2>1. walk.page * Limit \in Int /\ Rank(p) \in Int /\ Rank(p) < Total /\ Total \in Int
    BY <1>2, Bounds
  <2> QED
    BY <2>1
<1> QED
  BY <1>1, <1>2, <1>3, <1>4 DEF AheadOf

LEMMA SetAhead ==
  ASSUME WalkType, WalkPages, Ahead, SetPage
  PROVE  Ahead'
<1>1. /\ UNCHANGED <<created, listed, entered, left, stale, walk>>
      /\ ~walk.over /\ Selected /\ frame.pc = "set"
      /\ frame'.rows = frame.rows /\ frame'.total = frame.total
  BY DEF SetPage, WalkPages, WalkType, Selected
<1> SUFFICES ASSUME NEW p \in Candidate' PROVE AheadOf(p)'
  BY DEF Ahead
<1>2. p \in Candidate /\ Rank(p)' = Rank(p)
  BY <1>1, NothingMoves DEF Candidate
<1>3. AheadOf(p)
  BY <1>1, <1>2 DEF Ahead
<1> QED
  BY <1>1, <1>2, <1>3 DEF AheadOf

LEMMA AnswerAhead ==
  ASSUME WalkType, WalkPages, Ahead, Answer
  PROVE  Ahead'
<1>1. /\ UNCHANGED <<created, listed, entered, left, stale>>
      /\ ~walk.over /\ Selected /\ ~Selected'
      /\ walk'.page = walk.page + 1 /\ walk'.seen = walk.seen \cup ToSet(frame.rows)
  BY DEF Answer, WalkPages, WalkType, Selected, Idle
<1> SUFFICES ASSUME NEW p \in Candidate' PROVE AheadOf(p)'
  BY DEF Ahead
<1>2. p \in Candidate /\ Rank(p)' = Rank(p) /\ p \notin ToSet(frame.rows)
  BY <1>1, NothingMoves DEF Candidate
<1>3. walk.page * Limit <= Rank(p)
  BY <1>1, <1>2 DEF Ahead, AheadOf
<1>4. (walk'.page - 1) * Limit = walk.page * Limit
  BY <1>1, Bounds
<1>5. (walk'.page - 1) * Limit <= Rank(p)'
  BY <1>2, <1>3, <1>4
<1> QED
  BY <1>1, <1>5 DEF AheadOf

LEMMA AheadStep ==
  ASSUME WalkType, WalkType', WalkPages, Ahead, [WalkNext]_walkVars
  PROVE  Ahead'
<1>1. CASE \E p \in Product : Enter(p) \/ Leave(p)
  BY <1>1, WritesAhead
<1>2. CASE DropList \/ WriterFails \/ Expire \/ WalkFails \/ UNCHANGED walkVars
  <2>1. UNCHANGED <<created, listed, entered, left, stale, walk>>
    BY <1>2 DEF DropList, WriterFails, Expire, WalkFails, walkVars
  <2>2. frame' = frame \/ ~Selected'
    BY <1>2 DEF DropList, WriterFails, Expire, WalkFails, walkVars, Selected, Idle
  <2> QED
    BY <2>1, <2>2, QuietAhead
<1>3. CASE ListProducts
  <2>1. ~Selected'
    BY <1>3 DEF ListProducts, Selected, Idle
  <2>2. CASE Walking
    BY <1>3, <2>1, <2>2, QuietAhead DEF ListProducts
  <2>3. CASE ~Walking
    BY <1>3, <2>1, <2>3, FirstAhead DEF ListProducts
  <2> QED
    BY <2>2, <2>3
<1> QED
  BY <1>1, <1>2, <1>3, GetAhead, SelectAhead, CountAhead, SetAhead, AnswerAhead
  DEF WalkNext

-----------------------------------------------------------------------------
(* One that was seen is on one of them.                                    *)

LEMMA RowsAre ==
  ASSUME WalkType
  PROVE  ToSet(frame.rows) \subseteq Product /\ walk.seen \subseteq Product
                                             /\ walk.twice \subseteq Product
<1>1. frame.rows \in Seq(Product)
  BY DEF WalkType
<1> QED
  BY <1>1, LenProperties, ElementOfSeq DEF ToSet, WalkType

LEMMA WritesBehind ==
  ASSUME WalkType, WalkType', Behind, NEW q \in Product, Enter(q) \/ Leave(q)
  PROVE  Behind'
<1>1. walk' = walk /\ frame' = frame
  BY DEF Enter, Leave
<1> SUFFICES ASSUME ~walk.over PROVE SeenBefore' /\ ShownNow' /\ SeenTwice'
  BY <1>1 DEF Behind
<1>2. SeenBefore /\ ShownNow /\ SeenTwice
  BY DEF Behind
<1>3. ASSUME NEW p \in Product, NeverBackward(p)'
      PROVE  /\ NeverBackward(p) /\ Rank(p)' <= Rank(p)
             /\ Rank(p) \in Nat /\ Rank(p)' \in Nat
  BY <1>3, WritesMove
<1>4. (walk.page - 1) * Limit \in Int /\ walk.page * Limit \in Int
  BY Bounds
<1>5. SeenBefore'
  <2> SUFFICES ASSUME NEW p \in walk.seen, NeverBackward(p)'
               PROVE  Rank(p)' < (walk.page - 1) * Limit
    BY <1>1 DEF SeenBefore
  <2>1. p \in Product
    BY RowsAre
  <2>2. Rank(p) < (walk.page - 1) * Limit
    BY <1>2, <1>3, <2>1 DEF SeenBefore
  <2> QED
    BY <1>3, <1>4, <2>1, <2>2
<1>6. ShownNow'
  <2> SUFFICES ASSUME Selected, NEW p \in ToSet(frame.rows), NeverBackward(p)'
               PROVE  p \notin walk.seen /\ Rank(p)' < walk.page * Limit
    BY <1>1 DEF ShownNow, Selected
  <2>1. p \in Product
    BY RowsAre
  <2>2. p \notin walk.seen /\ Rank(p) < walk.page * Limit
    BY <1>2, <1>3, <2>1 DEF ShownNow
  <2> QED
    BY <1>3, <1>4, <2>1, <2>2
<1>7. SeenTwice'
  BY <1>1, <1>2, <1>3, RowsAre DEF SeenTwice
<1> QED
  BY <1>5, <1>6, <1>7

LEMMA QuietBehind ==
  ASSUME Behind, UNCHANGED <<created, listed, entered, left, stale, walk>>,
         \/ frame' = frame
         \/ ~Selected'
         \/ Selected /\ frame'.rows = frame.rows
  PROVE  Behind'
<1>1. \A p : Rank(p)' = Rank(p) /\ (NeverBackward(p)' <=> NeverBackward(p))
  BY NothingMoves
<1>2. SeenBefore => SeenBefore'
  BY <1>1 DEF SeenBefore
<1>3. ShownNow => ShownNow'
  BY <1>1 DEF ShownNow, Selected
<1>4. SeenTwice => SeenTwice'
  BY <1>1 DEF SeenTwice
<1> QED
  BY <1>2, <1>3, <1>4 DEF Behind

LEMMA FirstBehind ==
  ASSUME walk'.seen = {}, walk'.twice = {}, ~Selected'
  PROVE  Behind'
BY DEF Behind, SeenBefore, ShownNow, SeenTwice

LEMMA GetBehind ==
  ASSUME WalkType, WalkPages, GetPage
  PROVE  Behind'
<1>1. /\ walk' = walk /\ walk.page = 1 /\ walk.seen = {} /\ walk.twice = {}
      /\ UNCHANGED <<created, listed, entered, left>>
  BY DEF GetPage, WalkPages
<1>2. CASE cache = NoPage
  <2>1. ~Selected'
    BY <1>2 DEF GetPage, Selected, WalkType
  <2> QED
    BY <1>1, <2>1, FirstBehind
<1>3. CASE cache # NoPage
  <2>1. /\ frame'.rows = cache.rows
        /\ stale' = (cache.rows \notin Rows(1) \/ cache.total # Total)
    BY <1>3 DEF GetPage, WalkType
  <2>2. ASSUME NEW p \in ToSet(cache.rows), NeverBackward(p)'
        PROVE  Rank(p)' < walk'.page * Limit
    <3>1. Ties(p) = {} /\ ~stale' /\ Rank(p)' = Rank(p)
      BY <1>1, <2>2 DEF NeverBackward, Steady, Ties, Rank
    <3>2. cache.rows \in Rows(1)
      BY <2>1, <3>1
    <3>3. p \in listed
      BY <3>2, SelectShows
    <3>4. Rank(p) < 1 * Limit
      BY <3>1, <3>2, <3>3, SelectShows
    <3> QED
      BY <1>1, <3>1, <3>4
  <2>3. ShownNow'
    BY <1>1, <2>1, <2>2 DEF ShownNow
  <2> QED
    BY <1>1, <2>3 DEF Behind, SeenBefore, SeenTwice
<1> QED
  BY <1>2, <1>3

LEMMA SelectBehind ==
  ASSUME WalkType, WalkPages, Behind, SelectRows
  PROVE  Behind'
<1>1. PICK rows \in Rows(frame.page) :
        frame' = [frame EXCEPT !.pc = "count", !.rows = rows]
  BY DEF SelectRows
<1>2. /\ UNCHANGED <<created, listed, entered, left, stale, walk>>
      /\ ~walk.over /\ walk.page > 0 /\ frame.page = walk.page
  BY DEF SelectRows, WalkPages
<1>3. frame'.rows = rows
  BY <1>1 DEF WalkType
<1>4. \A p : Rank(p)' = Rank(p) /\ (NeverBackward(p)' <=> NeverBackward(p))
  BY <1>2, NothingMoves
<1>5. SeenBefore /\ SeenTwice
  BY <1>2 DEF Behind
<1>6. ASSUME NEW p \in ToSet(rows), NeverBackward(p)
      PROVE  p \notin walk.seen /\ Rank(p) < walk.page * Limit
  <2>1. p \in listed /\ Ties(p) = {}
    BY <1>1, <1>2, <1>6, SelectShows, Bounds DEF NeverBackward, Steady
  <2>2. (walk.page - 1) * Limit <= Rank(p) /\ Rank(p) < walk.page * Limit
    BY <1>1, <1>2, <1>6, <2>1, SelectShows, Bounds
  <2>3. (walk.page - 1) * Limit \in Int /\ Rank(p) \in Int
    BY <2>1, Bounds
  <2>4. ~(Rank(p) < (walk.page - 1) * Limit)
    BY <2>2, <2>3
  <2> QED
    BY <1>5, <1>6, <2>2, <2>4 DEF SeenBefore
<1>7. ShownNow'
  BY <1>2, <1>3, <1>4, <1>6 DEF ShownNow
<1>8. SeenBefore' /\ SeenTwice'
  BY <1>2, <1>4, <1>5 DEF SeenBefore, SeenTwice
<1> QED
  BY <1>7, <1>8 DEF Behind

LEMMA AnswerBehind ==
  ASSUME WalkType, WalkPages, Behind, Answer
  PROVE  Behind'
<1>1. /\ UNCHANGED <<created, listed, entered, left, stale>>
      /\ ~walk.over /\ Selected /\ ~Selected'
      /\ walk'.page = walk.page + 1 /\ walk'.seen = walk.seen \cup ToSet(frame.rows)
      /\ walk'.twice = walk.twice \cup (walk.seen \cap ToSet(frame.rows))
  BY DEF Answer, WalkPages, WalkType, Selected, Idle
<1>2. \A p : Rank(p)' = Rank(p) /\ (NeverBackward(p)' <=> NeverBackward(p))
  BY <1>1, NothingMoves
<1>3. SeenBefore /\ ShownNow /\ SeenTwice
  BY <1>1 DEF Behind
<1>4. (walk'.page - 1) * Limit = walk.page * Limit
  BY <1>1, Bounds
<1>5. ASSUME NEW p \in walk'.seen, NeverBackward(p) PROVE Rank(p) < walk.page * Limit
  <2>1. CASE p \in ToSet(frame.rows)
    BY <1>1, <1>3, <1>5, <2>1 DEF ShownNow
  <2>2. CASE p \in walk.seen
    <3>1. Rank(p) < (walk.page - 1) * Limit
      BY <1>3, <1>5, <2>2 DEF SeenBefore
    <3>2. (walk.page - 1) * Limit <= walk.page * Limit
      <4>1. walk.page * Limit = (walk.page - 1) * Limit + Limit
        BY LimitPositive DEF WalkType
      <4> QED
        BY <4>1, Bounds
    <3>3. Rank(p) \in Int
      BY <2>2, RowsAre, Bounds
    <3> QED
      BY <3>1, <3>2, <3>3, Bounds
  <2> QED
    BY <1>1, <2>1, <2>2
<1>6. SeenBefore'
  BY <1>2, <1>4, <1>5 DEF SeenBefore
<1>7. SeenTwice'
  BY <1>1, <1>2, <1>3 DEF SeenTwice, ShownNow
<1> QED
  BY <1>1, <1>6, <1>7 DEF Behind, ShownNow

LEMMA BehindStep ==
  ASSUME WalkType, WalkType', WalkPages, Behind, [WalkNext]_walkVars
  PROVE  Behind'
<1>1. CASE \E p \in Product : Enter(p) \/ Leave(p)
  BY <1>1, WritesBehind
<1>2. CASE \/ DropList \/ WriterFails \/ Expire \/ WalkFails
           \/ CountRows \/ SetPage \/ UNCHANGED walkVars
  <2>1. UNCHANGED <<created, listed, entered, left, stale, walk>>
    BY <1>2 DEF DropList, WriterFails, Expire, WalkFails, CountRows, SetPage, walkVars
  <2>2. \/ frame' = frame
        \/ ~Selected'
        \/ Selected /\ frame'.rows = frame.rows
    <3>1. CASE CountRows \/ SetPage
      <4>1. Selected /\ frame'.rows = frame.rows
        BY <3>1 DEF CountRows, SetPage, Selected, WalkType
      <4> QED
        BY <4>1
    <3>2. CASE WalkFails
      <4>1. ~Selected'
        BY <3>2 DEF WalkFails, Selected, Idle
      <4> QED
        BY <4>1
    <3> QED
      BY <1>2, <3>1, <3>2 DEF DropList, WriterFails, Expire, walkVars
  <2> QED
    BY <2>1, <2>2, QuietBehind
<1>3. CASE ListProducts
  <2>1. ~Selected'
    BY <1>3 DEF ListProducts, Selected, Idle
  <2>2. CASE Walking
    <3>1. UNCHANGED <<created, listed, entered, left, stale, walk>>
      BY <1>3, <2>2 DEF ListProducts
    <3> QED
      BY <2>1, <3>1, QuietBehind
  <2>3. CASE ~Walking
    BY <1>3, <2>1, <2>3, FirstBehind DEF ListProducts
  <2> QED
    BY <2>2, <2>3
<1> QED
  BY <1>1, <1>2, <1>3, GetBehind, SelectBehind, AnswerBehind DEF WalkNext

-----------------------------------------------------------------------------
LEMMA WalkInvAlways == WalkSpec => []WalkInv
<1>1. WalkInit => WalkInv
  <2> SUFFICES ASSUME WalkInit PROVE WalkInv
    OBVIOUS
  <2>1. walk.over
    BY DEF WalkInit
  <2> QED
    BY <2>1, WalkInitType DEF WalkInv, Ahead, Behind
<1>2. WalkInv /\ [WalkNext]_walkVars => WalkInv'
  BY WalkTypeStep, AheadStep, BehindStep DEF WalkInv
<1> QED
  BY <1>1, <1>2, PTL DEF WalkSpec

\* A client that reads a list to its end misses no product that was listed all
\* the time, but for one of three reasons: one before it left, it shares its
\* second of created_at with another (product.queries.ts orders by created_at
\* alone), or listProducts answered the first page from an old entry.
THEOREM NoneMissed == WalkSpec => WalkMissesNone
<1>1. ASSUME WalkInv, [WalkNext]_walkVars, Walking, walk'.over,
             NEW p \in listed \ (entered \cup left \cup walk'.seen)
      PROVE  \/ left \cap Newer(p) # {}
             \/ Ties(p) # {}
             \/ stale
  <2>1. Answer
    BY <1>1 DEF WalkNext, Enter, Leave, DropList, WriterFails, Expire, ListProducts,
       GetPage, SelectRows, CountRows, SetPage, WalkFails, walkVars, Walking
  <2>2. /\ Selected /\ frame.pc # "count" /\ frame.page = walk.page
        /\ walk'.seen = walk.seen \cup ToSet(frame.rows)
        /\ frame.page * Limit >= frame.total
    BY <1>1, <2>1 DEF Answer, Selected, WalkInv, WalkPages
  <2>3. ASSUME NeverForward(p) PROVE FALSE
    <3>1. p \in Candidate /\ p \notin ToSet(frame.rows)
      BY <1>1, <2>2, <2>3 DEF Candidate
    <3>2. walk.page * Limit < frame.total
      BY <1>1, <2>2, <3>1 DEF WalkInv, Ahead, AheadOf, Walking
    <3>3. walk.page * Limit \in Int /\ frame.total \in Int
      BY <1>1, Bounds DEF WalkInv
    <3> QED
      BY <2>2, <3>2, <3>3
  <2> QED
    BY <2>3 DEF NeverForward, Steady
<1>2. WalkInv /\ [WalkNext]_walkVars =>
        [Walking /\ walk'.over =>
           \A p \in listed \ (entered \cup left \cup walk'.seen) :
             \/ left \cap Newer(p) # {}
             \/ Ties(p) # {}
             \/ stale]_walkVars
  BY <1>1
<1> QED
  BY <1>2, WalkInvAlways, PTL DEF WalkSpec, WalkMissesNone

\* It is shown no product twice, but for one that entered before it, a tie, or
\* an old first page.
THEOREM NoneRepeated == WalkSpec => WalkRepeatsNone
<1>1. ASSUME WalkInv, [WalkNext]_walkVars, walk'.twice # walk.twice, NEW p \in walk'.twice
      PROVE  \/ entered \cap Newer(p) # {}
             \/ Ties(p) # {}
             \/ stale
  <2>1. Answer
    <3>1. ASSUME ListProducts PROVE FALSE
      <4>1. walk' = walk
              \/ walk' = [page |-> 1, over |-> FALSE, seen |-> {}, twice |-> {}]
        BY <3>1 DEF ListProducts
      <4>2. walk' # walk
        BY <1>1
      <4>3. walk'.twice = {}
        BY <4>1, <4>2
      <4> QED
        BY <1>1, <4>3
    <3> QED
      BY <1>1, <3>1 DEF WalkNext, Enter, Leave, DropList, WriterFails, Expire,
         GetPage, SelectRows, CountRows, SetPage, WalkFails, walkVars
  <2>2. /\ Selected /\ ~walk.over
        /\ walk'.twice = walk.twice \cup (walk.seen \cap ToSet(frame.rows))
    BY <1>1, <2>1 DEF Answer, Selected, WalkInv, WalkPages
  <2>3. ~NeverBackward(p)
    BY <1>1, <2>2 DEF WalkInv, Behind, SeenTwice, ShownNow
  <2> QED
    BY <2>3 DEF NeverBackward, Steady
<1>2. WalkInv /\ [WalkNext]_walkVars =>
        [walk'.twice # walk.twice =>
           \A p \in walk'.twice :
             \/ entered \cap Newer(p) # {}
             \/ Ties(p) # {}
             \/ stale]_walkVars
  BY <1>1
<1> QED
  BY <1>2, WalkInvAlways, PTL DEF WalkSpec, WalkRepeatsNone
=============================================================================
