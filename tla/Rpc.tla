-------------------------------- MODULE Rpc --------------------------------
(***************************************************************************)
(* What the backend promises the sender of a request, with nothing of how  *)
(* it is served: an answer of success means that the request was carried   *)
(* out once, a refusal (a 4xx) that it was not and will not be, and any    *)
(* other end (a 5xx, a broken connection) says neither: the request may    *)
(* have been carried out, may still be, or may never be.  Nothing is ever  *)
(* carried out twice.  RequestPath is shown to implement this.             *)
(***************************************************************************)
EXTENDS Naturals

CONSTANT Request          \* requests, each sent once

VARIABLES
    asked,                \* asked[r]: r has been sent
    times,                \* times[r]: how often r was carried out
    reply                 \* reply[r]: what its sender was told

vars == <<asked, times, reply>>

Reply == {"none", "ok", "refused", "failed"}

TypeOK == /\ asked \in [Request -> BOOLEAN]
          /\ times \in [Request -> {0, 1}]
          /\ reply \in [Request -> Reply]

Init == /\ asked = [r \in Request |-> FALSE]
        /\ times = [r \in Request |-> 0]
        /\ reply = [r \in Request |-> "none"]

Ask(r) == /\ ~asked[r]
          /\ asked' = [asked EXCEPT ![r] = TRUE]
          /\ UNCHANGED <<times, reply>>

\* A request may still be carried out after its sender has given up on it.
CarryOut(r) == /\ asked[r]
               /\ times[r] = 0
               /\ reply[r] # "refused"
               /\ times' = [times EXCEPT ![r] = 1]
               /\ UNCHANGED <<asked, reply>>

Answer(r, a) == /\ asked[r]
                /\ reply[r] = "none"
                /\ a = "ok" => times[r] = 1
                /\ a = "refused" => times[r] = 0
                /\ reply' = [reply EXCEPT ![r] = a]
                /\ UNCHANGED <<asked, times>>

Next == \E r \in Request : \/ Ask(r)
                           \/ CarryOut(r)
                           \/ \E a \in Reply \ {"none"} : Answer(r, a)

Spec == Init /\ [][Next]_vars
=============================================================================
