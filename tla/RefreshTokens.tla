--------------------------- MODULE RefreshTokens ---------------------------
(***************************************************************************)
(* The refresh-token sessions of one account.  A browser (a device) keeps  *)
(* the token in a cookie, Redis keeps one key per device with the current  *)
(* token and the one it replaced, which stays good for a short grace       *)
(* period.  Refreshing reads the key, then the account, then writes the    *)
(* key: three awaits that nothing makes atomic.  All tabs of a browser     *)
(* share the cookie, and a tab may go away before its answer arrives.      *)
(* admin-service and customer-service run the same code, rotateRefreshToken *)
(* and the same login and logout steps, on keyspaces of their own.         *)
(***************************************************************************)
EXTENDS Integers, FiniteSets

CONSTANTS
  Device,    \* the browsers of the account
  Request,   \* the slots for requests in flight
  Ops,       \* the requests browsers make
  Faults,    \* what the environment does, of "expire", "lapse", "fail",
             \* "lose", "toggle" and "delete"
  MaxToken,  \* bounds the tokens ever issued to a device
  Nil

ASSUME MaxTokenAssumption == MaxToken \in Nat

ASSUME NilAssumption == Nil \notin Device

\* Tokens carry 32 random bytes: no two are alike.  The n-th token of a device
\* is n, and 0 is no token.
Token == Nat

Session == [token : Token, previous : Token, grace : BOOLEAN]

ASSUME SessionAssumption == Nil \notin Session

VARIABLES
  account,   \* the row of the account: "active", "inactive" or "gone"
  issued,    \* how many tokens each device was ever issued
  store,     \* Redis: refresh:{role}:{account}:{device}, or Nil
  cookie,    \* the refresh cookie of each browser
  frame,     \* the request in each slot
  excused    \* history: the devices whose cookie may be refused, see below

vars == <<account, issued, store, cookie, frame, excused>>

\* late is history, "the key was changed by another since this request read or
\* wrote it", and so is live, "the account was active at some moment since this
\* request was made".
Free == [op |-> "none", pc |-> "free", dev |-> Nil, token |-> 0, reply |-> 0,
         late |-> FALSE, live |-> FALSE]

At(r, op, pc) == frame[r].op = op /\ frame[r].pc = pc

Leave(r) == frame' = [frame EXCEPT ![r] = Free]

Current(d, t) == store[d] # Nil /\ store[d].token = t

\* isPrevious: the grace period is read off the clock when the key is read.
Previous(d, t) == /\ store[d] # Nil
                  /\ store[d].previous = t
                  /\ t # 0
                  /\ store[d].grace

Honoured(d, t) == Current(d, t) \/ Previous(d, t)

\* The frames once the key of d has been changed.
Touched(d) ==
  [q \in Request |->
     IF frame[q].dev = d /\ frame[q].pc # "sent"
     THEN [frame[q] EXCEPT !.late = TRUE] ELSE frame[q]]

\* A request that may issue a token is only admitted if there is one left.
TokenLeft(d) ==
  issued[d] + Cardinality({q \in Request :
    /\ frame[q].dev = d
    /\ frame[q].op \in {"login", "refresh"} /\ frame[q].pc # "reply"}) < MaxToken

\* A browser makes a request.
Send(r, d, op, pc) ==
  /\ op \in Ops
  /\ frame[r] = Free
  /\ frame' = [frame EXCEPT
       ![r] = [Free EXCEPT !.op = op, !.pc = pc, !.dev = d,
                           !.token = IF op = "login" THEN 0 ELSE cookie[d],
                           !.live = (account = "active")]]
  /\ UNCHANGED <<account, issued, store, cookie, excused>>

\* A new token is written to the key and is the answer of the request.
Issue(r, previous, grace) ==
  LET f == frame[r]
      t == issued[f.dev] + 1
  IN
  /\ issued' = [issued EXCEPT ![f.dev] = t]
  /\ store' = [store EXCEPT
       ![f.dev] = [token |-> t, previous |-> previous, grace |-> grace]]
  /\ frame' = [Touched(f.dev) EXCEPT
       ![r] = [f EXCEPT !.pc = "reply", !.reply = t, !.late = FALSE]]
  /\ UNCHANGED <<account, cookie>>

----------------------------------------------------------------------------
(* Login: the account is read, the password compared, the key overwritten. *)

Login(r, d) ==
  /\ account = "active" /\ TokenLeft(d)
  /\ Send(r, d, "login", "set")

LoginSet(r) ==
  LET d == frame[r].dev IN
  /\ At(r, "login", "set")
  /\ Issue(r, 0, FALSE)
  /\ excused' = excused \cup {d}

----------------------------------------------------------------------------
(* Refresh: rotateRefreshToken.                                            *)

Refresh(r, d) ==
  /\ cookie[d] # 0 /\ TokenLeft(d)
  /\ Send(r, d, "refresh", "sent")

\* Slip: a missing key is not refused.
GetSessionUnchecked(r) ==
  LET f == frame[r] IN
  /\ At(r, "refresh", "sent")
  /\ IF Current(f.dev, f.token) \/ store[f.dev] = Nil
     THEN frame' = [frame EXCEPT ![r].pc = "findUser"]
     ELSE IF Previous(f.dev, f.token)
     THEN frame' = [frame EXCEPT ![r].pc = "findUser",
                                 ![r].reply = store[f.dev].token]
     ELSE Leave(r)
  /\ UNCHANGED <<account, issued, store, cookie, excused>>

\* Slip: the previous token is answered before the account is looked at.
GetSessionAnswering(r) ==
  LET f == frame[r] IN
  /\ At(r, "refresh", "sent")
  /\ IF Current(f.dev, f.token)
     THEN frame' = [frame EXCEPT ![r].pc = "findUser"]
     ELSE IF Previous(f.dev, f.token)
     THEN frame' = [frame EXCEPT ![r].pc = "reply",
                                 ![r].reply = store[f.dev].token]
     ELSE Leave(r)
  /\ UNCHANGED <<account, issued, store, cookie, excused>>

\* The current token will be rotated; the previous one, in its grace period,
\* will be answered with the token that replaced it; any other is refused.
GetSession(r) ==
  LET f == frame[r] IN
  /\ At(r, "refresh", "sent")
  /\ IF Current(f.dev, f.token)
     THEN frame' = [frame EXCEPT ![r].pc = "findUser"]
     ELSE IF Previous(f.dev, f.token)
     THEN frame' = [frame EXCEPT ![r].pc = "findUser",
                                 ![r].reply = store[f.dev].token]
     ELSE Leave(r)
  /\ UNCHANGED <<account, issued, store, cookie, excused>>

FindUser(r) ==
  LET f == frame[r] IN
  /\ At(r, "refresh", "findUser")
  /\ frame' = [frame EXCEPT
       ![r].pc = CASE account # "active" -> "revoke"
                   [] account = "active" /\ f.reply # 0 -> "reply"
                   [] account = "active" /\ f.reply = 0 -> "set"]
  /\ UNCHANGED <<account, issued, store, cookie, excused>>

\* Slip: the token replaced is not kept.
RotateWithoutGrace(r) ==
  LET f == frame[r] IN
  /\ At(r, "refresh", "set")
  /\ Issue(r, 0, FALSE)
  /\ excused' = IF f.late THEN excused \cup {f.dev} ELSE excused

\* The write does not look whether the key still holds what was read.
Rotate(r) ==
  LET f == frame[r] IN
  /\ At(r, "refresh", "set")
  /\ Issue(r, f.token, TRUE)
  /\ excused' = IF f.late THEN excused \cup {f.dev} ELSE excused

\* The account is gone or deactivated: cacheDel of the key, and a refusal.
Revoke(r) ==
  LET d == frame[r].dev IN
  /\ At(r, "refresh", "revoke")
  /\ store' = [store EXCEPT ![d] = Nil]
  /\ frame' = [Touched(d) EXCEPT ![r] = Free]
  /\ excused' = excused \cup {d}
  /\ UNCHANGED <<account, issued, cookie>>

----------------------------------------------------------------------------
(* Logout: the key of the device named in the token is deleted, whatever   *)
(* token it holds, and the gateway clears the cookie even if that failed.  *)

Logout(r, d) == Send(r, d, "logout", IF cookie[d] = 0 THEN "reply" ELSE "sent")

DelSession(r) ==
  LET f == frame[r] IN
  /\ At(r, "logout", "sent")
  /\ store' = [store EXCEPT ![f.dev] = Nil]
  /\ frame' = [Touched(f.dev) EXCEPT ![r] = [f EXCEPT !.pc = "reply"]]
  /\ excused' = excused \cup {f.dev}
  /\ UNCHANGED <<account, issued, cookie>>

----------------------------------------------------------------------------
(* The answer reaches the browser: setRefreshTokenCookie, or               *)
(* clearRefreshTokenCookie for a logout.  A refusal leaves the cookie.     *)

Deliver(r) ==
  LET f == frame[r] IN
  /\ f.pc = "reply"
  /\ cookie' = [cookie EXCEPT ![f.dev] = f.reply]
  /\ excused' = IF f.late /\ f.op # "logout" THEN excused \cup {f.dev}
                ELSE excused \ {f.dev}
  /\ Leave(r)
  /\ UNCHANGED <<account, issued, store>>

----------------------------------------------------------------------------
(* The environment.                                                        *)

\* A request or its answer is lost, or the tab that waits for it is closed.
Lose(r) ==
  /\ "lose" \in Faults
  /\ frame[r].pc \in {"sent", "reply"}
  /\ Leave(r)
  /\ UNCHANGED <<account, issued, store, cookie, excused>>

\* A round trip fails or a service crashes.  The gateway swallows the error of
\* a logout and answers as if it had succeeded.
Fail(r) ==
  /\ "fail" \in Faults
  /\ frame[r].pc \notin {"free", "reply"}
  /\ IF frame[r].op = "logout"
     THEN frame' = [frame EXCEPT ![r].pc = "reply"]
     ELSE Leave(r)
  /\ UNCHANGED <<account, issued, store, cookie, excused>>

\* The TTL of the key runs out.
Expire(d) ==
  /\ "expire" \in Faults
  /\ store[d] # Nil
  /\ store' = [store EXCEPT ![d] = Nil]
  /\ frame' = Touched(d)
  /\ excused' = excused \cup {d}
  /\ UNCHANGED <<account, issued, cookie>>

\* previous_token_expires_at passes.
Lapse(d) ==
  /\ "lapse" \in Faults
  /\ store[d] # Nil /\ store[d].grace
  /\ store' = [store EXCEPT ![d].grace = FALSE]
  /\ excused' = IF cookie[d] = store[d].previous THEN excused \cup {d}
                ELSE excused
  /\ UNCHANGED <<account, issued, cookie, frame>>

SetAccount(status) ==
  /\ account' = status
  /\ frame' = [q \in Request |->
       [frame[q] EXCEPT !.live = @ \/ (frame[q] # Free /\ status = "active")]]
  /\ UNCHANGED <<issued, store, cookie, excused>>

\* toggleAdminStatus: UPDATE ... SET is_active = NOT is_active.
Toggle ==
  /\ "toggle" \in Faults
  /\ account # "gone"
  /\ SetAccount(IF account = "active" THEN "inactive" ELSE "active")

\* deleteAdminUser.
DeleteAccount ==
  /\ "delete" \in Faults
  /\ account # "gone"
  /\ SetAccount("gone")

----------------------------------------------------------------------------
\* Some of the browsers have already logged in.
Init ==
  /\ account = "active"
  /\ issued \in [Device -> {0, 1}]
  /\ store = [d \in Device |->
       IF issued[d] = 0 THEN Nil
       ELSE [token |-> 1, previous |-> 0, grace |-> FALSE]]
  /\ cookie = issued
  /\ frame = [r \in Request |-> Free]
  /\ excused = {}

Arrival(r) ==
  \E d \in Device : Login(r, d) \/ Refresh(r, d) \/ Logout(r, d)

Advance(r) ==
  \/ LoginSet(r)
  \/ GetSession(r)
  \/ FindUser(r)
  \/ Rotate(r)
  \/ Revoke(r)
  \/ DelSession(r)
  \/ Deliver(r)

Next ==
  \/ \E r \in Request : Arrival(r)
  \/ \E r \in Request : Advance(r)
  \/ \E r \in Request : Lose(r) \/ Fail(r)
  \/ \E d \in Device : Expire(d) \/ Lapse(d)
  \/ Toggle
  \/ DeleteAccount

Spec == Init /\ [][Next]_vars

----------------------------------------------------------------------------
(* Properties.                                                             *)

Op == {"login", "refresh", "logout"}

Pc == {"free", "sent", "set", "findUser", "revoke", "reply"}

Frame == [op : Op \cup {"none"}, pc : Pc, dev : Device \cup {Nil}, token : Token,
          reply : Token, late : BOOLEAN, live : BOOLEAN]

\* Type correctness.
TypeOK ==
  /\ account \in {"active", "inactive", "gone"}
  /\ issued \in [Device -> Token]
  /\ store \in [Device -> Session \cup {Nil}]
  /\ cookie \in [Device -> Token]
  /\ frame \in [Request -> Frame]
  /\ excused \subseteq Device

\* A browser whose cookie would be refused has a reason: its session expired,
\* was revoked or logged out; a new login superseded it; the answer that
\* carried the new token was lost and the grace period passed; or two requests
\* overlapped, so that one wrote or answered after the other had changed the
\* key.  Lost answers alone, and requests one after the other, never break a
\* session: that is what the grace period is for (rotate-refresh-token.ts:43-46,
\* 58-66).
CookieAccounted ==
  \A d \in Device : \/ cookie[d] = 0
                    \/ Honoured(d, cookie[d])
                    \/ d \in excused

\* An account that is deactivated or gone gets no token: whoever is answered
\* with one found the account active at some moment of its own request, also
\* when the token is the previous one (rotate-refresh-token.ts:52-58).
InactiveGetsNothing ==
  \A r \in Request : frame[r].reply # 0 /\ frame[r].pc = "reply" => frame[r].live

\* A session that ended comes back only by a login, or by a refresh that had
\* read the key before it was deleted.
EndedStaysEnded ==
  [][\A d \in Device :
       store[d] = Nil /\ store'[d] # Nil =>
         \E r \in Request : /\ frame[r].dev = d
                            /\ frame[r].pc = "set"
                            /\ frame[r].op = "login" \/ frame[r].late]_vars

=============================================================================
