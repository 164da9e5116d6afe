--------------------------- MODULE AdminAccounts ---------------------------
(***************************************************************************)
(* The admin accounts and their audit trail: admin_users and the           *)
(* performed_by column of audit_logs in MySQL, and the handlers of         *)
(* admin-service by which one super admin manages the others.  A handler   *)
(* reads the account it is about, writes it and logs what it did, in three *)
(* round trips.  Who may call is decided by the role in the caller's       *)
(* access token, which is as old as the token.  Names, e-mails and         *)
(* passwords are left out, sessions are module RefreshTokens.              *)
(***************************************************************************)
EXTENDS Integers

CONSTANTS
  Admin,     \* the ids of the accounts
  Role,      \* the roles, "super_admin" among them
  Request,   \* the slots for requests in flight
  Failures,  \* whether a round trip may fail or the process may crash
  Nil

Account == [role : Role, active : BOOLEAN]

ASSUME RoleAssumption == "super_admin" \in Role

ASSUME FailuresAssumption == Failures \in BOOLEAN

ASSUME NilAssumption == Nil \notin Admin \cup Role \cup Account

VARIABLES
  account,  \* the admin_users table: a row, or Nil
  authors,  \* the performed_by values in audit_logs
  pass,     \* the accounts that hold an access token with role super_admin
  frame,    \* the request each slot is serving
  waived    \* history: the last active super admin was lost to their own
            \* update, or to someone who was no longer one

vars == <<account, authors, pass, frame, waived>>

\* was and crossed are history: the row just before the request's own write,
\* and whether another request wrote it between the request's read and write.
Free == [op |-> "none", pc |-> "free", actor |-> Nil, target |-> Nil,
         role |-> Nil, old |-> Nil, was |-> Nil, crossed |-> FALSE]

InChargeOf(accounts, a) ==
  /\ accounts[a] # Nil
  /\ accounts[a].active
  /\ accounts[a].role = "super_admin"

InCharge(a) == InChargeOf(account, a)

----------------------------------------------------------------------------
(* Access tokens: login and refresh hand one to an active account, with    *)
(* the role it has; nothing takes it back before it expires.               *)

Authenticate(a) ==
  /\ InCharge(a)
  /\ pass' = pass \cup {a}
  /\ UNCHANGED <<account, authors, frame, waived>>

ExpirePass(a) ==
  /\ a \in pass
  /\ pass' = pass \ {a}
  /\ UNCHANGED <<account, authors, frame, waived>>

----------------------------------------------------------------------------
(* Arrivals, each with the read its handler makes first.                   *)

Arrive(r, op, a, t, role) ==
  /\ a \in pass
  /\ frame[r] = Free
  /\ frame' = [frame EXCEPT
       ![r] = [Free EXCEPT !.op = op, !.pc = "write", !.actor = a, !.target = t,
                           !.role = role, !.old = account[t]]]
  /\ UNCHANGED <<account, authors, pass, waived>>

\* The id is new.
CreateAdminUser(r, a, t, role) ==
  /\ role # "super_admin"
  /\ account[t] = Nil /\ t \notin authors \cup pass
  /\ \A q \in Request : t \notin {frame[q].actor, frame[q].target}
  /\ Arrive(r, "createAdminUser", a, t, role)

UpdateAdminUser(r, a, t, role) ==
  account[t] # Nil /\ Arrive(r, "updateAdminUser", a, t, role)

DeleteAdminUser(r, a, t) ==
  account[t] # Nil /\ a # t /\ Arrive(r, "deleteAdminUser", a, t, Nil)

\* Slip: a super admin may toggle their own status.
ToggleAnyStatus(r, a, t) ==
  account[t] # Nil /\ Arrive(r, "toggleAdminStatus", a, t, Nil)

ToggleAdminStatus(r, a, t) ==
  account[t] # Nil /\ a # t /\ Arrive(r, "toggleAdminStatus", a, t, Nil)

----------------------------------------------------------------------------
(* The write.                                                              *)

\* What the statement makes of the target's row.  An UPDATE or a DELETE of a
\* row that is gone matches nothing.
Result(f) ==
  LET row == account[f.target] IN
  CASE f.op = "createAdminUser" -> [role |-> f.role, active |-> TRUE]
    [] f.op = "deleteAdminUser" -> Nil
    [] f.op = "updateAdminUser" ->
         IF row = Nil \/ f.role = Nil THEN row ELSE [row EXCEPT !.role = f.role]
    [] f.op = "toggleAdminStatus" ->
         IF row = Nil THEN row ELSE [row EXCEPT !.active = ~@]

\* Slip: the account is only looked up, the foreign key is not relied on.
NotRefused(f) == FALSE

\* ON DELETE RESTRICT: an account an audit row names as its author.
Refused(f) == f.op = "deleteAdminUser" /\ f.target \in authors

SelfDemoted(f) == f.op = "updateAdminUser" /\ f.actor = f.target

Leave(r) == frame' = [frame EXCEPT ![r] = Free]

\* The other requests that have read account t and not yet written it.
Crossed(r, t) ==
  [q \in Request |-> IF q # r /\ frame[q].pc = "write" /\ frame[q].target = t
                     THEN [frame[q] EXCEPT !.crossed = TRUE] ELSE frame[q]]

\* Slip: the audit row is made from the row dbToggleAdminStatus reads back.
WriteReadingBack(r) ==
  LET f == frame[r]
      row == account[f.target]
  IN
  /\ f.pc = "write"
  /\ IF Refused(f)
     THEN Leave(r) /\ UNCHANGED <<account, waived>>
     ELSE /\ account' = [account EXCEPT ![f.target] = Result(f)]
          /\ frame' = [Crossed(r, f.target) EXCEPT
               ![r] = [f EXCEPT !.pc = "audit", !.role = Nil, !.was = row,
                                !.old = Result(f)]]
          /\ waived' = /\ \A a \in Admin : ~InChargeOf(account', a)
                       /\ waived \/ SelfDemoted(f) \/ ~InCharge(f.actor)
  /\ UNCHANGED <<authors, pass>>

Write(r) ==
  LET f == frame[r]
      row == account[f.target]
  IN
  /\ f.pc = "write"
  /\ IF Refused(f)
     THEN Leave(r) /\ UNCHANGED <<account, waived>>
     ELSE /\ account' = [account EXCEPT ![f.target] = Result(f)]
          /\ frame' = [Crossed(r, f.target) EXCEPT
               ![r] = [f EXCEPT !.pc = "audit", !.role = Nil, !.was = row]]
          /\ waived' = /\ \A a \in Admin : ~InChargeOf(account', a)
                       /\ waived \/ SelfDemoted(f) \/ ~InCharge(f.actor)
  /\ UNCHANGED <<authors, pass>>

\* writeAuditLog: the foreign key refuses an author who is gone, and the error
\* is swallowed.
Audit(r) ==
  LET f == frame[r] IN
  /\ f.pc = "audit"
  /\ authors' = IF account[f.actor] # Nil THEN authors \cup {f.actor} ELSE authors
  /\ Leave(r)
  /\ UNCHANGED <<account, pass, waived>>

----------------------------------------------------------------------------
(* The environment.                                                        *)

\* inventory-service logs a change of the catalogue made by admin a.
AuditElsewhere(a) ==
  /\ account[a] # Nil
  /\ authors' = authors \cup {a}
  /\ UNCHANGED <<account, pass, frame, waived>>

\* A round trip fails or the process crashes.
Abort(r) ==
  /\ Failures /\ frame[r] # Free
  /\ Leave(r)
  /\ UNCHANGED <<account, authors, pass, waived>>

Init ==
  /\ account \in [Admin -> Account \cup {Nil}]
  /\ \E a \in Admin : InCharge(a)
  /\ authors \in SUBSET {a \in Admin : account[a] # Nil}
  /\ pass = {}
  /\ frame = [r \in Request |-> Free]
  /\ waived = FALSE

Arrival(r, a, t) ==
  \/ \E role \in Role : CreateAdminUser(r, a, t, role)
  \/ \E role \in Role \cup {Nil} : UpdateAdminUser(r, a, t, role)
  \/ DeleteAdminUser(r, a, t)
  \/ ToggleAdminStatus(r, a, t)

Next ==
  \/ \E a \in Admin : Authenticate(a)
  \/ \E a \in Admin : ExpirePass(a)
  \/ \E r \in Request, a, t \in Admin : Arrival(r, a, t)
  \/ \E r \in Request : Write(r)
  \/ \E r \in Request : Audit(r)
  \/ \E a \in Admin : AuditElsewhere(a)
  \/ \E r \in Request : Abort(r)

Spec == Init /\ [][Next]_vars

----------------------------------------------------------------------------
Op == {"createAdminUser", "updateAdminUser", "deleteAdminUser",
       "toggleAdminStatus"}

Frame == [op : Op \cup {"none"}, pc : {"free", "write", "audit"},
          actor : Admin \cup {Nil}, target : Admin \cup {Nil},
          role : Role \cup {Nil}, old : Account \cup {Nil},
          was : Account \cup {Nil}, crossed : BOOLEAN]

\* Type correctness.
TypeOK ==
  /\ account \in [Admin -> Account \cup {Nil}]
  /\ authors \subseteq Admin
  /\ pass \subseteq Admin
  /\ frame \in [Request -> Frame]
  /\ waived \in BOOLEAN

\* The service cannot lock itself out: there is always an active super admin,
\* unless the last one demoted themselves or someone acted on a token that outlived
\* their account's role.  Whatever requests overlap, the checks of
\* performed_by (admin.handlers.ts:263, 299) leave the actor in charge.
LockoutAccounted == waived \/ \E a \in Admin : InCharge(a)

\* Every audit row has an author with an account, however a deletion and the
\* author's own requests overlap.
AuthorsExist == \A a \in authors : account[a] # Nil

\* What an audit row says of the account before the change (the diff's from
\* of an update, admin.handlers.ts:225-230, the role of a delete, 276, the
\* status before a toggle, 313) is what the write found, unless another
\* request changed the account after it was read.
BeforeAccounted ==
  \A r \in Request : frame[r].pc = "audit" =>
    frame[r].crossed \/ frame[r].old = frame[r].was

=============================================================================
