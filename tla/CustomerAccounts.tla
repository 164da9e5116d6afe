-------------------------- MODULE CustomerAccounts --------------------------
(***************************************************************************)
(* The customers table of customer-service: registration with an e-mail    *)
(* and a password, login with them, and login through an OAuth provider,   *)
(* which finds the account of the identity, or else the account of its     *)
(* e-mail, or else creates one.  Only the e-mail has a unique index.  One  *)
(* action is one round trip; the session that each of them ends with is in *)
(* RefreshTokens, here it is only who it is for.                           *)
(***************************************************************************)
CONSTANTS
  Customer,   \* the ids a customer can ever get (bounds the inserts)
  Email,      \* e-mail addresses
  Identity,   \* OAuth identities: a provider and an id there
  Presents,   \* the e-mails in the valid tokens of each identity, or Nil for one
              \* without
  Request,    \* the slots for requests in flight (bounds the concurrency)
  Failures,   \* whether a round trip may fail or the process may crash
  Nil

ASSUME CustomerPresents == Presents \in [Identity -> SUBSET (Email \cup {Nil})]

ASSUME CustomerFailures == Failures \in BOOLEAN

Row == [email : Email, password : BOOLEAN, oauth : Identity \cup {Nil},
        is_active : BOOLEAN]

ASSUME CustomerNil == Nil \notin Customer \cup Email \cup Identity \cup Row

VARIABLES
  customer,  \* the customers table: a row, or Nil
  born,      \* the ids given out
  frame,     \* the request in each slot
  last,      \* history: the account and the e-mail of each identity's last login
  crossed    \* history: the identities with two logins at once that presented
             \* different e-mails

customerVars == <<customer, born, frame, last, crossed>>

Free == [op |-> Nil, pc |-> "free", id |-> Nil, email |-> Nil, oauth |-> Nil]

Exists(c) == customer[c] # Nil

WithEmail(e) == {c \in Customer : Exists(c) /\ customer[c].email = e}

WithOAuth(g) == {c \in Customer : Exists(c) /\ customer[c].oauth = g}

\* verifyOAuthToken refuses a token that carries no e-mail.
Verified(g) == Presents[g] \ {Nil}

Goto(r, pc) == frame' = [frame EXCEPT ![r].pc = pc]

Leave(r) == frame' = [frame EXCEPT ![r] = Free]

At(r, pc) == frame[r].pc = pc

----------------------------------------------------------------------------
(* registerCustomer: findCustomerByEmail, then hashing, then the insert.   *)

RegisterCustomer(r, c, e) ==
  /\ frame[r] = Free
  /\ c \notin born
  /\ WithEmail(e) = {}
  /\ frame' = [frame EXCEPT ![r] = [op |-> "register", pc |-> "insert", id |-> c,
                                    email |-> e, oauth |-> Nil]]
  /\ born' = born \cup {c}
  /\ UNCHANGED <<customer, last, crossed>>

\* Slip: the e-mail was looked up, so the table has no unique index.
InsertCustomerUnindexed(r) ==
  LET f == frame[r] IN
  /\ At(r, "insert")
  /\ customer' = [customer EXCEPT
       ![f.id] = [email |-> f.email, password |-> f.op = "register",
                  oauth |-> f.oauth, is_active |-> TRUE]]
  /\ Goto(r, "readBack")
  /\ UNCHANGED <<born, last, crossed>>

\* insertCustomer: the unique index refuses an e-mail that has got an account
\* since it was looked up, and the request fails.
InsertCustomer(r) ==
  LET f == frame[r] IN
  /\ At(r, "insert")
  /\ IF WithEmail(f.email) = {}
     THEN /\ customer' = [customer EXCEPT
               ![f.id] = [email |-> f.email, password |-> f.op = "register",
                          oauth |-> f.oauth, is_active |-> TRUE]]
          /\ Goto(r, "readBack")
     ELSE Leave(r) /\ UNCHANGED customer
  /\ UNCHANGED <<born, last, crossed>>

\* What the handlers do with the row they have found or read back: only
\* registerCustomer does not look whether it is active.
Admit(r, c) ==
  frame' = [frame EXCEPT
    ![r] = IF @.op = "register" \/ customer[c].is_active
           THEN [@ EXCEPT !.pc = "issue", !.id = c] ELSE Free]

ReadBack(r) ==
  /\ At(r, "readBack")
  /\ Admit(r, frame[r].id)
  /\ UNCHANGED <<customer, born, last, crossed>>

----------------------------------------------------------------------------
(* loginCustomer: the row, if it is active and has a password, which is    *)
(* then verified.                                                          *)

LoginCustomer(r, c) ==
  /\ frame[r] = Free
  /\ Exists(c) /\ customer[c].is_active /\ customer[c].password
  /\ frame' = [frame EXCEPT ![r] = [op |-> "login", pc |-> "issue", id |-> c,
                                    email |-> customer[c].email, oauth |-> Nil]]
  /\ UNCHANGED <<customer, born, last, crossed>>

----------------------------------------------------------------------------
(* oAuthLogin: verifyOAuthToken, findCustomerByOAuth, findCustomerByEmail, *)
(* insertCustomer.  An account found by its e-mail is not tied to the      *)
(* identity.                                                               *)

OAuthLogin(r, g, e) ==
  /\ frame[r] = Free
  /\ e \in Verified(g)
  /\ frame' = [frame EXCEPT ![r] = [op |-> "oauth", pc |-> "byOAuth", id |-> Nil,
                                    email |-> e, oauth |-> g]]
  /\ crossed' = crossed \cup {h \in {g} : \E q \in Request :
                                frame[q].oauth = h /\ frame[q].email # e}
  /\ UNCHANGED <<customer, born, last>>

\* Slip: the account of the identity is looked for only by its provider.
FindByProvider(r) ==
  LET found == {c \in Customer : Exists(c) /\ customer[c].oauth # Nil} IN
  /\ At(r, "byOAuth")
  /\ \/ found = {} /\ Goto(r, "byEmail")
     \/ \E c \in found : Admit(r, c)
  /\ UNCHANGED <<customer, born, last, crossed>>

\* Slip: the e-mail tells who it is, so the identity is not looked up.
FindByNothing(r) ==
  /\ At(r, "byOAuth")
  /\ Goto(r, "byEmail")
  /\ UNCHANGED <<customer, born, last, crossed>>

\* LIMIT 1: any of them, should there be two.
FindByOAuth(r) ==
  LET found == WithOAuth(frame[r].oauth) IN
  /\ At(r, "byOAuth")
  /\ \/ found = {} /\ Goto(r, "byEmail")
     \/ \E c \in found : Admit(r, c)
  /\ UNCHANGED <<customer, born, last, crossed>>

FindByEmail(r) ==
  LET found == WithEmail(frame[r].email) IN
  /\ At(r, "byEmail")
  /\ \/ \E c \in found : Admit(r, c) /\ UNCHANGED born
     \/ \E c \in Customer \ born :
          /\ found = {}
          /\ frame' = [frame EXCEPT ![r].pc = "insert", ![r].id = c]
          /\ born' = born \cup {c}
  /\ UNCHANGED <<customer, last, crossed>>

----------------------------------------------------------------------------
(* issueRefreshToken, which every handler ends with; failures; and the     *)
(* column is_active, which the services only read.                         *)

IssueRefreshToken(r) ==
  LET f == frame[r] IN
  /\ At(r, "issue")
  /\ last' = IF f.oauth = Nil THEN last
             ELSE [last EXCEPT ![f.oauth] = [id |-> f.id, email |-> f.email]]
  /\ Leave(r)
  /\ UNCHANGED <<customer, born, crossed>>

Abort(r) ==
  /\ Failures /\ frame[r] # Free
  /\ Leave(r)
  /\ UNCHANGED <<customer, born, last, crossed>>

Toggle(c) ==
  /\ Exists(c)
  /\ customer' = [customer EXCEPT ![c].is_active = ~@]
  /\ UNCHANGED <<born, frame, last, crossed>>

----------------------------------------------------------------------------
CustomerInit ==
  /\ customer = [c \in Customer |-> Nil]
  /\ born = {}
  /\ frame = [r \in Request |-> Free]
  /\ last = [g \in Identity |-> Nil]
  /\ crossed = {}

Arrival(r) ==
  \/ \E c \in Customer, e \in Email : RegisterCustomer(r, c, e)
  \/ \E c \in Customer : LoginCustomer(r, c)
  \/ \E g \in Identity, e \in Email : OAuthLogin(r, g, e)

Advance(r) ==
  \/ InsertCustomer(r)
  \/ ReadBack(r)
  \/ FindByOAuth(r)
  \/ FindByEmail(r)
  \/ IssueRefreshToken(r)

CustomerNext ==
  \/ \E r \in Request : Arrival(r)
  \/ \E r \in Request : Advance(r)
  \/ \E r \in Request : Abort(r)
  \/ \E c \in Customer : Toggle(c)

CustomerSpec == CustomerInit /\ [][CustomerNext]_customerVars

----------------------------------------------------------------------------
(* Properties.                                                             *)

\* However registrations and OAuth logins of one person overlap, an e-mail has
\* one account, so that a password login finds the account it was chosen for
\* (auth.handlers.ts:62, 160; only the index ensures it).
OneAccountPerEmail == \A e \in Email : \A c, d \in WithEmail(e) : c = d

\* The pair of provider and id has an index that is not unique: an OAuth
\* identity has two accounts only if two of its logins overlapped that
\* presented different e-mails (auth.handlers.ts:153, 164).
IdentityAccounted ==
  \A g \in Identity : \A c, d \in WithOAuth(g) : c # d => g \in crossed

\* Who comes back through OAuth with the e-mail of the last login gets the
\* account of the last login, unless logins with different e-mails overlapped
\* or the identity has meanwhile got an account of its own under its other
\* e-mail: an account found by its e-mail is not tied to the identity
\* (auth.handlers.ts:153-173).
SameAccountAgain ==
  [][\A g \in Identity :
       last[g] # Nil /\ last'[g].email = last[g].email /\ g \notin crossed =>
         \/ last'[g].id = last[g].id
         \/ /\ last'[g].id \in WithOAuth(g)
            /\ last[g].id \notin WithOAuth(g)
            /\ customer[last'[g].id].email # last[g].email]_customerVars

=============================================================================
