----------------------- MODULE CustomerAccountsProofs -----------------------
(***************************************************************************)
(* Proofs about CustomerAccounts: types, one account per e-mail, the       *)
(* accounts of an OAuth identity and who a login finds.  All rest on one   *)
(* invariant.  Its core is what a request that has not found its identity  *)
(* may rely on: unless logins with different e-mails have crossed, an      *)
(* account its identity has got meanwhile has the request's own e-mail.    *)
(***************************************************************************)
EXTENDS CustomerAccounts, TLAPS

Frame == [op : {"register", "login", "oauth", Nil},
          pc : {"free", "insert", "readBack", "issue", "byOAuth", "byEmail"},
          id : Customer \cup {Nil}, email : Email \cup {Nil},
          oauth : Identity \cup {Nil}]

Login == [id : Customer, email : Email]

\* What a frame carries at each point, t being the table and ids given out.
FrameOK(f, t, ids) ==
  /\ f.pc = "free" => f = Free
  /\ f.pc # "free" =>
       IF f.op = "oauth" THEN f.oauth \in Identity /\ f.email \in Email
       ELSE f.oauth = Nil
  /\ f.pc \in {"byOAuth", "byEmail"} => f.op = "oauth"
  /\ f.pc = "insert" => f.email \in Email /\ f.id \in ids /\ t[f.id] = Nil
  /\ f.pc = "readBack" =>
       /\ f.id \in ids /\ t[f.id] # Nil
       /\ t[f.id].email = f.email /\ t[f.id].oauth = f.oauth
  /\ f.pc = "issue" =>
       /\ f.id \in ids /\ t[f.id] # Nil
       /\ f.op = "oauth" => t[f.id].oauth = f.oauth \/ t[f.id].email = f.email

TypeInv ==
  /\ customer \in [Customer -> Row \cup {Nil}]
  /\ born \subseteq Customer
  /\ \A c \in Customer : Exists(c) => c \in born
  /\ frame \in [Request -> Frame]
  /\ last \in [Identity -> Login \cup {Nil}]
  /\ \A r \in Request : FrameOK(frame[r], customer, born)
  /\ \A q, r \in Request :
       q # r /\ At(q, "insert") /\ At(r, "insert") => frame[q].id # frame[r].id

LEMMA NilDistinct ==
  Nil \notin Customer /\ Nil \notin Email /\ Nil \notin Identity /\ Nil \notin Row
BY CustomerNil

LEMMA FreeFrame == Free \in Frame /\ \A t, ids : FrameOK(Free, t, ids)
BY DEF Free, Frame, FrameOK

\* Rows keep their e-mail and their identity, a frame its place, when the
\* table gets a row nobody else is about to insert or one is switched.
Kept(t, u) ==
  \A c \in Customer : t[c] # Nil =>
    u[c] # Nil /\ u[c].email = t[c].email /\ u[c].oauth = t[c].oauth

LEMMA FrameKept ==
  ASSUME NEW f \in Frame, NEW t, NEW u, NEW ids \in SUBSET Customer, NEW more,
         FrameOK(f, t, ids), Kept(t, u), ids \subseteq more,
         f.pc = "insert" => u[f.id] = Nil
  PROVE  FrameOK(f, u, more)
BY DEF FrameOK, Kept, Frame

\* What a step that changes one frame and no row keeps.
LEMMA FrameStep ==
  ASSUME TypeInv, NEW r \in Request, NEW g \in Frame,
         frame' = [frame EXCEPT ![r] = g], FrameOK(g, customer, born'),
         UNCHANGED customer, born \subseteq born', born' \subseteq Customer,
         g.pc = "insert" =>
           g.id \notin born,
         last' \in [Identity -> Login \cup {Nil}]
  PROVE  TypeInv'
<1>1. frame' \in [Request -> Frame]
  BY DEF TypeInv
<1>2. ASSUME NEW q \in Request PROVE FrameOK(frame'[q], customer', born')
  <2>1. CASE q = r
    BY <2>1 DEF TypeInv
  <2>2. CASE q # r
    <3>1. frame'[q] = frame[q] /\ frame[q] \in Frame
          /\ FrameOK(frame[q], customer, born)
      BY <2>2 DEF TypeInv
    <3> QED
      BY <3>1 DEF FrameOK
  <2> QED
    BY <2>1, <2>2
<1>3. ASSUME NEW p \in Request, NEW q \in Request, p # q,
             frame'[p].pc = "insert", frame'[q].pc = "insert"
      PROVE  frame'[p].id # frame'[q].id
  <2>1. \A s \in Request \ {r} : frame'[s] = frame[s]
    BY DEF TypeInv
  <2>2. frame'[r] = g
    BY DEF TypeInv
  <2>3. \A s \in Request \ {r} : frame[s].pc = "insert" => frame[s].id \in born
    BY DEF TypeInv, FrameOK
  <2> QED
    BY <1>3, <2>1, <2>2, <2>3 DEF TypeInv, At
<1> QED
  BY <1>1, <1>2, <1>3 DEF TypeInv, At, Exists

LEMMA LeaveType ==
  ASSUME TypeInv, NEW r \in Request, Leave(r), UNCHANGED <<customer, born>>,
         last' \in [Identity -> Login \cup {Nil}]
  PROVE  TypeInv'
BY FreeFrame, FrameStep DEF Leave, Free, TypeInv

LEMMA ArrivalType ==
  ASSUME TypeInv, NEW r \in Request, Arrival(r)
  PROVE  TypeInv'
<1> USE NilDistinct
<1>1. ASSUME NEW c \in Customer, NEW e \in Email, RegisterCustomer(r, c, e)
      PROVE  TypeInv'
  <2> DEFINE g == [op |-> "register", pc |-> "insert", id |-> c, email |-> e,
                   oauth |-> Nil]
  <2>1. g \in Frame /\ frame' = [frame EXCEPT ![r] = g]
    BY <1>1 DEF RegisterCustomer, Frame
  <2>2. FrameOK(g, customer, born')
    BY <1>1 DEF RegisterCustomer, FrameOK, TypeInv, Exists
  <2> QED
    BY <1>1, <2>1, <2>2, FrameStep DEF RegisterCustomer, TypeInv
<1>2. ASSUME NEW c \in Customer, LoginCustomer(r, c) PROVE TypeInv'
  <2> DEFINE g == [op |-> "login", pc |-> "issue", id |-> c,
                   email |-> customer[c].email, oauth |-> Nil]
  <2>1. customer[c].email \in Email
    BY <1>2 DEF LoginCustomer, TypeInv, Exists, Row
  <2>2. g \in Frame /\ frame' = [frame EXCEPT ![r] = g]
    BY <1>2, <2>1 DEF LoginCustomer, Frame
  <2>3. FrameOK(g, customer, born')
    BY <1>2 DEF LoginCustomer, FrameOK, TypeInv, Exists
  <2> QED
    BY <1>2, <2>2, <2>3, FrameStep DEF LoginCustomer, TypeInv
<1>3. ASSUME NEW i \in Identity, NEW e \in Email, OAuthLogin(r, i, e)
      PROVE  TypeInv'
  <2> DEFINE g == [op |-> "oauth", pc |-> "byOAuth", id |-> Nil, email |-> e,
                   oauth |-> i]
  <2>1. g \in Frame /\ frame' = [frame EXCEPT ![r] = g]
    BY <1>3 DEF OAuthLogin, Frame
  <2>2. FrameOK(g, customer, born')
    BY DEF FrameOK
  <2> QED
    BY <1>3, <2>1, <2>2, FrameStep DEF OAuthLogin, TypeInv
<1> QED
  BY <1>1, <1>2, <1>3 DEF Arrival

\* A request that found its row, or read it back.
LEMMA AdmitType ==
  ASSUME TypeInv, NEW r \in Request, NEW c \in Customer, Admit(r, c), Exists(c),
         ~At(r, "free"),
         frame[r].op = "oauth" =>
           customer[c].oauth = frame[r].oauth \/ customer[c].email = frame[r].email,
         UNCHANGED <<customer, born, last>>
  PROVE  TypeInv'
<1> DEFINE f == frame[r]
           g == [f EXCEPT !.pc = "issue", !.id = c]
<1>1. f \in Frame /\ FrameOK(f, customer, born) /\ c \in born
  BY DEF TypeInv
<1>2. CASE f.op = "register" \/ customer[c].is_active
  <2>1. g \in Frame /\ g.pc = "issue" /\ frame' = [frame EXCEPT ![r] = g]
    BY <1>1, <1>2 DEF Admit, Frame, TypeInv
  <2>2. FrameOK(g, customer, born')
    BY <1>1 DEF FrameOK, Exists, Frame, At
  <2> QED
    BY <2>1, <2>2, FrameStep DEF TypeInv
<1>3. CASE ~(f.op = "register" \/ customer[c].is_active)
  BY <1>3, LeaveType DEF Admit, Leave, TypeInv
<1> QED
  BY <1>2, <1>3

LEMMA InsertType ==
  ASSUME TypeInv, NEW r \in Request, InsertCustomer(r)
  PROVE  /\ TypeInv'
         /\ \/ Leave(r) /\ UNCHANGED customer
            \/ /\ WithEmail(frame[r].email) = {}
               /\ frame[r].id \in Customer /\ customer[frame[r].id] = Nil
               /\ Goto(r, "readBack")
               /\ customer' = [customer EXCEPT
                    ![frame[r].id] = [email |-> frame[r].email,
                                      password |-> frame[r].op = "register",
                                      oauth |-> frame[r].oauth,
                                      is_active |-> TRUE]]
<1> USE NilDistinct
<1> DEFINE f == frame[r]
           row == [email |-> f.email, password |-> f.op = "register",
                   oauth |-> f.oauth, is_active |-> TRUE]
           g == [f EXCEPT !.pc = "readBack"]
<1>1. f \in Frame /\ FrameOK(f, customer, born)
  BY DEF TypeInv
<1>2. CASE WithEmail(f.email) # {}
  <2>1. Leave(r) /\ UNCHANGED <<customer, born, last>>
    BY <1>2 DEF InsertCustomer
  <2> QED
    BY <2>1, LeaveType DEF TypeInv
<1>3. CASE WithEmail(f.email) = {}
  <2>1. /\ customer' = [customer EXCEPT ![f.id] = row]
        /\ frame' = [frame EXCEPT ![r] = g]
        /\ UNCHANGED <<born, last, crossed>>
    BY <1>3 DEF InsertCustomer, Goto, TypeInv
  <2>2. row \in Row /\ f.id \in born /\ f.id \in Customer /\ customer[f.id] = Nil
    BY <1>1 DEF InsertCustomer, At, FrameOK, Row, Frame, TypeInv
  <2>3. customer' \in [Customer -> Row \cup {Nil}] /\ customer'[f.id] = row
        /\ \A c \in Customer \ {f.id} : customer'[c] = customer[c]
    BY <2>1, <2>2 DEF TypeInv
  <2>4. Kept(customer, customer')
    BY <2>2, <2>3 DEF Kept
  <2>5. g \in Frame /\ g.pc = "readBack" /\ FrameOK(g, customer', born')
    BY <1>1, <2>1, <2>2, <2>3 DEF FrameOK, Frame, InsertCustomer, At
  <2>6. frame' \in [Request -> Frame] /\ frame'[r] = g
        /\ \A q \in Request \ {r} : frame'[q] = frame[q]
    BY <2>1, <2>5 DEF TypeInv
  <2>7. ASSUME NEW q \in Request \ {r} PROVE FrameOK(frame'[q], customer', born')
    <3>1. frame[q].pc = "insert" =>
            frame[q].id # f.id /\ frame[q].id \in Customer
            /\ customer[frame[q].id] = Nil
      BY DEF TypeInv, At, InsertCustomer, FrameOK
    <3>2. frame[q] \in Frame /\ FrameOK(frame[q], customer, born)
          /\ born \in SUBSET Customer
      BY DEF TypeInv
    <3> HIDE DEF f, row, g
    <3> QED
      BY <2>1, <2>3, <2>4, <2>6, <3>1, <3>2, FrameKept
  <2>8. \A c \in Customer : Exists(c)' => c \in born'
    BY <2>1, <2>2, <2>3 DEF TypeInv, Exists
  <2>9. \A p, q \in Request :
          p # q /\ At(p, "insert")' /\ At(q, "insert")' => frame'[p].id # frame'[q].id
    BY <2>5, <2>6 DEF TypeInv, At
  <2>10. TypeInv'
    <3> HIDE DEF f, row, g
    <3> QED
      BY <2>1, <2>3, <2>5, <2>6, <2>7, <2>8, <2>9 DEF TypeInv
  <2> QED
    BY <1>3, <2>1, <2>2, <2>10 DEF Goto
<1> QED
  BY <1>2, <1>3

\* The look-ups, and the row read back.
LEMMA LookType ==
  ASSUME TypeInv, NEW r \in Request,
         ReadBack(r) \/ FindByOAuth(r) \/ FindByEmail(r)
  PROVE  TypeInv'
<1> USE NilDistinct
<1> DEFINE f == frame[r]
<1>1. f \in Frame /\ FrameOK(f, customer, born) /\ born \subseteq Customer
  BY DEF TypeInv
<1>2. CASE ReadBack(r)
  <2>1. f.id \in Customer /\ Exists(f.id) /\ customer[f.id].email = f.email
    BY <1>1, <1>2 DEF ReadBack, At, FrameOK, Exists
  <2> QED
    BY <1>2, <2>1, AdmitType DEF ReadBack, At
<1>3. CASE FindByOAuth(r)
  <2>1. ASSUME Goto(r, "byEmail") PROVE TypeInv'
    <3> DEFINE g == [f EXCEPT !.pc = "byEmail"]
    <3>1. g \in Frame /\ g.pc = "byEmail" /\ frame' = [frame EXCEPT ![r] = g]
      BY <1>1, <2>1 DEF Goto, Frame, TypeInv
    <3>2. FrameOK(g, customer, born')
      BY <1>1, <1>3 DEF FindByOAuth, At, FrameOK, Frame
    <3> QED
      BY <1>3, <3>1, <3>2, FrameStep DEF FindByOAuth, TypeInv
  <2>2. ASSUME NEW c \in WithOAuth(f.oauth), Admit(r, c) PROVE TypeInv'
    BY <1>3, <2>2, AdmitType DEF FindByOAuth, WithOAuth, At
  <2> QED
    BY <1>3, <2>1, <2>2 DEF FindByOAuth
<1>4. CASE FindByEmail(r)
  <2>1. ASSUME NEW c \in WithEmail(f.email), Admit(r, c), UNCHANGED born
        PROVE  TypeInv'
    BY <1>4, <2>1, AdmitType DEF FindByEmail, WithEmail, At
  <2>2. ASSUME NEW c \in Customer \ born, born' = born \cup {c},
               frame' = [frame EXCEPT ![r].pc = "insert", ![r].id = c]
        PROVE  TypeInv'
    <3> DEFINE g == [f EXCEPT !.pc = "insert", !.id = c]
    <3>1. g \in Frame /\ frame' = [frame EXCEPT ![r] = g]
      BY <1>1, <2>2 DEF Frame, TypeInv
    <3>2. FrameOK(g, customer, born')
      BY <1>1, <1>4, <2>2 DEF FindByEmail, At, FrameOK, Frame, TypeInv, Exists
    <3>3. g.id \notin born
      BY <1>1, <2>2 DEF Frame
    <3>4. /\ born \subseteq born' /\ born' \subseteq Customer
          /\ UNCHANGED customer /\ last' \in [Identity -> Login \cup {Nil}]
      BY <1>1, <1>4, <2>2 DEF FindByEmail, TypeInv
    <3> HIDE DEF g
    <3> QED
      BY <3>1, <3>2, <3>3, <3>4, FrameStep
  <2> QED
    BY <1>4, <2>1, <2>2 DEF FindByEmail
<1> QED
  BY <1>2, <1>3, <1>4

LEMMA RestType ==
  ASSUME TypeInv,
         \/ \E r \in Request : IssueRefreshToken(r) \/ Abort(r)
         \/ \E c \in Customer : Toggle(c)
  PROVE  TypeInv'
<1> USE NilDistinct
<1>1. ASSUME NEW r \in Request, IssueRefreshToken(r) PROVE TypeInv'
  <2> DEFINE f == frame[r]
  <2>1. f \in Frame /\ FrameOK(f, customer, born) /\ born \subseteq Customer
    BY DEF TypeInv
  <2>2. f.oauth # Nil => f.id \in Customer /\ f.email \in Email
    BY <1>1, <2>1 DEF IssueRefreshToken, At, FrameOK, Frame
  <2>3. last' \in [Identity -> Login \cup {Nil}]
    BY <1>1, <2>2 DEF IssueRefreshToken, TypeInv, Login
  <2> QED
    BY <1>1, <2>3, LeaveType DEF IssueRefreshToken
<1>2. ASSUME NEW r \in Request, Abort(r) PROVE TypeInv'
  BY <1>2, LeaveType DEF Abort, TypeInv
<1>3. ASSUME NEW c \in Customer, Toggle(c) PROVE TypeInv'
  <2>1. /\ customer[c] \in Row
        /\ customer' = [customer EXCEPT ![c].is_active = ~@]
        /\ UNCHANGED <<born, frame, last>>
    BY <1>3 DEF Toggle, Exists, TypeInv
  <2>2. customer' \in [Customer -> Row \cup {Nil}] /\ Kept(customer, customer')
        /\ \A d \in Customer : customer[d] = Nil => customer'[d] = Nil
    BY <2>1 DEF TypeInv, Row, Kept
  <2>3. ASSUME NEW q \in Request PROVE FrameOK(frame'[q], customer', born')
    <3>1. frame[q] \in Frame /\ FrameOK(frame[q], customer, born)
          /\ born \in SUBSET Customer
      BY DEF TypeInv
    <3>2. frame[q].pc = "insert" => customer'[frame[q].id] = Nil
      BY <2>2, <3>1 DEF FrameOK
    <3>3. FrameOK(frame[q], customer', born)
      BY <2>2, <3>1, <3>2, FrameKept
    <3> QED
      BY <2>1, <3>3
  <2>4. \A d \in Customer : Exists(d)' => d \in born'
    BY <2>1, <2>2 DEF TypeInv, Exists
  <2> QED
    BY <2>1, <2>2, <2>3, <2>4 DEF TypeInv, At
<1> QED
  BY <1>1, <1>2, <1>3

LEMMA InitType == CustomerInit => TypeInv
BY FreeFrame DEF CustomerInit, TypeInv, Exists, At, Free

LEMMA NextType == TypeInv /\ [CustomerNext]_customerVars => TypeInv'
<1> SUFFICES ASSUME TypeInv, [CustomerNext]_customerVars PROVE TypeInv'
  OBVIOUS
<1>1. CASE UNCHANGED customerVars
  BY <1>1 DEF customerVars, TypeInv, Exists, At
<1> QED
  BY <1>1, ArrivalType, InsertType, LookType, RestType DEF CustomerNext, Advance

LEMMA TypeAlways == CustomerSpec => []TypeInv
BY InitType, NextType, PTL DEF CustomerSpec

----------------------------------------------------------------------------
(* E-mails and identities.                                                 *)

\* The logins of an identity that has not crossed present one e-mail.
Alike ==
  \A g \in Identity \ crossed : \A q, r \in Request :
    frame[q].oauth = g /\ frame[r].oauth = g => frame[q].email = frame[r].email

\* What the request may rely on once it has looked for its identity.
Known(f, t) ==
  \/ f.pc \in {"readBack", "issue"} /\ t[f.id].oauth = f.oauth
  \/ \A c \in Customer : t[c] # Nil /\ t[c].oauth = f.oauth => t[c].email = f.email

Looked ==
  \A r \in Request :
    /\ frame[r].pc \in {"byEmail", "insert", "readBack", "issue"}
    /\ frame[r].oauth \in Identity \ crossed
    => Known(frame[r], customer)

\* The account of an identity's last login is its own or its e-mail's.
Remembered ==
  \A g \in Identity : last[g] # Nil =>
    /\ Exists(last[g].id)
    /\ customer[last[g].id].oauth = g \/ customer[last[g].id].email = last[g].email

AccountInv ==
  OneAccountPerEmail /\ IdentityAccounted /\ Alike /\ Looked /\ Remembered

\* No row comes, goes or changes hands.
Same(t, u) ==
  \A c \in Customer :
    /\ t[c] = Nil <=> u[c] = Nil
    /\ t[c] # Nil => u[c].email = t[c].email /\ u[c].oauth = t[c].oauth

\* What a step that leaves the table the same keeps, if the frame it changes
\* stays with its identity and e-mail or gives up the identity.
LEMMA FrameAccount ==
  ASSUME TypeInv, TypeInv', AccountInv, NEW r \in Request,
         Same(customer, customer'),
         \A q \in Request \ {r} : frame'[q] = frame[q], crossed \subseteq crossed',
         \/ frame'[r].oauth = frame[r].oauth /\ frame'[r].email = frame[r].email
         \/ frame'[r].oauth \notin Identity,
         /\ frame'[r].pc \in {"byEmail", "insert", "readBack", "issue"}
         /\ frame'[r].oauth \in Identity \ crossed
         => Known(frame'[r], customer),
         UNCHANGED last \/ Remembered'
  PROVE  AccountInv'
<1>1. OneAccountPerEmail' /\ IdentityAccounted'
  BY DEF AccountInv, OneAccountPerEmail, IdentityAccounted, WithEmail, WithOAuth,
         Exists, Same
<1>2. Alike'
  BY DEF AccountInv, Alike
<1>3. ASSUME NEW f, Known(f, customer),
             f.pc \in {"readBack", "issue"} => f.id \in Customer /\ customer[f.id] # Nil
      PROVE  Known(f, customer')
  BY <1>3 DEF Known, Same
<1>4. ASSUME NEW q \in Request,
             frame'[q].pc \in {"byEmail", "insert", "readBack", "issue"},
             frame'[q].oauth \in Identity \ crossed'
      PROVE  Known(frame'[q], customer)
  BY <1>4 DEF AccountInv, Looked
<1>5. Looked'
  <2> SUFFICES ASSUME NEW q \in Request,
                      frame'[q].pc \in {"byEmail", "insert", "readBack", "issue"},
                      frame'[q].oauth \in Identity \ crossed'
               PROVE  Known(frame'[q], customer')
    BY DEF Looked
  <2>1. frame'[q].pc \in {"readBack", "issue"} =>
          frame'[q].id \in Customer /\ customer[frame'[q].id] # Nil
    BY DEF TypeInv, FrameOK, Same
  <2> QED
    BY <1>3, <1>4, <2>1
<1>6. Remembered'
  <2>1. CASE UNCHANGED last
    <3>1. \A g \in Identity : last[g] # Nil => last[g].id \in Customer
      BY DEF TypeInv, Login
    <3> QED
      BY <2>1, <3>1 DEF AccountInv, Remembered, Same, Exists
  <2> QED
    BY <2>1
<1> QED
  BY <1>1, <1>2, <1>5, <1>6 DEF AccountInv

LEMMA LeaveAccount ==
  ASSUME TypeInv, TypeInv', AccountInv, NEW r \in Request, Leave(r),
         UNCHANGED <<customer, crossed>>, UNCHANGED last \/ Remembered'
  PROVE  AccountInv'
<1>1. /\ frame'[r] = Free /\ \A q \in Request \ {r} : frame'[q] = frame[q]
      /\ Same(customer, customer') /\ Free.oauth \notin Identity
  BY CustomerNil DEF Leave, TypeInv, Same, Free
<1> QED
  BY <1>1, FrameAccount

LEMMA ArrivalAccount ==
  ASSUME TypeInv, TypeInv', AccountInv, NEW r \in Request, Arrival(r)
  PROVE  AccountInv'
<1>1. Same(customer, customer') /\ UNCHANGED last
  BY DEF Arrival, RegisterCustomer, LoginCustomer, OAuthLogin, Same
<1>2. ASSUME \/ \E c \in Customer, e \in Email : RegisterCustomer(r, c, e)
             \/ \E c \in Customer : LoginCustomer(r, c)
      PROVE  AccountInv'
  <2>1. /\ frame'[r].oauth = Nil /\ \A q \in Request \ {r} : frame'[q] = frame[q]
        /\ crossed' = crossed
    BY <1>2 DEF RegisterCustomer, LoginCustomer, TypeInv
  <2> QED
    BY <1>1, <2>1, FrameAccount, CustomerNil
<1>3. ASSUME NEW g \in Identity, NEW e \in Email, OAuthLogin(r, g, e)
      PROVE  AccountInv'
  <2>1. /\ frame'[r].oauth = g /\ frame'[r].email = e /\ frame'[r].pc = "byOAuth"
        /\ \A q \in Request \ {r} : frame'[q] = frame[q]
        /\ UNCHANGED customer /\ crossed \subseteq crossed'
        /\ \A q \in Request : frame[q].oauth = g /\ frame[q].email # e => g \in crossed'
    BY <1>3 DEF OAuthLogin, TypeInv
  <2>2. Alike'
    BY <2>1 DEF AccountInv, Alike
  <2>3. Looked'
    BY <2>1 DEF AccountInv, Looked
  <2> QED
    BY <1>1, <2>1, <2>2, <2>3
       DEF AccountInv, OneAccountPerEmail, IdentityAccounted, WithEmail, WithOAuth,
           Exists, Remembered
<1> QED
  BY <1>2, <1>3 DEF Arrival

\* Whoever is let in is known: it is the identity's, or what was known of its
\* accounts before still is.
LEMMA AdmitAccount ==
  ASSUME TypeInv, TypeInv', AccountInv, NEW r \in Request, NEW c \in Customer,
         Admit(r, c), UNCHANGED <<customer, last, crossed>>,
         \/ customer[c].oauth = frame[r].oauth
         \/ frame[r].pc = "byEmail"
  PROVE  AccountInv'
<1>1. CASE Leave(r)
  BY <1>1, LeaveAccount
<1>2. CASE frame' = [frame EXCEPT ![r] = [@ EXCEPT !.pc = "issue", !.id = c]]
  <2>1. /\ frame'[r].pc = "issue" /\ frame'[r].id = c
        /\ frame'[r].oauth = frame[r].oauth /\ frame'[r].email = frame[r].email
        /\ \A q \in Request \ {r} : frame'[q] = frame[q]
    BY <1>2 DEF TypeInv, Frame
  <2>2. frame'[r].oauth \in Identity \ crossed => Known(frame'[r], customer)
    BY <2>1 DEF AccountInv, Looked, Known
  <2>3. Same(customer, customer')
    BY DEF Same
  <2> QED
    BY <2>1, <2>2, <2>3, FrameAccount
<1> QED
  BY <1>1, <1>2 DEF Admit, Leave, TypeInv

LEMMA LookAccount ==
  ASSUME TypeInv, TypeInv', AccountInv, NEW r \in Request,
         ReadBack(r) \/ FindByOAuth(r) \/ FindByEmail(r)
  PROVE  AccountInv'
<1> DEFINE f == frame[r]
<1>1. f \in Frame /\ FrameOK(f, customer, born) /\ born \subseteq Customer
      /\ UNCHANGED <<customer, last, crossed>> /\ Same(customer, customer')
  BY DEF TypeInv, ReadBack, FindByOAuth, FindByEmail, Same
<1>2. CASE ReadBack(r)
  <2>1. f.id \in Customer /\ customer[f.id].oauth = f.oauth
    BY <1>1, <1>2 DEF ReadBack, At, FrameOK
  <2> QED
    BY <1>1, <1>2, <2>1, AdmitAccount DEF ReadBack
<1>3. CASE FindByOAuth(r)
  <2>1. ASSUME WithOAuth(f.oauth) = {}, Goto(r, "byEmail") PROVE AccountInv'
    <3>1. /\ frame'[r].pc = "byEmail"
          /\ frame'[r].oauth = f.oauth /\ frame'[r].email = f.email
          /\ \A q \in Request \ {r} : frame'[q] = frame[q]
      BY <2>1 DEF Goto, TypeInv, Frame
    <3>2. Known(frame'[r], customer)
      BY <2>1, <3>1 DEF Known, WithOAuth, Exists
    <3> QED
      BY <1>1, <3>1, <3>2, FrameAccount
  <2>2. ASSUME NEW c \in WithOAuth(f.oauth), Admit(r, c) PROVE AccountInv'
    BY <1>1, <2>2, AdmitAccount DEF WithOAuth
  <2> QED
    BY <1>3, <2>1, <2>2 DEF FindByOAuth
<1>4. CASE FindByEmail(r)
  <2>1. ASSUME NEW c \in WithEmail(f.email), Admit(r, c) PROVE AccountInv'
    BY <1>1, <1>4, <2>1, AdmitAccount DEF FindByEmail, WithEmail, At
  <2>2. ASSUME NEW c \in Customer,
               frame' = [frame EXCEPT ![r].pc = "insert", ![r].id = c]
        PROVE  AccountInv'
    <3>1. /\ frame'[r].pc = "insert"
          /\ frame'[r].oauth = f.oauth /\ frame'[r].email = f.email
          /\ \A q \in Request \ {r} : frame'[q] = frame[q]
      BY <2>2 DEF TypeInv, Frame
    <3>2. f.oauth \in Identity \ crossed => Known(frame'[r], customer)
      BY <1>4, <3>1 DEF FindByEmail, At, AccountInv, Looked, Known
    <3> QED
      BY <1>1, <3>1, <3>2, FrameAccount
  <2> QED
    BY <1>4, <2>1, <2>2 DEF FindByEmail
<1> QED
  BY <1>2, <1>3, <1>4

\* The insert: the index has seen to it that no account of the identity has
\* the request's e-mail, so that by what is known of them there is none.
LEMMA InsertAccount ==
  ASSUME TypeInv, TypeInv', AccountInv, NEW r \in Request, InsertCustomer(r)
  PROVE  AccountInv'
<1> DEFINE f == frame[r]
           n == f.id
           row == [email |-> f.email, password |-> f.op = "register",
                   oauth |-> f.oauth, is_active |-> TRUE]
<1>1. UNCHANGED <<last, crossed>> /\ f.pc = "insert"
  BY DEF InsertCustomer, At
<1>2. CASE Leave(r) /\ UNCHANGED customer
  BY <1>1, <1>2, LeaveAccount
<1>3. CASE /\ WithEmail(f.email) = {} /\ n \in Customer /\ customer[n] = Nil
           /\ Goto(r, "readBack") /\ customer' = [customer EXCEPT ![n] = row]
  <2>1. /\ frame'[r].pc = "readBack" /\ frame'[r].id = n
        /\ frame'[r].oauth = f.oauth /\ frame'[r].email = f.email
        /\ \A q \in Request \ {r} : frame'[q] = frame[q]
    BY <1>3 DEF Goto, TypeInv, Frame
  <2>2. /\ customer'[n].email = f.email /\ customer'[n].oauth = f.oauth
        /\ \A c \in Customer \ {n} : customer'[c] = customer[c]
    BY <1>3 DEF TypeInv
  <2>3. \A c \in Customer : Exists(c) => customer[c].email # f.email
    BY <1>3 DEF WithEmail
  <2>4. \A c \in Customer : Exists(c)' => c = n \/ Exists(c)
    BY <2>2 DEF Exists
  <2> HIDE DEF f, n, row
  <2>5. OneAccountPerEmail'
    <3> SUFFICES ASSUME NEW c \in Customer, NEW d \in Customer,
                        Exists(c)', Exists(d)',
                        customer'[c].email = customer'[d].email
                 PROVE  c = d
      BY DEF OneAccountPerEmail, WithEmail
    <3>1. CASE c # n /\ d # n
      <4>1. /\ Exists(c) /\ Exists(d) /\ customer[c].email = customer[d].email
            /\ customer[c].email \in Email
        BY <2>2, <2>4, <3>1 DEF TypeInv, Exists, Row
      <4> QED
        BY <4>1 DEF AccountInv, OneAccountPerEmail, WithEmail
    <3> QED
      BY <2>2, <2>3, <2>4, <3>1
  <2>6. IdentityAccounted'
    <3> SUFFICES ASSUME NEW g \in Identity \ crossed,
                        NEW c \in Customer, NEW d \in Customer, Exists(c)', Exists(d)',
                        customer'[c].oauth = g, customer'[d].oauth = g
                 PROVE  c = d
      BY <1>1 DEF IdentityAccounted, WithOAuth
    <3>1. g = f.oauth => \A b \in Customer : ~(Exists(b) /\ customer[b].oauth = g)
      <4>1. g = f.oauth => Known(f, customer)
        BY <1>1 DEF AccountInv, Looked, f
      <4> QED
        BY <1>1, <2>3, <4>1 DEF Known, Exists
    <3>2. CASE c # n /\ d # n
      BY <2>2, <2>4, <3>2 DEF AccountInv, IdentityAccounted, WithOAuth
    <3> QED
      BY <2>2, <2>4, <3>1, <3>2
  <2>7. Alike'
    BY <1>1, <2>1 DEF AccountInv, Alike, f
  <2>8. Looked'
    <3> SUFFICES ASSUME NEW q \in Request,
                        frame'[q].pc \in {"byEmail", "insert", "readBack", "issue"},
                        frame'[q].oauth \in Identity \ crossed
                 PROVE  Known(frame'[q], customer')
      BY <1>1 DEF Looked
    <3>1. CASE q = r
      BY <2>1, <2>2, <3>1 DEF Known
    <3>2. CASE q # r
      <4>1. frame'[q] = frame[q] /\ Known(frame[q], customer)
        BY <2>1, <3>2 DEF AccountInv, Looked
      <4>2. f.oauth = frame[q].oauth => f.email = frame[q].email
        BY <4>1 DEF AccountInv, Alike, f
      <4>3. frame[q].pc \in {"readBack", "issue"} =>
              frame[q].id \in Customer /\ Exists(frame[q].id)
        BY DEF TypeInv, FrameOK, Exists
      <4> QED
        BY <1>3, <2>2, <2>4, <4>1, <4>2, <4>3 DEF Known, Exists
    <3> QED
      BY <3>1, <3>2
  <2>9. Remembered'
    <3>1. \A g \in Identity : last[g] # Nil => last[g].id \in Customer
      BY DEF TypeInv, Login
    <3> QED
      BY <1>1, <1>3, <2>2, <3>1 DEF AccountInv, Remembered, Exists
  <2> QED
    BY <2>5, <2>6, <2>7, <2>8, <2>9 DEF AccountInv
<1> QED
  BY <1>2, <1>3, InsertType

LEMMA RestAccount ==
  ASSUME TypeInv, TypeInv', AccountInv,
         \/ \E r \in Request : IssueRefreshToken(r) \/ Abort(r)
         \/ \E c \in Customer : Toggle(c)
  PROVE  AccountInv'
<1>1. ASSUME NEW r \in Request, IssueRefreshToken(r) PROVE AccountInv'
  <2> DEFINE f == frame[r]
  <2>1. f \in Frame /\ FrameOK(f, customer, born)
    BY DEF TypeInv
  <2>2. UNCHANGED <<customer, crossed>> /\ Leave(r) /\ f.pc = "issue"
    BY <1>1 DEF IssueRefreshToken, At
  <2>3. Remembered'
    <3> SUFFICES ASSUME NEW g \in Identity, last'[g] # Nil
                 PROVE  /\ Exists(last'[g].id)
                        /\ \/ customer[last'[g].id].oauth = g
                           \/ customer[last'[g].id].email = last'[g].email
      BY <2>2 DEF Remembered, Exists
    <3>1. CASE last'[g] = last[g]
      BY <3>1 DEF AccountInv, Remembered
    <3>2. CASE last'[g] # last[g]
      <4>1. f.oauth = g /\ last'[g] = [id |-> f.id, email |-> f.email]
        BY <1>1, <3>2 DEF IssueRefreshToken, TypeInv
      <4>2. f.op = "oauth"
        BY <2>1, <2>2, <4>1, CustomerNil DEF FrameOK
      <4> QED
        BY <2>1, <2>2, <4>1, <4>2 DEF FrameOK, Exists
    <3> QED
      BY <3>1, <3>2
  <2> QED
    BY <2>2, <2>3, LeaveAccount
<1>2. ASSUME NEW r \in Request, Abort(r) PROVE AccountInv'
  BY <1>2, LeaveAccount DEF Abort
<1>3. ASSUME NEW c \in Customer, Toggle(c) PROVE AccountInv'
  <2> DEFINE row == [customer[c] EXCEPT !.is_active = ~@]
  <2>0. /\ customer[c] \in Row /\ customer' = [customer EXCEPT ![c] = row]
        /\ UNCHANGED <<frame, last, crossed>>
    BY <1>3 DEF Toggle, TypeInv, Exists
  <2>1. Same(customer, customer') /\ UNCHANGED <<frame, last, crossed>>
    <3>1. row \in Row /\ row.email = customer[c].email /\ row.oauth = customer[c].oauth
      BY <2>0 DEF Row
    <3>2. row # Nil /\ customer[c] # Nil
      BY <2>0, <3>1, CustomerNil
    <3> HIDE DEF row
    <3> QED
      BY <2>0, <3>1, <3>2 DEF Same, TypeInv
  <2>2. CASE Request = {}
    BY <2>1, <2>2 DEF AccountInv, OneAccountPerEmail, IdentityAccounted, WithEmail,
         WithOAuth, Exists, Same, Alike, Looked, Remembered, TypeInv, Login
  <2>3. CASE Request # {}
    <3>1. PICK r \in Request : TRUE
      BY <2>3
    <3>2. /\ frame'[r].pc \in {"byEmail", "insert", "readBack", "issue"}
          /\ frame'[r].oauth \in Identity \ crossed
          => Known(frame'[r], customer)
      BY <2>1, <3>1 DEF AccountInv, Looked
    <3> QED
      BY <2>1, <3>1, <3>2, FrameAccount
  <2> QED
    BY <2>2, <2>3
<1> QED
  BY <1>1, <1>2, <1>3

LEMMA InitAccount == CustomerInit => AccountInv
BY CustomerNil DEF CustomerInit, AccountInv, OneAccountPerEmail, IdentityAccounted,
     WithEmail, WithOAuth, Exists, Alike, Looked, Remembered, Free

LEMMA NextAccount ==
  TypeInv /\ TypeInv' /\ AccountInv /\ [CustomerNext]_customerVars => AccountInv'
<1> SUFFICES ASSUME TypeInv, TypeInv', AccountInv, [CustomerNext]_customerVars
             PROVE  AccountInv'
  OBVIOUS
<1>1. CASE UNCHANGED customerVars
  BY <1>1 DEF customerVars, AccountInv, OneAccountPerEmail, IdentityAccounted,
       WithEmail, WithOAuth, Exists, Alike, Looked, Remembered
<1> QED
  BY <1>1, ArrivalAccount, InsertAccount, LookAccount, RestAccount
     DEF CustomerNext, Advance

LEMMA AccountsAlways == CustomerSpec => [](TypeInv /\ AccountInv)
BY InitType, NextType, InitAccount, NextAccount, PTL DEF CustomerSpec

\* However registrations and logins overlap, an e-mail has one account
\* (auth.handlers.ts:62, 160).
THEOREM EmailsUnique == CustomerSpec => []OneAccountPerEmail
<1>1. AccountInv => OneAccountPerEmail
  BY DEF AccountInv
<1> QED
  BY <1>1, AccountsAlways, PTL

\* An identity gets a second account only by logins with different e-mails that
\* overlapped (auth.handlers.ts:153, 164).
THEOREM IdentitiesAccounted == CustomerSpec => []IdentityAccounted
<1>1. AccountInv => IdentityAccounted
  BY DEF AccountInv
<1> QED
  BY <1>1, AccountsAlways, PTL

\* Who comes back with the same e-mail gets the same account, but in the two
\* cases the property names (auth.handlers.ts:153-173).
THEOREM SameAccount == CustomerSpec => SameAccountAgain
<1>1. ASSUME TypeInv, AccountInv, CustomerNext, NEW g \in Identity,
             last[g] # Nil, last'[g].email = last[g].email, g \notin crossed
      PROVE  \/ last'[g].id = last[g].id
             \/ /\ last'[g].id \in WithOAuth(g)
                /\ last[g].id \notin WithOAuth(g)
                /\ customer[last'[g].id].email # last[g].email
  <2>1. CASE last'[g] = last[g]
    BY <2>1
  <2>2. CASE last'[g] # last[g]
    <3>1. PICK r \in Request : IssueRefreshToken(r)
      BY <1>1, <2>2 DEF CustomerNext, Arrival, RegisterCustomer, LoginCustomer,
           OAuthLogin, Advance, InsertCustomer, ReadBack, FindByOAuth, FindByEmail,
           Abort, Toggle
    <3> DEFINE f == frame[r]
               a == last[g].id
    <3>2. /\ f.pc = "issue" /\ f.oauth = g
          /\ last'[g] = [id |-> f.id, email |-> f.email]
      BY <1>1, <2>2, <3>1 DEF IssueRefreshToken, At, TypeInv
    <3>3. /\ f.id \in Customer /\ Exists(f.id)
          /\ customer[f.id].oauth = g \/ customer[f.id].email = f.email
      <4>1. FrameOK(f, customer, born) /\ born \subseteq Customer
        BY <1>1 DEF TypeInv
      <4> QED
        BY <3>2, <4>1, CustomerNil DEF FrameOK, Exists
    <3>4. /\ a \in Customer /\ Exists(a) /\ f.email = last[g].email
          /\ customer[a].oauth = g \/ customer[a].email = f.email
      BY <1>1, <3>2 DEF AccountInv, Remembered, TypeInv, Login
    <3>5. \/ customer[f.id].oauth = g
          \/ customer[a].oauth = g => customer[a].email = f.email
      <4>1. Known(f, customer)
        BY <1>1, <3>2 DEF AccountInv, Looked
      <4> QED
        BY <3>2, <3>4, <4>1 DEF Known, Exists
    <3>6. f.email \in Email
      <4>1. FrameOK(f, customer, born)
        BY <1>1 DEF TypeInv
      <4> QED
        BY <3>2, <4>1, CustomerNil DEF FrameOK
    <3>7. customer[f.id].email = f.email /\ customer[a].email = f.email => f.id = a
      BY <1>1, <3>3, <3>4, <3>6 DEF AccountInv, OneAccountPerEmail, WithEmail
    <3>8. customer[f.id].oauth = g /\ customer[a].oauth = g => f.id = a
      BY <1>1, <3>3, <3>4 DEF AccountInv, IdentityAccounted, WithOAuth
    <3> HIDE DEF f, a
    <3>9. \/ f.id = a
          \/ /\ customer[f.id].oauth = g /\ customer[a].oauth # g
             /\ customer[f.id].email # f.email
      BY <3>3, <3>4, <3>5, <3>7, <3>8
    <3> QED
      BY <3>2, <3>3, <3>4, <3>9 DEF WithOAuth, a
  <2> QED
    BY <2>1, <2>2
<1>2. TypeInv /\ AccountInv /\ [CustomerNext]_customerVars =>
        [\A g \in Identity :
           last[g] # Nil /\ last'[g].email = last[g].email /\ g \notin crossed =>
             \/ last'[g].id = last[g].id
             \/ /\ last'[g].id \in WithOAuth(g)
                /\ last[g].id \notin WithOAuth(g)
                /\ customer[last'[g].id].email # last[g].email]_customerVars
  BY <1>1
<1> QED
  BY <1>2, AccountsAlways, PTL DEF CustomerSpec, SameAccountAgain

=============================================================================
