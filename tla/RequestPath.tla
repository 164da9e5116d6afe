---------------------------- MODULE RequestPath ----------------------------
(***************************************************************************)
(* A request on its way: browser, gateway (token, role, validation), the   *)
(* admin or the customer service, for inventory routes on to the inventory *)
(* service, and the answer back, each tier turning the error of the one    *)
(* below into its own.  No tier retries and none sets a deadline.  Any of  *)
(* them may fail or die between two steps, and any connection may break    *)
(* while the tier below goes on working.                                   *)
(*                                                                         *)
(* What a handler does inside its service is in Catalog, Categories and    *)
(* the others; here it writes once (Write), and the rest of it follows     *)
(* (Finish).  The one value followed to the table is the adjustment of     *)
(* updateStock, because it changes its type twice on the way: a JSON       *)
(* number, an int32 of the wire, an INT column.                            *)
(* Logins, refreshes and logouts have tokens of their own and are in       *)
(* RefreshTokens; getSystemHealth answers 200 whatever is below it.        *)
(***************************************************************************)
EXTENDS Integers

CONSTANTS
    Request,              \* requests, each sent once
    Admin,                \* admins who hold an access token
    RoleOf,               \* the role in each one's token, fixed when it was issued
    Routes,               \* the routes requests may take
    Delta,                \* adjustments a client may ask for: any integers
    MaxInt,               \* largest integer of the wire and the column, 2^31 - 1 in the code
    InitialStock,         \* stock_quantity before the first request
    Nobody, Shopper,      \* senders without a valid token, with a customer's
    Nil

Super == "super_admin"
Role == {Super, "maintainer", "reporter"}

\* Routes by the middleware they stand behind and the service that serves them.
InventoryEdit == {"createCategory", "updateCategory", "createProduct",
                  "updateProduct", "updateStock", "uploadProductImage",
                  "bulkUploadProducts"}
InventoryDelete == {"deleteCategory", "deleteProduct"}
InventoryRead == {"listCategories", "getCategory", "listProducts", "getProduct"}
UserEdit == {"createAdminUser", "updateAdminUser", "deleteAdminUser",
             "toggleAdminStatus"}
UserRead == {"listAdminUsers", "getAdminUser"}
SystemRead == {"getDashboardStats", "getAuditLogs"}
CustomerEdit == {"updateProfile", "addToCart", "updateCartItem",
                 "removeFromCart"}
CustomerRead == {"getProfile", "getCart"}
PublicRead == {"public.listCategories", "public.listProducts",
               "public.getProduct"}

InventoryRoute == InventoryEdit \cup InventoryDelete \cup InventoryRead
AdminRoute == InventoryRoute \cup UserEdit \cup UserRead \cup SystemRead
CustomerRoute == CustomerEdit \cup CustomerRead
Route == AdminRoute \cup CustomerRoute \cup PublicRead

\* Routes whose handlers end in writeAuditLog.
Logged == InventoryEdit \cup InventoryDelete \cup UserEdit
\* Those whose proxy collects a stream and sends it on without metadata.
Streamed == {"uploadProductImage", "bulkUploadProducts"}
\* Those that another service serves than the first one behind the gateway.
Proxied == InventoryRoute \cup PublicRead

ASSUME ConstantsOK ==
    /\ RoleOf \in [Admin -> Role]
    /\ Routes \subseteq Route
    /\ Delta \subseteq Int
    /\ MaxInt \in Nat
    /\ InitialStock \in 0..MaxInt
    /\ Nobody \notin Admin \cup {Shopper, Nil}
    /\ Shopper \notin Admin \cup {Nil}
    /\ Nil \notin Admin

VARIABLES
    sent,                 \* sent[r]: what r asks for and who sent it, Nil before
    at,                   \* at[r]: the step that works on r
    meta,                 \* meta[r]: the admin named in the call's metadata
    answer,               \* answer[r]: the tier that has heard how r ended, and how
    stock,                \* stock_quantity of the product
    log,                  \* log[r]: performed_by of the audit row of r
    times,                \* history: how often r was carried out
    applied               \* history: what r did to the stock

vars == <<sent, at, meta, answer, stock, log, times, applied>>

\* Integers that int32 has, and how many.
Fits(n) == n \in -(MaxInt + 1)..MaxInt
Span == 2 * (MaxInt + 1)

\* An integer as protobuf's int32 carries it: its low bits, read as signed.
Wire(n) == IF n % Span > MaxInt THEN (n % Span) - Span ELSE n % Span

\* own: the account a request is about is the sender's.
Sender == Admin \cup {Nobody, Shopper}
Errand == [route : Routes, by : Sender, valid : BOOLEAN, delta : Delta \cup {0},
           own : BOOLEAN]
ASSUME NilApart == Nil \notin Errand

Step == {"idle", "gateway", "proxy", "handler", "written", "over"}

\* Tiers in the order in which an answer passes them.
Tier == 0..3
Unheard == 0
Middle == 1
Gateway == 2
Client == 3
Status == {"OK", "INVALID_ARGUMENT", "NOT_FOUND", "ALREADY_EXISTS",
           "PERMISSION_DENIED", "UNAUTHENTICATED", "RESOURCE_EXHAUSTED",
           "INTERNAL", "UNAVAILABLE"}
Awaited == [tier |-> Unheard, status |-> "OK"]

TypeOK ==
    /\ sent \in [Request -> Errand \cup {Nil}]
    /\ at \in [Request -> Step]
    /\ meta \in [Request -> Admin \cup {Nil}]
    /\ answer \in [Request -> [tier : Tier, status : Status]]
    /\ stock \in 0..MaxInt
    /\ log \in [Request -> Admin \cup {Nil}]
    /\ times \in [Request -> {0, 1}]
    /\ applied \in [Request -> Int]

Init == /\ sent = [r \in Request |-> Nil]
        /\ at = [r \in Request |-> "idle"]
        /\ meta = [r \in Request |-> Nil]
        /\ answer = [r \in Request |-> Awaited]
        /\ stock = InitialStock
        /\ log = [r \in Request |-> Nil]
        /\ times = [r \in Request |-> 0]
        /\ applied = [r \in Request |-> 0]

RouteOf(r) == sent[r].route
DeltaOf(r) == Wire(sent[r].delta)

-----------------------------------------------------------------------------
(* Answers.                                                                *)

\* The tier that called the step working on r.
Caller(r) == CASE at[r] = "gateway" -> Client
               [] at[r] = "proxy" -> Gateway
               [] OTHER -> IF RouteOf(r) \in Proxied THEN Middle ELSE Gateway

\* An answer reaches its caller unless that has already taken the call for
\* broken.
Respond(r, tier, status) ==
    answer' = [answer EXCEPT ![r] =
        IF @.tier < tier THEN [tier |-> tier, status |-> status] ELSE @]

\* The status the browser gets for one of gRPC's.
grpcToHttp(status) ==
    CASE status = "OK" -> 200
      [] status = "INVALID_ARGUMENT" -> 400
      [] status = "UNAUTHENTICATED" -> 401
      [] status = "PERMISSION_DENIED" -> 403
      [] status = "NOT_FOUND" -> 404
      [] status = "ALREADY_EXISTS" -> 409
      [] status = "RESOURCE_EXHAUSTED" -> 429
      [] status = "INTERNAL" -> 500
      [] status = "UNAVAILABLE" -> 503

-----------------------------------------------------------------------------
(* The gateway.                                                            *)

\* Routes whose handlers refuse when the account is the sender's own.
OwnAccount == {"deleteAdminUser", "toggleAdminStatus"}

\* Anyone may try any route.
Ask(r) ==
    /\ sent[r] = Nil
    /\ \E e \in Errand :
         /\ IF e.route = "updateStock" THEN e.delta \in Delta ELSE e.delta = 0
         /\ e.own => e.route \in OwnAccount /\ e.by \in Admin
         /\ sent' = [sent EXCEPT ![r] = e]
    /\ at' = [at EXCEPT ![r] = "gateway"]
    /\ UNCHANGED <<meta, answer, stock, log, times, applied>>

\* Slip: a deletion is put among the routes that every role may take.
requireRoleLoose(route) == IF route \in InventoryEdit THEN {Super, "maintainer"}
                           ELSE IF route \in UserEdit \cup UserRead THEN {Super}
                           ELSE Role
\* Slip: the inventory is kept to super admins altogether.
requireRoleStrict(route) == IF route \in InventoryRead \cup SystemRead THEN Role
                            ELSE {Super}

\* The roles named on each admin route.
requireRole(route) == IF route \in InventoryEdit THEN {Super, "maintainer"}
                      ELSE IF route \in InventoryDelete \cup UserEdit \cup UserRead
                      THEN {Super}
                      ELSE Role

\* Routes without a schema to validate against.
Unchecked == {"listCategories", "getProfile", "getCart", "public.listCategories"}

\* Both kinds of token are signed with one key, and neither middleware looks
\* at more than the signature: a customer's token passes for an admin's without
\* a role, an admin's for a customer's without a customer_id.
Authenticated(e) == e.by # Nobody \/ e.route \in PublicRead
HasRole(e) == e.route \in AdminRoute =>
                  e.by \in Admin /\ RoleOf[e.by] \in requireRole(e.route)

\* The middleware of a route, in its order: token, role, validation.
Admission(e) == CASE ~Authenticated(e) -> "UNAUTHENTICATED"
                  [] Authenticated(e) /\ ~HasRole(e) -> "PERMISSION_DENIED"
                  [] Authenticated(e) /\ HasRole(e) ->
                       IF e.valid \/ e.route \in Unchecked THEN "OK"
                                                        ELSE "INVALID_ARGUMENT"

TurnAway(r) ==
    /\ at[r] = "gateway"
    /\ Admission(sent[r]) # "OK"
    /\ Respond(r, Client, Admission(sent[r]))
    /\ at' = [at EXCEPT ![r] = "over"]
    /\ UNCHANGED <<sent, meta, stock, log, times, applied>>

\* The controller; three of them pass on no metadata.
buildMeta(e) == IF e.route \in AdminRoute
                               \ {"listCategories", "getCategory", "getProduct"}
                THEN e.by ELSE Nil

Forward(r) ==
    /\ at[r] = "gateway"
    /\ Admission(sent[r]) = "OK"
    /\ meta' = [meta EXCEPT ![r] = buildMeta(sent[r])]
    /\ at' = [at EXCEPT ![r] = IF RouteOf(r) \in Proxied THEN "proxy"
                                                         ELSE "handler"]
    /\ UNCHANGED <<sent, answer, stock, log, times, applied>>

-----------------------------------------------------------------------------
(* The proxies in the admin service and, for the storefront, the customer  *)
(* service.  A stream is sent on when all of it has arrived.               *)

\* Slip: the metadata is built once and used for every call.
forwardMetaShared(r) == LET named == {q \in Request : meta[q] # Nil}
                        IN  IF named = {} THEN Nil ELSE meta[CHOOSE q \in named : TRUE]

forwardMeta(r) == IF RouteOf(r) \in Streamed \cup {"listProducts"} \cup PublicRead
                  THEN Nil ELSE meta[r]

Proxy(r) ==
    /\ at[r] = "proxy"
    /\ meta' = [meta EXCEPT ![r] = forwardMeta(r)]
    /\ at' = [at EXCEPT ![r] = "handler"]
    /\ UNCHANGED <<sent, answer, stock, log, times, applied>>

-----------------------------------------------------------------------------
(* The handler.                                                            *)

\* requireSuperAdmin, which the dashboard meets in its call of ListAdminUsers.
Guarded == UserEdit \cup UserRead \cup {"getDashboardStats"}
requireSuperAdmin(r) == RouteOf(r) \in Guarded =>
                            meta[r] # Nil /\ RoleOf[meta[r]] = Super

\* What a handler may refuse before it writes, by the error it throws: the
\* target is not there, the name is taken (or the category in use), validateGrpc
\* finds wrong what the gateway did not, the target is the sender's own account.
NotFoundError == Route \ {"createCategory", "listCategories", "listProducts",
    "createAdminUser", "listAdminUsers", "getDashboardStats", "getAuditLogs",
    "getCart", "bulkUploadProducts", "public.listCategories"}
ConflictError == {"createCategory", "updateCategory", "deleteCategory",
                  "createAdminUser"}
BadRequestError == {"createProduct", "createAdminUser"}

\* The account is the one named in the metadata.
ForbiddenError(r) == RouteOf(r) \in OwnAccount /\ sent[r].own /\ meta[r] = sent[r].by

\* The customer handlers validate the customer_id, which the gateway takes from
\* the token: from an admin's it is undefined and arrives as "", no UUID.
CustomerIdSchema(r) == RouteOf(r) \in CustomerRoute => sent[r].by = Shopper

Refusal(r, status) ==
    LET route == RouteOf(r)
    IN  IF ~requireSuperAdmin(r) THEN status = "PERMISSION_DENIED"
        ELSE IF ~CustomerIdSchema(r) THEN status = "INVALID_ARGUMENT"
        ELSE \/ status = "NOT_FOUND" /\ route \in NotFoundError
             \/ status = "ALREADY_EXISTS" /\ route \in ConflictError
             \/ status = "PERMISSION_DENIED" /\ ForbiddenError(r)
             \/ /\ status = "INVALID_ARGUMENT"
                /\ \/ route \in BadRequestError
                   \/ route = "updateStock" /\ stock + DeltaOf(r) < 0

Refuse(r) ==
    /\ at[r] = "handler"
    /\ \E status \in Status : Refusal(r, status) /\ Respond(r, Caller(r), status)
    /\ at' = [at EXCEPT ![r] = "over"]
    /\ UNCHANGED <<sent, meta, stock, log, times, applied>>

\* The checks before the write that depend on the sender.
Passes(r) == requireSuperAdmin(r) /\ CustomerIdSchema(r) /\ ~ForbiddenError(r)

\* Slip: the UPDATE does not ask whether the stock stays above zero.
WriteUnasked(r) ==
    /\ at[r] = "handler"
    /\ Passes(r)
    /\ IF RouteOf(r) = "updateStock"
       THEN stock + DeltaOf(r) <= MaxInt /\ stock' = stock + DeltaOf(r)
       ELSE UNCHANGED stock
    /\ applied' = [applied EXCEPT ![r] = @ + (stock' - stock)]
    /\ times' = [times EXCEPT ![r] = @ + 1]
    /\ at' = [at EXCEPT ![r] = "written"]
    /\ UNCHANGED <<sent, meta, answer, log>>

\* Slip: affectedRows is not looked at, and an UPDATE that would take the stock
\* below zero passes for one that was done.
WriteUnnoticed(r) ==
    /\ at[r] = "handler"
    /\ Passes(r)
    /\ IF RouteOf(r) = "updateStock"
       THEN /\ stock + DeltaOf(r) <= MaxInt
            /\ stock' = IF stock + DeltaOf(r) < 0 THEN stock ELSE stock + DeltaOf(r)
       ELSE UNCHANGED stock
    /\ applied' = [applied EXCEPT ![r] = @ + (stock' - stock)]
    /\ times' = [times EXCEPT ![r] = @ + 1]
    /\ at' = [at EXCEPT ![r] = "written"]
    /\ UNCHANGED <<sent, meta, answer, log>>

\* The look-up and the write, or the read if the route only reads.  An
\* adjustment past the column is an error of MySQL's (Fail).
Write(r) ==
    /\ at[r] = "handler"
    /\ Passes(r)
    /\ IF RouteOf(r) = "updateStock"
       THEN stock + DeltaOf(r) \in 0..MaxInt /\ stock' = stock + DeltaOf(r)
       ELSE UNCHANGED stock
    /\ applied' = [applied EXCEPT ![r] = @ + (stock' - stock)]
    /\ times' = [times EXCEPT ![r] = @ + 1]
    /\ at' = [at EXCEPT ![r] = "written"]
    /\ UNCHANGED <<sent, meta, answer, log>>

\* The rest: caches, audit row, answer.  Without metadata the row is by
\* "system", which the foreign key refuses; a failed INSERT is swallowed.
Finish(r) ==
    /\ at[r] = "written"
    /\ \/ /\ RouteOf(r) \in Logged
          /\ log' = [log EXCEPT ![r] = meta[r]]
       \/ UNCHANGED log
    /\ Respond(r, Caller(r), "OK")
    /\ at' = [at EXCEPT ![r] = "over"]
    /\ UNCHANGED <<sent, meta, stock, times, applied>>

-----------------------------------------------------------------------------
(* Failures, and the way back.                                             *)

\* Routes whose requests or answers may exceed what gRPC takes in a message.
Bulky == Streamed \cup {"listProducts", "public.listProducts"}

\* The step working on r throws, meets a message above gRPC's size limit, or
\* its process dies.
Fail(r) ==
    /\ at[r] \notin {"idle", "over"}
    /\ \E status \in {"INTERNAL", "UNAVAILABLE", "RESOURCE_EXHAUSTED"} :
         /\ status = "RESOURCE_EXHAUSTED" => RouteOf(r) \in Bulky
         /\ Respond(r, Caller(r), status)
    /\ at' = [at EXCEPT ![r] = "over"]
    /\ UNCHANGED <<sent, meta, stock, log, times, applied>>

\* The connection to a tier's callee breaks; what is below it goes on.
Lose(r) ==
    /\ \E tier \in {Middle, Gateway, Client} :
         /\ tier = Middle => /\ at[r] \in {"handler", "written"}
                             /\ RouteOf(r) \in Proxied
         /\ tier = Gateway => at[r] \notin {"idle", "gateway"}
         /\ tier = Client => at[r] # "idle"
         /\ answer[r].tier < tier
         /\ Respond(r, tier, "UNAVAILABLE")
    /\ UNCHANGED <<sent, at, meta, stock, log, times, applied>>

\* Slip: the gateway calls again when the admin service was not available.
ReturnRetried(r) ==
    /\ answer[r].tier \in {Middle, Gateway}
    /\ IF answer[r].tier = Gateway /\ answer[r].status = "UNAVAILABLE"
       THEN /\ answer' = [answer EXCEPT ![r] = Awaited]
            /\ at' = [at EXCEPT ![r] = "gateway"]
       ELSE /\ Respond(r, answer[r].tier + 1, answer[r].status)
            /\ UNCHANGED at
    /\ UNCHANGED <<sent, meta, stock, log, times, applied>>

\* Slip: a proxy has no catch around its call.
ReturnResults(r) ==
    /\ answer[r].tier \in {Middle, Gateway}
    /\ answer[r].tier = Middle => answer[r].status = "OK"
    /\ Respond(r, answer[r].tier + 1, answer[r].status)
    /\ UNCHANGED <<sent, at, meta, stock, log, times, applied>>

\* A proxy, or the gateway, passes on what it has heard.
Return(r) ==
    /\ answer[r].tier \in {Middle, Gateway}
    /\ Respond(r, answer[r].tier + 1, answer[r].status)
    /\ UNCHANGED <<sent, at, meta, stock, log, times, applied>>

Serve(r) == \/ TurnAway(r) \/ Forward(r) \/ Proxy(r) \/ Refuse(r)
            \/ Write(r) \/ Finish(r) \/ Fail(r) \/ Return(r)

Next == \E r \in Request : Ask(r) \/ Serve(r) \/ Lose(r)

\* A tier settles what it was given: the event loop runs, and a call to
\* MySQL, Redis or another tier answers or fails.  Nothing else would end a
\* wait, there being no deadlines.
Fairness == \A r \in Request : WF_vars(Serve(r))

Spec == Init /\ [][Next]_vars /\ Fairness

-----------------------------------------------------------------------------
(* Properties.                                                             *)

\* Whether the browser has its answer, and what it says of the request: a
\* 4xx but 429 refuses it.  429 is what gRPC's size limit becomes, and the
\* message above it may be the request or the answer.
Answered(r) == answer[r].tier = Client
Outcome(status) == LET http == grpcToHttp(status)
                   IN  IF http = 200 THEN "ok"
                       ELSE IF http \in {400, 401, 403, 404, 409} THEN "refused"
                       ELSE "failed"

Promise == INSTANCE Rpc WITH
    asked <- [r \in Request |-> sent[r] # Nil],
    reply <- [r \in Request |->
                 IF Answered(r) THEN Outcome(answer[r].status) ELSE "none"]

\* The path keeps what Rpc promises: across three tiers, lost connections and
\* failures between any two steps, nothing is carried out twice, success is
\* only answered to what was carried out, and a request answered with a 4xx
\* has changed nothing and never will.
PromiseKept == Promise!Spec

\* Every request is answered in the end.  No tier sets a deadline, so this
\* takes every proxy and handler to call back whatever happens to it.
AllAnswered == \A r \in Request : sent[r] # Nil ~> Answered(r)

\* What the README's table of admin roles grants, with the system routes, which
\* it does not name: any admin may read those.
Granted(role) == CASE role = Super -> AdminRoute
                   [] role = "maintainer" -> InventoryRoute \cup SystemRead
                   [] role = "reporter" -> InventoryRead \cup SystemRead
MayUse(e) == /\ e.route \in AdminRoute =>
                    e.by \in Admin /\ e.route \in Granted(RoleOf[e.by])
             /\ e.route \in CustomerRoute => e.by = Shopper

\* Nothing is carried out for whom it is not meant, whichever tier it takes to
\* stop it: an admin route only for an admin whose role it is granted to, a
\* customer route only for a customer, although the gateway's middleware lets
\* the token of either pass for the other's.
CarriedOutIfGranted ==
    \A r \in Request : times[r] > 0 => MayUse(sent[r])

\* Why a 403 may be answered: the route is not granted to the sender; it deletes
\* from the inventory, which the routes keep to super admins; it asks
\* admin-service for the list of users, which that keeps to them as well; or it
\* is about the super admin's own account.
MayBeForbidden(e) ==
    /\ e.route \in AdminRoute
    /\ \/ ~MayUse(e)
       \/ RoleOf[e.by] = "maintainer" /\ e.route \in InventoryDelete
       \/ RoleOf[e.by] # Super /\ e.route = "getDashboardStats"
       \/ RoleOf[e.by] = Super /\ e.own /\ e.route \in OwnAccount

\* Nobody is told 401 who sent a token, whatever kind it is of, and nobody 403 but
\* for one of those reasons; an admin whom the route is granted to hears neither.
RefusedIfNotGranted ==
    \A r \in Request : Answered(r) =>
        /\ answer[r].status = "UNAUTHENTICATED" =>
               sent[r].by = Nobody /\ RouteOf(r) \notin PublicRead
        /\ answer[r].status = "PERMISSION_DENIED" => MayBeForbidden(sent[r])

\* An audit row names the admin who sent the request it tells of, and tells
\* of one that was carried out.  Proxies must not drop or mix up metadata.
AttributedToSender ==
    \A r \in Request : log[r] # Nil => times[r] = 1 /\ log[r] = sent[r].by

\* Whether n is a client's adjustment in whole: the number itself, if an int32
\* has it, and a multiple of 2^32 more or less if not.
IsWhole(n, delta) == /\ Fits(delta) => n = delta
                     /\ (n - delta) % Span = 0

\* What a client hears of its adjustment is what the stock has gone through:
\* after a success all of it, after a refusal nothing, after a failure the one
\* or the other and never a part, whatever the adjustments of others did
\* meanwhile to the row that decides between them.
AdjustedAsTold ==
    \A r \in Request : Answered(r) =>
        LET outcome == Outcome(answer[r].status)
            whole == RouteOf(r) = "updateStock" /\ IsWhole(applied[r], sent[r].delta)
        IN  /\ outcome = "ok" => whole \/ RouteOf(r) # "updateStock"
            /\ outcome = "refused" => applied[r] = 0
            /\ applied[r] = 0 \/ whole
=============================================================================
