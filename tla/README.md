# A TLA+ model of the e-commerce and inventory backend

The repository is a set of TypeScript services: a gateway that speaks HTTP, three gRPC
services behind it (inventory, admin, customer), MySQL as the system of record, Redis for
cached reads and refresh tokens, and an object store for product images. The services
keep no state in memory. All that is hard about them comes from one fact: **a handler is an
async function, every `await` in it is a separate round trip, nothing makes two round trips
atomic, and between any two of them any other handler may run or the process may die.**
The modules here model exactly that. A request is a record with a program counter, one action
is one round trip, and the state is what MySQL, Redis, the object store and the browser hold.

## Inventory

| Component | State | Operations | What is hard | What makes it correct |
| --- | --- | --- | --- | --- |
| Product catalogue (`product.handlers.ts`, `product.queries.ts`) | `products` rows; Redis `product:{id}`, `products:list:*`; `audit_logs` | create, update, soft-delete, upload an image, adjust stock, get, list | late fills, lists named by a stale category, SCAN then DEL, failures between a write and its invalidation, overlapping stock adjustments, one pattern of a `Promise.all` failing | a stale entry has a known cause and is repaired by its TTL; stock stays in range and its audit rows add up to it; deleted stays deleted |
| Sessions (`rotate-refresh-token.ts`, the login/refresh/logout handlers and gateway controllers) | one Redis key per account and device; the browser's cookie | login, refresh, logout; time passing | two tabs refreshing, lost answers, grace period, logout during a refresh, account toggled during a refresh | a cookie is only refused for a known reason; no token for an inactive account; an ended session stays ended |
| Image store (`rustfs.ts`, `uploadProductImageHandler`) | objects `products/{id}/{type}.{ext}`; the URL in the row | put, set the URL, remove the previous object | uploads overtaking one another, failures between the steps | the URL names an object that exists; orphans have a known cause |
| Cart (`cart.handlers.ts`, `cart.queries.ts`) | `cart_items` rows; Redis `cart:{customerId}` | add, set quantity, remove, get | every handler also *fills* the cache; check then write | as for the catalogue; an answer shows the request's own write |
| Admin accounts and audit log (`admin.handlers.ts`, `admin.queries.ts`) | `admin_users`, `audit_logs.performed_by`, access tokens | create, update, delete, toggle | super admins acting on each other; roles in tokens older than the account; the foreign key from the log | no lock-out but by a known cause; the log keeps its authors and tells the truth |
| Categories (`category.handlers.ts`) | `categories`; Redis `categories:all` | list, create, update, delete | slug looked up, then inserted; delete against the foreign key; late fill | no dangling category; slugs unique |
| Bulk upload (`bulk.handlers.ts`, `excel/parser.ts`) | rows and images of one file | parse, insert, upload, invalidate | a row half done and reported failed; retries; `product:{id}` not invalidated | the report adds up and tells what was done |
| Customer accounts (`auth.handlers.ts`, `oauth.ts`) | `customers` | register, login, OAuth login | check then insert; linking by e-mail | one account per e-mail and per OAuth identity |
| Gateway, admin proxy (`gateway/src`, `inventory.handlers.ts` of admin-service, `call-grpc.ts`, `grpc-errors.ts`) | requests under way | token, role and validation of every route; forwarding with metadata; turning one tier's error into the next one's | answers lost after the write, no deadlines, no retries, metadata dropped by the streaming calls, tokens of admins and customers accepted by either's middleware, roles checked in two tiers, numbers that change type | nothing twice, a refusal changed nothing, every request answered; nobody does what is not for them, whatever token they send; the log names the sender; a sender is told what became of an adjustment |
| Validation, pagination (`pagination.ts`, the list queries) | the cached first page | clamp, page, count | a list that changes while it is read page by page, ties in `created_at` | a walk to the end misses and repeats nothing but for a known reason |
| Observability, wiring | none | logging, metrics, start-up | - | - |

Interactions: the gateway calls the admin and the customer service; the admin service
forwards inventory calls with the caller's id as metadata; the customer service asks
inventory for products to enrich a cart. They share MySQL and Redis. There are no queues,
locks, transactions or timers in the code: the only scheduling is the event loop's, and the
only timers are Redis TTLs, the token's grace period and the JWT's expiry.

`PROJECT.json` lists the components with their status, and every hazard at its line.

## Modules

| Module | Models | Composition |
| --- | --- | --- |
| `Catalog` | product catalogue, the categories it refers to, its cache and audit rows | - |
| `CatalogProofs` | theorems about `Catalog` | - |
| `RefreshTokens`, `RefreshTokensProofs` | sessions of one account on several devices | - |
| `ProductImages`, `ProductImagesProofs` | the object store and the upload's steps | details the image step that `Catalog` takes as one write |
| `Cart`, `CartProofs` | one customer's cart | - |
| `AdminAccounts`, `AdminAccountsProofs` | admin accounts, audit authorship, access tokens | sessions of the accounts are in `RefreshTokens` |
| `Categories` | the categories table with its unique indexes, `categories:all`, the audit rows | `Catalog` has only the ids of categories and their deletion |
| `BulkUpload` | one bulk upload, the lists it invalidates and their readers | extends `Categories`: its slugs change hands during the upload |
| `CategoriesProofs` | theorems about `Categories` and `BulkUpload`, and that the second is an implementation of the first | - |
| `CustomerAccounts`, `CustomerAccountsProofs` | registration, login, OAuth login | the sessions they end with are in `RefreshTokens` |
| `Rpc` | what the backend promises the sender of a request | the abstract specification |
| `RequestPath` | a request through gateway, proxy and service, and its answer back | implements `Rpc`; what a handler does besides its one write is in the other modules |
| `ListWalk` | a client reading a list page by page while it changes | the lists of `Catalog`, whose pages after the first it has not |
| `ClientProofs` | theorems about what a client gets to see: `RequestPath`, `ListWalk` | extends both, which have no variable in common |
| `MC...` | symmetry sets and operation subsets for TLC | extends the module it names |

Conventions, the same in every module but `RequestPath` and `ListWalk` (which name the request's
place `at` and have one client's `frame`, and in which an answer is a step of its own):

- `frame[r]` is the request in slot `r`: which RPC, the next round trip (`pc`), and the local
  variables the handler still needs. The arrival of a request is merged with its first
  round trip (a read that changes nothing), and a request that is answered without
  changing anything (a cache hit, NotFound, a failed validation) is no step.
- `Abort(r)` is any error that leaves the handler, or the process dying: the frame is gone
  and what was still to be done never is. A crash of the whole process is several of them.
- A round trip that failed after taking effect is the round trip followed by `Abort`.
- *History* variables and fields (marked so) record why something happened; no guard reads
  them.
- A definition under a comment that starts with *Slip:* is a variant of the definition after it
  with a plausible bug. It is not used by any specification; it shows that the property it is
  paired with in `PROJECT.json` would notice.

### Catalog

`product` is the table, `cache` what Redis has under each key (a product id, a category id
for its first list page, `All`), `ledger` the sum of the stock changes in `audit_logs`. A
writer is: read the row (arrival), `write`, for `updateStock` also `readBack`, `delDetail`
(`cacheDel`), then the list patterns, each a `Scan` and a `Del`, concurrent as in
`Promise.all`, then `Audit`. A reader that missed is: read (a list in two queries), `Fill`.
`excused` and `misfiled` are the history by which a stale entry is explained.

### RefreshTokens

A session is the Redis value: current token, previous token, whether the grace period still
runs. Tokens are numbered in the order they are issued. A request goes browser, gateway,
service, back; `Deliver` sets or clears the cookie, `Lose` drops the answer. Redis expiry and
the end of the grace period are actions of their own, so every order of a deadline and a
retry is covered. Admin and customer sessions run the same code with two key prefixes and
are modelled once.

### ProductImages

`url` is the extension in the row, `objects` the extensions stored. An upload is read, put,
set URL, remove the previous object. `crossed` and `left` explain a dangling URL and an orphan.

### Cart

`items` are the rows, `cache` the cached cart together with the rows it was built from
(history). A writer is: look-up (arrival), `write`, `del`, `read`, `enrich`, `set`; `getCart`
enters at `read`. An empty cart skips `enrich`, as `buildCart` does. `onSale` is what
inventory-service answers for.

### AdminAccounts

`pass` is the set of accounts that hold an unexpired access token with role super_admin;
`authors` the `performed_by` values of the log, which the foreign key protects. A request
is: look-up (arrival), `Write`, `Audit`. `waived` records a lock-out that no check was to
prevent.

### Categories

`category` is the table, `used` the categories products refer to (which `Refer` and `Unrefer`
change as the products' handlers would), `all` the cached list. A writer is: look-up (arrival;
an update looks up a new slug in a round trip of its own), write, read back, `DelAll`, `Audit`.
`trail` keeps of the audit log which categories were created and deleted, `lost` which of
those rows a failure cost.

### BulkUpload

`upload` holds the handler's locals: the slugs resolved (`slugOf`), the lines reported
(`bad`) and done (`ok`), the categories whose lists are to be deleted (`touched`, then `drop`).
A line is: `InsertRow`, `ReadRow`, and for each image that came `PutImage` and `SetUrl`;
`RowFails` is any of them throwing. `FindCategory` before them and the lists after them are
outside the inner `try`, so that their failure ends the upload. A line is its cells: whether
there is a name and a slug, the number its price begins with (in thousandths) and its stock;
`Parsed` is the verdict of `parseProductExcel`, `toFixed` its rounding, and `Fits` what
the columns take. The audit row is refused by its foreign key at every upload, so that
`AuditUpload` changes nothing.

### CustomerAccounts

`Presents` says which e-mails the valid tokens of an OAuth identity carry: more than one if
the e-mail was changed at the provider. `crossed` and `last` are history.

### RequestPath

`at[r]` is the tier that works on a request: `gateway` (token, role, validation, `Forward`),
`proxy` (the admin service for inventory routes, the customer service for the storefront),
`handler`, `written`, `over`. `answer[r]` is how far its answer has come and with which status:
a tier answers its caller once, `Return` passes that on, and the browser gets `grpcToHttp` of it.
`Fail` is a step that throws, a message above gRPC's size limit, or a process that dies; `Lose`
a connection that breaks while the tier below it goes on. `meta[r]` is the admin in the
call's metadata, `log[r]` the `performed_by` of its audit row. The sets of routes
(`InventoryEdit`, `Streamed`, `Guarded`, ...) are the routers, proxies and handlers read
route by route. A handler is one write here. Only `updateStock` says what it writes, because its
`delta` is a JSON number, then an `int32` (`Wire`), then an INT; `applied[r]` is the difference it
has made to the stock.

Any sender may try any route (`Ask`): an admin of each role, a customer (`Shopper`), somebody
without a valid token (`Nobody`). `Admission` is the middleware. Both kinds of token are signed
with one key and verified alike (jwt.ts:24-43), so `Authenticated` asks only whether there is
one; a customer's token on an admin route has no role and is answered 403 (`HasRole`,
auth.middleware.ts:80-87), and an admin's on a customer route reaches customer-service, where the
customer_id it does not have fails validation (`CustomerIdSchema`, a 400). A request about the
sender's own account says so (`own`), because two handlers refuse it.

`Rpc` is what that amounts to for the sender: `asked`, `times` (how often a request was
carried out) and `reply`. A 2xx means once; a 4xx (but 429) not now and not later; anything
else may mean either. `PromiseKept` maps `reply` to the status the browser has.

### ListWalk

`listed` is what the list has (all active products, or a category's), `created` its `created_at`
in whole seconds, `cache` the first page. `ListProducts` asks for a page; `GetPage`, `SelectRows`,
`CountRows`, `SetPage` are the round trips of `listProducts`; `Rows(page)` are the results
`ORDER BY created_at DESC LIMIT .. OFFSET ..` may have, with the limit and offset that
`clampPagination` makes. `Enter` and `Leave` are the writes of every handler that puts a product
into the list or takes it out, and `DropList` their pattern deletion. `walk`, `entered`, `left` and
`stale` say what one client has seen on its way and what happened meanwhile.

## Runs

| Run | Shows | Bounds and why they are enough |
| --- | --- | --- |
| `MCCatalog` products | no writer forgets `product:{id}`; stock in range, ledger balanced, deleted stays deleted, no dangling category | 1 product and its category, 2 requests of every kind but lists, failures. All of it concerns one row, and goes wrong, if it does, between one writer and one other request. Two contents, so that an image or a name can be stale; adjustments of +1 and -1 and a column limit of 1, so that overlapping ones hit both ends. Deadlock is not checked: without its category no product can be created |
| lists | no writer forgets a list, or only by a stale category | 2 categories, 2 requests that create, move, delete, list; no failures (the theorem has them) |
| live | the TTLs repair every stale entry once writing stops | details and lists against sales (delta -1) of a stock of at most 2, with failures; fair round trips and expiry |
| `MCRefreshTokens` sessions | why a cookie may be refused, and never a token for an inactive account | 1 device, 3 requests, 4 tokens: two overlapping refreshes and a login or logout across them |
| `MCProductImages` uploads | the URL resolves, orphans explained | 3 image types, 3 overlapping uploads |
| `MCCart` carts | why a cached cart may be stale, own writes are shown, removed stays removed | 3 requests on 1 item with quantities 1 and 2 and a column limit of 2, so that an addition overflows it |
| `MCAdminAccounts` accounts | lock-out, authorship and before explained | 2 accounts, 2 requests, a privileged and an ordinary role: two super admins acting on each other. Deadlock is not checked: two that delete each other leave nobody to act |
| `MCCategories` categories | slugs and names unique, `categories:all` never forgotten, the log tells which categories there are | 2 categories, names, slugs and requests, failures: each race is between two requests about one or two categories |
| `MCBulkUpload` bulk | the report counts every line once and is right about successes; lines filed under their slug; lists deleted or explained | files of 2 and 3 lines (of one category and of two, some refused by the table) with numbers at the columns' limit and one past it, and one file of every kind of line the parser refuses, so that a line fails before and after one that does not; 1 request that renames or deletes categories, 1 reader of the lists, a failure after any round trip |
| `MCCustomerAccounts` customers | one account per e-mail; two of one identity, and another account than last time, explained | 3 accounts, 2 requests, 2 identities with 2 and 1 of 2 e-mails, failures: the races are between two requests about one person |
| `MCRequestPath` requests | what an answer is worth, that there is one, who may do what with which token, whom the log names, what the sender of a `delta` is told | 2 requests, each of any of 5 senders (an admin of each role, a customer, nobody) on any of 6 routes: for either kind of token, of every way through proxy and handler, and about one's own account or another's. Public routes, which stop nobody, are left to the theorems. Integers of 3 bits, with a `delta` that fits in either sign and one that wraps. Deadlock is not checked: each request is sent once |
| `MCListWalk` pages | what a client that reads a list to its end may miss or see twice | 3 products with any of 3 seconds of `created_at` each (all ties and orders), pages of 2, so that a walk crosses an edge; 1 writer between its write and its deletion, any number of walks, failures and expiries |

The theorems hold for every value of the constants, so that the bounds above only matter for
what is not proved (next section but one). The bounds are `MaxToken` (tokens issued),
`MaxStock` and `MaxQuantity` (INT column limits, small here), the number of request slots
(concurrency) and, in `Catalog`, the ids that can be inserted.

**Fairness.** `Catalog` and `RequestPath` have a liveness property. That of `Catalog` assumes weak fairness of every
request's next round trip (MySQL and Redis answer or fail, the event loop runs every
settled promise) and of every key's expiry (Redis removes keys at their TTL; every
`cacheSet` passes one). It assumes nothing of clients: `EventuallyCoherent` starts from
the moment rows stop being written. `RequestPath` assumes weak fairness of each request's next
step: a tier's call answers or fails. That is all it can rest on, no call in the code having a
deadline; a peer that accepts a call and neither answers nor closes its connection is outside it, and
would hold the browser for ever. Given that much, `AllAnswered` says that no proxy, stream
collector or handler forgets its callback on any path. (A stream's `error` listener only
logs, inventory.handlers.ts:203-207 and bulk.handlers.ts:189-193: it runs when the caller's connection is
gone, which that caller has then noticed itself, `Lose`.)

## What is proved

| Theorem | Statement | Inductive argument |
| --- | --- | --- |
| `CatalogProofs!TypeCorrect`, `DeletedStay`, `NoDangling` | types and stock range; only `is_active: true` restores a product; no dangling category | `TypeOK` with what each `pc` implies about the frame |
| `CatalogProofs!CacheAccounted` (`DetailCoherent`, `AllListCoherent`, `CategoryListCoherent`) | every stale entry has one of the reasons | each writer's frame owes the keys it has changed (`Owed`) until it deletes them; the invariant relates what is still to scan, delete and do later to the category it read |
| `CatalogProofs!StockAddsUp` | a product's stock is what its audit rows add up to plus what the requests in flight have still to log | every step changes stock, ledger and flow by amounts that cancel (`LedgerMoves`), unless it loses an audit row, which gives the ledger up |
| `RefreshTokensProofs!CookieHonoured`, `NothingForInactive`, `EndedStays` | the three session properties | what a frame between two round trips knows of the key and the account, unless a history flag says that it was overtaken |
| `ProductImagesProofs!ImageExists`, `OrphansKnown` | the URL resolves unless uploads crossed; orphans explained | an upload not overtaken still has `old = url`, and its object is there |
| `CartProofs!CacheAccounted`, `WriteShown`, `RemovedStays` | the three cart properties | a writer not overtaken still finds its own quantity in the row, then in what it read |
| `AdminAccountsProofs!SomeoneInCharge`, `AuthorsStay`, `BeforeFound` | the three account properties | the caller of any operation but an update is not its target, so that a caller who is in charge stays in charge |
| `CategoriesProofs!CategoryTypeCorrect`, `NamesAndSlugsUnique`, `AllCoherent`, `LogTellsTruth` | the four properties of `Categories` | a category about to be inserted is known to its creator alone, so that nothing has been logged of it; a writer owes the deletion of `categories:all` until it deletes it |
| `CategoriesProofs!BulkRespectsCategories` | `BulkUpload` implements `Categories` | each step of the upload leaves the variables of `Categories` alone or is a step of it |
| `CategoriesProofs!BulkReportExact`, `BulkReportedDone`, `BulkFiledUnderSlug`, `BulkListsAccounted` | the four properties of `BulkUpload` | of the lines before the one at work, each is reported failed or done and never both; those to come have no row yet; the upload owes the lists of the categories it has touched |
| `CustomerAccountsProofs!EmailsUnique`, `IdentitiesAccounted`, `SameAccount` | the three properties of `CustomerAccounts` | a request between look-up and write knows who had its e-mail and identity when it looked, unless another one crossed it |
| `ClientProofs!PathKeepsPromise` | `RequestPath` implements `Rpc` | each step is one of `Rpc`'s or a stutter, because an answer never runs ahead of the work and a refusal is only given when the work is over |
| `ClientProofs!TypeCorrect`, `CarriedOutOnlyIfGranted`, `RefusedOnlyIfNotGranted`, `Attributed`, `Adjusted` | the safety properties of `RequestPath` | the same invariant: what each step implies of the request's token and role, metadata and audit row, and of what it has done to the stock; that each role's routes are among those it is granted but for the maintainers' deletions (`RolesGranted`); and that the wire delivers a number whole, or a multiple of 2^32 off (`WireWhole`) |
| `ClientProofs!NoneMissed`, `NoneRepeated` | a walk misses and repeats nothing but for a known reason | a product's rank (how many newer ones are listed): what was seen has a rank on the pages so far, what was not has one past them |

None of the invariants is inductive as it stands: each says something about tables and
caches that holds because of what a handler *remembers* from an earlier round trip, so
each is strengthened with a predicate on frames (`FrameOK` and the like). Three of them take
more than that:

- **The ledger.** `InFlight` sums over the requests in flight, and a sum over a finite set is a
  recursive function. `CatalogProofs` first shows that such a function exists (`AddsExists`), has
  integers as its values, and changes by `w[r] - v[r]` when its summand does at one point
  (`AddsDiffer`). These are inductions over the finite set, done without an induction rule: whatever
  fails of some subset fails of a smallest one (`SmallestSubset`, from the well-foundedness of
  `<` on the naturals), and a smallest one leads to a contradiction. With that, one step of one request
  moves the flow by the difference of its own part (`FlowStep`), and each action has to show
  only that its stock change is what it logs or owes from then on.
- **The bulk upload.** `BulkInv` relates the report to the lines done, for every file.
  `BulkListsAccounted` needs one conjunct more, `AheadOK`: a line still to come has no row. Without it
  the property holds but is not inductive, as a line's row might already have been under a slug whose
  list nobody was going to delete.
- **The walk.** Without ties, a product's place in every order MySQL may choose is its *rank*, the
  number of listed products newer than it (`PlaceIsRank`, by a bijection), and a page shows
  exactly the ranks between its offset and the next one's (`PageShows`). `Ahead` says that what has not
  been seen has a rank past the pages so far, `Behind` that what has been seen has one on them. A writer
  changes a rank only by a newer product entering or leaving (`RankMoves`), and the total a page is given
  is counted after its rows, so that a product past the rows is also counted.

Assumptions are the named `ASSUME`s of the modules, which TLC evaluates in every run. That `Request`
and `Product` are finite (`RequestsAssumption`, `WalkProducts`) is what makes a sum and a count of them
mean something; `BulkFiles` and `BulkNames` say that a file is a sequence of lines and that the
handler's marks are no names of rows.

Only model-checked: `EventuallyCoherent` and `AllAnswered` (liveness under fairness). Every other
property of a run is a theorem for every value of the constants.

## Disagreements with the documentation

Each follows from what a property above has to allow, or from the model itself:

- two simultaneous refreshes can leave the browser a token that is refused, although the grace
  period is there for "2 browser reload same time" (redis.ts:102): the second answer to arrive may
  be the one whose token was overwritten (`CookieAccounted`);
- an admin who has an audit row cannot be deleted (`Refused` in `AdminAccounts`: the foreign key of
  006_create_audit_logs.ts:9-13 restricts it); README.md:405 lists the deletion without a condition,
  and proto/admin.proto:100 and audit.queries.ts:42-44 expect rows whose author is gone;
- a `delta` that is no int32 passes the schema (inventory.schema.ts:93) and arrives as another number, so
  that an addition may remove stock; proto/inventory.proto:106 has "positive = add, negative = subtract"
  (`AdjustedAsTold`, whose `IsWhole` says how far off it may be; the sender is told of a success);
- a customer route "requires customer JWT" (README.md:440), but an admin's is let through and answered 400 by
  customer-service, and a customer's on an admin route is answered 403 and not 401: the two kinds of
  token are not told apart (auth.middleware.ts:29 and 61). Nothing is carried out for either
  (`CarriedOutIfGranted`, `RefusedIfNotGranted`);
- a maintainer or a reporter gets a 403 from `/dashboard-stats`, whose route admits them
  (system.routes.ts:20-26): it also asks for the list of users, which admin-service keeps to super
  admins (`RefusedIfNotGranted`);
- a maintainer gets a 403 for every DELETE of a category or product (inventory.routes.ts), which README.md:408
  and 458 ("Inventory CRUD") grant (`RefusedIfNotGranted`);
- a request or answer above gRPC's message limit, as a bulk upload of more than 4 MB that
  upload.middleware.ts lets through, is answered 429 (`Bulky`);
- `include_inactive` (inventory.schema.ts:43-45, "Admin-only: surfaces soft-deleted/deactivated products") is
  never forwarded by the gateway (inventory.controller.ts:163-172): a deactivated product cannot be listed;
- a client that reads a list page by page can miss a product that was there all the time, or see
  one twice, if the list changes before it, if products share a second of `created_at`, or if
  its first page is an old one (`WalkMissesNone`, `WalkRepeatsNone`);
- a price of less than half a cent in an uploaded file is "positive" to the parser and is stored as 0.00
  (excel/parser.ts:43 and 74, `toFixed`);
- `product:{id}` cached between the INSERT of an uploaded line and the UPDATE of its image URLs keeps its old
  URLs until its TTL: the upload deletes `stock:{id}` and the lists only (bulk.handlers.ts:141);
- a read that missed caches the row from before a write that has already deleted the key, and
  it is served until its TTL (`excused` in `DetailAccounted`, product.handlers.ts:190); README.md:360
  has the write delete "the affected keys in the same handler";
- a category list named by the category read before the UPDATE outlives the move it missed
  (`misfiled` in `CategoryListAccounted`, product.handlers.ts:113);
- before and after of a stock adjustment are read around other adjustments
  (product.handlers.ts:301), so that the "before/after quantities" of
  product.handlers.test.ts:381 need not differ by the delta; their sum is right (`LedgerBalanced`);
- an image upload can remove the object the URL names, not "the orphan"
  (product.handlers.ts:368-375), if another upload overtook it (`crossed` in `UrlAccounted`);
- no bulk upload is in the audit log, which README.md:351 calls the "Centralized mutation audit
  trail": the proxy drops the metadata, `performed_by` becomes "system", which is no
  `admin_users` id, and `writeAuditLog` swallows the refusal (`AuditUpload`,
  inventory.handlers.ts:193 and 216);
- a refresh under way restores a session that logout has deleted (`late` in `EndedStaysEnded`,
  rotate-refresh-token.ts:77);
- a cart built before a write is cached after it for 24 hours (`CartAccounted`,
  cart.handlers.ts:112);
- two overlapping toggles log the same before (`crossed` in `BeforeAccounted`,
  admin.handlers.ts:313).

## Not modelled

- `product:{id}` of products in a bulk upload. In `BulkUpload` a listing is one read and a
  pattern deletion one action; the two queries, SCAN and DEL are in `Catalog`.
- The two look-ups before an admin is created; `SlugsUnique` and `OneAccountPerEmail` are the
  same shape, and a name for each admin would take the run out of reach.
- Which strings a schema accepts: a request is valid or not (`RequestPath`).
- The rate limiters of the gateway (a counter in a library), CORS, `/system/health` (200 whatever
  is below it), `/metrics`, and the shape of the answers.
- Passwords; JWT signatures (a token is valid, or its sender is `Nobody`) and the expiry of a
  customer's; the cookie's own expiry, which is longer than the key's.
- `GetInventoryStats` and `GetProductsByIds` (plain reads); logging, metrics, tracing, start-up: they
  keep no state the services read.

## Plan

1. An abstract store ("a read returns a value the row had since the last expiry") that
   `Catalog`'s detail cache implements, as a refinement; `ProductImages` as a refinement of the
   image step in `Catalog`.
2. The gaps of `Catalog` and `BulkUpload` in one: the detail cache of uploaded products.
