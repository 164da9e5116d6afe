------------------------------ MODULE Catalog ------------------------------
(***************************************************************************)
(* The product catalogue of inventory-service: the products table in       *)
(* MySQL, its read-through cache in Redis, and the gRPC handlers that      *)
(* read and write both.  Every handler is an async function; each await is *)
(* one round trip to MySQL or Redis, no transaction spans two of them, and *)
(* between two awaits any other handler may run.  A request is therefore a *)
(* frame with a program counter, and one action is one round trip.  The    *)
(* arrival of a request is merged with its first round trip; a request     *)
(* answered without changing anything (a cache hit, NotFound) is no step.  *)
(***************************************************************************)
EXTENDS Integers, FiniteSets, FiniteSetsExt

CONSTANTS
  Product,    \* the ids a products row can ever get (bounds the inserts)
  Category,   \* the ids of the categories that ever exist
  All,        \* names the cached list of all products
  Request,    \* the slots for requests in flight (bounds the concurrency)
  Content,    \* name, description, price and image URLs, as one opaque value
  Delta,      \* the stock adjustments clients ask for
  MaxStock,   \* the largest value of the signed INT column stock_quantity
  MoveTo,     \* the category_id values updates carry; Nil is an absent field
  Ops,        \* the RPCs clients call
  Failures,   \* whether a round trip may fail or the process may crash
  Nil

\* A cache key is named by what it caches: a product id for product:{id}, a
\* category id for products:list:{id}:1:{limit}, All for
\* products:list:all:1:{limit}.  Only first pages are ever cached; the model
\* has one page size, no smaller than Product.
Key == Product \cup Category \cup {All}

ASSUME KeysAssumption ==
  /\ Product \cap Category = {}
  /\ All \notin Product \cup Category
  /\ IsFiniteSet(Product)

ASSUME RequestsAssumption == IsFiniteSet(Request)

ASSUME StockAssumption == MaxStock \in Nat /\ Delta \subseteq Int

ASSUME InputAssumption == MoveTo \subseteq Category \cup {Nil}

ASSUME FailuresAssumption == Failures \in BOOLEAN

Row == [category : Category, active : BOOLEAN, stock : 0..MaxStock,
        content : Content]

\* What the cache holds for a list: the rows of the page and pagination.total.
Listing == [rows : [Product -> Row \cup {Nil}], total : Nat]

ASSUME NilAssumption == Nil \notin Key \cup Row \cup Listing \cup Content \cup BOOLEAN

VARIABLES
  categories, \* the ids in the categories table
  product,    \* the products table: a row, or Nil
  cache,      \* Redis: the value under each key, or Nil
  frame,      \* the request each slot is serving
  ledger,     \* the stock the audit_logs rows of a product add up to, or Nil
              \* once one of those rows was lost
  excused,    \* history: the keys left stale by a fill that read before a
              \* write, or by a writer that was cut short
  misfiled    \* history: the category lists left stale by a writer that had
              \* read the row before another writer moved it

vars == <<categories, product, cache, frame, ledger, excused, misfiled>>

NoArg == [category |-> Nil, content |-> Nil, active |-> Nil, delta |-> 0]

Free == [op |-> Nil, pc |-> "free", key |-> Nil, arg |-> NoArg, old |-> Nil,
         val |-> Nil, scan |-> {}, del |-> {}, later |-> {}]

----------------------------------------------------------------------------
(* What MySQL would answer now.                                            *)

Exists(p) == product[p] # Nil

\* WHERE is_active = true [AND category_id = k]
Listed(k) ==
  {p \in Product : /\ Exists(p)
                   /\ product[p].active
                   /\ k = All \/ product[p].category = k}

Page(k) == [p \in Product |-> IF p \in Listed(k) THEN product[p] ELSE Nil]

\* The value a read that falls through to MySQL would put under key k.
View(k) ==
  IF k \in Product THEN product[k]
  ELSE [rows |-> Page(k), total |-> Cardinality(Listed(k))]

Fresh(k) == cache[k] \in {Nil, View(k)}

Stale(keys) == {k \in keys : ~Fresh(k)}

----------------------------------------------------------------------------
(* Frames.                                                                 *)

Arrive(r, op, pc, key, arg, old) ==
  /\ op \in Ops
  /\ frame[r] = Free
  /\ frame' = [frame EXCEPT
       ![r] = [Free EXCEPT !.op = op, !.pc = pc, !.key = key, !.arg = arg,
                           !.old = old]]
  /\ UNCHANGED <<categories, product, cache, ledger, excused, misfiled>>

At(r, op, pc) == frame[r].op = op /\ frame[r].pc = pc

Leave(r) == frame' = [frame EXCEPT ![r] = Free]

\* Slip: the list of all products is not among the lists to drop.
WrittenForgettingAll(f, pc, lists, moved) ==
  [f EXCEPT !.pc = pc, !.scan = lists \ {All}, !.later = moved,
            !.arg = [NoArg EXCEPT !.delta = f.arg.delta],
            !.old = IF f.op = "updateStock" THEN f.old ELSE Nil]

\* After its UPDATE a writer only carries what it still has to invalidate
\* and to log.
Written(f, pc, lists, moved) ==
  [f EXCEPT !.pc = pc, !.scan = lists, !.later = moved,
            !.arg = [NoArg EXCEPT !.delta = f.arg.delta],
            !.old = IF f.op = "updateStock" THEN f.old ELSE Nil]

\* The patterns of one Promise.all are done: go on to the pattern of the new
\* category, to the audit row, or, if one of them failed, to nothing more.
Settled(f) ==
  IF f.scan \cup f.del # {} THEN f
  ELSE IF f.pc = "drain" THEN Free
  ELSE IF f.later # {} THEN [f EXCEPT !.scan = f.later, !.later = {}]
  ELSE [f EXCEPT !.pc = "audit"]

\* The list the row is really in is not the one this writer will drop.
Misfile(f) ==
  misfiled' = misfiled \cup {c \in {product[f.key].category} \ {f.old.category} :
                             cache[c] # Nil}

\* The keys a writer in flight has changed the value of and not yet deleted.
Owed(f) ==
  CASE f.pc = "readBack"  -> {f.key, All, product[f.key].category}
    [] f.pc = "delDetail" -> {f.key} \cup f.scan \cup f.later
    [] f.pc \in {"lists", "drain"} -> f.scan \cup f.del \cup f.later
    [] OTHER -> {}

\* What the audit row this frame still has to write will add to the stock.
Unlogged(f) ==
  IF /\ f.op \in {"createProduct", "updateStock"}
     /\ f.pc \in {"readBack", "delDetail", "lists", "audit"}
  THEN f.arg.delta ELSE 0

LoseAuditRow(f) ==
  ledger' = IF Unlogged(f) = 0 THEN ledger ELSE [ledger EXCEPT ![f.key] = Nil]

----------------------------------------------------------------------------
(* createProduct: findCategoryById, INSERT, the two list patterns, audit.  *)

CreateProduct(r, p, c, x, s) ==
  /\ c \in categories
  /\ ~Exists(p) /\ \A q \in Request : frame[q].key # p
  /\ Arrive(r, "createProduct", "write", p,
            [category |-> c, content |-> x, active |-> Nil, delta |-> s], Nil)

\* Slip: no foreign key, the lookup is relied on.
InsertRowUnchecked(r) ==
  LET f == frame[r] IN
  /\ At(r, "createProduct", "write")
  /\ product' = [product EXCEPT
       ![f.key] = [category |-> f.arg.category, active |-> TRUE,
                   stock |-> f.arg.delta, content |-> f.arg.content]]
  /\ frame' = [frame EXCEPT ![r] = Written(f, "lists", {f.arg.category, All}, {})]
  /\ UNCHANGED <<categories, cache, ledger, excused, misfiled>>

\* The foreign key refuses a category deleted since it was looked up.
InsertRow(r) ==
  LET f == frame[r] IN
  /\ At(r, "createProduct", "write")
  /\ IF f.arg.category \in categories
     THEN /\ product' = [product EXCEPT
               ![f.key] = [category |-> f.arg.category, active |-> TRUE,
                           stock |-> f.arg.delta, content |-> f.arg.content]]
          /\ frame' = [frame EXCEPT
               ![r] = Written(f, "lists", {f.arg.category, All}, {})]
     ELSE Leave(r) /\ UNCHANGED product
  /\ UNCHANGED <<categories, cache, ledger, excused, misfiled>>

----------------------------------------------------------------------------
(* updateProduct: findProductById, findCategoryById if the request carries *)
(* a category, UPDATE of the fields it carries, cacheDel, the lists of the *)
(* category read first and of all products, then the new category's.       *)

UpdateProduct(r, p, c, x, a) ==
  /\ Exists(p)
  /\ Arrive(r, "updateProduct", IF c = Nil THEN "write" ELSE "findCategory", p,
            [category |-> c, content |-> x, active |-> a, delta |-> 0],
            product[p])

FindCategory(r) ==
  /\ At(r, "updateProduct", "findCategory")
  /\ IF frame[r].arg.category \in categories
     THEN frame' = [frame EXCEPT ![r].pc = "write"]
     ELSE Leave(r)
  /\ UNCHANGED <<categories, product, cache, ledger, excused, misfiled>>

\* Slip: an absent is_active is written as its default, true.
PatchedWithDefault(row, arg) ==
  [row EXCEPT !.category = IF arg.category = Nil THEN @ ELSE arg.category,
              !.content  = IF arg.content = Nil THEN @ ELSE arg.content,
              !.active   = arg.active # FALSE]

\* Only the columns in the request are assigned.
Patched(row, arg) ==
  [row EXCEPT !.category = IF arg.category = Nil THEN @ ELSE arg.category,
              !.content  = IF arg.content = Nil THEN @ ELSE arg.content,
              !.active   = IF arg.active = Nil THEN @ ELSE arg.active]

\* Slip: only the list the product leaves is dropped.
MovedForgotten(f) == {}

Moved(f) == {f.arg.category} \ {Nil, f.old.category}

UpdateRow(r) ==
  LET f == frame[r] IN
  /\ At(r, "updateProduct", "write")
  /\ IF f.arg.category \in categories \cup {Nil}
     THEN /\ product' = [product EXCEPT ![f.key] = Patched(@, f.arg)]
          /\ Misfile(f)
          /\ frame' = [frame EXCEPT
               ![r] = Written(f, "delDetail", {f.old.category, All}, Moved(f))]
     ELSE Leave(r) /\ UNCHANGED <<product, misfiled>>
  /\ UNCHANGED <<categories, cache, ledger, excused>>

----------------------------------------------------------------------------
(* deleteProduct, a soft delete, and the products-table part of            *)
(* uploadProductImage, which writes the new URL (the object store is not   *)
(* part of this module).                                                   *)

DeleteProduct(r, p) ==
  /\ Exists(p) /\ product[p].active
  /\ Arrive(r, "deleteProduct", "write", p, NoArg, product[p])

SoftDelete(r) ==
  LET f == frame[r] IN
  /\ At(r, "deleteProduct", "write")
  /\ product' = [product EXCEPT ![f.key].active = FALSE]
  /\ Misfile(f)
  /\ frame' = [frame EXCEPT
       ![r] = Written(f, "delDetail", {f.old.category, All}, {})]
  /\ UNCHANGED <<categories, cache, ledger, excused>>

UploadImage(r, p, x) ==
  /\ Exists(p)
  /\ Arrive(r, "uploadProductImage", "write", p, [NoArg EXCEPT !.content = x],
            product[p])

SetImage(r) ==
  LET f == frame[r] IN
  /\ At(r, "uploadProductImage", "write")
  /\ product' = [product EXCEPT ![f.key].content = f.arg.content]
  /\ Misfile(f)
  /\ frame' = [frame EXCEPT
       ![r] = Written(f, "delDetail", {f.old.category, All}, {})]
  /\ UNCHANGED <<categories, cache, ledger, excused>>

----------------------------------------------------------------------------
(* updateStock: findProductById, a relative UPDATE guarded against going   *)
(* negative, the row read back, whose category names the list to drop.     *)

UpdateStock(r, p, d) ==
  /\ Exists(p)
  /\ Arrive(r, "updateStock", "write", p, [NoArg EXCEPT !.delta = d],
            product[p])

\* Slip: the guard looks at the row read before, not at the row updated.
AddStockCheckedEarly(r) ==
  LET f == frame[r] IN
  /\ At(r, "updateStock", "write")
  /\ IF f.old.stock + f.arg.delta \in 0..MaxStock
     THEN /\ product' = [product EXCEPT ![f.key].stock = @ + f.arg.delta]
          /\ frame' = [frame EXCEPT ![r] = Written(f, "readBack", {}, {})]
     ELSE Leave(r) /\ UNCHANGED product
  /\ UNCHANGED <<categories, cache, ledger, excused, misfiled>>

\* Slip: the sum is computed from the row read before and written as it is.
AddStockAbsolute(r) ==
  LET f == frame[r]
      s == f.old.stock + f.arg.delta
  IN
  /\ At(r, "updateStock", "write")
  /\ IF s \in 0..MaxStock
     THEN /\ product' = [product EXCEPT ![f.key].stock = s]
          /\ frame' = [frame EXCEPT ![r] = Written(f, "readBack", {}, {})]
     ELSE Leave(r) /\ UNCHANGED product
  /\ UNCHANGED <<categories, cache, ledger, excused, misfiled>>

\* Below zero no row matches and the request is refused; above the column's
\* range MySQL's strict mode fails the statement.
AddStock(r) ==
  LET f == frame[r]
      s == product[f.key].stock + f.arg.delta
  IN
  /\ At(r, "updateStock", "write")
  /\ IF s \in 0..MaxStock
     THEN /\ product' = [product EXCEPT ![f.key].stock = s]
          /\ frame' = [frame EXCEPT ![r] = Written(f, "readBack", {}, {})]
     ELSE Leave(r) /\ UNCHANGED product
  /\ UNCHANGED <<categories, cache, ledger, excused, misfiled>>

ReadBack(r) ==
  LET f == frame[r] IN
  /\ At(r, "updateStock", "readBack")
  /\ frame' = [frame EXCEPT
       ![r] = [f EXCEPT !.pc = "delDetail", !.val = product[f.key],
                        !.scan = {product[f.key].category, All}]]
  /\ UNCHANGED <<categories, product, cache, ledger, excused, misfiled>>

----------------------------------------------------------------------------
(* The tail every writer shares: cacheDel of the product, cacheDelPattern  *)
(* of the lists (a SCAN, then a DEL of what the SCAN met; the patterns of  *)
(* one Promise.all run concurrently), then the audit row.                  *)

Drop(k) ==
  /\ cache' = [cache EXCEPT ![k] = Nil]
  /\ excused' = excused \ {k}
  /\ misfiled' = misfiled \ {k}

\* Slip: updateStock deletes stock:{id} only, a key nobody ever sets.
DelDetailOrStock(r) ==
  /\ frame[r].pc = "delDetail"
  /\ IF frame[r].op = "updateStock" THEN UNCHANGED <<cache, excused, misfiled>>
     ELSE Drop(frame[r].key)
  /\ frame' = [frame EXCEPT ![r].pc = "lists"]
  /\ UNCHANGED <<categories, product, ledger>>

DelDetail(r) ==
  /\ frame[r].pc = "delDetail"
  /\ Drop(frame[r].key)
  /\ frame' = [frame EXCEPT ![r].pc = "lists"]
  /\ UNCHANGED <<categories, product, ledger>>

Scan(r, k) ==
  LET f == frame[r] IN
  /\ f.pc \in {"lists", "drain"} /\ k \in f.scan
  /\ frame' = [frame EXCEPT
       ![r] = Settled([f EXCEPT !.scan = @ \ {k},
                                !.del = IF cache[k] = Nil THEN @ ELSE @ \cup {k}])]
  /\ UNCHANGED <<categories, product, cache, ledger, excused, misfiled>>

Del(r, k) ==
  LET f == frame[r] IN
  /\ f.pc \in {"lists", "drain"} /\ k \in f.del
  /\ Drop(k)
  /\ frame' = [frame EXCEPT ![r] = Settled([f EXCEPT !.del = @ \ {k}])]
  /\ UNCHANGED <<categories, product, ledger>>

Audit(r) ==
  LET f == frame[r] IN
  /\ f.pc = "audit"
  /\ Leave(r)
  /\ ledger' = [ledger EXCEPT
       ![f.key] = IF @ = Nil THEN @ ELSE @ + Unlogged(f)]
  /\ UNCHANGED <<categories, product, cache, excused, misfiled>>

----------------------------------------------------------------------------
(* getProduct and listProducts on a cache miss.  A list takes two queries, *)
(* the page and then the count.                                            *)

GetProduct(r, p) ==
  /\ Exists(p) /\ cache[p] = Nil
  /\ Arrive(r, "getProduct", "select", p, NoArg, Nil)

ReadProduct(r) ==
  /\ At(r, "getProduct", "select")
  /\ frame' = [frame EXCEPT ![r].pc = "cacheSet", ![r].val = product[frame[r].key]]
  /\ UNCHANGED <<categories, product, cache, ledger, excused, misfiled>>

ListProducts(r, k) ==
  /\ cache[k] = Nil
  /\ Arrive(r, "listProducts", "select", k, NoArg, Nil)

ReadPage(r) ==
  /\ At(r, "listProducts", "select")
  /\ frame' = [frame EXCEPT
       ![r].pc = "count", ![r].val = [rows |-> Page(frame[r].key), total |-> 0]]
  /\ UNCHANGED <<categories, product, cache, ledger, excused, misfiled>>

CountRows(r) ==
  /\ At(r, "listProducts", "count")
  /\ frame' = [frame EXCEPT
       ![r].pc = "cacheSet",
       ![r].val = [@ EXCEPT !.total = Cardinality(Listed(frame[r].key))]]
  /\ UNCHANGED <<categories, product, cache, ledger, excused, misfiled>>

Fill(r) ==
  LET k == frame[r].key
      v == frame[r].val
  IN
  /\ frame[r].pc = "cacheSet"
  /\ cache' = [cache EXCEPT ![k] = v]
  /\ excused' = IF v = View(k) THEN excused \ {k} ELSE excused \cup {k}
  /\ misfiled' = misfiled \ {k}
  /\ Leave(r)
  /\ UNCHANGED <<categories, product, ledger>>

----------------------------------------------------------------------------
(* The environment: TTLs run out, round trips fail, the process crashes,   *)
(* and deleteCategory removes a category no product refers to.             *)

\* Slip: lists are set without a TTL.
ExpireDetailsOnly(k) ==
  /\ k \in Product /\ cache[k] # Nil
  /\ Drop(k)
  /\ UNCHANGED <<categories, product, frame, ledger>>

Expire(k) ==
  /\ cache[k] # Nil
  /\ Drop(k)
  /\ UNCHANGED <<categories, product, frame, ledger>>

\* An error outside the list invalidation, or a crash: the frame is gone and
\* what it still owed the cache and the audit trail is never done.
Abort(r) ==
  LET f == frame[r] IN
  /\ Failures /\ f # Free
  /\ Leave(r)
  /\ excused' = excused \cup Stale(Owed(f))
  /\ LoseAuditRow(f)
  /\ UNCHANGED <<categories, product, cache, misfiled>>

\* One pattern of a Promise.all rejects: the handler answers at once, the
\* other patterns keep running.
FailPattern(r, k) ==
  LET f == frame[r] IN
  /\ Failures
  /\ f.pc \in {"lists", "drain"} /\ k \in f.scan \cup f.del
  /\ frame' = [frame EXCEPT
       ![r] = Settled([f EXCEPT !.pc = "drain", !.scan = @ \ {k},
                                !.del = @ \ {k}, !.later = {}])]
  /\ excused' = excused \cup Stale({k} \cup f.later)
  /\ LoseAuditRow(f)
  /\ UNCHANGED <<categories, product, cache, misfiled>>

\* writeAuditLog catches the error of its INSERT: the request succeeds.
AuditFails(r) ==
  /\ Failures /\ frame[r].pc = "audit"
  /\ Leave(r)
  /\ LoseAuditRow(frame[r])
  /\ UNCHANGED <<categories, product, cache, excused, misfiled>>

DeleteCategory(c) ==
  /\ "deleteCategory" \in Ops
  /\ c \in categories
  /\ \A p \in Product : Exists(p) => product[p].category # c
  /\ categories' = categories \ {c}
  /\ UNCHANGED <<product, cache, frame, ledger, excused, misfiled>>

----------------------------------------------------------------------------
Init ==
  /\ categories = Category
  /\ product \in [Product -> Row \cup {Nil}]
  /\ cache = [k \in Key |-> Nil]
  /\ frame = [r \in Request |-> Free]
  /\ ledger = [p \in Product |-> IF Exists(p) THEN product[p].stock ELSE 0]
  /\ excused = {}
  /\ misfiled = {}

Arrival(r) ==
  \/ \E p \in Product, c \in Category, x \in Content, s \in 0..MaxStock :
       CreateProduct(r, p, c, x, s)
  \/ \E p \in Product, c \in MoveTo, x \in Content \cup {Nil},
        a \in BOOLEAN \cup {Nil} : UpdateProduct(r, p, c, x, a)
  \/ \E p \in Product : DeleteProduct(r, p)
  \/ \E p \in Product, x \in Content : UploadImage(r, p, x)
  \/ \E p \in Product, d \in Delta : UpdateStock(r, p, d)
  \/ \E p \in Product : GetProduct(r, p)
  \/ \E k \in Category \cup {All} : ListProducts(r, k)

Advance(r) ==
  \/ InsertRow(r)
  \/ FindCategory(r)
  \/ UpdateRow(r)
  \/ SoftDelete(r)
  \/ SetImage(r)
  \/ AddStock(r)
  \/ ReadBack(r)
  \/ DelDetail(r)
  \/ \E k \in Category \cup {All} : Scan(r, k)
  \/ \E k \in Category \cup {All} : Del(r, k)
  \/ Audit(r)
  \/ ReadProduct(r)
  \/ ReadPage(r)
  \/ CountRows(r)
  \/ Fill(r)

Failure(r) ==
  \/ Abort(r)
  \/ \E k \in Category \cup {All} : FailPattern(r, k)
  \/ AuditFails(r)

Next ==
  \/ \E r \in Request : Arrival(r)
  \/ \E r \in Request : Advance(r)
  \/ \E r \in Request : Failure(r)
  \/ \E k \in Key : Expire(k)
  \/ \E c \in Category : DeleteCategory(c)

Spec == Init /\ [][Next]_vars

\* MySQL and Redis answer every round trip, and no key outlives its TTL.
Fairness ==
  /\ \A r \in Request : WF_vars(Advance(r))
  /\ \A k \in Key : WF_vars(Expire(k))

FairSpec == Spec /\ Fairness

----------------------------------------------------------------------------
(* Properties.                                                             *)

Op == {"createProduct", "updateProduct", "deleteProduct", "uploadProductImage",
       "updateStock", "getProduct", "listProducts"}

Pc == {"free", "findCategory", "write", "readBack", "delDetail", "lists",
       "drain", "audit", "select", "count", "cacheSet"}

Arg == [category : Category \cup {Nil}, content : Content \cup {Nil},
        active : BOOLEAN \cup {Nil}, delta : Int]

ListKey == Category \cup {All}

Frame == [op : Op \cup {Nil}, pc : Pc, key : Key \cup {Nil}, arg : Arg,
          old : Row \cup {Nil}, val : Row \cup Listing \cup {Nil},
          scan : SUBSET ListKey, del : SUBSET ListKey, later : SUBSET ListKey]

\* Type correctness.  In particular stock_quantity never leaves the range of
\* its column and never goes negative, whatever adjustments overlap: the guard
\* of updateStockQuantity is evaluated by the UPDATE itself, not on the row the
\* handler read before it (product.queries.ts:177-184).
TypeOK ==
  /\ categories \subseteq Category
  /\ product \in [Product -> Row \cup {Nil}]
  /\ cache \in [Key -> Row \cup Listing \cup {Nil}]
  /\ frame \in [Request -> Frame]
  /\ ledger \in [Product -> Int \cup {Nil}]
  /\ excused \subseteq Key
  /\ misfiled \subseteq Category

\* No products row ever refers to a category that is gone.  The lookup that
\* createProduct and updateProduct make first does not ensure it, the category
\* may be deleted between the lookup and the write.
NoDanglingCategory ==
  \A p \in Product : Exists(p) => product[p].category \in categories

\* A cached value that differs from the table has a reason: a fill that read
\* before a write, a writer that was cut short, or a writer that has its
\* deletion of the key still ahead.
Accounted(k) ==
  \/ Fresh(k)
  \/ k \in excused
  \/ \E r \in Request : k \in Owed(frame[r])

\* No handler that changes a products row forgets product:{id}: in every
\* interleaving, a stale detail has one of the three reasons.
DetailAccounted == \A p \in Product : Accounted(p)

\* No handler that changes a products row forgets the list of all products.
AllListAccounted == Accounted(All)

\* A stale category list has one of the three reasons or was missed by a
\* writer that named the list by the category it read before its write, while
\* another writer moved the row (product.handlers.ts:113, 156, 389).
CategoryListAccounted == \A c \in Category : Accounted(c) \/ c \in misfiled

InFlight(p) ==
  MapThenSumSet(LAMBDA r : IF frame[r].key = p THEN Unlogged(frame[r]) ELSE 0,
                Request)

\* No stock adjustment is lost or applied twice: as long as no audit row of a
\* product was lost, its stock is what its audit rows add up to, plus the
\* adjustments committed but not yet logged.
LedgerBalanced ==
  \A p \in Product : ledger[p] # Nil =>
    (IF Exists(p) THEN product[p].stock ELSE 0) = ledger[p] + InFlight(p)

\* A soft-deleted product comes back only by an update that says is_active:
\* an update of other fields that read the row before the delete does not
\* resurrect it.
DeletedStaysDeleted ==
  [][\A p \in Product :
       Exists(p) /\ ~product[p].active /\ product'[p].active =>
         \E r \in Request : /\ At(r, "updateProduct", "write")
                            /\ frame[r].key = p
                            /\ frame[r].arg.active = TRUE
                            /\ frame'[r] # frame[r]]_vars

\* Whatever the race or failure left behind, the TTLs repair it: if the table
\* is written no more, the cache ends up coherent for good.
EventuallyCoherent ==
  <>[][UNCHANGED product]_vars => <>[](\A k \in Key : Fresh(k))

=============================================================================
