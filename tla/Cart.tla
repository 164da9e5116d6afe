-------------------------------- MODULE Cart --------------------------------
(***************************************************************************)
(* The cart of one customer: its cart_items rows in MySQL, the enriched    *)
(* cart cached in Redis under cart:{customerId}, and the handlers of       *)
(* customer-service that change and show it.  As in Catalog every await is *)
(* a round trip between which other requests of the same customer run (two *)
(* tabs, two devices), and a request answered without changing anything is *)
(* no step.  Unlike the handlers of inventory-service a writer does not    *)
(* only delete the key, it rebuilds the cart and caches it.                *)
(***************************************************************************)
EXTENDS Integers

CONSTANTS
  Product,      \* ids of rows of the products table
  Request,      \* the slots for requests in flight
  Quantity,     \* the quantities requests carry
  MaxQuantity,  \* the largest value of the INT column quantity
  Failures,     \* whether a round trip may fail or the process may crash
  Nil

ASSUME QuantityAssumption ==
  MaxQuantity \in Nat /\ Quantity \subseteq 1..MaxQuantity

ASSUME FailuresAssumption == Failures \in BOOLEAN

Items == [Product -> 0..MaxQuantity]

\* An enriched cart: lines is what it shows, a quantity for each product (name,
\* price and stock come with the product, the order by added_at is left out);
\* rows is history, the cart_items rows it was built from.
Carts == [rows : Items, lines : Items]

ASSUME NilAssumption == Nil \notin Product \cup Carts

VARIABLES
  items,   \* the customer's cart_items rows: the quantity, 0 for no row
  onSale,  \* the active products
  cache,   \* Redis: the cart under the customer's key, or Nil
  frame,   \* the request each slot is serving
  excused  \* history: the cached cart was built before a write and cached
           \* after it, or left by a writer that was cut short

vars == <<items, onSale, cache, frame, excused>>

Empty == [p \in Product |-> 0]

NoCart == [rows |-> Empty, lines |-> Empty]

\* wrote and crossed are history: the quantity the request's own write left,
\* and whether another request has written that row since.
Free == [op |-> "none", pc |-> "free", product |-> Nil, quantity |-> 0,
         cart |-> NoCart, wrote |-> 0, crossed |-> FALSE]

\* Products inventory-service does not answer for are filtered out.
Enriched(rows) == [p \in Product |-> IF p \in onSale THEN rows[p] ELSE 0]

----------------------------------------------------------------------------
(* Arrivals, each with the read its handler makes first.                   *)

Arrive(r, op, pc, p, n) ==
  /\ frame[r] = Free
  /\ frame' = [frame EXCEPT ![r] = [Free EXCEPT !.op = op, !.pc = pc,
                                                !.product = p, !.quantity = n]]
  /\ UNCHANGED <<items, onSale, cache, excused>>

\* Customers are never deleted, findCustomerById finds the row.
AddToCart(r, p, n) == Arrive(r, "addToCart", "write", p, n)

UpdateCartItem(r, p, n) ==
  items[p] # 0 /\ Arrive(r, "updateCartItem", "write", p, n)

RemoveFromCart(r, p) ==
  items[p] # 0 /\ Arrive(r, "removeFromCart", "write", p, 0)

GetCart(r) == cache = Nil /\ Arrive(r, "getCart", "read", Nil, 0)

----------------------------------------------------------------------------
(* The round trips that follow.                                            *)

\* Slip: the UPDATE is an upsert.
WrittenByUpsert(f) ==
  CASE f.op = "addToCart" -> items[f.product] + f.quantity
    [] f.op \in {"updateCartItem", "removeFromCart"} -> f.quantity

\* INSERT ... ON DUPLICATE KEY UPDATE adds to the row, the UPDATE matches no
\* row once the row is gone.
Written(f) ==
  CASE f.op = "addToCart" -> items[f.product] + f.quantity
    [] f.op = "updateCartItem" -> IF items[f.product] = 0 THEN 0 ELSE f.quantity
    [] f.op = "removeFromCart" -> 0

\* The other requests whose own write of p is no longer the last one.
Crossed(r, p) ==
  [q \in Request |->
     IF q # r /\ frame[q].pc \in {"del", "read"} /\ frame[q].product = p
     THEN [frame[q] EXCEPT !.crossed = TRUE] ELSE frame[q]]

\* A sum out of the column's range fails the statement.
Write(r) ==
  LET f == frame[r]
      n == Written(f)
  IN
  /\ f.pc = "write"
  /\ IF n <= MaxQuantity
     THEN /\ items' = [items EXCEPT ![f.product] = n]
          /\ frame' = [Crossed(r, f.product) EXCEPT
                         ![r] = [f EXCEPT !.pc = "del", !.quantity = 0, !.wrote = n]]
     ELSE frame' = [frame EXCEPT ![r] = Free] /\ UNCHANGED items
  /\ UNCHANGED <<onSale, cache, excused>>

\* Slip: only the writers that change a quantity delete the key.
DelCacheUnlessRemoved(r) ==
  /\ frame[r].pc = "del"
  /\ frame' = [frame EXCEPT ![r].pc = "read"]
  /\ IF frame[r].op = "removeFromCart" THEN UNCHANGED <<cache, excused>>
     ELSE cache' = Nil /\ excused' = FALSE
  /\ UNCHANGED <<items, onSale>>

DelCache(r) ==
  /\ frame[r].pc = "del"
  /\ frame' = [frame EXCEPT ![r].pc = "read"]
  /\ cache' = Nil
  /\ excused' = FALSE
  /\ UNCHANGED <<items, onSale>>

\* Slip: the cart is rebuilt through getCart, which prefers the cache.
ReadItemsOrCache(r) ==
  LET f == frame[r] IN
  /\ f.pc = "read"
  /\ frame' = [frame EXCEPT
       ![r] = IF cache # Nil THEN [f EXCEPT !.pc = "set", !.cart = cache]
              ELSE [f EXCEPT !.pc = IF items = Empty THEN "set" ELSE "enrich",
                             !.cart = [NoCart EXCEPT !.rows = items]]]
  /\ UNCHANGED <<items, onSale, cache, excused>>

\* An empty cart needs no call to inventory-service.
ReadItems(r) ==
  /\ frame[r].pc = "read"
  /\ frame' = [frame EXCEPT
       ![r].pc = IF items = Empty THEN "set" ELSE "enrich",
       ![r].cart = [NoCart EXCEPT !.rows = items]]
  /\ UNCHANGED <<items, onSale, cache, excused>>

\* GetProductsByIds.
Enrich(r) ==
  /\ frame[r].pc = "enrich"
  /\ frame' = [frame EXCEPT
       ![r].pc = "set", ![r].cart.lines = Enriched(frame[r].cart.rows)]
  /\ UNCHANGED <<items, onSale, cache, excused>>

\* cacheSet, then the answer.
SetCache(r) ==
  /\ frame[r].pc = "set"
  /\ cache' = frame[r].cart
  /\ excused' = (frame[r].cart.rows # items)
  /\ frame' = [frame EXCEPT ![r] = Free]
  /\ UNCHANGED <<items, onSale>>

----------------------------------------------------------------------------
(* The environment.                                                        *)

\* A round trip, or the call to inventory-service, fails, or the process
\* crashes.
Abort(r) ==
  /\ Failures /\ frame[r] # Free
  /\ frame' = [frame EXCEPT ![r] = Free]
  /\ excused' = (excused \/ frame[r].pc = "del")
  /\ UNCHANGED <<items, onSale, cache>>

Expire ==
  /\ cache # Nil
  /\ cache' = Nil
  /\ excused' = FALSE
  /\ UNCHANGED <<items, onSale, frame>>

\* An admin deletes or restores a product.  Nothing in inventory-service knows
\* of carts.
ToggleProduct(p) ==
  /\ onSale' = IF p \in onSale THEN onSale \ {p} ELSE onSale \cup {p}
  /\ UNCHANGED <<items, cache, frame, excused>>

Init ==
  /\ items \in Items
  /\ onSale \in SUBSET Product
  /\ cache = Nil
  /\ frame = [r \in Request |-> Free]
  /\ excused = FALSE

Arrival(r) ==
  \/ \E p \in Product, n \in Quantity : AddToCart(r, p, n)
  \/ \E p \in Product, n \in Quantity : UpdateCartItem(r, p, n)
  \/ \E p \in Product : RemoveFromCart(r, p)
  \/ GetCart(r)

Advance(r) ==
  \/ Write(r)
  \/ DelCache(r)
  \/ ReadItems(r)
  \/ Enrich(r)
  \/ SetCache(r)

Next ==
  \/ \E r \in Request : Arrival(r)
  \/ \E r \in Request : Advance(r)
  \/ \E r \in Request : Abort(r)
  \/ Expire
  \/ \E p \in Product : ToggleProduct(p)

Spec == Init /\ [][Next]_vars

----------------------------------------------------------------------------
Writers == {"addToCart", "updateCartItem", "removeFromCart"}

Frame == [op : Writers \cup {"none", "getCart"},
          pc : {"free", "write", "del", "read", "enrich", "set"},
          product : Product \cup {Nil}, quantity : 0..MaxQuantity,
          cart : Carts, wrote : 0..MaxQuantity, crossed : BOOLEAN]

\* Type correctness.  A quantity stays in the range of its column.
TypeOK ==
  /\ items \in Items
  /\ onSale \subseteq Product
  /\ cache \in Carts \cup {Nil}
  /\ frame \in [Request -> Frame]
  /\ excused \in BOOLEAN

\* A cached cart that was not built from the rows as they are has a reason: a
\* request that built it before a write and cached it after, a writer cut
\* short, or a writer that has its cacheDel still ahead
\* (cart.handlers.ts:71, 90, 109).
CartAccounted ==
  \/ cache = Nil
  \/ cache.rows = items
  \/ excused
  \/ \E r \in Request : frame[r].pc = "del"

\* The cart a writer answers with shows its own write, unless another request
\* has written that row between its write and its read; a product that was not
\* for sale when the cart was enriched is left out.
AnswerShowsWrite ==
  [][\A r \in Request :
       /\ frame[r].op \in Writers /\ ~frame[r].crossed
       /\ frame[r].pc \in {"read", "enrich"} /\ frame'[r].pc = "set"
       => frame'[r].cart.lines[frame[r].product] =
            IF frame[r].product \in onSale THEN frame[r].wrote ELSE 0]_vars

\* A removed item comes back only by an addToCart: an updateCartItem that saw
\* the item before it was removed does not bring it back.
RemovedStaysRemoved ==
  [][\A p \in Product : items[p] = 0 /\ items'[p] # 0 =>
       \E r \in Request : /\ frame[r].op = "addToCart"
                          /\ frame[r].pc = "write" /\ frame'[r].pc = "del"
                          /\ frame[r].product = p]_vars

=============================================================================
