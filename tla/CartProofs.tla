----------------------------- MODULE CartProofs -----------------------------
(***************************************************************************)
(* Proofs about Cart, for every set of products and of requests.           *)
(***************************************************************************)
EXTENDS Cart, TLAPS

\* What a request knows of the row it wrote, until another one writes it.
FrameOK(f) ==
  /\ f.pc \in {"write", "del"} => f.op \in Writers
  /\ f.pc # "free" /\ f.op \in Writers => f.product \in Product
  /\ /\ f.op \in Writers /\ f.pc \in {"del", "read"} /\ ~f.crossed
     => items[f.product] = f.wrote
  /\ /\ f.op \in Writers /\ f.pc = "enrich" /\ ~f.crossed
     => f.cart.rows[f.product] = f.wrote

FramesOK == \A r \in Request : FrameOK(frame[r])

Inv == TypeOK /\ FramesOK /\ CartAccounted

LEMMA FreeFrame ==
  /\ Empty \in Items /\ NoCart \in Carts /\ Free \in Frame
  /\ Free.pc = "free" /\ Free.op = "none"
<1>1. 0 \in 0..MaxQuantity
  BY QuantityAssumption
<1>2. Empty \in Items
  BY <1>1 DEF Empty, Items
<1>3. NoCart \in Carts
  BY <1>2 DEF NoCart, Carts
<1> QED
  BY <1>1, <1>2, <1>3 DEF Free, Frame

LEMMA InitInv == Init => Inv
<1> SUFFICES ASSUME Init PROVE Inv
  OBVIOUS
<1>1. TypeOK
  BY FreeFrame DEF Init, TypeOK
<1>2. FramesOK
  BY FreeFrame DEF Init, FramesOK, FrameOK, Writers
<1> QED
  BY <1>1, <1>2 DEF Init, Inv, CartAccounted

LEMMA ArriveInv ==
  ASSUME Inv, NEW r \in Request, NEW op \in Writers \cup {"getCart"},
         NEW pc \in {"write", "read"}, NEW p \in Product \cup {Nil},
         NEW n \in 0..MaxQuantity, Arrive(r, op, pc, p, n),
         IF op \in Writers THEN pc = "write" /\ p \in Product ELSE pc = "read"
  PROVE  Inv'
<1> PICK g : g = [Free EXCEPT !.op = op, !.pc = pc, !.product = p, !.quantity = n]
  OBVIOUS
<1>1. /\ frame' = [frame EXCEPT ![r] = g] /\ frame[r] = Free
      /\ UNCHANGED <<items, onSale, cache, excused>>
  BY DEF Arrive
<1>2. /\ g \in Frame /\ g.op = op /\ g.pc = pc /\ g.product = p
  BY FreeFrame DEF Free, Frame
<1>3. TypeOK'
  BY <1>1, <1>2 DEF Inv, TypeOK
<1>4. ASSUME NEW q \in Request PROVE FrameOK(frame[q])'
  <2>1. CASE q = r
    <3>1. frame'[q] = g
      BY <1>1, <2>1 DEF Inv, TypeOK
    <3> QED
      BY <1>2, <3>1 DEF FrameOK
  <2>2. CASE q # r
    <3>1. frame'[q] = frame[q] /\ FrameOK(frame[q])
      BY <1>1, <2>2 DEF Inv, TypeOK, FramesOK
    <3> QED
      BY <1>1, <3>1 DEF FrameOK
  <2> QED
    BY <2>1, <2>2
<1>5. CartAccounted'
  <2>1. \A q \in Request : frame[q].pc = "del" => frame'[q] = frame[q]
    BY <1>1, FreeFrame DEF Inv, TypeOK
  <2> QED
    BY <1>1, <2>1 DEF Inv, CartAccounted
<1> QED
  BY <1>3, <1>4, <1>5 DEF Inv, FramesOK

LEMMA ArrivalInv ==
  ASSUME Inv, NEW r \in Request, Arrival(r)
  PROVE  Inv'
<1>1. 0 \in 0..MaxQuantity /\ \A n \in Quantity : n \in 0..MaxQuantity
  BY QuantityAssumption
<1>2. CASE \E p \in Product, n \in Quantity : AddToCart(r, p, n)
  BY <1>1, <1>2, ArriveInv DEF AddToCart, Writers
<1>3. CASE \E p \in Product, n \in Quantity : UpdateCartItem(r, p, n)
  BY <1>1, <1>3, ArriveInv DEF UpdateCartItem, Writers
<1>4. CASE \E p \in Product : RemoveFromCart(r, p)
  BY <1>1, <1>4, ArriveInv DEF RemoveFromCart, Writers
<1>5. CASE GetCart(r)
  BY <1>1, <1>5, ArriveInv DEF GetCart, Writers
<1> QED
  BY <1>2, <1>3, <1>4, <1>5 DEF Arrival

\* What Write makes of the row.
LEMMA WrittenValue ==
  ASSUME Inv, NEW r \in Request, frame[r].pc = "write"
  PROVE  /\ frame[r].op \in Writers /\ frame[r].product \in Product
         /\ Written(frame[r]) \in Nat
         /\ items[frame[r].product] = 0 /\ Written(frame[r]) # 0
            => frame[r].op = "addToCart"
<1> PICK f : f = frame[r]
  OBVIOUS
<1>1. /\ f \in Frame /\ f.op \in Writers /\ f.product \in Product
      /\ f.quantity \in Nat /\ items[f.product] \in Nat
  BY QuantityAssumption DEF Inv, TypeOK, FramesOK, FrameOK, Frame, Items
<1> QED
  BY <1>1 DEF Written, Writers

LEMMA WriteInv ==
  ASSUME Inv, NEW r \in Request, Write(r)
  PROVE  Inv'
<1> PICK f, n : f = frame[r] /\ n = Written(f)
  OBVIOUS
<1>1. /\ f \in Frame /\ f.pc = "write" /\ f.op \in Writers /\ f.product \in Product
      /\ n \in Nat /\ UNCHANGED <<onSale, cache, excused>>
  BY WrittenValue DEF Write, Inv, TypeOK
<1>2. CASE n <= MaxQuantity
  <2> PICK g : g = [f EXCEPT !.pc = "del", !.quantity = 0, !.wrote = n]
    OBVIOUS
  <2>1. /\ items' = [items EXCEPT ![f.product] = n]
        /\ frame' = [Crossed(r, f.product) EXCEPT ![r] = g]
    BY <1>2 DEF Write
  <2>2. n \in 0..MaxQuantity /\ 0 \in 0..MaxQuantity
    BY <1>1, <1>2, QuantityAssumption
  <2>3. /\ g \in Frame /\ g.pc = "del" /\ g.op = f.op /\ g.product = f.product
        /\ g.wrote = n
    BY <1>1, <2>2 DEF Frame
  <2>4. items' \in Items /\ items'[f.product] = n
    BY <1>1, <2>1, <2>2 DEF Inv, TypeOK, Items
  <2>5. frame'[r] = g
    BY <2>1 DEF Crossed
  <2>6. FrameOK(frame[r])'
    BY <1>1, <2>3, <2>4, <2>5 DEF FrameOK
  <2>7. ASSUME NEW q \in Request, q # r
        PROVE  frame'[q] \in Frame /\ FrameOK(frame[q])'
    <3> PICK h : h = frame[q]
      OBVIOUS
    <3>1. h \in Frame /\ FrameOK(h)
      BY DEF Inv, TypeOK, FramesOK
    <3>2. CASE h.pc \in {"del", "read"} /\ h.product = f.product
      <4>1. frame'[q] = [h EXCEPT !.crossed = TRUE]
        BY <2>1, <2>7, <3>2 DEF Crossed
      <4>2. /\ frame'[q] \in Frame /\ frame'[q].crossed /\ frame'[q].pc = h.pc
            /\ frame'[q].op = h.op /\ frame'[q].product = h.product
        BY <3>1, <4>1 DEF Frame
      <4> QED
        BY <3>1, <3>2, <4>2 DEF FrameOK
    <3>3. CASE ~(h.pc \in {"del", "read"} /\ h.product = f.product)
      <4>1. frame'[q] = h
        BY <2>1, <2>7, <3>3 DEF Crossed
      <4>2. h.pc \in {"del", "read"} /\ h.product \in Product
            => items'[h.product] = items[h.product]
        BY <2>1, <3>3 DEF Inv, TypeOK, Items
      <4> QED
        BY <3>1, <4>1, <4>2 DEF FrameOK
    <3> QED
      BY <3>2, <3>3
  <2>8. TypeOK'
    <3>1. frame' \in [Request -> Frame]
      BY <2>1, <2>3, <2>5, <2>7 DEF Crossed
    <3> QED
      BY <1>1, <2>4, <3>1 DEF Inv, TypeOK
  <2>9. CartAccounted'
    BY <2>3, <2>5 DEF CartAccounted
  <2> QED
    BY <2>6, <2>7, <2>8, <2>9 DEF Inv, FramesOK
<1>3. CASE ~(n <= MaxQuantity)
  <2>1. frame' = [frame EXCEPT ![r] = Free] /\ items' = items
    BY <1>3 DEF Write
  <2>2. TypeOK'
    BY <1>1, <2>1, FreeFrame DEF Inv, TypeOK
  <2>3. FramesOK'
    BY <1>1, <2>1, FreeFrame DEF Inv, TypeOK, FramesOK, FrameOK, Writers
  <2>4. CartAccounted'
    <3>1. \A q \in Request : frame[q].pc = "del" => frame'[q] = frame[q]
      BY <1>1, <2>1 DEF Inv, TypeOK
    <3> QED
      BY <1>1, <2>1, <3>1 DEF Inv, CartAccounted
  <2> QED
    BY <2>2, <2>3, <2>4 DEF Inv
<1> QED
  BY <1>2, <1>3

\* The steps that only move one frame on, or end it.
LEMMA MoveInv ==
  ASSUME Inv, NEW r \in Request, NEW g \in Frame,
         frame' = [frame EXCEPT ![r] = g], UNCHANGED items,
         TypeOK', CartAccounted', FrameOK(g)
  PROVE  Inv'
<1>1. ASSUME NEW q \in Request PROVE FrameOK(frame[q])'
  <2>1. FrameOK(frame'[q])
    BY DEF Inv, TypeOK, FramesOK
  <2> QED
    BY <2>1 DEF FrameOK
<1> QED
  BY <1>1 DEF Inv, FramesOK

LEMMA DelCacheInv ==
  ASSUME Inv, NEW r \in Request, DelCache(r)
  PROVE  Inv'
<1> PICK f, g : f = frame[r] /\ g = [f EXCEPT !.pc = "read"]
  OBVIOUS
<1>1. /\ f \in Frame /\ FrameOK(f) /\ f.pc = "del"
      /\ frame' = [frame EXCEPT ![r] = g] /\ cache' = Nil /\ excused' = FALSE
      /\ UNCHANGED <<items, onSale>>
  BY DEF DelCache, Inv, TypeOK, FramesOK
<1>2. /\ g \in Frame /\ g.pc = "read" /\ g.op = f.op /\ g.product = f.product
      /\ g.crossed = f.crossed /\ g.wrote = f.wrote
  BY <1>1 DEF Frame
<1>3. FrameOK(g)
  BY <1>1, <1>2 DEF FrameOK
<1>4. TypeOK'
  BY <1>1, <1>2 DEF Inv, TypeOK
<1>5. CartAccounted'
  BY <1>1 DEF CartAccounted
<1> QED
  BY <1>1, <1>2, <1>3, <1>4, <1>5, MoveInv

\* What a request has read when it goes on to enrich it.
LEMMA ReadFrame ==
  ASSUME Inv, NEW r \in Request, ReadItems(r)
  PROVE  \E g \in Frame :
           /\ frame' = [frame EXCEPT ![r] = g]
           /\ g.pc = (IF items = Empty THEN "set" ELSE "enrich")
           /\ g.cart = [rows |-> items, lines |-> Empty]
           /\ g.op = frame[r].op /\ g.product = frame[r].product
           /\ g.crossed = frame[r].crossed /\ g.wrote = frame[r].wrote
<1> PICK f, c : f = frame[r] /\ c = [NoCart EXCEPT !.rows = items]
  OBVIOUS
<1>1. f \in Frame
  BY DEF Inv, TypeOK
<1>2. c \in Carts /\ c = [rows |-> items, lines |-> Empty]
  BY FreeFrame DEF NoCart, Carts, Inv, TypeOK
<1> PICK g : g = [f EXCEPT !.pc = IF items = Empty THEN "set" ELSE "enrich",
                           !.cart = c]
  OBVIOUS
<1>3. frame' = [frame EXCEPT ![r] = g]
  BY DEF ReadItems
<1>4. g \in Frame /\ g.pc = (IF items = Empty THEN "set" ELSE "enrich")
      /\ g.cart = c /\ g.op = f.op /\ g.product = f.product
      /\ g.crossed = f.crossed /\ g.wrote = f.wrote
  BY <1>1, <1>2 DEF Frame
<1> QED
  BY <1>2, <1>3, <1>4

LEMMA ReadItemsInv ==
  ASSUME Inv, NEW r \in Request, ReadItems(r)
  PROVE  Inv'
<1> PICK g \in Frame :
           /\ frame' = [frame EXCEPT ![r] = g]
           /\ g.pc = (IF items = Empty THEN "set" ELSE "enrich")
           /\ g.cart = [rows |-> items, lines |-> Empty]
           /\ g.op = frame[r].op /\ g.product = frame[r].product
           /\ g.crossed = frame[r].crossed /\ g.wrote = frame[r].wrote
  BY ReadFrame
<1>1. /\ frame[r].pc = "read" /\ FrameOK(frame[r])
      /\ UNCHANGED <<items, onSale, cache, excused>>
  BY DEF ReadItems, Inv, FramesOK
<1>2. FrameOK(g)
  BY <1>1 DEF FrameOK
<1>3. TypeOK'
  BY <1>1 DEF Inv, TypeOK
<1>4. CartAccounted'
  <2>1. \A q \in Request : frame[q].pc = "del" => frame'[q] = frame[q]
    BY <1>1 DEF Inv, TypeOK
  <2> QED
    BY <1>1, <2>1 DEF Inv, CartAccounted
<1> QED
  BY <1>1, <1>2, <1>3, <1>4, MoveInv

LEMMA EnrichFrame ==
  ASSUME Inv, NEW r \in Request, Enrich(r)
  PROVE  \E g \in Frame :
           /\ frame' = [frame EXCEPT ![r] = g] /\ g.pc = "set"
           /\ g.cart.lines = Enriched(frame[r].cart.rows)
           /\ g.op = frame[r].op /\ g.product = frame[r].product
<1> PICK f : f = frame[r]
  OBVIOUS
<1> PICK g : g = [f EXCEPT !.pc = "set", !.cart.lines = Enriched(f.cart.rows)]
  OBVIOUS
<1>1. f \in Frame /\ f.cart \in Carts /\ f.cart.rows \in Items
  BY DEF Inv, TypeOK, Frame, Carts
<1>2. Enriched(f.cart.rows) \in Items
  BY <1>1, QuantityAssumption DEF Enriched, Items
<1>3. /\ g \in Frame /\ g.pc = "set" /\ g.cart.lines = Enriched(f.cart.rows)
      /\ g.op = f.op /\ g.product = f.product
  BY <1>1, <1>2 DEF Frame, Carts
<1>4. frame' = [frame EXCEPT ![r] = g]
  BY DEF Enrich
<1> QED
  BY <1>3, <1>4

LEMMA EnrichInv ==
  ASSUME Inv, NEW r \in Request, Enrich(r)
  PROVE  Inv'
<1> PICK g \in Frame :
           /\ frame' = [frame EXCEPT ![r] = g] /\ g.pc = "set"
           /\ g.op = frame[r].op /\ g.product = frame[r].product
  BY EnrichFrame
<1>1. /\ frame[r].pc = "enrich" /\ FrameOK(frame[r])
      /\ UNCHANGED <<items, onSale, cache, excused>>
  BY DEF Enrich, Inv, FramesOK
<1>2. FrameOK(g)
  BY <1>1 DEF FrameOK
<1>3. TypeOK'
  BY <1>1 DEF Inv, TypeOK
<1>4. CartAccounted'
  <2>1. \A q \in Request : frame[q].pc = "del" => frame'[q] = frame[q]
    BY <1>1 DEF Inv, TypeOK
  <2> QED
    BY <1>1, <2>1 DEF Inv, CartAccounted
<1> QED
  BY <1>1, <1>2, <1>3, <1>4, MoveInv

LEMMA FreeOK == FrameOK(Free)
BY FreeFrame DEF FrameOK, Writers

LEMMA SetCacheInv ==
  ASSUME Inv, NEW r \in Request, SetCache(r)
  PROVE  Inv'
<1>1. /\ frame[r].cart \in Carts /\ cache' = frame[r].cart
      /\ excused' = (cache'.rows # items)
      /\ frame' = [frame EXCEPT ![r] = Free] /\ UNCHANGED <<items, onSale>>
  BY DEF SetCache, Inv, TypeOK, Frame
<1>2. TypeOK'
  BY <1>1, FreeFrame DEF Inv, TypeOK
<1>3. CartAccounted'
  BY <1>1 DEF CartAccounted
<1> QED
  BY <1>1, <1>2, <1>3, FreeOK, FreeFrame, MoveInv

LEMMA AbortInv ==
  ASSUME Inv, NEW r \in Request, Abort(r)
  PROVE  Inv'
<1>1. /\ excused' = (excused \/ frame[r].pc = "del")
      /\ frame' = [frame EXCEPT ![r] = Free] /\ UNCHANGED <<items, onSale, cache>>
  BY DEF Abort
<1>2. TypeOK'
  BY <1>1, FreeFrame DEF Inv, TypeOK
<1>3. CartAccounted'
  <2>1. \A q \in Request : q # r => frame'[q] = frame[q]
    BY <1>1 DEF Inv, TypeOK
  <2> QED
    BY <1>1, <2>1 DEF Inv, CartAccounted
<1> QED
  BY <1>1, <1>2, <1>3, FreeOK, FreeFrame, MoveInv

\* The steps of no request.
LEMMA EnvironmentInv ==
  ASSUME Inv, Expire \/ \E p \in Product : ToggleProduct(p)
  PROVE  Inv'
<1>1. /\ UNCHANGED <<items, frame>>
      /\ onSale' \subseteq Product
      /\ \/ cache' = Nil /\ excused' = FALSE
         \/ UNCHANGED <<cache, excused>>
  BY DEF Expire, ToggleProduct, Inv, TypeOK
<1>2. TypeOK' /\ FramesOK'
  BY <1>1 DEF Inv, TypeOK, FramesOK, FrameOK
<1>3. CartAccounted'
  BY <1>1 DEF Inv, CartAccounted
<1> QED
  BY <1>2, <1>3 DEF Inv

LEMMA NextInv == Inv /\ [Next]_vars => Inv'
<1> SUFFICES ASSUME Inv, [Next]_vars PROVE Inv'
  OBVIOUS
<1>1. ASSUME NEW r \in Request, Advance(r) PROVE Inv'
  BY <1>1, WriteInv, DelCacheInv, ReadItemsInv, EnrichInv, SetCacheInv DEF Advance
<1>2. CASE UNCHANGED vars
  BY <1>2 DEF vars, Inv, TypeOK, FramesOK, FrameOK, CartAccounted
<1> QED
  BY <1>1, <1>2, ArrivalInv, AbortInv, EnvironmentInv DEF Next

LEMMA Invariance == Spec => []Inv
BY InitInv, NextInv, PTL DEF Spec

\* Type correctness (Cart!TypeOK).
THEOREM TypeCorrect == Spec => []TypeOK
<1>1. Inv => TypeOK
  BY DEF Inv
<1> QED
  BY <1>1, Invariance, PTL

\* A stale cached cart always has one of the three reasons (Cart!CartAccounted).
THEOREM CacheAccounted == Spec => []CartAccounted
<1>1. Inv => CartAccounted
  BY DEF Inv
<1> QED
  BY <1>1, Invariance, PTL

\* A writer's answer shows its own write (Cart!AnswerShowsWrite).
THEOREM WriteShown == Spec => AnswerShowsWrite
<1> DEFINE Shows(r) ==
       /\ frame[r].op \in Writers /\ ~frame[r].crossed
       /\ frame[r].pc \in {"read", "enrich"} /\ frame'[r].pc = "set"
       => frame'[r].cart.lines[frame[r].product] =
            IF frame[r].product \in onSale THEN frame[r].wrote ELSE 0
<1>1. ASSUME Inv, [Next]_vars, NEW q \in Request, frame[q].pc \in {"read", "enrich"},
             frame'[q].pc = "set"
      PROVE  ReadItems(q) \/ Enrich(q)
  <2>1. ASSUME NEW r \in Request, r # q, Arrival(r) \/ Advance(r) \/ Abort(r)
        PROVE  frame'[q].pc = frame[q].pc
    <3>1. frame'[q] = frame[q] \/ frame'[q] = [frame[q] EXCEPT !.crossed = TRUE]
      <4>1. CASE Write(r)
        BY <1>1, <2>1, <4>1 DEF Write, Crossed, Inv, TypeOK
      <4>2. CASE Arrival(r)
        BY <1>1, <2>1, <4>2 DEF Arrival, AddToCart, UpdateCartItem, RemoveFromCart,
                                GetCart, Arrive, Inv, TypeOK
      <4>3. CASE DelCache(r) \/ ReadItems(r) \/ Enrich(r) \/ SetCache(r) \/ Abort(r)
        BY <1>1, <2>1, <4>3 DEF DelCache, ReadItems, Enrich, SetCache, Abort, Inv,
                                TypeOK
      <4> QED
        BY <2>1, <4>1, <4>2, <4>3 DEF Advance
    <3>2. frame[q] \in Frame
      BY <1>1 DEF Inv, TypeOK
    <3> QED
      BY <3>1, <3>2 DEF Frame
  <2>2. ASSUME Arrival(q) PROVE frame[q] = Free
    BY <2>2 DEF Arrival, AddToCart, UpdateCartItem, RemoveFromCart, GetCart, Arrive
  <2>3. ASSUME Abort(q) \/ SetCache(q) PROVE frame'[q] = Free
    BY <1>1, <2>3 DEF Abort, SetCache, Inv, TypeOK
  <2>4. ~Write(q) /\ ~DelCache(q)
    BY <1>1 DEF Write, DelCache
  <2>5. ~(Expire \/ \E p \in Product : ToggleProduct(p)) /\ ~UNCHANGED vars
    BY <1>1 DEF Expire, ToggleProduct, vars
  <2> QED
    BY <1>1, <2>1, <2>2, <2>3, <2>4, <2>5, FreeFrame DEF Next, Advance
<1>2. ASSUME Inv, NEW q \in Request, ReadItems(q) PROVE Shows(q)
  <2>1. PICK g \in Frame :
           /\ frame' = [frame EXCEPT ![q] = g]
           /\ g.pc = (IF items = Empty THEN "set" ELSE "enrich")
           /\ g.cart = [rows |-> items, lines |-> Empty]
    BY <1>2, ReadFrame
  <2>2. frame'[q] = g /\ FrameOK(frame[q]) /\ frame[q].pc = "read"
    BY <1>2, <2>1 DEF Inv, TypeOK, FramesOK, ReadItems
  <2> SUFFICES ASSUME frame[q].op \in Writers, ~frame[q].crossed, g.pc = "set"
               PROVE  g.cart.lines[frame[q].product] =
                        IF frame[q].product \in onSale THEN frame[q].wrote ELSE 0
    BY <2>2
  <2>3. items = Empty /\ frame[q].product \in Product
        /\ items[frame[q].product] = frame[q].wrote
    BY <2>1, <2>2 DEF FrameOK
  <2> QED
    BY <2>1, <2>3 DEF Empty
<1>3. ASSUME Inv, NEW q \in Request, Enrich(q) PROVE Shows(q)
  <2>1. PICK g \in Frame :
           /\ frame' = [frame EXCEPT ![q] = g]
           /\ g.cart.lines = Enriched(frame[q].cart.rows)
    BY <1>3, EnrichFrame
  <2>2. frame'[q] = g /\ FrameOK(frame[q]) /\ frame[q].pc = "enrich"
    BY <1>3, <2>1 DEF Inv, TypeOK, FramesOK, Enrich
  <2> QED
    BY <2>1, <2>2 DEF FrameOK, Enriched
<1>4. Inv /\ [Next]_vars => \A r \in Request : Shows(r)
  BY <1>1, <1>2, <1>3
<1> QED
  BY <1>4, Invariance, PTL DEF Spec, AnswerShowsWrite

\* Only an addToCart brings a removed item back (Cart!RemovedStaysRemoved).
THEOREM RemovedStays == Spec => RemovedStaysRemoved
<1> DEFINE Added(p) == items[p] = 0 /\ items'[p] # 0 =>
             \E r \in Request : /\ frame[r].op = "addToCart"
                                /\ frame[r].pc = "write" /\ frame'[r].pc = "del"
                                /\ frame[r].product = p
<1>1. ASSUME Inv, NEW r \in Request, NEW p \in Product, Write(r),
             items[p] = 0, items'[p] # 0
      PROVE  Added(p)
  <2>1. /\ frame[r].pc = "write" /\ frame[r].product = p
        /\ items'[p] = Written(frame[r]) /\ frame'[r].pc = "del"
    <3> PICK f, n : f = frame[r] /\ n = Written(f)
      OBVIOUS
    <3>1. /\ f.pc = "write" /\ f.product \in Product /\ f \in Frame
          /\ items \in Items
      BY <1>1, WrittenValue DEF Write, Inv, TypeOK
    <3>2. /\ items' = [items EXCEPT ![f.product] = n]
          /\ frame' = [Crossed(r, f.product) EXCEPT
                         ![r] = [f EXCEPT !.pc = "del", !.quantity = 0, !.wrote = n]]
      BY <1>1 DEF Write
    <3>3. f.product = p /\ items'[p] = n
      BY <1>1, <3>1, <3>2 DEF Items
    <3>4. frame'[r] = [f EXCEPT !.pc = "del", !.quantity = 0, !.wrote = n]
      BY <3>2 DEF Crossed
    <3>5. frame'[r].pc = "del"
      BY <3>1, <3>4 DEF Frame
    <3> QED
      BY <3>1, <3>3, <3>5
  <2> QED
    BY <1>1, <2>1, WrittenValue
<1>2. Inv /\ [Next]_vars => \A p \in Product : Added(p)
  <2> SUFFICES ASSUME Inv, [Next]_vars, NEW p \in Product, items' # items,
                      items[p] = 0, items'[p] # 0
               PROVE  Added(p)
    OBVIOUS
  <2>1. \E r \in Request : Write(r)
    BY DEF Next, Arrival, AddToCart, UpdateCartItem, RemoveFromCart, GetCart, Arrive,
           Advance, DelCache, ReadItems, Enrich, SetCache, Abort, Expire,
           ToggleProduct, vars
  <2> QED
    BY <1>1, <2>1
<1> QED
  BY <1>2, Invariance, PTL DEF Spec, RemovedStaysRemoved

=============================================================================
