--------------------------- MODULE CatalogProofs ---------------------------
(***************************************************************************)
(* Proofs about Catalog, for every set of products, categories and         *)
(* requests and every range of stock.                                      *)
(***************************************************************************)
EXTENDS Catalog, FiniteSetTheorems, WellFoundedInduction, TLAPS

Present == {p \in Product : Exists(p)}

Patcher == {"updateProduct", "deleteProduct", "uploadProductImage"}

\* What a frame carries at each point of its handler, P being the ids that
\* have a row.
FrameOK(f, P) ==
  /\ f.pc = "free" => f = Free
  /\ f.pc = "findCategory" =>
       /\ f.op = "updateProduct" /\ f.arg.category \in Category
       /\ f.key \in P /\ f.old \in Row
  /\ f.pc = "write" =>
       /\ f.op \in Patcher \cup {"createProduct", "updateStock"}
       /\ f.key \in Product
       /\ f.op = "createProduct" =>
            /\ f.arg.category \in Category /\ f.arg.content \in Content
            /\ f.arg.delta \in 0..MaxStock
       /\ f.op # "createProduct" => f.key \in P /\ f.old \in Row
       /\ f.op = "uploadProductImage" => f.arg.content \in Content
  /\ f.pc = "readBack" => f.op = "updateStock" /\ f.key \in P
  /\ f.pc \in {"delDetail", "lists", "drain", "audit"} => f.key \in P
  /\ f.pc = "drain" => f.later = {}
  /\ f.pc = "select" =>
       \/ f.op = "getProduct" /\ f.key \in P
       \/ f.op = "listProducts" /\ f.key \in ListKey
  /\ f.pc = "count" =>
       f.op = "listProducts" /\ f.key \in ListKey /\ f.val \in Listing
  /\ f.pc = "cacheSet" =>
       \/ f.key \in P /\ f.val \in Row
       \/ f.key \in ListKey /\ f.val \in Listing

\* The id of a product being created is nobody else's, and not in the table.
Reserved ==
  \A r \in Request : At(r, "createProduct", "write") =>
    /\ frame[r].key \notin Present
    /\ \A q \in Request \ {r} : frame[q].key # frame[r].key

\* Only existing products have a cached detail.
CachedExist == \A p \in Product : cache[p] # Nil => p \in Present

Inv ==
  /\ TypeOK
  /\ \A r \in Request : FrameOK(frame[r], Present)
  /\ Reserved
  /\ CachedExist

----------------------------------------------------------------------------
(* Values.                                                                 *)

LEMMA NilDistinct ==
  /\ Nil \notin Product /\ Nil \notin Category /\ Nil # All
  /\ Nil \notin Row /\ Nil \notin Listing
  /\ Nil \notin Content /\ Nil \notin BOOLEAN
BY NilAssumption DEF Key

LEMMA FreeFrame == Free \in Frame
BY DEF Free, NoArg, Frame, Arg, Pc, Op

\* A list read is a page of rows and a natural number of them.
LEMMA ListingType ==
  ASSUME TypeOK, NEW k
  PROVE  /\ Page(k) \in [Product -> Row \cup {Nil}]
         /\ Cardinality(Listed(k)) \in Nat
<1>1. Page(k) \in [Product -> Row \cup {Nil}]
  BY DEF TypeOK, Page, Listed, Exists
<1>2. IsFiniteSet(Listed(k))
  BY KeysAssumption, FS_Subset DEF Listed
<1> QED
  BY <1>1, <1>2, FS_CardinalityType

\* Settling a writer's tail keeps it a frame of the same key, or frees it.
LEMMA SettledFrame ==
  ASSUME NEW f \in Frame, NEW P,
         f.pc \in {"lists", "drain"}, f.key \in P, f.pc = "drain" => f.later = {}
  PROVE  /\ Settled(f) \in Frame
         /\ FrameOK(Settled(f), P)
         /\ \/ Settled(f) = Free
            \/ /\ Settled(f).key = f.key
               /\ Settled(f).pc \in {"lists", "drain", "audit"}
<1>1. CASE f.scan \cup f.del # {}
  BY <1>1 DEF Settled, FrameOK
<1>2. CASE f.scan \cup f.del = {} /\ f.pc = "drain"
  BY <1>2, FreeFrame DEF Settled, FrameOK, Free
<1>3. CASE f.scan \cup f.del = {} /\ f.pc = "lists" /\ f.later # {}
  BY <1>3 DEF Settled, FrameOK, Frame
<1>4. CASE f.scan \cup f.del = {} /\ f.pc = "lists" /\ f.later = {}
  BY <1>4 DEF Settled, FrameOK, Frame, Pc
<1> QED
  BY <1>1, <1>2, <1>3, <1>4

----------------------------------------------------------------------------
(* Steps.                                                                  *)

FramesOK ==
  /\ frame \in [Request -> Frame]
  /\ \A r \in Request : FrameOK(frame[r], Present)
  /\ Reserved

\* The ids with a row only grow.
LEMMA FrameMonotone ==
  ASSUME NEW f, NEW P, NEW Q, FrameOK(f, P), P \subseteq Q
  PROVE  FrameOK(f, Q)
BY DEF FrameOK

\* One frame changes, and with it at most the id it had reserved.
LEMMA FrameStep ==
  ASSUME FramesOK, NEW r \in Request, NEW g \in Frame,
         frame' = [frame EXCEPT ![r] = g],
         FrameOK(g, Present'), Present \subseteq Present',
         \A q \in Request \ {r} : At(q, "createProduct", "write") =>
            frame[q].key \notin Present' /\ frame[q].key # g.key,
         g.op = "createProduct" /\ g.pc = "write" =>
            /\ g.key \notin Present'
            /\ \A q \in Request \ {r} : frame[q].key # g.key
  PROVE  FramesOK'
<1>1. frame' \in [Request -> Frame]
  BY DEF FramesOK
<1>2. \A q \in Request : FrameOK(frame'[q], Present')
  BY FrameMonotone DEF FramesOK
<1>3. Reserved'
  BY DEF FramesOK, Reserved, At
<1> QED
  BY <1>1, <1>2, <1>3 DEF FramesOK

\* A frame moves on under the key it has, or is freed.
LEMMA FrameAdvance ==
  ASSUME FramesOK, NEW r \in Request, NEW g \in Frame,
         frame' = [frame EXCEPT ![r] = g], Present' = Present,
         FrameOK(g, Present), g.key \in {frame[r].key, Nil},
         ~(g.op = "createProduct" /\ g.pc = "write")
  PROVE  FramesOK'
<1>1. ASSUME NEW q \in Request \ {r}, At(q, "createProduct", "write")
      PROVE  frame[q].key \notin Present' /\ frame[q].key # g.key
  BY <1>1, NilDistinct DEF FramesOK, Reserved, FrameOK, At
<1> QED
  BY <1>1, FrameStep

LEMMA FrameLeave ==
  ASSUME FramesOK, NEW r \in Request, Leave(r), Present' = Present
  PROVE  FramesOK'
<1>1. /\ FrameOK(Free, Present) /\ Free.key = Nil
      /\ ~(Free.op = "createProduct" /\ Free.pc = "write")
  BY DEF FrameOK, Free
<1> QED
  BY <1>1, FreeFrame, FrameAdvance DEF Leave

LEMMA InvParts ==
  Inv <=> /\ FramesOK /\ CachedExist
          /\ categories \subseteq Category
          /\ product \in [Product -> Row \cup {Nil}]
          /\ cache \in [Key -> Row \cup Listing \cup {Nil}]
          /\ ledger \in [Product -> Int \cup {Nil}]
          /\ excused \subseteq Key /\ misfiled \subseteq Category
BY DEF Inv, TypeOK, FramesOK

\* Nothing the frames depend on but the frame itself changes.
LEMMA InvFrameOnly ==
  ASSUME Inv, FramesOK', UNCHANGED <<categories, product, cache>>,
         ledger' \in [Product -> Int \cup {Nil}],
         excused' \subseteq Key, misfiled' \subseteq Category
  PROVE  Inv'
<1>1. CachedExist'
  BY InvParts DEF CachedExist, Present, Exists
<1>2. FramesOK' /\ CachedExist'
      /\ (categories \subseteq Category)'
      /\ (product \in [Product -> Row \cup {Nil}])'
      /\ (cache \in [Key -> Row \cup Listing \cup {Nil}])'
      /\ (ledger \in [Product -> Int \cup {Nil}])'
      /\ (excused \subseteq Key /\ misfiled \subseteq Category)'
  BY <1>1, InvParts
<1> QED
  BY <1>2 DEF Inv, TypeOK, FramesOK

\* An existing row is replaced by a row.
LEMMA RowReplaced ==
  ASSUME Inv, NEW p \in Present, NEW row \in Row,
         product' = [product EXCEPT ![p] = row]
  PROVE  /\ product' \in [Product -> Row \cup {Nil}]
         /\ Present' = Present
         /\ CachedExist <=> (\A k \in Product : cache[k] # Nil => k \in Present')
BY InvParts, NilDistinct DEF Present, Exists, CachedExist

LEMMA InvRowReplaced ==
  ASSUME Inv, NEW p \in Present, NEW row \in Row,
         product' = [product EXCEPT ![p] = row],
         FramesOK', UNCHANGED <<categories, cache, ledger, excused>>,
         misfiled' \subseteq Category
  PROVE  Inv'
<1>1. (product \in [Product -> Row \cup {Nil}])' /\ CachedExist'
  BY RowReplaced, InvParts DEF CachedExist
<1> QED
  BY <1>1, InvParts DEF Inv, TypeOK, FramesOK

\* A writer's frame after its UPDATE.
LEMMA WrittenFrame ==
  ASSUME NEW f \in Frame, NEW P, f.key \in P, NEW lists \in SUBSET ListKey,
         NEW moved \in SUBSET ListKey, NEW pc \in {"readBack", "delDetail", "lists"},
         pc = "readBack" => f.op = "updateStock"
  PROVE  /\ Written(f, pc, lists, moved) \in Frame
         /\ FrameOK(Written(f, pc, lists, moved), P)
         /\ Written(f, pc, lists, moved).key = f.key
         /\ Written(f, pc, lists, moved).pc = pc
<1> DEFINE a == [NoArg EXCEPT !.delta = f.arg.delta]
           o == IF f.op = "updateStock" THEN f.old ELSE Nil
           g == [f EXCEPT !.pc = pc, !.scan = lists, !.later = moved,
                          !.arg = a, !.old = o]
<1>1. a \in Arg /\ o \in Row \cup {Nil} /\ pc \in Pc
  BY DEF Frame, Arg, NoArg, Pc
<1>2. /\ g \in Frame /\ g.key = f.key /\ g.pc = pc /\ g.op = f.op
      /\ g.later = moved
  <2> HIDE DEF a, o
  <2> QED
    BY <1>1 DEF Frame
<1>3. FrameOK(g, P)
  <2> HIDE DEF g
  <2> QED
    BY <1>2 DEF FrameOK
<1>4. Written(f, pc, lists, moved) = g
  BY DEF Written
<1> QED
  BY <1>2, <1>3, <1>4

\* A new frame of an existing row.
LEMMA InvArrive ==
  ASSUME Inv, NEW r \in Request, NEW op \in Op, NEW pc \in Pc,
         NEW key \in Key, NEW arg \in Arg, NEW old \in Row \cup {Nil},
         Arrive(r, op, pc, key, arg, old),
         FrameOK([Free EXCEPT !.op = op, !.pc = pc, !.key = key, !.arg = arg,
                              !.old = old], Present),
         key \in Present \cup ListKey
           \/ \A q \in Request : frame[q].key # key,
         op = "createProduct" => /\ key \notin Present
                                 /\ \A q \in Request : frame[q].key # key
  PROVE  Inv'
<1> DEFINE g == [Free EXCEPT !.op = op, !.pc = pc, !.key = key, !.arg = arg,
                             !.old = old]
<1>1. g \in Frame /\ g.key = key /\ g.op = op
  BY DEF Free, NoArg, Frame, Arg
<1>2. Present' = Present /\ frame' = [frame EXCEPT ![r] = g]
  BY DEF Arrive, Present, Exists
<1>3. FrameOK(g, Present')
  BY <1>2
<1>4. ASSUME NEW q \in Request \ {r}, At(q, "createProduct", "write")
      PROVE  frame[q].key \notin Present' /\ frame[q].key # g.key
  BY <1>1, <1>2, <1>4, InvParts, KeysAssumption
     DEF FramesOK, Reserved, FrameOK, At, ListKey
<1>5. FramesOK
  BY InvParts
<1>6. FramesOK'
  <2> HIDE DEF g
  <2> QED
    BY <1>1, <1>2, <1>3, <1>4, <1>5, FrameStep
<1> QED
  BY <1>6, InvFrameOnly, InvParts DEF Arrive

----------------------------------------------------------------------------
(* The invariant, action by action.                                        *)

LEMMA ArrivalInv ==
  ASSUME Inv, NEW r \in Request, Arrival(r)
  PROVE  Inv'
<1>a. TypeOK /\ Product \subseteq Key /\ ListKey \subseteq Key
  BY DEF Inv, Key, ListKey
<1>1. ASSUME NEW p \in Product, NEW c \in Category, NEW x \in Content,
             NEW s \in 0..MaxStock, CreateProduct(r, p, c, x, s)
      PROVE  Inv'
  <2> DEFINE arg == [category |-> c, content |-> x, active |-> Nil, delta |-> s]
  <2>1. arg \in Arg /\ "createProduct" \in Op /\ "write" \in Pc
    BY StockAssumption DEF Arg, Op, Pc
  <2>2. FrameOK([Free EXCEPT !.op = "createProduct", !.pc = "write", !.key = p,
                             !.arg = arg, !.old = Nil], Present)
    BY DEF FrameOK, Free
  <2>3. p \notin Present /\ \A q \in Request : frame[q].key # p
    BY <1>1 DEF CreateProduct, Present
  <2> QED
    BY <1>a, <1>1, <2>1, <2>2, <2>3, InvArrive DEF CreateProduct
<1>2. ASSUME NEW p \in Product, NEW c \in MoveTo, NEW x \in Content \cup {Nil},
             NEW a \in BOOLEAN \cup {Nil}, UpdateProduct(r, p, c, x, a)
      PROVE  Inv'
  <2> DEFINE arg == [category |-> c, content |-> x, active |-> a, delta |-> 0]
             pc == IF c = Nil THEN "write" ELSE "findCategory"
  <2>1. arg \in Arg /\ "updateProduct" \in Op /\ pc \in Pc
    BY InputAssumption DEF Arg, Op, Pc
  <2>2. p \in Present /\ product[p] \in Row
    BY <1>a, <1>2 DEF UpdateProduct, Present, Exists, TypeOK
  <2>3. FrameOK([Free EXCEPT !.op = "updateProduct", !.pc = pc, !.key = p,
                             !.arg = arg, !.old = product[p]], Present)
    BY <2>2, InputAssumption DEF FrameOK, Free, Patcher
  <2> QED
    BY <1>a, <1>2, <2>1, <2>2, <2>3, InvArrive DEF UpdateProduct
<1>3. ASSUME NEW p \in Product, DeleteProduct(r, p)
      PROVE  Inv'
  <2>1. NoArg \in Arg /\ "deleteProduct" \in Op /\ "write" \in Pc
    BY DEF NoArg, Arg, Op, Pc
  <2>2. p \in Present /\ product[p] \in Row
    BY <1>a, <1>3 DEF DeleteProduct, Present, Exists, TypeOK
  <2>3. FrameOK([Free EXCEPT !.op = "deleteProduct", !.pc = "write", !.key = p,
                             !.arg = NoArg, !.old = product[p]], Present)
    BY <2>2 DEF FrameOK, Free, Patcher
  <2> QED
    BY <1>a, <1>3, <2>1, <2>2, <2>3, InvArrive DEF DeleteProduct
<1>4. ASSUME NEW p \in Product, NEW x \in Content, UploadImage(r, p, x)
      PROVE  Inv'
  <2> DEFINE arg == [NoArg EXCEPT !.content = x]
  <2>1. /\ arg \in Arg /\ arg.content = x
        /\ "uploadProductImage" \in Op /\ "write" \in Pc
    BY DEF NoArg, Arg, Op, Pc
  <2>2. p \in Present /\ product[p] \in Row
    BY <1>a, <1>4 DEF UploadImage, Present, Exists, TypeOK
  <2>3. FrameOK([Free EXCEPT !.op = "uploadProductImage", !.pc = "write",
                             !.key = p, !.arg = arg, !.old = product[p]], Present)
    <3> HIDE DEF arg
    <3> QED
      BY <2>1, <2>2 DEF FrameOK, Free, Patcher
  <2> QED
    BY <1>a, <1>4, <2>1, <2>2, <2>3, InvArrive DEF UploadImage
<1>5. ASSUME NEW p \in Product, NEW d \in Delta, UpdateStock(r, p, d)
      PROVE  Inv'
  <2> DEFINE arg == [NoArg EXCEPT !.delta = d]
  <2>1. arg \in Arg /\ "updateStock" \in Op /\ "write" \in Pc
    BY StockAssumption DEF NoArg, Arg, Op, Pc
  <2>2. p \in Present /\ product[p] \in Row
    BY <1>a, <1>5 DEF UpdateStock, Present, Exists, TypeOK
  <2>3. FrameOK([Free EXCEPT !.op = "updateStock", !.pc = "write", !.key = p,
                             !.arg = arg, !.old = product[p]], Present)
    BY <2>2 DEF FrameOK, Free, Patcher
  <2> QED
    BY <1>a, <1>5, <2>1, <2>2, <2>3, InvArrive DEF UpdateStock
<1>6. ASSUME NEW p \in Product, GetProduct(r, p)
      PROVE  Inv'
  <2>1. /\ NoArg \in Arg /\ "getProduct" \in Op /\ "select" \in Pc
        /\ p \in Present
    BY <1>6 DEF NoArg, Arg, Op, Pc, GetProduct, Present
  <2>2. FrameOK([Free EXCEPT !.op = "getProduct", !.pc = "select", !.key = p,
                             !.arg = NoArg, !.old = Nil], Present)
    BY <2>1 DEF FrameOK, Free
  <2> QED
    BY <1>a, <1>6, <2>1, <2>2, InvArrive DEF GetProduct
<1>7. ASSUME NEW k \in ListKey, ListProducts(r, k)
      PROVE  Inv'
  <2>1. NoArg \in Arg /\ "listProducts" \in Op /\ "select" \in Pc
    BY DEF NoArg, Arg, Op, Pc
  <2>2. FrameOK([Free EXCEPT !.op = "listProducts", !.pc = "select", !.key = k,
                             !.arg = NoArg, !.old = Nil], Present)
    BY DEF FrameOK, Free
  <2> QED
    BY <1>a, <1>7, <2>1, <2>2, InvArrive DEF ListProducts
<1> QED
  BY <1>1, <1>2, <1>3, <1>4, <1>5, <1>6, <1>7 DEF Arrival, ListKey

\* A request that ends without touching the table keeps the invariant.
LEMMA LeaveInv ==
  ASSUME Inv, NEW r \in Request, Leave(r),
         UNCHANGED <<categories, product, cache>>,
         ledger' \in [Product -> Int \cup {Nil}],
         excused' \subseteq Key, misfiled' \subseteq Category
  PROVE  Inv'
<1>1. Present' = Present
  BY DEF Present, Exists
<1> QED
  BY <1>1, InvParts, FrameLeave, InvFrameOnly

\* A writer goes on to pc after replacing the row of its key.
LEMMA WriteInv ==
  ASSUME Inv, NEW r \in Request, frame[r].key \in Present,
         NEW row \in Row, product' = [product EXCEPT ![frame[r].key] = row],
         NEW pc \in {"readBack", "delDetail"},
         pc = "readBack" => frame[r].op = "updateStock",
         NEW lists \in SUBSET ListKey, NEW moved \in SUBSET ListKey,
         frame' = [frame EXCEPT ![r] = Written(frame[r], pc, lists, moved)],
         UNCHANGED <<categories, cache, ledger, excused>>,
         misfiled' \subseteq Category
  PROVE  Inv'
<1> DEFINE g == Written(frame[r], pc, lists, moved)
<1>1. FramesOK /\ frame[r] \in Frame
  BY InvParts DEF FramesOK
<1>2. /\ g \in Frame /\ FrameOK(g, Present) /\ g.key = frame[r].key /\ g.pc = pc
      /\ frame' = [frame EXCEPT ![r] = g]
  BY <1>1, WrittenFrame
<1>3. Present' = Present
  BY RowReplaced
<1>4. FramesOK'
  <2> HIDE DEF g
  <2> QED
    BY <1>1, <1>2, <1>3, FrameAdvance
<1> QED
  BY <1>4, InvRowReplaced

LEMMA WritesInv ==
  ASSUME Inv, NEW r \in Request,
         UpdateRow(r) \/ SoftDelete(r) \/ SetImage(r) \/ AddStock(r)
  PROVE  Inv'
<1> DEFINE f == frame[r]
<1>1. f \in Frame /\ FrameOK(f, Present) /\ f.pc = "write"
  BY InvParts DEF FramesOK, UpdateRow, SoftDelete, SetImage, AddStock, At
<1>2. /\ f.op # "createProduct"
      /\ f.key \in Present /\ f.old \in Row
  BY <1>1 DEF FrameOK, UpdateRow, SoftDelete, SetImage, AddStock, At
<1>3. product[f.key] \in Row /\ f.key \in Product
  BY <1>2, InvParts DEF Present, Exists
<1>4. {f.old.category, All} \in SUBSET ListKey /\ Moved(f) \in SUBSET ListKey
      /\ {} \in SUBSET ListKey
  BY <1>1, <1>2 DEF Row, ListKey, Moved, Frame, Arg
<1>5. misfiled \subseteq Category /\ product[f.key].category \in Category
  BY <1>3, InvParts DEF Row
<1>6. /\ ledger \in [Product -> Int \cup {Nil}]
      /\ excused \subseteq Key
  BY InvParts
<1>7. CASE UpdateRow(r)
  <2>1. CASE f.arg.category \in categories \cup {Nil}
    <3>1. Patched(product[f.key], f.arg) \in Row
      BY <1>1, <1>3 DEF Patched, Row, Frame, Arg
    <3>2. misfiled' \subseteq Category
      BY <1>5, <1>7, <2>1 DEF UpdateRow, Misfile
    <3>3. product' = [product EXCEPT ![f.key] = Patched(product[f.key], f.arg)]
      BY <1>3, <1>7, <2>1 DEF UpdateRow
    <3> QED
      BY <1>2, <1>4, <1>7, <2>1, <3>1, <3>2, <3>3, WriteInv DEF UpdateRow
  <2>2. CASE ~(f.arg.category \in categories \cup {Nil})
    BY <1>5, <1>6, <1>7, <2>2, LeaveInv DEF UpdateRow
  <2> QED
    BY <2>1, <2>2
<1>8. CASE SoftDelete(r)
  <2>1. [product[f.key] EXCEPT !.active = FALSE] \in Row
    BY <1>3 DEF Row
  <2>2. misfiled' \subseteq Category
    BY <1>5, <1>8 DEF SoftDelete, Misfile
  <2>3. product' = [product EXCEPT ![f.key] = [product[f.key] EXCEPT !.active = FALSE]]
    BY <1>3, <1>8 DEF SoftDelete
  <2> QED
    BY <1>2, <1>4, <1>8, <2>1, <2>2, <2>3, WriteInv DEF SoftDelete
<1>9. CASE SetImage(r)
  <2>1. [product[f.key] EXCEPT !.content = f.arg.content] \in Row
    BY <1>1, <1>3, <1>9 DEF Row, FrameOK, SetImage, At
  <2>2. misfiled' \subseteq Category
    BY <1>5, <1>9 DEF SetImage, Misfile
  <2>3. product' = [product EXCEPT
          ![f.key] = [product[f.key] EXCEPT !.content = f.arg.content]]
    BY <1>3, <1>9 DEF SetImage
  <2> QED
    BY <1>2, <1>4, <1>9, <2>1, <2>2, <2>3, WriteInv DEF SetImage
<1>10. CASE AddStock(r)
  <2> DEFINE s == product[f.key].stock + f.arg.delta
  <2>1. CASE s \in 0..MaxStock
    <3>1. [product[f.key] EXCEPT !.stock = s] \in Row
      BY <1>3, <2>1 DEF Row
    <3>2. product' = [product EXCEPT ![f.key] = [product[f.key] EXCEPT !.stock = s]]
      BY <1>3, <1>10, <2>1 DEF AddStock
    <3> HIDE DEF s
    <3>3. /\ frame' = [frame EXCEPT ![r] = Written(f, "readBack", {}, {})]
          /\ UNCHANGED <<categories, cache, ledger, excused, misfiled>>
          /\ f.op = "updateStock"
      BY <1>10, <2>1 DEF AddStock, At, s
    <3> QED
      BY <1>2, <1>4, <1>5, <3>1, <3>2, <3>3, WriteInv
  <2>2. CASE ~(s \in 0..MaxStock)
    BY <1>5, <1>6, <1>10, <2>2, LeaveInv DEF AddStock
  <2> QED
    BY <2>1, <2>2
<1> QED
  BY <1>7, <1>8, <1>9, <1>10

LEMMA InsertInv ==
  ASSUME Inv, NEW r \in Request, InsertRow(r)
  PROVE  Inv'
<1> DEFINE f == frame[r]
           row == [category |-> f.arg.category, active |-> TRUE,
                   stock |-> f.arg.delta, content |-> f.arg.content]
           g == Written(f, "lists", {f.arg.category, All}, {})
<1>1. FramesOK /\ f \in Frame /\ FrameOK(f, Present) /\ At(r, "createProduct", "write")
  BY InvParts DEF FramesOK, InsertRow
<1>2. /\ f.key \in Product /\ f.key \notin Present
      /\ row \in Row
      /\ {f.arg.category, All} \in SUBSET ListKey
  BY <1>1 DEF FrameOK, At, FramesOK, Reserved, Row, ListKey
<1>3. CASE f.arg.category \in categories
  <2>1. /\ product' = [product EXCEPT ![f.key] = row]
        /\ frame' = [frame EXCEPT ![r] = g]
        /\ UNCHANGED <<categories, cache, ledger, excused, misfiled>>
    BY <1>3 DEF InsertRow
  <2>2. product' \in [Product -> Row \cup {Nil}] /\ Present' = Present \cup {f.key}
    <3> HIDE DEF row
    <3> QED
      BY <1>2, <2>1, InvParts, NilDistinct DEF Present, Exists
  <2>3. g \in Frame /\ FrameOK(g, Present') /\ g.key = f.key /\ g.pc = "lists"
    BY <1>1, <1>2, <2>2, WrittenFrame
  <2>4. ASSUME NEW q \in Request \ {r}, At(q, "createProduct", "write")
        PROVE  frame[q].key \notin Present' /\ frame[q].key # g.key
    BY <1>1, <2>2, <2>3, <2>4 DEF FramesOK, Reserved
  <2>5. FramesOK'
    <3> HIDE DEF g
    <3> QED
      BY <1>1, <2>1, <2>2, <2>3, <2>4, FrameStep
  <2>6. CachedExist'
    BY <2>1, <2>2, InvParts DEF CachedExist
  <2> QED
    BY <2>1, <2>2, <2>5, <2>6, InvParts DEF Inv, TypeOK, FramesOK
<1>4. CASE f.arg.category \notin categories
  BY <1>4, LeaveInv, InvParts DEF InsertRow
<1> QED
  BY <1>3, <1>4

\* Steps that move one frame on and change neither the table nor the cache.
LEMMA FrameOnlyInv ==
  ASSUME Inv, NEW r \in Request, NEW g \in Frame,
         frame' = [frame EXCEPT ![r] = g],
         FrameOK(g, Present), g.key \in {frame[r].key, Nil},
         ~(g.op = "createProduct" /\ g.pc = "write"),
         UNCHANGED <<categories, product, cache>>,
         ledger' \in [Product -> Int \cup {Nil}],
         excused' \subseteq Key, misfiled' \subseteq Category
  PROVE  Inv'
<1>1. Present' = Present
  BY DEF Present, Exists
<1> QED
  BY <1>1, InvParts, FrameAdvance, InvFrameOnly

LEMMA ReadsInv ==
  ASSUME Inv, NEW r \in Request,
         \/ FindCategory(r) \/ ReadBack(r) \/ ReadProduct(r)
         \/ ReadPage(r) \/ CountRows(r)
  PROVE  Inv'
<1> DEFINE f == frame[r]
<1>1. f \in Frame /\ FrameOK(f, Present) /\ TypeOK
  BY InvParts DEF FramesOK, Inv
<1>2. /\ ledger \in [Product -> Int \cup {Nil}]
      /\ excused \subseteq Key /\ misfiled \subseteq Category
  BY InvParts
<1>3. CASE FindCategory(r)
  <2> DEFINE g == [f EXCEPT !.pc = "write"]
  <2>1. /\ g \in Frame /\ FrameOK(g, Present) /\ g.key = f.key
        /\ ~(g.op = "createProduct" /\ g.pc = "write")
    BY <1>1, <1>3 DEF Frame, Pc, FrameOK, FindCategory, At, Patcher, Present
  <2>2. CASE f.arg.category \in categories
    <3>1. /\ frame' = [frame EXCEPT ![r] = g]
          /\ UNCHANGED <<categories, product, cache, ledger, excused, misfiled>>
      BY <1>3, <2>2, InvParts DEF FindCategory, FramesOK
    <3> HIDE DEF g
    <3> QED
      BY <1>2, <2>1, <3>1, FrameOnlyInv
  <2>3. CASE ~(f.arg.category \in categories)
    BY <1>2, <1>3, <2>3, LeaveInv DEF FindCategory
  <2> QED
    BY <2>2, <2>3
<1>4. CASE ReadBack(r)
  <2> DEFINE g == [f EXCEPT !.pc = "delDetail", !.val = product[f.key],
                            !.scan = {product[f.key].category, All}]
  <2>1. f.key \in Present /\ product[f.key] \in Row
    BY <1>1, <1>4 DEF FrameOK, ReadBack, At, Present, Exists, TypeOK
  <2>2. {product[f.key].category, All} \in SUBSET ListKey /\ "delDetail" \in Pc
    BY <2>1 DEF Row, ListKey, Pc
  <2>3. /\ g \in Frame /\ FrameOK(g, Present) /\ g.key = f.key
        /\ ~(g.op = "createProduct" /\ g.pc = "write")
    BY <1>1, <2>1, <2>2 DEF Frame, FrameOK
  <2>4. /\ frame' = [frame EXCEPT ![r] = g]
        /\ UNCHANGED <<categories, product, cache, ledger, excused, misfiled>>
    BY <1>4 DEF ReadBack
  <2> HIDE DEF g
  <2> QED
    BY <1>2, <2>3, <2>4, FrameOnlyInv
<1>5. CASE ReadProduct(r)
  <2> DEFINE g == [f EXCEPT !.pc = "cacheSet", !.val = product[f.key]]
  <2>1. f.key \in Present /\ product[f.key] \in Row
    BY <1>1, <1>5 DEF FrameOK, ReadProduct, At, Present, Exists, TypeOK
  <2>2. /\ g \in Frame /\ FrameOK(g, Present) /\ g.key = f.key
        /\ ~(g.op = "createProduct" /\ g.pc = "write")
    BY <1>1, <2>1 DEF Frame, Pc, FrameOK
  <2>3. /\ frame' = [frame EXCEPT ![r] = g]
        /\ UNCHANGED <<categories, product, cache, ledger, excused, misfiled>>
    BY <1>5, InvParts DEF ReadProduct, FramesOK
  <2> HIDE DEF g
  <2> QED
    BY <1>2, <2>2, <2>3, FrameOnlyInv
<1>6. CASE ReadPage(r)
  <2> DEFINE v == [rows |-> Page(f.key), total |-> 0]
             g == [f EXCEPT !.pc = "count", !.val = v]
  <2>1. v \in Listing
    BY <1>1, ListingType DEF Listing
  <2>2. f.op = "listProducts" /\ f.key \in ListKey
    BY <1>1, <1>6 DEF FrameOK, ReadPage, At
  <2>3. /\ frame' = [frame EXCEPT ![r] = g]
        /\ UNCHANGED <<categories, product, cache, ledger, excused, misfiled>>
    BY <1>6, InvParts DEF ReadPage, FramesOK
  <2> HIDE DEF v
  <2>4. /\ g \in Frame /\ FrameOK(g, Present) /\ g.key = f.key
        /\ ~(g.op = "createProduct" /\ g.pc = "write")
    BY <1>1, <2>1, <2>2 DEF Frame, Pc, FrameOK
  <2> HIDE DEF g
  <2> QED
    BY <1>2, <2>3, <2>4, FrameOnlyInv
<1>7. CASE CountRows(r)
  <2> DEFINE v == [f.val EXCEPT !.total = Cardinality(Listed(f.key))]
             g == [f EXCEPT !.pc = "cacheSet", !.val = v]
  <2>1. f.op = "listProducts" /\ f.key \in ListKey /\ f.val \in Listing
    BY <1>1, <1>7 DEF FrameOK, CountRows, At
  <2>2. v \in Listing
    BY <1>1, <2>1, ListingType DEF Listing
  <2>3. /\ frame' = [frame EXCEPT ![r] = g]
        /\ UNCHANGED <<categories, product, cache, ledger, excused, misfiled>>
    BY <1>7, InvParts DEF CountRows, FramesOK
  <2> HIDE DEF v
  <2>4. /\ g \in Frame /\ FrameOK(g, Present) /\ g.key = f.key
        /\ ~(g.op = "createProduct" /\ g.pc = "write")
    BY <1>1, <2>1, <2>2 DEF Frame, Pc, FrameOK
  <2> HIDE DEF g
  <2> QED
    BY <1>2, <2>3, <2>4, FrameOnlyInv
<1> QED
  BY <1>3, <1>4, <1>5, <1>6, <1>7

\* Deleting or filling a key keeps the cache typed and its details of
\* existing products only.
LEMMA CacheStep ==
  ASSUME Inv, NEW k \in Key, NEW v \in Row \cup Listing \cup {Nil},
         cache' = [cache EXCEPT ![k] = v],
         v # Nil /\ k \in Product => k \in Present,
         UNCHANGED <<categories, product>>, FramesOK',
         ledger' \in [Product -> Int \cup {Nil}],
         excused' \subseteq Key, misfiled' \subseteq Category
  PROVE  Inv'
<1>1. Present' = Present
  BY DEF Present, Exists
<1>2. CachedExist' /\ (cache \in [Key -> Row \cup Listing \cup {Nil}])'
  BY <1>1, InvParts DEF CachedExist, Key
<1> QED
  BY <1>2, InvParts DEF Inv, TypeOK, FramesOK

LEMMA LoseAuditRowType ==
  ASSUME Inv, NEW f, LoseAuditRow(f)
  PROVE  ledger' \in [Product -> Int \cup {Nil}]
BY InvParts DEF LoseAuditRow

LEMMA TailInv ==
  ASSUME Inv, NEW r \in Request,
         \/ DelDetail(r) \/ Audit(r) \/ Fill(r)
         \/ \E k \in ListKey : Scan(r, k) \/ Del(r, k)
  PROVE  Inv'
<1> DEFINE f == frame[r]
<1>1. /\ FramesOK /\ f \in Frame /\ FrameOK(f, Present)
      /\ frame \in [Request -> Frame]
      /\ Present \subseteq Product /\ Product \subseteq Key /\ ListKey \subseteq Key
  BY InvParts DEF FramesOK, Present, Key, ListKey
<1>2. /\ ledger \in [Product -> Int \cup {Nil}]
      /\ excused \subseteq Key /\ misfiled \subseteq Category
  BY InvParts
<1>3. CASE DelDetail(r)
  <2> DEFINE g == [f EXCEPT !.pc = "lists"]
  <2>1. /\ g \in Frame /\ FrameOK(g, Present) /\ g.key = f.key
        /\ ~(g.op = "createProduct" /\ g.pc = "write")
        /\ f.key \in Key
    BY <1>1, <1>3 DEF Frame, Pc, FrameOK, DelDetail
  <2>2. /\ frame' = [frame EXCEPT ![r] = g]
        /\ cache' = [cache EXCEPT ![f.key] = Nil]
        /\ UNCHANGED <<categories, product, ledger>>
        /\ excused' \subseteq Key /\ misfiled' \subseteq Category
    BY <1>2, <1>3 DEF DelDetail, Drop
  <2>3. Present' = Present
    BY <2>2 DEF Present, Exists
  <2>4. FramesOK'
    <3> HIDE DEF g
    <3> QED
      BY <1>1, <2>1, <2>2, <2>3, FrameAdvance
  <2> QED
    BY <1>2, <2>1, <2>2, <2>4, CacheStep
<1>4. ASSUME NEW k \in ListKey, Scan(r, k)
      PROVE  Inv'
  <2> DEFINE h == [f EXCEPT !.scan = @ \ {k},
                            !.del = IF cache[k] = Nil THEN @ ELSE @ \cup {k}]
             g == Settled(h)
  <2>1. /\ h \in Frame /\ h.pc \in {"lists", "drain"} /\ h.key \in Present
        /\ h.pc = "drain" => h.later = {}
        /\ h.key = f.key
    BY <1>1, <1>4 DEF Scan, Frame, FrameOK
  <2>2. frame' = [frame EXCEPT ![r] = g]
        /\ UNCHANGED <<categories, product, cache, ledger, excused, misfiled>>
    BY <1>4 DEF Scan
  <2> HIDE DEF h
  <2>3. /\ g \in Frame /\ FrameOK(g, Present) /\ g.key \in {f.key, Nil}
        /\ ~(g.op = "createProduct" /\ g.pc = "write")
    <3>1. Free.key = Nil /\ Free.pc = "free"
      BY DEF Free
    <3> QED
      BY <2>1, <3>1, SettledFrame
  <2> HIDE DEF g
  <2> QED
    BY <1>2, <2>2, <2>3, FrameOnlyInv
<1>5. ASSUME NEW k \in ListKey, Del(r, k)
      PROVE  Inv'
  <2> DEFINE h == [f EXCEPT !.del = @ \ {k}]
             g == Settled(h)
  <2>1. /\ h \in Frame /\ h.pc \in {"lists", "drain"} /\ h.key \in Present
        /\ h.pc = "drain" => h.later = {}
        /\ h.key = f.key
    BY <1>1, <1>5 DEF Del, Frame, FrameOK
  <2>2. /\ frame' = [frame EXCEPT ![r] = g]
        /\ cache' = [cache EXCEPT ![k] = Nil]
        /\ UNCHANGED <<categories, product, ledger>>
        /\ excused' \subseteq Key /\ misfiled' \subseteq Category
    BY <1>2, <1>5 DEF Del, Drop
  <2> HIDE DEF h
  <2>3. /\ g \in Frame /\ FrameOK(g, Present) /\ g.key \in {f.key, Nil}
        /\ ~(g.op = "createProduct" /\ g.pc = "write")
    <3>1. Free.key = Nil /\ Free.pc = "free"
      BY DEF Free
    <3> QED
      BY <2>1, <3>1, SettledFrame
  <2> HIDE DEF g
  <2>4. Present' = Present
    BY <2>2 DEF Present, Exists
  <2>5. FramesOK'
    BY <1>1, <2>2, <2>3, <2>4, FrameAdvance
  <2> QED
    BY <1>1, <1>2, <2>2, <2>5, CacheStep
<1>6. CASE Audit(r)
  <2>1. Unlogged(f) \in Int /\ f.key \in Product
    BY <1>1, <1>6 DEF Unlogged, Frame, Arg, FrameOK, Audit
  <2>2. ledger' \in [Product -> Int \cup {Nil}]
    BY <1>2, <1>6, <2>1 DEF Audit
  <2> QED
    BY <1>2, <1>6, <2>2, LeaveInv DEF Audit
<1>7. CASE Fill(r)
  <2>1. /\ f.key \in Product => f.key \in Present
        /\ f.key \in Key /\ f.val \in Row \cup Listing
    BY <1>1, <1>7, KeysAssumption DEF FrameOK, Fill, ListKey
  <2>2. /\ cache' = [cache EXCEPT ![f.key] = f.val]
        /\ Leave(r)
        /\ UNCHANGED <<categories, product, ledger>>
        /\ excused' \subseteq Key /\ misfiled' \subseteq Category
    BY <1>2, <1>7, <2>1 DEF Fill
  <2>3. Present' = Present
    BY <2>2 DEF Present, Exists
  <2>4. FramesOK'
    BY <1>1, <2>2, <2>3, FrameLeave
  <2> QED
    BY <1>2, <2>1, <2>2, <2>4, CacheStep
<1> QED
  BY <1>3, <1>4, <1>5, <1>6, <1>7

LEMMA FailureInv ==
  ASSUME Inv, NEW r \in Request, Failure(r)
  PROVE  Inv'
<1> DEFINE f == frame[r]
<1>1. /\ FramesOK /\ f \in Frame /\ FrameOK(f, Present)
      /\ excused \subseteq Key /\ misfiled \subseteq Category
      /\ Present \subseteq Product /\ Product \subseteq Key /\ ListKey \subseteq Key
  BY InvParts DEF FramesOK, Present, Key, ListKey
<1>2. CASE Abort(r)
  <2>1. Owed(f) \subseteq Key
    <3>1. CASE f.pc = "readBack"
      <4>1. product[f.key] \in Row
        BY <1>1, <3>1, InvParts DEF FrameOK, Present, Exists
      <4> QED
        BY <1>1, <3>1, <4>1 DEF FrameOK, Owed, Row, Key
    <3>2. CASE f.pc = "delDetail"
      BY <1>1, <3>2 DEF FrameOK, Owed, Frame, Key
    <3>3. CASE f.pc \in {"lists", "drain"}
      BY <1>1, <3>3 DEF Owed, Frame
    <3> QED
      BY <3>1, <3>2, <3>3 DEF Owed
  <2> QED
    BY <1>1, <1>2, <2>1, LoseAuditRowType, LeaveInv DEF Abort, Stale
<1>3. ASSUME NEW k \in ListKey, FailPattern(r, k)
      PROVE  Inv'
  <2> DEFINE h == [f EXCEPT !.pc = "drain", !.scan = @ \ {k},
                            !.del = @ \ {k}, !.later = {}]
             g == Settled(h)
  <2>1. /\ h \in Frame /\ h.pc \in {"lists", "drain"} /\ h.key \in Present
        /\ h.later = {} /\ h.key = f.key
    BY <1>1, <1>3 DEF FailPattern, Frame, FrameOK, Pc
  <2>2. /\ frame' = [frame EXCEPT ![r] = g]
        /\ UNCHANGED <<categories, product, cache, misfiled>>
        /\ LoseAuditRow(f)
        /\ excused' = excused \cup Stale({k} \cup f.later)
    BY <1>3 DEF FailPattern
  <2>3. excused' \subseteq Key
    BY <1>1, <2>2 DEF Frame, Stale
  <2> HIDE DEF h
  <2>4. /\ g \in Frame /\ FrameOK(g, Present) /\ g.key \in {f.key, Nil}
        /\ ~(g.op = "createProduct" /\ g.pc = "write")
    <3>1. Free.key = Nil /\ Free.pc = "free"
      BY DEF Free
    <3> QED
      BY <2>1, <3>1, SettledFrame
  <2> HIDE DEF g
  <2> QED
    BY <1>1, <2>2, <2>3, <2>4, LoseAuditRowType, FrameOnlyInv
<1>4. CASE AuditFails(r)
  BY <1>1, <1>4, LoseAuditRowType, LeaveInv DEF AuditFails
<1> QED
  BY <1>2, <1>3, <1>4 DEF Failure, ListKey

LEMMA EnvironmentInv ==
  ASSUME Inv, (\E k \in Key : Expire(k)) \/ (\E c \in Category : DeleteCategory(c))
  PROVE  Inv'
<1>1. ASSUME NEW k \in Key, Expire(k)
      PROVE  Inv'
  <2>1. FramesOK'
    BY <1>1, InvParts DEF Expire, FramesOK, Reserved, At, Present, Exists
  <2>2. excused' \subseteq Key /\ misfiled' \subseteq Category
    BY <1>1, InvParts DEF Expire, Drop
  <2> QED
    BY <1>1, <2>1, <2>2, InvParts, CacheStep DEF Expire, Drop
<1>2. ASSUME NEW c \in Category, DeleteCategory(c)
      PROVE  Inv'
  <2>1. FramesOK' /\ CachedExist'
    BY <1>2, InvParts
       DEF DeleteCategory, FramesOK, Reserved, CachedExist, At, Present, Exists
  <2> QED
    BY <1>2, <2>1, InvParts DEF DeleteCategory, Inv, TypeOK, FramesOK
<1> QED
  BY <1>1, <1>2

LEMMA InitInv == Init => Inv
<1> SUFFICES ASSUME Init PROVE Inv
  OBVIOUS
<1>1. FrameOK(Free, Present) /\ Free.pc = "free"
  BY DEF FrameOK, Free
<1>2. FramesOK
  BY <1>1, FreeFrame DEF Init, FramesOK, Reserved, At
<1>3. CachedExist
  BY DEF Init, CachedExist, Key
<1>4. ledger \in [Product -> Int \cup {Nil}]
  <2>1. \A p \in Product : Exists(p) => product[p].stock \in Int
    BY StockAssumption DEF Init, Exists, Row
  <2> QED
    BY <2>1 DEF Init
<1>5. /\ categories \subseteq Category
      /\ product \in [Product -> Row \cup {Nil}]
      /\ cache \in [Key -> Row \cup Listing \cup {Nil}]
      /\ excused \subseteq Key /\ misfiled \subseteq Category
  BY DEF Init
<1> QED
  BY <1>2, <1>3, <1>4, <1>5, InvParts

LEMMA NextInv == Inv /\ [Next]_vars => Inv'
<1> SUFFICES ASSUME Inv, [Next]_vars PROVE Inv'
  OBVIOUS
<1>1. ASSUME NEW r \in Request, Advance(r)
      PROVE  Inv'
  BY <1>1, InsertInv, ReadsInv, WritesInv, TailInv DEF Advance, ListKey
<1>2. CASE UNCHANGED vars
  BY <1>2 DEF vars, Inv, TypeOK, FrameOK, Reserved, CachedExist, At, Present, Exists
<1> QED
  BY <1>1, <1>2, ArrivalInv, FailureInv, EnvironmentInv DEF Next

LEMMA InvAlways == Spec => []Inv
BY InitInv, NextInv, PTL DEF Spec

\* Type correctness, for any number of products, requests and categories: no
\* interleaving of stock adjustments takes stock_quantity below zero or past
\* the range of its column.
THEOREM TypeCorrect == Spec => []TypeOK
<1>1. Inv => TypeOK
  BY DEF Inv
<1> QED
  BY <1>1, InvAlways, PTL

----------------------------------------------------------------------------
(* What a step may do to the table.                                        *)

\* Request r changes the row of its key: it inserts it in a category that
\* exists, patches it as an update, or leaves its category and does not
\* activate it.
TableChange(r) ==
  LET f == frame[r]
      p == frame[r].key
  IN
  /\ p \in Product
  /\ \A q \in Product \ {p} : product'[q] = product[q]
  /\ UNCHANGED categories
  /\ \/ /\ ~Exists(p)
        /\ product'[p].category \in categories
     \/ /\ At(r, "updateProduct", "write") /\ frame'[r].pc = "delDetail"
        /\ Exists(p)
        /\ f.arg.category \in categories \cup {Nil}
        /\ product'[p] = Patched(product[p], f.arg)
     \/ /\ Exists(p)
        /\ product'[p].category = product[p].category
        /\ product'[p].active => product[p].active

LEMMA TableStep ==
  ASSUME Inv, Next, product' # product
  PROVE  \E r \in Request : TableChange(r)
<1>1. PICK r \in Request : InsertRow(r) \/ UpdateRow(r) \/ SoftDelete(r)
                           \/ SetImage(r) \/ AddStock(r)
  BY DEF Next, Arrival, CreateProduct, UpdateProduct, DeleteProduct, UploadImage,
         UpdateStock, GetProduct, ListProducts, Arrive, Advance, FindCategory,
         ReadBack, DelDetail, Scan, Del, Audit, ReadProduct, ReadPage, CountRows,
         Fill, Failure, Abort, FailPattern, AuditFails, Expire, DeleteCategory
<1> DEFINE f == frame[r]
           p == f.key
<1>2. /\ f \in Frame /\ FrameOK(f, Present) /\ frame \in [Request -> Frame]
      /\ product \in [Product -> Row \cup {Nil}] /\ Reserved
  BY InvParts DEF FramesOK
<1>3. CASE InsertRow(r)
  <2>1. p \in Product /\ ~Exists(p)
    BY <1>2, <1>3 DEF InsertRow, At, FrameOK, Reserved, Present
  <2>2. /\ f.arg.category \in categories /\ UNCHANGED categories
        /\ product' = [product EXCEPT
             ![p] = [category |-> f.arg.category, active |-> TRUE,
                     stock |-> f.arg.delta, content |-> f.arg.content]]
    BY <1>3 DEF InsertRow
  <2>3. /\ product'[p].category \in categories
        /\ \A q \in Product \ {p} : product'[q] = product[q]
    BY <1>2, <2>1, <2>2
  <2> QED
    BY <2>1, <2>2, <2>3 DEF TableChange
<1>4. CASE UpdateRow(r)
  <2>1. p \in Product /\ Exists(p) /\ At(r, "updateProduct", "write")
    BY <1>2, <1>4 DEF UpdateRow, At, FrameOK, Present
  <2>2. /\ f.arg.category \in categories \cup {Nil} /\ UNCHANGED categories
        /\ product' = [product EXCEPT ![p] = Patched(product[p], f.arg)]
        /\ frame' = [frame EXCEPT
             ![r] = Written(f, "delDetail", {f.old.category, All}, Moved(f))]
    BY <1>2, <1>4, <2>1 DEF UpdateRow
  <2>3. frame'[r].pc = "delDetail"
    <3>1. {f.old.category, All} \in SUBSET ListKey /\ Moved(f) \in SUBSET ListKey
      BY <1>2, <2>1 DEF FrameOK, At, Row, ListKey, Moved, Frame, Arg
    <3>2. f.key \in Present
      BY <2>1 DEF Present
    <3>3. Written(f, "delDetail", {f.old.category, All}, Moved(f)).pc = "delDetail"
      BY <1>2, <3>1, <3>2, WrittenFrame
    <3> QED
      BY <1>2, <2>2, <3>3
  <2>4. /\ product'[p] = Patched(product[p], f.arg)
        /\ \A q \in Product \ {p} : product'[q] = product[q]
    BY <1>2, <2>1, <2>2
  <2> QED
    BY <2>1, <2>2, <2>3, <2>4 DEF TableChange
<1>5. CASE SoftDelete(r) \/ SetImage(r) \/ AddStock(r)
  <2>1. p \in Product /\ Exists(p) /\ product[p] \in Row
    BY <1>2, <1>5 DEF SoftDelete, SetImage, AddStock, At, FrameOK, Present, Exists
  <2>2. PICK row : /\ product' = [product EXCEPT ![p] = row]
                   /\ row.category = product[p].category
                   /\ row.active => product[p].active
    <3>1. CASE SoftDelete(r)
      BY <2>1, <3>1 DEF SoftDelete, Row
    <3>2. CASE SetImage(r)
      <4> DEFINE row == [product[p] EXCEPT !.content = f.arg.content]
      <4>1. row.category = product[p].category /\ row.active = product[p].active
        BY <2>1 DEF Row
      <4>2. product' = [product EXCEPT ![p] = row]
        BY <1>2, <2>1, <3>2 DEF SetImage
      <4> QED
        BY <4>1, <4>2
    <3>3. CASE AddStock(r)
      <4> DEFINE s == product[p].stock + f.arg.delta
      <4>1. CASE s \in 0..MaxStock
        <5> DEFINE row == [product[p] EXCEPT !.stock = s]
        <5>1. row.category = product[p].category /\ row.active = product[p].active
          BY <2>1 DEF Row
        <5>2. product' = [product EXCEPT ![p] = row]
          BY <1>2, <2>1, <3>3, <4>1 DEF AddStock
        <5> QED
          BY <5>1, <5>2
      <4>2. CASE ~(s \in 0..MaxStock)
        <5>1. product' = [product EXCEPT ![p] = product[p]]
          BY <1>2, <3>3, <4>2 DEF AddStock
        <5> QED
          BY <5>1
      <4> QED
        BY <4>1, <4>2
    <3> QED
      BY <1>5, <3>1, <3>2, <3>3
  <2>3. UNCHANGED categories
    BY <1>5 DEF SoftDelete, SetImage, AddStock
  <2> QED
    BY <1>2, <2>1, <2>2, <2>3 DEF TableChange
<1> QED
  BY <1>1, <1>3, <1>4, <1>5

\* No update, stock adjustment or image upload that read a product before its
\* soft delete brings it back; only an update saying is_active does.
THEOREM DeletedStay == Spec => DeletedStaysDeleted
<1>1. ASSUME Inv, Next, NEW p \in Product,
             Exists(p), ~product[p].active, product'[p].active
      PROVE  \E r \in Request : /\ At(r, "updateProduct", "write")
                                /\ frame[r].key = p
                                /\ frame[r].arg.active = TRUE
                                /\ frame'[r] # frame[r]
  <2>1. product' # product
    BY <1>1
  <2>2. PICK r \in Request : TableChange(r)
    BY <1>1, <2>1, TableStep
  <2>3. frame[r].key = p
    BY <1>1, <2>2 DEF TableChange
  <2>4. /\ At(r, "updateProduct", "write") /\ frame'[r].pc = "delDetail"
        /\ product'[p] = Patched(product[p], frame[r].arg)
    BY <1>1, <2>2, <2>3 DEF TableChange
  <2>5. product[p] \in Row /\ frame[r].arg.active \in BOOLEAN \cup {Nil}
    BY <1>1, InvParts DEF FramesOK, Exists, Frame, Arg
  <2>6. frame[r].arg.active = TRUE
    BY <1>1, <2>4, <2>5 DEF Patched, Row
  <2> QED
    BY <2>3, <2>4, <2>6 DEF At
<1>2. Inv /\ [Next]_vars =>
        [\A p \in Product :
           Exists(p) /\ ~product[p].active /\ product'[p].active =>
             \E r \in Request : /\ At(r, "updateProduct", "write")
                                /\ frame[r].key = p
                                /\ frame[r].arg.active = TRUE
                                /\ frame'[r] # frame[r]]_vars
  BY <1>1
<1> QED
  BY <1>2, InvAlways, PTL DEF Spec, DeletedStaysDeleted

\* The foreign key, not the lookup, keeps every row's category in the table.
THEOREM NoDangling == Spec => []NoDanglingCategory
<1>1. Init => NoDanglingCategory
  BY DEF Init, NoDanglingCategory, Exists, Row
<1>2. Inv /\ NoDanglingCategory /\ [Next]_vars => NoDanglingCategory'
  <2> SUFFICES ASSUME Inv, NoDanglingCategory, [Next]_vars,
                      NEW p \in Product, Exists(p)'
               PROVE  product'[p].category \in categories'
    BY DEF NoDanglingCategory
  <2>1. CASE UNCHANGED product
    <3>1. product[p].category \in categories
      BY <2>1 DEF NoDanglingCategory, Exists
    <3>2. CASE UNCHANGED categories
      BY <2>1, <3>1, <3>2
    <3>3. ASSUME NEW c \in Category, DeleteCategory(c)
          PROVE  product'[p].category \in categories'
      BY <2>1, <3>1, <3>3 DEF DeleteCategory, Exists
    <3>4. UNCHANGED categories \/ \E c \in Category : DeleteCategory(c)
      BY DEF Next, Arrival, CreateProduct, UpdateProduct, DeleteProduct,
             UploadImage, UpdateStock, GetProduct, ListProducts, Arrive, Advance,
             InsertRow, FindCategory, UpdateRow, SoftDelete, SetImage, AddStock,
             ReadBack, DelDetail, Scan, Del, Audit, ReadProduct, ReadPage,
             CountRows, Fill, Failure, Abort, FailPattern, AuditFails, Expire, vars
    <3> QED
      BY <3>2, <3>3, <3>4
  <2>2. CASE product' # product
    <3>1. Next
      BY <2>2 DEF vars
    <3>2. PICK r \in Request : TableChange(r)
      BY <2>2, <3>1, TableStep
    <3>3. CASE p # frame[r].key
      BY <3>2, <3>3 DEF TableChange, NoDanglingCategory, Exists
    <3>4. CASE p = frame[r].key /\ Exists(p)
      <4>1. product[p] \in Row /\ product[p].category \in categories
        BY <3>4, InvParts DEF NoDanglingCategory, Exists
      <4> QED
        BY <3>2, <3>4, <4>1 DEF TableChange, Patched, Row
    <3>5. CASE p = frame[r].key /\ ~Exists(p)
      BY <3>2, <3>5 DEF TableChange
    <3> QED
      BY <3>3, <3>4, <3>5
  <2> QED
    BY <2>1, <2>2
<1> QED
  BY <1>1, <1>2, InvAlways, PTL DEF Spec

----------------------------------------------------------------------------
(* The accounts of the cache: the writers of products forget no key, but   *)
(* the category list a row was moved out of behind a writer's back.  The   *)
(* argument is one invariant over the keys: a write puts the keys whose    *)
(* value it changes in what its frame owes, and a step takes a key out of  *)
(* what it owes only by deleting it, by finding it absent, or by failing.  *)

\* Owed, with the table as a parameter.
OwedIn(f, t) ==
  CASE f.pc = "readBack"  -> {f.key, All, t[f.key].category}
    [] f.pc = "delDetail" -> {f.key} \cup f.scan \cup f.later
    [] f.pc \in {"lists", "drain"} -> f.scan \cup f.del \cup f.later
    [] OTHER -> {}

CoherentAt(k) ==
  \/ Fresh(k)
  \/ k \in excused \cup misfiled
  \/ \E r \in Request : k \in OwedIn(frame[r], product)

Coherent == \A k \in Key : CoherentAt(k)

LEMMA CoherentMeaning ==
  ASSUME Inv, Coherent
  PROVE  DetailAccounted /\ AllListAccounted /\ CategoryListAccounted
<1>1. \A f : Owed(f) = OwedIn(f, product)
  BY DEF Owed, OwedIn
<1>2. misfiled \subseteq Category
  BY InvParts
<1> QED
  BY <1>1, <1>2, KeysAssumption
     DEF Coherent, CoherentAt, Accounted, Key, DetailAccounted,
         AllListAccounted, CategoryListAccounted

\* Nothing is owed before the write and after the last deletion.
LEMMA OwedNothing ==
  ASSUME NEW f, NEW t, f.pc \notin {"readBack", "delDetail", "lists", "drain"}
  PROVE  OwedIn(f, t) = {}
BY DEF OwedIn

LEMMA OwedFree == ASSUME NEW t PROVE OwedIn(Free, t) = {}
BY DEF OwedIn, Free

\* The value of a key follows the table.
LEMMA ViewStable ==
  ASSUME UNCHANGED product, NEW k
  PROVE  View(k)' = View(k)
BY DEF View, Page, Listed, Exists

\* Settling drops nothing that is still owed.
LEMMA OwedSettled ==
  ASSUME NEW f \in Frame, NEW t, f.pc \in {"lists", "drain"},
         f.pc = "drain" => f.later = {}
  PROVE  OwedIn(Settled(f), t) = f.scan \cup f.del \cup f.later
<1>1. CASE f.scan \cup f.del # {}
  BY <1>1 DEF Settled, OwedIn
<1>2. CASE f.scan \cup f.del = {} /\ f.pc = "drain"
  BY <1>2, OwedFree DEF Settled
<1>3. CASE f.scan \cup f.del = {} /\ f.pc = "lists" /\ f.later # {}
  <2> DEFINE g == [f EXCEPT !.scan = f.later, !.later = {}]
  <2>1. g.pc = "lists" /\ g.scan = f.later /\ g.del = {} /\ g.later = {}
    BY <1>3 DEF Frame
  <2>2. Settled(f) = g
    BY <1>3 DEF Settled
  <2> HIDE DEF g
  <2> QED
    BY <1>3, <2>1, <2>2 DEF OwedIn
<1>4. CASE f.scan \cup f.del = {} /\ f.pc = "lists" /\ f.later = {}
  <2> DEFINE g == [f EXCEPT !.pc = "audit"]
  <2>1. g.pc = "audit" /\ Settled(f) = g
    BY <1>4 DEF Settled, Frame
  <2> HIDE DEF g
  <2> QED
    BY <1>4, <2>1 DEF OwedIn
<1> QED
  BY <1>1, <1>2, <1>3, <1>4

----------------------------------------------------------------------------
(* The three ways a step can touch what is accounted for.                  *)

\* A frame moves on; what it owes no more is absent or excused.
LEMMA FrameCoherent ==
  ASSUME Inv, Coherent, NEW r \in Request, NEW g \in Frame,
         frame' = [frame EXCEPT ![r] = g], UNCHANGED <<product, cache>>,
         excused \subseteq excused', misfiled \subseteq misfiled',
         \A k \in OwedIn(frame[r], product) :
            k \in OwedIn(g, product) \/ Fresh(k) \/ k \in excused'
  PROVE  Coherent'
<1> SUFFICES ASSUME NEW k \in Key PROVE CoherentAt(k)'
  BY DEF Coherent
<1>1. View(k)' = View(k)
  BY ViewStable
<1>2. frame \in [Request -> Frame]
  BY InvParts DEF FramesOK
<1>3. CASE Fresh(k)
  BY <1>1, <1>3 DEF Fresh, CoherentAt
<1>4. CASE k \in excused \cup misfiled
  BY <1>4 DEF CoherentAt
<1>5. ASSUME NEW q \in Request, k \in OwedIn(frame[q], product)
      PROVE  CoherentAt(k)'
  <2>1. CASE q = r /\ Fresh(k)
    BY <1>1, <2>1 DEF Fresh, CoherentAt
  <2>2. CASE q = r /\ k \in excused'
    BY <2>2 DEF CoherentAt
  <2>3. CASE q = r /\ k \in OwedIn(g, product)
    BY <1>2, <2>3 DEF CoherentAt
  <2>4. CASE q # r
    BY <1>2, <1>5, <2>4 DEF CoherentAt
  <2> QED
    BY <1>5, <2>1, <2>2, <2>3, <2>4
<1> QED
  BY <1>3, <1>4, <1>5 DEF Coherent, CoherentAt

\* Key k is set to v, and the frame of r owes at most k less.
LEMMA CacheCoherent ==
  ASSUME Inv, Coherent, NEW k \in Key, NEW v \in Row \cup Listing \cup {Nil},
         cache' = [cache EXCEPT ![k] = v], UNCHANGED product,
         v \in {Nil, View(k)} \/ k \in excused',
         excused \ {k} \subseteq excused', misfiled \ {k} \subseteq misfiled',
         \A q \in Request :
            OwedIn(frame[q], product) \subseteq OwedIn(frame'[q], product) \cup {k}
  PROVE  Coherent'
<1> SUFFICES ASSUME NEW j \in Key PROVE CoherentAt(j)'
  BY DEF Coherent
<1>1. \A i \in Key : View(i)' = View(i)
  BY ViewStable
<1>2. cache \in [Key -> Row \cup Listing \cup {Nil}]
  BY InvParts
<1>3. CASE j = k
  BY <1>1, <1>2, <1>3 DEF CoherentAt, Fresh
<1>4. CASE j # k
  <2>1. CASE Fresh(j)
    BY <1>1, <1>2, <1>4, <2>1 DEF CoherentAt, Fresh
  <2>2. CASE j \in excused \cup misfiled
    BY <1>4, <2>2 DEF CoherentAt
  <2>3. ASSUME NEW q \in Request, j \in OwedIn(frame[q], product)
        PROVE  CoherentAt(j)'
    BY <1>4, <2>3 DEF CoherentAt
  <2> QED
    BY <2>1, <2>2, <2>3 DEF Coherent, CoherentAt
<1> QED
  BY <1>3, <1>4

\* A row changes: only its detail, the list of all products and the lists of
\* its old and new category do.
LEMMA ViewLocal ==
  ASSUME Inv, NEW p \in Product, NEW row \in Row,
         product' = [product EXCEPT ![p] = row],
         NEW k \in Key, k # p, k # All, k # row.category,
         Exists(p) => k # product[p].category
  PROVE  View(k)' = View(k)
<1>1. product \in [Product -> Row \cup {Nil}]
  BY InvParts
<1>2. \A q \in Product : q # p => product'[q] = product[q]
  BY <1>1
<1>3. product'[p] = row
  BY <1>1
<1>4. CASE k \in Product
  BY <1>2, <1>4 DEF View
<1>5. CASE k \notin Product
  <2>1. Listed(k)' = Listed(k)
    BY <1>2, <1>3 DEF Listed, Exists
  <2>2. p \notin Listed(k)
    BY DEF Listed
  <2>3. Page(k)' = Page(k)
    BY <1>2, <2>1, <2>2 DEF Page
  <2> QED
    BY <1>5, <2>1, <2>3 DEF View
<1> QED
  BY <1>4, <1>5

\* The keys nothing is cached under.
Absent == {k \in Key : cache[k] = Nil}

LEMMA RowCoherent ==
  ASSUME Inv, Coherent, NEW r \in Request, NEW g \in Frame,
         NEW p \in Product, NEW row \in Row,
         product' = [product EXCEPT ![p] = row],
         frame' = [frame EXCEPT ![r] = g],
         UNCHANGED <<cache, excused>>, misfiled \subseteq misfiled',
         OwedIn(frame[r], product) = {},
         All \in OwedIn(g, product'),
         row.category \in OwedIn(g, product') \cup misfiled' \cup Absent,
         Exists(p) => /\ p \in OwedIn(g, product')
                      /\ product[p].category \in
                             OwedIn(g, product') \cup misfiled' \cup Absent
  PROVE  Coherent'
<1> SUFFICES ASSUME NEW k \in Key PROVE CoherentAt(k)'
  BY DEF Coherent
<1>1. /\ frame \in [Request -> Frame] /\ product \in [Product -> Row \cup {Nil}]
      /\ \A q \in Request : FrameOK(frame[q], Present)
  BY InvParts DEF FramesOK
<1>2. CASE k \in OwedIn(g, product')
  BY <1>1, <1>2 DEF CoherentAt
<1>3. CASE k \in misfiled'
  BY <1>3 DEF CoherentAt
<1>4. CASE k = p /\ ~Exists(p)
  <2>1. cache[k] = Nil
    BY <1>4, InvParts DEF CachedExist, Present
  <2> QED
    BY <2>1 DEF CoherentAt, Fresh
<1>6. CASE k \in Absent
  BY <1>6 DEF Absent, CoherentAt, Fresh
<1>5. CASE /\ k # p /\ k # All /\ k # row.category
           /\ Exists(p) => k # product[p].category
  <2>1. View(k)' = View(k)
    BY <1>5, ViewLocal
  <2>2. CASE Fresh(k)
    BY <2>1, <2>2 DEF CoherentAt, Fresh
  <2>3. CASE k \in excused \cup misfiled
    BY <2>3 DEF CoherentAt
  <2>4. ASSUME NEW q \in Request, k \in OwedIn(frame[q], product)
        PROVE  CoherentAt(k)'
    <3>1. q # r /\ frame'[q] = frame[q]
      BY <1>1, <2>4
    <3>2. CASE frame[q].pc = "readBack"
      <4>1. /\ frame[q].key \in Product /\ Exists(frame[q].key)
            /\ k \in {frame[q].key, product[frame[q].key].category}
        BY <1>1, <1>5, <2>4, <3>2 DEF FrameOK, OwedIn, Present
      <4>2. k \in {frame[q].key, product'[frame[q].key].category}
        BY <1>1, <1>5, <4>1
      <4> QED
        BY <3>1, <3>2, <4>2 DEF CoherentAt, OwedIn
    <3>3. CASE frame[q].pc # "readBack"
      <4>1. OwedIn(frame[q], product') = OwedIn(frame[q], product)
        BY <3>3 DEF OwedIn
      <4> QED
        BY <2>4, <3>1, <4>1 DEF CoherentAt
    <3> QED
      BY <3>2, <3>3
  <2> QED
    BY <2>2, <2>3, <2>4 DEF Coherent, CoherentAt
<1> QED
  BY <1>2, <1>3, <1>4, <1>5, <1>6

----------------------------------------------------------------------------
(* Action by action.                                                       *)

\* Steps before the write and after the last deletion owe nothing.
LEMMA QuietCoherent ==
  ASSUME Inv, Inv', Coherent, NEW r \in Request,
         \/ Arrival(r) \/ FindCategory(r) \/ ReadProduct(r) \/ ReadPage(r)
         \/ CountRows(r) \/ Audit(r) \/ AuditFails(r)
  PROVE  Coherent'
<1>1. /\ OwedIn(frame[r], product) = {}
      /\ frame' = [frame EXCEPT ![r] = frame'[r]]
      /\ frame'[r] \in Frame
  <2>0. frame'[r] \in Frame
    BY DEF Inv, TypeOK
  <2>1. frame \in [Request -> Frame]
    BY InvParts DEF FramesOK
  <2>2. CASE Arrival(r)
    BY <2>0, <2>1, <2>2, OwedFree
       DEF Arrival, CreateProduct, UpdateProduct, DeleteProduct, UploadImage,
           UpdateStock, GetProduct, ListProducts, Arrive
  <2>3. CASE FindCategory(r) \/ ReadProduct(r) \/ ReadPage(r) \/ CountRows(r)
    BY <2>0, <2>1, <2>3, OwedNothing
       DEF FindCategory, ReadProduct, ReadPage, CountRows, At, Leave
  <2>4. CASE Audit(r) \/ AuditFails(r)
    BY <2>0, <2>1, <2>4, OwedNothing DEF Audit, AuditFails, Leave
  <2> QED
    BY <2>0, <2>2, <2>3, <2>4
<1>2. UNCHANGED <<product, cache, excused, misfiled>>
  BY DEF Arrival, CreateProduct, UpdateProduct, DeleteProduct, UploadImage,
         UpdateStock, GetProduct, ListProducts, Arrive, FindCategory,
         ReadProduct, ReadPage, CountRows, Audit, AuditFails
<1> QED
  BY <1>1, <1>2, FrameCoherent

\* What a writer owes right after its write.
LEMMA OwedWritten ==
  ASSUME NEW f \in Frame, NEW t, NEW lists, NEW moved, NEW pc
  PROVE  /\ pc = "delDetail" =>
              OwedIn(Written(f, pc, lists, moved), t) = {f.key} \cup lists \cup moved
         /\ pc = "lists" =>
              OwedIn(Written(f, pc, lists, moved), t) = lists \cup f.del \cup moved
         /\ pc = "readBack" =>
              OwedIn(Written(f, pc, lists, moved), t) = {f.key, All, t[f.key].category}
<1> DEFINE a == [NoArg EXCEPT !.delta = f.arg.delta]
           o == IF f.op = "updateStock" THEN f.old ELSE Nil
           g == [f EXCEPT !.pc = pc, !.scan = lists, !.later = moved,
                          !.arg = a, !.old = o]
<1>1. /\ g.key = f.key /\ g.pc = pc /\ g.scan = lists /\ g.later = moved
      /\ g.del = f.del
  <2> HIDE DEF a, o
  <2> QED
    BY DEF Frame
<1>2. Written(f, pc, lists, moved) = g
  BY DEF Written
<1> HIDE DEF g
<1> QED
  BY <1>1, <1>2 DEF OwedIn

\* A writer about to write: its row, and the category it read.
LEMMA AboutToWrite ==
  ASSUME Inv, NEW r \in Request,
         UpdateRow(r) \/ SoftDelete(r) \/ SetImage(r) \/ AddStock(r)
  PROVE  /\ frame[r] \in Frame /\ frame[r].key \in Product
         /\ Exists(frame[r].key) /\ product[frame[r].key] \in Row
         /\ frame[r].old \in Row
         /\ OwedIn(frame[r], product) = {}
         /\ product \in [Product -> Row \cup {Nil}]
         /\ SetImage(r) => frame[r].arg.content \in Content
<1>1. /\ frame[r] \in Frame /\ FrameOK(frame[r], Present)
      /\ product \in [Product -> Row \cup {Nil}]
  BY InvParts DEF FramesOK
<1>2. frame[r].pc = "write" /\ frame[r].op # "createProduct"
  BY DEF UpdateRow, SoftDelete, SetImage, AddStock, At
<1>3. SetImage(r) => frame[r].op = "uploadProductImage"
  BY DEF SetImage, At
<1> QED
  BY <1>1, <1>2, <1>3, OwedNothing DEF FrameOK, Present, Exists

\* The three writers that name the list by the category they read: it is
\* dropped, or the list the row is in is marked as missed.
LEMMA PatchCoherent ==
  ASSUME Inv, Inv', Coherent, NEW r \in Request, NEW row \in Row,
         UpdateRow(r) \/ SoftDelete(r) \/ SetImage(r),
         product' = [product EXCEPT ![frame[r].key] = row],
         NEW moved \in SUBSET ListKey,
         frame' = [frame EXCEPT ![r] =
                     Written(frame[r], "delDetail", {frame[r].old.category, All}, moved)],
         Misfile(frame[r]), UNCHANGED <<cache, excused>>,
         \/ row.category \in {frame[r].old.category} \cup moved
         \/ row.category = product[frame[r].key].category
  PROVE  Coherent'
<1> DEFINE f == frame[r]
           g == Written(f, "delDetail", {f.old.category, All}, moved)
           p == f.key
<1>1. /\ f \in Frame /\ p \in Product /\ Exists(p) /\ product[p] \in Row
      /\ OwedIn(f, product) = {}
      /\ product \in [Product -> Row \cup {Nil}]
      /\ f.old \in Row
  BY AboutToWrite
<1>2. OwedIn(g, product') = {p, f.old.category, All} \cup moved
  BY <1>1, OwedWritten
<1>3. /\ misfiled' = misfiled \cup {c \in {product[p].category} \ {f.old.category} :
                                    cache[c] # Nil}
      /\ frame' = [frame EXCEPT ![r] = g]
      /\ product' = [product EXCEPT ![p] = row]
  BY DEF Misfile
<1>4. /\ All \in OwedIn(g, product') /\ p \in OwedIn(g, product')
      /\ product[p].category \in OwedIn(g, product') \cup misfiled' \cup Absent
      /\ row.category \in OwedIn(g, product') \cup misfiled' \cup Absent
      /\ misfiled \subseteq misfiled'
  <2> HIDE DEF g, p, f
  <2> QED
    BY <1>2, <1>3, <1>1, InvParts DEF f, p, Row, Absent, Key
<1>5. OwedIn(frame[r], product) = {} /\ UNCHANGED <<cache, excused>>
  BY <1>1
<1>6. /\ p \in Product /\ Exists(p) /\ row \in Row /\ r \in Request
      /\ Inv /\ Coherent /\ g \in Frame
  <2>1. frame' \in [Request -> Frame] /\ frame \in [Request -> Frame]
    BY DEF Inv, TypeOK
  <2> HIDE DEF g
  <2> QED
    BY <1>1, <1>3, <2>1
<1>7. PICK pp \in Product, gg \in Frame : pp = p /\ gg = g
  BY <1>6
<1>8. /\ product' = [product EXCEPT ![pp] = row]
      /\ frame' = [frame EXCEPT ![r] = gg]
  BY <1>3, <1>7
<1>9. /\ All \in OwedIn(gg, product')
      /\ row.category \in OwedIn(gg, product') \cup misfiled' \cup Absent
      /\ Exists(pp) => /\ pp \in OwedIn(gg, product')
                       /\ product[pp].category \in
                            OwedIn(gg, product') \cup misfiled' \cup Absent
      /\ misfiled \subseteq misfiled'
  <2> HIDE DEF g, p, f
  <2> QED
    BY <1>4, <1>7
<1> HIDE DEF g, p, f
<1> QED
  BY ONLY <1>8, <1>9, <1>5, <1>6, RowCoherent

LEMMA RefusedCoherent ==
  ASSUME Inv, Coherent, NEW r \in Request, Leave(r),
         Stale(OwedIn(frame[r], product)) \subseteq excused',
         UNCHANGED <<product, cache, misfiled>>, excused \subseteq excused'
  PROVE  Coherent'
BY FreeFrame, FrameCoherent, InvParts DEF Leave, Stale

LEMMA PatchesCoherent ==
  ASSUME Inv, Inv', Coherent, NEW r \in Request,
         UpdateRow(r) \/ SoftDelete(r) \/ SetImage(r)
  PROVE  Coherent'
<1> DEFINE f == frame[r]
<1>1. /\ f \in Frame /\ f.key \in Product /\ product[f.key] \in Row
      /\ f.old \in Row /\ OwedIn(f, product) = {}
      /\ product \in [Product -> Row \cup {Nil}]
      /\ SetImage(r) => f.arg.content \in Content
  BY AboutToWrite
<1>2. CASE UpdateRow(r) /\ f.arg.category \in categories \cup {Nil}
  <2> DEFINE row == Patched(product[f.key], f.arg)
  <2>1. row \in Row
    BY <1>1 DEF Patched, Row, Frame, Arg
  <2>2. \/ row.category \in {f.old.category} \cup Moved(f)
        \/ row.category = product[f.key].category
    BY <1>1 DEF Patched, Moved, Row
  <2>3. Moved(f) \in SUBSET ListKey
    BY <1>1 DEF Moved, Frame, Arg, ListKey
  <2>4. /\ product' = [product EXCEPT ![f.key] = row]
        /\ Misfile(f) /\ UNCHANGED <<cache, excused>>
        /\ frame' = [frame EXCEPT ![r] =
                       Written(f, "delDetail", {f.old.category, All}, Moved(f))]
    BY <1>1, <1>2 DEF UpdateRow
  <2> HIDE DEF row
  <2> QED
    BY <2>1, <2>2, <2>3, <2>4, PatchCoherent
<1>3. CASE UpdateRow(r) /\ ~(f.arg.category \in categories \cup {Nil})
  BY <1>1, <1>3, RefusedCoherent DEF UpdateRow, Stale
<1>4. CASE SoftDelete(r)
  <2> DEFINE row == [product[f.key] EXCEPT !.active = FALSE]
  <2>1. row \in Row /\ row.category = product[f.key].category
    BY <1>1 DEF Row
  <2>2. /\ product' = [product EXCEPT ![f.key] = row]
        /\ Misfile(f) /\ UNCHANGED <<cache, excused>>
        /\ frame' = [frame EXCEPT ![r] =
                       Written(f, "delDetail", {f.old.category, All}, {})]
    BY <1>1, <1>4 DEF SoftDelete
  <2>3. PICK moved \in SUBSET ListKey : moved = {}
    OBVIOUS
  <2>4. frame' = [frame EXCEPT ![r] =
                    Written(f, "delDetail", {f.old.category, All}, moved)]
    BY <2>2, <2>3
  <2> HIDE DEF row
  <2> QED
    BY <2>1, <2>2, <2>4, PatchCoherent
<1>5. CASE SetImage(r)
  <2> DEFINE row == [product[f.key] EXCEPT !.content = f.arg.content]
  <2>1. row \in Row /\ row.category = product[f.key].category
    BY <1>1, <1>5 DEF Row
  <2>2. /\ product' = [product EXCEPT ![f.key] = row]
        /\ Misfile(f) /\ UNCHANGED <<cache, excused>>
        /\ frame' = [frame EXCEPT ![r] =
                       Written(f, "delDetail", {f.old.category, All}, {})]
    BY <1>1, <1>5 DEF SetImage
  <2>3. PICK moved \in SUBSET ListKey : moved = {}
    OBVIOUS
  <2>4. frame' = [frame EXCEPT ![r] =
                    Written(f, "delDetail", {f.old.category, All}, moved)]
    BY <2>2, <2>3
  <2> HIDE DEF row
  <2> QED
    BY <2>1, <2>2, <2>4, PatchCoherent
<1> QED
  BY <1>2, <1>3, <1>4, <1>5

\* A stock adjustment owes the list of the category the row is in, read back
\* after the UPDATE.
LEMMA StockCoherent ==
  ASSUME Inv, Inv', Coherent, NEW r \in Request, AddStock(r)
  PROVE  Coherent'
<1> DEFINE f == frame[r]
           s == product[f.key].stock + f.arg.delta
           row == [product[f.key] EXCEPT !.stock = s]
           g == Written(f, "readBack", {}, {})
<1>1. /\ f \in Frame /\ f.key \in Product /\ Exists(f.key)
      /\ product[f.key] \in Row /\ OwedIn(f, product) = {}
      /\ product \in [Product -> Row \cup {Nil}]
  BY AboutToWrite
<1>2. CASE s \in 0..MaxStock
  <2>1. row \in Row /\ row.category = product[f.key].category
    BY <1>1, <1>2 DEF Row
  <2>2. /\ product' = [product EXCEPT ![f.key] = row]
        /\ frame' = [frame EXCEPT ![r] = g]
        /\ UNCHANGED <<cache, excused, misfiled>>
    BY <1>1, <1>2 DEF AddStock
  <2>3. g \in Frame
    <3> HIDE DEF g
    <3> QED
      BY <2>2 DEF Inv, TypeOK
  <2>4. product'[f.key].category = product[f.key].category
    <3> HIDE DEF row
    <3> QED
      BY <1>1, <2>1, <2>2
  <2>5. OwedIn(g, product') = {f.key, All, product[f.key].category}
    BY <1>1, <2>4, OwedWritten
  <2>6. PICK pp \in Product, gg \in Frame, rr \in Row :
          pp = f.key /\ gg = g /\ rr = row
    BY <1>1, <2>1, <2>3
  <2>7. /\ product' = [product EXCEPT ![pp] = rr]
        /\ frame' = [frame EXCEPT ![r] = gg]
        /\ All \in OwedIn(gg, product')
        /\ rr.category \in OwedIn(gg, product') \cup misfiled' \cup Absent
        /\ Exists(pp) => /\ pp \in OwedIn(gg, product')
                         /\ product[pp].category \in
                              OwedIn(gg, product') \cup misfiled' \cup Absent
        /\ misfiled \subseteq misfiled' /\ UNCHANGED <<cache, excused>>
    <3> HIDE DEF g, row
    <3> QED
      BY <2>1, <2>2, <2>5, <2>6
  <2>8. OwedIn(frame[r], product) = {} /\ r \in Request /\ Inv /\ Coherent
    BY <1>1
  <2> QED
    BY ONLY <2>7, <2>8, RowCoherent
<1>3. CASE ~(s \in 0..MaxStock)
  BY <1>1, <1>3, RefusedCoherent DEF AddStock, Stale
<1> QED
  BY <1>2, <1>3

\* A new row has no cached detail, and its writer owes the two lists it is in.
LEMMA InsertCoherent ==
  ASSUME Inv, Inv', Coherent, NEW r \in Request, InsertRow(r)
  PROVE  Coherent'
<1> DEFINE f == frame[r]
           row == [category |-> f.arg.category, active |-> TRUE,
                   stock |-> f.arg.delta, content |-> f.arg.content]
           g == Written(f, "lists", {f.arg.category, All}, {})
<1>1. /\ f \in Frame /\ FrameOK(f, Present) /\ At(r, "createProduct", "write")
      /\ product \in [Product -> Row \cup {Nil}] /\ Reserved
  BY InvParts DEF FramesOK, InsertRow
<1>2. /\ f.key \in Product /\ ~Exists(f.key) /\ row \in Row
      /\ row.category = f.arg.category
      /\ OwedIn(f, product) = {}
  BY <1>1, OwedNothing DEF FrameOK, At, Reserved, Present, Row
<1>3. CASE f.arg.category \in categories
  <2>1. /\ product' = [product EXCEPT ![f.key] = row]
        /\ frame' = [frame EXCEPT ![r] = g]
        /\ UNCHANGED <<cache, excused, misfiled>>
    BY <1>3 DEF InsertRow
  <2>2. g \in Frame
    <3> HIDE DEF g
    <3> QED
      BY <2>1 DEF Inv, TypeOK
  <2>3. {f.arg.category, All} \subseteq OwedIn(g, product')
    BY <1>1, OwedWritten
  <2>4. PICK pp \in Product, gg \in Frame, rr \in Row :
          pp = f.key /\ gg = g /\ rr = row
    BY <1>2, <2>2
  <2>5. /\ product' = [product EXCEPT ![pp] = rr]
        /\ frame' = [frame EXCEPT ![r] = gg]
        /\ All \in OwedIn(gg, product')
        /\ rr.category \in OwedIn(gg, product') \cup misfiled' \cup Absent
        /\ ~Exists(pp)
        /\ misfiled \subseteq misfiled' /\ UNCHANGED <<cache, excused>>
    <3> HIDE DEF g, row
    <3> QED
      BY <1>2, <2>1, <2>3, <2>4
  <2>6. OwedIn(frame[r], product) = {} /\ r \in Request /\ Inv /\ Coherent
    BY <1>2
  <2> QED
    BY ONLY <2>5, <2>6, RowCoherent
<1>4. CASE f.arg.category \notin categories
  BY <1>2, <1>4, RefusedCoherent DEF InsertRow, Stale
<1> QED
  BY <1>3, <1>4

\* The tail: what a frame owes goes to its next stage, or is deleted.
LEMMA TailCoherent ==
  ASSUME Inv, Inv', Coherent, NEW r \in Request,
         \/ ReadBack(r) \/ DelDetail(r) \/ Fill(r)
         \/ \E k \in ListKey : Scan(r, k) \/ Del(r, k) \/ FailPattern(r, k)
  PROVE  Coherent'
<1> DEFINE f == frame[r]
<1>1. /\ frame \in [Request -> Frame] /\ f \in Frame /\ FrameOK(f, Present)
      /\ frame' \in [Request -> Frame] /\ ListKey \subseteq Key
      /\ \A q \in Request : frame'[q] \in Frame
  BY InvParts DEF Inv, TypeOK, Key, ListKey
<1>2. CASE ReadBack(r)
  <2> DEFINE g == [f EXCEPT !.pc = "delDetail", !.val = product[f.key],
                            !.scan = {product[f.key].category, All}]
  <2>1. frame' = [frame EXCEPT ![r] = g] /\ UNCHANGED <<product, cache, excused, misfiled>>
    BY <1>2 DEF ReadBack
  <2>2. /\ f.pc = "readBack"
        /\ g.pc = "delDetail" /\ g.key = f.key
        /\ g.scan = {product[f.key].category, All}
    BY <1>1, <1>2 DEF ReadBack, At, Frame
  <2> HIDE DEF g
  <2>3. OwedIn(f, product) \subseteq OwedIn(g, product) /\ g \in Frame
    BY <1>1, <2>1, <2>2 DEF OwedIn
  <2> QED
    BY <2>1, <2>3, FrameCoherent
<1>3. CASE DelDetail(r)
  <2> DEFINE g == [f EXCEPT !.pc = "lists"]
  <2>1. /\ frame' = [frame EXCEPT ![r] = g] /\ UNCHANGED product
        /\ cache' = [cache EXCEPT ![f.key] = Nil]
        /\ excused \ {f.key} \subseteq excused'
        /\ misfiled \ {f.key} \subseteq misfiled'
    BY <1>3 DEF DelDetail, Drop
  <2>2. /\ f.pc = "delDetail" /\ f.key \in Key
        /\ g.pc = "lists" /\ g.scan = f.scan /\ g.later = f.later
    BY <1>1, <1>3 DEF DelDetail, Frame, FrameOK, Present, Key
  <2> HIDE DEF g
  <2>3. OwedIn(f, product) \subseteq OwedIn(g, product) \cup {f.key}
    BY <2>2 DEF OwedIn
  <2>4. \A q \in Request :
          OwedIn(frame[q], product) \subseteq OwedIn(frame'[q], product) \cup {f.key}
    BY <1>1, <2>1, <2>3
  <2> QED
    BY <2>1, <2>2, <2>4, CacheCoherent
<1>4. CASE Fill(r)
  <2>1. /\ f.key \in Key /\ f.val \in Row \cup Listing
        /\ OwedIn(f, product) = {}
    BY <1>1, <1>4, OwedNothing DEF FrameOK, Fill, Present, Key, ListKey
  <2>2. /\ cache' = [cache EXCEPT ![f.key] = f.val] /\ UNCHANGED product
        /\ f.val \in {Nil, View(f.key)} \/ f.key \in excused'
        /\ excused \ {f.key} \subseteq excused'
        /\ misfiled \ {f.key} \subseteq misfiled'
    BY <1>4 DEF Fill
  <2>3. \A q \in Request :
          OwedIn(frame[q], product) \subseteq OwedIn(frame'[q], product) \cup {f.key}
    BY <1>1, <1>4, <2>1 DEF Fill, Leave
  <2> QED
    BY <2>1, <2>2, <2>3, CacheCoherent
<1>5. ASSUME NEW k \in ListKey, Scan(r, k)
      PROVE  Coherent'
  <2> DEFINE h == [f EXCEPT !.scan = @ \ {k},
                            !.del = IF cache[k] = Nil THEN @ ELSE @ \cup {k}]
             g == Settled(h)
  <2>1. /\ h \in Frame /\ h.pc \in {"lists", "drain"}
        /\ h.pc = "drain" => h.later = {}
        /\ h.scan = f.scan \ {k} /\ h.later = f.later
        /\ f.del \subseteq h.del
        /\ cache[k] # Nil => k \in h.del
        /\ f.pc \in {"lists", "drain"}
    BY <1>1, <1>5 DEF Scan, Frame, FrameOK
  <2>2. frame' = [frame EXCEPT ![r] = g] /\ UNCHANGED <<product, cache, excused, misfiled>>
    BY <1>5 DEF Scan
  <2> HIDE DEF h
  <2>3. OwedIn(g, product) = h.scan \cup h.del \cup h.later
    BY <2>1, OwedSettled
  <2>4. OwedIn(f, product) = f.scan \cup f.del \cup f.later
    BY <2>1 DEF OwedIn
  <2> HIDE DEF g
  <2>5. /\ g \in Frame
        /\ \A j \in OwedIn(f, product) :
             j \in OwedIn(g, product) \/ Fresh(j) \/ j \in excused'
    BY <1>1, <2>1, <2>2, <2>3, <2>4 DEF Fresh
  <2> QED
    BY <2>2, <2>5, FrameCoherent
<1>6. ASSUME NEW k \in ListKey, Del(r, k)
      PROVE  Coherent'
  <2> DEFINE h == [f EXCEPT !.del = @ \ {k}]
             g == Settled(h)
  <2>1. /\ h \in Frame /\ h.pc \in {"lists", "drain"}
        /\ h.pc = "drain" => h.later = {}
        /\ h.scan = f.scan /\ h.later = f.later /\ h.del = f.del \ {k}
        /\ f.pc \in {"lists", "drain"}
    BY <1>1, <1>6 DEF Del, Frame, FrameOK
  <2>2. /\ frame' = [frame EXCEPT ![r] = g] /\ UNCHANGED product
        /\ cache' = [cache EXCEPT ![k] = Nil]
        /\ excused \ {k} \subseteq excused' /\ misfiled \ {k} \subseteq misfiled'
    BY <1>6 DEF Del, Drop
  <2> HIDE DEF h
  <2>3. OwedIn(g, product) = h.scan \cup h.del \cup h.later
    BY <2>1, OwedSettled
  <2>4. OwedIn(f, product) = f.scan \cup f.del \cup f.later
    BY <2>1 DEF OwedIn
  <2> HIDE DEF g
  <2>5. \A q \in Request :
          OwedIn(frame[q], product) \subseteq OwedIn(frame'[q], product) \cup {k}
    BY <1>1, <2>1, <2>2, <2>3, <2>4
  <2> QED
    BY <1>1, <2>2, <2>5, CacheCoherent
<1>7. ASSUME NEW k \in ListKey, FailPattern(r, k)
      PROVE  Coherent'
  <2> DEFINE h == [f EXCEPT !.pc = "drain", !.scan = @ \ {k},
                            !.del = @ \ {k}, !.later = {}]
             g == Settled(h)
  <2>1. /\ h \in Frame /\ h.pc \in {"lists", "drain"} /\ h.later = {}
        /\ h.scan = f.scan \ {k} /\ h.del = f.del \ {k}
        /\ f.pc \in {"lists", "drain"}
    BY <1>1, <1>7 DEF FailPattern, Frame, Pc
  <2>2. /\ frame' = [frame EXCEPT ![r] = g]
        /\ UNCHANGED <<product, cache, misfiled>>
        /\ excused' = excused \cup Stale({k} \cup f.later)
    BY <1>7 DEF FailPattern
  <2> HIDE DEF h
  <2>3. OwedIn(g, product) = h.scan \cup h.del \cup h.later
    BY <2>1, OwedSettled
  <2>4. OwedIn(f, product) = f.scan \cup f.del \cup f.later
    BY <2>1 DEF OwedIn
  <2> HIDE DEF g
  <2>5. g \in Frame
    BY <1>1, <2>2
  <2>6. \A j \in OwedIn(f, product) :
           j \in OwedIn(g, product) \/ Fresh(j) \/ j \in excused'
    <3> HIDE DEF f
    <3> QED
      BY ONLY <2>1, <2>2, <2>3, <2>4 DEF Stale
  <2>7. excused \subseteq excused'
    BY <2>2
  <2> QED
    BY <2>2, <2>5, <2>6, <2>7, FrameCoherent
<1> QED
  BY <1>2, <1>3, <1>4, <1>5, <1>6, <1>7

LEMMA AbortCoherent ==
  ASSUME Inv, Coherent, NEW r \in Request, Abort(r)
  PROVE  Coherent'
<1>1. Owed(frame[r]) = OwedIn(frame[r], product)
  BY DEF Owed, OwedIn
<1> QED
  BY <1>1, RefusedCoherent DEF Abort

LEMMA ExpireCoherent ==
  ASSUME Inv, Coherent, NEW k \in Key, Expire(k)
  PROVE  Coherent'
BY CacheCoherent DEF Expire, Drop

LEMMA DeleteCategoryCoherent ==
  ASSUME Inv, Coherent, NEW c \in Category, DeleteCategory(c)
  PROVE  Coherent'
<1>1. \A k : View(k)' = View(k)
  BY ViewStable DEF DeleteCategory
<1> QED
  BY <1>1 DEF DeleteCategory, Coherent, CoherentAt, Fresh

LEMMA NextCoherent == Inv /\ Inv' /\ Coherent /\ [Next]_vars => Coherent'
<1> SUFFICES ASSUME Inv, Inv', Coherent, [Next]_vars PROVE Coherent'
  OBVIOUS
<1>1. ASSUME NEW r \in Request, Advance(r) PROVE Coherent'
  BY <1>1, QuietCoherent, PatchesCoherent, StockCoherent, InsertCoherent,
     TailCoherent DEF Advance, ListKey
<1>2. ASSUME NEW r \in Request, Failure(r) PROVE Coherent'
  BY <1>2, QuietCoherent, TailCoherent, AbortCoherent DEF Failure, ListKey
<1>3. CASE UNCHANGED vars
  <2>1. \A k : View(k)' = View(k)
    BY <1>3, ViewStable DEF vars
  <2> QED
    BY <1>3, <2>1 DEF vars, Coherent, CoherentAt, Fresh
<1> QED
  BY <1>1, <1>2, <1>3, QuietCoherent, ExpireCoherent, DeleteCategoryCoherent
     DEF Next

\* Whatever requests interleave, fail or crash, every cached detail, list of
\* all products and category list that differs from the table is the work of
\* a racing fill or a cut-short writer, is about to be deleted, or (a category
\* list) was missed by a writer that had read an older category.
THEOREM CacheAccounted ==
  Spec => [](DetailAccounted /\ AllListAccounted /\ CategoryListAccounted)
<1>1. Init => Inv /\ Coherent
  <2>1. Init => Coherent
    BY DEF Init, Coherent, CoherentAt, Fresh
  <2> QED
    BY <2>1, InitInv
<1>2. Inv /\ Coherent /\ [Next]_vars => (Inv /\ Coherent)'
  BY NextInv, NextCoherent
<1>3. Inv /\ Coherent => DetailAccounted /\ AllListAccounted /\ CategoryListAccounted
  BY CoherentMeaning
<1> QED
  BY <1>1, <1>2, <1>3, PTL DEF Spec

\* One by one: a cached detail,
THEOREM DetailCoherent == Spec => []DetailAccounted
BY CacheAccounted, PTL

\* the list of all products,
THEOREM AllListCoherent == Spec => []AllListAccounted
BY CacheAccounted, PTL

\* and the list of a category.
THEOREM CategoryListCoherent == Spec => []CategoryListAccounted
BY CacheAccounted, PTL

----------------------------------------------------------------------------
(* Sums over finite sets.                                                  *)

First(s) == CHOOSE x \in s : TRUE

\* g adds up v over every subset of R.
Adds(g, v, R) ==
  g = [s \in SUBSET R |->
         IF s = {} THEN 0 ELSE v[First(s)] + g[s \ {First(s)}]]

LEMMA FirstIn == ASSUME NEW s, s # {} PROVE First(s) \in s
BY DEF First

\* The first number a set has is its least.
LEMMA LeastNumber ==
  ASSUME NEW B \in SUBSET Nat, B # {}
  PROVE  \E n \in B : \A m \in B : n <= m
<1> DEFINE Less == OpToRel(<, Nat)
<1>1. PICK n \in B : \A m \in B : <<m, n>> \notin Less
  BY NatLessThanWellFounded, WFMin
<1>2. \A m, k \in Nat : m < k => <<m, k>> \in Less
  BY DEF OpToRel
<1> HIDE DEF Less
<1>3. ASSUME NEW m \in B PROVE n <= m
  <2>1. m \in Nat /\ n \in Nat /\ ~(m < n)
    BY <1>1, <1>2
  <2> QED
    BY <2>1
<1> QED
  BY <1>3

\* Whatever fails of a subset of a finite set fails of a smallest one.
LEMMA SmallestSubset ==
  ASSUME NEW R, IsFiniteSet(R), NEW B \in SUBSET SUBSET R, B # {}
  PROVE  \E s \in B : \A x \in s : s \ {x} \notin B
<1>1. \A s \in SUBSET R : IsFiniteSet(s) /\ Cardinality(s) \in Nat
  BY FS_Subset, FS_CardinalityType
<1> DEFINE sizes == {Cardinality(s) : s \in B}
<1>2. PICK n \in sizes : \A m \in sizes : n <= m
  <2>1. sizes \in SUBSET Nat /\ sizes # {}
    BY <1>1
  <2> HIDE DEF sizes
  <2> QED
    BY <2>1, LeastNumber
<1>3. PICK s \in B : n = Cardinality(s)
  BY DEF sizes
<1>4. ASSUME NEW x \in s PROVE s \ {x} \notin B
  <2>1. s \ {x} \in SUBSET R /\ Cardinality(s \ {x}) = n - 1 /\ n \in Nat
    BY <1>1, <1>3, FS_RemoveElement
  <2>2. ~(n <= n - 1)
    BY <2>1
  <2> QED
    BY <1>2, <2>1, <2>2
<1> QED
  BY <1>4

LEMMA AddsExists ==
  ASSUME NEW R, IsFiniteSet(R), NEW v \in [R -> Int]
  PROVE  \E g \in [SUBSET R -> Int] : Adds(g, v, R)
<1> DEFINE Sum(g, s) == IF s = {} THEN 0 ELSE v[First(s)] + g[s \ {First(s)}]
           Upto(n, g) == \A s \in SUBSET R : Cardinality(s) <= n => g[s] = Sum(g, s)
           Short == {n \in Nat : ~ \E g \in [SUBSET R -> Int] : Upto(n, g)}
<1>1. \A s \in SUBSET R : IsFiniteSet(s) /\ Cardinality(s) \in Nat
                           /\ (s # {} => /\ First(s) \in s
                                         /\ s \ {First(s)} \in SUBSET R
                                         /\ Cardinality(s \ {First(s)}) = Cardinality(s) - 1
                                         /\ Cardinality(s) # 0)
  BY FS_Subset, FS_CardinalityType, FirstIn, FS_RemoveElement, FS_EmptySet
<1>2. ASSUME NEW g \in [SUBSET R -> Int], NEW s \in SUBSET R PROVE Sum(g, s) \in Int
  <2>1. CASE s = {}
    BY <2>1
  <2>2. CASE s # {}
    <3>1. v[First(s)] \in Int /\ g[s \ {First(s)}] \in Int
      BY <1>1, <2>2
    <3> QED
      BY <2>2, <3>1
  <2> QED
    BY <2>1, <2>2
<1>3. Short = {}
  <2> SUFFICES ASSUME Short # {} PROVE FALSE
    OBVIOUS
  <2>1. PICK n \in Short : \A m \in Short : n <= m
    <3>1. Short \in SUBSET Nat
      OBVIOUS
    <3> HIDE DEF Short
    <3> QED
      BY <3>1, LeastNumber
  <2>2. n \in Nat /\ ~ \E g \in [SUBSET R -> Int] : Upto(n, g)
    OBVIOUS
  <2>3. CASE n = 0
    <3> DEFINE z == [s \in SUBSET R |-> 0]
    <3>1. z \in [SUBSET R -> Int]
      OBVIOUS
    <3>2. ASSUME NEW s \in SUBSET R, Cardinality(s) <= 0 PROVE z[s] = Sum(z, s)
      <4>1. s = {}
        <5>1. \A c \in Nat : c <= 0 => c = 0
          OBVIOUS
        <5> QED
          BY <1>1, <3>2, <5>1
      <4> QED
        BY <4>1
    <3>3. Upto(0, z)
      BY <3>2
    <3> QED
      BY <2>2, <2>3, <3>1, <3>3
  <2>4. CASE n # 0
    <3>1. n - 1 \in Nat /\ ~(n <= n - 1)
      BY <2>2, <2>4
    <3>2. PICK g \in [SUBSET R -> Int] : Upto(n - 1, g)
      BY <2>1, <3>1
    <3> DEFINE h == [s \in SUBSET R |-> IF Cardinality(s) = n THEN Sum(g, s) ELSE g[s]]
    <3> HIDE DEF Short
    <3>3. h \in [SUBSET R -> Int]
      BY <1>2
    <3>4. ASSUME NEW s \in SUBSET R, Cardinality(s) <= n PROVE h[s] = Sum(h, s)
      <4>1. s # {} => h[s \ {First(s)}] = g[s \ {First(s)}]
        <5>1. s # {} => Cardinality(s \ {First(s)}) # n
          <6>1. \A c \in Nat : c <= n => c - 1 # n
            BY <2>2
          <6> QED
            BY <1>1, <3>4, <6>1
        <5> QED
          BY <1>1, <5>1
      <4>2. Sum(h, s) = Sum(g, s)
        BY <4>1
      <4>3. h[s] = Sum(g, s)
        <5>1. CASE Cardinality(s) = n
          BY <5>1
        <5>2. CASE Cardinality(s) # n
          <6>1. \A c \in Nat : c <= n /\ c # n => c <= n - 1
            BY <2>2
          <6> QED
            BY <1>1, <3>2, <3>4, <5>2, <6>1
        <5> QED
          BY <5>1, <5>2
      <4> QED
        BY <4>2, <4>3
    <3>5. Upto(n, h)
      BY <3>4
    <3> QED
      BY <2>2, <3>3, <3>5
  <2> QED
    BY <2>3, <2>4
<1>4. PICK g \in [SUBSET R -> Int] : Upto(Cardinality(R), g)
  <2>1. Cardinality(R) \in Nat
    BY FS_CardinalityType
  <2> QED
    BY <1>3, <2>1
<1>5. \A s \in SUBSET R : g[s] = Sum(g, s)
  <2>1. \A s \in SUBSET R : Cardinality(s) <= Cardinality(R)
    BY FS_Subset
  <2> QED
    BY <1>4, <2>1
<1> QED
  BY <1>5 DEF Adds

LEMMA AddsType ==
  ASSUME NEW R, IsFiniteSet(R), NEW v \in [R -> Int], NEW g, Adds(g, v, R)
  PROVE  \A s \in SUBSET R : g[s] \in Int
<1> DEFINE B == {s \in SUBSET R : g[s] \notin Int}
<1> SUFFICES ASSUME B # {} PROVE FALSE
  OBVIOUS
<1>1. PICK s \in B : \A x \in s : s \ {x} \notin B
  <2>1. B \in SUBSET SUBSET R
    OBVIOUS
  <2> HIDE DEF B
  <2> QED
    BY <2>1, SmallestSubset
<1>2. g[s] = IF s = {} THEN 0 ELSE v[First(s)] + g[s \ {First(s)}]
  BY DEF Adds
<1>3. s # {} => First(s) \in s /\ First(s) \in R /\ s \ {First(s)} \in SUBSET R
  BY FirstIn
<1>4. s # {} => g[s \ {First(s)}] \in Int
  BY <1>1, <1>3
<1> QED
  BY <1>2, <1>3, <1>4

\* The sums of two functions that differ at one point differ by what they
\* differ there.
LEMMA AddsDiffer ==
  ASSUME NEW R, IsFiniteSet(R), NEW v \in [R -> Int], NEW w \in [R -> Int],
         NEW r \in R, \A q \in R \ {r} : w[q] = v[q],
         NEW g, Adds(g, v, R), NEW h, Adds(h, w, R)
  PROVE  h[R] = g[R] + (w[r] - v[r])
<1> DEFINE d(s) == IF r \in s THEN w[r] - v[r] ELSE 0
           B == {s \in SUBSET R : h[s] # g[s] + d(s)}
<1>1. B = {}
  <2> SUFFICES ASSUME B # {} PROVE FALSE
    OBVIOUS
  <2>1. PICK s \in B : \A x \in s : s \ {x} \notin B
    <3>1. B \in SUBSET SUBSET R
      OBVIOUS
    <3> HIDE DEF B
    <3> QED
      BY <3>1, SmallestSubset
  <2> DEFINE x == First(s)
  <2>2. /\ g[s] = IF s = {} THEN 0 ELSE v[x] + g[s \ {x}]
        /\ h[s] = IF s = {} THEN 0 ELSE w[x] + h[s \ {x}]
    BY DEF Adds
  <2>3. CASE s = {}
    <3>1. g[s] = 0 /\ h[s] = 0 /\ d(s) = 0
      BY <2>2, <2>3
    <3> QED
      BY <3>1
  <2>4. CASE s # {}
    <3>1. x \in s /\ x \in R /\ s \ {x} \in SUBSET R
      BY <2>4, FirstIn
    <3>2. h[s \ {x}] = g[s \ {x}] + d(s \ {x})
      BY <2>1, <3>1
    <3>3. g[s \ {x}] \in Int /\ h[s \ {x}] \in Int
      BY <3>1, AddsType
    <3>4. v[x] \in Int /\ w[x] \in Int /\ v[r] \in Int /\ w[r] \in Int
      BY <3>1
    <3>5. CASE x = r
      BY <2>2, <2>4, <3>1, <3>2, <3>3, <3>4, <3>5
    <3>6. CASE x # r
      <4>1. w[x] = v[x] /\ d(s \ {x}) = d(s)
        BY <3>1, <3>6
      <4>2. d(s) \in Int
        BY <3>4
      <4>3. g[s] = v[x] + g[s \ {x}] /\ h[s] = v[x] + (g[s \ {x}] + d(s))
        BY <2>2, <2>4, <3>2, <4>1
      <4>4. h[s] # g[s] + d(s)
        OBVIOUS
      <4> HIDE DEF d, x, B
      <4> QED
        BY <3>3, <3>4, <4>2, <4>3, <4>4
    <3> QED
      BY <3>5, <3>6
  <2> QED
    BY <2>3, <2>4
<1>2. R \in SUBSET R /\ R \notin B
  BY <1>1
<1> QED
  BY <1>2

LEMMA AddsNothing ==
  ASSUME NEW R, IsFiniteSet(R), NEW v \in [R -> Int], \A r \in R : v[r] = 0,
         NEW g, Adds(g, v, R)
  PROVE  g[R] = 0
<1> DEFINE B == {s \in SUBSET R : g[s] # 0}
<1>1. B = {}
  <2> SUFFICES ASSUME B # {} PROVE FALSE
    OBVIOUS
  <2>1. PICK s \in B : \A x \in s : s \ {x} \notin B
    <3>1. B \in SUBSET SUBSET R
      OBVIOUS
    <3> HIDE DEF B
    <3> QED
      BY <3>1, SmallestSubset
  <2>2. g[s] = IF s = {} THEN 0 ELSE v[First(s)] + g[s \ {First(s)}]
    BY DEF Adds
  <2>3. s # {} => /\ First(s) \in s /\ v[First(s)] = 0
                  /\ s \ {First(s)} \in SUBSET R
    BY FirstIn
  <2>4. s # {} => g[s \ {First(s)}] = 0
    BY <2>1, <2>3
  <2> QED
    BY <2>2, <2>3, <2>4
<1>2. R \in SUBSET R /\ R \notin B
  BY <1>1
<1> QED
  BY <1>2

----------------------------------------------------------------------------
(* The ledger: the stock of a product is what was logged of it and what    *)
(* the requests in flight still have to log.                               *)

Part(f, p) == IF f.key = p THEN Unlogged(f) ELSE 0

Parts(fr, p) == [r \in Request |-> Part(fr[r], p)]

\* What the frames fr have still to log of p.
Flow(fr, p) ==
  (CHOOSE g : g = [s \in SUBSET Request |->
     IF s = {} THEN 0
     ELSE Part(fr[First(s)], p) + g[s \ {First(s)}]])[Request]

LEMMA InFlightFlow ==
  /\ \A p : InFlight(p) = Flow(frame, p)
  /\ \A p : InFlight(p)' = Flow(frame', p)
BY DEF InFlight, MapThenSumSet, MapThenFoldSet, Flow, Part, Unlogged, First

LEMMA FlowAdds ==
  ASSUME NEW fr \in [Request -> Frame], NEW p
  PROVE  /\ Parts(fr, p) \in [Request -> Int]
         /\ \E g : Adds(g, Parts(fr, p), Request) /\ Flow(fr, p) = g[Request]
<1>1. \A f \in Frame : Part(f, p) \in Int
  BY DEF Part, Unlogged, Frame, Arg
<1>2. Parts(fr, p) \in [Request -> Int]
  BY <1>1 DEF Parts
<1> DEFINE Is(g) == g = [s \in SUBSET Request |->
                           IF s = {} THEN 0
                           ELSE Part(fr[First(s)], p) + g[s \ {First(s)}]]
<1>3. ASSUME NEW g PROVE Is(g) <=> Adds(g, Parts(fr, p), Request)
  <2>1. ASSUME NEW s \in SUBSET Request, s # {}
        PROVE  Parts(fr, p)[First(s)] = Part(fr[First(s)], p)
    BY <2>1, FirstIn DEF Parts
  <2> QED
    BY <2>1 DEF Adds
<1>4. \E g : Is(g)
  <2>1. PICK g : Adds(g, Parts(fr, p), Request)
    BY <1>2, AddsExists, RequestsAssumption
  <2> HIDE DEF Is
  <2> QED
    BY <1>3, <2>1
<1>5. Is(CHOOSE g : Is(g))
  <2> HIDE DEF Is
  <2> QED
    BY <1>4, Zenon
<1> QED
  BY <1>2, <1>3, <1>5 DEF Flow

\* What one request still has to log changes the flow by as much.
LEMMA FlowStep ==
  ASSUME NEW fr \in [Request -> Frame], NEW r \in Request, NEW g \in Frame, NEW p
  PROVE  /\ Flow(fr, p) \in Int /\ Flow([fr EXCEPT ![r] = g], p) \in Int
         /\ Part(g, p) \in Int /\ Part(fr[r], p) \in Int
         /\ Flow([fr EXCEPT ![r] = g], p) = Flow(fr, p) + (Part(g, p) - Part(fr[r], p))
<1> DEFINE fs == [fr EXCEPT ![r] = g]
<1>1. fs \in [Request -> Frame]
  OBVIOUS
<1>2. /\ Parts(fs, p) \in [Request -> Int]
      /\ Parts(fr, p) \in [Request -> Int]
  BY <1>1, FlowAdds
<1>3. /\ Parts(fs, p)[r] = Part(g, p) /\ Parts(fr, p)[r] = Part(fr[r], p)
      /\ \A q \in Request \ {r} : Parts(fs, p)[q] = Parts(fr, p)[q]
  BY DEF Parts
<1> HIDE DEF fs
<1>4. PICK h : Adds(h, Parts(fr, p), Request) /\ Flow(fr, p) = h[Request]
  BY FlowAdds
<1>5. PICK k : Adds(k, Parts(fs, p), Request) /\ Flow(fs, p) = k[Request]
  BY <1>1, FlowAdds
<1>6. k[Request] = h[Request] + (Parts(fs, p)[r] - Parts(fr, p)[r])
  BY <1>2, <1>3, <1>4, <1>5, AddsDiffer, RequestsAssumption
<1>7. h[Request] \in Int /\ k[Request] \in Int
  BY <1>2, <1>4, <1>5, AddsType, RequestsAssumption
<1> QED
  BY <1>2, <1>3, <1>4, <1>5, <1>6, <1>7 DEF fs

Stock(p) == IF Exists(p) THEN product[p].stock ELSE 0

Logging == {"readBack", "delDetail", "lists", "audit"}

LEMMA LoggedAlready == \A f : f.pc \notin Logging => Unlogged(f) = 0
BY DEF Unlogged, Logging

\* A step of one request keeps the ledger if what it does to the stock is what
\* it logs or has from then on to log.
LEMMA LedgerMoves ==
  ASSUME Inv, Inv', LedgerBalanced, NEW r \in Request, NEW g \in Frame,
         frame' = [frame EXCEPT ![r] = g],
         \A p \in Product : ledger'[p] # Nil =>
           /\ ledger[p] # Nil
           /\ Stock(p)' - Stock(p) =
                (ledger'[p] - ledger[p]) + (Part(g, p) - Part(frame[r], p))
  PROVE  LedgerBalanced'
<1> SUFFICES ASSUME NEW p \in Product, ledger'[p] # Nil
             PROVE  Stock(p)' = ledger'[p] + InFlight(p)'
  BY DEF LedgerBalanced, Stock
<1>1. frame \in [Request -> Frame]
  BY DEF Inv, TypeOK
<1>2. /\ Flow(frame, p) \in Int /\ Flow(frame', p) \in Int
      /\ Part(g, p) \in Int /\ Part(frame[r], p) \in Int
      /\ Flow(frame', p) = Flow(frame, p) + (Part(g, p) - Part(frame[r], p))
  BY <1>1, FlowStep
<1>3. Stock(p) \in Int /\ Stock(p)' \in Int /\ ledger[p] \in Int /\ ledger'[p] \in Int
  BY StockAssumption DEF Inv, TypeOK, Stock, Exists, Row
<1>4. Stock(p) = ledger[p] + Flow(frame, p)
  BY InFlightFlow DEF LedgerBalanced, Stock
<1>5. Stock(p)' - Stock(p) =
        (ledger'[p] - ledger[p]) + (Part(g, p) - Part(frame[r], p))
  OBVIOUS
<1>6. Stock(p)' = ledger'[p] + Flow(frame', p)
  BY <1>2, <1>3, <1>4, <1>5
<1> QED
  BY <1>6, InFlightFlow

LEMMA LedgerKept ==
  ASSUME Inv, Inv', LedgerBalanced, NEW r \in Request,
         frame' = [frame EXCEPT ![r] = frame'[r]],
         \A p \in Product : ledger'[p] # Nil =>
           /\ ledger[p] # Nil
           /\ Stock(p)' - Stock(p) =
                (ledger'[p] - ledger[p]) + (Part(frame'[r], p) - Part(frame[r], p))
  PROVE  LedgerBalanced'
<1>1. frame'[r] \in Frame
  BY DEF Inv, TypeOK
<1> QED
  BY <1>1, LedgerMoves, Zenon

\* Stock and ledger stay, and what is left to log.
LEMMA LedgerQuiet ==
  ASSUME Inv, Inv', LedgerBalanced, NEW r \in Request,
         frame' = [frame EXCEPT ![r] = frame'[r]], ledger' = ledger,
         \A p \in Product : Stock(p)' = Stock(p),
         \/ Unlogged(frame[r]) = 0 /\ Unlogged(frame'[r]) = 0
         \/ Unlogged(frame[r]) = Unlogged(frame'[r]) /\ frame'[r].key = frame[r].key
  PROVE  LedgerBalanced'
<1>1. ASSUME NEW p \in Product, ledger'[p] # Nil
      PROVE  /\ ledger[p] # Nil
             /\ Stock(p)' - Stock(p) =
                  (ledger'[p] - ledger[p]) + (Part(frame'[r], p) - Part(frame[r], p))
  <2>1. Stock(p) \in Int /\ ledger[p] \in Int
    BY <1>1, StockAssumption DEF Inv, TypeOK, Stock, Exists, Row
  <2>2. Part(frame'[r], p) = Part(frame[r], p) /\ Part(frame[r], p) \in Int
    <3>1. frame[r] \in Frame
      BY DEF Inv, TypeOK
    <3> QED
      BY <3>1 DEF Part, Unlogged, Frame, Arg
  <2> QED
    BY <1>1, <2>1, <2>2
<1> QED
  BY <1>1, LedgerKept

\* The row a request was to log is lost.
LEMMA LedgerLost ==
  ASSUME Inv, Inv', LedgerBalanced, NEW r \in Request,
         frame' = [frame EXCEPT ![r] = frame'[r]], UNCHANGED product,
         LoseAuditRow(frame[r]), Unlogged(frame'[r]) = 0
  PROVE  LedgerBalanced'
<1>0. \A p \in Product : Stock(p)' = Stock(p)
  BY DEF Stock, Exists
<1>1. CASE Unlogged(frame[r]) = 0
  BY <1>0, <1>1, LedgerQuiet DEF LoseAuditRow
<1>2. CASE Unlogged(frame[r]) # 0
  <2>1. ledger' = [ledger EXCEPT ![frame[r].key] = Nil]
    BY <1>2 DEF LoseAuditRow
  <2>2. ASSUME NEW p \in Product, ledger'[p] # Nil
        PROVE  /\ ledger[p] # Nil
               /\ Stock(p)' - Stock(p) =
                    (ledger'[p] - ledger[p]) + (Part(frame'[r], p) - Part(frame[r], p))
    <3>1. p # frame[r].key /\ ledger'[p] = ledger[p]
      BY <2>1, <2>2 DEF Inv, TypeOK
    <3>2. Part(frame[r], p) = 0 /\ Part(frame'[r], p) = 0
      BY <3>1 DEF Part
    <3>3. Stock(p) \in Int /\ ledger[p] \in Int
      BY <2>2, <3>1, StockAssumption DEF Inv, TypeOK, Stock, Exists, Row
    <3> QED
      BY <1>0, <2>2, <3>1, <3>2, <3>3
  <2> QED
    BY <2>2, LedgerKept
<1> QED
  BY <1>1, <1>2

LEMMA FreeLogs == Unlogged(Free) = 0 /\ Free.pc \notin Logging
BY DEF Free, Unlogged, Logging

LEMMA ArrivalLedger ==
  ASSUME Inv, Inv', LedgerBalanced, NEW r \in Request, Arrival(r)
  PROVE  LedgerBalanced'
<1>1. /\ frame[r] = Free /\ UNCHANGED <<product, ledger>>
      /\ frame' = [frame EXCEPT ![r] = frame'[r]]
      /\ frame'[r].pc \notin Logging
  <2>0. frame \in [Request -> Frame]
    BY DEF Inv, TypeOK
  <2>1. ASSUME NEW op, NEW pc, NEW key, NEW arg, NEW old,
               pc \notin Logging, Arrive(r, op, pc, key, arg, old)
        PROVE  /\ frame[r] = Free /\ UNCHANGED <<product, ledger>>
               /\ frame' = [frame EXCEPT ![r] = frame'[r]]
               /\ frame'[r].pc \notin Logging
    BY <2>0, <2>1 DEF Arrive, Free
  <2>2. {"write", "findCategory", "select"} \cap Logging = {}
    BY DEF Logging
  <2>3. ASSUME NEW p \in Product, NEW c, NEW x, NEW a, UpdateProduct(r, p, c, x, a)
        PROVE  \E pc, arg : /\ pc \notin Logging
                            /\ Arrive(r, "updateProduct", pc, p, arg, product[p])
    <3> DEFINE pc == IF c = Nil THEN "write" ELSE "findCategory"
    <3>1. pc \notin Logging
      BY <2>2
    <3> HIDE DEF pc
    <3> QED
      BY <2>3, <3>1 DEF UpdateProduct, pc
  <2> QED
    BY <2>1, <2>2, <2>3
       DEF Arrival, CreateProduct, DeleteProduct, UploadImage, UpdateStock,
           GetProduct, ListProducts
<1>2. \A p \in Product : Stock(p)' = Stock(p)
  BY <1>1 DEF Stock, Exists
<1> QED
  BY <1>1, <1>2, FreeLogs, LoggedAlready, LedgerQuiet

\* Creating a product and adjusting its stock change it by what is then logged.
LEMMA StockLedger ==
  ASSUME Inv, Inv', LedgerBalanced, NEW r \in Request, InsertRow(r) \/ AddStock(r)
  PROVE  LedgerBalanced'
<1> DEFINE f == frame[r]
<1>1. /\ f \in Frame /\ frame \in [Request -> Frame] /\ FrameOK(f, Present)
      /\ product \in [Product -> Row \cup {Nil}] /\ f.pc = "write"
      /\ f.key \in Product /\ f.arg.delta \in Int
  <2>1. /\ f \in Frame /\ frame \in [Request -> Frame] /\ FrameOK(f, Present)
        /\ product \in [Product -> Row \cup {Nil}] /\ f.pc = "write"
    BY DEF Inv, TypeOK, InsertRow, AddStock, At
  <2> QED
    BY <2>1 DEF FrameOK, Frame, Arg
<1>2. Unlogged(f) = 0
  BY <1>1, LoggedAlready DEF Logging
<1>3. ASSUME Leave(r), UNCHANGED <<product, ledger>> PROVE LedgerBalanced'
  <2>1. frame' = [frame EXCEPT ![r] = frame'[r]] /\ frame'[r] = Free
    BY <1>1, <1>3 DEF Leave
  <2>2. \A p \in Product : Stock(p)' = Stock(p)
    BY <1>3 DEF Stock, Exists
  <2> QED
    BY <1>2, <1>3, <2>1, <2>2, FreeLogs, LedgerQuiet
<1>4. ASSUME NEW row \in Row, product' = [product EXCEPT ![f.key] = row],
             row.stock = Stock(f.key) + f.arg.delta, ledger' = ledger,
             frame' = [frame EXCEPT ![r] = frame'[r]],
             frame'[r].key = f.key, Unlogged(frame'[r]) = f.arg.delta
      PROVE  LedgerBalanced'
  <2>1. ASSUME NEW p \in Product, ledger'[p] # Nil
        PROVE  /\ ledger[p] # Nil
               /\ Stock(p)' - Stock(p) =
                    (ledger'[p] - ledger[p]) + (Part(frame'[r], p) - Part(frame[r], p))
    <3>1. Stock(p) \in Int /\ ledger[p] \in Int /\ ledger'[p] = ledger[p]
      BY <1>4, <2>1, StockAssumption DEF Inv, TypeOK, Stock, Exists, Row
    <3>2. CASE p = f.key
      <4>1. Stock(p)' = Stock(p) + f.arg.delta
        <5>1. product'[p] = row /\ row # Nil
          BY <1>1, <1>4, <3>2, NilDistinct
        <5> QED
          BY <1>4, <3>2, <5>1 DEF Stock, Exists
      <4>2. Part(frame'[r], p) = f.arg.delta /\ Part(frame[r], p) = 0
        BY <1>2, <1>4, <3>2 DEF Part
      <4> QED
        BY <1>1, <2>1, <3>1, <4>1, <4>2
    <3>3. CASE p # f.key
      <4>1. Stock(p)' = Stock(p)
        BY <1>1, <1>4, <3>3 DEF Stock, Exists
      <4>2. Part(frame'[r], p) = 0 /\ Part(frame[r], p) = 0
        BY <1>4, <3>3 DEF Part
      <4> QED
        BY <2>1, <3>1, <4>1, <4>2
    <3> QED
      BY <3>2, <3>3
  <2> QED
    BY <1>4, <2>1, LedgerKept
<1>5. CASE InsertRow(r)
  <2>1. CASE f.arg.category \in categories
    <3> DEFINE row == [category |-> f.arg.category, active |-> TRUE,
                       stock |-> f.arg.delta, content |-> f.arg.content]
               g == Written(f, "lists", {f.arg.category, All}, {})
    <3>1. /\ f.op = "createProduct" /\ product' = [product EXCEPT ![f.key] = row]
          /\ frame' = [frame EXCEPT ![r] = g] /\ ledger' = ledger
      BY <1>5, <2>1 DEF InsertRow, At
    <3>2. row \in Row
      BY <1>1, <3>1 DEF FrameOK, Row
    <3>3. Stock(f.key) = 0
      <4>1. f.key \notin Present
        BY <1>1, <3>1 DEF Inv, Reserved, At
      <4> QED
        BY <1>1, <4>1 DEF Stock, Present
    <3>4. row.stock = Stock(f.key) + f.arg.delta
      BY <1>1, <3>3
    <3>5. g.key = f.key /\ Unlogged(g) = f.arg.delta
      BY <1>1, <3>1 DEF Written, Unlogged, Frame, NoArg
    <3> HIDE DEF g, row
    <3>6. frame'[r] = g
      BY <1>1, <3>1
    <3> QED
      BY <1>4, <3>1, <3>2, <3>4, <3>5, <3>6
  <2>2. CASE f.arg.category \notin categories
    BY <1>3, <1>5, <2>2 DEF InsertRow
  <2> QED
    BY <2>1, <2>2
<1>6. CASE AddStock(r)
  <2> DEFINE s == product[f.key].stock + f.arg.delta
  <2>1. CASE s \in 0..MaxStock
    <3> DEFINE row == [product[f.key] EXCEPT !.stock = s]
               g == Written(f, "readBack", {}, {})
    <3>1. /\ f.op = "updateStock" /\ product' = [product EXCEPT ![f.key].stock = s]
          /\ frame' = [frame EXCEPT ![r] = g] /\ ledger' = ledger
      BY <1>6, <2>1 DEF AddStock, At
    <3>2. Exists(f.key) /\ product[f.key] \in Row
      BY <1>1, <3>1 DEF FrameOK, Present, Exists
    <3>3. row \in Row /\ row.stock = s
      BY <2>1, <3>2 DEF Row
    <3>4. row.stock = Stock(f.key) + f.arg.delta
      BY <3>2, <3>3 DEF Stock
    <3>5. g.key = f.key /\ Unlogged(g) = f.arg.delta
      BY <1>1, <3>1 DEF Written, Unlogged, Frame, NoArg
    <3>6. product' = [product EXCEPT ![f.key] = row]
      BY <3>1
    <3> HIDE DEF g, row, s
    <3>7. frame'[r] = g
      BY <1>1, <3>1
    <3> QED
      BY <1>4, <3>1, <3>3, <3>4, <3>5, <3>6, <3>7
  <2>2. CASE s \notin 0..MaxStock
    BY <1>3, <1>6, <2>2 DEF AddStock
  <2> QED
    BY <2>1, <2>2
<1> QED
  BY <1>5, <1>6

\* The other writes keep the stock.
LEMMA PatchLedger ==
  ASSUME Inv, Inv', LedgerBalanced, NEW r \in Request,
         UpdateRow(r) \/ SoftDelete(r) \/ SetImage(r)
  PROVE  LedgerBalanced'
<1> DEFINE f == frame[r]
<1>1. /\ f \in Frame /\ frame \in [Request -> Frame]
      /\ product \in [Product -> Row \cup {Nil}] /\ f.key \in Product
      /\ product[f.key] \in Row /\ f.op \in Patcher /\ f.pc = "write"
      /\ ledger' = ledger
  <2>1. /\ f \in Frame /\ frame \in [Request -> Frame] /\ FrameOK(f, Present)
        /\ product \in [Product -> Row \cup {Nil}] /\ f.pc = "write"
        /\ f.op \in Patcher /\ ledger' = ledger
    BY DEF Inv, TypeOK, UpdateRow, SoftDelete, SetImage, At, Patcher
  <2> QED
    BY <2>1 DEF FrameOK, Present, Exists, Patcher
<1>2. Unlogged(f) = 0
  BY <1>1, LoggedAlready DEF Logging
<1>3. /\ frame' = [frame EXCEPT ![r] = frame'[r]] /\ Unlogged(frame'[r]) = 0
  <2>1. ASSUME NEW lists, NEW moved,
               frame' = [frame EXCEPT ![r] = Written(f, "delDetail", lists, moved)]
        PROVE  /\ frame' = [frame EXCEPT ![r] = frame'[r]]
               /\ Unlogged(frame'[r]) = 0
    <3>1. frame'[r] = Written(f, "delDetail", lists, moved)
      BY <1>1, <2>1
    <3>2. Written(f, "delDetail", lists, moved).op = f.op
      BY <1>1 DEF Written, Frame
    <3> QED
      BY <1>1, <2>1, <3>1, <3>2 DEF Unlogged, Patcher
  <2>2. ASSUME Leave(r)
        PROVE  /\ frame' = [frame EXCEPT ![r] = frame'[r]]
               /\ Unlogged(frame'[r]) = 0
    BY <1>1, <2>2, FreeLogs DEF Leave
  <2> QED
    BY <2>1, <2>2 DEF UpdateRow, SoftDelete, SetImage
<1>4. \A p \in Product : Stock(p)' = Stock(p)
  <2>1. ASSUME NEW row \in Row, row.stock = product[f.key].stock,
               product' = [product EXCEPT ![f.key] = row]
        PROVE  \A p \in Product : Stock(p)' = Stock(p)
    BY <1>1, <2>1, NilDistinct DEF Stock, Exists
  <2>2. CASE UpdateRow(r)
    <3>1. CASE f.arg.category \in categories \cup {Nil}
      <4> DEFINE row == Patched(product[f.key], f.arg)
      <4>1. row \in Row /\ row.stock = product[f.key].stock
        BY <1>1 DEF Patched, Row, Frame, Arg
      <4>2. product' = [product EXCEPT ![f.key] = row]
        BY <2>2, <3>1 DEF UpdateRow
      <4> HIDE DEF row
      <4> QED
        BY <2>1, <4>1, <4>2
    <3>2. CASE f.arg.category \notin categories \cup {Nil}
      BY <2>2, <3>2 DEF UpdateRow, Stock, Exists
    <3> QED
      BY <3>1, <3>2
  <2>3. CASE SoftDelete(r)
    <3> DEFINE row == [product[f.key] EXCEPT !.active = FALSE]
    <3>1. row \in Row /\ row.stock = product[f.key].stock
      BY <1>1 DEF Row
    <3>2. product' = [product EXCEPT ![f.key] = row]
      BY <2>3 DEF SoftDelete
    <3> HIDE DEF row
    <3> QED
      BY <2>1, <3>1, <3>2
  <2>4. CASE SetImage(r)
    <3> DEFINE row == [product[f.key] EXCEPT !.content = f.arg.content]
    <3>0. f.arg.content \in Content
      BY <1>1, <2>4 DEF SetImage, At, Inv, FrameOK
    <3>1. row \in Row /\ row.stock = product[f.key].stock
      BY <1>1, <3>0 DEF Row
    <3>2. product' = [product EXCEPT ![f.key] = row]
      BY <2>4 DEF SetImage
    <3> HIDE DEF row
    <3> QED
      BY <2>1, <3>1, <3>2
  <2> QED
    BY <2>2, <2>3, <2>4
<1> QED
  BY <1>1, <1>2, <1>3, <1>4, LedgerQuiet

LEMMA SettledLogs ==
  ASSUME NEW f \in Frame, f.pc \in {"lists", "drain"}
  PROVE  /\ f.pc = "lists" => /\ Unlogged(Settled(f)) = Unlogged(f)
                              /\ Settled(f).key = f.key
         /\ f.pc = "drain" => Unlogged(Settled(f)) = 0
BY FreeLogs DEF Settled, Unlogged, Frame

\* On its way to the audit row a request keeps what it has to log.
LEMMA TailLedger ==
  ASSUME Inv, Inv', LedgerBalanced, NEW r \in Request,
         \/ ReadBack(r) \/ DelDetail(r)
         \/ \E k \in Category \cup {All} : Scan(r, k) \/ Del(r, k)
  PROVE  LedgerBalanced'
<1> DEFINE f == frame[r]
<1>1. /\ f \in Frame /\ frame \in [Request -> Frame]
      /\ UNCHANGED <<product, ledger>>
  BY DEF Inv, TypeOK, ReadBack, DelDetail, Scan, Del
<1>2. \A p \in Product : Stock(p)' = Stock(p)
  BY <1>1 DEF Stock, Exists
<1>3. ASSUME NEW g, frame' = [frame EXCEPT ![r] = g],
             \/ Unlogged(f) = 0 /\ Unlogged(g) = 0
             \/ Unlogged(f) = Unlogged(g) /\ g.key = f.key
      PROVE  LedgerBalanced'
  <2>1. frame'[r] = g
    BY <1>1, <1>3
  <2> QED
    BY <1>1, <1>2, <1>3, <2>1, LedgerQuiet
<1>4. CASE ReadBack(r)
  <2> DEFINE g == [f EXCEPT !.pc = "delDetail", !.val = product[f.key],
                            !.scan = {product[f.key].category, All}]
  <2>1. frame' = [frame EXCEPT ![r] = g] /\ f.pc = "readBack"
    BY <1>4 DEF ReadBack, At
  <2>2. Unlogged(f) = Unlogged(g) /\ g.key = f.key
    BY <1>1, <2>1 DEF Unlogged, Frame
  <2> HIDE DEF g
  <2> QED
    BY <1>3, <2>1, <2>2
<1>5. CASE DelDetail(r)
  <2> DEFINE g == [f EXCEPT !.pc = "lists"]
  <2>1. frame' = [frame EXCEPT ![r] = g] /\ f.pc = "delDetail"
    BY <1>5 DEF DelDetail
  <2>2. Unlogged(f) = Unlogged(g) /\ g.key = f.key
    BY <1>1, <2>1 DEF Unlogged, Frame
  <2> HIDE DEF g
  <2> QED
    BY <1>3, <2>1, <2>2
<1>6. ASSUME NEW h \in Frame, h.pc = f.pc, h.op = f.op, h.key = f.key, h.arg = f.arg,
             f.pc \in {"lists", "drain"}, frame' = [frame EXCEPT ![r] = Settled(h)]
      PROVE  LedgerBalanced'
  <2>1. Unlogged(h) = Unlogged(f)
    BY <1>6 DEF Unlogged
  <2>2. f.pc = "drain" => Unlogged(f) = 0
    BY DEF Unlogged
  <2> QED
    BY <1>3, <1>6, <2>1, <2>2, SettledLogs
<1>7. ASSUME NEW k \in Category \cup {All}, Scan(r, k) \/ Del(r, k)
      PROVE  LedgerBalanced'
  <2>1. CASE Scan(r, k)
    <3> DEFINE h == [f EXCEPT !.scan = @ \ {k},
                              !.del = IF cache[k] = Nil THEN @ ELSE @ \cup {k}]
    <3>1. frame' = [frame EXCEPT ![r] = Settled(h)] /\ f.pc \in {"lists", "drain"}
      BY <2>1 DEF Scan
    <3>2. h \in Frame /\ h.pc = f.pc /\ h.op = f.op /\ h.key = f.key /\ h.arg = f.arg
      BY <1>1 DEF Frame, ListKey
    <3> HIDE DEF h
    <3> QED
      BY <1>6, <3>1, <3>2
  <2>2. CASE Del(r, k)
    <3> DEFINE h == [f EXCEPT !.del = @ \ {k}]
    <3>1. frame' = [frame EXCEPT ![r] = Settled(h)] /\ f.pc \in {"lists", "drain"}
      BY <2>2 DEF Del
    <3>2. h \in Frame /\ h.pc = f.pc /\ h.op = f.op /\ h.key = f.key /\ h.arg = f.arg
      BY <1>1 DEF Frame
    <3> HIDE DEF h
    <3> QED
      BY <1>6, <3>1, <3>2
  <2> QED
    BY <1>7, <2>1, <2>2
<1> QED
  BY <1>4, <1>5, <1>7

\* Readers have nothing to log.
LEMMA ReadLedger ==
  ASSUME Inv, Inv', LedgerBalanced, NEW r \in Request,
         FindCategory(r) \/ ReadProduct(r) \/ ReadPage(r) \/ CountRows(r) \/ Fill(r)
  PROVE  LedgerBalanced'
<1>1. /\ frame \in [Request -> Frame] /\ UNCHANGED <<product, ledger>>
      /\ frame[r].pc \notin Logging
  BY DEF Inv, TypeOK, FindCategory, ReadProduct, ReadPage, CountRows, Fill, At, Logging
<1>2. /\ frame' = [frame EXCEPT ![r] = frame'[r]] /\ frame'[r].pc \notin Logging
  <2>1. frame[r] \in Frame
    BY <1>1
  <2>2. CASE Leave(r)
    BY <1>1, <2>2, FreeLogs DEF Leave
  <2>3. CASE FindCategory(r) \/ ReadProduct(r) \/ ReadPage(r) \/ CountRows(r)
    BY <1>1, <2>1, <2>2, <2>3
       DEF FindCategory, ReadProduct, ReadPage, CountRows, Logging, Frame
  <2> QED
    BY <2>2, <2>3 DEF Fill
<1>3. \A p \in Product : Stock(p)' = Stock(p)
  BY <1>1 DEF Stock, Exists
<1> QED
  BY <1>1, <1>2, <1>3, LoggedAlready, LedgerQuiet

\* The audit row takes what the request had to log, or it is lost.
LEMMA AuditLedger ==
  ASSUME Inv, Inv', LedgerBalanced, NEW r \in Request, Audit(r) \/ Failure(r)
  PROVE  LedgerBalanced'
<1> DEFINE f == frame[r]
<1>1. /\ f \in Frame /\ frame \in [Request -> Frame] /\ UNCHANGED product
  BY DEF Inv, TypeOK, Audit, Failure, Abort, FailPattern, AuditFails
<1>2. CASE Audit(r)
  <2>1. /\ frame' = [frame EXCEPT ![r] = frame'[r]] /\ frame'[r] = Free
        /\ ledger' = [ledger EXCEPT
             ![f.key] = IF @ = Nil THEN @ ELSE @ + Unlogged(f)]
    BY <1>1, <1>2 DEF Audit, Leave
  <2>2. ASSUME NEW p \in Product, ledger'[p] # Nil
        PROVE  /\ ledger[p] # Nil
               /\ Stock(p)' - Stock(p) =
                    (ledger'[p] - ledger[p]) + (Part(frame'[r], p) - Part(frame[r], p))
    <3>0. Part(frame'[r], p) = 0 /\ Stock(p)' = Stock(p)
      BY <1>1, <2>1, FreeLogs DEF Part, Stock, Exists
    <3>1. ledger[p] # Nil
      BY <2>1, <2>2 DEF Inv, TypeOK
    <3>2. ledger[p] \in Int /\ Stock(p) \in Int /\ Unlogged(f) \in Int
      BY <1>1, <3>1, StockAssumption
         DEF Inv, TypeOK, Stock, Exists, Row, Unlogged, Frame, Arg
    <3>3. ledger'[p] = ledger[p] + Part(f, p)
      <4>1. CASE p = f.key
        BY <2>1, <3>1, <4>1 DEF Inv, TypeOK, Part
      <4>2. CASE p # f.key
        BY <2>1, <3>2, <4>2 DEF Inv, TypeOK, Part
      <4> QED
        BY <4>1, <4>2
    <3>4. Part(f, p) \in Int
      BY <3>2 DEF Part
    <3> QED
      BY <3>0, <3>1, <3>2, <3>3, <3>4
  <2> QED
    BY <2>1, <2>2, LedgerKept
<1>3. CASE Abort(r) \/ AuditFails(r)
  <2>1. /\ frame' = [frame EXCEPT ![r] = frame'[r]] /\ frame'[r] = Free
        /\ LoseAuditRow(f)
    BY <1>1, <1>3 DEF Abort, AuditFails, Leave
  <2> QED
    BY <1>1, <2>1, FreeLogs, LedgerLost
<1>4. ASSUME NEW k \in Category \cup {All}, FailPattern(r, k) PROVE LedgerBalanced'
  <2> DEFINE h == [f EXCEPT !.pc = "drain", !.scan = @ \ {k}, !.del = @ \ {k},
                            !.later = {}]
  <2>1. frame' = [frame EXCEPT ![r] = Settled(h)] /\ LoseAuditRow(f)
    BY <1>4 DEF FailPattern
  <2>2. h \in Frame /\ h.pc = "drain"
    BY <1>1 DEF Frame, Pc
  <2> HIDE DEF h
  <2>3. Unlogged(Settled(h)) = 0 /\ frame'[r] = Settled(h)
    BY <1>1, <2>1, <2>2, SettledLogs
  <2> QED
    BY <1>1, <2>1, <2>3, LedgerLost
<1> QED
  BY <1>2, <1>3, <1>4 DEF Failure

\* Nothing else touches the stock, the ledger or a frame.
LEMMA QuietLedger ==
  ASSUME LedgerBalanced, UNCHANGED <<product, ledger, frame>>
  PROVE  LedgerBalanced'
<1>1. \A p : InFlight(p)' = InFlight(p)
  BY InFlightFlow
<1> QED
  BY <1>1 DEF LedgerBalanced, Exists

LEMMA NextLedger == Inv /\ Inv' /\ LedgerBalanced /\ [Next]_vars => LedgerBalanced'
<1> SUFFICES ASSUME Inv, Inv', LedgerBalanced, [Next]_vars PROVE LedgerBalanced'
  OBVIOUS
<1>1. ASSUME NEW r \in Request, Arrival(r) PROVE LedgerBalanced'
  BY <1>1, ArrivalLedger
<1>2. ASSUME NEW r \in Request, Advance(r) PROVE LedgerBalanced'
  BY <1>2, StockLedger, PatchLedger, TailLedger, ReadLedger, AuditLedger DEF Advance
<1>3. ASSUME NEW r \in Request, Failure(r) PROVE LedgerBalanced'
  BY <1>3, AuditLedger
<1>4. CASE UNCHANGED <<product, ledger, frame>>
  BY <1>4, QuietLedger
<1> QED
  BY <1>1, <1>2, <1>3, <1>4 DEF Next, Expire, DeleteCategory, vars

LEMMA InitLedger == Init => LedgerBalanced
<1> SUFFICES ASSUME Init, NEW p \in Product
             PROVE  (IF Exists(p) THEN product[p].stock ELSE 0)
                      = ledger[p] + InFlight(p)
  BY DEF LedgerBalanced
<1>0. Inv
  BY InitInv
<1>1. frame \in [Request -> Frame] /\ \A r \in Request : frame[r] = Free
  BY <1>0 DEF Inv, TypeOK, Init
<1>2. PICK g : Adds(g, Parts(frame, p), Request) /\ Flow(frame, p) = g[Request]
  BY <1>1, FlowAdds
<1>3. \A r \in Request : Parts(frame, p)[r] = 0
  BY <1>1, FreeLogs DEF Parts, Part
<1>4. g[Request] = 0
  BY <1>1, <1>2, <1>3, FlowAdds, AddsNothing, RequestsAssumption
<1>5. ledger[p] = (IF Exists(p) THEN product[p].stock ELSE 0) /\ ledger[p] \in Int
  BY <1>0, StockAssumption DEF Init, Inv, TypeOK, Exists, Row
<1> QED
  BY <1>2, <1>4, <1>5, InFlightFlow

\* No stock adjustment is lost or applied twice: as long as no audit row of a
\* product was lost, its stock is what its audit rows add up to (writeAuditLog,
\* at the end of each handler of product.handlers.ts) plus the changes that
\* inserts and adjustments (product.queries.ts) have committed and that their
\* requests have not logged yet.
THEOREM StockAddsUp == Spec => []LedgerBalanced
BY InitLedger, NextLedger, InvAlways, PTL DEF Spec

============================================================================
