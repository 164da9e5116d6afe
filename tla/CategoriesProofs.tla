-------------------------- MODULE CategoriesProofs --------------------------
(***************************************************************************)
(* Proofs about Categories and about BulkUpload, which extends it.         *)
(*                                                                         *)
(* Categories: types and references, the uniqueness of names and slugs,    *)
(* the accounts of categories:all and of the audit log.  One inductive     *)
(* invariant per account, over the types; that of the log is stronger than *)
(* TrailTruthful, which says nothing of what was lost, and rests on a      *)
(* category not yet inserted being known to its creator alone.             *)
(*                                                                         *)
(* BulkUpload: that it implements Categories, and its four properties from *)
(* BulkInv, which says of each point of the handler what is known there of *)
(* the lines before and after the one at hand.  The lemmas about NextSlug, *)
(* NextRow, FailRow and NextImage carry that from line to line.            *)
(***************************************************************************)
EXTENDS BulkUpload, WellFoundedInduction, TLAPS

----------------------------------------------------------------------------
(* Types.                                                                  *)

Working == {"insert", "findSlug", "write", "readBack", "del", "audit"}

\* What a frame refers to has been given out, and what it inserts is whole.
FrameOK(f, ids) ==
  /\ f.pc \in Working => f.id \in ids
  /\ f.pc \notin Working => f.id = Nil
  /\ f.pc = "insert" => f.name \in Name /\ f.slug \in Slug

TypeInv ==
  /\ CategoryTypeOK
  /\ \A c \in Category : Exists(c) => c \in born
  /\ \A r \in Request : FrameOK(frame[r], born)

LEMMA NilDistinct ==
  /\ Nil \notin Category /\ Nil \notin Name /\ Nil \notin Slug
  /\ Nil \notin Row /\ Nil \notin Table
BY CategoryNil

LEMMA FreeFrame == Free \in Frame /\ \A ids : FrameOK(Free, ids)
BY DEF Free, Frame, FrameOK, Op, Pc, Working

\* What a step that changes one frame, and gives out ids if anything, keeps.
LEMMA OneFrame ==
  ASSUME TypeInv, NEW r \in Request, NEW g \in Frame,
         frame' = [frame EXCEPT ![r] = g], FrameOK(g, born'), born \subseteq born'
  PROVE  /\ frame' \in [Request -> Frame]
         /\ \A q \in Request : FrameOK(frame'[q], born')
<1>1. frame' \in [Request -> Frame]
  BY DEF TypeInv, CategoryTypeOK
<1>2. ASSUME NEW q \in Request PROVE FrameOK(frame'[q], born')
  <2>1. CASE q = r
    BY <2>1 DEF TypeInv, CategoryTypeOK, FrameOK
  <2>2. CASE q # r
    BY <2>2 DEF TypeInv, CategoryTypeOK, FrameOK
  <2> QED
    BY <2>1, <2>2
<1> QED
  BY <1>1, <1>2

LEMMA FreedFrame ==
  ASSUME TypeInv, NEW r \in Request, Leave(r), born' = born
  PROVE  /\ frame' \in [Request -> Frame]
         /\ \A q \in Request : FrameOK(frame'[q], born')
BY FreeFrame, OneFrame DEF Leave

\* Rows stay rows, and a category in use stays there.
LEMMA PatchedRow ==
  ASSUME NEW row \in Row, NEW f \in Frame
  PROVE  Patched(row, f) \in Row
BY DEF Patched, Row, Frame

LEMMA ArrivalType ==
  ASSUME TypeInv, NEW r \in Request, Arrival(r)
  PROVE  TypeInv'
<1> USE NilDistinct
<1>1. ASSUME NEW op \in Op, NEW pc \in Pc, NEW c \in Category \cup {Nil},
             NEW n \in Name \cup {Nil}, NEW s \in Slug \cup {Nil},
             Arrive(r, op, pc, c, n, s), born \subseteq born',
             born' \subseteq Category,
             pc \in Working => c \in born', pc \notin Working => c = Nil,
             pc = "insert" => n \in Name /\ s \in Slug
      PROVE  TypeInv'
  <2> DEFINE g == [op |-> op, pc |-> pc, id |-> c, name |-> n, slug |-> s,
                   found |-> TRUE, val |-> Nil]
  <2>1. g \in Frame
    BY DEF Frame
  <2>2. FrameOK(g, born')
    BY <1>1 DEF FrameOK
  <2>3. frame' = [frame EXCEPT ![r] = g]
    BY <1>1 DEF Arrive
  <2>4. /\ frame' \in [Request -> Frame]
        /\ \A q \in Request : FrameOK(frame'[q], born')
    BY <1>1, <2>1, <2>2, <2>3, OneFrame
  <2> QED
    BY <1>1, <2>4 DEF Arrive, TypeInv, CategoryTypeOK, Exists
<1>2. ASSUME NEW c \in Category, NEW n \in Name, NEW s \in Slug,
             CreateCategory(r, c, n, s)
      PROVE  TypeInv'
  BY <1>1, <1>2 DEF CreateCategory, Op, Pc, Working, TypeInv, CategoryTypeOK
<1>3. ASSUME NEW c \in Category, NEW n \in Name \cup {Nil},
             NEW s \in Slug \cup {Nil}, UpdateCategory(r, c, n, s)
      PROVE  TypeInv'
  <2> DEFINE pc == IF s \in {Nil, category[c].slug} THEN "write" ELSE "findSlug"
  <2>1. pc \in Pc /\ pc \in Working /\ pc # "insert"
    BY DEF Pc, Working
  <2>2. c \in born /\ born' = born /\ born \subseteq Category
    BY <1>3 DEF UpdateCategory, TypeInv, CategoryTypeOK
  <2>3. Arrive(r, "update", pc, c, n, s)
    BY <1>3 DEF UpdateCategory
  <2> HIDE DEF pc
  <2> QED
    BY <1>1, <2>1, <2>2, <2>3 DEF Op
<1>4. ASSUME NEW c \in Category, DeleteCategory(r, c) PROVE TypeInv'
  BY <1>1, <1>4 DEF DeleteCategory, Op, Pc, Working, TypeInv, CategoryTypeOK
<1>5. ASSUME ListCategories(r) PROVE TypeInv'
  BY <1>1, <1>5 DEF ListCategories, Op, Pc, Working, TypeInv, CategoryTypeOK
<1> QED
  BY <1>2, <1>3, <1>4, <1>5 DEF Arrival

LEMMA WritesType ==
  ASSUME TypeInv, NEW r \in Request,
         InsertCategory(r) \/ UpdateRow(r) \/ DeleteRow(r)
  PROVE  TypeInv'
<1> USE NilDistinct
<1> DEFINE f == frame[r]
<1>0. f \in Frame /\ FrameOK(f, born)
  BY DEF TypeInv, CategoryTypeOK
<1>1. CASE InsertCategory(r)
  <2> DEFINE row == [name |-> f.name, slug |-> f.slug]
  <2>1. row \in Row /\ f.id \in Category /\ f.id \in born
    BY <1>0, <1>1 DEF InsertCategory, At, FrameOK, Working, Row, TypeInv,
                      CategoryTypeOK
  <2>2. CASE Admitted(f.id, row)
    <3>1. /\ category' = [category EXCEPT ![f.id] = row]
          /\ frame' = [frame EXCEPT ![r] = Done(f, "readBack")]
          /\ UNCHANGED <<used, born, all, trail, lost, excused>>
      BY <1>1, <2>2 DEF InsertCategory
    <3>2. Done(f, "readBack") \in Frame /\ FrameOK(Done(f, "readBack"), born')
      BY <1>0, <2>1, <3>1 DEF Done, Frame, FrameOK, Working, Pc
    <3>3. /\ frame' \in [Request -> Frame]
          /\ \A q \in Request : FrameOK(frame'[q], born')
      BY <3>1, <3>2, OneFrame
    <3> QED
      BY <2>1, <3>1, <3>3 DEF TypeInv, CategoryTypeOK, Exists, Table
  <2>3. CASE ~Admitted(f.id, row)
    <3>1. Leave(r) /\ UNCHANGED <<category, used, born, all, trail, lost, excused>>
      BY <1>1, <2>3 DEF InsertCategory
    <3> QED
      BY <3>1, FreedFrame DEF TypeInv, CategoryTypeOK, Exists
  <2> QED
    BY <2>2, <2>3
<1>2. CASE UpdateRow(r)
  <2> DEFINE row == Patched(category[f.id], f)
  <2>1. f.id \in Category /\ f.id \in born
    BY <1>0, <1>2 DEF UpdateRow, At, FrameOK, Working, TypeInv, CategoryTypeOK
  <2>2. CASE ~Exists(f.id) \/ Admitted(f.id, row)
    <3>1. /\ category' = IF Exists(f.id) THEN [category EXCEPT ![f.id] = row]
                         ELSE category
          /\ frame' = [frame EXCEPT ![r] = Done(f, "readBack")]
          /\ UNCHANGED <<used, born, all, trail, lost, excused>>
      BY <1>2, <2>2 DEF UpdateRow
    <3>2. Done(f, "readBack") \in Frame /\ FrameOK(Done(f, "readBack"), born')
      BY <1>0, <2>1, <3>1 DEF Done, Frame, FrameOK, Working, Pc
    <3>3. /\ frame' \in [Request -> Frame]
          /\ \A q \in Request : FrameOK(frame'[q], born')
      BY <3>1, <3>2, OneFrame
    <3>4. Exists(f.id) => row \in Row
      BY <1>0, <2>1, PatchedRow DEF Exists, TypeInv, CategoryTypeOK, Table
    <3> QED
      BY <2>1, <3>1, <3>3, <3>4 DEF TypeInv, CategoryTypeOK, Exists, Table
  <2>3. CASE ~(~Exists(f.id) \/ Admitted(f.id, row))
    <3>1. Leave(r) /\ UNCHANGED <<category, used, born, all, trail, lost, excused>>
      BY <1>2, <2>3 DEF UpdateRow
    <3> QED
      BY <3>1, FreedFrame DEF TypeInv, CategoryTypeOK, Exists
  <2> QED
    BY <2>2, <2>3
<1>3. CASE DeleteRow(r)
  <2>1. f.id \in Category /\ f.id \in born
    BY <1>0, <1>3 DEF DeleteRow, At, FrameOK, Working, TypeInv, CategoryTypeOK
  <2>2. CASE f.id \in used
    <3>1. Leave(r) /\ UNCHANGED <<category, used, born, all, trail, lost, excused>>
      BY <1>3, <2>2 DEF DeleteRow
    <3> QED
      BY <3>1, FreedFrame DEF TypeInv, CategoryTypeOK, Exists
  <2>3. CASE f.id \notin used
    <3> DEFINE g == [f EXCEPT !.pc = "del"]
    <3>1. /\ category' = [category EXCEPT ![f.id] = Nil]
          /\ frame' = [frame EXCEPT ![r] = g]
          /\ UNCHANGED <<used, born, all, trail, lost, excused>>
      BY <1>3, <2>3 DEF DeleteRow
    <3>2. g \in Frame /\ FrameOK(g, born')
      BY <1>0, <2>1, <3>1 DEF Frame, FrameOK, Working, Pc
    <3>3. /\ frame' \in [Request -> Frame]
          /\ \A q \in Request : FrameOK(frame'[q], born')
      BY <3>1, <3>2, OneFrame
    <3> QED
      BY <2>1, <2>3, <3>1, <3>3 DEF TypeInv, CategoryTypeOK, Exists, Table
  <2> QED
    BY <2>2, <2>3
<1> QED
  BY <1>1, <1>2, <1>3

\* A step that leaves the table alone.
LEMMA TailType ==
  ASSUME TypeInv, NEW r \in Request,
         \/ FindSlug(r) \/ ReadBack(r) \/ DelAll(r) \/ Audit(r)
         \/ ReadAll(r) \/ Fill(r) \/ Abort(r)
  PROVE  TypeInv'
<1> USE NilDistinct
<1> DEFINE f == frame[r]
<1>0. f \in Frame /\ FrameOK(f, born)
  BY DEF TypeInv, CategoryTypeOK
<1>1. ASSUME NEW g \in Frame, FrameOK(g, born), born' = born,
             frame' = [frame EXCEPT ![r] = g]
      PROVE  /\ frame' \in [Request -> Frame]
             /\ \A q \in Request : FrameOK(frame'[q], born')
  BY <1>1, OneFrame
<1>2. Unlogged(f) \subseteq Recorded \X Category
  BY <1>0 DEF Unlogged, Recorded, FrameOK, Working, TypeInv, CategoryTypeOK
<1>3. CASE FindSlug(r)
  <2>1. CASE Goto(r, "write")
    <3>1. [f EXCEPT !.pc = "write"] \in Frame
          /\ FrameOK([f EXCEPT !.pc = "write"], born)
      BY <1>0, <1>3 DEF FindSlug, At, Frame, FrameOK, Working, Pc
    <3> QED
      BY <1>1, <1>3, <2>1, <3>1
         DEF FindSlug, Goto, TypeInv, CategoryTypeOK, Exists
  <2>2. CASE Leave(r)
    BY <1>3, <2>2, FreedFrame DEF FindSlug, TypeInv, CategoryTypeOK, Exists
  <2> QED
    BY <1>3, <2>1, <2>2 DEF FindSlug
<1>4. CASE ReadBack(r)
  <2> DEFINE g == [f EXCEPT !.pc = "del", !.found = Exists(f.id)]
  <2>1. Exists(f.id) \in BOOLEAN
    BY DEF Exists
  <2>2. g \in Frame /\ FrameOK(g, born)
    BY <1>0, <1>4, <2>1 DEF ReadBack, Frame, FrameOK, Working, Pc
  <2> QED
    BY <1>1, <1>4, <2>2 DEF ReadBack, TypeInv, CategoryTypeOK, Exists
<1>5. CASE DelAll(r)
  <2>1. /\ all' = Nil /\ excused' = FALSE
        /\ Leave(r) \/ Goto(r, "audit")
        /\ lost' \subseteq lost \cup Unlogged(f)
        /\ UNCHANGED <<category, used, born, trail>>
    BY <1>5 DEF DelAll
  <2>2. [f EXCEPT !.pc = "audit"] \in Frame
        /\ FrameOK([f EXCEPT !.pc = "audit"], born)
    BY <1>0, <1>5 DEF DelAll, Frame, FrameOK, Working, Pc
  <2>3. /\ frame' \in [Request -> Frame]
        /\ \A q \in Request : FrameOK(frame'[q], born')
    BY <1>1, <2>1, <2>2, FreedFrame DEF Goto
  <2> QED
    BY <1>2, <2>1, <2>3 DEF TypeInv, CategoryTypeOK, Exists
<1>6. CASE Audit(r)
  <2>1. /\ frame' \in [Request -> Frame]
        /\ \A q \in Request : FrameOK(frame'[q], born')
    BY <1>6, FreedFrame DEF Audit
  <2> QED
    BY <1>6, <2>1 DEF Audit, TypeInv, CategoryTypeOK, Exists
<1>7. CASE ReadAll(r)
  <2> DEFINE g == [f EXCEPT !.pc = "cacheSet", !.val = category]
  <2>1. g \in Frame /\ FrameOK(g, born)
    BY <1>0, <1>7 DEF ReadAll, At, Frame, FrameOK, Working, Pc, TypeInv,
                      CategoryTypeOK
  <2>2. frame' = [frame EXCEPT ![r] = g]
    BY <1>7 DEF ReadAll
  <2> QED
    BY <1>1, <1>7, <2>1, <2>2 DEF ReadAll, TypeInv, CategoryTypeOK, Exists
<1>8. CASE Fill(r)
  <2>1. /\ frame' \in [Request -> Frame]
        /\ \A q \in Request : FrameOK(frame'[q], born')
    BY <1>8, FreedFrame DEF Fill
  <2>2. f.val \in Table \cup {Nil}
    BY <1>0 DEF Frame
  <2> QED
    BY <1>8, <2>1, <2>2 DEF Fill, TypeInv, CategoryTypeOK, Exists
<1>9. CASE Abort(r)
  <2>1. /\ frame' \in [Request -> Frame]
        /\ \A q \in Request : FrameOK(frame'[q], born')
    BY <1>9, FreedFrame DEF Abort
  <2>2. excused' \in BOOLEAN
    BY <1>9 DEF Abort, TypeInv, CategoryTypeOK, Owes, Fresh
  <2> QED
    BY <1>2, <1>9, <2>1, <2>2 DEF Abort, TypeInv, CategoryTypeOK, Exists
<1> QED
  BY <1>3, <1>4, <1>5, <1>6, <1>7, <1>8, <1>9

LEMMA EnvironmentType ==
  ASSUME TypeInv,
         \/ \E c \in Category : Refer(c) \/ Unrefer(c)
         \/ Expire
  PROVE  TypeInv'
BY NilDistinct DEF Refer, Unrefer, Expire, TypeInv, CategoryTypeOK, Exists

LEMMA InitType == CategoryInit => TypeInv
<1> SUFFICES ASSUME CategoryInit PROVE TypeInv
  OBVIOUS
<1>1. frame \in [Request -> Frame] /\ \A r \in Request : frame[r] = Free
  BY FreeFrame DEF CategoryInit
<1>2. trail \in [Category -> SUBSET Recorded]
  BY DEF CategoryInit, Recorded
<1>3. /\ category \in Table /\ born = {c \in Category : Exists(c)}
      /\ used \subseteq born /\ all = Nil /\ lost = {} /\ excused = FALSE
  BY DEF CategoryInit
<1> QED
  BY <1>1, <1>2, <1>3, FreeFrame DEF TypeInv, CategoryTypeOK

LEMMA NextType == TypeInv /\ [CategoryNext]_categoryVars => TypeInv'
<1> SUFFICES ASSUME TypeInv, [CategoryNext]_categoryVars PROVE TypeInv'
  OBVIOUS
<1>1. CASE UNCHANGED categoryVars
  BY <1>1 DEF categoryVars, TypeInv, CategoryTypeOK, Exists
<1> QED
  BY <1>1, ArrivalType, WritesType, TailType, EnvironmentType
     DEF CategoryNext, Advance

LEMMA TypeAlways == CategorySpec => []TypeInv
BY InitType, NextType, PTL DEF CategorySpec

\* Types; products refer to categories that exist; an id is given out once.
THEOREM CategoryTypeCorrect == CategorySpec => []CategoryTypeOK
<1>1. TypeInv => CategoryTypeOK
  BY DEF TypeInv
<1> QED
  BY <1>1, TypeAlways, PTL

----------------------------------------------------------------------------
(* Names and slugs.                                                        *)

\* The unique indexes hold, whatever was looked up and when.
LEMMA UniqueStep ==
  TypeInv /\ SlugsUnique /\ [CategoryNext]_categoryVars => SlugsUnique'
<1> SUFFICES ASSUME TypeInv, SlugsUnique, [CategoryNext]_categoryVars
             PROVE  SlugsUnique'
  OBVIOUS
<1> USE NilDistinct
<1>1. ASSUME NEW b \in Category, NEW row \in Row, Admitted(b, row),
             category' = [category EXCEPT ![b] = row]
      PROVE  SlugsUnique'
  BY <1>1 DEF Admitted, SlugsUnique, Exists, TypeInv, CategoryTypeOK, Table
<1>2. ASSUME NEW b \in Category, category' = [category EXCEPT ![b] = Nil]
      PROVE  SlugsUnique'
  BY <1>2 DEF SlugsUnique, Exists, TypeInv, CategoryTypeOK, Table
<1>3. CASE UNCHANGED category
  BY <1>3 DEF SlugsUnique, Exists
<1>4. ASSUME NEW r \in Request PROVE frame[r] \in Frame /\ FrameOK(frame[r], born)
  BY DEF TypeInv, CategoryTypeOK
<1>5. ASSUME NEW r \in Request, InsertCategory(r) PROVE SlugsUnique'
  <2>1. /\ [name |-> frame[r].name, slug |-> frame[r].slug] \in Row
        /\ frame[r].id \in Category
    BY <1>4, <1>5 DEF InsertCategory, At, FrameOK, Working, Row, TypeInv,
                      CategoryTypeOK
  <2> QED
    BY <1>1, <1>3, <1>5, <2>1 DEF InsertCategory
<1>6. ASSUME NEW r \in Request, UpdateRow(r) PROVE SlugsUnique'
  <2>1. frame[r].id \in Category
    BY <1>4, <1>6 DEF UpdateRow, At, FrameOK, Working, TypeInv, CategoryTypeOK
  <2>2. Exists(frame[r].id) => Patched(category[frame[r].id], frame[r]) \in Row
    BY <1>4, <2>1, PatchedRow DEF Exists, TypeInv, CategoryTypeOK, Table
  <2> QED
    BY <1>1, <1>3, <1>6, <2>1, <2>2 DEF UpdateRow
<1>7. ASSUME NEW r \in Request, DeleteRow(r) PROVE SlugsUnique'
  <2>1. frame[r].id \in Category
    BY <1>4, <1>7 DEF DeleteRow, At, FrameOK, Working, TypeInv, CategoryTypeOK
  <2> QED
    BY <1>2, <1>3, <1>7, <2>1 DEF DeleteRow
<1>8. ASSUME NEW r \in Request, Arrival(r) PROVE UNCHANGED category
  BY <1>8 DEF Arrival, Arrive, CreateCategory, UpdateCategory, DeleteCategory,
              ListCategories
<1>9. ASSUME NEW r \in Request,
             \/ FindSlug(r) \/ ReadBack(r) \/ DelAll(r) \/ Audit(r)
             \/ ReadAll(r) \/ Fill(r) \/ Abort(r)
      PROVE  UNCHANGED category
  BY <1>9 DEF FindSlug, ReadBack, DelAll, Audit, ReadAll, Fill, Abort
<1>10. ASSUME \/ \E c \in Category : Refer(c) \/ Unrefer(c)
              \/ Expire \/ UNCHANGED categoryVars
       PROVE  UNCHANGED category
  BY <1>10 DEF Refer, Unrefer, Expire, categoryVars
<1> QED
  BY <1>3, <1>5, <1>6, <1>7, <1>8, <1>9, <1>10 DEF CategoryNext, Advance

\* No two categories ever share a name or a slug.
THEOREM NamesAndSlugsUnique == CategorySpec => []SlugsUnique
<1>1. CategoryInit => SlugsUnique
  BY DEF CategoryInit, SlugsUnique, Exists
<1> QED
  BY <1>1, TypeAlways, UniqueStep, PTL DEF CategorySpec

----------------------------------------------------------------------------
(* categories:all.                                                         *)

\* A frame that owes a deletion goes on owing it, until it deletes or aborts.
LEMMA AllStep ==
  TypeInv /\ AllAccounted /\ [CategoryNext]_categoryVars => AllAccounted'
<1> SUFFICES ASSUME TypeInv, AllAccounted, [CategoryNext]_categoryVars
             PROVE  AllAccounted'
  OBVIOUS
<1>0. \A r \in Request : frame[r] \in Frame
  BY DEF TypeInv, CategoryTypeOK
<1>1. ASSUME UNCHANGED <<category, all, excused>>,
             \A q \in Request : Owes(frame[q]) => Owes(frame'[q])
      PROVE  AllAccounted'
  BY <1>1 DEF AllAccounted, Fresh, Owes
\* A frame that owes nothing changes, and neither the table nor the key does.
<1>2. ASSUME NEW r \in Request, ~Owes(frame[r]),
             \A q \in Request \ {r} : frame'[q] = frame[q],
             UNCHANGED <<category, all, excused>>
      PROVE  AllAccounted'
  BY <1>1, <1>2
\* A frame that owes, or comes to.
<1>3. ASSUME NEW r \in Request, Owes(frame'[r]) PROVE AllAccounted'
  BY <1>3 DEF AllAccounted, Owes
<1>4. ASSUME NEW r \in Request, Leave(r)
      PROVE  \A q \in Request \ {r} : frame'[q] = frame[q]
  BY <1>4 DEF Leave, TypeInv, CategoryTypeOK
<1>5. ASSUME NEW r \in Request, Arrival(r) PROVE AllAccounted'
  <2>1. ASSUME NEW op, NEW pc, NEW c, NEW n, NEW s, Arrive(r, op, pc, c, n, s)
        PROVE  AllAccounted'
    <3>1. ~Owes(frame[r])
      BY <2>1 DEF Arrive, Owes, Free
    <3>2. \A q \in Request \ {r} : frame'[q] = frame[q]
      BY <2>1 DEF Arrive, TypeInv, CategoryTypeOK
    <3> QED
      BY <1>2, <2>1, <3>1, <3>2 DEF Arrive
  <2> QED
    BY <1>5, <2>1 DEF Arrival, CreateCategory, UpdateCategory, DeleteCategory,
                      ListCategories
<1>6. ASSUME NEW r \in Request, InsertCategory(r) \/ UpdateRow(r)
      PROVE  AllAccounted'
  <2>1. CASE Leave(r) /\ UNCHANGED category
    BY <1>2, <1>4, <1>6, <2>1 DEF InsertCategory, UpdateRow, At, Owes
  <2>2. CASE frame' = [frame EXCEPT ![r] = Done(frame[r], "readBack")]
    <3>1. Owes(frame'[r])
      BY <1>0, <2>2 DEF Done, Frame, Owes, TypeInv, CategoryTypeOK
    <3> QED
      BY <1>3, <3>1
  <2> QED
    BY <1>6, <2>1, <2>2 DEF InsertCategory, UpdateRow
<1>7. ASSUME NEW r \in Request, DeleteRow(r) PROVE AllAccounted'
  <2>1. CASE Leave(r) /\ UNCHANGED category
    BY <1>2, <1>4, <1>7, <2>1 DEF DeleteRow, At, Owes
  <2>2. CASE frame' = [frame EXCEPT ![r] = [frame[r] EXCEPT !.pc = "del"]]
    <3>1. Owes(frame'[r])
      BY <1>0, <2>2 DEF Frame, Owes, TypeInv, CategoryTypeOK
    <3> QED
      BY <1>3, <3>1
  <2> QED
    BY <1>7, <2>1, <2>2 DEF DeleteRow
<1>8. ASSUME NEW r \in Request, ReadBack(r) PROVE AllAccounted'
  <2>1. Owes(frame'[r])
    BY <1>0, <1>8 DEF ReadBack, Frame, Owes, TypeInv, CategoryTypeOK
  <2> QED
    BY <1>3, <2>1
<1>9. ASSUME NEW r \in Request, FindSlug(r) \/ Audit(r) \/ ReadAll(r)
      PROVE  AllAccounted'
  <2>1. ~Owes(frame[r]) /\ UNCHANGED <<category, all, excused>>
    BY <1>9 DEF FindSlug, Audit, ReadAll, At, Owes
  <2>2. \A q \in Request \ {r} : frame'[q] = frame[q]
    BY <1>4, <1>9 DEF FindSlug, Audit, ReadAll, Goto, TypeInv, CategoryTypeOK
  <2> QED
    BY <1>2, <2>1, <2>2
<1>10. ASSUME NEW r \in Request, DelAll(r) PROVE AllAccounted'
  BY <1>10 DEF DelAll, AllAccounted, Fresh
<1>11. ASSUME NEW r \in Request, Fill(r) PROVE AllAccounted'
  BY <1>11 DEF Fill, AllAccounted, Fresh
<1>12. ASSUME NEW r \in Request, Abort(r) PROVE AllAccounted'
  <2>1. CASE Owes(frame[r])
    BY <1>12, <2>1 DEF Abort, AllAccounted, Fresh
  <2>2. CASE ~Owes(frame[r])
    <3>1. excused' = excused
      BY <1>12, <2>2 DEF Abort, TypeInv, CategoryTypeOK
    <3> QED
      BY <1>2, <1>4, <1>12, <2>2, <3>1 DEF Abort
  <2> QED
    BY <2>1, <2>2
<1>13. ASSUME \/ \E c \in Category : Refer(c) \/ Unrefer(c)
              \/ UNCHANGED categoryVars
       PROVE  AllAccounted'
  BY <1>13 DEF Refer, Unrefer, categoryVars, AllAccounted, Fresh, Owes
<1>14. ASSUME Expire PROVE AllAccounted'
  BY <1>14 DEF Expire, AllAccounted, Fresh
<1> QED
  BY <1>5, <1>6, <1>7, <1>8, <1>9, <1>10, <1>11, <1>12, <1>13, <1>14
     DEF CategoryNext, Advance

\* No handler forgets categories:all: what is stale in it came from a fill
\* that read before a write or from a writer cut short, or is yet to be deleted.
THEOREM AllCoherent == CategorySpec => []AllAccounted
<1>1. CategoryInit => AllAccounted
  BY DEF CategoryInit, AllAccounted, Fresh
<1> QED
  BY <1>1, TypeAlways, AllStep, PTL DEF CategorySpec

----------------------------------------------------------------------------
(* The audit log.                                                          *)

\* What TrailTruthful says, of rows written, lost and still to be written
\* alike; only categories that were given out are logged; and nobody but its
\* creator knows of a category that is about to be inserted.
TrailInv ==
  /\ \A c \in Category :
       /\ Logged("delete", c) => ~Exists(c)
       /\ Exists(c) => Logged("create", c)
       /\ Logged("create", c) /\ ~Exists(c) => Logged("delete", c)
       /\ Logged("create", c) \/ Logged("delete", c) => c \in born
  /\ \A r \in Request, c \in Category :
       frame[r].pc = "insert" /\ frame[r].id = c =>
         /\ ~Exists(c) /\ ~Logged("create", c) /\ ~Logged("delete", c)
         /\ \A q \in Request \ {r} : frame[q].id # c

\* The part of Logged that a step of r can change.
Told(r, a, c) ==
  \/ a \in trail[c]
  \/ <<a, c>> \in lost
  \/ <<a, c>> \in Unlogged(frame[r])

Others(r) == \A q \in Request \ {r} : frame'[q] = frame[q]

LEMMA LoggedAsTold ==
  ASSUME NEW r \in Request, Others(r), NEW a \in Recorded, NEW c \in Category
  PROVE  /\ Told(r, a, c) => Logged(a, c)
         /\ Told(r, a, c)' => Logged(a, c)'
         /\ (Told(r, a, c)' <=> Told(r, a, c)) => (Logged(a, c)' <=> Logged(a, c))
         /\ (Told(r, a, c) => Told(r, a, c)') => (Logged(a, c) => Logged(a, c)')
BY DEF Logged, Told, Others, Unlogged

\* A step that neither makes nor removes a category and logs nothing new.
LEMMA QuietTrail ==
  ASSUME TypeInv, TrailInv, NEW r \in Request, Others(r), born' = born,
         \A c \in Category : Exists(c)' = Exists(c),
         \A a \in Recorded, c \in Category : Told(r, a, c)' <=> Told(r, a, c),
         frame'[r].pc # "insert", frame'[r].id \in {frame[r].id, Nil}
  PROVE  TrailInv'
<1>1. \A a \in Recorded, c \in Category : Logged(a, c)' <=> Logged(a, c)
  BY LoggedAsTold
<1>2. "create" \in Recorded /\ "delete" \in Recorded
  BY DEF Recorded
<1>3. ASSUME NEW q \in Request, NEW c \in Category,
             frame'[q].pc = "insert", frame'[q].id = c
      PROVE  /\ frame[q].pc = "insert" /\ frame[q].id = c
             /\ \A p \in Request \ {q} : frame'[p].id # c
  <2>1. q # r /\ frame'[q] = frame[q]
    BY <1>3 DEF Others
  <2>2. \A p \in Request \ {q} : frame[p].id # c
    BY <1>3, <2>1 DEF TrailInv
  <2> QED
    BY <1>3, <2>1, <2>2, NilDistinct DEF Others
<1> QED
  BY <1>1, <1>2, <1>3 DEF TrailInv

LEMMA ArrivalTrail ==
  ASSUME TypeInv, TrailInv, NEW r \in Request, Arrival(r)
  PROVE  TrailInv'
<1>0. UNCHANGED <<category, trail, lost>> /\ Others(r) /\ frame[r] = Free
  BY DEF Arrival, CreateCategory, UpdateCategory, DeleteCategory,
         ListCategories, Arrive, Others, TypeInv, CategoryTypeOK
<1>1. \A c \in Category : Exists(c)' = Exists(c)
  BY <1>0 DEF Exists
<1>2. ASSUME frame'[r].pc \in {"insert", "findSlug", "write", "select"}
      PROVE  \A a \in Recorded, c \in Category : Logged(a, c)' <=> Logged(a, c)
  <2>1. Unlogged(frame[r]) = {} /\ Unlogged(frame'[r]) = {}
    BY <1>0, <1>2 DEF Unlogged, Free
  <2>2. \A a, c : Told(r, a, c)' <=> Told(r, a, c)
    BY <1>0, <2>1 DEF Told, Unlogged
  <2> QED
    BY <1>0, <2>2, LoggedAsTold
<1>3. ASSUME NEW op, NEW pc, NEW b, NEW n, NEW s, Arrive(r, op, pc, b, n, s)
      PROVE  frame'[r].pc = pc /\ frame'[r].id = b
  BY <1>3 DEF Arrive, TypeInv, CategoryTypeOK
<1>4. ASSUME NEW pc \in {"findSlug", "write", "select"},
             NEW b \in Category \cup {Nil},
             b # Nil => Exists(b), frame'[r].pc = pc, frame'[r].id = b, born' = born
      PROVE  TrailInv'
  <2>1. \A a \in Recorded, c \in Category : Logged(a, c)' <=> Logged(a, c)
    BY <1>2, <1>4
  <2>2. ASSUME NEW q \in Request, NEW c \in Category,
               frame'[q].pc = "insert", frame'[q].id = c
        PROVE  /\ ~Exists(c) /\ ~Logged("create", c) /\ ~Logged("delete", c)
               /\ \A p \in Request \ {q} : frame'[p].id # c
    <3>1. q # r /\ frame'[q] = frame[q]
      BY <1>0, <1>4, <2>2 DEF Others
    <3>2. /\ ~Exists(c) /\ ~Logged("create", c) /\ ~Logged("delete", c)
          /\ \A p \in Request \ {q} : frame[p].id # c
      BY <2>2, <3>1 DEF TrailInv
    <3>3. frame'[r].id # c
      BY <1>4, <3>2, NilDistinct
    <3> QED
      BY <1>0, <3>2, <3>3 DEF Others
  <2> QED
    BY <1>1, <1>4, <2>1, <2>2 DEF TrailInv, Recorded
<1>5. ASSUME NEW b \in Category, NEW n \in Name, NEW s \in Slug,
             CreateCategory(r, b, n, s)
      PROVE  TrailInv'
  <2>1. /\ b \notin born /\ born' = born \cup {b}
        /\ frame'[r].pc = "insert" /\ frame'[r].id = b
    BY <1>3, <1>5 DEF CreateCategory
  <2>2. \A a \in Recorded, c \in Category : Logged(a, c)' <=> Logged(a, c)
    BY <1>2, <2>1
  <2>3. ~Exists(b) /\ ~Logged("create", b) /\ ~Logged("delete", b)
    BY <2>1 DEF TypeInv, TrailInv
  <2>4. \A q \in Request : frame[q].id # b
    BY <2>1, NilDistinct DEF TypeInv, FrameOK
  <2>5. ASSUME NEW q \in Request, NEW c \in Category,
               frame'[q].pc = "insert", frame'[q].id = c
        PROVE  /\ ~Exists(c) /\ ~Logged("create", c) /\ ~Logged("delete", c)
               /\ \A p \in Request \ {q} : frame'[p].id # c
    <3>1. CASE q = r
      BY <1>0, <2>1, <2>3, <2>4, <2>5, <3>1 DEF Others
    <3>2. CASE q # r
      <4>1. frame'[q] = frame[q]
        BY <1>0, <3>2 DEF Others
      <4>2. /\ ~Exists(c) /\ ~Logged("create", c) /\ ~Logged("delete", c)
            /\ \A p \in Request \ {q} : frame[p].id # c
        BY <2>5, <4>1 DEF TrailInv
      <4>3. c # b
        BY <2>4, <2>5, <4>1
      <4> QED
        BY <1>0, <2>1, <4>2, <4>3 DEF Others
    <3> QED
      BY <3>1, <3>2
  <2> QED
    BY <1>1, <2>1, <2>2, <2>5 DEF TrailInv, Recorded
<1>6. ASSUME NEW b \in Category, NEW n \in Name \cup {Nil},
             NEW s \in Slug \cup {Nil}, UpdateCategory(r, b, n, s)
      PROVE  TrailInv'
  <2> DEFINE pc == IF s \in {Nil, category[b].slug} THEN "write" ELSE "findSlug"
  <2>1. frame'[r].pc = pc /\ frame'[r].id = b
    BY <1>3, <1>6 DEF UpdateCategory
  <2>2. pc \in {"findSlug", "write", "select"}
    OBVIOUS
  <2> HIDE DEF pc
  <2> QED
    BY <1>4, <1>6, <2>1, <2>2 DEF UpdateCategory
<1>7. ASSUME NEW b \in Category, DeleteCategory(r, b) PROVE TrailInv'
  BY <1>3, <1>4, <1>7 DEF DeleteCategory
<1>8. ASSUME ListCategories(r) PROVE TrailInv'
  BY <1>3, <1>4, <1>8 DEF ListCategories
<1> QED
  BY <1>5, <1>6, <1>7, <1>8 DEF Arrival

\* Handlers that leave, on whatever frame they had nothing to log.
LEMMA LeaveTrail ==
  ASSUME TypeInv, TrailInv, NEW r \in Request, Leave(r), born' = born,
         \A c \in Category : Exists(c)' = Exists(c),
         \A a \in Recorded, c \in Category :
           a \in trail'[c] \/ <<a, c>> \in lost' <=> Told(r, a, c)
  PROVE  TrailInv'
<1>1. Others(r) /\ frame'[r] = Free
  BY DEF Leave, Others, TypeInv, CategoryTypeOK
<1>2. frame'[r].pc # "insert" /\ frame'[r].id = Nil
  BY <1>1 DEF Free
<1>3. Unlogged(frame'[r]) = {}
  BY <1>1 DEF Free, Unlogged
<1>4. \A a \in Recorded, c \in Category : Told(r, a, c)' <=> Told(r, a, c)
  BY <1>3 DEF Told, Unlogged
<1> QED
  BY <1>1, <1>2, <1>4, QuietTrail

LEMMA WritesTrail ==
  ASSUME TypeInv, TypeInv', TrailInv, NEW r \in Request,
         InsertCategory(r) \/ UpdateRow(r) \/ DeleteRow(r)
  PROVE  TrailInv'
<1> USE NilDistinct
<1> DEFINE f == frame[r]
<1>0. f \in Frame /\ FrameOK(f, born)
  BY DEF TypeInv, CategoryTypeOK
<1>1. UNCHANGED <<born, trail, lost>> /\ f.pc \in {"insert", "write"}
  BY DEF InsertCategory, UpdateRow, DeleteRow, At
<1>2. f.id \in Category
  BY <1>0, <1>1 DEF FrameOK, Working, TypeInv, CategoryTypeOK
<1>3. Unlogged(f) = {}
  BY <1>1 DEF Unlogged
<1>4. ASSUME Leave(r), UNCHANGED category PROVE TrailInv'
  <2>1. \A c \in Category : Exists(c)' = Exists(c)
    BY <1>4 DEF Exists
  <2> QED
    BY <1>1, <1>3, <1>4, <2>1, LeaveTrail DEF Told
<1>5. CASE InsertCategory(r) /\ ~(Leave(r) /\ UNCHANGED category)
  <2> DEFINE row == [name |-> f.name, slug |-> f.slug]
  <2>1. /\ category' = [category EXCEPT ![f.id] = row]
        /\ frame' = [frame EXCEPT ![r] = Done(f, "readBack")]
        /\ f.op = "create" /\ f.pc = "insert"
    BY <1>5 DEF InsertCategory, At
  <2>2. row \in Row
    BY <1>0, <2>1 DEF FrameOK, Row
  <2>3. \A c \in Category : Exists(c)' <=> (Exists(c) \/ c = f.id)
    BY <1>2, <2>1, <2>2 DEF Exists, TypeInv, CategoryTypeOK, Table
  <2>4. /\ Others(r)
        /\ frame'[r].pc = "readBack" /\ frame'[r].id = f.id /\ frame'[r].op = "create"
    BY <1>0, <2>1 DEF Others, Done, Frame, TypeInv, CategoryTypeOK
  <2>5. Unlogged(frame'[r]) = {<<"create", f.id>>}
    BY <2>4 DEF Unlogged, Recorded
  <2>6. ASSUME NEW a \in Recorded, NEW c \in Category
        PROVE  Logged(a, c)' <=> (Logged(a, c) \/ (a = "create" /\ c = f.id))
    <3>1. Told(r, a, c)' <=> (Told(r, a, c) \/ (a = "create" /\ c = f.id))
      BY <1>1, <1>3, <2>5 DEF Told, Unlogged
    <3> QED
      BY <2>4, <3>1, LoggedAsTold
  <2>7. /\ ~Logged("delete", f.id)
        /\ \A q \in Request \ {r} : frame[q].id # f.id
    BY <1>2, <2>1 DEF TrailInv
  <2>8. f.id \in born
    BY <1>0, <1>1 DEF FrameOK, Working
  <2>9. ASSUME NEW q \in Request, NEW c \in Category,
               frame'[q].pc = "insert", frame'[q].id = c
        PROVE  /\ ~Exists(c)' /\ ~Logged("create", c)' /\ ~Logged("delete", c)'
               /\ \A p \in Request \ {q} : frame'[p].id # c
    <3>1. q # r /\ frame'[q] = frame[q]
      BY <2>4, <2>9 DEF Others
    <3>2. /\ ~Exists(c) /\ ~Logged("create", c) /\ ~Logged("delete", c)
          /\ \A p \in Request \ {q} : frame[p].id # c
      BY <2>9, <3>1 DEF TrailInv
    <3>3. c # f.id
      BY <2>7, <2>9, <3>1
    <3> QED
      BY <2>3, <2>4, <2>6, <3>2, <3>3 DEF Others, Recorded
  <2> QED
    BY <1>1, <2>3, <2>6, <2>7, <2>8, <2>9 DEF TrailInv, Recorded
<1>6. CASE UpdateRow(r) /\ ~(Leave(r) /\ UNCHANGED category)
  <2>1. /\ category' = IF Exists(f.id)
                       THEN [category EXCEPT ![f.id] = Patched(category[f.id], f)]
                       ELSE category
        /\ frame' = [frame EXCEPT ![r] = Done(f, "readBack")]
        /\ f.op = "update"
    BY <1>6 DEF UpdateRow, At
  <2>2. Exists(f.id) => Patched(category[f.id], f) \in Row
    BY <1>0, <1>2, PatchedRow DEF Exists, TypeInv, CategoryTypeOK, Table
  <2>3. \A c \in Category : Exists(c)' = Exists(c)
    BY <1>2, <2>1, <2>2 DEF Exists, TypeInv, CategoryTypeOK, Table
  <2>4. /\ Others(r)
        /\ frame'[r].pc = "readBack" /\ frame'[r].id = f.id /\ frame'[r].op = "update"
    BY <1>0, <2>1 DEF Others, Done, Frame, TypeInv, CategoryTypeOK
  <2>5. Unlogged(frame'[r]) = {}
    BY <2>4 DEF Unlogged, Recorded
  <2>6. \A a \in Recorded, c \in Category : Told(r, a, c)' <=> Told(r, a, c)
    BY <1>1, <1>3, <2>5 DEF Told, Unlogged
  <2> QED
    BY <1>1, <2>3, <2>4, <2>6, QuietTrail
<1>7. CASE DeleteRow(r) /\ ~(Leave(r) /\ UNCHANGED category)
  <2>1. /\ category' = [category EXCEPT ![f.id] = Nil]
        /\ frame' = [frame EXCEPT ![r] = [f EXCEPT !.pc = "del"]]
        /\ f.op = "delete" /\ f.pc = "write"
    BY <1>7 DEF DeleteRow, At
  <2>3. \A c \in Category : Exists(c)' <=> (Exists(c) /\ c # f.id)
    BY <1>2, <2>1 DEF Exists, TypeInv, CategoryTypeOK, Table
  <2>4. /\ Others(r)
        /\ frame'[r].pc = "del" /\ frame'[r].id = f.id /\ frame'[r].op = "delete"
    BY <1>0, <2>1 DEF Others, Frame, TypeInv, CategoryTypeOK
  <2>5. Unlogged(frame'[r]) = {<<"delete", f.id>>}
    BY <2>4 DEF Unlogged, Recorded
  <2>6. ASSUME NEW a \in Recorded, NEW c \in Category
        PROVE  Logged(a, c)' <=> (Logged(a, c) \/ (a = "delete" /\ c = f.id))
    <3>1. Told(r, a, c)' <=> (Told(r, a, c) \/ (a = "delete" /\ c = f.id))
      BY <1>1, <1>3, <2>5 DEF Told, Unlogged
    <3> QED
      BY <2>4, <3>1, LoggedAsTold
  <2>8. f.id \in born
    BY <1>0, <1>1 DEF FrameOK, Working
  <2>9. ASSUME NEW q \in Request, NEW c \in Category,
               frame'[q].pc = "insert", frame'[q].id = c
        PROVE  /\ ~Exists(c)' /\ ~Logged("create", c)' /\ ~Logged("delete", c)'
               /\ \A p \in Request \ {q} : frame'[p].id # c
    <3>1. q # r /\ frame'[q] = frame[q]
      BY <2>4, <2>9 DEF Others
    <3>2. /\ ~Exists(c) /\ ~Logged("create", c) /\ ~Logged("delete", c)
          /\ \A p \in Request \ {q} : frame[p].id # c
      BY <2>9, <3>1 DEF TrailInv
    <3>3. c # f.id
      BY <3>1, <3>2
    <3> QED
      BY <2>3, <2>4, <2>6, <3>2, <3>3 DEF Others, Recorded
  <2> QED
    BY <1>1, <2>3, <2>6, <2>8, <2>9 DEF TrailInv, Recorded
<1> QED
  BY <1>4, <1>5, <1>6, <1>7 DEF InsertCategory, UpdateRow, DeleteRow

LEMMA TailTrail ==
  ASSUME TypeInv, TrailInv, NEW r \in Request,
         \/ FindSlug(r) \/ ReadBack(r) \/ DelAll(r) \/ Audit(r)
         \/ ReadAll(r) \/ Fill(r) \/ Abort(r)
  PROVE  TrailInv'
<1> DEFINE f == frame[r]
<1>0. f \in Frame /\ FrameOK(f, born)
  BY DEF TypeInv, CategoryTypeOK
<1>1. born' = born /\ \A c \in Category : Exists(c)' = Exists(c)
  BY DEF FindSlug, ReadBack, DelAll, Audit, ReadAll, Fill, Abort, Exists
\* A frame that goes on to pc with the same rows to log.
<1>2. ASSUME Others(r), frame'[r].pc # "insert", frame'[r].id = f.id,
             UNCHANGED <<trail, lost>>, Unlogged(frame'[r]) = Unlogged(f)
      PROVE  TrailInv'
  <2>1. \A a \in Recorded, c \in Category : Told(r, a, c)' <=> Told(r, a, c)
    BY <1>2 DEF Told, Unlogged
  <2> QED
    BY <1>1, <1>2, <2>1, QuietTrail
<1>3. ASSUME Leave(r), UNCHANGED trail, lost' = lost \cup Unlogged(f)
      PROVE  TrailInv'
  BY <1>1, <1>3, LeaveTrail DEF Told
<1>4. ASSUME Leave(r), UNCHANGED <<trail, lost>>, Unlogged(f) = {}
      PROVE  TrailInv'
  BY <1>3, <1>4
<1>5. CASE FindSlug(r)
  <2>1. Unlogged(f) = {} /\ UNCHANGED <<trail, lost>>
    BY <1>5 DEF FindSlug, At, Unlogged
  <2>2. CASE Goto(r, "write")
    <3>1. /\ Others(r) /\ frame'[r].pc = "write" /\ frame'[r].id = f.id
      BY <1>0, <2>2 DEF Goto, Others, Frame, TypeInv, CategoryTypeOK
    <3>2. Unlogged(frame'[r]) = {}
      BY <3>1 DEF Unlogged
    <3> QED
      BY <1>2, <2>1, <3>1, <3>2
  <2> QED
    BY <1>4, <1>5, <2>1, <2>2 DEF FindSlug
<1>6. CASE ReadBack(r)
  <2>1. /\ Others(r) /\ frame'[r].pc = "del" /\ frame'[r].id = f.id
        /\ frame'[r].op = f.op /\ f.pc = "readBack"
    BY <1>0, <1>6 DEF ReadBack, Others, Frame, TypeInv, CategoryTypeOK
  <2>2. Unlogged(frame'[r]) = Unlogged(f)
    BY <2>1 DEF Unlogged
  <2> QED
    BY <1>2, <1>6, <2>1, <2>2 DEF ReadBack
<1>7. CASE DelAll(r)
  <2>1. CASE Goto(r, "audit") /\ lost' = lost
    <3>1. /\ Others(r) /\ frame'[r].pc = "audit" /\ frame'[r].id = f.id
          /\ frame'[r].op = f.op /\ f.pc = "del"
      BY <1>0, <1>7, <2>1 DEF DelAll, Goto, Others, Frame, TypeInv, CategoryTypeOK
    <3>2. Unlogged(frame'[r]) = Unlogged(f)
      BY <3>1 DEF Unlogged
    <3> QED
      BY <1>2, <1>7, <2>1, <3>1, <3>2 DEF DelAll
  <2> QED
    BY <1>3, <1>7, <2>1 DEF DelAll
<1>8. CASE Audit(r)
  <2>1. f.id \in Category /\ f.pc = "audit"
    BY <1>0, <1>8 DEF Audit, FrameOK, Working, TypeInv, CategoryTypeOK
  <2>2. ASSUME NEW a \in Recorded, NEW c \in Category
        PROVE  a \in trail'[c] \/ <<a, c>> \in lost' <=> Told(r, a, c)
    <3>1. a \in trail'[c] <=> (a \in trail[c] \/ (a = f.op /\ c = f.id))
      BY <1>8, <2>1 DEF Audit, TypeInv, CategoryTypeOK
    <3>2. <<a, c>> \in Unlogged(f) <=> (a = f.op /\ c = f.id)
      BY <2>1 DEF Unlogged
    <3> QED
      BY <1>8, <3>1, <3>2 DEF Audit, Told
  <2> QED
    BY <1>1, <1>8, <2>2, LeaveTrail DEF Audit
<1>9. CASE ReadAll(r)
  <2>1. /\ Others(r) /\ frame'[r].pc = "cacheSet" /\ frame'[r].id = f.id
        /\ f.pc = "select"
    BY <1>0, <1>9 DEF ReadAll, At, Others, Frame, TypeInv, CategoryTypeOK
  <2>2. Unlogged(frame'[r]) = {} /\ Unlogged(f) = {}
    BY <2>1 DEF Unlogged
  <2> QED
    BY <1>2, <1>9, <2>1, <2>2 DEF ReadAll
<1>10. CASE Fill(r)
  BY <1>4, <1>10 DEF Fill, At, Unlogged
<1>11. CASE Abort(r)
  BY <1>3, <1>11 DEF Abort
<1> QED
  BY <1>5, <1>6, <1>7, <1>8, <1>9, <1>10, <1>11

LEMMA TrailStep ==
  TypeInv /\ TypeInv' /\ TrailInv /\ [CategoryNext]_categoryVars => TrailInv'
<1> SUFFICES ASSUME TypeInv, TypeInv', TrailInv, [CategoryNext]_categoryVars
             PROVE  TrailInv'
  OBVIOUS
<1>1. ASSUME \/ \E c \in Category : Refer(c) \/ Unrefer(c)
             \/ Expire \/ UNCHANGED categoryVars
      PROVE  TrailInv'
  <2>1. UNCHANGED <<category, born, frame, trail, lost>>
    BY <1>1 DEF Refer, Unrefer, Expire, categoryVars
  <2>2. \A c : /\ Exists(c)' = Exists(c)
              /\ \A a : Logged(a, c)' <=> Logged(a, c)
    BY <2>1 DEF Exists, Logged, Unlogged
  <2> QED
    BY <2>1, <2>2 DEF TrailInv
<1> QED
  BY <1>1, ArrivalTrail, WritesTrail, TailTrail DEF CategoryNext, Advance

LEMMA InitTrail == CategoryInit => TrailInv
<1> SUFFICES ASSUME CategoryInit PROVE TrailInv
  OBVIOUS
<1>1. \A r \in Request : frame[r].pc = "free" /\ Unlogged(frame[r]) = {}
  BY DEF CategoryInit, Free, Unlogged
<1>2. \A c \in Category :
        /\ "delete" \notin trail[c] /\ ("create" \in trail[c] <=> Exists(c))
        /\ Exists(c) <=> c \in born
  BY DEF CategoryInit
<1> QED
  BY <1>1, <1>2 DEF TrailInv, Logged, CategoryInit

\* What the log has as deleted is gone; what is there was logged as created,
\* and what was and is gone, as deleted, but for rows due or lost.
THEOREM LogTellsTruth == CategorySpec => []TrailTruthful
<1>1. TrailInv => TrailTruthful
  BY DEF TrailInv, TrailTruthful, Logged
<1> QED
  BY <1>1, TypeAlways, InitTrail, TrailStep, PTL DEF CategorySpec

----------------------------------------------------------------------------
(* The bulk upload.                                                        *)

RowPc == {"insert", "readRow", "put", "setUrl"}

UploadPc == RowPc \cup {"free", "slugs", "stock", "lists", "audit", "answered",
                        "error", "crashed"}

Upload == [pc : UploadPc, line : Nat, slugOf : [Slug -> Category \cup {Nil}],
           bad : SUBSET Lines, ok : SUBSET Lines, done : Nat,
           touched : SUBSET Category, drop : SUBSET ListKey]

Resolved(u, m) == u.slugOf[file[m].slug] # Nil

\* The slugs of the valid lines before l have been looked up.
Searching(u, l) ==
  /\ Lines \ Valid \subseteq u.bad
  /\ u.ok = {} /\ u.touched = {}
  /\ \A m \in Valid : m < l => m \in u.bad \/ Resolved(u, m)

\* The lines before l have their verdict, those that can be stored a category.
Judged(u, l) ==
  /\ Lines \ Valid \subseteq u.bad
  /\ u.ok \subseteq Valid \ u.bad
  /\ \A m \in Valid : m < l => m \in u.ok \cup u.bad
  /\ \A m \in u.ok : m < l
  /\ \A m \in Valid \ u.bad : Resolved(u, m)

Stored(u, t) == \A m \in u.ok : t[m] # Nil /\ t[m].images = file[m].images

\* The handler's variables at each point, t being the products.
UploadOK(u, t) ==
  /\ u.pc = "slugs" => u.line \in Valid /\ Searching(u, u.line)
  /\ u.pc \in RowPc => u.line \in Valid \ u.bad /\ Judged(u, u.line)
  /\ u.pc \in {"insert", "readRow"} => u.done = 0
  /\ u.pc \in {"readRow", "put", "setUrl"} =>
       /\ t[u.line] # Nil
       /\ t[u.line].category = RowCategory(u) /\ t[u.line].images = u.done
  /\ u.pc \in {"put", "setUrl"} =>
       u.done < file[u.line].images /\ RowCategory(u) \in u.touched
  /\ u.pc \in {"stock", "lists", "audit", "answered"} =>
       u.ok \cup u.bad = Lines /\ u.ok \cap u.bad = {}
  /\ Stored(u, t)

\* The lines are numbered from 1.
LEMMA LinesPositive ==
  ASSUME file \in Seq(Line)
  PROVE  /\ Lines \subseteq Nat \ {0} /\ Valid \subseteq Lines
         /\ \A l \in Lines : file[l] \in Line
BY DEF Lines, Valid

\* Before the next line are the line itself and those before it.
LEMMA UpToNext ==
  ASSUME NEW S \in SUBSET Nat, NEW l \in Nat
  PROVE  \A m \in S : m < l + 1 <=> m < l \/ m = l
OBVIOUS

\* A nonempty set of lines has a first.
LEMMA MinFirst ==
  ASSUME NEW S \in SUBSET Nat, S # {}
  PROVE  Min(S) \in S /\ \A m \in S : Min(S) <= m
<1> DEFINE R == OpToRel(<, Nat)
<1>1. PICK x \in S : \A y \in S : <<y, x>> \notin R
  BY NatLessThanWellFounded, WFMin
<1>2. \A y, z \in Nat : y < z => <<y, z>> \in R
  BY DEF OpToRel
<1> HIDE DEF R
<1>3. ASSUME NEW y \in S PROVE x <= y
  <2>1. x \in Nat /\ y \in Nat /\ ~(y < x)
    BY <1>1, <1>2
  <2> QED
    BY <2>1
<1> QED
  BY <1>3 DEF Min

\* Where NextRow takes a handler whose lines before l have their verdict.
LEMMA NextRowOK ==
  ASSUME file \in Seq(Line), NEW u \in Upload, NEW t, NEW l \in Nat,
         Judged(u, l), Stored(u, t)
  PROVE  /\ NextRow(u, l) \in Upload /\ UploadOK(NextRow(u, l), t)
         /\ NextRow(u, l).pc \in {"insert", "stock", "lists"}
         /\ NextRow(u, l).slugOf \in {u.slugOf, [s \in Slug |-> Nil]}
<1> DEFINE rest == Processable(u, l)
<1>1. rest \subseteq Valid \ u.bad /\ rest \subseteq Nat
      /\ \A m \in Valid \ u.bad : m >= l => m \in rest
  BY LinesPositive DEF Processable
<1>l. \A m \in rest : m \in Nat /\ m >= l
  BY LinesPositive DEF Processable
<1>2. CASE rest # {}
  <2> DEFINE v == [u EXCEPT !.pc = "insert", !.line = Min(rest), !.done = 0]
  <2>1. NextRow(u, l) = v
    BY <1>2 DEF NextRow
  <2>2. Min(rest) \in rest /\ \A m \in rest : Min(rest) <= m
    BY <1>1, <1>2, MinFirst
  <2> HIDE DEF rest
  <2>3. /\ v \in Upload
        /\ v.pc = "insert" /\ v.line = Min(rest) /\ v.done = 0
        /\ v.slugOf = u.slugOf /\ v.ok = u.ok /\ v.bad = u.bad
    BY <1>1, <2>2 DEF Upload, UploadPc, RowPc
  <2> HIDE DEF v
  <2>4. Judged(v, v.line)
    <3>a. v.line \in rest
      BY <2>2, <2>3
    <3>b. v.line \in Nat /\ v.line >= l
      BY <1>l, <3>a
    <3>0. Valid \subseteq Nat /\ v.line \in Nat /\ v.line >= l
      BY <3>b, LinesPositive
    <3>1. ASSUME NEW m \in Valid, m < v.line PROVE m < l \/ m \in u.bad
      <4>1. m \in Nat /\ m \notin rest
        BY <2>2, <2>3, <3>0, <3>1
      <4> QED
        BY <1>1, <4>1
    <3>2. ASSUME NEW m \in u.ok PROVE m < v.line
      <4>1. m \in Nat /\ m < l
        BY <3>0 DEF Judged
      <4> QED
        BY <3>0, <4>1
    <3> QED
      BY <2>3, <3>1, <3>2 DEF Judged, Resolved
  <2>5. UploadOK(v, t)
    BY <1>1, <2>2, <2>3, <2>4 DEF UploadOK, RowPc, Stored
  <2> QED
    BY <2>1, <2>3, <2>5
<1>3. CASE rest = {}
  <2> DEFINE v == [u EXCEPT !.pc = IF u.touched = {} THEN "lists" ELSE "stock",
                   !.line = 0, !.done = 0, !.slugOf = [s \in Slug |-> Nil],
                   !.drop = u.touched \cup {All}, !.touched = {}]
  <2>1. NextRow(u, l) = v
    BY <1>3 DEF NextRow
  <2>2. /\ v \in Upload
        /\ v.pc \in {"stock", "lists"} /\ v.ok = u.ok /\ v.bad = u.bad
        /\ v.slugOf = [s \in Slug |-> Nil]
    BY DEF Upload, UploadPc, RowPc, ListKey
  <2> HIDE DEF v
  <2>3. u.ok \cup u.bad = Lines /\ u.ok \cap u.bad = {}
    BY <1>1, <1>3, LinesPositive DEF Judged, Upload
  <2>4. UploadOK(v, t)
    BY <2>2, <2>3 DEF UploadOK, RowPc, Stored
  <2> QED
    BY <2>1, <2>2, <2>4
<1> QED
  BY <1>2, <1>3

LEMMA NextSlugOK ==
  ASSUME file \in Seq(Line), NEW u \in Upload, NEW t, NEW l \in Nat,
         Searching(u, l)
  PROVE  /\ NextSlug(u, l) \in Upload /\ UploadOK(NextSlug(u, l), t)
         /\ NextSlug(u, l).pc \in {"slugs", "insert", "stock", "lists"}
         /\ NextSlug(u, l).slugOf \in {u.slugOf, [s \in Slug |-> Nil]}
<1> DEFINE rest == Unresolved(u, l)
<1>1. /\ rest \subseteq Valid /\ rest \subseteq Nat
      /\ \A m \in Valid : m >= l => m \in rest \/ Resolved(u, m)
      /\ \A m \in rest : m >= l
  BY LinesPositive DEF Unresolved, Resolved
<1>2. CASE rest # {}
  <2> DEFINE v == [u EXCEPT !.pc = "slugs", !.line = Min(rest)]
  <2>1. NextSlug(u, l) = v
    BY <1>2 DEF NextSlug
  <2>2. Min(rest) \in rest /\ \A m \in rest : Min(rest) <= m
    BY <1>1, <1>2, MinFirst
  <2> HIDE DEF rest
  <2>3. /\ v \in Upload
        /\ v.pc = "slugs" /\ v.line = Min(rest)
        /\ v.slugOf = u.slugOf /\ v.ok = u.ok /\ v.bad = u.bad
        /\ v.touched = u.touched
    BY <1>1, <2>2 DEF Upload, UploadPc
  <2> HIDE DEF v
  <2>4. Searching(v, v.line)
    <3>0. Valid \subseteq Nat /\ v.line \in Nat
      BY <1>1, <2>2, <2>3, LinesPositive
    <3>1. ASSUME NEW m \in Valid, m < v.line PROVE m < l \/ Resolved(u, m)
      <4>1. m \in Nat /\ m \notin rest
        BY <2>2, <2>3, <3>0, <3>1
      <4> QED
        BY <1>1, <4>1
    <3> QED
      BY <2>3, <3>1 DEF Searching, Resolved
  <2>5. UploadOK(v, t)
    BY <1>1, <2>2, <2>3, <2>4 DEF UploadOK, RowPc, Stored, Searching
  <2> QED
    BY <2>1, <2>3, <2>5
<1>3. CASE rest = {}
  <2>1. NextSlug(u, l) = NextRow(u, 1)
    BY <1>3 DEF NextSlug
  <2>2. Judged(u, 1)
    BY <1>1, <1>3, LinesPositive DEF Searching, Judged
  <2>3. Stored(u, t)
    BY DEF Searching, Stored
  <2> QED
    BY <2>1, <2>2, <2>3, NextRowOK
<1> QED
  BY <1>2, <1>3

\* A line fails or succeeds, whatever there was left to do for it.
LEMMA RowOK ==
  ASSUME file \in Seq(Line), NEW u \in Upload, NEW t, UploadOK(u, t),
         u.pc \in RowPc
  PROVE  /\ FailRow(u) \in Upload /\ UploadOK(FailRow(u), t)
         /\ FailRow(u).pc \in {"insert", "stock", "lists"}
         /\ FailRow(u).slugOf \in {u.slugOf, [s \in Slug |-> Nil]}
<1> DEFINE v == [u EXCEPT !.bad = @ \cup {u.line}]
<1>1. u.line \in Valid \ u.bad /\ Judged(u, u.line) /\ Stored(u, t)
      /\ Valid \subseteq Lines /\ Valid \subseteq Nat
  BY LinesPositive DEF UploadOK
<1>a. u.line \in Nat
  BY <1>1
<1>2. /\ v \in Upload /\ v.bad = u.bad \cup {u.line}
      /\ v.ok = u.ok /\ v.slugOf = u.slugOf
  BY <1>1 DEF Upload
<1>3. FailRow(u) = NextRow(v, u.line + 1)
  BY DEF FailRow
<1> HIDE DEF v
<1>4. Judged(v, u.line + 1)
  <2>1. \A m \in Valid : m < u.line + 1 <=> m < u.line \/ m = u.line
    BY <1>1, <1>a, UpToNext
  <2>2. u.line \notin u.ok /\ u.ok \subseteq Valid
    BY <1>1, <1>a DEF Judged
  <2>3. \A m \in u.ok : m < u.line + 1
    BY <1>1, <2>1, <2>2 DEF Judged
  <2> QED
    BY <1>1, <1>2, <2>1, <2>2, <2>3 DEF Judged, Resolved
<1>5. Stored(v, t)
  BY <1>1, <1>2 DEF Stored
<1>6. u.line + 1 \in Nat
  BY <1>a
<1> QED
  BY <1>2, <1>3, <1>4, <1>5, <1>6, NextRowOK

\* The row is there with the images it has got so far: on to the next, or done.
LEMMA NextImageOK ==
  ASSUME file \in Seq(Line), NEW u \in Upload, NEW t,
         u.line \in Valid \ u.bad, Judged(u, u.line), Stored(u, t),
         t[u.line] # Nil, t[u.line].category = RowCategory(u),
         t[u.line].images = u.done, u.done <= file[u.line].images,
         RowCategory(u) \in u.touched
  PROVE  /\ NextImage(u) \in Upload /\ UploadOK(NextImage(u), t)
         /\ NextImage(u).pc \in {"put", "insert", "stock", "lists"}
         /\ NextImage(u).slugOf \in {u.slugOf, [s \in Slug |-> Nil]}
<1>0. Valid \subseteq Lines /\ Valid \subseteq Nat /\ file[u.line].images \in Nat
  BY LinesPositive DEF Line
<1>a. u.line \in Nat
  BY <1>0
<1>1. CASE u.done = file[u.line].images
  <2> DEFINE v == [u EXCEPT !.ok = @ \cup {u.line}]
  <2>1. /\ v \in Upload /\ v.ok = u.ok \cup {u.line}
        /\ v.bad = u.bad /\ v.slugOf = u.slugOf
    BY <1>0 DEF Upload
  <2>2. NextImage(u) = NextRow(v, u.line + 1)
    BY <1>1 DEF NextImage, SucceedRow
  <2> HIDE DEF v
  <2>3. Judged(v, u.line + 1)
    <3>1. \A m \in Valid : m < u.line + 1 <=> m < u.line \/ m = u.line
      BY <1>0, <1>a, UpToNext
    <3>2. \A m \in v.ok : m < u.line + 1
      BY <2>1, <3>1 DEF Judged
    <3> QED
      BY <2>1, <3>1, <3>2 DEF Judged, Resolved
  <2>4. Stored(v, t)
    BY <1>1, <2>1 DEF Stored
  <2>5. u.line + 1 \in Nat
    BY <1>a
  <2> DEFINE w == NextRow(v, u.line + 1)
  <2>6. /\ w \in Upload /\ UploadOK(w, t)
        /\ w.pc \in {"insert", "stock", "lists"}
        /\ w.slugOf \in {v.slugOf, [s \in Slug |-> Nil]}
    BY <2>1, <2>3, <2>4, <2>5, NextRowOK
  <2> HIDE DEF w
  <2> QED
    BY <2>1, <2>2, <2>6 DEF w
<1>2. CASE u.done # file[u.line].images
  <2> DEFINE v == [u EXCEPT !.pc = "put"]
  <2>1. /\ NextImage(u) = v
        /\ v \in Upload /\ v.pc = "put" /\ v.line = u.line /\ v.done = u.done
        /\ v.ok = u.ok /\ v.bad = u.bad /\ v.slugOf = u.slugOf
        /\ v.touched = u.touched
    BY <1>2 DEF NextImage, Upload, UploadPc, RowPc
  <2> HIDE DEF v
  <2>2. Judged(v, v.line) /\ Stored(v, t) /\ RowCategory(v) = RowCategory(u)
    BY <2>1 DEF Judged, Resolved, Stored, RowCategory
  <2>3. v.done < file[v.line].images
    BY <1>0, <1>2, <2>1 DEF Upload
  <2>4. UploadOK(v, t)
    BY <2>1, <2>2, <2>3 DEF UploadOK, RowPc
  <2> QED
    BY <2>1, <2>4
<1> QED
  BY <1>1, <1>2

Page == SUBSET (Nat \X Filed)

BulkType ==
  /\ file \in Seq(Line) /\ (upload.pc = "free" => file = <<>>)
  /\ upload \in Upload
  /\ product \in [Lines -> Filed \cup {Nil}]
  /\ list \in [ListKey -> Page \cup {Nil}]
  /\ reader \in [key : ListKey \cup {Nil}, val : Page]
  /\ named \in [Slug -> SUBSET Category]

\* Products are of valid lines and filed under a category in use that has had
\* the slug of the line; so has what the handler has found so far.
FiledOK ==
  /\ \A l \in Lines : product[l] # Nil =>
       /\ l \in Valid
       /\ product[l].category \in used \cap named[file[l].slug]
  /\ \A s \in Slug : upload.slugOf[s] # Nil => upload.slugOf[s] \in named[s]
  /\ upload.pc # "free" => \A s \in Slug : WithSlug(s) \subseteq named[s]

BulkInv == TypeInv /\ BulkType /\ UploadOK(upload, product) /\ FiledOK

LEMMA UploadSame ==
  ASSUME UNCHANGED <<file, product>>, UploadOK(upload', product)
  PROVE  UploadOK(upload, product)'
<1>1. Lines' = Lines /\ Valid' = Valid
  BY DEF Lines, Valid
<1> QED
  BY <1>1 DEF UploadOK, Judged, Searching, Resolved, Stored, RowCategory

LEMMA ViewPage ==
  ASSUME BulkType, NEW k
  PROVE  View(k) \in Page
BY LinesPositive DEF BulkType, View, Page

\* A step of the handler that leaves the tables alone.
LEMMA HandlerStep ==
  ASSUME BulkInv, UNCHANGED <<categoryVars, file, product, named>>,
         upload' \in Upload, UploadOK(upload', product),
         upload.pc # "free", upload'.pc # "free",
         \A s \in Slug : upload'.slugOf[s] # Nil => upload'.slugOf[s] \in named[s],
         list' \in [ListKey -> Page \cup {Nil}],
         reader' \in [key : ListKey \cup {Nil}, val : Page]
  PROVE  BulkInv'
<1>1. TypeInv'
  BY NextType DEF BulkInv
<1>2. UploadOK(upload, product)'
  BY UploadSame
<1>3. Lines' = Lines /\ Valid' = Valid /\ \A s : WithSlug(s)' = WithSlug(s)
  BY DEF Lines, Valid, WithSlug, Exists, categoryVars
<1>4. BulkType'
  <2>1. Upload' = Upload
    BY <1>3 DEF Upload
  <2> QED
    BY <1>3, <2>1 DEF BulkInv, BulkType
<1>5. FiledOK'
  BY <1>3 DEF BulkInv, FiledOK, categoryVars
<1> QED
  BY <1>1, <1>2, <1>4, <1>5 DEF BulkInv

LEMMA NamedStill ==
  ASSUME BulkInv, NEW w \in {upload.slugOf, [s \in Slug |-> Nil]}
  PROVE  \A s \in Slug : w[s] # Nil => w[s] \in named[s]
BY DEF BulkInv, FiledOK

LEMMA BlankOK ==
  ASSUME NEW pc \in {"free", "error", "crashed"}, NEW drop \in SUBSET ListKey, NEW t
  PROVE  /\ Blank(pc, drop) \in Upload /\ UploadOK(Blank(pc, drop), t)
         /\ Blank(pc, drop).pc = pc
         /\ Blank(pc, drop).slugOf = [s \in Slug |-> Nil]
BY DEF Blank, Upload, UploadPc, RowPc, UploadOK, Stored

LEMMA RowsInv ==
  ASSUME BulkInv, FindCategory \/ ReadRow \/ PutImage \/ RowFails
  PROVE  BulkInv'
<1> DEFINE u == upload
<1>1. /\ u \in Upload /\ UploadOK(u, product) /\ file \in Seq(Line)
      /\ list \in [ListKey -> Page \cup {Nil}]
      /\ reader \in [key : ListKey \cup {Nil}, val : Page]
  BY DEF BulkInv, BulkType
<1>2. /\ UNCHANGED <<categoryVars, file, product, list, reader, named>>
      /\ u.pc # "free"
  BY DEF FindCategory, ReadRow, PutImage, RowFails
<1>3. /\ Valid \subseteq Lines /\ Valid \subseteq Nat
      /\ \A m \in Lines : file[m] \in Line
  BY <1>1, LinesPositive
<1>4. CASE FindCategory
  <2> DEFINE s == file[u.line].slug
  <2>0. u.pc = "slugs" /\ u.line \in Valid /\ u.line \in Nat /\ Searching(u, u.line)
        /\ s \in Slug
    BY <1>1, <1>3, <1>4, CategoryNil DEF FindCategory, UploadOK, Valid, Parsed, Line
  <2>1. \A m \in Valid : m < u.line + 1 <=> m < u.line \/ m = u.line
    BY <1>3, <2>0, UpToNext
  <2>2. ASSUME upload' = NextSlug([u EXCEPT !.bad = @ \cup {u.line}], u.line + 1)
        PROVE  BulkInv'
    <3> DEFINE v == [u EXCEPT !.bad = @ \cup {u.line}]
    <3>1. /\ v \in Upload /\ v.bad = u.bad \cup {u.line} /\ v.ok = u.ok
          /\ v.touched = u.touched /\ v.slugOf = u.slugOf
      BY <1>1, <1>3, <2>0 DEF Upload
    <3> HIDE DEF v
    <3>2. Searching(v, u.line + 1)
      BY <2>0, <2>1, <3>1 DEF Searching, Resolved
    <3>3. /\ upload' \in Upload /\ UploadOK(upload', product)
          /\ upload'.pc \in {"slugs", "insert", "stock", "lists"}
          /\ upload'.slugOf \in {u.slugOf, [t \in Slug |-> Nil]}
      <4>1. upload' = NextSlug(v, u.line + 1) /\ u.line + 1 \in Nat
        BY <2>0, <2>2 DEF v
      <4> QED
        BY <1>1, <3>1, <3>2, <4>1, NextSlugOK
    <3> QED
      BY <1>1, <1>2, <3>3, NamedStill, HandlerStep
  <2>3. ASSUME NEW c \in WithSlug(s),
               upload' = NextSlug([u EXCEPT !.slugOf[s] = c], u.line + 1)
        PROVE  BulkInv'
    <3> DEFINE v == [u EXCEPT !.slugOf[s] = c]
    <3>0. c \in Category /\ c # Nil
      BY CategoryNil DEF WithSlug
    <3>1. /\ v \in Upload /\ v.bad = u.bad /\ v.ok = u.ok
          /\ v.touched = u.touched /\ v.slugOf = [u.slugOf EXCEPT ![s] = c]
      BY <1>1, <2>0, <3>0 DEF Upload
    <3>2. \A m \in Valid : Resolved(u, m) \/ m = u.line => Resolved(v, m)
      <4>1. \A m \in Valid : file[m].slug \in Slug
        BY <1>3 DEF Valid, Parsed, Line
      <4>2. u.slugOf \in [Slug -> Category \cup {Nil}]
        BY <1>1 DEF Upload
      <4> HIDE DEF v
      <4> QED
        BY <2>0, <3>0, <3>1, <4>1, <4>2 DEF Resolved
    <3>3. \A t \in Slug : v.slugOf[t] # Nil => v.slugOf[t] \in named[t]
      <4>1. WithSlug(s) \subseteq named[s]
        BY <1>2, <2>0 DEF BulkInv, FiledOK
      <4>2. u.slugOf \in [Slug -> Category \cup {Nil}]
        BY <1>1 DEF Upload
      <4>3. \A t \in Slug : u.slugOf[t] # Nil => u.slugOf[t] \in named[t]
        BY DEF BulkInv, FiledOK
      <4> HIDE DEF v, s, u
      <4> QED
        BY <2>0, <3>1, <4>1, <4>2, <4>3
    <3> HIDE DEF v
    <3>4. Searching(v, u.line + 1)
      BY <2>0, <2>1, <3>1, <3>2 DEF Searching
    <3>5. /\ upload' \in Upload /\ UploadOK(upload', product)
          /\ upload'.pc \in {"slugs", "insert", "stock", "lists"}
          /\ upload'.slugOf \in {v.slugOf, [t \in Slug |-> Nil]}
      <4>1. upload' = NextSlug(v, u.line + 1) /\ u.line + 1 \in Nat
        BY <2>0, <2>3 DEF v
      <4> QED
        BY <1>1, <3>1, <3>4, <4>1, NextSlugOK
    <3>6. \A t \in Slug : upload'.slugOf[t] # Nil => upload'.slugOf[t] \in named[t]
      BY <3>3, <3>5
    <3> QED
      BY <1>1, <1>2, <3>5, <3>6, HandlerStep
  <2> QED
    BY <1>4, <2>2, <2>3 DEF FindCategory
<1>5. CASE ReadRow
  <2> DEFINE v == [u EXCEPT !.touched = @ \cup {RowCategory(u)}]
  <2>1. /\ u.pc = "readRow" /\ upload' = NextImage(v) /\ u.line \in Valid \ u.bad
        /\ u.done = 0 /\ Judged(u, u.line) /\ Stored(u, product)
        /\ product[u.line] # Nil /\ product[u.line].category = RowCategory(u)
        /\ product[u.line].images = 0 /\ Resolved(u, u.line)
    BY <1>1, <1>5 DEF ReadRow, UploadOK, RowPc, Judged
  <2>2. file[u.line].slug \in Slug /\ file[u.line].images \in 0..2
    BY <1>3, <2>1, CategoryNil DEF Valid, Parsed, Line
  <2>3. RowCategory(u) \in Category
    BY <1>1, <2>1, <2>2 DEF Upload, RowCategory, Resolved
  <2>4. /\ v \in Upload /\ v.bad = u.bad /\ v.ok = u.ok /\ v.line = u.line
        /\ v.done = 0 /\ v.slugOf = u.slugOf
        /\ v.touched = u.touched \cup {RowCategory(u)}
    BY <1>1, <2>1, <2>3 DEF Upload
  <2> HIDE DEF v
  <2>5. /\ Judged(v, v.line) /\ Stored(v, product) /\ RowCategory(v) = RowCategory(u)
    BY <2>1, <2>4 DEF Judged, Resolved, Stored, RowCategory
  <2>6. 0 <= file[u.line].images
    BY <2>2
  <2>7. /\ NextImage(v) \in Upload /\ UploadOK(NextImage(v), product)
        /\ NextImage(v).pc \in {"put", "insert", "stock", "lists"}
        /\ NextImage(v).slugOf \in {v.slugOf, [t \in Slug |-> Nil]}
    <3>1. /\ v.line \in Valid \ v.bad /\ product[v.line] # Nil
          /\ product[v.line].category = RowCategory(v)
          /\ product[v.line].images = v.done /\ v.done <= file[v.line].images
          /\ RowCategory(v) \in v.touched
      BY <2>1, <2>4, <2>5, <2>6
    <3> QED
      BY <1>1, <2>4, <2>5, <3>1, NextImageOK
  <2> QED
    BY <1>1, <1>2, <2>1, <2>4, <2>7, NamedStill, HandlerStep
<1>6. CASE PutImage
  <2> DEFINE v == [u EXCEPT !.pc = "setUrl"]
  <2>1. u.pc = "put" /\ upload' = v
    BY <1>6 DEF PutImage
  <2>2. /\ v \in Upload /\ v.pc = "setUrl" /\ v.line = u.line /\ v.done = u.done
        /\ v.ok = u.ok /\ v.bad = u.bad /\ v.slugOf = u.slugOf
        /\ v.touched = u.touched
    BY <1>1 DEF Upload, UploadPc, RowPc
  <2> HIDE DEF v
  <2>3. UploadOK(v, product)
    BY <1>1, <2>1, <2>2
       DEF UploadOK, RowPc, Judged, Resolved, Stored, RowCategory
  <2> QED
    BY <1>1, <1>2, <2>1, <2>2, <2>3, NamedStill, HandlerStep
<1>7. CASE RowFails
  <2>1. u.pc \in RowPc /\ upload' = FailRow(u)
    BY <1>7 DEF RowFails, RowPc
  <2>2. /\ upload' \in Upload /\ UploadOK(upload', product)
        /\ upload'.pc \in {"insert", "stock", "lists"}
        /\ upload'.slugOf \in {u.slugOf, [t \in Slug |-> Nil]}
    BY <1>1, <2>1, RowOK
  <2> QED
    BY <1>1, <1>2, <2>2, NamedStill, HandlerStep
<1> QED
  BY <1>4, <1>5, <1>6, <1>7

\* After the rows, and when it all fails.
LEMMA DropsInv ==
  ASSUME BulkInv,
         \/ DelStock \/ UploadFails \/ Crash \/ AuditUpload
         \/ \E k \in ListKey : DropList(k) \/ DropFails(k)
  PROVE  BulkInv'
<1> DEFINE u == upload
<1>1. /\ u \in Upload /\ UploadOK(u, product)
      /\ list \in [ListKey -> Page \cup {Nil}]
      /\ reader \in [key : ListKey \cup {Nil}, val : Page]
  BY DEF BulkInv, BulkType
<1>2. /\ UNCHANGED <<categoryVars, file, product, reader, named>>
      /\ u.pc # "free" /\ list' \in [ListKey -> Page \cup {Nil}]
  BY <1>1 DEF DelStock, UploadFails, Crash, AuditUpload, DropList, DropFails
<1>3. ASSUME NEW v \in Upload, upload' = v, UploadOK(v, product), v.pc # "free",
             v.slugOf \in {u.slugOf, [s \in Slug |-> Nil]}
      PROVE  BulkInv'
  BY <1>1, <1>2, <1>3, NamedStill, HandlerStep
<1>4. ASSUME NEW pc \in {"error", "crashed"}, NEW drop \in SUBSET ListKey,
             upload' = Blank(pc, drop)
      PROVE  BulkInv'
  BY <1>3, <1>4, BlankOK
<1>5. CASE DelStock \/ AuditUpload
  <2> DEFINE v == [u EXCEPT !.pc = IF u.pc = "stock" THEN "lists" ELSE "answered"]
  <2>1. upload' = v /\ u.pc \in {"stock", "audit"}
    BY <1>5 DEF DelStock, AuditUpload
  <2>2. /\ v \in Upload /\ v.pc \in {"lists", "answered"}
        /\ v.ok = u.ok /\ v.bad = u.bad /\ v.slugOf = u.slugOf
    BY <1>1 DEF Upload, UploadPc
  <2> HIDE DEF v
  <2>3. UploadOK(v, product)
    BY <1>1, <2>1, <2>2 DEF UploadOK, RowPc, Stored
  <2> QED
    BY <1>3, <2>1, <2>2, <2>3
<1>6. CASE UploadFails \/ Crash
  BY <1>4, <1>6 DEF UploadFails, Crash
<1>7. ASSUME NEW k \in ListKey, DropFails(k) PROVE BulkInv'
  <2>1. u.drop \ {k} \in SUBSET ListKey
    BY <1>1 DEF Upload
  <2> QED
    BY <1>4, <1>7, <2>1 DEF DropFails
<1>8. ASSUME NEW k \in ListKey, DropList(k) PROVE BulkInv'
  <2> DEFINE v == Dropped(u, k)
  <2>1. upload' = v /\ u.pc \in {"lists", "error"}
    BY <1>8 DEF DropList
  <2>2. /\ v \in Upload /\ v.pc \in {u.pc, "audit"}
        /\ v.pc = "audit" => u.pc = "lists"
        /\ v.ok = u.ok /\ v.bad = u.bad /\ v.slugOf = u.slugOf
    BY <1>1, <2>1 DEF Dropped, Upload, UploadPc
  <2> HIDE DEF v
  <2>3. UploadOK(v, product)
    BY <1>1, <2>1, <2>2 DEF UploadOK, RowPc, Stored
  <2> QED
    BY <1>3, <2>1, <2>2, <2>3
<1> QED
  BY <1>5, <1>6, <1>7, <1>8

\* A row with its category, or with one more image.
LEMMA TableInv ==
  ASSUME BulkInv, InsertRow \/ SetUrl
  PROVE  BulkInv' /\ [CategoryNext]_categoryVars
<1> DEFINE u == upload
           c == RowCategory(u)
<1>1. /\ u \in Upload /\ UploadOK(u, product) /\ file \in Seq(Line)
      /\ product \in [Lines -> Filed \cup {Nil}]
      /\ list \in [ListKey -> Page \cup {Nil}]
      /\ reader \in [key : ListKey \cup {Nil}, val : Page]
      /\ named \in [Slug -> SUBSET Category]
  BY DEF BulkInv, BulkType
<1>2. UNCHANGED <<file, list, reader, named, category, born, all, frame, trail,
                  lost, excused>>
  BY DEF InsertRow, SetUrl, categoryVars
<1>3. /\ Valid \subseteq Lines /\ Valid \subseteq Nat
      /\ \A m \in Lines : file[m] \in Line
  BY <1>1, LinesPositive
<1>4. /\ Lines' = Lines /\ Valid' = Valid /\ Upload' = Upload
      /\ \A s : WithSlug(s)' = WithSlug(s)
  BY <1>2 DEF Lines, Valid, Upload, WithSlug, Exists
<1>5. /\ u.pc \in {"insert", "setUrl"}
      /\ u.line \in Valid \ u.bad /\ u.line \in Lines
      /\ Judged(u, u.line) /\ Stored(u, product)
      /\ file[u.line].slug \in Slug /\ file[u.line].images \in 0..2
      /\ u.line \notin u.ok /\ u.ok \subseteq Valid
      /\ c \in Category /\ c \in named[file[u.line].slug]
  <2>1. /\ u.pc \in {"insert", "setUrl"} /\ u.line \in Valid \ u.bad
        /\ Judged(u, u.line) /\ Stored(u, product)
    BY <1>1 DEF InsertRow, SetUrl, UploadOK, RowPc
  <2>2. file[u.line].slug \in Slug /\ file[u.line].images \in 0..2
    BY <1>3, <2>1, CategoryNil DEF Valid, Parsed, Line
  <2>3. c # Nil
    BY <2>1 DEF Judged, Resolved, RowCategory
  <2>4. c \in Category
    BY <1>1, <2>2, <2>3 DEF Upload, RowCategory
  <2>5. c \in named[file[u.line].slug]
    BY <2>2, <2>3 DEF BulkInv, FiledOK, RowCategory
  <2>6. u.line \in Nat /\ u.line \notin u.ok /\ u.ok \subseteq Valid
    <3>0. u.line \in Nat
      BY <1>3, <2>1
    <3>1. u.line \in Nat /\ ~(u.line < u.line)
      BY <3>0
    <3>2. u.ok \subseteq Valid /\ \A m \in u.ok : m < u.line
      BY <2>1 DEF Judged
    <3> QED
      BY <3>1, <3>2
  <2> QED
    BY <1>3, <2>1, <2>2, <2>4, <2>5, <2>6
<1>6. ASSUME NEW v \in Upload, upload' = v, UploadOK(v, product'), v.pc # "free",
             v.slugOf \in {u.slugOf, [s \in Slug |-> Nil]},
             NEW p \in Filed, product' = [product EXCEPT ![u.line] = p],
             p.category \in used' \cap named[file[u.line].slug],
             used \subseteq used', [CategoryNext]_categoryVars
      PROVE  BulkInv'
  <2>1. TypeInv'
    BY <1>6, NextType DEF BulkInv
  <2>2. UploadOK(upload, product)'
    <3>1. UploadOK(upload', product')
      BY <1>6
    <3> QED
      BY <1>2, <1>4, <3>1
         DEF UploadOK, Judged, Searching, Resolved, Stored, RowCategory
  <2>3. product' \in [Lines -> Filed \cup {Nil}]
    BY <1>1, <1>6
  <2>4. BulkType'
    BY <1>1, <1>2, <1>4, <1>6, <2>3 DEF BulkType
  <2>5. FiledOK'
    <3>1. ASSUME NEW l \in Lines, product'[l] # Nil
          PROVE  /\ l \in Valid
                 /\ product'[l].category \in used' \cap named[file[l].slug]
      <4>1. CASE l = u.line
        BY <1>1, <1>5, <1>6, <4>1
      <4>2. CASE l # u.line
        BY <1>1, <1>6, <3>1, <4>2 DEF BulkInv, FiledOK
      <4> QED
        BY <4>1, <4>2
    <3>2. \A s \in Slug : v.slugOf[s] # Nil => v.slugOf[s] \in named[s]
      BY <1>6, NamedStill
    <3>3. \A s \in Slug : WithSlug(s) \subseteq named[s]
      BY <1>5 DEF BulkInv, FiledOK
    <3> QED
      BY <1>2, <1>4, <1>6, <3>1, <3>2, <3>3 DEF FiledOK
  <2> QED
    BY <2>1, <2>2, <2>4, <2>5 DEF BulkInv
<1>7. CASE InsertRow
  <2>1. CASE Exists(c) /\ Fits(file[u.line])
    <3> DEFINE p == [category |-> c, images |-> 0]
               v == [u EXCEPT !.pc = "readRow"]
    <3>1. /\ u.pc = "insert" /\ product' = [product EXCEPT ![u.line] = p]
          /\ used' = used \cup {c} /\ upload' = v
      BY <1>7, <2>1 DEF InsertRow
    <3>2. p \in Filed /\ p # Nil /\ p.category = c /\ p.images = 0
      BY <1>5, BulkNames DEF Filed
    <3>3. /\ v \in Upload /\ v.pc = "readRow" /\ v.line = u.line /\ v.done = u.done
          /\ v.ok = u.ok /\ v.bad = u.bad /\ v.slugOf = u.slugOf
      BY <1>1 DEF Upload, UploadPc, RowPc
    <3>c. Refer(c)
      BY <1>2, <2>1, <3>1 DEF Refer
    <3>4. [CategoryNext]_categoryVars
      BY <1>5, <3>c DEF CategoryNext
    <3> HIDE DEF p, v
    <3>5. product'[u.line] = p /\ \A l \in u.ok : product'[l] = product[l]
      BY <1>1, <1>3, <1>5, <3>1
    <3>6. Judged(v, v.line) /\ Stored(v, product') /\ RowCategory(v) = c
      BY <1>5, <3>3, <3>5 DEF Judged, Resolved, Stored, RowCategory
    <3>7. u.done = 0
      BY <1>1, <3>1 DEF UploadOK
    <3>8. UploadOK(v, product')
      BY <1>5, <3>2, <3>3, <3>5, <3>6, <3>7 DEF UploadOK, RowPc
    <3>9. p.category \in used' \cap named[file[u.line].slug]
      BY <1>5, <3>1, <3>2
    <3>10. v.pc # "free" /\ v.slugOf \in {u.slugOf, [s \in Slug |-> Nil]}
           /\ used \subseteq used'
      BY <3>1, <3>3
    <3> QED
      BY <1>6, <3>1, <3>2, <3>3, <3>4, <3>8, <3>9, <3>10
  <2>2. CASE ~(Exists(c) /\ Fits(file[u.line]))
    <3>1. /\ upload' = FailRow(u) /\ u.pc = "insert"
          /\ UNCHANGED <<categoryVars, file, product, list, reader, named>>
      BY <1>7, <2>2 DEF InsertRow, categoryVars
    <3>2. /\ FailRow(u) \in Upload /\ UploadOK(FailRow(u), product)
          /\ FailRow(u).pc \in {"insert", "stock", "lists"}
          /\ FailRow(u).slugOf \in {u.slugOf, [s \in Slug |-> Nil]}
      BY <1>1, <3>1, RowOK DEF RowPc
    <3> QED
      BY <1>1, <3>1, <3>2, NamedStill, HandlerStep
  <2> QED
    BY <2>1, <2>2
<1>8. CASE SetUrl
  <2> DEFINE v == [u EXCEPT !.done = @ + 1]
             p == [product[u.line] EXCEPT !.images = @ + 1]
  <2>1. /\ u.pc = "setUrl" /\ product' = [product EXCEPT ![u.line] = p]
        /\ upload' = NextImage(v) /\ UNCHANGED categoryVars
    BY <1>8 DEF SetUrl
  <2>2. /\ product[u.line] # Nil /\ product[u.line].category = c
        /\ product[u.line].images = u.done /\ u.done < file[u.line].images
        /\ c \in u.touched
    BY <1>1, <2>1 DEF UploadOK
  <2>3. product[u.line] \in Filed /\ u.done \in Nat
    BY <1>1, <1>5, <2>2 DEF Upload
  <2>4. /\ u.done + 1 \in Nat /\ u.done + 1 \in 0..2
        /\ u.done + 1 <= file[u.line].images
    BY <1>5, <2>2, <2>3
  <2>5. p \in Filed /\ p # Nil /\ p.category = c /\ p.images = u.done + 1
    BY <2>2, <2>3, <2>4, BulkNames DEF Filed
  <2>6. /\ v \in Upload /\ v.line = u.line /\ v.done = u.done + 1
        /\ v.ok = u.ok /\ v.bad = u.bad /\ v.slugOf = u.slugOf
        /\ v.touched = u.touched
    BY <1>1, <2>4 DEF Upload
  <2> HIDE DEF p, v
  <2>7. product'[u.line] = p /\ \A l \in u.ok : product'[l] = product[l]
    BY <1>1, <1>3, <1>5, <2>1
  <2>8. Judged(v, v.line) /\ Stored(v, product') /\ RowCategory(v) = c
    BY <1>5, <2>6, <2>7 DEF Judged, Resolved, Stored, RowCategory
  <2> DEFINE w == NextImage(v)
  <2>9. /\ w \in Upload /\ UploadOK(w, product')
        /\ w.pc \in {"put", "insert", "stock", "lists"}
        /\ w.slugOf \in {v.slugOf, [s \in Slug |-> Nil]}
    <3>1. /\ v.line \in Valid \ v.bad /\ product'[v.line] # Nil
          /\ product'[v.line].category = RowCategory(v)
          /\ product'[v.line].images = v.done /\ v.done <= file[v.line].images
          /\ RowCategory(v) \in v.touched
      BY <1>5, <2>2, <2>4, <2>5, <2>6, <2>7, <2>8
    <3> QED
      BY <1>1, <2>6, <2>8, <3>1, NextImageOK
  <2> HIDE DEF w
  <2>10. p.category \in used /\ used' = used
    <3>1. product[u.line].category \in used
      BY <1>5, <2>2 DEF BulkInv, FiledOK
    <3> QED
      BY <2>1, <2>2, <2>5, <3>1 DEF categoryVars
  <2>11. /\ upload' = w /\ w.pc # "free"
         /\ w.slugOf \in {u.slugOf, [s \in Slug |-> Nil]}
         /\ p.category \in used' \cap named[file[u.line].slug]
         /\ used \subseteq used'
    BY <1>5, <2>1, <2>5, <2>6, <2>9, <2>10 DEF w
  <2>12. [CategoryNext]_categoryVars
    BY <2>1
  <2> QED
    BY <1>6, <2>1, <2>5, <2>9, <2>11, <2>12
<1>9. [CategoryNext]_categoryVars
  <2>1. ASSUME InsertRow, Exists(c) PROVE Refer(c) \/ used' = used
    BY <2>1 DEF InsertRow, Refer
  <2>2. ASSUME InsertRow, ~Exists(c) PROVE used' = used
    BY <2>2 DEF InsertRow
  <2>3. InsertRow => Refer(c) \/ UNCHANGED categoryVars
    BY <1>2, <2>1, <2>2 DEF categoryVars
  <2>4. SetUrl => UNCHANGED categoryVars
    BY DEF SetUrl
  <2> QED
    BY <1>5, <2>3, <2>4 DEF CategoryNext
<1> QED
  BY <1>7, <1>8, <1>9

\* A step of others, which may only add to the categories that had a slug.
LEMMA UploadStays ==
  ASSUME BulkInv, [CategoryNext]_categoryVars, used' = used,
         UNCHANGED <<file, product, upload>>,
         named' \in [Slug -> SUBSET Category],
         \A s \in Slug : named[s] \subseteq named'[s],
         upload.pc # "free" => \A s \in Slug : WithSlug(s)' \subseteq named'[s],
         list' \in [ListKey -> Page \cup {Nil}],
         reader' \in [key : ListKey \cup {Nil}, val : Page]
  PROVE  BulkInv'
<1>1. TypeInv'
  BY NextType DEF BulkInv
<1>2. UploadOK(upload, product)'
  BY UploadSame DEF BulkInv
<1>3. Lines' = Lines /\ Valid' = Valid
  BY DEF Lines, Valid
<1>4. BulkType'
  <2>1. Upload' = Upload
    BY <1>3 DEF Upload
  <2> QED
    BY <1>3, <2>1 DEF BulkInv, BulkType
<1>5. FiledOK'
  <2>1. \A l \in Valid : file[l].slug \in Slug
    BY LinesPositive, CategoryNil DEF BulkInv, BulkType, Valid, Parsed, Line
  <2> QED
    BY <1>3, <2>1 DEF BulkInv, FiledOK
<1> QED
  BY <1>1, <1>2, <1>4, <1>5 DEF BulkInv

\* Requests for categories leave what products refer to alone.
LEMMA CategoryStepInv ==
  ASSUME BulkInv, CategoryStep
  PROVE  BulkInv' /\ [CategoryNext]_categoryVars
<1>1. CategoryNext /\ used' = used
  <2>1. PICK r \in Request :
             \/ \E c \in Category, s \in Slug : UpdateCategory(r, c, Nil, s)
             \/ \E c \in Category : DeleteCategory(r, c)
             \/ Advance(r)
    BY DEF CategoryStep
  <2>2. CASE Advance(r)
    <3>1. CategoryNext
      BY <2>2 DEF CategoryNext
    <3>2. used' = used
      BY <2>2 DEF Advance, InsertCategory, FindSlug, UpdateRow, ReadBack, DeleteRow,
                  DelAll, Audit, ReadAll, Fill
    <3> QED
      BY <3>1, <3>2
  <2>3. ASSUME ~Advance(r) PROVE CategoryNext /\ used' = used
    <3>1. Arrival(r)
      BY <2>1, <2>3 DEF Arrival
    <3>2. CategoryNext
      BY <3>1 DEF CategoryNext
    <3>3. used' = used
      BY <2>1, <2>3 DEF UpdateCategory, DeleteCategory, Arrive
    <3> QED
      BY <3>2, <3>3
  <2> QED
    BY <2>2, <2>3
<1>2. /\ UNCHANGED <<file, upload, product, list, reader>>
      /\ named' = IF upload.pc = "free" THEN named
                  ELSE [s \in Slug |-> named[s] \cup WithSlug(s)']
  BY DEF CategoryStep
<1>3. \A s \in Slug : WithSlug(s)' \subseteq Category
  BY DEF WithSlug
<1>4. /\ named' \in [Slug -> SUBSET Category]
      /\ \A s \in Slug : named[s] \subseteq named'[s]
      /\ upload.pc # "free" => \A s \in Slug : WithSlug(s)' \subseteq named'[s]
  BY <1>2, <1>3 DEF BulkInv, BulkType
<1> QED
  BY <1>1, <1>2, <1>4, UploadStays DEF BulkInv, BulkType

\* The upload arrives.
LEMMA StartInv ==
  ASSUME BulkInv, NEW f \in File, StartUpload(f)
  PROVE  BulkInv'
<1> DEFINE looked == {l \in DOMAIN f : Parsed(f[l])}
           u == [Blank("slugs", {}) EXCEPT !.bad = DOMAIN f \ looked]
<1>1. /\ file' = f /\ product' = [l \in DOMAIN f |-> Nil]
      /\ upload' = IF looked = {} THEN [u EXCEPT !.pc = "lists", !.drop = {All}]
                   ELSE [u EXCEPT !.line = Min(looked)]
      /\ named' = [s \in Slug |-> WithSlug(s)]
      /\ UNCHANGED <<categoryVars, list, reader>>
  BY DEF StartUpload
<1>2. f \in Seq(Line) /\ DOMAIN f \subseteq Nat
  BY BulkFiles
<1>3. Lines' = DOMAIN f /\ Valid' = looked
  BY <1>1 DEF Lines, Valid
<1>4. TypeInv'
  BY <1>1, NextType DEF BulkInv
<1>5. \A s \in Slug : WithSlug(s)' = WithSlug(s) /\ WithSlug(s) \subseteq Category
  BY <1>1 DEF WithSlug, Exists, categoryVars
<1>6. /\ upload' \in Upload' /\ UploadOK(upload, product)'
      /\ upload'.slugOf = [s \in Slug |-> Nil] /\ upload'.pc # "free"
  <2>1. CASE looked = {}
    <3>1. upload' = [u EXCEPT !.pc = "lists", !.drop = {All}]
      BY <1>1, <2>1
    <3>2. /\ upload'.pc = "lists" /\ upload'.ok = {} /\ upload'.bad = DOMAIN f
          /\ upload'.slugOf = [s \in Slug |-> Nil]
      BY <2>1, <3>1 DEF Blank
    <3>3. upload' \in Upload'
      BY <1>3, <3>1 DEF Blank, Upload, UploadPc, RowPc, ListKey
    <3>4. UploadOK(upload, product)'
      BY <1>3, <3>2 DEF UploadOK, RowPc, Stored
    <3> QED
      BY <3>2, <3>3, <3>4
  <2>2. CASE looked # {}
    <3> DEFINE first == Min(looked)
    <3>1. upload' = [u EXCEPT !.line = first]
      BY <1>1, <2>2
    <3>2. first \in looked /\ \A m \in looked : first <= m
      <4>1. looked \in SUBSET Nat
        BY <1>2
      <4> HIDE DEF looked
      <4> QED
        BY <2>2, <4>1, MinFirst
    <3>3. first \in Nat /\ \A m \in looked : m \in Nat /\ ~(m < first)
      <4>1. \A m \in looked : m \in Nat
        BY <1>2
      <4> HIDE DEF looked, first
      <4> QED
        BY <3>2, <4>1
    <3> HIDE DEF first
    <3>4. /\ upload'.pc = "slugs" /\ upload'.ok = {}
          /\ upload'.bad = DOMAIN f \ looked
          /\ upload'.slugOf = [s \in Slug |-> Nil] /\ upload'.line = first
          /\ upload'.touched = {}
      BY <3>1 DEF Blank
    <3>5. upload' \in Upload'
      BY <1>3, <3>1, <3>3 DEF Blank, Upload, UploadPc, RowPc
    <3>6. Searching(upload, upload.line)'
      BY <1>3, <3>3, <3>4 DEF Searching
    <3>7. UploadOK(upload, product)'
      BY <1>3, <3>2, <3>4, <3>6 DEF UploadOK, RowPc, Stored
    <3> QED
      BY <3>4, <3>5, <3>7
  <2> QED
    BY <2>1, <2>2
<1>7. BulkType'
  <2>1. product' \in [DOMAIN f -> Filed \cup {Nil}]
    BY <1>1
  <2> QED
    BY <1>1, <1>2, <1>3, <1>5, <1>6, <2>1 DEF BulkInv, BulkType
<1>8. FiledOK'
  BY <1>1, <1>3, <1>5, <1>6 DEF FiledOK
<1> QED
  BY <1>4, <1>6, <1>7, <1>8 DEF BulkInv

\* Reading, filling and losing a list leaves the upload alone.
LEMMA ListsInv ==
  ASSUME BulkInv,
         FillList \/ \E k \in ListKey : ReadList(k) \/ ExpireList(k)
  PROVE  BulkInv'
<1>1. UNCHANGED <<categoryVars, file, product, named, upload>>
  BY DEF FillList, ReadList, ExpireList
<1>2. /\ list' \in [ListKey -> Page \cup {Nil}]
      /\ reader' \in [key : ListKey \cup {Nil}, val : Page]
  <2>0. /\ list \in [ListKey -> Page \cup {Nil}]
        /\ reader \in [key : ListKey \cup {Nil}, val : Page]
        /\ {} \in Page
    BY DEF BulkInv, BulkType, Page
  <2>1. CASE FillList
    BY <2>0, <2>1 DEF FillList
  <2>2. ASSUME NEW k \in ListKey, ReadList(k) \/ ExpireList(k)
        PROVE  /\ list' \in [ListKey -> Page \cup {Nil}]
               /\ reader' \in [key : ListKey \cup {Nil}, val : Page]
    <3>1. View(k) \in Page
      BY ViewPage DEF BulkInv
    <3> QED
      BY <2>0, <2>2, <3>1 DEF ReadList, ExpireList
  <2> QED
    BY <2>1, <2>2
<1>3. /\ named' \in [Slug -> SUBSET Category] /\ used' = used
      /\ upload.pc # "free" => \A s \in Slug : WithSlug(s)' \subseteq named'[s]
  BY <1>1 DEF BulkInv, BulkType, FiledOK, WithSlug, Exists, categoryVars
<1> QED
  BY <1>1, <1>2, <1>3, UploadStays


LEMMA BulkStep ==
  BulkInv /\ [BulkNext]_bulkSystemVars => BulkInv' /\ [CategoryNext]_categoryVars
<1> SUFFICES ASSUME BulkInv, [BulkNext]_bulkSystemVars
             PROVE  BulkInv' /\ [CategoryNext]_categoryVars
  OBVIOUS
<1>1. CASE UNCHANGED bulkSystemVars
  <2>1. /\ UNCHANGED <<categoryVars, file, product, upload, named, list, reader>>
        /\ used' = used
    BY <1>1 DEF bulkSystemVars, bulkVars, categoryVars
  <2>2. /\ named' \in [Slug -> SUBSET Category]
        /\ upload.pc # "free" => \A s \in Slug : WithSlug(s)' \subseteq named'[s]
    BY <2>1 DEF BulkInv, BulkType, FiledOK, WithSlug, Exists, categoryVars
  <2> QED
    BY <2>1, <2>2, UploadStays DEF BulkInv, BulkType
<1>2. ASSUME NEW f \in File, StartUpload(f)
      PROVE  BulkInv' /\ [CategoryNext]_categoryVars
  BY <1>2, StartInv DEF StartUpload
<1>3. CASE InsertRow \/ SetUrl
  BY <1>3, TableInv
<1>4. CASE FindCategory \/ ReadRow \/ PutImage \/ RowFails
  BY <1>4, RowsInv DEF FindCategory, ReadRow, PutImage, RowFails
<1>5. CASE \/ DelStock \/ UploadFails \/ Crash \/ AuditUpload
           \/ \E k \in ListKey : DropList(k) \/ DropFails(k)
  <2>1. UNCHANGED categoryVars
    BY <1>5 DEF DelStock, UploadFails, Crash, AuditUpload, DropList, DropFails
  <2> QED
    BY <1>5, <2>1, DropsInv
<1>6. CASE FillList \/ \E k \in ListKey : ReadList(k) \/ ExpireList(k)
  <2>1. UNCHANGED categoryVars
    BY <1>6 DEF FillList, ReadList, ExpireList
  <2> QED
    BY <1>6, <2>1, ListsInv
<1>7. CASE CategoryStep
  BY <1>7, CategoryStepInv
<1> QED
  BY <1>1, <1>2, <1>3, <1>4, <1>5, <1>6, <1>7 DEF BulkNext, UploadStep

LEMMA BulkStarts == BulkInit => BulkInv
<1> SUFFICES ASSUME BulkInit PROVE BulkInv
  OBVIOUS
<1>1. TypeInv
  BY InitType DEF BulkInit
<1>2. /\ file = <<>> /\ Lines = {} /\ product = <<>>
      /\ upload = Blank("free", {})
  BY DEF BulkInit, Lines
<1>3. /\ upload \in Upload /\ UploadOK(upload, product) /\ upload.pc = "free"
      /\ upload.slugOf = [s \in Slug |-> Nil]
  BY <1>2, BlankOK
<1>4. BulkType
  <2>1. <<>> \in Seq(Line) /\ <<>> \in [{} -> Filed \cup {Nil}] /\ {} \in Page
    BY DEF Page
  <2> QED
    BY <1>2, <1>3, <2>1 DEF BulkInit, BulkType
<1>5. FiledOK
  BY <1>2, <1>3 DEF FiledOK
<1> QED
  BY <1>1, <1>3, <1>4, <1>5 DEF BulkInv

LEMMA BulkAlways == BulkSpec => []BulkInv
BY BulkStarts, BulkStep, PTL DEF BulkSpec

\* The upload, and whatever it does to the categories on its way, is behaviour
\* the categories' own specification allows: to them its rows are references
\* that come (category.handlers.ts, bulk.handlers.ts:92).
THEOREM BulkRespectsCategories == BulkSpec => CategorySpec
<1>1. BulkInit => CategoryInit
  BY DEF BulkInit
<1> QED
  BY <1>1, BulkStep, BulkAlways, PTL DEF BulkSpec, CategorySpec

\* The answer's numbers add up, whatever failed and wherever.
THEOREM BulkReportExact == BulkSpec => []ReportExact
<1>1. BulkInv => ReportExact
  BY DEF BulkInv, UploadOK, ReportExact
<1> QED
  BY <1>1, BulkAlways, PTL

\* What is counted as stored is in the table, with all its images, under a
\* category that exists.
THEOREM BulkReportedDone == BulkSpec => []ReportedDone
<1>1. BulkInv => ReportedDone
  <2> SUFFICES ASSUME BulkInv, NEW l \in upload.ok
               PROVE  /\ product[l] # Nil /\ product[l].images = file[l].images
                      /\ Exists(product[l].category)
    BY DEF ReportedDone
  <2>1. product[l] # Nil /\ product[l].images = file[l].images
    BY DEF BulkInv, UploadOK, Stored
  <2>2. l \in Lines
    BY DEF BulkInv, BulkType, Upload
  <2>3. product[l].category \in used
    BY <2>1, <2>2 DEF BulkInv, FiledOK
  <2> QED
    BY <2>1, <2>3 DEF BulkInv, TypeInv, CategoryTypeOK
<1> QED
  BY <1>1, BulkAlways, PTL

\* A product is filed under a category that had its line's slug.
THEOREM BulkFiledUnderSlug == BulkSpec => []FiledUnderSlug
<1>1. BulkInv => FiledUnderSlug
  BY DEF BulkInv, FiledOK, FiledUnderSlug
<1> QED
  BY <1>1, BulkAlways, PTL

----------------------------------------------------------------------------
(* Lines are inserted in order: the ones still to come have no row.        *)

NoRowFrom(l, t) == \A m \in Lines : m >= l => t[m] = Nil

AheadOK(u, t) ==
  /\ u.pc = "slugs" => NoRowFrom(0, t)
  /\ u.pc = "insert" => NoRowFrom(u.line, t)
  /\ u.pc \in {"readRow", "put", "setUrl"} => NoRowFrom(u.line + 1, t)

LEMMA NextRowAhead ==
  ASSUME file \in Seq(Line), NEW u \in Upload, NEW t, NEW l \in Nat, NoRowFrom(l, t)
  PROVE  AheadOK(NextRow(u, l), t)
<1> DEFINE rest == Processable(u, l)
<1>1. CASE rest # {}
  <2> DEFINE first == Min(rest)
             v == [u EXCEPT !.pc = "insert", !.line = first, !.done = 0]
  <2>1. NextRow(u, l) = v
    BY <1>1 DEF NextRow
  <2>2. rest \in SUBSET Nat /\ \A m \in rest : m >= l
    BY LinesPositive DEF Processable
  <2> HIDE DEF rest
  <2>3. first \in rest
    BY <1>1, <2>2, MinFirst
  <2>4. first \in Nat /\ first >= l
    BY <2>2, <2>3
  <2> HIDE DEF first
  <2>5. v.pc = "insert" /\ v.line = first
    BY DEF Upload
  <2> HIDE DEF v
  <2>6. NoRowFrom(first, t)
    <3>1. Lines \subseteq Nat
      BY LinesPositive
    <3>2. \A m \in Nat : m >= first => m >= l
      BY <2>4
    <3> QED
      BY <3>1, <3>2 DEF NoRowFrom
  <2> QED
    BY <2>1, <2>5, <2>6 DEF AheadOK
<1>2. CASE rest = {}
  <2> DEFINE v == [u EXCEPT !.pc = IF u.touched = {} THEN "lists" ELSE "stock",
                   !.line = 0, !.done = 0, !.slugOf = [s \in Slug |-> Nil],
                   !.drop = u.touched \cup {All}, !.touched = {}]
  <2>1. NextRow(u, l) = v
    BY <1>2 DEF NextRow
  <2>2. v.pc \in {"lists", "stock"}
    BY DEF Upload
  <2> HIDE DEF v
  <2> QED
    BY <2>1, <2>2 DEF AheadOK
<1> QED
  BY <1>1, <1>2

LEMMA NextSlugAhead ==
  ASSUME file \in Seq(Line), NEW u \in Upload, NEW t, NEW l \in Nat, NoRowFrom(0, t)
  PROVE  AheadOK(NextSlug(u, l), t)
<1>1. CASE Unresolved(u, l) # {}
  <2> DEFINE v == [u EXCEPT !.pc = "slugs", !.line = Min(Unresolved(u, l))]
  <2>1. NextSlug(u, l) = v /\ v.pc = "slugs"
    BY <1>1 DEF NextSlug, Upload
  <2> HIDE DEF v
  <2> QED
    BY <2>1 DEF AheadOK
<1>2. CASE Unresolved(u, l) = {}
  <2>1. NextSlug(u, l) = NextRow(u, 1)
    BY <1>2 DEF NextSlug
  <2>2. NoRowFrom(1, t)
    <3>1. Lines \subseteq Nat
      BY LinesPositive
    <3>2. \A m \in Nat : m >= 0
      OBVIOUS
    <3> QED
      BY <3>1, <3>2 DEF NoRowFrom
  <2> QED
    BY <2>1, <2>2, NextRowAhead
<1> QED
  BY <1>1, <1>2

\* Past the line at hand there is no row, whatever becomes of it.
LEMMA PastLine ==
  ASSUME file \in Seq(Line), NEW u \in Upload, NEW t, u.line \in Lines,
         AheadOK(u, t), u.pc \in RowPc
  PROVE  NoRowFrom(u.line + 1, t)
<1>1. Lines \subseteq Nat /\ u.line \in Nat
  BY LinesPositive
<1>2. \A m \in Nat : m >= u.line + 1 => m >= u.line
  BY <1>1
<1> QED
  BY <1>1, <1>2 DEF AheadOK, RowPc, NoRowFrom

LEMMA FailRowAhead ==
  ASSUME file \in Seq(Line), NEW u \in Upload, NEW t, u.line \in Lines,
         NoRowFrom(u.line + 1, t)
  PROVE  AheadOK(FailRow(u), t)
<1> DEFINE v == [u EXCEPT !.bad = @ \cup {u.line}]
<1>1. v \in Upload /\ FailRow(u) = NextRow(v, u.line + 1) /\ u.line + 1 \in Nat
  BY DEF FailRow, Upload
<1> HIDE DEF v
<1> QED
  BY <1>1, NextRowAhead

LEMMA NextImageAhead ==
  ASSUME file \in Seq(Line), NEW u \in Upload, NEW t, u.line \in Lines,
         NoRowFrom(u.line + 1, t)
  PROVE  AheadOK(NextImage(u), t)
<1>1. CASE u.done = file[u.line].images
  <2> DEFINE v == [u EXCEPT !.ok = @ \cup {u.line}]
  <2>1. NextImage(u) = NextRow(v, u.line + 1)
    BY <1>1 DEF NextImage, SucceedRow
  <2>2. v \in Upload /\ u.line \in Nat
    BY DEF Upload
  <2>3. u.line + 1 \in Nat
    BY <2>2
  <2> HIDE DEF v
  <2> QED
    BY <2>1, <2>2, <2>3, NextRowAhead
<1>2. CASE u.done # file[u.line].images
  <2> DEFINE v == [u EXCEPT !.pc = "put"]
  <2>1. NextImage(u) = v /\ v.pc = "put" /\ v.line = u.line
    BY <1>2 DEF NextImage, Upload
  <2> HIDE DEF v
  <2> QED
    BY <2>1 DEF AheadOK
<1> QED
  BY <1>1, <1>2

LEMMA AheadStep ==
  ASSUME BulkInv, AheadOK(upload, product), [BulkNext]_bulkSystemVars
  PROVE  AheadOK(upload, product)'
<1> DEFINE u == upload
<1>1. /\ u \in Upload /\ UploadOK(u, product) /\ file \in Seq(Line)
      /\ product \in [Lines -> Filed \cup {Nil}] /\ Lines \subseteq Nat
  BY LinesPositive DEF BulkInv, BulkType
<1>2. ASSUME UNCHANGED file, AheadOK(upload', product')
      PROVE  AheadOK(upload, product)'
  BY <1>2 DEF AheadOK, NoRowFrom, Lines
<1>3. CASE UNCHANGED <<file, upload, product>>
  BY <1>2, <1>3
<1>4. ASSUME UNCHANGED <<file, product>>, upload'.pc \notin RowPc \cup {"slugs"}
      PROVE  AheadOK(upload, product)'
  BY <1>4 DEF AheadOK, RowPc
<1>5. ASSUME NEW f \in File, StartUpload(f) PROVE AheadOK(upload, product)'
  <2>1. /\ file' = f /\ product' = [l \in DOMAIN f |-> Nil]
        /\ upload'.pc \in {"lists", "slugs"}
    BY <1>5 DEF StartUpload, Blank
  <2> QED
    BY <2>1 DEF AheadOK, NoRowFrom, Lines
<1>6. CASE FindCategory
  <2>1. NoRowFrom(0, product) /\ u.line \in Lines /\ u.line + 1 \in Nat
    <3>1. NoRowFrom(0, product) /\ u.line \in Lines
      BY <1>1, <1>6, LinesPositive DEF FindCategory, AheadOK, UploadOK
    <3>2. u.line \in Nat
      BY <1>1, <3>1
    <3> QED
      BY <3>1, <3>2
  <2>2. UNCHANGED <<file, product>>
    BY <1>6 DEF FindCategory
  <2>3. ASSUME NEW v \in Upload, upload' = NextSlug(v, u.line + 1)
        PROVE  AheadOK(upload, product)'
    BY <1>1, <1>2, <2>1, <2>2, <2>3, NextSlugAhead
  <2>4. [u EXCEPT !.bad = @ \cup {u.line}] \in Upload
    BY <1>1, <2>1 DEF Upload
  <2>5. \A c \in WithSlug(file[u.line].slug) :
          [u EXCEPT !.slugOf[file[u.line].slug] = c] \in Upload
    BY <1>1 DEF Upload, WithSlug
  <2> QED
    BY <1>6, <2>3, <2>4, <2>5 DEF FindCategory
<1>7. CASE InsertRow \/ ReadRow \/ PutImage \/ SetUrl \/ RowFails
  <2>1. u.pc \in RowPc /\ UNCHANGED file
    BY <1>7 DEF InsertRow, ReadRow, PutImage, SetUrl, RowFails, RowPc
  <2>2. u.line \in Lines /\ u.line \in Nat /\ u.line \in Valid
    BY <1>1, <2>1, LinesPositive DEF UploadOK
  <2>3. NoRowFrom(u.line + 1, product)
    BY <1>1, <2>1, <2>2, PastLine
  <2>4. ASSUME NEW p, product' = [product EXCEPT ![u.line] = p]
        PROVE  NoRowFrom(u.line + 1, product')
    <3>1. \A m \in Nat : m >= u.line + 1 => m # u.line
      BY <2>2
    <3> QED
      BY <1>1, <2>3, <2>4, <3>1 DEF NoRowFrom
  <2>5. CASE InsertRow
    <3> DEFINE v == [u EXCEPT !.pc = "readRow"]
    <3>1. CASE upload' = v
      <4>1. v.pc = "readRow" /\ v.line = u.line
        BY <1>1 DEF Upload
      <4>2. NoRowFrom(u.line + 1, product')
        BY <2>3, <2>4, <2>5 DEF InsertRow
      <4> HIDE DEF v
      <4>3. AheadOK(v, product')
        BY <4>1, <4>2 DEF AheadOK
      <4> QED
        BY <1>2, <2>1, <3>1, <4>3
    <3>2. CASE upload' = FailRow(u) /\ UNCHANGED product
      BY <1>1, <1>2, <2>1, <2>2, <2>3, <3>2, FailRowAhead
    <3> QED
      BY <2>5, <3>1, <3>2 DEF InsertRow
  <2>6. CASE ReadRow
    <3> DEFINE v == [u EXCEPT !.touched = @ \cup {RowCategory(u)}]
    <3>1. upload' = NextImage(v) /\ UNCHANGED product /\ u.pc = "readRow"
      BY <2>6 DEF ReadRow
    <3>2. v \in Upload /\ v.line = u.line
      <4>1. RowCategory(u) \in Category
        <5>1. file[u.line].slug \in Slug
          BY <1>1, <2>2, LinesPositive, CategoryNil DEF Valid, Parsed, Line
        <5>2. RowCategory(u) # Nil
          BY <1>1, <2>1 DEF UploadOK, Judged, Resolved, RowCategory
        <5> QED
          BY <1>1, <5>1, <5>2 DEF Upload, RowCategory
      <4> QED
        BY <1>1, <4>1 DEF Upload
    <3> HIDE DEF v
    <3> QED
      BY <1>1, <1>2, <2>1, <2>2, <2>3, <3>1, <3>2, NextImageAhead
  <2>7. CASE PutImage
    <3> DEFINE v == [u EXCEPT !.pc = "setUrl"]
    <3>1. upload' = v /\ UNCHANGED product
      BY <2>7 DEF PutImage
    <3>2. v.pc = "setUrl" /\ v.line = u.line
      BY <1>1 DEF Upload
    <3> HIDE DEF v
    <3>3. AheadOK(v, product)
      BY <2>3, <3>2 DEF AheadOK
    <3> QED
      BY <1>2, <2>1, <3>1, <3>3
  <2>8. CASE SetUrl
    <3> DEFINE v == [u EXCEPT !.done = @ + 1]
    <3>1. upload' = NextImage(v) /\ NoRowFrom(u.line + 1, product')
      BY <2>4, <2>8 DEF SetUrl
    <3>2. u.done + 1 \in Nat
      BY <1>1 DEF Upload
    <3>3. v \in Upload /\ v.line = u.line
      BY <1>1, <3>2 DEF Upload
    <3> HIDE DEF v
    <3> QED
      BY <1>1, <1>2, <2>1, <2>2, <3>1, <3>3, NextImageAhead
  <2>9. CASE RowFails
    BY <1>1, <1>2, <2>1, <2>2, <2>3, <2>9, FailRowAhead DEF RowFails
  <2> QED
    BY <1>7, <2>5, <2>6, <2>7, <2>8, <2>9
<1>8. CASE \/ DelStock \/ UploadFails \/ Crash \/ AuditUpload
           \/ \E k \in ListKey : DropList(k) \/ DropFails(k)
  <2>1. upload'.pc \in {"lists", "error", "crashed", "answered", "audit"}
    <3>1. CASE DelStock \/ AuditUpload
      BY <1>1, <3>1 DEF DelStock, AuditUpload, Upload
    <3>2. CASE UploadFails \/ Crash \/ \E k \in ListKey : DropFails(k)
      <4>1. PICK pc \in {"error", "crashed"} : \E drop : upload' = Blank(pc, drop)
        BY <3>2 DEF UploadFails, Crash, DropFails
      <4> QED
        BY <4>1 DEF Blank
    <3>3. ASSUME NEW k \in ListKey, DropList(k)
          PROVE  upload'.pc \in {"lists", "error", "audit"}
      BY <1>1, <3>3 DEF DropList, Dropped, Upload
    <3> QED
      BY <1>8, <3>1, <3>2, <3>3
  <2>2. UNCHANGED <<file, product>>
    BY <1>8 DEF DelStock, UploadFails, Crash, AuditUpload, DropList, DropFails
  <2> QED
    BY <1>4, <2>1, <2>2 DEF RowPc
<1>9. CASE \/ FillList \/ CategoryStep
           \/ \E k \in ListKey : ReadList(k) \/ ExpireList(k)
  BY <1>3, <1>9 DEF FillList, CategoryStep, ReadList, ExpireList
<1>10. CASE UNCHANGED bulkSystemVars
  BY <1>3, <1>10 DEF bulkSystemVars, bulkVars
<1> QED
  BY <1>5, <1>6, <1>7, <1>8, <1>9, <1>10 DEF BulkNext, UploadStep

----------------------------------------------------------------------------
(* The lists of the bulk upload.                                           *)

OwedBy(u) ==
  CASE u.pc \in {"free", "slugs"} -> {}
    [] u.pc \in {"insert", "put", "setUrl"} -> u.touched \cup {All}
    [] u.pc = "readRow" -> u.touched \cup {All, RowCategory(u)}
    [] OTHER -> u.drop

\* Where the rows end the lists touched become the lists to delete.
LEMMA NextRowOwes ==
  ASSUME NEW u \in Upload, NEW l
  PROVE  u.touched \cup {All} \subseteq OwedBy(NextRow(u, l))
<1>1. CASE Processable(u, l) # {}
  <2> DEFINE v == [u EXCEPT !.pc = "insert", !.line = Min(Processable(u, l)),
                            !.done = 0]
  <2>1. NextRow(u, l) = v
    BY <1>1 DEF NextRow
  <2>2. v.pc = "insert" /\ v.touched = u.touched
    BY DEF Upload
  <2> HIDE DEF v
  <2> QED
    BY <2>1, <2>2 DEF OwedBy
<1>2. CASE Processable(u, l) = {}
  <2> DEFINE v == [u EXCEPT !.pc = IF u.touched = {} THEN "lists" ELSE "stock",
                   !.line = 0, !.done = 0, !.slugOf = [s \in Slug |-> Nil],
                   !.drop = u.touched \cup {All}, !.touched = {}]
  <2>1. NextRow(u, l) = v
    BY <1>2 DEF NextRow
  <2>2. v.pc \in {"lists", "stock"} /\ v.drop = u.touched \cup {All}
    BY DEF Upload
  <2> HIDE DEF v
  <2> QED
    BY <2>1, <2>2 DEF OwedBy
<1> QED
  BY <1>1, <1>2

LEMMA FailRowOwes ==
  ASSUME NEW u \in Upload, u.line \in Lines
  PROVE  u.touched \cup {All} \subseteq OwedBy(FailRow(u))
<1> DEFINE v == [u EXCEPT !.bad = @ \cup {u.line}]
<1>1. v \in Upload /\ v.touched = u.touched
  BY DEF Upload
<1>2. FailRow(u) = NextRow(v, u.line + 1)
  BY DEF FailRow
<1> HIDE DEF v
<1> QED
  BY <1>1, <1>2, NextRowOwes

LEMMA NextImageOwes ==
  ASSUME NEW u \in Upload, u.line \in Lines
  PROVE  u.touched \cup {All} \subseteq OwedBy(NextImage(u))
<1>1. CASE u.done = file[u.line].images
  <2> DEFINE v == [u EXCEPT !.ok = @ \cup {u.line}]
  <2>1. v \in Upload /\ v.touched = u.touched
    BY DEF Upload
  <2>2. NextImage(u) = NextRow(v, u.line + 1)
    BY <1>1 DEF NextImage, SucceedRow
  <2> HIDE DEF v
  <2> QED
    BY <2>1, <2>2, NextRowOwes
<1>2. CASE u.done # file[u.line].images
  <2> DEFINE v == [u EXCEPT !.pc = "put"]
  <2>1. NextImage(u) = v /\ v.pc = "put" /\ v.touched = u.touched
    BY <1>2 DEF NextImage, Upload
  <2> HIDE DEF v
  <2> QED
    BY <2>1 DEF OwedBy
<1> QED
  BY <1>1, <1>2

\* Only the lists a row is in change with it.
LEMMA RowOutdates ==
  ASSUME BulkInv, NEW m \in Lines, NEW p \in Filed,
         UNCHANGED <<file, list>>, product' = [product EXCEPT ![m] = p],
         product[m] = Nil \/ product[m].category = p.category
  PROVE  Outdated(ListKey)' \subseteq Outdated(ListKey) \cup {All, p.category}
<1>1. Lines' = Lines /\ product \in [Lines -> Filed \cup {Nil}]
  BY DEF Lines, BulkInv, BulkType
<1>2. ASSUME NEW k, k \notin {All, p.category} PROVE View(k)' = View(k)
  <2> DEFINE In(t) == {n \in Lines : t[n] # Nil /\ k \in {All, t[n].category}}
  <2>1. m \notin In(product) /\ m \notin In(product')
    BY <1>1, <1>2
  <2>2. \A n \in Lines \ {m} : product'[n] = product[n]
    BY <1>1
  <2>3. In(product') = In(product)
    BY <2>1, <2>2
  <2>4. /\ View(k) = {<<n, product[n]>> : n \in In(product)}
        /\ View(k)' = {<<n, product'[n]>> : n \in In(product')}
    BY <1>1 DEF View
  <2>5. \A n \in In(product) : product'[n] = product[n]
    BY <2>1, <2>2
  <2> HIDE DEF In
  <2> QED
    BY <2>3, <2>4, <2>5
<1> QED
  BY <1>2 DEF Outdated

LEMMA OutdatedSame ==
  ASSUME UNCHANGED <<file, product, list>>
  PROVE  Outdated(ListKey)' = Outdated(ListKey)
<1>1. \A k : View(k)' = View(k)
  BY DEF View, Lines
<1> QED
  BY <1>1 DEF Outdated

LEMMA OwedIs ==
  /\ Owed = OwedBy(upload)
  /\ file' = file => Owed' = OwedBy(upload')
BY DEF Owed, OwedBy, RowCategory

LEMMA RowsLists ==
  ASSUME BulkInv, AheadOK(upload, product), ListsAccounted,
         InsertRow \/ ReadRow \/ PutImage \/ SetUrl \/ RowFails
  PROVE  ListsAccounted'
<1> DEFINE u == upload
           c == RowCategory(u)
<1>1. /\ u \in Upload /\ UploadOK(u, product) /\ file \in Seq(Line)
      /\ product \in [Lines -> Filed \cup {Nil}]
  BY DEF BulkInv, BulkType
<1>2. u.pc \in RowPc /\ UNCHANGED <<file, list>>
  BY DEF InsertRow, ReadRow, PutImage, SetUrl, RowFails, RowPc
<1>3. /\ u.line \in Lines /\ u.line \in Valid /\ Owed = OwedBy(u)
      /\ Owed' = OwedBy(upload')
  BY <1>1, <1>2, LinesPositive, OwedIs DEF UploadOK
<1>4. c \in Category
  <2>1. file[u.line].slug \in Slug
    BY <1>1, <1>3, LinesPositive, CategoryNil DEF Valid, Parsed, Line
  <2>2. c # Nil
    BY <1>1, <1>2 DEF UploadOK, Judged, Resolved, RowCategory
  <2> QED
    BY <1>1, <2>1, <2>2 DEF Upload, RowCategory
<1>5. ASSUME UNCHANGED product, OwedBy(u) \subseteq OwedBy(upload'), missed' = missed
      PROVE  ListsAccounted'
  BY <1>2, <1>3, <1>5, OutdatedSame DEF ListsAccounted
<1>6. /\ u.pc # "readRow" => OwedBy(u) = u.touched \cup {All}
      /\ u.pc = "readRow" => OwedBy(u) = u.touched \cup {All, c}
  BY <1>2 DEF OwedBy, RowPc
<1>7. ASSUME upload' = FailRow(u), UNCHANGED product, u.pc # "readRow",
             missed' = missed
      PROVE  ListsAccounted'
  BY <1>1, <1>3, <1>5, <1>6, <1>7, FailRowOwes
<1>8. CASE InsertRow
  <2>1. CASE Exists(c) /\ Fits(file[u.line])
    <3> DEFINE p == [category |-> c, images |-> 0]
               v == [u EXCEPT !.pc = "readRow"]
    <3>1. /\ u.pc = "insert" /\ product' = [product EXCEPT ![u.line] = p]
          /\ upload' = v /\ missed' = missed
      BY <1>8, <2>1 DEF InsertRow
    <3>2. p \in Filed /\ p.category = c
      BY <1>4 DEF Filed
    <3>3. v.pc = "readRow" /\ v.touched = u.touched /\ RowCategory(v) = c
      BY <1>1 DEF Upload, RowCategory
    <3>4. product[u.line] = Nil \/ product[u.line].category = c
      <4>1. u.line \in Nat
        BY <1>1, <1>3, LinesPositive
      <4>2. u.line >= u.line
        BY <4>1
      <4> QED
        BY <1>3, <3>1, <4>2 DEF AheadOK, NoRowFrom
    <3> HIDE DEF p, v
    <3>5. Outdated(ListKey)' \subseteq Outdated(ListKey) \cup {All, c}
      BY <1>2, <1>3, <3>1, <3>2, <3>4, RowOutdates
    <3>6. OwedBy(v) = u.touched \cup {All, c}
      BY <3>3 DEF OwedBy
    <3> QED
      BY <1>3, <1>6, <3>1, <3>5, <3>6 DEF ListsAccounted
  <2>2. CASE ~(Exists(c) /\ Fits(file[u.line]))
    BY <1>7, <1>8, <2>2 DEF InsertRow
  <2> QED
    BY <2>1, <2>2
<1>9. CASE ReadRow
  <2> DEFINE v == [u EXCEPT !.touched = @ \cup {c}]
  <2>1. u.pc = "readRow" /\ upload' = NextImage(v) /\ UNCHANGED <<product, missed>>
    BY <1>9 DEF ReadRow
  <2>2. v \in Upload /\ v.touched = u.touched \cup {c} /\ v.line = u.line
    BY <1>1, <1>4 DEF Upload
  <2> HIDE DEF v
  <2>3. v.touched \cup {All} \subseteq OwedBy(NextImage(v))
    BY <1>3, <2>2, NextImageOwes
  <2> QED
    BY <1>5, <1>6, <2>1, <2>2, <2>3
<1>10. CASE PutImage
  <2> DEFINE v == [u EXCEPT !.pc = "setUrl"]
  <2>1. u.pc = "put" /\ upload' = v /\ UNCHANGED <<product, missed>>
    BY <1>10 DEF PutImage
  <2>2. v.pc = "setUrl" /\ v.touched = u.touched
    BY <1>1 DEF Upload
  <2> HIDE DEF v
  <2>3. OwedBy(v) = u.touched \cup {All}
    BY <2>2 DEF OwedBy
  <2> QED
    BY <1>5, <1>6, <2>1, <2>3
<1>11. CASE SetUrl
  <2> DEFINE v == [u EXCEPT !.done = @ + 1]
             p == [product[u.line] EXCEPT !.images = @ + 1]
  <2>1. /\ u.pc = "setUrl" /\ product' = [product EXCEPT ![u.line] = p]
        /\ upload' = NextImage(v) /\ missed' = missed
    BY <1>11 DEF SetUrl
  <2>2. /\ product[u.line] # Nil /\ product[u.line].category = c
        /\ product[u.line].images = u.done /\ u.done < file[u.line].images
        /\ c \in u.touched /\ product[u.line] \in Filed
    BY <1>1, <1>3, <2>1 DEF UploadOK
  <2>3. u.done + 1 \in Nat /\ u.done + 1 \in 0..2
    <3>1. file[u.line].images \in 0..2 /\ u.done \in Nat
      BY <1>1, <1>3, LinesPositive DEF Line, Upload
    <3> QED
      BY <2>2, <3>1
  <2>4. p \in Filed /\ p.category = c
    BY <2>2, <2>3 DEF Filed
  <2>5. v \in Upload /\ v.touched = u.touched /\ v.line = u.line
    BY <1>1, <2>3 DEF Upload
  <2> HIDE DEF p, v
  <2>6. Outdated(ListKey)' \subseteq Outdated(ListKey) \cup {All, c}
    BY <1>2, <1>3, <2>1, <2>2, <2>4, RowOutdates
  <2>7. u.touched \cup {All} \subseteq OwedBy(NextImage(v))
    BY <1>3, <2>5, NextImageOwes
  <2> QED
    BY <1>3, <1>6, <2>1, <2>2, <2>6, <2>7 DEF ListsAccounted
<1>12. CASE RowFails
  <2>1. upload' = FailRow(u) /\ UNCHANGED product
    BY <1>12 DEF RowFails
  <2>2. CASE u.pc = "readRow"
    <3>1. missed' = missed \cup Outdated({c})
      BY <1>12, <2>2 DEF RowFails
    <3>2. Outdated(ListKey) \cap {c} \subseteq Outdated({c})
      BY DEF Outdated
    <3>3. u.touched \cup {All} \subseteq OwedBy(FailRow(u))
      BY <1>1, <1>3, FailRowOwes
    <3> QED
      BY <1>2, <1>3, <1>6, <2>1, <2>2, <3>1, <3>2, <3>3, OutdatedSame
         DEF ListsAccounted
  <2>3. CASE u.pc # "readRow"
    BY <1>7, <1>12, <2>1, <2>3 DEF RowFails
  <2> QED
    BY <2>2, <2>3
<1> QED
  BY <1>8, <1>9, <1>10, <1>11, <1>12

LEMMA DropsLists ==
  ASSUME BulkInv, ListsAccounted,
         \/ DelStock \/ UploadFails \/ Crash \/ AuditUpload
         \/ \E k \in ListKey : DropList(k) \/ DropFails(k)
  PROVE  ListsAccounted'
<1> DEFINE u == upload
<1>1. u \in Upload /\ UNCHANGED <<file, product>>
  BY DEF BulkInv, BulkType, DelStock, UploadFails, Crash, AuditUpload, DropList,
         DropFails
<1>2. Owed = OwedBy(u) /\ Owed' = OwedBy(upload')
  BY <1>1, OwedIs
<1>3. CASE DelStock \/ AuditUpload
  <2> DEFINE v == [u EXCEPT !.pc = IF u.pc = "stock" THEN "lists" ELSE "answered"]
  <2>1. /\ upload' = v /\ u.pc \in {"stock", "audit"}
        /\ UNCHANGED <<file, product, list, missed>>
    BY <1>3 DEF DelStock, AuditUpload
  <2>2. v.pc \in {"lists", "answered"} /\ v.drop = u.drop
    BY <1>1 DEF Upload
  <2> HIDE DEF v
  <2>3. OwedBy(v) = u.drop /\ OwedBy(u) = u.drop
    BY <2>1, <2>2 DEF OwedBy
  <2> QED
    BY <1>2, <2>1, <2>3, OutdatedSame DEF ListsAccounted
<1>4. CASE UploadFails \/ Crash
  <2>1. missed' = missed \cup Outdated(Owed) /\ UNCHANGED <<file, product, list>>
    BY <1>4 DEF UploadFails, Crash
  <2>2. Outdated(ListKey) \cap Owed \subseteq Outdated(Owed)
    BY DEF Outdated
  <2> QED
    BY <2>1, <2>2, OutdatedSame DEF ListsAccounted
<1>5. ASSUME NEW k \in ListKey, DropFails(k) PROVE ListsAccounted'
  <2> DEFINE v == Blank("error", u.drop \ {k})
  <2>1. /\ upload' = v /\ u.pc \in {"lists", "error"}
        /\ missed' = missed \cup Outdated({k}) /\ UNCHANGED <<file, product, list>>
    BY <1>5 DEF DropFails
  <2>2. v.pc = "error" /\ v.drop = u.drop \ {k}
    BY DEF Blank
  <2> HIDE DEF v
  <2>3. OwedBy(v) = u.drop \ {k} /\ OwedBy(u) = u.drop
    BY <2>1, <2>2 DEF OwedBy
  <2>4. Outdated(ListKey) \cap {k} \subseteq Outdated({k})
    BY DEF Outdated
  <2> QED
    BY <1>2, <2>1, <2>3, <2>4, OutdatedSame DEF ListsAccounted
<1>6. ASSUME NEW k \in ListKey, DropList(k) PROVE ListsAccounted'
  <2> DEFINE v == Dropped(u, k)
  <2>1. /\ upload' = v /\ u.pc \in {"lists", "error"}
        /\ missed' = missed \ {k} /\ list' = [list EXCEPT ![k] = Nil]
    BY <1>6 DEF DropList
  <2>2. v.pc \in {"lists", "error", "audit"} /\ v.drop = u.drop \ {k}
    BY <1>1, <2>1 DEF Dropped, Upload
  <2> HIDE DEF v
  <2>3. OwedBy(v) = u.drop \ {k} /\ OwedBy(u) = u.drop
    BY <2>1, <2>2 DEF OwedBy
  <2>4. Outdated(ListKey)' \subseteq Outdated(ListKey) \ {k}
    <3>1. \A m : View(m)' = View(m)
      BY <1>1 DEF View, Lines
    <3>2. list \in [ListKey -> Page \cup {Nil}]
      BY DEF BulkInv, BulkType
    <3> QED
      BY <2>1, <3>1, <3>2 DEF Outdated
  <2> QED
    BY <1>2, <2>1, <2>3, <2>4 DEF ListsAccounted
<1> QED
  BY <1>3, <1>4, <1>5, <1>6

LEMMA OthersLists ==
  ASSUME BulkInv, ListsAccounted,
         \/ FindCategory \/ FillList \/ CategoryStep
         \/ \E k \in ListKey : ReadList(k) \/ ExpireList(k)
         \/ \E f \in File : StartUpload(f)
  PROVE  ListsAccounted'
<1>0. list \in [ListKey -> Page \cup {Nil}]
  BY DEF BulkInv, BulkType
<1>1. CASE FindCategory
  <2>1. UNCHANGED <<file, product, list, missed>> /\ Owed = {}
    BY <1>1 DEF FindCategory, Owed
  <2> QED
    BY <2>1, OutdatedSame DEF ListsAccounted
<1>2. ASSUME UNCHANGED <<file, product, upload>>
      PROVE  Owed' = Owed /\ \A k : View(k)' = View(k)
  BY <1>2, OwedIs DEF View, Lines
<1>3. CASE FillList
  <2> DEFINE k == reader.key
  <2>1. /\ list' = [list EXCEPT ![k] = reader.val]
        /\ missed' = IF reader.val = View(k) THEN missed \ {k} ELSE missed \cup {k}
        /\ k # Nil
    BY <1>3 DEF FillList
  <2>2. k \in ListKey
    BY <2>1 DEF BulkInv, BulkType
  <2>3. Owed' = Owed /\ \A m : View(m)' = View(m)
    BY <1>2, <1>3 DEF FillList
  <2>4. Outdated(ListKey)' \subseteq
          (Outdated(ListKey) \ {k}) \cup (IF reader.val = View(k) THEN {} ELSE {k})
    BY <1>0, <2>1, <2>2, <2>3 DEF Outdated
  <2> QED
    BY <2>1, <2>3, <2>4 DEF ListsAccounted
<1>4. CASE CategoryStep
  BY <1>2, <1>4, OutdatedSame DEF CategoryStep, ListsAccounted
<1>5. ASSUME NEW k \in ListKey, ReadList(k) PROVE ListsAccounted'
  BY <1>2, <1>5, OutdatedSame DEF ReadList, ListsAccounted
<1>6. ASSUME NEW k \in ListKey, ExpireList(k) PROVE ListsAccounted'
  <2>1. list' = [list EXCEPT ![k] = Nil] /\ missed' = missed \ {k}
    BY <1>6 DEF ExpireList
  <2>2. Owed' = Owed /\ \A m : View(m)' = View(m)
    BY <1>2, <1>6 DEF ExpireList
  <2>3. Outdated(ListKey)' \subseteq Outdated(ListKey) \ {k}
    BY <1>0, <2>1, <2>2 DEF Outdated
  <2> QED
    BY <2>1, <2>2, <2>3 DEF ListsAccounted
<1>7. ASSUME NEW f \in File, StartUpload(f) PROVE ListsAccounted'
  <2>1. /\ upload.pc = "free" /\ file' = f /\ product' = [l \in DOMAIN f |-> Nil]
        /\ UNCHANGED <<list, missed>>
    BY <1>7 DEF StartUpload
  <2>2. Lines = {} /\ Lines' = DOMAIN f /\ Owed = {}
    BY <2>1 DEF BulkInv, BulkType, Lines, Owed
  <2>3. \A k : View(k) = {} /\ View(k)' = {}
    BY <2>1, <2>2 DEF View
  <2> QED
    BY <2>1, <2>2, <2>3 DEF ListsAccounted, Outdated
<1> QED
  BY <1>1, <1>3, <1>4, <1>5, <1>6, <1>7

\* No list that a row has changed is forgotten, not even one of a row that is
\* reported as failed after its INSERT (bulk.handlers.ts:102, 146).
THEOREM BulkListsAccounted == BulkSpec => []ListsAccounted
<1>1. BulkInit => ListsAccounted /\ AheadOK(upload, product)
  BY DEF BulkInit, ListsAccounted, Outdated, AheadOK, Blank
<1>2. BulkInv /\ ListsAccounted /\ AheadOK(upload, product)
      /\ [BulkNext]_bulkSystemVars => (ListsAccounted /\ AheadOK(upload, product))'
  <2> SUFFICES ASSUME BulkInv, ListsAccounted, AheadOK(upload, product),
                      [BulkNext]_bulkSystemVars
               PROVE  ListsAccounted'
    BY AheadStep
  <2>1. CASE UNCHANGED bulkSystemVars
    <3>1. UNCHANGED <<file, product, list, missed, upload>>
      BY <2>1 DEF bulkSystemVars, bulkVars
    <3> QED
      BY <3>1, OwedIs, OutdatedSame DEF ListsAccounted
  <2>2. CASE InsertRow \/ ReadRow \/ PutImage \/ SetUrl \/ RowFails
    BY <2>2, RowsLists
  <2>3. CASE \/ DelStock \/ UploadFails \/ Crash \/ AuditUpload
             \/ \E k \in ListKey : DropList(k) \/ DropFails(k)
    BY <2>3, DropsLists
  <2>4. CASE \/ FindCategory \/ FillList \/ CategoryStep
             \/ \E k \in ListKey : ReadList(k) \/ ExpireList(k)
             \/ \E f \in File : StartUpload(f)
    BY <2>4, OthersLists
  <2> QED
    BY <2>1, <2>2, <2>3, <2>4 DEF BulkNext, UploadStep
<1> QED
  BY <1>1, <1>2, BulkAlways, PTL DEF BulkSpec

=============================================================================
