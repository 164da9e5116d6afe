------------------------------ MODULE ListWalk ------------------------------
(***************************************************************************)
(* A client reads a list of products page by page, to its end, while the   *)
(* list changes.  A page is ORDER BY created_at DESC LIMIT .. OFFSET ..    *)
(* and its COUNT, in two queries; the first page is cached, the others are *)
(* not.  created_at has seconds, rows of the same second come in any order *)
(* and not in the same one twice.                                          *)
(*                                                                         *)
(* The list is that of all active products or of a category's: a product   *)
(* enters when it is inserted, activated again or moved into the category, *)
(* and leaves when it is deleted, deactivated or moved out.  The lists of  *)
(* admins and of audit rows are read in the same way without a cache, and  *)
(* of the latter nothing leaves.  One client walks, again and again: it    *)
(* asks for the next page as long as the total it was told is not reached, *)
(* and for the same page again if a request fails.  What other clients     *)
(* leave in the cache it leaves there itself, by requests whose answers    *)
(* get lost and by earlier walks.                                          *)
(***************************************************************************)
EXTENDS Integers, FiniteSetsExt, SequencesExt

CONSTANTS
  Product,
  Second,      \* the values of created_at, some numbers
  Limit,       \* how many products a page is asked for: a cache key of its own
  MaxLimit, DefaultLimit,
  MaxWriter,   \* bound: handlers between their write and its invalidation
  NoPage

ASSUME WalkProducts == IsFiniteSet(Product)

ASSUME WalkSeconds == Second \subseteq Int

\* Validation lets no other limit through.
ASSUME WalkLimits == /\ MaxLimit \in Nat \ {0}
                     /\ {Limit, DefaultLimit} \subseteq 1..MaxLimit

VARIABLES
  created,   \* created_at of each product, fixed when it is inserted
  listed,    \* the products in the list
  writers,   \* how many handlers have changed the list and not yet its cache
  cache,     \* Redis: the first page, or NoPage
  frame,     \* the request under way
  walk,      \* what the client knows: its page, and the products it has seen
  entered,   \* history: the products that entered the list since the walk began
  left,      \* history: those that left it
  stale      \* history: the first page was not one to be read then

walkVars == <<created, listed, writers, cache, frame, walk, entered, left, stale>>

Idle == [pc |-> "idle", page |-> 0, rows |-> <<>>, total |-> 0]

----------------------------------------------------------------------------
(* Queries.                                                                *)

\* Slip: the first page is page 0.
clampPaginationFromZero(page, limit) ==
  LET safeLimit == IF limit > 0 THEN Min({limit, MaxLimit}) ELSE DefaultLimit
  IN  [safeLimit |-> safeLimit, safeOffset |-> page * safeLimit]

\* Slip: pages overlap by a row.
clampPaginationOverlapping(page, limit) ==
  LET safeLimit == IF limit > 0 THEN Min({limit, MaxLimit}) ELSE DefaultLimit
      safePage == IF page > 0 THEN page ELSE 1
  IN  [safeLimit |-> safeLimit,
       safeOffset |-> IF safePage = 1 THEN 0 ELSE (safePage - 1) * safeLimit - 1]

clampPagination(page, limit) ==
  LET safeLimit == IF limit > 0 THEN Min({limit, MaxLimit}) ELSE DefaultLimit
      safePage == IF page > 0 THEN page ELSE 1
  IN  [safeLimit |-> safeLimit, safeOffset |-> (safePage - 1) * safeLimit]

\* The orders in which MySQL may return the rows.
Orders ==
  {s \in SetToSeqs(listed) :
      \A i, j \in DOMAIN s : i < j => created[s[i]] >= created[s[j]]}

\* The rows the query for a page may return.
Rows(page) ==
  LET at == clampPagination(page, Limit)
  IN  {SubSeq(s, at.safeOffset + 1,
              Min({at.safeOffset + at.safeLimit, Len(s)})) : s \in Orders}

Total == Cardinality(listed)

----------------------------------------------------------------------------
(* Handlers that change the list: the write, and the deletion of its key.  *)

\* Whether the walk is under way, so that its history is kept.
Walking == ~walk.over

Enter(p) ==
  /\ writers < MaxWriter /\ p \notin listed
  /\ listed' = listed \cup {p}
  /\ writers' = writers + 1
  /\ entered' = IF Walking THEN entered \cup {p} ELSE entered
  /\ UNCHANGED <<created, cache, frame, walk, left, stale>>

Leave(p) ==
  /\ writers < MaxWriter /\ p \in listed
  /\ listed' = listed \ {p}
  /\ writers' = writers + 1
  /\ left' = IF Walking THEN left \cup {p} ELSE left
  /\ UNCHANGED <<created, cache, frame, walk, entered, stale>>

DropList ==
  /\ writers > 0
  /\ cache' = NoPage
  /\ writers' = writers - 1
  /\ UNCHANGED <<created, listed, frame, walk, entered, left, stale>>

\* The handler fails between its write and the deletion.
WriterFails ==
  /\ writers > 0
  /\ writers' = writers - 1
  /\ UNCHANGED <<created, listed, cache, frame, walk, entered, left, stale>>

Expire ==
  /\ cache # NoPage
  /\ cache' = NoPage
  /\ UNCHANGED <<created, listed, writers, frame, walk, entered, left, stale>>

----------------------------------------------------------------------------
(* The client, and listProducts.                                           *)

\* The client asks for the first page, or its next, or again for one that
\* failed.  Only the first has a key.
ListProducts ==
  /\ frame = Idle
  /\ LET page == IF Walking THEN walk.page ELSE 1
     IN  frame' = [Idle EXCEPT !.pc = IF page = 1 THEN "get" ELSE "select",
                               !.page = page]
  /\ IF Walking THEN UNCHANGED <<walk, entered, left>>
     ELSE /\ walk' = [page |-> 1, over |-> FALSE, seen |-> {}, twice |-> {}]
          /\ entered' = {} /\ left' = {}
  /\ UNCHANGED <<created, listed, writers, cache, stale>>

GetPage ==
  /\ frame.pc = "get"
  /\ IF cache = NoPage
     THEN frame' = [frame EXCEPT !.pc = "select"] /\ stale' = FALSE
     ELSE /\ frame' = [frame EXCEPT !.pc = "answer", !.rows = cache.rows,
                                    !.total = cache.total]
          /\ stale' = (cache.rows \notin Rows(1) \/ cache.total # Total)
  /\ UNCHANGED <<created, listed, writers, cache, walk, entered, left>>

SelectRows ==
  /\ frame.pc = "select"
  /\ \E rows \in Rows(frame.page) :
       frame' = [frame EXCEPT !.pc = "count", !.rows = rows]
  /\ UNCHANGED <<created, listed, writers, cache, walk, entered, left, stale>>

CountRows ==
  /\ frame.pc = "count"
  /\ frame' = [frame EXCEPT !.pc = IF frame.page = 1 THEN "set" ELSE "answer",
                            !.total = Total]
  /\ UNCHANGED <<created, listed, writers, cache, walk, entered, left, stale>>

SetPage ==
  /\ frame.pc = "set"
  /\ cache' = [rows |-> frame.rows, total |-> frame.total]
  /\ frame' = [frame EXCEPT !.pc = "answer"]
  /\ UNCHANGED <<created, listed, writers, walk, entered, left, stale>>

\* The client has a page: it has seen the rows, and goes on unless they are
\* the last.
Answer ==
  /\ frame.pc = "answer"
  /\ walk' = [page |-> walk.page + 1,
              over |-> frame.page * Limit >= frame.total,
              seen |-> walk.seen \cup ToSet(frame.rows),
              twice |-> walk.twice \cup (walk.seen \cap ToSet(frame.rows))]
  /\ frame' = Idle
  /\ UNCHANGED <<created, listed, writers, cache, entered, left, stale>>

\* A round trip fails, or the answer is lost.
WalkFails ==
  /\ frame # Idle
  /\ frame' = Idle
  /\ UNCHANGED <<created, listed, writers, cache, walk, entered, left, stale>>

----------------------------------------------------------------------------
\* An order of insertion is chosen beforehand; nothing reads created_at of a
\* product before it is listed.
WalkInit ==
  /\ created \in [Product -> Second]
  /\ listed \in SUBSET Product
  /\ writers = 0
  /\ cache = NoPage
  /\ frame = Idle
  /\ walk = [page |-> 0, over |-> TRUE, seen |-> {}, twice |-> {}]
  /\ entered = {} /\ left = {} /\ stale = FALSE

WalkNext ==
  \/ \E p \in Product : Enter(p)
  \/ \E p \in Product : Leave(p)
  \/ DropList
  \/ WriterFails
  \/ Expire
  \/ ListProducts
  \/ GetPage
  \/ SelectRows
  \/ CountRows
  \/ SetPage
  \/ Answer
  \/ WalkFails

WalkSpec == WalkInit /\ [][WalkNext]_walkVars

----------------------------------------------------------------------------
(* Properties.                                                             *)

\* The rows that come with p in no particular order, and p's predecessors.
Ties(p) == {q \in (listed \cup left) \ {p} : created[q] = created[p]}
Newer(p) == {q \in Product : created[q] > created[p]}

\* A walk to the end misses no product that was in the list from its begin to
\* its end, but for one reason of three: a newer product left the list
\* meanwhile, so that the rest moved up over a page's edge; the product has
\* created_at in common with another, as those of one bulk upload have, and
\* each page was cut from another order; or the first page came from the cache
\* and was no longer the list's.
WalkMissesNone ==
  [][ Walking /\ walk'.over =>
    \A p \in listed \ (entered \cup left \cup walk'.seen) :
      \/ left \cap Newer(p) # {}
      \/ Ties(p) # {}
      \/ stale ]_walkVars

\* It shows no product twice, but for the same three reasons with one that
\* entered, so that the rest moved down, for one that left.
WalkRepeatsNone ==
  [][ walk'.twice # walk.twice =>
    \A p \in walk'.twice :
      \/ entered \cap Newer(p) # {}
      \/ Ties(p) # {}
      \/ stale ]_walkVars

=============================================================================
