----------------------------- MODULE Categories -----------------------------
(***************************************************************************)
(* The categories of inventory-service: the categories table, with unique  *)
(* names and slugs and a foreign key from products, the cached list of     *)
(* all of them under categories:all, and the handlers that change or read  *)
(* either.  As in Catalog a request is a frame, one action is one round    *)
(* trip, and a request answered without changing anything is no step.      *)
(***************************************************************************)
EXTENDS FiniteSets

CONSTANTS
  Category,  \* the ids a category can ever get (bounds the inserts)
  Name,      \* names
  Slug,      \* slugs
  Request,   \* the slots for requests in flight (bounds the concurrency)
  Failures,  \* whether a round trip may fail or the process may crash
  Nil

\* The audit rows that say a category came or went; the others only describe it.
Recorded == {"create", "delete"}

Row == [name : Name, slug : Slug]

Table == [Category -> Row \cup {Nil}]

ASSUME CategoryFailures == Failures \in BOOLEAN

ASSUME CategoryNil ==
  /\ Nil \notin Category \cup Name \cup Slug \cup Row
  /\ Nil \notin Table

VARIABLES
  category,  \* the categories table: a row, or Nil
  used,      \* the categories that products refer to
  born,      \* the ids given out: an id is never given twice
  all,       \* Redis: categories:all, a copy of the table or Nil
  frame,     \* the request in each slot
  trail,     \* which of Recorded audit_logs has of each category
  lost,      \* history: <<action, category>> whose audit row was never written
  excused    \* history: whether a late fill or a cut-short writer left
             \* categories:all stale

categoryVars == <<category, used, born, all, frame, trail, lost, excused>>

Free == [op |-> Nil, pc |-> "free", id |-> Nil, name |-> Nil, slug |-> Nil,
         found |-> TRUE, val |-> Nil]

Exists(c) == category[c] # Nil

WithSlug(s) == {c \in Category : Exists(c) /\ category[c].slug = s}

\* The unique indexes let row be written as category c.
Admitted(c, row) ==
  \A d \in Category \ {c} :
    Exists(d) => category[d].name # row.name /\ category[d].slug # row.slug

Fresh == all \in {Nil, category}

----------------------------------------------------------------------------
(* Frames.                                                                 *)

Arrive(r, op, pc, c, n, s) ==
  /\ frame[r] = Free
  /\ frame' = [frame EXCEPT
       ![r] = [op |-> op, pc |-> pc, id |-> c, name |-> n, slug |-> s,
               found |-> TRUE, val |-> Nil]]
  /\ UNCHANGED <<category, used, all, trail, lost, excused>>

At(r, op, pc) == frame[r].op = op /\ frame[r].pc = pc

Leave(r) == frame' = [frame EXCEPT ![r] = Free]

Goto(r, pc) == frame' = [frame EXCEPT ![r].pc = pc]

\* After its write a handler no longer needs what it was asked to write.
Done(f, pc) == [f EXCEPT !.pc = pc, !.name = Nil, !.slug = Nil]

\* The writer has changed the table and not yet deleted categories:all.
Owes(f) == f.pc \in {"readBack", "del"}

\* The audit row this frame has still to write.
Unlogged(f) ==
  IF f.op \in Recorded /\ f.pc \in {"readBack", "del", "audit"}
  THEN {<<f.op, f.id>>} ELSE {}

----------------------------------------------------------------------------
(* createCategory: findCategoryBySlug, INSERT, the row read back, cacheDel,*)
(* audit.  Names are not looked up, only the index refuses a second one.   *)

CreateCategory(r, c, n, s) ==
  /\ c \notin born
  /\ WithSlug(s) = {}
  /\ Arrive(r, "create", "insert", c, n, s)
  /\ born' = born \cup {c}

\* Slip: the slug is looked up, so the table has no unique index.
InsertCategoryUnindexed(r) ==
  LET f == frame[r] IN
  /\ At(r, "create", "insert")
  /\ category' = [category EXCEPT ![f.id] = [name |-> f.name, slug |-> f.slug]]
  /\ frame' = [frame EXCEPT ![r] = Done(f, "readBack")]
  /\ UNCHANGED <<used, born, all, trail, lost, excused>>

InsertCategory(r) ==
  LET f   == frame[r]
      row == [name |-> f.name, slug |-> f.slug]
  IN
  /\ At(r, "create", "insert")
  /\ IF Admitted(f.id, row)
     THEN /\ category' = [category EXCEPT ![f.id] = row]
          /\ frame' = [frame EXCEPT ![r] = Done(f, "readBack")]
     ELSE Leave(r) /\ UNCHANGED category
  /\ UNCHANGED <<used, born, all, trail, lost, excused>>

----------------------------------------------------------------------------
(* updateCategory: findCategoryById, findCategoryBySlug if the slug        *)
(* changes, UPDATE of the fields given, the row read back.                 *)

UpdateCategory(r, c, n, s) ==
  /\ Exists(c)
  /\ Arrive(r, "update",
            IF s \in {Nil, category[c].slug} THEN "write" ELSE "findSlug", c, n, s)
  /\ UNCHANGED born

FindSlug(r) ==
  /\ At(r, "update", "findSlug")
  /\ IF WithSlug(frame[r].slug) = {} THEN Goto(r, "write") ELSE Leave(r)
  /\ UNCHANGED <<category, used, born, all, trail, lost, excused>>

Patched(row, f) ==
  [row EXCEPT !.name = IF f.name = Nil THEN @ ELSE f.name,
              !.slug = IF f.slug = Nil THEN @ ELSE f.slug]

\* The UPDATE of a row deleted meanwhile matches nothing, and is no error.
UpdateRow(r) ==
  LET f   == frame[r]
      row == Patched(category[f.id], f)
  IN
  /\ At(r, "update", "write")
  /\ IF ~Exists(f.id) \/ Admitted(f.id, row)
     THEN /\ category' = IF Exists(f.id) THEN [category EXCEPT ![f.id] = row]
                         ELSE category
          /\ frame' = [frame EXCEPT ![r] = Done(f, "readBack")]
     ELSE Leave(r) /\ UNCHANGED category
  /\ UNCHANGED <<used, born, all, trail, lost, excused>>

\* The handler answers with the row read back: null if it is gone by now.
ReadBack(r) ==
  LET f == frame[r] IN
  /\ f.pc = "readBack"
  /\ frame' = [frame EXCEPT ![r] = [f EXCEPT !.pc = "del", !.found = Exists(f.id)]]
  /\ UNCHANGED <<category, used, born, all, trail, lost, excused>>

----------------------------------------------------------------------------
(* deleteCategory: findCategoryById, DELETE, cacheDel, audit.              *)

DeleteCategory(r, c) ==
  /\ Exists(c)
  /\ Arrive(r, "delete", "write", c, Nil, Nil)
  /\ UNCHANGED born

\* Slip: the refusal of the foreign key is logged and swallowed.
DeleteRowSwallowing(r) ==
  LET f == frame[r] IN
  /\ At(r, "delete", "write")
  /\ category' = IF f.id \in used THEN category ELSE [category EXCEPT ![f.id] = Nil]
  /\ frame' = [frame EXCEPT ![r] = [f EXCEPT !.pc = "del"]]
  /\ UNCHANGED <<used, born, all, trail, lost, excused>>

\* Slip: the foreign key does not restrict the deletion.
DeleteRowUnchecked(r) ==
  LET f == frame[r] IN
  /\ At(r, "delete", "write")
  /\ category' = [category EXCEPT ![f.id] = Nil]
  /\ frame' = [frame EXCEPT ![r] = [f EXCEPT !.pc = "del"]]
  /\ UNCHANGED <<used, born, all, trail, lost, excused>>

\* The foreign key refuses a category in use; one deleted already matches
\* nothing, which is no error.
DeleteRow(r) ==
  LET f == frame[r] IN
  /\ At(r, "delete", "write")
  /\ IF f.id \in used
     THEN Leave(r) /\ UNCHANGED category
     ELSE /\ category' = [category EXCEPT ![f.id] = Nil]
          /\ frame' = [frame EXCEPT ![r] = [f EXCEPT !.pc = "del"]]
  /\ UNCHANGED <<used, born, all, trail, lost, excused>>

----------------------------------------------------------------------------
(* cacheDel of categories:all and the audit row, which every writer ends   *)
(* with.  createCategory logs the id of the row it read back: if that is   *)
(* gone already it fails there, with its category created and unlogged.    *)

\* Slip: only creating and deleting change the list of all categories.
DelAllUnlessRenamed(r) ==
  LET f == frame[r]
      gone == f.op = "create" /\ ~f.found
  IN
  /\ f.pc = "del"
  /\ all' = IF f.op = "update" THEN all ELSE Nil
  /\ excused' = (excused /\ f.op = "update")
  /\ IF gone THEN Leave(r) ELSE Goto(r, "audit")
  /\ lost' = IF gone THEN lost \cup Unlogged(f) ELSE lost
  /\ UNCHANGED <<category, used, born, trail>>

DelAll(r) ==
  LET f == frame[r]
      gone == f.op = "create" /\ ~f.found
  IN
  /\ f.pc = "del"
  /\ all' = Nil
  /\ excused' = FALSE
  /\ IF gone THEN Leave(r) ELSE Goto(r, "audit")
  /\ lost' = IF gone THEN lost \cup Unlogged(f) ELSE lost
  /\ UNCHANGED <<category, used, born, trail>>

Audit(r) ==
  LET f == frame[r] IN
  /\ f.pc = "audit"
  /\ trail' = [trail EXCEPT ![f.id] = @ \cup ({f.op} \cap Recorded)]
  /\ Leave(r)
  /\ UNCHANGED <<category, used, born, all, lost, excused>>

----------------------------------------------------------------------------
(* listCategories on a cache miss.                                         *)

ListCategories(r) ==
  /\ all = Nil
  /\ Arrive(r, "list", "select", Nil, Nil, Nil)
  /\ UNCHANGED born

ReadAll(r) ==
  /\ At(r, "list", "select")
  /\ frame' = [frame EXCEPT ![r].pc = "cacheSet", ![r].val = category]
  /\ UNCHANGED <<category, used, born, all, trail, lost, excused>>

Fill(r) ==
  /\ At(r, "list", "cacheSet")
  /\ all' = frame[r].val
  /\ excused' = (frame[r].val # category)
  /\ Leave(r)
  /\ UNCHANGED <<category, used, born, trail, lost>>

----------------------------------------------------------------------------
(* The environment: products come to refer to a category and cease to, the *)
(* key expires, a round trip fails or the process crashes.                 *)

Refer(c) ==
  /\ Exists(c)
  /\ used' = used \cup {c}
  /\ UNCHANGED <<category, born, all, frame, trail, lost, excused>>

Unrefer(c) ==
  /\ c \in used
  /\ used' = used \ {c}
  /\ UNCHANGED <<category, born, all, frame, trail, lost, excused>>

Expire ==
  /\ all # Nil
  /\ all' = Nil
  /\ excused' = FALSE
  /\ UNCHANGED <<category, used, born, frame, trail, lost>>

Abort(r) ==
  LET f == frame[r] IN
  /\ Failures /\ f # Free
  /\ Leave(r)
  /\ lost' = lost \cup Unlogged(f)
  /\ excused' = (excused \/ (Owes(f) /\ ~Fresh))
  /\ UNCHANGED <<category, used, born, all, trail>>

----------------------------------------------------------------------------
CategoryInit ==
  /\ category \in {t \in Table :
       \A c, d \in Category :
         c # d /\ t[c] # Nil /\ t[d] # Nil =>
           t[c].name # t[d].name /\ t[c].slug # t[d].slug}
  /\ born = {c \in Category : Exists(c)}
  /\ used \in SUBSET born
  /\ all = Nil
  /\ frame = [r \in Request |-> Free]
  /\ trail = [c \in Category |-> IF Exists(c) THEN {"create"} ELSE {}]
  /\ lost = {}
  /\ excused = FALSE

Arrival(r) ==
  \/ \E c \in Category, n \in Name, s \in Slug : CreateCategory(r, c, n, s)
  \/ \E c \in Category, n \in Name \cup {Nil}, s \in Slug \cup {Nil} :
       UpdateCategory(r, c, n, s)
  \/ \E c \in Category : DeleteCategory(r, c)
  \/ ListCategories(r)

Advance(r) ==
  \/ InsertCategory(r)
  \/ FindSlug(r)
  \/ UpdateRow(r)
  \/ ReadBack(r)
  \/ DeleteRow(r)
  \/ DelAll(r)
  \/ Audit(r)
  \/ ReadAll(r)
  \/ Fill(r)

CategoryNext ==
  \/ \E r \in Request : Arrival(r)
  \/ \E r \in Request : Advance(r)
  \/ \E r \in Request : Abort(r)
  \/ \E c \in Category : Refer(c)
  \/ \E c \in Category : Unrefer(c)
  \/ Expire

CategorySpec == CategoryInit /\ [][CategoryNext]_categoryVars

----------------------------------------------------------------------------
(* Properties.                                                             *)

Op == {"create", "update", "delete", "list"}

Pc == {"free", "insert", "findSlug", "write", "readBack", "del", "audit",
       "select", "cacheSet"}

Frame == [op : Op \cup {Nil}, pc : Pc, id : Category \cup {Nil},
          name : Name \cup {Nil}, slug : Slug \cup {Nil},
          found : BOOLEAN, val : Table \cup {Nil}]

\* Type correctness, and the two referential facts that no handler's look-up
\* ensures: a category products refer to exists, an id is given out once.
CategoryTypeOK ==
  /\ category \in Table
  /\ used \subseteq {c \in Category : Exists(c)}
  /\ born \subseteq Category
  /\ all \in Table \cup {Nil}
  /\ frame \in [Request -> Frame]
  /\ trail \in [Category -> SUBSET Recorded]
  /\ lost \subseteq Recorded \X Category
  /\ excused \in BOOLEAN

\* However creates and renames overlap, after both have found their slug free,
\* no two categories share a name or a slug, so that a slug in a URL or in an
\* uploaded file names one category (category.handlers.ts:44, 108).
SlugsUnique ==
  \A c, d \in Category : c # d /\ Exists(c) /\ Exists(d) =>
    category[c].name # category[d].name /\ category[c].slug # category[d].slug

\* A stale categories:all is the work of a fill that read before a write or of
\* a writer that was cut short, or is about to be deleted by its writer: no
\* handler forgets it (category.handlers.ts:49, 114, 154).
AllAccounted == Fresh \/ excused \/ \E r \in Request : Owes(frame[r])

Logged(action, c) ==
  \/ action \in trail[c]
  \/ <<action, c>> \in lost
  \/ \E r \in Request : <<action, c>> \in Unlogged(frame[r])

\* The audit log tells the truth about which categories there are: what it has
\* as deleted is gone, what is there was logged as created, and what was
\* logged as created and is gone was logged as deleted, but for rows that are
\* about to be written or were lost to a failure (category.handlers.ts:55, 122,
\* 156).
TrailTruthful ==
  \A c \in Category :
    /\ "delete" \in trail[c] => ~Exists(c)
    /\ Exists(c) => Logged("create", c)
    /\ "create" \in trail[c] /\ ~Exists(c) => Logged("delete", c)

=============================================================================
