----------------------------- MODULE BulkUpload -----------------------------
(***************************************************************************)
(* The bulk upload of inventory-service: one file of products and the      *)
(* images its lines name, stored line by line while the categories the     *)
(* lines refer to by slug are created, renamed and deleted (Categories)    *)
(* and the lists it invalidates are read.  One action is one round trip to *)
(* MySQL, Redis or the object store.                                       *)
(*                                                                         *)
(* A cached list is one key here, and the SCAN and DEL that drop it one    *)
(* action: if the key is absent the SCAN decides, and a value set after it *)
(* is as one set after the action; if it is present the DEL does.          *)
(***************************************************************************)
EXTENDS Categories, Integers, Sequences, FiniteSetsExt

CONSTANTS
  File,            \* the files that may be uploaded, sequences of lines
  All,             \* names the cached list of all products
  MaxPrice,        \* the largest price the column holds, in cents
  MaxStock,        \* the largest stock
  UploadFailures   \* whether a round trip of the upload may fail

\* A line of the file by its cells: whether there is a name, the number its
\* price begins with in thousandths and its stock (Nil if there is none), and
\* its slug.  images is how many of the two image files it names came with the
\* upload: the others are passed over.
Line == [name : BOOLEAN, price : Int \cup {Nil}, stock : Int \cup {Nil},
         slug : Slug \cup {Nil}, images : 0..2]

\* The parser's verdict on a line.
Parsed(l) ==
  /\ l.name /\ l.slug # Nil
  /\ l.price # Nil /\ l.price > 0
  /\ l.stock # Nil /\ l.stock >= 0

\* The price is rounded to cents after it was found positive, so that what
\* is positive may be stored as nothing.
toFixed(price) == (price + 5) \div 10

\* Whether the columns have room for its numbers, which nothing looks at
\* before the INSERT.
Fits(l) == toFixed(l.price) <= MaxPrice /\ l.stock <= MaxStock

ListKey == Category \cup {All}

ASSUME BulkFiles == File \subseteq Seq(Line)

\* What the table has of a line: the category it is filed under, and how many of
\* its images.
Filed == [category : Category, images : 0..2]

ASSUME BulkNames == All \notin Category /\ Nil \notin Filed

ASSUME BulkColumns == MaxPrice \in Nat /\ MaxStock \in Nat

ASSUME BulkFailures == UploadFailures \in BOOLEAN

VARIABLES
  file,     \* the lines of the upload
  upload,   \* the handler's local variables
  product,  \* the row inserted for each line, or Nil
  list,     \* Redis: the first page under each key, or Nil
  reader,   \* a listProducts that has missed
  named,    \* history: the categories that had each slug during the upload
  missed    \* history: the lists left stale by a late fill or a failure

bulkVars == <<file, upload, product, list, reader, named, missed>>

bulkSystemVars == <<categoryVars, bulkVars>>

Lines == DOMAIN file

Valid == {l \in Lines : Parsed(file[l])}

\* The local variables before they are set and once the handler has left, with
\* the pattern deletions that go on without it.
Blank(pc, drop) ==
  [pc |-> pc, line |-> 0, slugOf |-> [s \in Slug |-> Nil], bad |-> {}, ok |-> {},
   done |-> 0, touched |-> {}, drop |-> drop]

\* What listProducts would read now.
View(k) ==
  {<<l, product[l]>> : l \in {m \in Lines :
      product[m] # Nil /\ k \in {All, product[m].category}}}

Outdated(keys) == {k \in keys : list[k] \notin {Nil, View(k)}}

\* The lists the upload has made stale and will still delete.
Owed ==
  LET u == upload IN
  CASE u.pc \in {"free", "slugs"} -> {}
    [] u.pc \in {"insert", "put", "setUrl"} -> u.touched \cup {All}
    [] u.pc = "readRow" -> u.touched \cup {All, u.slugOf[file[u.line].slug]}
    [] OTHER -> u.drop

----------------------------------------------------------------------------
(* The loops of the handler.                                               *)

\* The lines from l on whose slug has still to be looked up.
Unresolved(u, l) == {m \in Valid : m >= l /\ u.slugOf[file[m].slug] = Nil}

\* The lines from l on to be inserted.
Processable(u, l) == {m \in Valid \ u.bad : m >= l}

\* On to the next line, or past the last.
NextRow(u, l) ==
  LET rest == Processable(u, l) IN
  IF rest # {} THEN [u EXCEPT !.pc = "insert", !.line = Min(rest), !.done = 0]
  ELSE [u EXCEPT !.pc = IF u.touched = {} THEN "lists" ELSE "stock",
                 !.line = 0, !.done = 0, !.slugOf = [s \in Slug |-> Nil],
                 !.drop = u.touched \cup {All}, !.touched = {}]

NextSlug(u, l) ==
  LET rest == Unresolved(u, l) IN
  IF rest # {} THEN [u EXCEPT !.pc = "slugs", !.line = Min(rest)] ELSE NextRow(u, 1)

\* Slip: the line is left out and not reported.
FailRowSilently(u) == NextRow(u, u.line + 1)

FailRow(u) == NextRow([u EXCEPT !.bad = @ \cup {u.line}], u.line + 1)

SucceedRow(u) == NextRow([u EXCEPT !.ok = @ \cup {u.line}], u.line + 1)

NextImage(u) ==
  IF u.done = file[u.line].images THEN SucceedRow(u) ELSE [u EXCEPT !.pc = "put"]

RowCategory(u) == u.slugOf[file[u.line].slug]

----------------------------------------------------------------------------
(* The upload arrives, is parsed, and its slugs are looked up one by one.  *)

StartUpload(f) ==
  LET looked == {l \in DOMAIN f : Parsed(f[l])}
      u == [Blank("slugs", {}) EXCEPT !.bad = DOMAIN f \ looked]
  IN
  /\ upload.pc = "free"
  /\ file' = f
  /\ product' = [l \in DOMAIN f |-> Nil]
  /\ upload' = IF looked = {} THEN [u EXCEPT !.pc = "lists", !.drop = {All}]
               ELSE [u EXCEPT !.line = Min(looked)]
  /\ named' = [s \in Slug |-> WithSlug(s)]
  /\ UNCHANGED <<categoryVars, list, reader, missed>>

\* Slip: what was found last is kept, whatever slug it was found for.
FindCategoryOnce ==
  LET u == upload
      found == WithSlug(file[u.line].slug)
  IN
  /\ u.pc = "slugs"
  /\ \/ /\ found = {}
        /\ upload' = NextSlug([u EXCEPT !.bad = @ \cup {u.line}], u.line + 1)
     \/ \E c \in found :
          upload' = NextSlug([u EXCEPT !.slugOf = [s \in Slug |-> c]], u.line + 1)
  /\ UNCHANGED <<categoryVars, file, product, list, reader, named, missed>>

\* A line whose slug nobody has is reported; a later line looks it up again.
FindCategory ==
  LET u == upload
      s == file[u.line].slug
      found == WithSlug(s)
  IN
  /\ u.pc = "slugs"
  /\ \/ /\ found = {}
        /\ upload' = NextSlug([u EXCEPT !.bad = @ \cup {u.line}], u.line + 1)
     \/ \E c \in found : upload' = NextSlug([u EXCEPT !.slugOf[s] = c], u.line + 1)
  /\ UNCHANGED <<categoryVars, file, product, list, reader, named, missed>>

----------------------------------------------------------------------------
(* Rows: INSERT, the row read back, and for each image a put and an UPDATE *)
(* of its URL.  Whatever throws, the line is reported and the next tried.  *)

\* The foreign key refuses a category deleted since it was looked up, the
\* column a number it has no room for.
InsertRow ==
  LET u == upload
      c == RowCategory(u)
  IN
  /\ u.pc = "insert"
  /\ IF Exists(c) /\ Fits(file[u.line])
     THEN /\ product' = [product EXCEPT ![u.line] = [category |-> c, images |-> 0]]
          /\ used' = used \cup {c}
          /\ upload' = [u EXCEPT !.pc = "readRow"]
     ELSE upload' = FailRow(u) /\ UNCHANGED <<product, used>>
  /\ UNCHANGED <<category, born, all, frame, trail, lost, excused>>
  /\ UNCHANGED <<file, list, reader, named, missed>>

\* Slip: only the list of all products is taken to change.
ReadRowUntouching ==
  /\ upload.pc = "readRow"
  /\ upload' = NextImage(upload)
  /\ UNCHANGED <<categoryVars, file, product, list, reader, named, missed>>

ReadRow ==
  LET u == upload IN
  /\ u.pc = "readRow"
  /\ upload' = NextImage([u EXCEPT !.touched = @ \cup {RowCategory(u)}])
  /\ UNCHANGED <<categoryVars, file, product, list, reader, named, missed>>

PutImage ==
  /\ upload.pc = "put"
  /\ upload' = [upload EXCEPT !.pc = "setUrl"]
  /\ UNCHANGED <<categoryVars, file, product, list, reader, named, missed>>

SetUrl ==
  LET u == upload IN
  /\ u.pc = "setUrl"
  /\ product' = [product EXCEPT ![u.line].images = @ + 1]
  /\ upload' = NextImage([u EXCEPT !.done = @ + 1])
  /\ UNCHANGED <<categoryVars, file, list, reader, named, missed>>

\* Slip: an image that fails is passed over like one that did not come.
RowFailsPassing ==
  LET u == upload IN
  /\ UploadFailures
  /\ u.pc \in {"insert", "readRow", "put", "setUrl"}
  /\ upload' = IF u.pc \in {"put", "setUrl"} THEN NextImage([u EXCEPT !.done = @ + 1])
               ELSE FailRow(u)
  /\ missed' = IF u.pc = "readRow" THEN missed \cup Outdated({RowCategory(u)})
               ELSE missed
  /\ UNCHANGED <<categoryVars, file, product, list, reader, named>>

\* A row that could not be read back is in the table, its category's list is
\* not deleted for it.
RowFails ==
  LET u == upload IN
  /\ UploadFailures
  /\ u.pc \in {"insert", "readRow", "put", "setUrl"}
  /\ upload' = FailRow(u)
  /\ missed' = IF u.pc = "readRow" THEN missed \cup Outdated({RowCategory(u)})
               ELSE missed
  /\ UNCHANGED <<categoryVars, file, product, list, reader, named>>

----------------------------------------------------------------------------
(* After the rows: cacheDel of the stock keys (which no one sets), all     *)
(* lists at once, and the audit row.                                       *)

DelStock ==
  /\ upload.pc = "stock"
  /\ upload' = [upload EXCEPT !.pc = "lists"]
  /\ UNCHANGED <<categoryVars, file, product, list, reader, named, missed>>

Dropped(u, k) ==
  [u EXCEPT !.drop = @ \ {k},
            !.pc = IF @ = "lists" /\ u.drop = {k} THEN "audit" ELSE @]

DropList(k) ==
  LET u == upload IN
  /\ u.pc \in {"lists", "error"} /\ k \in u.drop
  /\ list' = [list EXCEPT ![k] = Nil]
  /\ missed' = missed \ {k}
  /\ upload' = Dropped(u, k)
  /\ UNCHANGED <<categoryVars, file, product, reader, named>>

\* Promise.all rejects, the handler answers an error and the other patterns
\* go on.
DropFails(k) ==
  LET u == upload IN
  /\ UploadFailures
  /\ u.pc \in {"lists", "error"} /\ k \in u.drop
  /\ missed' = missed \cup Outdated({k})
  /\ upload' = Blank("error", u.drop \ {k})
  /\ UNCHANGED <<categoryVars, file, product, list, reader, named>>

\* A slug or the stock keys: the error leaves the handler.
UploadFails ==
  /\ UploadFailures
  /\ upload.pc \in {"slugs", "stock"}
  /\ missed' = missed \cup Outdated(Owed)
  /\ upload' = Blank("error", {})
  /\ UNCHANGED <<categoryVars, file, product, list, reader, named>>

Crash ==
  /\ UploadFailures
  /\ upload.pc \notin {"free", "crashed"}
  /\ missed' = missed \cup Outdated(Owed)
  /\ upload' = Blank("crashed", {})
  /\ UNCHANGED <<categoryVars, file, product, list, reader, named>>

\* The row is refused: no admin has the id "system" that the upload is put
\* down to, for the proxy hands on the stream without its metadata.
AuditUpload ==
  /\ upload.pc = "audit"
  /\ upload' = [upload EXCEPT !.pc = "answered"]
  /\ UNCHANGED <<categoryVars, file, product, list, reader, named, missed>>

----------------------------------------------------------------------------
(* A listProducts that misses, expiry, and the categories.                 *)

ReadList(k) ==
  /\ reader.key = Nil /\ list[k] = Nil
  /\ reader' = [key |-> k, val |-> View(k)]
  /\ UNCHANGED <<categoryVars, file, upload, product, list, named, missed>>

FillList ==
  LET k == reader.key IN
  /\ k # Nil
  /\ list' = [list EXCEPT ![k] = reader.val]
  /\ missed' = IF reader.val = View(k) THEN missed \ {k} ELSE missed \cup {k}
  /\ reader' = [key |-> Nil, val |-> {}]
  /\ UNCHANGED <<categoryVars, file, upload, product, named>>

ExpireList(k) ==
  /\ list[k] # Nil
  /\ list' = [list EXCEPT ![k] = Nil]
  /\ missed' = missed \ {k}
  /\ UNCHANGED <<categoryVars, file, upload, product, reader, named>>

\* What can happen to a slug between its look-up and the INSERT: a category
\* takes it, gives it up or goes.  A request that is cut short is one that never
\* moves on, and the products of others only refuse deletions.
CategoryStep ==
  /\ \E r \in Request :
       \/ \E c \in Category, s \in Slug : UpdateCategory(r, c, Nil, s)
       \/ \E c \in Category : DeleteCategory(r, c)
       \/ Advance(r)
  /\ named' = IF upload.pc = "free" THEN named
              ELSE [s \in Slug |-> named[s] \cup WithSlug(s)']
  /\ UNCHANGED <<file, upload, product, list, reader, missed>>

----------------------------------------------------------------------------
BulkInit ==
  /\ CategoryInit
  /\ file = <<>> /\ product = <<>>
  /\ upload = Blank("free", {})
  /\ list = [k \in ListKey |-> Nil]
  /\ reader = [key |-> Nil, val |-> {}]
  /\ named = [s \in Slug |-> {}]
  /\ missed = {}

UploadStep ==
  \/ FindCategory
  \/ InsertRow
  \/ ReadRow
  \/ PutImage
  \/ SetUrl
  \/ RowFails
  \/ DelStock
  \/ \E k \in ListKey : DropList(k)
  \/ \E k \in ListKey : DropFails(k)
  \/ UploadFails
  \/ Crash
  \/ AuditUpload

BulkNext ==
  \/ \E f \in File : StartUpload(f)
  \/ UploadStep
  \/ \E k \in ListKey : ReadList(k)
  \/ FillList
  \/ \E k \in ListKey : ExpireList(k)
  \/ CategoryStep

BulkSpec == BulkInit /\ [][BulkNext]_bulkSystemVars

----------------------------------------------------------------------------
(* Properties.                                                             *)

\* The answer's numbers add up, whatever failed: every line of the file is
\* counted either as a success or among the errors, never as both or twice, so
\* that total = success + failed (bulk.handlers.ts:153-154).
ReportExact ==
  upload.pc \in {"audit", "answered"} =>
    upload.ok \cup upload.bad = Lines /\ upload.ok \cap upload.bad = {}

\* A line counted as a success is in the table with every image that came for
\* it, under a category that exists (bulk.handlers.ts:128).
ReportedDone ==
  \A l \in upload.ok :
    /\ product[l] # Nil
    /\ product[l].images = file[l].images
    /\ Exists(product[l].category)

\* However categories are renamed, deleted and created meanwhile, a product is
\* filed under a category that had the slug of its line at some moment of the
\* upload (bulk.handlers.ts:73, 92).
FiledUnderSlug ==
  \A l \in Lines :
    product[l] # Nil => product[l].category \in named[file[l].slug]

\* A stale list is one the upload is about to delete, or is explained by a late
\* fill, a failure or a crash: also the lines that are reported as failed
\* after their INSERT have their lists deleted (bulk.handlers.ts:102, 146).
ListsAccounted == Outdated(ListKey) \subseteq Owed \cup missed

=============================================================================
