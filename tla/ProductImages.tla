--------------------------- MODULE ProductImages ---------------------------
(***************************************************************************)
(* One image of one product (its thumbnail, or its list image): the URL in *)
(* the products row and the objects in the image store.  An object's key   *)
(* is products/{id}/{type}.{ext}, so each extension is an object of its    *)
(* own, an upload with the extension in use overwrites, and any other one  *)
(* leaves the previous object behind, which the handler then removes.  An  *)
(* upload is four round trips: read the row, put the object, UPDATE the    *)
(* URL, remove the previous object.                                        *)
(***************************************************************************)
EXTENDS Integers

CONSTANTS
  Ext,      \* the extensions of the accepted image types
  Request,  \* the slots for uploads in flight
  Nil

ASSUME NilAssumption == Nil \notin Ext

VARIABLES
  url,      \* the extension in the product's image URL, or Nil
  objects,  \* the extensions under which the store holds an object
  frame,    \* the upload in each slot
  crossed,  \* history: the URL was last set, or its object removed, by an
            \* upload that another one had overtaken
  left      \* history: the objects an upload was to remove and never will

vars == <<url, objects, frame, crossed, left>>

\* late is history: another upload set the URL since this one read it, or
\* removed the object this one had put.
Free == [pc |-> "free", ext |-> Nil, old |-> Nil, late |-> FALSE]

Leave(r) == frame' = [frame EXCEPT ![r] = Free]

\* The product is read, with the URL it has: previousUrl.
UploadImage(r, e) ==
  /\ frame[r] = Free
  /\ frame' = [frame EXCEPT ![r] = [pc |-> "put", ext |-> e, old |-> url,
                                    late |-> FALSE]]
  /\ UNCHANGED <<url, objects, crossed, left>>

\* Slip: the previous object is removed first.
PutReplacing(r) ==
  /\ frame[r].pc = "put"
  /\ objects' = (objects \ {frame[r].old}) \cup {frame[r].ext}
  /\ frame' = [frame EXCEPT ![r].pc = "update"]
  /\ UNCHANGED <<url, crossed, left>>

PutObject(r) ==
  /\ frame[r].pc = "put"
  /\ objects' = objects \cup {frame[r].ext}
  /\ frame' = [frame EXCEPT ![r].pc = "update"]
  /\ UNCHANGED <<url, crossed, left>>

\* The other uploads, once request r has set the URL.
Overtaken(r) ==
  [q \in Request |-> IF q # r /\ frame[q] # Free
                     THEN [frame[q] EXCEPT !.late = TRUE] ELSE frame[q]]

\* Slip: the previous object is only looked for under the new extension.
SetUrlForgetting(r) ==
  LET f == frame[r] IN
  /\ f.pc = "update"
  /\ url' = f.ext
  /\ frame' = [Overtaken(r) EXCEPT ![r] = Free]
  /\ crossed' = f.late
  /\ left' = (IF f.late THEN left \cup {url} ELSE left) \ {f.ext, Nil}
  /\ UNCHANGED objects

\* Of the URLs that were there, an upload only knows the one it read.
SetUrl(r) ==
  LET f == frame[r] IN
  /\ f.pc = "update"
  /\ url' = f.ext
  /\ frame' = [Overtaken(r) EXCEPT
       ![r] = IF f.old \in {Nil, f.ext} THEN Free ELSE [f EXCEPT !.pc = "remove"]]
  /\ crossed' = f.late
  /\ left' = (IF f.late THEN left \cup {url} ELSE left) \ {f.ext, Nil}
  /\ UNCHANGED objects

\* deleteProductImage of the previous extension, whatever the URL is by now.
RemoveObject(r) ==
  LET f == frame[r] IN
  /\ f.pc = "remove"
  /\ objects' = objects \ {f.old}
  /\ frame' = [q \in Request |->
       IF q = r THEN Free
       ELSE IF frame[q].pc = "update" /\ frame[q].ext = f.old
       THEN [frame[q] EXCEPT !.late = TRUE] ELSE frame[q]]
  /\ crossed' = (crossed \/ f.late)
  /\ left' = left \ {f.old}
  /\ UNCHANGED url

\* A round trip fails or the service crashes.  A failed removal is logged and
\* the upload goes on, to its cache and audit steps (module Catalog).
Abort(r) ==
  LET f == frame[r] IN
  /\ f # Free
  /\ Leave(r)
  /\ left' = left \cup (CASE f.pc = "put" -> {}
                          [] f.pc = "update" -> {f.ext}
                          [] f.pc = "remove" -> {f.old})
  /\ UNCHANGED <<url, objects, crossed>>

Init ==
  /\ url \in Ext \cup {Nil}
  /\ objects = {url} \ {Nil}
  /\ frame = [r \in Request |-> Free]
  /\ crossed = FALSE
  /\ left = {}

Next ==
  \/ \E r \in Request, e \in Ext : UploadImage(r, e)
  \/ \E r \in Request : PutObject(r)
  \/ \E r \in Request : SetUrl(r)
  \/ \E r \in Request : RemoveObject(r)
  \/ \E r \in Request : Abort(r)

Spec == Init /\ [][Next]_vars

----------------------------------------------------------------------------
Frame == [pc : {"free", "put", "update", "remove"}, ext : Ext \cup {Nil},
          old : Ext \cup {Nil}, late : BOOLEAN]

\* Type correctness.
TypeOK ==
  /\ url \in Ext \cup {Nil}
  /\ objects \subseteq Ext
  /\ frame \in [Request -> Frame]
  /\ crossed \in BOOLEAN
  /\ left \subseteq Ext

UrlResolves == url = Nil \/ url \in objects

\* The image a product shows exists, at every moment and after every failure or
\* crash, unless uploads of it overtook one another: the object is put before
\* the URL names it and the previous one removed only after.
UrlAccounted == UrlResolves \/ crossed

\* An object the URL does not name is one an upload in flight has just put or
\* is about to remove, or is left from an upload that failed there or was
\* overtaken.
OrphanAccounted ==
  \A e \in objects \ {url} :
    \/ \E r \in Request : \/ frame[r].pc = "update" /\ frame[r].ext = e
                          \/ frame[r].pc = "remove" /\ frame[r].old = e
    \/ e \in left

=============================================================================
