------------------------ MODULE ProductImagesProofs ------------------------
(***************************************************************************)
(* Proofs about ProductImages, for every set of types and of requests.     *)
(***************************************************************************)
EXTENDS ProductImages, TLAPS

\* What an upload that has not been overtaken knows of the row and the store.
FrameOK(f) ==
  /\ f.pc = "free" => f = Free
  /\ f.pc # "free" => f.ext \in Ext
  /\ f.pc = "remove" => f.old \in Ext /\ f.old # f.ext
  /\ ~f.late /\ f.pc \in {"put", "update"} => f.old = url
  /\ ~f.late /\ f.pc = "update" => f.ext \in objects
  /\ ~f.late /\ f.pc = "remove" => f.ext = url

Inv ==
  /\ TypeOK
  /\ \A r \in Request : FrameOK(frame[r])
  /\ UrlAccounted
  /\ OrphanAccounted

LEMMA FreeFrame == Free \in Frame /\ Free.pc = "free"
BY DEF Free, Frame

LEMMA InitInv == Init => Inv
<1> SUFFICES ASSUME Init PROVE Inv
  OBVIOUS
<1>1. TypeOK
  BY FreeFrame DEF Init, TypeOK
<1>2. \A r \in Request : FrameOK(frame[r])
  BY FreeFrame DEF Init, FrameOK
<1> QED
  BY <1>1, <1>2 DEF Init, Inv, UrlAccounted, UrlResolves, OrphanAccounted

LEMMA UploadImageInv ==
  ASSUME Inv, NEW r \in Request, NEW e \in Ext, UploadImage(r, e)
  PROVE  Inv'
<1> PICK g : g = [pc |-> "put", ext |-> e, old |-> url, late |-> FALSE]
  OBVIOUS
<1>1. /\ frame' = [frame EXCEPT ![r] = g] /\ frame[r] = Free
      /\ UNCHANGED <<url, objects, crossed, left>>
  BY DEF UploadImage
<1>2. g \in Frame
  BY DEF Inv, TypeOK, Frame
<1>3. TypeOK'
  BY <1>1, <1>2 DEF Inv, TypeOK
<1>4. \A q \in Request : FrameOK(frame[q])'
  BY <1>1 DEF Inv, TypeOK, FrameOK
<1>5. UrlAccounted'
  BY <1>1 DEF Inv, UrlAccounted, UrlResolves
<1>6. OrphanAccounted'
  <2>1. \A q \in Request : frame[q].pc \in {"update", "remove"} => frame'[q] = frame[q]
    BY <1>1, FreeFrame DEF Inv, TypeOK
  <2> QED
    BY <1>1, <2>1 DEF Inv, OrphanAccounted
<1> QED
  BY <1>3, <1>4, <1>5, <1>6 DEF Inv

LEMMA PutObjectInv ==
  ASSUME Inv, NEW r \in Request, PutObject(r)
  PROVE  Inv'
<1> PICK f, g : f = frame[r] /\ g = [f EXCEPT !.pc = "update"]
  OBVIOUS
<1>1. /\ frame' = [frame EXCEPT ![r] = g] /\ f.pc = "put"
      /\ objects' = objects \cup {f.ext}
      /\ UNCHANGED <<url, crossed, left>>
      /\ f \in Frame /\ FrameOK(f) /\ f.ext \in Ext
  BY DEF PutObject, Inv, TypeOK, FrameOK
<1>2. /\ g \in Frame /\ g.pc = "update" /\ g.ext = f.ext /\ g.old = f.old
      /\ g.late = f.late
  BY <1>1 DEF Frame
<1>3. TypeOK'
  BY <1>1, <1>2 DEF Inv, TypeOK
<1>4. ASSUME NEW q \in Request PROVE FrameOK(frame[q])'
  <2>1. CASE q = r
    <3>1. frame'[q] = g
      BY <1>1, <2>1 DEF Inv, TypeOK
    <3>2. ~g.late => g.old = url
      BY <1>1, <1>2 DEF FrameOK
    <3>3. g.ext \in Ext /\ g.ext \in objects' /\ url' = url
      BY <1>1, <1>2
    <3> QED
      BY <1>2, <3>1, <3>2, <3>3 DEF FrameOK
  <2>2. CASE q # r
    <3>1. frame'[q] = frame[q] /\ FrameOK(frame[q])
      BY <1>1, <2>2 DEF Inv, TypeOK
    <3> QED
      BY <1>1, <3>1 DEF FrameOK
  <2> QED
    BY <2>1, <2>2
<1>5. UrlAccounted'
  BY <1>1 DEF Inv, UrlAccounted, UrlResolves
<1>6. OrphanAccounted'
  <2>1. frame'[r] = g /\ \A q \in Request \ {r} : frame'[q] = frame[q]
    BY <1>1 DEF Inv, TypeOK
  <2> SUFFICES ASSUME NEW e \in objects' \ {url}
               PROVE  \/ \E q \in Request :
                           \/ frame'[q].pc = "update" /\ frame'[q].ext = e
                           \/ frame'[q].pc = "remove" /\ frame'[q].old = e
                      \/ e \in left
    BY <1>1 DEF OrphanAccounted
  <2>2. CASE e = f.ext
    BY <1>2, <2>1, <2>2
  <2>3. CASE e # f.ext
    BY <1>1, <2>1, <2>3 DEF Inv, OrphanAccounted
  <2> QED
    BY <2>2, <2>3
<1> QED
  BY <1>3, <1>4, <1>5, <1>6 DEF Inv

LEMMA SetUrlInv ==
  ASSUME Inv, NEW r \in Request, SetUrl(r)
  PROVE  Inv'
<1> PICK f, g : /\ f = frame[r]
                /\ g = IF f.old \in {Nil, f.ext} THEN Free
                       ELSE [f EXCEPT !.pc = "remove"]
  OBVIOUS
<1>1. /\ f \in Frame /\ FrameOK(f) /\ f.ext \in Ext /\ f.pc = "update"
      /\ url' = f.ext /\ objects' = objects /\ crossed' = f.late
      /\ left' = (IF f.late THEN left \cup {url} ELSE left) \ {f.ext, Nil}
      /\ frame' = [Overtaken(r) EXCEPT ![r] = g]
  BY DEF SetUrl, Inv, TypeOK, FrameOK
<1>2. frame'[r] = g
  BY <1>1 DEF Overtaken
<1>3. \/ g = Free
      \/ /\ g \in Frame /\ g.pc = "remove" /\ g.ext = f.ext /\ g.old = f.old
         /\ g.late = f.late /\ f.old \in Ext /\ f.old # f.ext
  BY <1>1 DEF Frame
<1>4. ASSUME NEW q \in Request, q # r
      PROVE  /\ frame'[q] \in Frame /\ FrameOK(frame[q])'
             /\ frame'[q].pc = frame[q].pc /\ frame'[q].ext = frame[q].ext
             /\ frame'[q].old = frame[q].old
  <2> PICK h : h = frame[q]
    OBVIOUS
  <2>1. h \in Frame /\ FrameOK(h)
    BY DEF Inv, TypeOK
  <2>2. CASE h = Free
    <3>1. frame'[q] = Free
      BY <1>1, <1>4, <2>2 DEF Overtaken
    <3> QED
      BY <2>2, <3>1, FreeFrame DEF FrameOK
  <2>3. CASE h # Free
    <3>1. frame'[q] = [h EXCEPT !.late = TRUE]
      BY <1>1, <1>4, <2>3 DEF Overtaken
    <3>2. /\ frame'[q] \in Frame /\ frame'[q].pc = h.pc /\ frame'[q].ext = h.ext
          /\ frame'[q].old = h.old /\ frame'[q].late
      BY <2>1, <3>1 DEF Frame
    <3> QED
      BY <2>1, <2>3, <3>2 DEF FrameOK
  <2> QED
    BY <2>2, <2>3
<1>5. TypeOK'
  <2>1. frame' \in [Request -> Frame]
    BY <1>1, <1>2, <1>3, <1>4, FreeFrame DEF Overtaken
  <2>2. left' \subseteq Ext
    BY <1>1 DEF Inv, TypeOK
  <2> QED
    BY <1>1, <2>1, <2>2 DEF Inv, TypeOK, Frame
<1>6. FrameOK(frame[r])'
  BY <1>1, <1>2, <1>3, FreeFrame DEF FrameOK
<1>7. UrlAccounted'
  BY <1>1 DEF UrlAccounted, UrlResolves, FrameOK
<1>8. OrphanAccounted'
  <2> SUFFICES ASSUME NEW e \in objects, e # f.ext
               PROVE  \/ \E q \in Request :
                           \/ frame'[q].pc = "update" /\ frame'[q].ext = e
                           \/ frame'[q].pc = "remove" /\ frame'[q].old = e
                      \/ e \in left'
    BY <1>1 DEF OrphanAccounted
  <2>1. e # Nil
    BY NilAssumption DEF Inv, TypeOK
  <2>2. CASE e = url /\ f.late
    BY <1>1, <2>1, <2>2
  <2>3. CASE e = url /\ ~f.late
    <3>1. f.old = e
      BY <1>1, <2>3 DEF FrameOK
    <3>2. g.pc = "remove" /\ g.old = e
      BY <1>1, <2>1, <3>1 DEF Frame
    <3> QED
      BY <1>2, <3>2
  <2>4. CASE e # url /\ e \in left
    BY <1>1, <2>1, <2>4
  <2>5. CASE e # url /\ e \notin left
    <3>1. PICK q \in Request : \/ frame[q].pc = "update" /\ frame[q].ext = e
                               \/ frame[q].pc = "remove" /\ frame[q].old = e
      BY <2>5 DEF Inv, OrphanAccounted
    <3>2. q # r
      BY <1>1, <3>1
    <3> QED
      BY <1>4, <3>1, <3>2
  <2> QED
    BY <2>2, <2>3, <2>4, <2>5
<1> QED
  BY <1>4, <1>5, <1>6, <1>7, <1>8 DEF Inv

LEMMA RemoveObjectInv ==
  ASSUME Inv, NEW r \in Request, RemoveObject(r)
  PROVE  Inv'
<1> PICK f : f = frame[r]
  OBVIOUS
<1>1. /\ f \in Frame /\ FrameOK(f) /\ f.pc = "remove" /\ f.old \in Ext
      /\ url' = url /\ objects' = objects \ {f.old}
      /\ crossed' = (crossed \/ f.late) /\ left' = left \ {f.old}
      /\ frame' = [q \in Request |->
           IF q = r THEN Free
           ELSE IF frame[q].pc = "update" /\ frame[q].ext = f.old
           THEN [frame[q] EXCEPT !.late = TRUE] ELSE frame[q]]
  BY DEF RemoveObject, Inv, TypeOK, FrameOK
<1>2. ASSUME NEW q \in Request, q # r
      PROVE  /\ frame'[q] \in Frame /\ FrameOK(frame[q])'
             /\ frame'[q].pc = frame[q].pc /\ frame'[q].ext = frame[q].ext
             /\ frame'[q].old = frame[q].old
  <2> PICK h : h = frame[q]
    OBVIOUS
  <2>1. h \in Frame /\ FrameOK(h)
    BY DEF Inv, TypeOK
  <2>2. CASE h.pc = "update" /\ h.ext = f.old
    <3>1. frame'[q] = [h EXCEPT !.late = TRUE]
      BY <1>1, <1>2, <2>2
    <3>2. /\ frame'[q] \in Frame /\ frame'[q].pc = h.pc /\ frame'[q].ext = h.ext
          /\ frame'[q].old = h.old /\ frame'[q].late
      BY <2>1, <3>1 DEF Frame
    <3> QED
      BY <2>1, <2>2, <3>2 DEF FrameOK
  <2>3. CASE ~(h.pc = "update" /\ h.ext = f.old)
    <3>1. frame'[q] = h
      BY <1>1, <1>2, <2>3
    <3> QED
      BY <1>1, <2>1, <2>3, <3>1 DEF FrameOK
  <2> QED
    BY <2>2, <2>3
<1>3. frame'[r] = Free
  BY <1>1
<1>4. TypeOK'
  <2>1. frame' \in [Request -> Frame]
    BY <1>1, <1>2, <1>3, FreeFrame
  <2> QED
    BY <1>1, <2>1 DEF Inv, TypeOK, Frame
<1>5. FrameOK(frame[r])'
  BY <1>3, FreeFrame DEF FrameOK
<1>6. UrlAccounted'
  BY <1>1 DEF Inv, UrlAccounted, UrlResolves, FrameOK
<1>7. OrphanAccounted'
  <2> SUFFICES ASSUME NEW e \in objects, e # f.old, e # url
               PROVE  \/ \E q \in Request :
                           \/ frame'[q].pc = "update" /\ frame'[q].ext = e
                           \/ frame'[q].pc = "remove" /\ frame'[q].old = e
                      \/ e \in left'
    BY <1>1 DEF OrphanAccounted
  <2>1. CASE e \in left
    BY <1>1, <2>1
  <2>2. CASE e \notin left
    <3>1. PICK q \in Request : \/ frame[q].pc = "update" /\ frame[q].ext = e
                               \/ frame[q].pc = "remove" /\ frame[q].old = e
      BY <2>2 DEF Inv, OrphanAccounted
    <3>2. q # r
      BY <1>1, <3>1
    <3> QED
      BY <1>2, <3>1, <3>2
  <2> QED
    BY <2>1, <2>2
<1> QED
  BY <1>2, <1>4, <1>5, <1>6, <1>7 DEF Inv

LEMMA AbortInv ==
  ASSUME Inv, NEW r \in Request, Abort(r)
  PROVE  Inv'
<1> PICK f : f = frame[r]
  OBVIOUS
<1>1. /\ f \in Frame /\ FrameOK(f) /\ f.pc \in {"put", "update", "remove"}
      /\ f.ext \in Ext /\ frame' = [frame EXCEPT ![r] = Free]
      /\ UNCHANGED <<url, objects, crossed>>
  BY DEF Abort, Leave, Inv, TypeOK, Frame, FrameOK
<1>2. /\ left \subseteq left' /\ left' \subseteq Ext
      /\ f.pc = "update" => f.ext \in left'
      /\ f.pc = "remove" => f.old \in left'
  BY <1>1 DEF Abort, FrameOK, Inv, TypeOK
<1>3. TypeOK'
  BY <1>1, <1>2, FreeFrame DEF Inv, TypeOK
<1>4. \A q \in Request : FrameOK(frame[q])'
  BY <1>1, FreeFrame DEF Inv, TypeOK, FrameOK
<1>5. UrlAccounted'
  BY <1>1 DEF Inv, UrlAccounted, UrlResolves
<1>6. OrphanAccounted'
  <2>1. \A q \in Request \ {r} : frame'[q] = frame[q]
    BY <1>1 DEF Inv, TypeOK
  <2> QED
    BY <1>1, <1>2, <2>1 DEF Inv, OrphanAccounted
<1> QED
  BY <1>3, <1>4, <1>5, <1>6 DEF Inv

LEMMA NextInv == Inv /\ [Next]_vars => Inv'
<1> SUFFICES ASSUME Inv, [Next]_vars PROVE Inv'
  OBVIOUS
<1>1. CASE Next
  BY <1>1, UploadImageInv, PutObjectInv, SetUrlInv, RemoveObjectInv, AbortInv
     DEF Next
<1>2. CASE UNCHANGED vars
  BY <1>2 DEF vars, Inv, TypeOK, FrameOK, UrlAccounted, UrlResolves, OrphanAccounted
<1> QED
  BY <1>1, <1>2

LEMMA Invariance == Spec => []Inv
BY InitInv, NextInv, PTL DEF Spec

\* The image a product shows exists, at every moment and after every failure,
\* unless uploads of it overtook one another (ProductImages!UrlAccounted).
THEOREM ImageExists == Spec => []UrlAccounted
<1>1. Inv => UrlAccounted
  BY DEF Inv
<1> QED
  BY <1>1, Invariance, PTL

\* No object is left behind without a reason (ProductImages!OrphanAccounted).
THEOREM OrphansKnown == Spec => []OrphanAccounted
<1>1. Inv => OrphanAccounted
  BY DEF Inv
<1> QED
  BY <1>1, Invariance, PTL

=============================================================================
