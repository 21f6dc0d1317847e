---------------------------- MODULE WlBufferProofs ----------------------------
(***************************************************************************)
(* Theorems about WlBuffer for any control rings, buffers and number of    *)
(* surfaces.                                                               *)
(*                                                                         *)
(* The locks: who holds the lock of a surface is in draw() and will take   *)
(* that of a buffer it has a reference to; who holds the lock of a buffer  *)
(* is in ~WlBuffer(), and nobody has a reference to that buffer.  So       *)
(* nobody ever waits for more than two others in a row.                    *)
(***************************************************************************)
EXTENDS WlBuffer, TLAPS

USE WlBufferAssumption

Drawing == {"draw", "link", "drop"}
Deleting == {"delete", "clear"}

\* Locks are held where draw() and ~WlBuffer() hold them.
Locks ==
  /\ \A t \in Threads : slock[t] # None => slock[t] = t /\ pc[t] = "link"
  /\ \A b \in Buffers :
       block[b] # None => block[b] \in Threads /\ pc[block[b]] = "clear" /\ arg[block[b]] = b

\* draw() has a reference until it drops it; ~WlBuffer() runs when there is none.
References ==
  /\ \A t \in Threads : pc[t] \in Drawing => arg[t] \in Buffers /\ ref[t] = arg[t]
  /\ \A t \in Threads : ref[t] # None => pc[t] \in Drawing
  /\ \A t \in Threads : pc[t] = "draw" => live[t]
  /\ \A t \in Threads : pc[t] \in Deleting => arg[t] \in Buffers \ stored
  /\ \A t, u \in Threads : pc[t] \in Deleting => ref[u] # arg[t]

LockInv == TypeOK /\ Locks /\ References

LEMMA LockInit == Init => LockInv
<1> SUFFICES ASSUME Init
             PROVE  LockInv
  OBVIOUS
<1>1. pc \in [Procs -> Labels] /\ arg \in [Procs -> Buffers \cup {None}]
  BY DEF Init, Labels
<1>2. made \in [Threads -> 0..MaxSurfaces]
  BY DEF Init
<1>3. TypeOK
  BY <1>1, <1>2 DEF Init, TypeOK
<1>4. Locks /\ References
  BY DEF Init, Locks, References, Procs, Drawing, Deleting
<1>5. QED
  BY <1>3, <1>4 DEF LockInv

-----------------------------------------------------------------------------
\* One process has moved on, the others are where they were.
Moved(p, label, b) ==
  /\ pc'[p] = label /\ arg'[p] = b
  /\ \A q \in Procs : q # p => pc'[q] = pc[q] /\ arg'[q] = arg[q]

LEMMA GotoMoves ==
  ASSUME TypeOK, NEW p \in Procs, NEW label \in Labels, NEW b \in Buffers \cup {None},
         Goto(p, label, b)
  PROVE  /\ Moved(p, label, b)
         /\ pc' \in [Procs -> Labels] /\ arg' \in [Procs -> Buffers \cup {None}]
BY DEF TypeOK, Goto, Moved

\* Who holds no lock takes none with it.
LEMMA LocksKept ==
  ASSUME Locks, NEW p \in Procs, NEW label, NEW b, Moved(p, label, b),
         pc[p] \notin {"link", "clear"}, UNCHANGED <<slock, block>>
  PROVE  Locks'
BY DEF Locks, Moved, Procs

\* Who neither draws nor deletes afterwards, and did not draw, changes nothing.
LEMMA ReferencesKept ==
  ASSUME References, NEW p \in Procs, NEW label, NEW b, Moved(p, label, b),
         pc[p] \notin Drawing, label \notin Drawing \cup Deleting,
         UNCHANGED <<ref, stored>>, \A t \in Threads : t # p => live'[t] = live[t]
  PROVE  References'
BY DEF References, Moved, Procs, Drawing

LEMMA OpenStep ==
  ASSUME LockInv, NEW t \in Threads, Open(t)
  PROVE  LockInv'
<1>1. made[t] \in 0..MaxSurfaces /\ made[t] + 1 \in 0..MaxSurfaces
  <2>1. made[t] \in 0..MaxSurfaces
    BY DEF LockInv, TypeOK
  <2>2. made[t] < MaxSurfaces
    BY DEF Open
  <2>3. QED
    BY <2>1, <2>2
<1>2. made' \in [Threads -> 0..MaxSurfaces]
  BY <1>1 DEF LockInv, TypeOK, Open
<1>3. live' \in [Threads -> BOOLEAN] /\ \A u \in Threads : live'[u] = (u = t \/ live[u])
  BY DEF LockInv, TypeOK, Open
<1>4. TypeOK'
  BY <1>2, <1>3 DEF LockInv, TypeOK, Open
<1>5. Locks'
  BY DEF LockInv, Locks, Open
<1>6. References'
  BY <1>3 DEF LockInv, References, Open
<1>7. QED
  BY <1>4, <1>5, <1>6 DEF LockInv

LEMMA FetchStep ==
  ASSUME LockInv, NEW t \in Threads, Fetch(t)
  PROVE  LockInv'
<1> USE DEF LockInv
<1>1. PICK b \in stored : ref' = [ref EXCEPT ![t] = b] /\ Goto(t, "draw", b)
  BY DEF Fetch
<1>2. b \in Buffers /\ t \in Procs /\ "draw" \in Labels
  BY DEF TypeOK, Procs, Labels
<1>3. /\ Moved(t, "draw", b)
      /\ pc' \in [Procs -> Labels] /\ arg' \in [Procs -> Buffers \cup {None}]
  BY <1>1, <1>2, GotoMoves
<1>4. /\ ref' \in [Threads -> Buffers \cup {None}]
      /\ \A u \in Threads : ref'[u] = IF u = t THEN b ELSE ref[u]
  BY <1>1, <1>2 DEF TypeOK
<1>5. TypeOK'
  BY <1>3, <1>4 DEF TypeOK, Fetch
<1>6. Locks'
  BY <1>2, <1>3, LocksKept DEF Fetch
<1>7. References'
  BY <1>1, <1>2, <1>3, <1>4 DEF References, Moved, Procs, Drawing, Deleting, Fetch
<1>8. QED
  BY <1>5, <1>6, <1>7

LEMMA LockToDrawStep ==
  ASSUME LockInv, NEW t \in Threads, LockToDraw(t)
  PROVE  LockInv'
<1> USE DEF LockInv
<1>1. /\ arg[t] \in Buffers /\ ref[t] = arg[t] /\ live[t]
      /\ t \in Procs /\ "link" \in Labels /\ pc[t] = "draw"
  BY DEF References, Drawing, Procs, Labels, LockToDraw
<1>2. /\ Moved(t, "link", arg[t])
      /\ pc' \in [Procs -> Labels] /\ arg' \in [Procs -> Buffers \cup {None}]
  BY <1>1, GotoMoves DEF LockToDraw
<1>3. /\ cur' \in [Threads -> Buffers \cup {None}]
      /\ \A u \in Threads : u # t => cur'[u] = cur[u]
  BY <1>1 DEF TypeOK, LockToDraw
<1>4. /\ slock' \in [Threads -> Procs \cup {None}]
      /\ \A u \in Threads : slock'[u] = IF u = t THEN t ELSE slock[u]
  BY <1>1 DEF TypeOK, LockToDraw
<1>5. \A u \in Threads : cur'[u] # None => live'[u]
  BY <1>1, <1>3 DEF TypeOK, LockToDraw
<1>6. TypeOK'
  BY <1>2, <1>3, <1>4, <1>5 DEF TypeOK, LockToDraw
<1>7. Locks'
  BY <1>1, <1>2, <1>4 DEF Locks, Moved, Procs, LockToDraw
<1>8. References'
  BY <1>1, <1>2 DEF References, Moved, Procs, Drawing, Deleting, LockToDraw
<1>9. QED
  BY <1>6, <1>7, <1>8

LEMMA LinkStep ==
  ASSUME LockInv, NEW t \in Threads, Link(t)
  PROVE  LockInv'
<1> USE DEF LockInv
<1>1. /\ arg[t] \in Buffers /\ ref[t] = arg[t]
      /\ t \in Procs /\ "drop" \in Labels /\ pc[t] = "link"
  BY DEF References, Drawing, Procs, Labels, Link
<1>2. /\ Moved(t, "drop", arg[t])
      /\ pc' \in [Procs -> Labels] /\ arg' \in [Procs -> Buffers \cup {None}]
  BY <1>1, GotoMoves DEF Link
<1>3. <<t, made[t]>> \in Surfaces
  BY DEF TypeOK, Surfaces
<1>4. back' \in [Buffers -> Surfaces \cup {None}]
  BY <1>1, <1>3 DEF TypeOK, Link
<1>5. /\ slock' \in [Threads -> Procs \cup {None}]
      /\ \A u \in Threads : slock'[u] = IF u = t THEN None ELSE slock[u]
  BY DEF TypeOK, Link
<1>6. TypeOK'
  BY <1>1, <1>2, <1>4, <1>5 DEF TypeOK, Link
<1>7. Locks'
  BY <1>1, <1>2, <1>5 DEF Locks, Moved, Procs, Link
<1>8. References'
  BY <1>1, <1>2 DEF References, Moved, Procs, Drawing, Deleting, Link
<1>9. QED
  BY <1>6, <1>7, <1>8

LEMMA DropReferenceStep ==
  ASSUME LockInv, NEW t \in Threads, DropReference(t)
  PROVE  LockInv'
<1> USE DEF LockInv
<1>1. /\ arg[t] \in Buffers /\ ref[t] = arg[t]
      /\ t \in Procs /\ {"idle", "delete"} \subseteq Labels /\ pc[t] = "drop"
  BY DEF References, Drawing, Procs, Labels, DropReference
<1>2. /\ ref' \in [Threads -> Buffers \cup {None}]
      /\ \A u \in Threads : ref'[u] = IF u = t THEN None ELSE ref[u]
  BY DEF TypeOK, DropReference
<1>3. CASE Goto(t, "idle", None)
  <2>1. /\ Moved(t, "idle", None)
        /\ pc' \in [Procs -> Labels] /\ arg' \in [Procs -> Buffers \cup {None}]
    BY <1>1, <1>3, GotoMoves
  <2>2. TypeOK'
    BY <1>2, <2>1 DEF TypeOK, DropReference
  <2>3. Locks'
    BY <1>1, <2>1, LocksKept DEF DropReference
  <2>4. References'
    BY <1>1, <1>2, <2>1 DEF References, Moved, Procs, Drawing, Deleting, DropReference
  <2>5. QED
    BY <2>2, <2>3, <2>4
<1>4. CASE /\ Goto(t, "delete", arg[t]) /\ arg[t] \notin stored
           /\ \A u \in Threads \ {t} : ref[u] # arg[t]
  <2>1. /\ Moved(t, "delete", arg[t])
        /\ pc' \in [Procs -> Labels] /\ arg' \in [Procs -> Buffers \cup {None}]
    BY <1>1, <1>4, GotoMoves
  <2>2. TypeOK'
    BY <1>2, <2>1 DEF TypeOK, DropReference
  <2>3. Locks'
    BY <1>1, <2>1, LocksKept DEF DropReference
  <2>4. References'
    BY <1>1, <1>2, <1>4, <2>1 DEF References, Moved, Procs, Drawing, Deleting, DropReference
  <2>5. QED
    BY <2>2, <2>3, <2>4
<1>5. QED
  BY <1>3, <1>4 DEF DropReference

LEMMA DetachStep ==
  ASSUME LockInv, NEW t \in Threads, Detach(t)
  PROVE  LockInv'
<1> USE DEF LockInv
<1>1. PICK b \in stored :
        /\ stored' = stored \ {b}
        /\ \/ UNCHANGED <<storage, pc, arg>>
           \/ /\ \A u \in Threads : ref[u] # b
              /\ storage' = t /\ Goto(t, "delete", b)
  BY DEF Detach
<1>2. b \in Buffers /\ t \in Procs /\ "delete" \in Labels /\ pc[t] = "idle"
  BY DEF TypeOK, Procs, Labels, Detach
<1>3. CASE UNCHANGED <<storage, pc, arg>>
  BY <1>1, <1>3 DEF TypeOK, Locks, References, Detach
<1>4. CASE /\ \A u \in Threads : ref[u] # b
           /\ storage' = t /\ Goto(t, "delete", b)
  <2>1. /\ Moved(t, "delete", b)
        /\ pc' \in [Procs -> Labels] /\ arg' \in [Procs -> Buffers \cup {None}]
    BY <1>2, <1>4, GotoMoves
  <2>2. TypeOK'
    BY <1>1, <1>4, <2>1 DEF TypeOK, Detach
  <2>3. Locks'
    BY <1>2, <2>1, LocksKept DEF Detach
  <2>4. References'
    BY <1>1, <1>2, <1>4, <2>1 DEF References, Moved, Procs, Drawing, Deleting, Detach
  <2>5. QED
    BY <2>2, <2>3, <2>4
<1>5. QED
  BY <1>1, <1>3, <1>4

\* What the destructor ends with.
LEMMA DestroyedFacts ==
  ASSUME LockInv, NEW t \in Threads, NEW b \in Buffers, Destroyed(t, b)
  PROVE  /\ Moved(t, "idle", None) /\ t \in Procs
         /\ pc' \in [Procs -> Labels] /\ arg' \in [Procs -> Buffers \cup {None}]
         /\ dead' \subseteq Buffers /\ shown' \subseteq Buffers
         /\ storage' \in Threads \cup {None}
<1>1. t \in Procs /\ "idle" \in Labels
  BY DEF Procs, Labels
<1>2. QED
  BY <1>1, GotoMoves DEF Destroyed, LockInv, TypeOK

LEMMA LockToDeleteStep ==
  ASSUME LockInv, NEW t \in Threads, LockToDelete(t)
  PROVE  LockInv'
<1> USE DEF LockInv
<1>1. /\ arg[t] \in Buffers \ stored /\ \A u \in Threads : ref[u] # arg[t]
      /\ t \in Procs /\ "clear" \in Labels /\ pc[t] = "delete" /\ block[arg[t]] = None
  BY DEF References, Deleting, Procs, Labels, LockToDelete
<1>2. CASE Destroyed(t, arg[t]) /\ UNCHANGED block
  <2>1. /\ Moved(t, "idle", None)
        /\ pc' \in [Procs -> Labels] /\ arg' \in [Procs -> Buffers \cup {None}]
        /\ dead' \subseteq Buffers /\ shown' \subseteq Buffers
        /\ storage' \in Threads \cup {None}
    BY <1>1, <1>2, DestroyedFacts
  <2>2. TypeOK'
    BY <1>2, <2>1 DEF TypeOK, LockToDelete
  <2>3. Locks'
    BY <1>1, <1>2, <2>1, LocksKept DEF LockToDelete
  <2>4. References'
    BY <1>1, <2>1, ReferencesKept DEF Drawing, Deleting, LockToDelete
  <2>5. QED
    BY <2>2, <2>3, <2>4
<1>3. CASE /\ block' = [block EXCEPT ![arg[t]] = t]
           /\ Goto(t, "clear", arg[t]) /\ UNCHANGED <<dead, shown, storage>>
  <2>1. /\ Moved(t, "clear", arg[t])
        /\ pc' \in [Procs -> Labels] /\ arg' \in [Procs -> Buffers \cup {None}]
    BY <1>1, <1>3, GotoMoves
  <2>2. /\ block' \in [Buffers -> Procs \cup {None}]
        /\ \A b \in Buffers : block'[b] = IF b = arg[t] THEN t ELSE block[b]
    BY <1>1, <1>3 DEF TypeOK
  <2>3. TypeOK'
    BY <1>3, <2>1, <2>2 DEF TypeOK, LockToDelete
  <2>4. Locks'
    BY <1>1, <2>1, <2>2 DEF Locks, Moved, Procs, LockToDelete
  <2>5. References'
    BY <1>1, <2>1 DEF References, Moved, Procs, Drawing, Deleting, LockToDelete
  <2>6. QED
    BY <2>3, <2>4, <2>5
<1>4. QED
  BY <1>2, <1>3 DEF LockToDelete

LEMMA ClearSurfaceStep ==
  ASSUME LockInv, NEW t \in Threads, ClearSurface(t)
  PROVE  LockInv'
<1> USE DEF LockInv
<1>1. arg[t] \in Buffers /\ t \in Procs /\ pc[t] = "clear" /\ Destroyed(t, arg[t])
  BY DEF References, Deleting, Procs, ClearSurface
<1>2. /\ Moved(t, "idle", None)
      /\ pc' \in [Procs -> Labels] /\ arg' \in [Procs -> Buffers \cup {None}]
      /\ dead' \subseteq Buffers /\ shown' \subseteq Buffers
      /\ storage' \in Threads \cup {None}
  BY <1>1, DestroyedFacts
<1>3. /\ block' \in [Buffers -> Procs \cup {None}]
      /\ \A b \in Buffers : block'[b] = IF b = arg[t] THEN None ELSE block[b]
  BY <1>1 DEF TypeOK, ClearSurface
<1>4. /\ cur' \in [Threads -> Buffers \cup {None}]
      /\ \A u \in Threads : cur'[u] \in {cur[u], None}
  BY DEF TypeOK, ClearSurface
<1>5. misuse' \subseteq {"buffer in release()", "surface in ~WlBuffer()", "buffer in onRelease()"}
  BY DEF TypeOK, ClearSurface
<1>6. TypeOK'
  BY <1>2, <1>3, <1>4, <1>5 DEF TypeOK, ClearSurface
<1>7. Locks'
  <2>1. UNCHANGED slock
    BY DEF ClearSurface
  <2>2. \A u \in Threads : slock'[u] # None => slock'[u] = u /\ pc'[u] = "link"
    BY <1>1, <1>2, <2>1 DEF Locks, Moved, Procs
  <2>3. ASSUME NEW b \in Buffers, block'[b] # None
        PROVE  block'[b] \in Threads /\ pc'[block'[b]] = "clear" /\ arg'[block'[b]] = b
    <3>1. b # arg[t] /\ block'[b] = block[b]
      BY <1>3, <2>3
    <3>2. block[b] \in Threads /\ pc[block[b]] = "clear" /\ arg[block[b]] = b
      BY <2>3, <3>1 DEF Locks
    <3>3. QED
      BY <1>2, <3>1, <3>2 DEF Moved, Procs
  <2>4. QED
    BY <2>2, <2>3 DEF Locks
<1>8. References'
  BY <1>1, <1>2, ReferencesKept DEF Drawing, Deleting, ClearSurface
<1>9. QED
  BY <1>6, <1>7, <1>8

LEMMA CloseStep ==
  ASSUME LockInv, NEW t \in Threads, Close(t)
  PROVE  LockInv'
<1> USE DEF LockInv
<1>1. /\ t \in Procs /\ {"close", "unlink"} \subseteq Labels /\ pc[t] = "idle"
      /\ cur[t] \in Buffers \cup {None}
  BY DEF TypeOK, Procs, Labels, Close
<1>2. PICK label \in {"close", "unlink"}, b \in Buffers \cup {None} : Goto(t, label, b)
  BY <1>1 DEF Close
<1>3. /\ Moved(t, label, b)
      /\ pc' \in [Procs -> Labels] /\ arg' \in [Procs -> Buffers \cup {None}]
  BY <1>1, <1>2, GotoMoves
<1>4. TypeOK'
  BY <1>3 DEF TypeOK, Close
<1>5. Locks'
  BY <1>1, <1>3, LocksKept DEF Close
<1>6. References'
  BY <1>1, <1>3, ReferencesKept DEF Drawing, Deleting, Close
<1>7. QED
  BY <1>4, <1>5, <1>6

LEMMA UnlinkStep ==
  ASSUME LockInv, NEW t \in Threads, Unlink(t)
  PROVE  LockInv'
<1> USE DEF LockInv
<1>1. t \in Procs /\ "close" \in Labels /\ pc[t] = "unlink"
  BY DEF Procs, Labels, Unlink
<1>2. /\ Moved(t, "close", None)
      /\ pc' \in [Procs -> Labels] /\ arg' \in [Procs -> Buffers \cup {None}]
  BY <1>1, GotoMoves DEF Unlink
<1>3. back' \in [Buffers -> Surfaces \cup {None}]
  BY DEF TypeOK, Unlink
<1>4. misuse' \subseteq {"buffer in release()", "surface in ~WlBuffer()", "buffer in onRelease()"}
  BY DEF TypeOK, Unlink
<1>5. TypeOK'
  BY <1>2, <1>3, <1>4 DEF TypeOK, Unlink
<1>6. Locks'
  BY <1>1, <1>2, LocksKept DEF Unlink
<1>7. References'
  BY <1>1, <1>2, ReferencesKept DEF Drawing, Deleting, Unlink
<1>8. QED
  BY <1>5, <1>6, <1>7

LEMMA ClosedStep ==
  ASSUME LockInv, NEW t \in Threads, Closed(t)
  PROVE  LockInv'
<1> USE DEF LockInv
<1>1. t \in Procs /\ "idle" \in Labels /\ pc[t] = "close"
  BY DEF Procs, Labels, Closed
<1>2. /\ Moved(t, "idle", None)
      /\ pc' \in [Procs -> Labels] /\ arg' \in [Procs -> Buffers \cup {None}]
  BY <1>1, GotoMoves DEF Closed
<1>3. /\ cur' \in [Threads -> Buffers \cup {None}]
      /\ \A u \in Threads : cur'[u] = IF u = t THEN None ELSE cur[u]
  BY DEF TypeOK, Closed
<1>4. /\ live' \in [Threads -> BOOLEAN]
      /\ \A u \in Threads : u # t => live'[u] = live[u]
  BY DEF TypeOK, Closed
<1>5. TypeOK'
  BY <1>2, <1>3, <1>4 DEF TypeOK, Closed
<1>6. Locks'
  BY <1>1, <1>2, LocksKept DEF Closed
<1>7. References'
  BY <1>1, <1>2, <1>4, ReferencesKept DEF Drawing, Deleting, Closed
<1>8. QED
  BY <1>5, <1>6, <1>7

LEMMA DeliverStep == ASSUME LockInv, Deliver PROVE LockInv'
<1> USE DEF LockInv
<1>1. Dispatch \in Procs /\ "released" \in Labels /\ pc[Dispatch] = "idle"
  BY DEF Procs, Labels, Deliver
<1>2. PICK b \in shown : shown' = shown \ {b} /\ Goto(Dispatch, "released", b)
  BY DEF Deliver
<1>3. /\ Moved(Dispatch, "released", b)
      /\ pc' \in [Procs -> Labels] /\ arg' \in [Procs -> Buffers \cup {None}]
  BY <1>1, <1>2, GotoMoves DEF TypeOK
<1>4. TypeOK'
  BY <1>2, <1>3 DEF TypeOK, Deliver
<1>5. Locks'
  BY <1>1, <1>3, LocksKept DEF Deliver
<1>6. References'
  BY <1>1, <1>3, ReferencesKept DEF Drawing, Deleting, Deliver
<1>7. QED
  BY <1>4, <1>5, <1>6

LEMMA OnReleaseStep == ASSUME LockInv, OnRelease PROVE LockInv'
<1> USE DEF LockInv
<1>1. Dispatch \in Procs /\ "idle" \in Labels /\ pc[Dispatch] = "released"
  BY DEF Procs, Labels, OnRelease
<1>2. /\ Moved(Dispatch, "idle", None)
      /\ pc' \in [Procs -> Labels] /\ arg' \in [Procs -> Buffers \cup {None}]
  BY <1>1, GotoMoves DEF OnRelease
<1>3. back' \in [Buffers -> Surfaces \cup {None}]
  BY DEF TypeOK, OnRelease
<1>4. misuse' \subseteq {"buffer in release()", "surface in ~WlBuffer()", "buffer in onRelease()"}
  BY DEF TypeOK, OnRelease
<1>5. TypeOK'
  BY <1>2, <1>3, <1>4 DEF TypeOK, OnRelease
<1>6. Locks'
  BY <1>1, <1>2, LocksKept DEF OnRelease
<1>7. References'
  BY <1>1, <1>2, ReferencesKept DEF Drawing, Deleting, OnRelease
<1>8. QED
  BY <1>5, <1>6, <1>7

LEMMA LockInductive == Spec => []LockInv
<1>1. LockInv /\ [Next]_vars => LockInv'
  <2> SUFFICES ASSUME LockInv, [Next]_vars
               PROVE  LockInv'
    OBVIOUS
  <2>1. CASE UNCHANGED vars
    BY <2>1 DEF vars, LockInv, TypeOK, Locks, References
  <2>2. QED
    BY <2>1, OpenStep, FetchStep, LockToDrawStep, LinkStep, DropReferenceStep,
       DetachStep, LockToDeleteStep, ClearSurfaceStep, CloseStep, UnlinkStep,
       ClosedStep, DeliverStep, OnReleaseStep DEF Next
<1>2. QED
  BY LockInit, <1>1, PTL DEF Spec

\* Every variable keeps its type, and mBuffer is that of a surface there is.
THEOREM TypeCorrect == Spec => []TypeOK
<1>1. LockInv => TypeOK
  BY DEF LockInv
<1>2. QED
  BY <1>1, LockInductive, PTL

\* Nobody waits for a member of a set of processes that all wait for each other:
\* who holds a lock is in draw(), about to take the lock of a buffer that is not
\* being destroyed, or in ~WlBuffer(), about to take the lock of a surface.
THEOREM LocksInOrder == Spec => []NoCircularWait
<1>1. LockInv => NoCircularWait
  <2> SUFFICES ASSUME LockInv, NEW ps \in (SUBSET Procs) \ {{}},
                      \A p \in ps : \E q \in ps : q \in WaitsFor(p)
               PROVE  FALSE
    BY DEF NoCircularWait
  <2>1. None \notin Procs
    BY DEF Procs, Dispatch
  <2>2. ASSUME NEW p \in ps, NEW q \in ps, q \in WaitsFor(p)
        PROVE  \/ q \in Threads /\ pc[q] = "link"
               \/ q \in Threads /\ pc[q] = "clear"
    BY <2>1, <2>2 DEF WaitsFor, NeededSurfaces, NeededBuffers, LockInv, Locks
  <2>3. ASSUME NEW p \in ps, p \in Threads, pc[p] = "link"
        PROVE  FALSE
    <3>1. PICK q \in ps : q \in WaitsFor(p)
      OBVIOUS
    <3>2. arg[p] \in Buffers /\ q = block[arg[p]] /\ q # None
      BY <2>1, <2>3, <3>1 DEF WaitsFor, NeededSurfaces, NeededBuffers
    <3>3. q \in Threads /\ pc[q] = "clear" /\ arg[q] = arg[p]
      BY <3>2 DEF LockInv, Locks
    <3>4. QED
      BY <2>3, <3>3 DEF LockInv, References, Drawing, Deleting
  <2>4. ASSUME NEW p \in ps, p \in Threads, pc[p] = "clear"
        PROVE  FALSE
    <3>1. PICK q \in ps : q \in WaitsFor(p)
      OBVIOUS
    <3>2. PICK t \in Threads : q = slock[t] /\ q # None
      BY <2>1, <2>4, <3>1 DEF WaitsFor, NeededSurfaces, NeededBuffers
    <3>3. QED
      BY <2>3, <3>2 DEF LockInv, Locks
  <2>5. PICK p \in ps, q \in ps : q \in WaitsFor(p)
    OBVIOUS
  <2>6. QED
    BY <2>2, <2>3, <2>4, <2>5
<1>2. QED
  BY <1>1, LockInductive, PTL

-----------------------------------------------------------------------------
(***************************************************************************)
(* The raw pointers.  mSurface of a buffer that exists is set only while    *)
(* the compositor has the buffer or its release is being handled, and stays *)
(* set while ~WlBuffer() clears the surface.  A patient frontend has        *)
(* nothing left at a buffer it detaches; of a tidy one, the surface that    *)
(* ~WlBuffer() clears is that of the ring that runs it.                     *)
(***************************************************************************)
Back ==
  /\ dead \cap stored = {}
  /\ pc[Dispatch] # "released" => arg[Dispatch] = None
  /\ \A b \in Buffers \ dead : back[b] # None => b \in shown \/ arg[Dispatch] = b
Clearing ==
  \A t \in Threads : pc[t] = "clear" => block[arg[t]] = t /\ back[arg[t]] # None
Patient ==
  frontend = "patient" =>
    /\ misuse = {}
    /\ \A b \in Buffers \ stored :
         /\ b \notin shown /\ arg[Dispatch] # b /\ back[b] = None
         /\ \A u \in Threads : cur[u] # b /\ ref[u] # b /\ (arg[u] = b => pc[u] = "delete")
Tidy ==
  frontend = "tidy" =>
    /\ "surface in ~WlBuffer()" \notin misuse
    /\ \A u \in Threads : ref[u] # None => ref[u] \in stored
    /\ \A t \in Threads :
         pc[t] \in Deleting => back[arg[t]] = None \/ (back[arg[t]] = <<t, made[t]>> /\ live[t])

PointerInv == Back /\ Clearing /\ Patient /\ Tidy

LEMMA PointerInit == Init => PointerInv
BY DEF Init, PointerInv, Back, Clearing, Patient, Tidy, Procs, Dispatch, Deleting

\* What a step leaves of the three parts, if nobody starts to destroy a buffer in
\* it and mSurface at most becomes null.
NoneStarts ==
  \A u \in Threads :
    pc'[u] \in Deleting => pc'[u] = pc[u] /\ arg'[u] = arg[u] /\ arg[u] \in Buffers

LEMMA ClearingKept ==
  ASSUME Clearing, NoneStarts,
         \A u \in Threads : pc'[u] = "clear" =>
            block'[arg[u]] = block[arg[u]] /\ back'[arg[u]] = back[arg[u]]
  PROVE  Clearing'
BY DEF Clearing, NoneStarts, Deleting

LEMMA TidyKept ==
  ASSUME Tidy, NoneStarts, UNCHANGED <<frontend, stored, ref, made>>,
         \A u \in Threads : pc'[u] \in Deleting =>
            back'[arg[u]] \in {back[arg[u]], None} /\ live'[u] = live[u],
         frontend = "tidy" =>
           ("surface in ~WlBuffer()" \in misuse' => "surface in ~WlBuffer()" \in misuse)
  PROVE  Tidy'
BY DEF Tidy, NoneStarts, Deleting

LEMMA PatientKept ==
  ASSUME Patient, UNCHANGED <<frontend, stored, ref, misuse>>,
         shown' \subseteq shown,
         arg'[Dispatch] \in {arg[Dispatch], None},
         \A b \in Buffers : back'[b] \in {back[b], None},
         \A u \in Threads :
            /\ cur'[u] \in {cur[u], None}
            /\ arg'[u] = None \/ (pc'[u] = pc[u] /\ arg'[u] = arg[u])
  PROVE  Patient'
BY DEF Patient

\* The steps that touch neither a buffer nor mSurface, by a thread that is not
\* in the destructor of a buffer and does not go to an unstored one.
LEMMA PointersKept ==
  ASSUME PointerInv, NEW t \in Threads, NEW label, NEW b, Moved(t, label, b),
         pc[t] \notin Deleting, label \notin Deleting,
         b \notin Buffers \ stored \/ frontend # "patient",
         UNCHANGED <<frontend, stored, dead, shown, back, block, misuse>>,
         \A u \in Threads : u # t => made'[u] = made[u] /\ live'[u] = live[u],
         \A u \in Threads : cur'[u] \in Buffers \ stored => cur'[u] = cur[u] \/ frontend # "patient",
         \A u \in Threads : ref'[u] \in {ref[u], None} \cup stored
  PROVE  PointerInv'
<1>1. t \in Procs /\ t # Dispatch /\ Dispatch \in Procs
  BY DEF Procs, Dispatch
<1>2. pc'[Dispatch] = pc[Dispatch] /\ arg'[Dispatch] = arg[Dispatch]
  BY <1>1 DEF Moved
<1>3. \A u \in Threads : u # t => pc'[u] = pc[u] /\ arg'[u] = arg[u]
  BY DEF Moved, Procs
<1>4. Back'
  BY <1>2 DEF PointerInv, Back
<1>5. Clearing'
  BY <1>3 DEF PointerInv, Clearing, Moved, Deleting
<1>6. Patient'
  BY <1>2, <1>3 DEF PointerInv, Patient, Moved
<1>7. Tidy'
  <2>1. \A u \in Threads : pc'[u] \in Deleting => u # t
    BY <1>1 DEF Moved
  <2>2. \A u \in Threads : pc'[u] \in Deleting =>
          /\ pc[u] \in Deleting /\ arg'[u] = arg[u]
          /\ made'[u] = made[u] /\ live'[u] = live[u]
    BY <1>3, <2>1
  <2>3. QED
    BY <2>2 DEF PointerInv, Tidy
<1>8. QED
  BY <1>4, <1>5, <1>6, <1>7 DEF PointerInv

LEMMA OpenPointers ==
  ASSUME LockInv, PointerInv, NEW t \in Threads, Open(t)
  PROVE  PointerInv'
<1>1. \A u \in Threads : u # t => made'[u] = made[u] /\ live'[u] = live[u]
  BY DEF LockInv, TypeOK, Open
<1>2. pc[t] = "idle"
  BY DEF Open
<1>3. Tidy'
  BY <1>1, <1>2 DEF PointerInv, Tidy, Deleting, Open
<1>4. Back' /\ Clearing' /\ Patient'
  BY DEF PointerInv, Back, Clearing, Patient, Open
<1>5. QED
  BY <1>3, <1>4 DEF PointerInv

LEMMA FetchPointers ==
  ASSUME LockInv, PointerInv, NEW t \in Threads, Fetch(t)
  PROVE  PointerInv'
<1>1. PICK b \in stored : ref' = [ref EXCEPT ![t] = b] /\ Goto(t, "draw", b)
  BY DEF Fetch
<1>2. TypeOK /\ b \in Buffers /\ t \in Procs /\ "draw" \in Labels
  BY DEF LockInv, TypeOK, Procs, Labels
<1>3. Moved(t, "draw", b)
  BY <1>1, <1>2, GotoMoves
<1>4. \A u \in Threads : ref'[u] \in {ref[u], None} \cup stored
  BY <1>1, <1>2 DEF TypeOK
<1>5. QED
  BY <1>3, <1>4, PointersKept DEF Fetch, Deleting

LEMMA LockToDrawPointers ==
  ASSUME LockInv, PointerInv, NEW t \in Threads, LockToDraw(t)
  PROVE  PointerInv'
<1>1. TypeOK /\ arg[t] \in Buffers /\ ref[t] = arg[t] /\ t \in Procs /\ "link" \in Labels
  BY DEF LockInv, References, Drawing, Procs, Labels, LockToDraw
<1>2. Moved(t, "link", arg[t])
  BY <1>1, GotoMoves DEF LockToDraw
<1>3. arg[t] \notin Buffers \ stored \/ frontend # "patient"
  BY <1>1 DEF PointerInv, Patient
<1>4. \A u \in Threads : cur'[u] = IF u = t THEN arg[t] ELSE cur[u]
  BY <1>1 DEF TypeOK, LockToDraw
<1>5. QED
  BY <1>2, <1>3, <1>4, PointersKept DEF LockToDraw, Deleting

LEMMA LinkPointers ==
  ASSUME LockInv, PointerInv, NEW t \in Threads, Link(t)
  PROVE  PointerInv'
<1>1. /\ TypeOK /\ arg[t] \in Buffers /\ ref[t] = arg[t] /\ t \in Procs
      /\ t # Dispatch /\ Dispatch \in Procs /\ "drop" \in Labels /\ pc[t] = "link"
  BY DEF LockInv, References, Drawing, Procs, Dispatch, Labels, Link
<1>2. Moved(t, "drop", arg[t])
  BY <1>1, GotoMoves DEF Link
<1>3. /\ pc'[Dispatch] = pc[Dispatch] /\ arg'[Dispatch] = arg[Dispatch]
      /\ \A u \in Threads : u # t => pc'[u] = pc[u] /\ arg'[u] = arg[u]
  BY <1>1, <1>2 DEF Moved, Procs
<1>4. \A b \in Buffers : back'[b] = IF b = arg[t] THEN <<t, made[t]>> ELSE back[b]
  BY <1>1 DEF TypeOK, Link
<1>5. \A u \in Threads : pc[u] \in Deleting => arg[u] \in Buffers /\ arg[u] # arg[t]
  BY <1>1 DEF LockInv, References
<1>6. Back'
  BY <1>1, <1>3, <1>4 DEF PointerInv, Back, Link
<1>7. Clearing'
  BY <1>2, <1>3, <1>4, <1>5 DEF PointerInv, Clearing, Moved, Deleting, Link
<1>8. Patient'
  BY <1>1, <1>2, <1>3, <1>4 DEF PointerInv, Patient, Moved, Link
<1>9. Tidy'
  <2>1. NoneStarts
    BY <1>2, <1>3, <1>5 DEF NoneStarts, Moved, Deleting
  <2>2. \A u \in Threads : pc'[u] \in Deleting => arg[u] \in Buffers /\ arg[u] # arg[t]
    BY <1>5, <2>1 DEF NoneStarts
  <2>3. \A u \in Threads : pc'[u] \in Deleting => back'[arg[u]] = back[arg[u]]
    BY <1>4, <2>2
  <2>4. QED
    BY <2>1, <2>3, TidyKept DEF PointerInv, Link
<1>10. QED
  BY <1>6, <1>7, <1>8, <1>9 DEF PointerInv

LEMMA DropReferencePointers ==
  ASSUME LockInv, PointerInv, NEW t \in Threads, DropReference(t)
  PROVE  PointerInv'
<1>1. /\ TypeOK /\ arg[t] \in Buffers /\ ref[t] = arg[t] /\ t \in Procs
      /\ {"idle", "delete"} \subseteq Labels /\ pc[t] = "drop"
  BY DEF LockInv, References, Drawing, Procs, Labels, DropReference
<1>2. \A u \in Threads : ref'[u] = IF u = t THEN None ELSE ref[u]
  BY <1>1 DEF TypeOK, DropReference
<1>3. CASE Goto(t, "idle", None)
  <2>1. Moved(t, "idle", None)
    BY <1>1, <1>3, GotoMoves
  <2>2. QED
    BY <1>1, <1>2, <2>1, PointersKept DEF DropReference, Deleting
<1>4. CASE Goto(t, "delete", arg[t]) /\ arg[t] \notin stored
  <2>1. frontend \notin {"patient", "tidy"}
    BY <1>1, <1>4 DEF PointerInv, Patient, Tidy
  <2>2. Moved(t, "delete", arg[t]) /\ t # Dispatch /\ Dispatch \in Procs
    BY <1>1, <1>4, GotoMoves DEF Procs, Dispatch
  <2>3. Back'
    BY <2>2 DEF PointerInv, Back, Moved, DropReference
  <2>4. Clearing'
    BY <2>2 DEF PointerInv, Clearing, Moved, Procs, DropReference
  <2>5. QED
    BY <2>1, <2>3, <2>4 DEF PointerInv, Patient, Tidy, DropReference
<1>5. QED
  BY <1>3, <1>4 DEF DropReference

LEMMA DetachPointers ==
  ASSUME LockInv, PointerInv, NEW t \in Threads, Detach(t)
  PROVE  PointerInv'
<1>1. PICK b \in stored :
        /\ MayDetach(t, b) /\ stored' = stored \ {b}
        /\ IF \E u \in Threads : ref[u] = b
             THEN UNCHANGED <<storage, pc, arg>>
             ELSE storage' = t /\ Goto(t, "delete", b)
  BY DEF Detach
<1>2. /\ TypeOK /\ References /\ b \in Buffers /\ t \in Procs /\ t # Dispatch /\ Dispatch \in Procs
      /\ "delete" \in Labels /\ pc[t] = "idle"
  BY DEF LockInv, TypeOK, Procs, Dispatch, Labels, Detach
<1>3. ref[t] = None /\ b # None
  BY <1>2 DEF References, Drawing
<1>4. CASE frontend = "any"
  <2>1. Back'
    <3>1. pc'[Dispatch] = pc[Dispatch] /\ arg'[Dispatch] = arg[Dispatch]
      BY <1>1, <1>2, GotoMoves DEF Moved
    <3>2. QED
      BY <1>1, <3>1 DEF PointerInv, Back, Detach
  <2>2. Clearing'
    BY <1>1, <1>2, GotoMoves DEF PointerInv, Clearing, Moved, Procs, Detach
  <2>3. QED
    BY <1>4, <2>1, <2>2 DEF PointerInv, Patient, Tidy, Detach
<1>5. CASE Unused(b) \/ (frontend = "tidy" /\ OnOwnSurface(t, b))
  <2>1. \A u \in Threads : ref[u] # b
    BY <1>3, <1>5 DEF Unused, OnOwnSurface, Users
  <2>2. Moved(t, "delete", b)
    BY <1>1, <1>2, <2>1, GotoMoves
  <2>3. /\ pc'[Dispatch] = pc[Dispatch] /\ arg'[Dispatch] = arg[Dispatch]
        /\ \A u \in Threads : u # t => pc'[u] = pc[u] /\ arg'[u] = arg[u]
    BY <1>2, <2>2 DEF Moved, Procs
  <2>4. Back'
    BY <1>1, <2>3 DEF PointerInv, Back, Detach
  <2>5. Clearing'
    BY <2>2, <2>3 DEF PointerInv, Clearing, Moved, Detach
  <2>6. \/ Unused(b) /\ back[b] = None
        \/ frontend = "tidy" /\ back[b] = <<t, made[t]>> /\ live[t]
    <3>1. b \in Buffers \ dead
      BY <1>1, <1>2 DEF PointerInv, Back
    <3>2. CASE Unused(b)
      BY <3>1, <3>2 DEF PointerInv, Back, Unused
    <3>3. CASE frontend = "tidy" /\ OnOwnSurface(t, b)
      BY <1>2, <1>3, <3>3 DEF TypeOK, OnOwnSurface
    <3>4. QED
      BY <1>5, <3>2, <3>3
  <2>7. Patient'
    <3> SUFFICES ASSUME frontend = "patient"
                 PROVE  Patient'
      BY DEF Patient, Detach
    <3>1. /\ b \notin shown /\ arg[Dispatch] # b /\ back[b] = None
          /\ \A u \in Threads : cur[u] # b /\ ref[u] # b /\ arg[u] # b
      BY <2>6 DEF Unused, Users
    <3>2. QED
      BY <1>1, <2>2, <2>3, <3>1 DEF PointerInv, Patient, Moved, Detach
  <2>8. Tidy'
    <3>1. \A u \in Threads : ref[u] \in stored => ref[u] \in stored'
      BY <1>1, <2>1
    <3>2. arg'[t] = b
      BY <2>2 DEF Moved
    <3>3. QED
      BY <2>3, <2>6, <3>1, <3>2 DEF PointerInv, Tidy, Detach
  <2>9. QED
    BY <2>4, <2>5, <2>7, <2>8 DEF PointerInv
<1>6. MayDetach(t, b)
  BY <1>1
<1>7. QED
  BY <1>4, <1>5, <1>6 DEF MayDetach

LEMMA LockToDeletePointers ==
  ASSUME LockInv, PointerInv, NEW t \in Threads, LockToDelete(t)
  PROVE  PointerInv'
<1>1. /\ TypeOK /\ arg[t] \in Buffers \ stored /\ t \in Procs /\ t # Dispatch /\ Dispatch \in Procs
      /\ "clear" \in Labels /\ pc[t] = "delete" /\ block[arg[t]] = None
  BY DEF LockInv, References, Deleting, Procs, Dispatch, Labels, LockToDelete
<1>2. CASE back[arg[t]] = None /\ Destroyed(t, arg[t]) /\ UNCHANGED block
  <2>1. Moved(t, "idle", None)
    BY <1>1, <1>2, DestroyedFacts
  <2>2. /\ pc'[Dispatch] = pc[Dispatch] /\ arg'[Dispatch] = arg[Dispatch]
        /\ \A u \in Threads : u # t => pc'[u] = pc[u] /\ arg'[u] = arg[u]
        /\ dead' = dead \cup {arg[t]} /\ shown' = shown \ {arg[t]}
    BY <1>1, <1>2, <2>1 DEF Moved, Procs, Destroyed
  <2>3. Back'
    BY <1>1, <2>2 DEF PointerInv, Back, LockToDelete
  <2>4. Clearing'
    BY <1>2, <2>1, <2>2 DEF PointerInv, Clearing, Moved, LockToDelete
  <2>5. Patient'
    BY <1>1, <2>1, <2>2 DEF PointerInv, Patient, Moved, LockToDelete
  <2>6. Tidy'
    BY <2>1, <2>2, ZenonT(30) DEF PointerInv, Tidy, Moved, Deleting, LockToDelete
  <2>7. QED
    BY <2>3, <2>4, <2>5, <2>6 DEF PointerInv
<1>3. CASE /\ back[arg[t]] # None
           /\ block' = [block EXCEPT ![arg[t]] = t]
           /\ Goto(t, "clear", arg[t]) /\ UNCHANGED <<dead, shown, storage>>
  <2>1. Moved(t, "clear", arg[t])
    BY <1>1, <1>3, GotoMoves
  <2>2. /\ pc'[Dispatch] = pc[Dispatch] /\ arg'[Dispatch] = arg[Dispatch]
        /\ \A u \in Threads : u # t => pc'[u] = pc[u] /\ arg'[u] = arg[u]
    BY <1>1, <2>1 DEF Moved, Procs
  <2>3. \A b \in Buffers : block'[b] = IF b = arg[t] THEN t ELSE block[b]
    BY <1>1, <1>3 DEF TypeOK
  <2>4. \A u \in Threads : pc[u] = "clear" => arg[u] \in Buffers /\ arg[u] # arg[t]
    BY <1>1 DEF LockInv, References, Deleting, PointerInv, Clearing
  <2>5. Back'
    BY <1>3, <2>2 DEF PointerInv, Back, LockToDelete
  <2>6. Clearing'
    BY <1>1, <1>3, <2>1, <2>2, <2>3, <2>4 DEF PointerInv, Clearing, Moved, LockToDelete
  <2>7. frontend # "patient"
    BY <1>1, <1>3 DEF PointerInv, Patient
  <2>8. Tidy'
    <3>1. arg'[t] = arg[t] /\ pc[t] \in Deleting
      BY <1>1, <2>1 DEF Moved, Deleting
    <3>2. \A u \in Threads : pc'[u] \in Deleting => pc[u] \in Deleting /\ arg'[u] = arg[u]
      BY <2>2, <3>1
    <3>3. QED
      BY <3>2 DEF PointerInv, Tidy, LockToDelete
  <2>9. QED
    BY <2>5, <2>6, <2>7, <2>8 DEF PointerInv, Patient, LockToDelete
<1>4. QED
  BY <1>2, <1>3 DEF LockToDelete

LEMMA ClearSurfacePointers ==
  ASSUME LockInv, PointerInv, NEW t \in Threads, ClearSurface(t)
  PROVE  PointerInv'
<1>1. /\ TypeOK /\ arg[t] \in Buffers \ stored /\ t \in Procs /\ t # Dispatch /\ Dispatch \in Procs
      /\ pc[t] = "clear" /\ Destroyed(t, arg[t])
  BY DEF LockInv, References, Deleting, Procs, Dispatch, ClearSurface
<1>2. Moved(t, "idle", None)
  BY <1>1, DestroyedFacts
<1>3. /\ pc'[Dispatch] = pc[Dispatch] /\ arg'[Dispatch] = arg[Dispatch]
      /\ \A u \in Threads : u # t => pc'[u] = pc[u] /\ arg'[u] = arg[u]
      /\ dead' = dead \cup {arg[t]} /\ shown' = shown \ {arg[t]}
  BY <1>1, <1>2 DEF Moved, Procs, Destroyed
<1>4. \A b \in Buffers : block'[b] = IF b = arg[t] THEN None ELSE block[b]
  BY <1>1 DEF TypeOK, ClearSurface
<1>5. \A u \in Threads \ {t} : pc[u] = "clear" => arg[u] \in Buffers /\ arg[u] # arg[t]
  BY <1>1 DEF LockInv, References, Deleting, PointerInv, Clearing
<1>6. Back'
  BY <1>1, <1>3 DEF PointerInv, Back, ClearSurface
<1>7. Clearing'
  <2>1. NoneStarts
    BY <1>2, <1>3 DEF NoneStarts, Moved, Deleting, LockInv, References
  <2>2. \A u \in Threads : pc'[u] = "clear" => u # t /\ pc[u] = "clear"
    BY <1>2, <1>3 DEF Moved
  <2>3. \A u \in Threads : pc'[u] = "clear" => block'[arg[u]] = block[arg[u]]
    BY <1>4, <1>5, <2>2
  <2>4. QED
    BY <2>1, <2>3, ClearingKept DEF PointerInv, ClearSurface
<1>8. frontend # "patient"
  BY <1>1 DEF PointerInv, Patient
<1>9. Tidy'
  <2> SUFFICES ASSUME frontend = "tidy"
               PROVE  Tidy'
    BY DEF Tidy, ClearSurface
  <2>1. back[arg[t]] = <<t, made[t]>> /\ live[t]
    BY <1>1 DEF PointerInv, Clearing, Tidy, Deleting
  <2>2. back[arg[t]][1] = t /\ back[arg[t]][2] = made[t]
    BY <2>1
  <2>3. UNCHANGED misuse
    BY <2>1, <2>2 DEF ClearSurface
  <2>4. QED
    BY <1>2, <1>3, <2>3 DEF PointerInv, Tidy, Moved, Deleting, ClearSurface
<1>10. QED
  BY <1>6, <1>7, <1>8, <1>9 DEF PointerInv, Patient, ClearSurface

LEMMA ClosePointers ==
  ASSUME LockInv, PointerInv, NEW t \in Threads, Close(t)
  PROVE  PointerInv'
<1>1. /\ TypeOK /\ t \in Procs /\ {"close", "unlink"} \subseteq Labels /\ pc[t] = "idle"
      /\ cur[t] \in Buffers \cup {None}
  BY DEF LockInv, TypeOK, Procs, Labels, Close
<1>2. PICK label \in {"close", "unlink"}, b \in {cur[t], None} : Goto(t, label, b)
  BY DEF Close
<1>3. Moved(t, label, b)
  BY <1>1, <1>2, GotoMoves
<1>4. b \notin Buffers \ stored \/ frontend # "patient"
  BY <1>1, <1>2 DEF PointerInv, Patient
<1>5. QED
  BY <1>1, <1>3, <1>4, PointersKept DEF Close, Deleting

LEMMA UnlinkPointers ==
  ASSUME LockInv, PointerInv, NEW t \in Threads, Unlink(t)
  PROVE  PointerInv'
<1>1. /\ TypeOK /\ t \in Procs /\ t # Dispatch /\ Dispatch \in Procs
      /\ "close" \in Labels /\ pc[t] = "unlink"
  BY DEF LockInv, Procs, Dispatch, Labels, Unlink
<1>2. Moved(t, "close", None)
  BY <1>1, GotoMoves DEF Unlink
<1>3. /\ pc'[Dispatch] = pc[Dispatch] /\ arg'[Dispatch] = arg[Dispatch]
      /\ \A u \in Threads : u # t => pc'[u] = pc[u] /\ arg'[u] = arg[u]
  BY <1>1, <1>2 DEF Moved, Procs
<1>4. CASE arg[t] \in dead
  <2>1. frontend # "patient"
    BY <1>1, <1>4, ZenonT(30) DEF TypeOK, PointerInv, Back, Patient
  <2>2. misuse' = misuse \cup {"buffer in release()"} /\ UNCHANGED back
    BY <1>4 DEF Unlink
  <2>3. Back' /\ Clearing'
    BY <1>2, <1>3, <2>2 DEF PointerInv, Back, Clearing, Moved, Unlink
  <2>4. Tidy'
    BY <1>2, <1>3, <2>2, ZenonT(30) DEF PointerInv, Tidy, Moved, Deleting, Unlink
  <2>5. QED
    BY <2>1, <2>3, <2>4 DEF PointerInv, Patient, Unlink
<1>5. CASE arg[t] \notin dead
  <2>1. block[arg[t]] = None /\ UNCHANGED misuse
    BY <1>5 DEF Unlink
  <2>2. \A b \in Buffers : back'[b] = IF b = arg[t] THEN None ELSE back[b]
    BY <1>1, <1>5 DEF TypeOK, Unlink
  <2>3. \A u \in Threads : pc[u] = "clear" => arg[u] \in Buffers /\ arg[u] # arg[t]
    BY <2>1 DEF LockInv, References, Deleting, PointerInv, Clearing
  <2>4. NoneStarts
    BY <1>2, <1>3 DEF NoneStarts, Moved, Deleting, LockInv, References
  <2>5. Back'
    BY <1>3, <2>2 DEF PointerInv, Back, Unlink
  <2>6. Clearing'
    <3>1. \A u \in Threads : pc'[u] = "clear" => back'[arg[u]] = back[arg[u]]
      BY <2>2, <2>3, <2>4 DEF NoneStarts, Deleting
    <3>2. QED
      BY <2>4, <3>1, ClearingKept DEF PointerInv, Unlink
  <2>7. Patient'
    <3>1. \A u \in Threads : arg'[u] = None \/ (pc'[u] = pc[u] /\ arg'[u] = arg[u])
      BY <1>2, <1>3 DEF Moved
    <3>2. QED
      BY <1>3, <2>1, <2>2, <3>1, PatientKept DEF PointerInv, Unlink
  <2>8. Tidy'
    <3>1. \A u \in Threads : pc'[u] \in Deleting => back'[arg[u]] \in {back[arg[u]], None}
      BY <2>2, <2>4 DEF NoneStarts
    <3>2. QED
      BY <2>1, <2>4, <3>1, TidyKept DEF PointerInv, Unlink
  <2>9. QED
    BY <2>5, <2>6, <2>7, <2>8 DEF PointerInv
<1>6. QED
  BY <1>4, <1>5

LEMMA ClosedPointers ==
  ASSUME LockInv, PointerInv, NEW t \in Threads, Closed(t)
  PROVE  PointerInv'
<1>1. TypeOK /\ t \in Procs /\ "idle" \in Labels /\ pc[t] = "close"
  BY DEF LockInv, Procs, Labels, Closed
<1>2. Moved(t, "idle", None)
  BY <1>1, GotoMoves DEF Closed
<1>3. /\ \A u \in Threads : u # t => live'[u] = live[u]
      /\ \A u \in Threads : cur'[u] = IF u = t THEN None ELSE cur[u]
  BY <1>1 DEF TypeOK, Closed
<1>4. /\ \A u \in Threads : cur'[u] \in Buffers \ stored => cur'[u] = cur[u]
      /\ pc[t] \notin Deleting /\ "idle" \notin Deleting /\ None \notin Buffers \ stored
  BY <1>1, <1>3 DEF Deleting
<1>5. /\ UNCHANGED <<frontend, stored, dead, shown, back, block, misuse, made, ref>>
  BY DEF Closed
<1>6. QED
  BY <1>2, <1>3, <1>4, <1>5, PointersKept

LEMMA DeliverPointers ==
  ASSUME LockInv, PointerInv, Deliver
  PROVE  PointerInv'
<1>1. TypeOK /\ Dispatch \in Procs /\ "released" \in Labels /\ pc[Dispatch] = "idle"
  BY DEF LockInv, Procs, Labels, Deliver
<1>2. PICK b \in shown : shown' = shown \ {b} /\ Goto(Dispatch, "released", b)
  BY DEF Deliver
<1>3. Moved(Dispatch, "released", b)
  BY <1>1, <1>2, GotoMoves DEF TypeOK
<1>4. \A u \in Threads : pc'[u] = pc[u] /\ arg'[u] = arg[u]
  BY <1>3 DEF Moved, Procs, Dispatch
<1>5. Back'
  BY <1>1, <1>2, <1>3 DEF PointerInv, Back, Moved, Deliver
<1>6. Clearing' /\ Tidy'
  BY <1>4, ZenonT(30) DEF PointerInv, Clearing, Tidy, Deliver
<1>7. Patient'
  BY <1>2, <1>3, <1>4 DEF PointerInv, Patient, Moved, Deliver
<1>8. QED
  BY <1>5, <1>6, <1>7 DEF PointerInv

LEMMA OnReleasePointers ==
  ASSUME LockInv, PointerInv, OnRelease
  PROVE  PointerInv'
<1>1. TypeOK /\ Dispatch \in Procs /\ "idle" \in Labels /\ pc[Dispatch] = "released"
  BY DEF LockInv, Procs, Labels, OnRelease
<1>2. Moved(Dispatch, "idle", None)
  BY <1>1, GotoMoves DEF OnRelease
<1>3. \A u \in Threads : pc'[u] = pc[u] /\ arg'[u] = arg[u]
  BY <1>2 DEF Moved, Procs, Dispatch
<1>4. CASE arg[Dispatch] \in dead
  <2>1. frontend # "patient"
    BY <1>1, <1>4 DEF TypeOK, PointerInv, Back, Patient
  <2>2. misuse' = misuse \cup {"buffer in onRelease()"} /\ UNCHANGED back
    BY <1>4 DEF OnRelease
  <2>3. Back'
    BY <1>2, <1>4, <2>2 DEF PointerInv, Back, Moved, OnRelease
  <2>4. Clearing' /\ Tidy'
    BY <1>3, <2>2 DEF PointerInv, Clearing, Tidy, OnRelease
  <2>5. QED
    BY <2>1, <2>3, <2>4 DEF PointerInv, Patient, OnRelease
<1>5. CASE arg[Dispatch] \notin dead
  <2>1. block[arg[Dispatch]] = None /\ UNCHANGED misuse
    BY <1>5 DEF OnRelease
  <2>2. \A b \in Buffers : back'[b] = IF b = arg[Dispatch] THEN None ELSE back[b]
    BY <1>1, <1>5 DEF TypeOK, OnRelease
  <2>3. \A u \in Threads : pc[u] = "clear" => arg[u] \in Buffers /\ arg[u] # arg[Dispatch]
    BY <2>1 DEF LockInv, References, Deleting, PointerInv, Clearing
  <2>4. NoneStarts
    BY <1>3 DEF NoneStarts, LockInv, References
  <2>5. Back'
    BY <1>2, <2>2 DEF PointerInv, Back, Moved, OnRelease
  <2>6. Clearing'
    <3>1. \A u \in Threads : pc'[u] = "clear" => back'[arg[u]] = back[arg[u]]
      BY <2>2, <2>3, <2>4 DEF NoneStarts, Deleting
    <3>2. QED
      BY <2>4, <3>1, ClearingKept DEF PointerInv, OnRelease
  <2>7. Patient'
    BY <1>2, <1>3, <2>1, <2>2, PatientKept DEF PointerInv, Moved, OnRelease
  <2>8. Tidy'
    <3>1. \A u \in Threads : pc'[u] \in Deleting => back'[arg[u]] \in {back[arg[u]], None}
      BY <2>2, <2>4 DEF NoneStarts
    <3>2. QED
      BY <2>1, <2>4, <3>1, TidyKept DEF PointerInv, OnRelease
  <2>9. QED
    BY <2>5, <2>6, <2>7, <2>8 DEF PointerInv
<1>6. QED
  BY <1>4, <1>5

\* draw(), ~WlBuffer(), release() and onRelease() follow no pointer to an object
\* that is gone, if the frontend detaches only buffers that nothing shows; if it
\* also detaches the one its own surface shows, ~WlBuffer() still does not.
THEOREM NoDeadPointer == Spec => []NothingDeadUsed
<1>1. LockInv /\ PointerInv /\ [Next]_vars => PointerInv'
  <2> SUFFICES ASSUME LockInv, PointerInv, [Next]_vars
               PROVE  PointerInv'
    OBVIOUS
  <2>1. CASE UNCHANGED vars
    BY <2>1 DEF vars, PointerInv, Back, Clearing, Patient, Tidy
  <2>2. QED
    BY <2>1, OpenPointers, FetchPointers, LockToDrawPointers, LinkPointers,
       DropReferencePointers, DetachPointers, LockToDeletePointers,
       ClearSurfacePointers, ClosePointers, UnlinkPointers, ClosedPointers,
       DeliverPointers, OnReleasePointers DEF Next
<1>2. PointerInv => NothingDeadUsed
  BY DEF PointerInv, Patient, Tidy, NothingDeadUsed
<1>3. QED
  BY PointerInit, <1>1, <1>2, LockInductive, PTL DEF Spec

=============================================================================
