------------------------- MODULE BuffersStorageProofs -------------------------
(***************************************************************************)
(* Theorems about BuffersStorage for any cookies and any number of         *)
(* requests.                                                               *)
(*                                                                         *)
(* What the storage guarantees against any frontend is that a pending      *)
(* buffer is created once and that no buffer is replaced under its cookie. *)
(* That it agrees with what the frontend was told, and that no pages are   *)
(* in two buffers, needs a careful frontend, and directory writes that did *)
(* not fail after the buffer was stored.  The argument is Exact: of the    *)
(* two maps, one holds what the frontend knows and the other nothing.      *)
(*                                                                         *)
(* Behind them the theorems about EdidRequest: the directories the pages   *)
(* of a buffer are in, and the EDID made up in one.                        *)
(***************************************************************************)
EXTENDS BuffersStorage, EdidRequest, FiniteSetTheorems, SequenceTheorems, WellFoundedInduction, TLAPS

USE StorageAssumption

\* emplace() and erase() keep the type of a map.
LEMMA EmplaceType ==
  ASSUME NEW Cookies, NEW n \in Nat, NEW m \in [Cookies -> 0 .. n],
         NEW k \in Cookies, NEW v \in 0 .. n
  PROVE  Emplace(m, k, v) \in [Cookies -> 0 .. n]
BY DEF Emplace

\* Every variable keeps its type: a map never holds a buffer that was not
\* requested.
THEOREM TypeCorrect == Spec => []TypeOK
<1>1. Init => TypeOK
  <2> SUFFICES ASSUME Init
               PROVE  TypeOK
    OBVIOUS
  <2>1. careful \in BOOLEAN /\ apart \in BOOLEAN /\ dirFailed \in BOOLEAN
        /\ directory \in [1 .. MaxRequests -> Directories \cup {NoDir}]
    BY DEF Init, NoDirectories, NoDir
  <2>2. /\ NoDb \in [DbCookies -> 0 .. requests]
        /\ NoFb \in [FbCookies -> 0 .. requests]
    BY DEF Init, NoDb, NoFb, Nothing
  <2>3. QED
    BY <2>1, <2>2 DEF Init, TypeOK, history
<1>2. TypeOK /\ [Next]_vars => TypeOK'
  <2> SUFFICES ASSUME TypeOK, [Next]_vars
               PROVE  TypeOK'
    OBVIOUS
  <2> USE DEF TypeOK, Nothing, NoDir
  <2>1. ASSUME NEW c \in DbCookies, CreateDisplayBuffer(c)
        PROVE  TypeOK'
    <3>1. requests' = requests + 1 /\ requests' \in 0 .. MaxRequests
      BY <2>1 DEF CreateDisplayBuffer, CreateRefused, CreatePending,
                  CreateFromRefs, CreateAllocated, CreateAllocatedFails, Requested
    <3>2. /\ UNCHANGED <<frameBuffers, attached>>
          /\ careful' \in BOOLEAN /\ apart' \in BOOLEAN /\ dirFailed' \in BOOLEAN
          /\ directory' \in [1 .. MaxRequests -> Directories \cup {NoDir}]
      BY <2>1 DEF CreateDisplayBuffer, CreateRefused, CreatePending,
                  CreateFromRefs, CreateAllocated, CreateAllocatedFails, Requested,
                  PagesFrom, OwnPages
    <3>3. requests' \in Nat /\ requests' \in 0 .. requests' /\ requests' \in 1 .. requests'
      BY <3>1
    <3>4. /\ displayBuffers \in [DbCookies -> 0 .. requests']
          /\ pending \in [DbCookies -> 0 .. requests']
          /\ known \in [DbCookies -> 0 .. requests']
          /\ frameBuffers' \in [FbCookies -> 0 .. requests']
          /\ attached' \in [FbCookies -> 0 .. requests']
          /\ exported \subseteq 1 .. requests'
      BY <3>1, <3>2
    <3>5. /\ Emplace(displayBuffers, c, requests') \in [DbCookies -> 0 .. requests']
          /\ Emplace(pending, c, requests') \in [DbCookies -> 0 .. requests']
      BY <3>3, <3>4, EmplaceType
    <3>6. CASE CreateRefused(c)
      BY <3>1, <3>2, <3>4, <3>6 DEF CreateRefused
    <3>7. CASE \E d \in Directories : CreatePending(c, d)
      BY <3>1, <3>2, <3>3, <3>4, <3>5, <3>7 DEF CreatePending, Granted
    <3>8. CASE \E d \in Directories : CreateFromRefs(c, d)
      BY <3>1, <3>2, <3>3, <3>4, <3>5, <3>8 DEF CreateFromRefs, Granted
    <3>9. CASE CreateAllocated(c)
      BY <3>1, <3>2, <3>3, <3>4, <3>5, <3>9 DEF CreateAllocated, Granted
    <3>10. CASE CreateAllocatedFails(c)
      BY <3>1, <3>2, <3>4, <3>5, <3>10 DEF CreateAllocatedFails
    <3>11. QED
      BY <2>1, <3>6, <3>7, <3>8, <3>9, <3>10 DEF CreateDisplayBuffer
  <2>2. ASSUME NEW c \in DbCookies, DestroyDisplayBuffer(c)
        PROVE  TypeOK'
    BY <2>2 DEF DestroyDisplayBuffer
  <2>3. ASSUME NEW c \in DbCookies
        PROVE  /\ Created(c) \in [DbCookies -> 0 .. requests]
               /\ StillPending(c) \in [DbCookies -> 0 .. requests]
    <3>1. requests \in Nat /\ pending[c] \in 0 .. requests
      OBVIOUS
    <3>2. Emplace(displayBuffers, c, pending[c]) \in [DbCookies -> 0 .. requests]
      BY <3>1, EmplaceType
    <3>3. QED
      BY <3>1, <3>2 DEF Created, StillPending
  <2>4. ASSUME NEW f \in FbCookies, NEW c \in DbCookies, AttachFrameBuffer(f, c)
        PROVE  TypeOK'
    <3>1. requests \in Nat /\ Created(c)[c] \in 0 .. requests
      BY <2>3
    <3>2. Emplace(frameBuffers, f, Created(c)[c]) \in [FbCookies -> 0 .. requests]
      BY <3>1, EmplaceType
    <3>3. known[c] \in 0 .. requests
      OBVIOUS
    <3>4. QED
      BY <2>3, <2>4, <3>2, <3>3 DEF AttachFrameBuffer, AttachRequested
  <2>5. ASSUME NEW f \in FbCookies, NEW c \in DbCookies, AttachFails(f, c)
        PROVE  TypeOK'
    BY <2>3, <2>5 DEF AttachFails, AttachRequested
  <2>6. ASSUME NEW f \in FbCookies, DetachFrameBuffer(f)
        PROVE  TypeOK'
    BY <2>6 DEF DetachFrameBuffer
  <2>7. CASE Rebind
    <3>1. careful' \in BOOLEAN /\ apart' \in BOOLEAN /\ dirFailed' \in BOOLEAN
          /\ directory' \in [1 .. MaxRequests -> Directories \cup {NoDir}]
      BY <2>7 DEF Rebind, NoDirectories
    <3>2. /\ NoDb \in [DbCookies -> 0 .. requests]
          /\ NoFb \in [FbCookies -> 0 .. requests]
      BY DEF NoDb, NoFb
    <3>3. QED
      BY <2>7, <3>1, <3>2 DEF Rebind
  <2>8. CASE UNCHANGED vars
    BY <2>8 DEF vars, maps, history
  <2>9. QED
    BY <2>1, <2>2, <2>4, <2>5, <2>6, <2>7, <2>8 DEF Next
<1>3. QED
  BY <1>1, <1>2, PTL DEF Spec

-----------------------------------------------------------------------------
\* A pending buffer is not created, and no cookie stands for two.
CreatedOnce ==
  \A c, d \in DbCookies : pending[c] # Nothing => pending[c] # displayBuffers[d]

\* A pending buffer is in one place only.
OnePlace ==
  /\ CreatedOnce
  /\ \A c, d \in DbCookies :
        c # d /\ pending[c] # Nothing => pending[c] # pending[d]

\* The buffer of a new request is in none of the maps yet.
LEMMA NewIsUnused ==
  ASSUME TypeOK, NEW c \in DbCookies
  PROVE  displayBuffers[c] # requests + 1 /\ pending[c] # requests + 1
BY DEF TypeOK

\* Making a pending buffer a display buffer moves it.
LEMMA MoveKeepsOnePlace ==
  ASSUME TypeOK, OnePlace, NEW c \in DbCookies,
         displayBuffers' = Created(c), pending' = StillPending(c)
  PROVE  OnePlace'
<1> USE DEF TypeOK, OnePlace, CreatedOnce, Nothing
<1>1. CASE pending[c] = Nothing
  BY <1>1 DEF Created, StillPending
<1>2. CASE pending[c] # Nothing
  <2>1. \A d \in DbCookies : displayBuffers'[d] \in {displayBuffers[d], pending[c]}
    BY DEF Created, Emplace
  <2>2. \A d \in DbCookies : d # c => displayBuffers'[d] = displayBuffers[d]
    BY DEF Created, Emplace
  <2>3. \A d \in DbCookies : pending'[d] = IF d = c THEN Nothing ELSE pending[d]
    BY DEF StillPending
  <2>4. QED
    <3>1. ASSUME NEW x \in DbCookies, pending'[x] # Nothing
          PROVE  x # c /\ pending'[x] = pending[x]
      BY <2>3, <3>1
    <3>2. \A x, d \in DbCookies : pending'[x] # Nothing => pending'[x] # displayBuffers'[d]
      BY <1>2, <2>1, <2>2, <3>1
    <3>3. \A x, d \in DbCookies :
             x # d /\ pending'[x] # Nothing => pending'[x] # pending'[d]
      BY <2>3, <3>1
    <3>4. QED
      BY <3>2, <3>3
<1>3. QED
  BY <1>1, <1>2

\* Whatever the frontend sends, and whatever fails, a pending buffer is created
\* once.
LEMMA OnePlaceInductive == Spec => []OnePlace
<1>1. Init => OnePlace
  BY DEF Init, OnePlace, CreatedOnce, NoDb, Nothing
<1>2. TypeOK /\ OnePlace /\ [Next]_vars => OnePlace'
  <2> SUFFICES ASSUME TypeOK, OnePlace, [Next]_vars
               PROVE  OnePlace'
    OBVIOUS
  <2> USE DEF TypeOK, OnePlace, CreatedOnce, Nothing
  <2>1. ASSUME NEW c \in DbCookies,
               requests' = requests + 1,
               \/ UNCHANGED displayBuffers
               \/ displayBuffers' = Emplace(displayBuffers, c, requests'),
               UNCHANGED pending
        PROVE  OnePlace'
    BY <2>1, NewIsUnused DEF Emplace
  <2>2. ASSUME NEW c \in DbCookies, NEW p \in Directories, CreatePending(c, p)
        PROVE  OnePlace'
    BY <2>2, NewIsUnused DEF CreatePending, Requested, Emplace
  <2>3. ASSUME NEW c \in DbCookies, CreateDisplayBuffer(c)
        PROVE  OnePlace'
    BY <2>1, <2>2, <2>3 DEF CreateDisplayBuffer, CreateRefused, CreateFromRefs,
                            CreateAllocated, CreateAllocatedFails, Requested
  <2>4. ASSUME NEW c \in DbCookies, DestroyDisplayBuffer(c)
        PROVE  OnePlace'
    BY <2>4 DEF DestroyDisplayBuffer
  <2>5. ASSUME NEW f \in FbCookies, NEW c \in DbCookies,
               AttachFrameBuffer(f, c) \/ AttachFails(f, c)
        PROVE  OnePlace'
    BY <2>5, MoveKeepsOnePlace DEF AttachFrameBuffer, AttachFails
  <2>6. ASSUME NEW f \in FbCookies, DetachFrameBuffer(f)
        PROVE  OnePlace'
    BY <2>6 DEF DetachFrameBuffer
  <2>7. CASE Rebind
    BY <2>7 DEF Rebind, NoDb
  <2>8. CASE UNCHANGED vars
    BY <2>8 DEF vars, maps, history
  <2>9. QED
    BY <2>3, <2>4, <2>5, <2>6, <2>7, <2>8 DEF Next
<1>3. QED
  BY <1>1, <1>2, TypeCorrect, PTL DEF Spec

\* What a cookie stands for may do in a step, as BuffersStable says.
FrameBufferStays(f) ==
  frameBuffers'[f] \in {Nothing, frameBuffers[f]} \/ frameBuffers[f] = Nothing

DisplayBufferStays(c) ==
  /\ displayBuffers'[c] \in {Nothing, displayBuffers[c]} \/ displayBuffers[c] = Nothing
  /\ pending'[c] \in {Nothing, pending[c]} \/ pending[c] = Nothing
  /\ pending[c] # Nothing /\ pending'[c] = Nothing
     => displayBuffers'[c] = Nothing
          \/ displayBuffers[c] # Nothing
          \/ displayBuffers'[c] = pending[c]

Stay(f, c) == /\ f \in FbCookies => FrameBufferStays(f)
              /\ c \in DbCookies => DisplayBufferStays(c)

\* A cookie stands for one buffer until it is destroyed or detached, whatever
\* the frontend sends.
THEOREM StableBuffers == Spec => BuffersStable
<1>1. ASSUME TypeOK, Next, NEW g, NEW b
      PROVE  Stay(g, b)
  <2> USE DEF Stay, FrameBufferStays, DisplayBufferStays
  <2>1. ASSUME NEW f \in FbCookies, NEW c \in DbCookies, AttachFrameBuffer(f, c)
        PROVE  Stay(g, b)
    BY <1>1, <2>1 DEF AttachFrameBuffer, Created, StillPending, Emplace, TypeOK
  <2>2. ASSUME NEW f \in FbCookies, NEW c \in DbCookies, AttachFails(f, c)
        PROVE  Stay(g, b)
    BY <1>1, <2>2 DEF AttachFails, Created, StillPending, Emplace, TypeOK
  <2>3. ASSUME NEW f \in FbCookies, DetachFrameBuffer(f)
        PROVE  Stay(g, b)
    BY <1>1, <2>3 DEF DetachFrameBuffer, TypeOK
  <2>4. CASE Rebind
    BY <1>1, <2>4 DEF Rebind, NoFb, NoDb
  <2>5. ASSUME NEW c \in DbCookies, CreateDisplayBuffer(c)
        PROVE  Stay(g, b)
    BY <1>1, <2>5 DEF CreateDisplayBuffer, CreateRefused, CreatePending, CreateFromRefs,
                CreateAllocated, CreateAllocatedFails, Requested, Emplace, TypeOK
  <2>6. ASSUME NEW c \in DbCookies, DestroyDisplayBuffer(c)
        PROVE  Stay(g, b)
    BY <1>1, <2>6 DEF DestroyDisplayBuffer, TypeOK
  <2>7. QED
    BY <1>1, <2>1, <2>2, <2>3, <2>4, <2>5, <2>6 DEF Next
<1>2. ASSUME TypeOK, [Next]_vars
      PROVE  [/\ \A f \in FbCookies : FrameBufferStays(f)
              /\ \A c \in DbCookies : DisplayBufferStays(c)]_vars
  <2>1. CASE Next
    BY <1>1, <1>2, <2>1 DEF Stay
  <2>2. CASE UNCHANGED vars
    BY <2>2
  <2>3. QED
    BY <1>2, <2>1, <2>2
<1>3. QED
  BY <1>2, TypeCorrect, PTL DEF Spec, BuffersStable, FrameBufferStays, DisplayBufferStays

-----------------------------------------------------------------------------
\* With a careful frontend and directories that could be filled, one of the two
\* maps holds what the frontend knows by a cookie and the other nothing, and
\* the frame buffers are the ones it attached.
Exact ==
  careful /\ ~dirFailed =>
    /\ \A c \in DbCookies : {displayBuffers[c], pending[c]} = {known[c], Nothing}
    /\ frameBuffers = attached

LEMMA ExactInductive == Spec => []Exact
<1>1. Init => Exact
  BY DEF Init, Exact, NoDb, NoFb, Nothing
<1>2. TypeOK /\ Exact /\ [Next]_vars => Exact'
  <2> SUFFICES ASSUME TypeOK, Exact, [Next]_vars, careful', ~dirFailed'
               PROVE  Exact'
    BY DEF Exact
  <2> USE DEF TypeOK, Nothing
  <2>1. CASE Rebind
    BY <2>1 DEF Rebind, Exact, NoDb, NoFb
  <2>2. CASE UNCHANGED vars
    BY <2>2 DEF vars, maps, history, Exact
  <2>3. ASSUME NEW c \in DbCookies, CreateDisplayBuffer(c)
        PROVE  Exact'
    <3>1. known[c] = Nothing /\ careful /\ ~dirFailed
      BY <2>3 DEF CreateDisplayBuffer, CreateRefused, CreatePending,
                  CreateFromRefs, CreateAllocated, CreateAllocatedFails, Requested
    <3>2. displayBuffers[c] = Nothing /\ pending[c] = Nothing
      BY <3>1 DEF Exact
    <3>3. CASE CreateRefused(c)
      BY <3>1, <3>3 DEF CreateRefused, Requested, Exact
    <3>4. CASE \E d \in Directories : CreatePending(c, d)
      BY <3>1, <3>2, <3>4 DEF CreatePending, Requested, Granted, Emplace, Exact
    <3>5. CASE \E d \in Directories : CreateFromRefs(c, d)
      BY <3>1, <3>2, <3>5 DEF CreateFromRefs, Requested, Granted, Emplace, Exact
    <3>6. CASE CreateAllocated(c)
      BY <3>1, <3>2, <3>6 DEF CreateAllocated, Requested, Granted, Emplace, Exact
    <3>7. ~CreateAllocatedFails(c)
      BY DEF CreateAllocatedFails
    <3>8. QED
      BY <2>3, <3>3, <3>4, <3>5, <3>6, <3>7 DEF CreateDisplayBuffer
  <2>4. ASSUME NEW c \in DbCookies, DestroyDisplayBuffer(c)
        PROVE  Exact'
    BY <2>4 DEF DestroyDisplayBuffer, Exact
  <2>5. ASSUME careful, ~dirFailed, NEW c \in DbCookies,
               displayBuffers' = Created(c), pending' = StillPending(c), UNCHANGED known
        PROVE  \A d \in DbCookies : {displayBuffers'[d], pending'[d]} = {known'[d], Nothing}
    <3>1. CASE pending[c] = Nothing
      BY <2>5, <3>1 DEF Created, StillPending, Exact
    <3>2. CASE pending[c] # Nothing
      <4>1. displayBuffers[c] = Nothing /\ known[c] = pending[c]
        BY <2>5, <3>2 DEF Exact
      <4>2. QED
        BY <2>5, <3>2, <4>1 DEF Created, StillPending, Emplace, Exact
    <3>3. QED
      BY <3>1, <3>2
  <2>6. ASSUME NEW f \in FbCookies, NEW c \in DbCookies, AttachFrameBuffer(f, c)
        PROVE  Exact'
    <3>1. careful /\ ~dirFailed /\ attached[f] = Nothing
      BY <2>6 DEF AttachFrameBuffer, AttachRequested
    <3>2. Created(c)[c] = known[c] /\ frameBuffers = attached
      <4>1. /\ {displayBuffers[c], pending[c]} = {known[c], Nothing}
            /\ frameBuffers = attached
        BY <3>1 DEF Exact
      <4>2. known[c] # Nothing /\ Created(c)[c] # Nothing
        BY <2>6 DEF AttachFrameBuffer, AttachRequested
      <4>3. CASE pending[c] = Nothing
        BY <4>1, <4>2, <4>3 DEF Created
      <4>4. CASE pending[c] # Nothing
        BY <4>1, <4>2, <4>4 DEF Created, Emplace
      <4>5. QED
        BY <4>1, <4>3, <4>4
    <3>3. frameBuffers' = attached'
      BY <2>6, <3>1, <3>2 DEF AttachFrameBuffer, Emplace
    <3>4. QED
      BY <2>5, <2>6, <3>1, <3>3 DEF AttachFrameBuffer, Exact
  <2>7. ASSUME NEW f \in FbCookies, NEW c \in DbCookies, AttachFails(f, c)
        PROVE  Exact'
    <3>1. careful /\ ~dirFailed
      BY <2>7 DEF AttachFails, AttachRequested
    <3>2. QED
      BY <2>5, <2>7, <3>1 DEF AttachFails, Exact
  <2>8. ASSUME NEW f \in FbCookies, DetachFrameBuffer(f)
        PROVE  Exact'
    BY <2>8 DEF DetachFrameBuffer, Exact
  <2>9. QED
    BY <2>1, <2>2, <2>3, <2>4, <2>6, <2>7, <2>8 DEF Next
<1>3. QED
  BY <1>1, <1>2, TypeCorrect, PTL DEF Spec

\* The pages of a pending buffer are the frontend's: none was allocated here.
PendingGiven == \A c \in DbCookies : pending[c] \notin exported

LEMMA PendingGivenInductive == Spec => []PendingGiven
<1>1. Init => PendingGiven
  BY DEF Init, PendingGiven
<1>2. TypeOK /\ PendingGiven /\ [Next]_vars => PendingGiven'
  <2> SUFFICES ASSUME TypeOK, PendingGiven, [Next]_vars
               PROVE  PendingGiven'
    OBVIOUS
  <2> USE DEF TypeOK, PendingGiven, Nothing
  <2>1. ASSUME NEW c \in DbCookies, NEW d \in Directories, CreatePending(c, d)
        PROVE  PendingGiven'
    BY <2>1 DEF CreatePending, Requested, Emplace
  <2>2. ASSUME NEW c \in DbCookies, CreateAllocated(c)
        PROVE  PendingGiven'
    BY <2>2, NewIsUnused DEF CreateAllocated, Requested
  <2>3. ASSUME NEW c \in DbCookies, CreateDisplayBuffer(c)
        PROVE  PendingGiven'
    BY <2>1, <2>2, <2>3 DEF CreateDisplayBuffer, CreateRefused, CreateFromRefs,
                            CreateAllocatedFails
  <2>4. ASSUME NEW c \in DbCookies, DestroyDisplayBuffer(c)
        PROVE  PendingGiven'
    BY <2>4 DEF DestroyDisplayBuffer
  <2>5. ASSUME NEW f \in FbCookies, NEW c \in DbCookies,
               AttachFrameBuffer(f, c) \/ AttachFails(f, c)
        PROVE  PendingGiven'
    BY <2>5 DEF AttachFrameBuffer, AttachFails, StillPending
  <2>6. ASSUME NEW f \in FbCookies, DetachFrameBuffer(f)
        PROVE  PendingGiven'
    BY <2>6 DEF DetachFrameBuffer
  <2>7. CASE Rebind
    BY <2>7 DEF Rebind
  <2>8. CASE UNCHANGED vars
    BY <2>8 DEF vars, maps
  <2>9. QED
    BY <2>3, <2>4, <2>5, <2>6, <2>7, <2>8 DEF Next
<1>3. QED
  BY <1>1, <1>2, TypeCorrect, PTL DEF Spec

\* A cookie stands for the buffer a careful frontend was told of, and a filled
\* directory for its pages.
THEOREM ViewsAgree == Spec => []ViewAgrees
<1>1. TypeOK /\ Exact /\ PendingGiven => ViewAgrees
  BY DEF TypeOK, Exact, PendingGiven, ViewAgrees, Nothing
<1>2. QED
  BY <1>1, TypeCorrect, ExactInductive, PendingGivenInductive, PTL

\* Nothing is kept that a careful frontend does not count on.
THEOREM NothingLeaked == Spec => []NoBufferLeaked
<1>1. Exact => NoBufferLeaked
  BY DEF Exact, NoBufferLeaked, Stored, CountedOn
<1>2. QED
  BY <1>1, ExactInductive, PTL

\* A buffer that was not requested yet has no directory.
Fresh == \A b \in 1 .. MaxRequests : requests < b => directory[b] = NoDir

LEMMA FreshInductive == Spec => []Fresh
<1>1. Init => Fresh
  BY DEF Init, Fresh, NoDirectories, NoDir
<1>2. TypeOK /\ Fresh /\ [Next]_vars => Fresh'
  <2> SUFFICES ASSUME TypeOK, Fresh, [Next]_vars
               PROVE  Fresh'
    OBVIOUS
  <2>1. ASSUME NEW c \in DbCookies, CreateDisplayBuffer(c)
        PROVE  Fresh'
    BY <2>1 DEF CreateDisplayBuffer, CreateRefused, CreatePending, CreateFromRefs,
                CreateAllocated, CreateAllocatedFails, Requested, PagesFrom,
                OwnPages, Fresh, TypeOK
  <2>2. CASE Rebind
    BY <2>2 DEF Rebind, Fresh, NoDirectories, NoDir
  <2>3. CASE UNCHANGED <<requests, directory>>
    BY <2>3 DEF Fresh
  <2>4. QED
    BY <2>1, <2>2, <2>3 DEF Next, DestroyDisplayBuffer, AttachFrameBuffer,
       AttachFails, AttachRequested, DetachFrameBuffer, vars
<1>3. QED
  BY <1>1, <1>2, TypeCorrect, PTL DEF Spec

\* No two buffers a frontend counts on have the pages of one directory, if it
\* named none that was in use.
DirectoriesApart ==
  careful /\ apart /\ ~dirFailed =>
    \A b, e \in CountedOn :
      b # e /\ directory[b] # NoDir => directory[b] # directory[e]

LEMMA DirectoriesApartInductive == Spec => []DirectoriesApart
<1>1. Init => DirectoriesApart
  BY DEF Init, DirectoriesApart, CountedOn, NoDb, NoFb
<1>2. TypeOK /\ Fresh /\ DirectoriesApart /\ [Next]_vars => DirectoriesApart'
  <2> SUFFICES ASSUME TypeOK, Fresh, DirectoriesApart, [Next]_vars
               PROVE  DirectoriesApart'
    OBVIOUS
  <2>1. ASSUME UNCHANGED <<directory, apart>>, careful' => careful,
               dirFailed' = dirFailed, CountedOn' \subseteq CountedOn
        PROVE  DirectoriesApart'
    BY <2>1 DEF DirectoriesApart
  <2>2. ASSUME NEW c \in DbCookies, CreateDisplayBuffer(c)
        PROVE  DirectoriesApart'
    <3> DEFINE n == requests + 1
    <3>1. n \in 1 .. MaxRequests /\ requests' = n
          /\ CountedOn \subseteq 1 .. requests /\ (careful' => careful)
      BY <2>2 DEF TypeOK, CreateDisplayBuffer, CreateRefused, CreatePending,
                  CreateFromRefs, CreateAllocated, CreateAllocatedFails,
                  Requested, CountedOn, Nothing
    <3>2. CountedOn' \subseteq CountedOn \cup {n}
      BY <2>2 DEF TypeOK, CreateDisplayBuffer, CreateRefused, CreatePending,
                  CreateFromRefs, CreateAllocated, CreateAllocatedFails,
                  Requested, Granted, CountedOn
    <3>3. n \notin CountedOn /\ \A b \in CountedOn : b \in 1 .. MaxRequests
      BY <3>1 DEF TypeOK
    <3>4. CASE \E d \in Directories : CreatePending(c, d) \/ CreateFromRefs(c, d)
      <4>1. PICK d \in Directories : CreatePending(c, d) \/ CreateFromRefs(c, d)
        BY <3>4
      <4>2. PagesFrom(d) /\ dirFailed' = dirFailed
        BY <4>1 DEF CreatePending, CreateFromRefs
      <4>3. /\ directory'[n] = d
            /\ \A b \in CountedOn : directory'[b] = directory[b]
        BY <3>1, <3>3, <4>2 DEF PagesFrom, TypeOK
      <4>4. /\ apart' => apart
            /\ apart' => \A b \in CountedOn : directory[b] # d
        BY <4>2 DEF PagesFrom
      <4>5. QED
        BY <3>1, <3>2, <4>2, <4>3, <4>4 DEF DirectoriesApart
    <3>5. CASE CreateRefused(c)
      <4>1. CountedOn' = CountedOn
        BY <3>5 DEF CreateRefused, Requested, CountedOn
      <4>2. QED
        BY <2>1, <3>1, <3>5, <4>1 DEF CreateRefused, OwnPages
    <3>6. CASE CreateAllocatedFails(c)
      BY <3>6 DEF CreateAllocatedFails, DirectoriesApart
    <3>7. CASE CreateAllocated(c)
      <4>1. UNCHANGED <<directory, apart, dirFailed>>
        BY <3>7 DEF CreateAllocated, OwnPages
      <4>2. QED
        BY <3>1, <3>2, <3>3, <4>1 DEF DirectoriesApart, Fresh, TypeOK
    <3>8. QED
      BY <2>2, <3>4, <3>5, <3>6, <3>7 DEF CreateDisplayBuffer
  <2>3. ASSUME NEW c \in DbCookies, DestroyDisplayBuffer(c)
        PROVE  DirectoriesApart'
    <3>1. CountedOn' \subseteq CountedOn
      BY <2>3 DEF DestroyDisplayBuffer, CountedOn, TypeOK
    <3>2. QED
      BY <2>1, <2>3, <3>1 DEF DestroyDisplayBuffer
  <2>4. ASSUME NEW f \in FbCookies, NEW c \in DbCookies,
               AttachFrameBuffer(f, c) \/ AttachFails(f, c)
        PROVE  DirectoriesApart'
    <3>1. CountedOn' \subseteq CountedOn
      BY <2>4 DEF AttachFrameBuffer, AttachFails, CountedOn, TypeOK
    <3>2. QED
      BY <2>1, <2>4, <3>1 DEF AttachFrameBuffer, AttachFails, AttachRequested
  <2>5. ASSUME NEW f \in FbCookies, DetachFrameBuffer(f)
        PROVE  DirectoriesApart'
    <3>1. CountedOn' \subseteq CountedOn
      BY <2>5 DEF DetachFrameBuffer, CountedOn, TypeOK
    <3>2. QED
      BY <2>1, <2>5, <3>1 DEF DetachFrameBuffer
  <2>6. CASE Rebind
    BY <2>6 DEF Rebind, DirectoriesApart, CountedOn, NoDb, NoFb
  <2>7. CASE UNCHANGED vars
    <3>1. CountedOn' = CountedOn
      BY <2>7 DEF vars, CountedOn
    <3>2. QED
      BY <2>1, <2>7, <3>1 DEF vars, history
  <2>8. QED
    BY <2>2, <2>3, <2>4, <2>5, <2>6, <2>7 DEF Next
<1>3. QED
  BY <1>1, <1>2, TypeCorrect, FreshInductive, PTL DEF Spec

\* Whatever the frontend sends, a pending buffer is created once; and no pages
\* of a careful frontend that keeps its directories apart are in two buffers,
\* through every failure, re-use of a cookie and re-use of a directory.
THEOREM MappedOnce == Spec => []PagesMappedOnce
<1>1. OnePlace /\ NoBufferLeaked /\ DirectoriesApart => PagesMappedOnce
  <2> SUFFICES ASSUME OnePlace, NoBufferLeaked, DirectoriesApart
               PROVE  PagesMappedOnce
    OBVIOUS
  <2>1. ASSUME careful, apart, ~dirFailed,
               NEW b \in Stored \ {Nothing}, NEW e \in Stored \ {Nothing},
               b # e, directory[b] # NoDir
        PROVE  directory[b] # directory[e]
    <3>1. b \in CountedOn /\ e \in CountedOn
      BY <2>1 DEF NoBufferLeaked
    <3>2. QED
      BY <2>1, <3>1 DEF DirectoriesApart
  <2>2. QED
    BY <2>1 DEF OnePlace, CreatedOnce, PagesMappedOnce
<1>2. QED
  BY <1>1, OnePlaceInductive, NothingLeaked, DirectoriesApartInductive, PTL

-----------------------------------------------------------------------------
(***************************************************************************)
(* Numbers. Induction over them is said of a set, from the well-founded     *)
(* order of the library.                                                    *)
(***************************************************************************)
HIDE StorageAssumption

\* A set that holds 0 and with each number the next holds all.
LEMMA SetInduction ==
  ASSUME NEW S, 0 \in S, \A n \in Nat : n \in S => n + 1 \in S
  PROVE  Nat \subseteq S
<1> DEFINE Less == OpToRel(<, Nat)
           T == Nat \ S
<1>1. IsWellFoundedOn(Less, Nat)
  BY NatLessThanWellFounded, Zenon
<1>2. \A x, y \in Nat : x < y => <<x, y>> \in Less
  BY DEF OpToRel
<1> HIDE DEF Less
<1>3. SUFFICES ASSUME T # {}
               PROVE  FALSE
  OBVIOUS
<1>4. PICK x \in T : \A y \in T : ~(<<y, x>> \in Less)
  <2>1. T \subseteq Nat
    OBVIOUS
  <2>2. QED
    BY <1>1, <1>3, <2>1, WFMin
<1>5. x \in Nat /\ x # 0 /\ x - 1 \in Nat /\ x - 1 < x
  OBVIOUS
<1>6. x - 1 \in S
  BY <1>2, <1>4, <1>5
<1>7. x - 1 + 1 = x
  BY <1>5
<1>8. QED
  BY <1>4, <1>5, <1>6, <1>7

\* Division leaves a remainder.
LEMMA Division ==
  ASSUME NEW a \in Nat, NEW d \in Nat \ {0}
  PROVE  a \div d \in Nat /\ a % d \in 0 .. d - 1 /\ a = d * (a \div d) + (a % d)
OBVIOUS

\* Multiples are apart.
LEMMA NextMultiple ==
  ASSUME NEW d \in Nat \ {0}, NEW a \in Nat, NEW b \in Nat, a < b
  PROVE  d * a + d <= d * b
<1>1. a + 1 <= b /\ d * (a + 1) = d * a + d
  OBVIOUS
<1>2. d * (a + 1) <= d * b
  BY <1>1
<1>3. QED
  BY <1>1, <1>2

\* A quotient and a remainder are those of one number only.
LEMMA Quotient ==
  ASSUME NEW d \in Nat \ {0}, NEW j \in Nat, NEW r \in 0 .. d - 1
  PROVE  (d * j + r) \div d = j /\ (d * j + r) % d = r
<1> DEFINE a == d * j + r
           q == a \div d
           m == a % d
<1>1. a \in Nat /\ d * j \in Nat
  OBVIOUS
<1> HIDE DEF a
<1>2. q \in Nat /\ m \in 0 .. d - 1 /\ a = d * q + m
  BY <1>1, Division
<1> HIDE DEF q, m
<1>3. d * q \in Nat /\ d * j \in Nat /\ d * q + m = d * j + r
  BY <1>1, <1>2 DEF a
<1>4. ~(q < j)
  <2>1. q < j => d * q + d <= d * j
    BY <1>2, NextMultiple
  <2>2. QED
    BY <1>2, <1>3, <2>1
<1>5. ~(j < q)
  <2>1. j < q => d * j + d <= d * q
    BY <1>2, NextMultiple
  <2>2. QED
    BY <1>2, <1>3, <2>1
<1>6. q = j
  BY <1>2, <1>4, <1>5
<1>7. m = r
  BY <1>3, <1>6, <1>2
<1>8. QED
  BY <1>6, <1>7 DEF q, m, a

\* Division keeps an order.
LEMMA QuotientGrows ==
  ASSUME NEW d \in Nat \ {0}, NEW a \in Nat, NEW b \in Nat, a <= b
  PROVE  a \div d <= b \div d
<1> DEFINE p == a \div d
           q == b \div d
<1>1. /\ p \in Nat /\ a % d \in 0 .. d - 1 /\ a = d * p + (a % d)
      /\ q \in Nat /\ b % d \in 0 .. d - 1 /\ b = d * q + (b % d)
  BY Division
<1> HIDE DEF p, q
<1>2. q < p => d * q + d <= d * p
  BY <1>1, NextMultiple
<1>3. d * p \in Nat /\ d * q \in Nat
  BY <1>1
<1>4. ~(q < p)
  BY <1>1, <1>2, <1>3
<1>5. QED
  BY <1>1, <1>4 DEF p, q


\* A chain of any length: the definition in Chain has a value.
IsChain(page, n, first, next) ==
  /\ page = [k \in 1 .. n |-> page[k]]
  /\ \A k \in 1 .. n :
       page[k] = IF k = 1 THEN first ELSE IF page[k - 1] = 0 THEN 0 ELSE next[page[k - 1]]

\* There is a chain of every length: the definition of ChainFrom has a value.
LEMMA ChainExists ==
  \A first, next : \A n \in Nat : \E page : IsChain(page, n, first, next)
<1> TAKE first, next
<1> DEFINE After(page, k) == IF page[k - 1] = 0 THEN 0 ELSE next[page[k - 1]]
           S == {n \in Nat : \E page : IsChain(page, n, first, next)}
<1>1. 0 \in S
  <2>1. IsChain([k \in 1 .. 0 |-> 0], 0, first, next)
    BY DEF IsChain
  <2>2. QED
    BY <2>1
<1>2. ASSUME NEW n \in Nat, n \in S
      PROVE  n + 1 \in S
  <2>1. PICK page : IsChain(page, n, first, next)
    BY <1>2
  <2> DEFINE last == IF n + 1 = 1 THEN first ELSE After(page, n + 1)
             longer == [k \in 1 .. n + 1 |-> IF k = n + 1 THEN last ELSE page[k]]
  <2>2. \A k \in 1 .. n : longer[k] = page[k] /\ k \in 1 .. n + 1 /\ k # n + 1
    OBVIOUS
  <2>3. longer[n + 1] = last
    OBVIOUS
  <2> HIDE DEF longer
  <2>4. \A k \in 1 .. n + 1 : k # 1 => After(longer, k) = After(page, k)
    <3>1. TAKE k \in 1 .. n + 1
    <3>2. k # 1 => k - 1 \in 1 .. n
      OBVIOUS
    <3>3. QED
      BY <2>2, <3>2
  <2>5. \A k \in 1 .. n : page[k] = IF k = 1 THEN first ELSE After(page, k)
    BY <2>1 DEF IsChain
  <2> HIDE DEF After
  <2>6. \A k \in 1 .. n + 1 : longer[k] = IF k = 1 THEN first ELSE After(longer, k)
    <3>1. TAKE k \in 1 .. n + 1
    <3>2. CASE k = n + 1
      BY <2>3, <2>4, <3>2
    <3>3. CASE k # n + 1
      <4>1. k \in 1 .. n
        BY <3>3
      <4>2. QED
        BY <2>2, <2>4, <2>5, <4>1
    <3>4. QED
      BY <3>2, <3>3
  <2>7. longer = [k \in 1 .. n + 1 |-> longer[k]]
    BY DEF longer
  <2>8. IsChain(longer, n + 1, first, next)
    BY <2>6, <2>7 DEF IsChain, After
  <2>9. QED
    BY <2>8
<1> HIDE DEF S
<1>3. Nat \subseteq S
  BY <1>1, <1>2, SetInduction
<1>4. QED
  BY <1>3 DEF S

\* Each page of a chain is the next of the one before it.
LEMMA ChainFromIs ==
  ASSUME NEW first, NEW next, NEW n \in Nat \ {0}
  PROVE  /\ ChainFrom(first, next, n)[1] = first
         /\ \A k \in 1 .. n - 1 :
              ChainFrom(first, next, n)[k + 1] =
                IF ChainFrom(first, next, n)[k] = 0 THEN 0 ELSE next[ChainFrom(first, next, n)[k]]
<1>1. PICK page : IsChain(page, n, first, next)
  BY ChainExists
<1> DEFINE Entries(f) ==
             [k \in 1 .. n |-> IF k = 1 THEN first
                              ELSE IF f[k - 1] = 0 THEN 0 ELSE next[f[k - 1]]]
           chain == ChainFrom(first, next, n)
<1>2. page = Entries(page)
  BY <1>1 DEF IsChain
<1>3. chain = CHOOSE f : f = Entries(f)
  BY DEF ChainFrom
<1> HIDE DEF chain
<1>4. chain = Entries(chain)
  BY <1>2, <1>3
<1>5. 1 \in 1 .. n
  OBVIOUS
<1>6. chain[1] = first
  BY <1>4, <1>5
<1>7. ASSUME NEW k \in 1 .. n - 1
      PROVE  chain[k + 1] = IF chain[k] = 0 THEN 0 ELSE next[chain[k]]
  <2>1. k + 1 \in 1 .. n /\ k + 1 # 1 /\ k + 1 - 1 = k
    OBVIOUS
  <2>2. QED
    BY <1>4, <2>1
<1>8. QED
  BY <1>6, <1>7 DEF chain

-----------------------------------------------------------------------------
(***************************************************************************)
(* The directory of a buffer, for any number and size of pages, any size of *)
(* buffer and any chain, those that end early or come back among them. The  *)
(* walk is at the page of the next reference (AtPage), and has read         *)
(* (ReadSoFar) or written (OwnSoFar) exactly what it has walked over, which *)
(* is apart on a chain that does not come back (SlotsApart).                *)
(***************************************************************************)

\* How many references have been walked over.
Done == NumGrefs(size) - left

Row(i) == (i - 1) \div PerPage
Column(i) == ((i - 1) % PerPage) + 1

\* The place of the i-th reference: its page, and where on the page.
SlotOf(i) == <<PageOf(i), Column(i)>>

Memory ==
  mem \in [Pages -> [next : Pages \cup {0}, gref : [1 .. PerPage -> Int]]]

\* The walk is at the page of the next reference.
AtPage ==
  /\ \A i \in 1 .. Done : PageOf(i) # 0
  /\ left > 0 => Done % PerPage = 0 /\ dir = PageOf(Done + 1)
  /\ pc \in {"walked", "answered"} => dir = 0 \/ left = 0

ReadSoFar == task # "set" => refs = [i \in 1 .. Done |-> Entry(i)]

\* What has been walked over is written, and nothing else.
OwnSoFar ==
  /\ \A i \in 1 .. Done : Entry(i) = refs[i]
  /\ \A p \in Pages, i \in 1 .. PerPage :
       (\A m \in 1 .. Done : SlotOf(m) # <<p, i>>) => mem[p].gref[i] = OnPage(p)[i]

WrittenSoFar ==
  task = "set" =>
    /\ pos = Done 
    /\ refs = Own(Len(refs)) /\ Len(refs) \in Nat
    /\ Len(refs) >= NumGrefs(size) /\ NoLoop => OwnSoFar

WalkInv == DTypeOK /\ Memory /\ AtPage /\ ReadSoFar /\ WrittenSoFar

Length == NumGrefs(size) + 1

\* The counts of a walk are numbers.
LEMMA Sized ==
  ASSUME PageDirectoryAssumption, DTypeOK
  PROVE  /\ NumGrefs(size) \in Nat /\ Length \in Nat \ {0} /\ Length - 1 = NumGrefs(size)
         /\ left \in Nat /\ Done \in 0 .. NumGrefs(size) /\ left = NumGrefs(size) - Done
<1>1. size \in Nat /\ PageSize \in Nat \ {0}
  BY DEF DTypeOK, PageDirectoryAssumption
<1>2. size + PageSize - 1 \in Nat
  BY <1>1
<1>3. NumGrefs(size) \in Nat
  BY <1>1, <1>2, Division DEF NumGrefs
<1>4. QED
  BY <1>3 DEF Length, Done, DTypeOK

\* The same of the chain of a directory, not beyond its Length.
LEMMA ChainIs ==
  ASSUME PageDirectoryAssumption, DTypeOK
  PROVE  /\ Chain[1] = start
         /\ \A k \in 1 .. Length - 1 :
              Chain[k + 1] = IF Chain[k] = 0 THEN 0 ELSE Links[Chain[k]]
<1>1. Length \in Nat \ {0}
  BY Sized
<1> DEFINE s == start  L == Links  n == Length
<1>2. Chain = ChainFrom(s, L, n)
  BY DEF Chain, Length
<1> HIDE DEF s, L, n
<1>3. /\ ChainFrom(s, L, n)[1] = s
      /\ \A k \in 1 .. n - 1 :
           ChainFrom(s, L, n)[k + 1] = IF ChainFrom(s, L, n)[k] = 0 THEN 0 ELSE L[ChainFrom(s, L, n)[k]]
  BY <1>1, ChainFromIs DEF n
<1>4. QED
  BY <1>2, <1>3 DEF s, L, n

\* A chain is of pages up to its end.
LEMMA ChainTypes ==
  ASSUME PageDirectoryAssumption, DTypeOK, Memory
  PROVE  \A k \in 1 .. Length : Chain[k] \in Pages \cup {0}
<1> DEFINE S == {n \in Nat : n + 1 <= Length => Chain[n + 1] \in Pages \cup {0}}
<1>1. Length \in Nat
  BY Sized
<1>2. \A p \in Pages : Links[p] \in Pages \cup {0}
  BY DEF Memory, Links
<1>3. 0 \in S
  BY ChainIs DEF DTypeOK
<1>4. ASSUME NEW n \in Nat, n \in S
      PROVE  n + 1 \in S
  <2>1. SUFFICES ASSUME n + 1 + 1 <= Length
                 PROVE  Chain[n + 1 + 1] \in Pages \cup {0}
    OBVIOUS
  <2>2. n + 1 \in 1 .. Length - 1 /\ Chain[n + 1] \in Pages \cup {0}
    BY <1>1, <1>4, <2>1
  <2>3. Chain[n + 1 + 1] = IF Chain[n + 1] = 0 THEN 0 ELSE Links[Chain[n + 1]]
    BY <2>2, ChainIs
  <2>4. QED
    BY <1>2, <2>2, <2>3
<1> HIDE DEF S
<1>5. Nat \subseteq S
  BY <1>3, <1>4, SetInduction
<1>6. ASSUME NEW k \in 1 .. Length
      PROVE  Chain[k] \in Pages \cup {0}
  <2>1. k - 1 \in Nat /\ k - 1 + 1 = k /\ k <= Length
    BY <1>1
  <2>2. k - 1 \in S
    BY <1>5, <2>1
  <2>3. QED
    BY <2>1, <2>2 DEF S
<1>7. QED
  BY <1>6

\* Behind the end of a chain is no page.
LEMMA ChainEnds ==
  ASSUME PageDirectoryAssumption, DTypeOK, NEW a \in 1 .. Length, NEW b \in 1 .. Length,
         a <= b, Chain[a] = 0
  PROVE  Chain[b] = 0
<1> DEFINE S == {n \in Nat : a + n <= Length => Chain[a + n] = 0}
<1>1. Length \in Nat /\ a \in Nat /\ b \in Nat
  BY Sized
<1>2. 0 \in S
  BY <1>1
<1>3. ASSUME NEW n \in Nat, n \in S
      PROVE  n + 1 \in S
  <2>1. SUFFICES ASSUME a + (n + 1) <= Length
                 PROVE  Chain[a + (n + 1)] = 0
    OBVIOUS
  <2>2. a + n \in 1 .. Length - 1 /\ a + n + 1 = a + (n + 1) /\ Chain[a + n] = 0
    BY <1>1, <1>3, <2>1
  <2>3. Chain[a + n + 1] = IF Chain[a + n] = 0 THEN 0 ELSE Links[Chain[a + n]]
    BY <2>2, ChainIs
  <2>4. QED
    BY <2>2, <2>3
<1> HIDE DEF S
<1>4. Nat \subseteq S
  BY <1>2, <1>3, SetInduction
<1>5. b - a \in Nat /\ a + (b - a) = b
  BY <1>1
<1>6. QED
  BY <1>1, <1>4, <1>5 DEF S

\* Where the i-th reference is: the row and the column tell them apart.
LEMMA Place ==
  ASSUME PageDirectoryAssumption, DTypeOK, NEW i \in 1 .. Length
  PROVE  /\ Row(i) + 1 \in 1 .. Length /\ Row(i) \in Nat /\ Column(i) \in 1 .. PerPage
         /\ i - 1 = PerPage * Row(i) + Column(i) - 1
         /\ PageOf(i) = Chain[Row(i) + 1]
<1>1. Length \in Nat /\ i - 1 \in Nat /\ PerPage \in Nat \ {0}
  BY Sized DEF PageDirectoryAssumption
<1>2. /\ Row(i) \in Nat /\ (i - 1) % PerPage \in 0 .. PerPage - 1
      /\ i - 1 = PerPage * Row(i) + ((i - 1) % PerPage)
  BY <1>1, Division DEF Row
<1> DEFINE r == Row(i)
<1>3. r <= PerPage * r
  <2>1. \A d \in Nat \ {0}, a \in Nat : a <= d * a
    OBVIOUS
  <2> HIDE DEF r
  <2>2. QED
    BY <1>1, <1>2, <2>1 DEF r
<1> HIDE DEF r
<1>4. PerPage * r \in Nat /\ r \in Nat /\ i - 1 = PerPage * r + ((i - 1) % PerPage)
  BY <1>1, <1>2 DEF r
<1>5. r <= i - 1
  BY <1>1, <1>2, <1>3, <1>4
<1>6. Column(i) \in 1 .. PerPage /\ Column(i) = ((i - 1) % PerPage) + 1
  BY <1>1, <1>2 DEF Column
<1>7. i - 1 = PerPage * r + Column(i) - 1
  BY <1>1, <1>2, <1>4, <1>6
<1>8. r + 1 \in 1 .. Length
  BY <1>1, <1>4, <1>5
<1>9. QED
  BY <1>4, <1>6, <1>7, <1>8 DEF r, PageOf, Row

\* The page of a reference is a page, or there is none.
LEMMA PageTypes ==
  ASSUME PageDirectoryAssumption, DTypeOK, Memory, NEW i \in 1 .. Length
  PROVE  PageOf(i) \in Pages \cup {0}
BY Place, ChainTypes

\* Behind a reference without a page are no more.
LEMMA PagesEnd ==
  ASSUME PageDirectoryAssumption, DTypeOK, NEW i \in 1 .. Length, NEW j \in 1 .. Length,
         i <= j, PageOf(i) = 0
  PROVE  PageOf(j) = 0
<1>1. i - 1 \in Nat /\ j - 1 \in Nat /\ i - 1 <= j - 1 /\ PerPage \in Nat \ {0}
  BY Sized DEF PageDirectoryAssumption
<1>2. Row(i) <= Row(j)
  BY <1>1, QuotientGrows DEF Row
<1>3. /\ Row(i) + 1 \in 1 .. Length /\ PageOf(i) = Chain[Row(i) + 1] /\ Row(i) \in Nat
      /\ Row(j) + 1 \in 1 .. Length /\ PageOf(j) = Chain[Row(j) + 1] /\ Row(j) \in Nat
  BY Place
<1>4. Row(i) + 1 <= Row(j) + 1
  BY <1>2, <1>3
<1>5. QED
  BY <1>3, <1>4, ChainEnds


\* What the page the walk is at holds of the buffer, and what comes behind it.
LEMMA OnThisPage ==
  ASSUME PageDirectoryAssumption, DTypeOK, Memory, AtPage, left > 0, dir # 0
  PROVE  /\ dir \in Pages /\ Taken \in 1 .. PerPage /\ Taken <= left
         /\ \A i \in Done + 1 .. Done + Taken :
              PageOf(i) = dir /\ Column(i) = i - Done /\ Row(i) = Row(Done + 1)
         /\ left - Taken > 0 =>
              (Done + Taken) % PerPage = 0 /\ PageOf(Done + Taken + 1) = Links[dir]
<1>1. /\ PerPage \in Nat \ {0} /\ Length \in Nat \ {0} /\ Done \in Nat /\ left \in Nat
      /\ left = Length - 1 - Done /\ Done + 1 \in 1 .. Length - 1
  BY Sized DEF PageDirectoryAssumption
<1>2. dir \in Pages /\ dir = PageOf(Done + 1) /\ Done % PerPage = 0
  BY DEF DTypeOK, AtPage
<1>3. Taken \in 1 .. PerPage /\ Taken <= left /\ (left - Taken > 0 => Taken = PerPage)
  BY <1>1 DEF Taken, Least
<1> DEFINE j == Done \div PerPage
<1>4. j \in Nat /\ Done = PerPage * j + 0
  <2>1. j \in Nat /\ Done = PerPage * j + (Done % PerPage)
    BY <1>1, Division
  <2>2. QED
    BY <1>2, <2>1
<1>5. Row(Done + 1) = j
  <2>1. (Done + 1) - 1 = Done
    BY <1>1
  <2>2. Row(Done + 1) = ((Done + 1) - 1) \div PerPage
    BY DEF Row
  <2>3. QED
    BY <2>1, <2>2
<1> HIDE DEF j
<1>6. PerPage * j \in Nat /\ PerPage * j = Done
  BY <1>1, <1>4
<1>7. dir = Chain[j + 1] /\ j + 1 \in 1 .. Length
  BY <1>1, <1>2, <1>5, Place
<1>8. ASSUME NEW i \in Done + 1 .. Done + Taken
      PROVE  PageOf(i) = dir /\ Column(i) = i - Done /\ Row(i) = Row(Done + 1)
  <2> DEFINE r == i - 1 - Done
  <2>1. r \in 0 .. PerPage - 1 /\ i - 1 = PerPage * j + r /\ r + 1 = i - Done
    BY <1>1, <1>3, <1>6
  <2> HIDE DEF r
  <2>2. (i - 1) \div PerPage = j /\ (i - 1) % PerPage = r
    BY <1>1, <1>4, <2>1, Quotient
  <2>3. QED
    BY <1>5, <1>7, <2>1, <2>2 DEF Row, Column, PageOf
<1>9. ASSUME left - Taken > 0
      PROVE  (Done + Taken) % PerPage = 0 /\ PageOf(Done + Taken + 1) = Links[dir]
  <2>1. Taken = PerPage /\ Done + Taken + 1 \in 1 .. Length
    BY <1>1, <1>3, <1>9
  <2>2. PerPage * (j + 1) + 0 = PerPage * j + PerPage
    BY <1>1, <1>4
  <2>3. Done + Taken = PerPage * (j + 1) + 0 /\ j + 1 \in Nat /\ 0 \in 0 .. PerPage - 1
    BY <1>1, <1>4, <1>6, <2>1, <2>2
  <2>4. (Done + Taken) \div PerPage = j + 1 /\ (Done + Taken) % PerPage = 0
    BY <1>1, <2>3, Quotient
  <2>5. Row(Done + Taken + 1) = j + 1
    <3>1. (Done + Taken + 1) - 1 = Done + Taken
      BY <1>1, <2>1
    <3>2. Row(Done + Taken + 1) = ((Done + Taken + 1) - 1) \div PerPage
      BY DEF Row
    <3>3. QED
      BY <2>4, <3>1, <3>2
  <2>6. PageOf(Done + Taken + 1) = Chain[j + 1 + 1] /\ j + 1 + 1 \in 1 .. Length
    BY <2>1, <2>5, Place
  <2>7. j + 1 \in 1 .. Length - 1
    BY <1>1, <1>4, <2>6
  <2>8. Chain[j + 1 + 1] = IF Chain[j + 1] = 0 THEN 0 ELSE Links[Chain[j + 1]]
    BY <2>7, ChainIs
  <2>9. QED
    BY <1>7, <2>4, <2>6, <2>8
<1>10. QED
  BY <1>2, <1>3, <1>8, <1>9

\* No step changes the chain.
LEMMA SameChain ==
  ASSUME Links' = Links, size' = size, start' = start
  PROVE  /\ NumGrefs(size)' = NumGrefs(size) /\ Chain' = Chain
         /\ \A i : PageOf(i)' = PageOf(i)
         /\ NoLoop' = NoLoop
<1>1. NumGrefs(size)' = NumGrefs(size)
  BY DEF NumGrefs
<1>2. Chain' = Chain
  BY <1>1 DEF Chain
<1>3. \A i : PageOf(i)' = PageOf(i)
  BY <1>2 DEF PageOf
<1>4. Present' = Present
  BY <1>1, <1>3 DEF Present
<1>5. NoLoop' = NoLoop
  BY <1>3, <1>4 DEF NoLoop
<1>6. QED
  BY <1>1, <1>2, <1>3, <1>5

\* Where a walk is behind a page.
LEMMA PageWalked ==
  ASSUME PageDirectoryAssumption, DTypeOK, Memory, AtPage, Walking,
         Links' = Links, UNCHANGED <<task, size, start, pc>>,
         left' = left - Taken, dir' = mem[dir].next
  PROVE  /\ Done' = Done + Taken /\ Done + Taken \in 0 .. NumGrefs(size)
         /\ left' \in 0 .. NumGrefs(size)' /\ dir' \in Pages \cup {0}
         /\ AtPage'
<1> DEFINE t == Taken  k == Done  N == NumGrefs(size)
<1>1. /\ dir \in Pages /\ t \in 1 .. PerPage /\ t <= left /\ PerPage \in Nat
      /\ \A i \in k + 1 .. k + t : PageOf(i) = dir
      /\ left - t > 0 => (k + t) % PerPage = 0 /\ PageOf(k + t + 1) = Links[dir]
  BY OnThisPage DEF Walking, PageDirectoryAssumption
<1>2. /\ N' = N /\ \A i : PageOf(i)' = PageOf(i)
  BY SameChain
<1>3. N \in Nat /\ left \in Nat /\ k \in 0 .. N /\ left = N - k
  BY Sized
<1> HIDE DEF t, k, N
<1>4. left' = left - t
  BY DEF t
<1>5. Done' = N - left' /\ k = N - left
  BY <1>2 DEF Done, N, k
<1>6. Done' = k + t /\ k + t \in 0 .. N /\ left' \in 0 .. N
  BY <1>1, <1>3, <1>4, <1>5
<1>7. dir' = Links[dir] /\ dir' \in Pages \cup {0}
  BY <1>1 DEF Links, Memory
<1>8. \A i \in 1 .. Done' : PageOf(i)' # 0
  <2>1. TAKE i \in 1 .. Done'
  <2>2. i \in 1 .. k \/ i \in k + 1 .. k + t
    BY <1>1, <1>3, <1>6
  <2>3. dir # 0
    BY DEF Walking
  <2>4. \A m \in 1 .. k : PageOf(m) # 0
    BY DEF AtPage, k
  <2>5. QED
    BY <1>1, <1>2, <2>2, <2>3, <2>4
<1>9. left' > 0 => (k + t) % PerPage = 0 /\ dir' = PageOf(k + t + 1)
  BY <1>1, <1>2, <1>4, <1>7
<1>10. pc' = "walk"
  BY DEF Walking
<1>11. AtPage'
  <2> DEFINE d == Done'
  <2>1. /\ Chain' = Chain /\ d = k + t /\ d \in Nat
    BY <1>3, <1>6, SameChain
  <2>2. PageOf(Done + 1)' = Chain'[((d + 1) - 1) \div PerPage + 1]
    BY DEF PageOf
  <2>3. PageOf(k + t + 1) = Chain[((k + t + 1) - 1) \div PerPage + 1]
    BY DEF PageOf
  <2> HIDE DEF d
  <2>4. PageOf(Done + 1)' = PageOf(k + t + 1)
    BY <2>1, <2>2, <2>3
  <2>5. left' > 0 => Done' % PerPage = 0 /\ dir' = PageOf(Done + 1)'
    BY <1>6, <1>9, <2>4
  <2>6. QED
    BY <1>8, <1>10, <2>5 DEF AtPage
<1>12. QED
  BY <1>2, <1>6, <1>7, <1>11 DEF k, t, N

\* Reading a page appends its references.
LEMMA PageRead ==
  ASSUME PageDirectoryAssumption, DTypeOK, Memory, AtPage, ReadSoFar, pgDirGetBufferRefs
  PROVE  DTypeOK' /\ Memory' /\ AtPage' /\ ReadSoFar' /\ WrittenSoFar'
<1>1. /\ Walking /\ task # "set" /\ UNCHANGED <<task, size, start, mem, pos, pc>>
      /\ refs' = refs \o SubSeq(mem[dir].gref, 1, Taken)
      /\ left' = left - Taken /\ dir' = mem[dir].next
  BY DEF pgDirGetBufferRefs
<1>2. Links' = Links
  BY <1>1 DEF Links
<1>3. /\ Done' = Done + Taken /\ left' \in 0 .. NumGrefs(size)' /\ dir' \in Pages \cup {0}
      /\ AtPage'
  BY <1>1, <1>2, PageWalked
<1>4. DTypeOK'
  BY <1>1, <1>3 DEF DTypeOK
<1>5. Memory'
  BY <1>1 DEF Memory
<1>6. WrittenSoFar'
  BY <1>1 DEF WrittenSoFar
<1>7. refs' = [i \in 1 .. Done' |-> Entry(i)']
  <2> DEFINE g == mem[dir].gref  t == Taken  k == Done
  <2>1. /\ dir \in Pages /\ t \in 1 .. PerPage
        /\ \A i \in k + 1 .. k + t : PageOf(i) = dir /\ Column(i) = i - k
    BY <1>1, OnThisPage DEF Walking
  <2>2. k \in Nat /\ PerPage \in Nat /\ t \in Nat
    BY <2>1, Sized DEF PageDirectoryAssumption
  <2>3. \A i : Entry(i)' = Entry(i)
    <3>1. \A i : PageOf(i)' = PageOf(i)
      BY <1>1, <1>2, SameChain
    <3>2. QED
      BY <1>1, <3>1 DEF Entry
  <2>4. g \in [1 .. PerPage -> Int]
    BY <2>1 DEF Memory
  <2>5. refs = [i \in 1 .. k |-> Entry(i)]
    BY <1>1 DEF ReadSoFar
  <2>6. \A i \in k + 1 .. k + t : Entry(i) = g[i - k]
    BY <2>1 DEF Entry, Column
  <2>7. refs' = refs \o SubSeq(g, 1, t) /\ Done' = k + t
    BY <1>1, <1>3
  <2> HIDE DEF g, t, k
  <2>8. /\ SubSeq(g, 1, t) = [i \in 1 .. t |-> g[i]]
    BY <2>1, <2>2, <2>4
  <2> DEFINE h == [i \in 1 .. t |-> g[i]]
             e == [i \in 1 .. k |-> Entry(i)]
  <2>9. Len(h) = t /\ DOMAIN h = 1 .. t /\ Len(e) = k /\ \A i \in 1 .. t : h[i] = g[i]
    BY <2>2
  <2>10. e \o h = [i \in 1 .. k + t |-> IF i <= k THEN e[i] ELSE h[i - k]]
    BY <2>2, <2>9
  <2>11. \A i \in 1 .. k + t : (IF i <= k THEN e[i] ELSE h[i - k]) = Entry(i)
    <3>1. TAKE i \in 1 .. k + t
    <3>2. CASE i <= k
      <4>1. i \in 1 .. k
        BY <2>2, <3>2
      <4>2. QED
        BY <3>2, <4>1
    <3>3. CASE ~(i <= k)
      <4>1. i \in k + 1 .. k + t /\ i - k \in 1 .. t
        BY <2>2, <3>3
      <4>2. h[i - k] = g[i - k]
        BY <4>1
      <4>3. QED
        BY <2>6, <3>3, <4>1, <4>2
    <3>4. QED
      BY <3>2, <3>3
  <2> HIDE DEF h, e
  <2>12. refs' = [i \in 1 .. k + t |-> Entry(i)]
    BY <2>5, <2>7, <2>8, <2>10, <2>11 DEF h, e
  <2>13. QED
    BY <2>3, <2>7, <2>12
<1>8. QED
  BY <1>3, <1>4, <1>5, <1>6, <1>7 DEF ReadSoFar

\* The slots of a buffer are apart when its chain does not come back.
LEMMA SlotsApart ==
  ASSUME PageDirectoryAssumption, DTypeOK, NoLoop,
         NEW i \in 1 .. NumGrefs(size), NEW j \in 1 .. NumGrefs(size),
         PageOf(i) # 0, PageOf(i) = PageOf(j)
  PROVE  Row(i) = Row(j) /\ (Column(i) = Column(j) => i = j)
<1>1. i \in Present /\ j \in Present
  BY DEF Present
<1>2. Row(i) = Row(j)
  BY <1>1 DEF NoLoop, Row
<1>3. i \in 1 .. Length /\ j \in 1 .. Length
  BY Sized
<1>4. /\ i - 1 = PerPage * Row(i) + Column(i) - 1 /\ Row(i) \in Nat /\ Column(i) \in Nat
      /\ j - 1 = PerPage * Row(j) + Column(j) - 1
  BY <1>3, Place
<1>5. QED
  BY <1>2, <1>4

\* Writing a page leaves the rest of the memory.
LEMMA PageWritten ==
  ASSUME PageDirectoryAssumption, DTypeOK, Memory, AtPage, WrittenSoFar, pgDirSetBufferRefs
  PROVE  DTypeOK' /\ Memory' /\ AtPage' /\ ReadSoFar' /\ WrittenSoFar'
<1> DEFINE t == Taken  k == Done  N == NumGrefs(size)
<1>1. /\ Walking /\ task = "set" /\ UNCHANGED <<task, size, start, refs, pc>>
      /\ mem' = [mem EXCEPT ![dir].gref =
                   [i \in 1 .. PerPage |-> IF i <= t THEN Reference(pos + i) ELSE @[i]]]
      /\ left' = left - t /\ pos' = pos + t /\ dir' = mem[dir].next
  BY DEF pgDirSetBufferRefs
<1>2. /\ dir \in Pages /\ dir # 0 /\ t \in 1 .. PerPage /\ t <= left
      /\ \A i \in k + 1 .. k + t : PageOf(i) = dir /\ Column(i) = i - k /\ Row(i) = Row(k + 1)
  BY <1>1, OnThisPage DEF Walking
<1>3. /\ pos = k /\ refs = Own(Len(refs)) /\ Len(refs) \in Nat
      /\ Len(refs) >= N /\ NoLoop => OwnSoFar
  BY <1>1 DEF WrittenSoFar
<1>4. /\ N \in Nat /\ Length \in Nat /\ left \in Nat /\ k \in 0 .. N /\ left = N - k /\ PerPage \in Nat
      /\ Length = N + 1
  BY Sized DEF PageDirectoryAssumption, Length
<1>5. /\ DOMAIN refs = 1 .. Len(refs) /\ \A i \in 1 .. Len(refs) : refs[i] = -1 - i
  <2> DEFINE n == Len(refs)
  <2> HIDE DEF n
  <2>1. refs = [i \in 1 .. n |-> -1 - i]
    BY <1>3 DEF Own, n
  <2>2. QED
    BY <2>1 DEF n
<1>6. /\ \A p \in Pages : mem'[p].next = mem[p].next /\ (p # dir => mem'[p].gref = mem[p].gref)
      /\ mem'[dir].gref = [i \in 1 .. PerPage |-> IF i <= t THEN Reference(k + i) ELSE mem[dir].gref[i]]
      /\ mem' = [p \in Pages |-> mem'[p]]
      /\ \A p \in Pages : mem'[p] = [next |-> mem'[p].next, gref |-> mem'[p].gref]
  <2> DEFINE G == [i \in 1 .. PerPage |-> IF i <= t THEN Reference(k + i) ELSE mem[dir].gref[i]]
  <2>1. mem' = [mem EXCEPT ![dir].gref = G]
    BY <1>1, <1>3
  <2> HIDE DEF G
  <2>2. /\ \A p \in Pages : mem'[p].next = mem[p].next /\ (p # dir => mem'[p].gref = mem[p].gref)
        /\ mem'[dir].gref = G
        /\ mem' = [p \in Pages |-> mem'[p]]
        /\ \A p \in Pages : mem'[p] = [next |-> mem'[p].next, gref |-> mem'[p].gref]
    BY <1>2, <2>1 DEF Memory
  <2>3. QED
    BY <2>2 DEF G
<1> HIDE DEF t, k, N
<1>7. Links' = Links
  BY <1>6 DEF Links
<1>8. /\ Done' = k + t /\ k + t \in 0 .. N /\ left' \in 0 .. NumGrefs(size)'
      /\ dir' \in Pages \cup {0} /\ AtPage'
  BY <1>1, <1>7, PageWalked DEF k, t, N
<1>9. N' = N /\ (\A i : PageOf(i)' = PageOf(i)) /\ NoLoop' = NoLoop
  BY <1>1, <1>7, SameChain DEF N
<1>10. DTypeOK'
  <2>1. pos' \in Nat
    BY <1>1, <1>2, <1>3, <1>4
  <2>2. QED
    BY <1>1, <1>8, <2>1 DEF DTypeOK
<1>11. Memory'
  <2>1. \A i \in Nat : Reference(i) \in Int
    BY <1>5 DEF Reference, Foreign
  <2>2. mem[dir].gref \in [1 .. PerPage -> Int]
    BY <1>2 DEF Memory
  <2>3. mem'[dir].gref \in [1 .. PerPage -> Int]
    <3>1. \A i \in 1 .. PerPage : k + i \in Nat
      BY <1>4
    <3>2. QED
      BY <1>6, <2>1, <2>2, <3>1
  <2>4. \A p \in Pages : mem'[p].next \in Pages \cup {0} /\ mem'[p].gref \in [1 .. PerPage -> Int]
    BY <1>6, <2>3 DEF Memory
  <2>5. QED
    BY <1>6, <2>4 DEF Memory
<1>12. ReadSoFar'
  BY <1>1 DEF ReadSoFar
<1>13. ASSUME Len(refs) >= N, NoLoop
       PROVE  OwnSoFar'
  <2>1. OwnSoFar
    BY <1>3, <1>13
  <2>2. ASSUME NEW i \in 1 .. Done'
        PROVE  mem'[PageOf(i)].gref[Column(i)] = refs[i]
    <3>1. CASE i <= k
      <4>1. i \in 1 .. k /\ i \in 1 .. N /\ i \in 1 .. Length /\ k + 1 \in 1 .. N /\ k + 1 \in 1 .. Length
            /\ k + 1 \in k + 1 .. k + t
        BY <1>2, <1>4, <1>8, <3>1
      <4>2. PageOf(k + 1) = dir /\ Column(k + 1) = (k + 1) - k
        BY <1>2, <4>1
      <4>3. Column(k + 1) = 1
        BY <1>4, <4>2
      <4>4. PageOf(i) # 0
        BY <4>1 DEF AtPage, k
      <4>5. PageOf(i) # dir
        <5>1. SUFFICES ASSUME PageOf(i) = dir PROVE FALSE
          OBVIOUS
        <5>2. Row(i) = Row(k + 1)
          BY <1>13, <4>1, <4>2, <4>4, <5>1, SlotsApart DEF N
        <5>3. /\ i - 1 = PerPage * Row(i) + Column(i) - 1 /\ Row(i) \in Nat /\ Column(i) \in 1 .. PerPage
          BY <4>1, Place
        <5>4. (k + 1) - 1 = PerPage * Row(k + 1) + Column(k + 1) - 1
          BY <4>1, Place
        <5> DEFINE x == PerPage * Row(i)
        <5>5. x \in Nat
          BY <1>4, <5>3
        <5>6. (k + 1) - 1 = x + Column(k + 1) - 1 /\ i - 1 = x + Column(i) - 1
          BY <5>2, <5>3, <5>4
        <5> HIDE DEF x
        <5>7. QED
          BY <1>4, <3>1, <4>3, <5>3, <5>5, <5>6
      <4>6. PageOf(i) \in Pages
        BY <4>1, <4>4, PageTypes
      <4>7. Entry(i) = refs[i]
        BY <2>1, <4>1 DEF OwnSoFar, k
      <4>8. QED
        BY <1>6, <4>5, <4>6, <4>7 DEF Entry, Column
    <3>2. CASE ~(i <= k)
      <4>1. i \in k + 1 .. k + t /\ i - k \in 1 .. PerPage /\ i - k <= t /\ k + (i - k) = i
            /\ i \in 1 .. Len(refs)
        BY <1>2, <1>3, <1>4, <1>8, <1>13, <3>2
      <4>2. PageOf(i) = dir /\ Column(i) = i - k
        BY <1>2, <4>1
      <4>3. mem'[dir].gref[i - k] = Reference(i)
        BY <1>6, <4>1
      <4>4. Reference(i) = refs[i]
        BY <1>5, <4>1 DEF Reference
      <4>5. QED
        BY <4>2, <4>3, <4>4
    <3>3. QED
      BY <3>1, <3>2
  <2>3. \A i \in 1 .. Done' : Entry(i)' = refs'[i]
    <3>1. TAKE i \in 1 .. Done'
    <3>2. Entry(i)' = mem'[PageOf(i)'].gref[Column(i)]
      BY DEF Entry, Column
    <3>3. QED
      BY <1>1, <1>9, <2>2, <3>2
  <2>4. ASSUME NEW p \in Pages, NEW i \in 1 .. PerPage, \A m \in 1 .. k + t : SlotOf(m) # <<p, i>>
        PROVE  mem'[p].gref[i] = OnPage(p)[i]
    <3>1. \A m \in 1 .. k : SlotOf(m) # <<p, i>>
      BY <1>2, <1>4, <2>4
    <3>2. mem[p].gref[i] = OnPage(p)[i]
      BY <2>1, <3>1 DEF OwnSoFar, k
    <3>3. CASE p # dir
      BY <1>6, <3>2, <3>3
    <3>4. CASE p = dir
      <4>1. CASE i <= t
        <5>1. k + i \in 1 .. k + t /\ k + i \in k + 1 .. k + t /\ (k + i) - k = i
          BY <1>2, <1>4, <4>1
        <5>2. PageOf(k + i) = dir /\ Column(k + i) = i
          BY <1>2, <5>1
        <5>3. SlotOf(k + i) = <<p, i>>
          BY <3>4, <5>2 DEF SlotOf
        <5>4. QED
          BY <2>4, <5>1, <5>3
      <4>2. CASE ~(i <= t)
        BY <1>6, <3>2, <3>4, <4>2
      <4>3. QED
        BY <4>1, <4>2
    <3>5. QED
      BY <3>3, <3>4
  <2>5. \A m : SlotOf(m)' = SlotOf(m)
    BY <1>9 DEF SlotOf, Column
  <2>6. \A p \in Pages, i \in 1 .. PerPage :
          (\A m \in 1 .. Done' : SlotOf(m)' # <<p, i>>) => mem'[p].gref[i] = OnPage(p)[i]
    BY <1>8, <2>4, <2>5
  <2>7. QED
    BY <2>3, <2>6 DEF OwnSoFar
<1>14. WrittenSoFar'
  <2>1. pos' = Done'
    BY <1>1, <1>3, <1>8
  <2>2. refs' = Own(Len(refs')) /\ Len(refs') \in Nat
    BY <1>1, <1>3
  <2>3. Len(refs') >= NumGrefs(size)' /\ NoLoop' => OwnSoFar'
    BY <1>1, <1>9, <1>13 DEF N
  <2>4. QED
    BY <2>1, <2>2, <2>3 DEF WrittenSoFar
<1>15. QED
  BY <1>8, <1>10, <1>11, <1>12, <1>14


\* The invariant of a walk holds at first,
LEMMA WalkStarts ==
  ASSUME PageDirectoryAssumption, DInit
  PROVE  DTypeOK /\ Memory /\ AtPage /\ ReadSoFar /\ WrittenSoFar
<1>1. NumGrefs(size) \in Nat
  <2>1. size \in Nat /\ PageSize \in Nat \ {0} /\ size + PageSize - 1 \in Nat
    BY DEF DInit, PageDirectoryAssumption
  <2>2. QED
    BY <2>1, Division DEF NumGrefs
<1>2. DTypeOK
  BY <1>1 DEF DInit, DTypeOK
<1>3. Done = 0 /\ pc = "walk" /\ pos = 0
  BY <1>1 DEF DInit, Done
<1>4. PICK next \in [Pages -> Pages \cup {0}] :
        mem = [p \in Pages |-> [next |-> next[p], gref |-> OnPage(p)]]
  BY DEF DInit
<1>5. \A p \in Pages : OnPage(p) \in [1 .. PerPage -> Int]
  <2>1. TAKE p \in Pages
  <2>2. p \in Nat /\ PerPage \in Nat
    BY DEF PageDirectoryAssumption
  <2>3. \A i \in 1 .. PerPage : PerPage * p + i \in Int
    BY <2>2
  <2>4. QED
    BY <2>3 DEF OnPage
<1>6. Memory
  BY <1>4, <1>5 DEF Memory
<1>7. AtPage
  <2>1. PerPage \in Nat \ {0} /\ Length \in Nat \ {0}
    BY <1>2, Sized DEF PageDirectoryAssumption
  <2>2. 0 = PerPage * 0 + 0
    BY <2>1
  <2>3. 0 % PerPage = 0 /\ 0 \div PerPage = 0
    BY <2>1, <2>2, Quotient
  <2>4. PageOf(1) = Chain[1]
    BY <2>3 DEF PageOf
  <2>5. dir = PageOf(0 + 1)
    BY <1>2, <2>4, ChainIs DEF DInit
  <2>6. QED
    BY <1>3, <2>3, <2>5 DEF AtPage
<1>8. ReadSoFar
  <2>1. task # "set" => refs = <<>>
    BY DEF DInit
  <2>2. [i \in 1 .. 0 |-> Entry(i)] = <<>>
    OBVIOUS
  <2>3. QED
    BY <1>3, <2>1, <2>2 DEF ReadSoFar
<1>9. WrittenSoFar
  <2>1. SUFFICES ASSUME task = "set"
                 PROVE  refs = Own(Len(refs)) /\ Len(refs) \in Nat /\ OwnSoFar
    BY <1>3 DEF WrittenSoFar
  <2>2. PICK n \in Nat : refs = Own(n)
    BY <2>1 DEF DInit
  <2>3. Len(refs) = n
    BY <2>2 DEF Own
  <2>4. OwnSoFar
    BY <1>3, <1>4 DEF OwnSoFar
  <2>5. QED
    BY <2>2, <2>3, <2>4
<1>10. QED
  BY <1>2, <1>6, <1>7, <1>8, <1>9

\* A step that neither reads nor writes a page.
LEMMA WalkStays ==
  ASSUME DTypeOK, Memory, AtPage, ReadSoFar, WrittenSoFar,
         UNCHANGED <<task, size, start, mem, refs, dir, left, pos>>,
         pc' \in {"walk", "walked", "error", "answered"},
         pc' \in {"walked", "answered"} => dir = 0 \/ left = 0
  PROVE  DTypeOK' /\ Memory' /\ AtPage' /\ ReadSoFar' /\ WrittenSoFar'
<1>1. Links' = Links
  BY DEF Links
<1>2. /\ NumGrefs(size)' = NumGrefs(size) /\ Chain' = Chain
      /\ \A i : PageOf(i)' = PageOf(i)
      /\ NoLoop' = NoLoop
  BY <1>1, SameChain
<1>3. Done' = Done /\ \A i : Entry(i)' = Entry(i) /\ SlotOf(i)' = SlotOf(i)
  BY <1>2 DEF Done, Entry, SlotOf
<1>4. DTypeOK' /\ Memory'
  BY <1>2 DEF DTypeOK, Memory
<1>5. PageOf(Done + 1)' = PageOf(Done + 1)
  BY <1>2, <1>3 DEF PageOf
<1>6. AtPage'
  BY <1>2, <1>3, <1>5 DEF AtPage
<1>7. ReadSoFar'
  BY <1>3 DEF ReadSoFar
<1>8. OwnSoFar' = OwnSoFar
  BY <1>3 DEF OwnSoFar
<1>9. WrittenSoFar'
  BY <1>2, <1>3, <1>8 DEF WrittenSoFar
<1>10. QED
  BY <1>4, <1>6, <1>7, <1>9

\* and every step keeps it.
LEMMA WalkStep ==
  ASSUME PageDirectoryAssumption, DTypeOK, Memory, AtPage, ReadSoFar, WrittenSoFar, [ENext]_evars
  PROVE  DTypeOK' /\ Memory' /\ AtPage' /\ ReadSoFar' /\ WrittenSoFar'
<1>1. CASE pgDirGetBufferRefs
  BY <1>1, PageRead
<1>2. CASE pgDirSetBufferRefs
  BY <1>2, PageWritten
<1>3. CASE MapFails
  BY <1>3, WalkStays DEF MapFails
<1>4. CASE Walked
  <2>1. dir = 0 \/ left = 0
    <3>1. left \in Nat
      BY Sized
    <3>2. QED
      BY <1>4, <3>1 DEF Walked, Walking
  <2>2. QED
    BY <1>4, <2>1, WalkStays DEF Walked
<1>5. CASE getEDID
  <2>1. /\ UNCHANGED <<task, size, start, mem, refs, dir, left, pos>>
        /\ pc = "walked" /\ pc' \in {"answered", "error"}
    BY <1>5 DEF getEDID
  <2>2. dir = 0 \/ left = 0
    BY <2>1 DEF AtPage
  <2>3. QED
    BY <2>1, <2>2, WalkStays
<1>6. CASE UNCHANGED evars
  <2>1. UNCHANGED <<task, size, start, mem, refs, dir, left, pos>> /\ pc' = pc
    BY <1>6 DEF evars, dvars
  <2>2. pc' \in {"walked", "answered"} => dir = 0 \/ left = 0
    BY <2>1 DEF AtPage
  <2>3. pc' \in {"walk", "walked", "error", "answered"}
    BY <2>1 DEF DTypeOK
  <2>4. QED
    BY <2>1, <2>2, <2>3, WalkStays
<1>7. QED
  BY <1>1, <1>2, <1>3, <1>4, <1>5, <1>6 DEF ENext, Walk, DNext

\* Behind a walk, exactly what has been walked over is there.
LEMMA AllWalked ==
  ASSUME PageDirectoryAssumption, DTypeOK, Memory, AtPage, pc = "walked"
  PROVE  Present = 1 .. Done /\ IsFiniteSet(Present) /\ Cardinality(Present) = Done
<1>1. /\ NumGrefs(size) \in Nat /\ left \in Nat /\ Done \in 0 .. NumGrefs(size)
      /\ left = NumGrefs(size) - Done /\ Length = NumGrefs(size) + 1
  BY Sized DEF Length
<1>2. \A i \in 1 .. Done : i \in Present
  BY <1>1 DEF AtPage, Present
<1>3. ASSUME NEW i \in 1 .. NumGrefs(size), ~(i <= Done)
      PROVE  PageOf(i) = 0
  <2>1. left # 0
    BY <1>1, <1>3
  <2>2. dir = 0 /\ dir = PageOf(Done + 1)
    BY <1>1, <2>1 DEF AtPage
  <2>3. Done + 1 \in 1 .. Length /\ i \in 1 .. Length /\ Done + 1 <= i
    BY <1>1, <1>3
  <2>4. QED
    BY <2>2, <2>3, PagesEnd
<1>4. Present = 1 .. Done
  BY <1>1, <1>2, <1>3 DEF Present
<1>5. IsFiniteSet(1 .. Done) /\ Cardinality(1 .. Done) = Done
  BY <1>1, FS_Interval
<1>6. QED
  BY <1>4, <1>5

\* The slots written are those of the references.
LEMMA WrittenIsOwn ==
  ASSUME PageDirectoryAssumption, DTypeOK, Memory, AtPage, NoLoop, OwnSoFar,
         NumGrefs(size) <= Len(refs), refs = Own(Len(refs)), Len(refs) \in Nat
  PROVE  Cardinality(Written) = Done
<1> DEFINE k == Done
           f == [i \in 1 .. k |-> SlotOf(i)]
<1>1. /\ NumGrefs(size) \in Nat /\ k \in 0 .. NumGrefs(size) /\ PerPage \in Nat
      /\ Length = NumGrefs(size) + 1
  BY Sized DEF PageDirectoryAssumption, Length
<1> HIDE DEF k
<1>2. ASSUME NEW i \in 1 .. k
      PROVE  /\ PageOf(i) \in Pages /\ Column(i) \in 1 .. PerPage
             /\ mem[PageOf(i)].gref[Column(i)] < 0
  <2>1. i \in 1 .. Length /\ i \in 1 .. Len(refs)
    BY <1>1
  <2>2. PageOf(i) \in Pages /\ Column(i) \in 1 .. PerPage
    <3>1. PageOf(i) # 0
      BY DEF AtPage, k
    <3>2. QED
      BY <2>1, <3>1, PageTypes, Place
  <2>3. Entry(i) = refs[i]
    BY DEF OwnSoFar, k
  <2>4. refs[i] = -1 - i
    <3> DEFINE n == Len(refs)
    <3> HIDE DEF n
    <3>1. refs = [m \in 1 .. n |-> -1 - m]
      BY DEF Own, n
    <3>2. QED
      BY <2>1, <3>1 DEF n
  <2>5. mem[PageOf(i)].gref[Column(i)] = -1 - i
    BY <2>3, <2>4 DEF Entry, Column
  <2>6. QED
    BY <1>1, <2>2, <2>5
<1>3. \A p \in Pages, i \in 1 .. PerPage : OnPage(p)[i] \in Nat
  <2>1. TAKE p \in Pages, i \in 1 .. PerPage
  <2>2. p \in Nat
    BY DEF PageDirectoryAssumption
  <2>3. PerPage * p + i \in Nat
    BY <1>1, <2>2
  <2>4. QED
    BY <2>3 DEF OnPage
<1>4. \A i \in 1 .. k : SlotOf(i) \in Written
  <2>1. TAKE i \in 1 .. k
  <2>2. OnPage(PageOf(i))[Column(i)] \in Nat
    BY <1>2, <1>3
  <2>3. mem[PageOf(i)].gref[Column(i)] # OnPage(PageOf(i))[Column(i)]
    BY <1>2, <2>2
  <2>4. QED
    BY <1>2, <2>3 DEF Written, SlotOf
<1>5. \A i, j \in 1 .. k : SlotOf(i) = SlotOf(j) => i = j
  <2>1. TAKE i, j \in 1 .. k
  <2>2. i \in 1 .. NumGrefs(size) /\ j \in 1 .. NumGrefs(size)
    BY <1>1
  <2>3. PageOf(i) # 0
    BY DEF AtPage, k
  <2>4. SlotOf(i) = SlotOf(j) => PageOf(i) = PageOf(j) /\ Column(i) = Column(j)
    BY DEF SlotOf
  <2>5. QED
    BY <2>2, <2>3, <2>4, SlotsApart
<1>6. \A w \in Written : \E i \in 1 .. k : SlotOf(i) = w
  <2>1. TAKE w \in Written
  <2>2. PICK p \in Pages, i \in 1 .. PerPage : w = <<p, i>> /\ mem[p].gref[i] # OnPage(p)[i]
    <3>1. w \in Pages \X (1 .. PerPage) /\ mem[w[1]].gref[w[2]] # OnPage(w[1])[w[2]]
      BY DEF Written
    <3>2. w = <<w[1], w[2]>> /\ w[1] \in Pages /\ w[2] \in 1 .. PerPage
      BY <3>1
    <3>3. QED
      BY <3>1, <3>2
  <2>3. QED
    BY <2>2 DEF OwnSoFar, k
<1>7. f \in Bijection(1 .. k, Written)
  <2>1. f \in [1 .. k -> Written] /\ \A i \in 1 .. k : f[i] = SlotOf(i)
    BY <1>4
  <2> HIDE DEF f
  <2>2. f \in Injection(1 .. k, Written)
    BY <1>5, <2>1 DEF Injection, IsInjective
  <2>3. f \in Surjection(1 .. k, Written)
    BY <1>6, <2>1 DEF Surjection
  <2>4. QED
    BY <2>2, <2>3 DEF Bijection
<1>8. IsFiniteSet(1 .. k) /\ Cardinality(1 .. k) = k
  BY <1>1, FS_Interval
<1> HIDE DEF f
<1>9. ExistsBijection(1 .. k, Written)
  BY <1>7 DEF ExistsBijection
<1>10. QED
  BY <1>8, <1>9, FS_Bijection DEF k

\* What a walk has read is the directory in the order of its chain, and what
\* it has written is the buffer's pages, and nothing else, wherever the chain
\* ends (pgDirGetBufferRefs(), pgDirSetBufferRefs()).
THEOREM DirectoryOfBuffer == ESpec => []DirectoryAgrees
<1> DEFINE IInv == DTypeOK /\ Memory /\ AtPage /\ ReadSoFar /\ WrittenSoFar
<1>1. EInit => IInv
  BY PageDirectoryAssumption, WalkStarts DEF EInit
<1>2. IInv /\ [ENext]_evars => IInv'
  BY PageDirectoryAssumption, WalkStep
<1>3. IInv => DirectoryAgrees
  <2> SUFFICES ASSUME IInv, pc = "walked"
               PROVE  IF task = "set"
                      THEN Len(refs) >= NumGrefs(size) /\ NoLoop =>
                             /\ \A i \in Present : Entry(i) = refs[i]
                             /\ Cardinality(Written) = Cardinality(Present)
                      ELSE refs = [i \in 1 .. Cardinality(Present) |-> Entry(i)]
    BY DEF DirectoryAgrees
  <2>1. Present = 1 .. Done /\ Cardinality(Present) = Done
    BY PageDirectoryAssumption, AllWalked
  <2>2. CASE task = "set"
    <3>1. SUFFICES ASSUME Len(refs) >= NumGrefs(size), NoLoop
                   PROVE  /\ \A i \in Present : Entry(i) = refs[i]
                          /\ Cardinality(Written) = Cardinality(Present)
      BY <2>2
    <3>2. OwnSoFar /\ refs = Own(Len(refs)) /\ Len(refs) \in Nat
      BY <2>2, <3>1 DEF WrittenSoFar
    <3>3. NumGrefs(size) <= Len(refs)
      BY <3>1
    <3>4. Cardinality(Written) = Done
      BY <3>1, <3>2, <3>3, PageDirectoryAssumption, WrittenIsOwn
    <3>5. QED
      BY <2>1, <3>2, <3>4 DEF OwnSoFar
  <2>3. CASE task # "set"
    BY <2>1, <2>3 DEF ReadSoFar
  <2>4. QED
    BY <2>2, <2>3
<1>4. QED
  BY <1>1, <1>2, <1>3, PTL DEF ESpec

-----------------------------------------------------------------------------
(***************************************************************************)
(* The EDID of a connector, for any size of it and whatever the buffer      *)
(* held. The places the functions write to are apart, and a reader of the   *)
(* fields of a detailed timing gets back what was put there.                *)
(***************************************************************************)

Bytes == 0 .. 255
Blocks == [1 .. BlockSize -> Bytes]

\* Putting bytes into a block changes those places and no others.
LEMMA PutBytes ==
  ASSUME NEW block \in Blocks, NEW at \in Nat, NEW bytes \in Seq(Bytes),
         at + Len(bytes) <= BlockSize
  PROVE  /\ Put(block, at, bytes) \in Blocks
         /\ \A i \in 1 .. BlockSize :
              Put(block, at, bytes)[i] = IF i \in at + 1 .. at + Len(bytes)
                                         THEN bytes[i - at] ELSE block[i]
<1> DEFINE n == Len(bytes)
           m == BlockSize
           head == SubSeq(block, 1, at)
           tail == SubSeq(block, at + n + 1, m)
           front == head \o bytes
           all == front \o tail
<1>1. /\ n \in Nat /\ \A i \in 1 .. n : bytes[i] \in Bytes
  BY LenProperties, ElementOfSeq
<1>2. m \in Nat /\ at + n <= m
  BY DEF BlockSize
<1>3. Len(block) = m /\ \A i \in 1 .. m : block[i] \in Bytes
  BY <1>2 DEF Blocks
<1>4. Put(block, at, bytes) = all
  BY <1>3 DEF Put
<1> HIDE DEF n, m
<1>5. head \in Seq(Bytes) /\ Len(head) = at /\ \A i \in 1 .. at : head[i] = block[i]
  <2>1. \A i \in 1 .. at : block[i] \in Bytes
    BY <1>1, <1>2, <1>3
  <2>2. /\ head \in Seq(Bytes) /\ Len(head) = IF 1 <= at THEN at - 1 + 1 ELSE 0
        /\ \A i \in 1 .. at - 1 + 1 : head[i] = block[1 + i - 1]
    BY <2>1, SubSeqProperties
  <2> HIDE DEF head
  <2>3. QED
    BY <2>2
<1>6. /\ tail \in Seq(Bytes) /\ Len(tail) = m - (at + n)
      /\ \A i \in 1 .. m - (at + n) : tail[i] = block[at + n + i]
  <2> DEFINE a == at + n + 1
  <2>1. a \in Int /\ (\A i \in a .. m : block[i] \in Bytes) /\ m - a + 1 = m - (at + n)
    BY <1>1, <1>2, <1>3
  <2> HIDE DEF a
  <2>2. /\ SubSeq(block, a, m) \in Seq(Bytes)
        /\ Len(SubSeq(block, a, m)) = IF a <= m THEN m - a + 1 ELSE 0
        /\ \A i \in 1 .. m - a + 1 : SubSeq(block, a, m)[i] = block[a + i - 1]
    BY <1>2, <2>1, SubSeqProperties
  <2>3. \A i \in 1 .. m - a + 1 : a + i - 1 = at + n + i
    BY <1>1 DEF a
  <2>4. a <= m \/ m - (at + n) = 0
    BY <1>1, <1>2 DEF a
  <2> DEFINE t == SubSeq(block, a, m)
  <2>5. tail = t
    BY DEF a
  <2>6. t \in Seq(Bytes) /\ Len(t) = m - (at + n) /\ \A i \in 1 .. m - a + 1 : t[i] = block[at + n + i]
    <3> HIDE DEF tail, t
    <3>1. m - a + 1 = 0 => ~(a <= m)
      BY <1>2, <2>1
    <3>2. QED
      BY <2>1, <2>2, <2>3, <2>4, <3>1 DEF t
  <2> HIDE DEF t, tail
  <2>7. QED
    BY <2>1, <2>5, <2>6
<1> HIDE DEF head, tail
<1>7. /\ front \in Seq(Bytes) /\ Len(front) = at + n
      /\ \A i \in 1 .. at + n : front[i] = IF i <= at THEN head[i] ELSE bytes[i - at]
  BY <1>5, ConcatProperties DEF n
<1> HIDE DEF front
<1>8. /\ all \in Seq(Bytes) /\ Len(all) = m
      /\ \A i \in 1 .. m : all[i] = IF i <= at + n THEN front[i] ELSE tail[i - (at + n)]
  <2>1. /\ all \in Seq(Bytes) /\ Len(all) = Len(front) + Len(tail)
        /\ \A i \in 1 .. Len(front) + Len(tail) :
             all[i] = IF i <= Len(front) THEN front[i] ELSE tail[i - Len(front)]
    BY <1>6, <1>7, ConcatProperties
  <2>2. Len(front) + Len(tail) = m /\ Len(front) = at + n
    BY <1>1, <1>2, <1>6, <1>7
  <2> HIDE DEF all
  <2>3. QED
    BY <2>1, <2>2
<1> HIDE DEF all
<1>9. all \in Blocks
  BY <1>8, LenProperties DEF Blocks, m
<1>10. ASSUME NEW i \in 1 .. m
       PROVE  all[i] = IF i \in at + 1 .. at + n THEN bytes[i - at] ELSE block[i]
  <2>1. CASE i <= at
    <3>1. i \in 1 .. at /\ i <= at + n /\ ~(i \in at + 1 .. at + n) /\ i \in 1 .. at + n
      BY <1>1, <1>2, <2>1
    <3>2. QED
      BY <1>5, <1>7, <1>8, <2>1, <3>1
  <2>2. CASE i \in at + 1 .. at + n
    <3>1. ~(i <= at) /\ i <= at + n /\ i \in 1 .. at + n
      BY <1>1, <1>2, <2>2
    <3>2. QED
      BY <1>7, <1>8, <2>2, <3>1
  <2>3. CASE i > at + n
    <3>1. i - (at + n) \in 1 .. m - (at + n) /\ at + n + (i - (at + n)) = i /\ ~(i <= at + n)
          /\ ~(i \in at + 1 .. at + n)
      BY <1>1, <1>2, <2>3
    <3>2. QED
      BY <1>6, <1>8, <3>1
  <2>4. QED
    BY <1>1, <1>2, <2>1, <2>2, <2>3
<1>11. QED
  BY <1>4, <1>9, <1>10 DEF n, m


IsSum(upTo, f, n) ==
  /\ upTo = [i \in 0 .. n |-> upTo[i]]
  /\ \A i \in 0 .. n : upTo[i] = IF i = 0 THEN 0 ELSE upTo[i - 1] + f[i]

\* There is a sum of every length: the definition of Sum has a value,
LEMMA SumExists == \A f : \A n \in Nat : \E upTo : IsSum(upTo, f, n)
<1> TAKE f
<1> DEFINE S == {n \in Nat : \E upTo : IsSum(upTo, f, n)}
<1>1. 0 \in S
  <2>1. IsSum([i \in 0 .. 0 |-> 0], f, 0)
    BY DEF IsSum
  <2>2. QED
    BY <2>1
<1>2. ASSUME NEW n \in Nat, n \in S
      PROVE  n + 1 \in S
  <2>1. PICK upTo : IsSum(upTo, f, n)
    BY <1>2
  <2> DEFINE longer == [i \in 0 .. n + 1 |-> IF i = n + 1 THEN upTo[n] + f[n + 1] ELSE upTo[i]]
  <2>2. /\ \A i \in 0 .. n : longer[i] = upTo[i]
        /\ longer[n + 1] = upTo[n] + f[n + 1]
        /\ longer = [i \in 0 .. n + 1 |-> longer[i]]
    OBVIOUS
  <2> HIDE DEF longer
  <2>3. \A i \in 0 .. n + 1 : longer[i] = IF i = 0 THEN 0 ELSE longer[i - 1] + f[i]
    <3>1. TAKE i \in 0 .. n + 1
    <3>2. CASE i = n + 1
      <4>1. i # 0 /\ i - 1 = n /\ n \in 0 .. n
        BY <3>2
      <4>2. longer[i - 1] = upTo[n]
        BY <2>2, <4>1
      <4>3. QED
        BY <2>2, <3>2, <4>1, <4>2
    <3>3. CASE i # n + 1
      <4>1. i \in 0 .. n /\ (i # 0 => i - 1 \in 0 .. n)
        BY <3>3
      <4>2. QED
        BY <2>1, <2>2, <4>1 DEF IsSum
    <3>4. QED
      BY <3>2, <3>3
  <2>4. IsSum(longer, f, n + 1)
    BY <2>2, <2>3 DEF IsSum
  <2>5. QED
    BY <2>4
<1> HIDE DEF S
<1>3. Nat \subseteq S
  BY <1>1, <1>2, SetInduction
<1>4. QED
  BY <1>3 DEF S

\* which is the last of the sums up to each byte.
LEMMA SumIs ==
  ASSUME NEW f, Len(f) \in Nat
  PROVE  \E upTo : IsSum(upTo, f, Len(f)) /\ Sum(f) = upTo[Len(f)]
<1> DEFINE n == Len(f)
           Partial(u) == [i \in 0 .. n |-> IF i = 0 THEN 0 ELSE u[i - 1] + f[i]]
           v == CHOOSE u : u = Partial(u)
<1>1. PICK upTo : IsSum(upTo, f, n)
  BY SumExists
<1>2. upTo = Partial(upTo)
  BY <1>1 DEF IsSum
<1>3. Sum(f) = v[n]
  BY DEF Sum
<1>4. v = Partial(v)
  <2>1. v = CHOOSE u : u = Partial(u)
    OBVIOUS
  <2> HIDE DEF v
  <2>2. QED
    BY <1>2, <2>1
<1> HIDE DEF v
<1>5. IsSum(v, f, n)
  BY <1>4 DEF IsSum
<1>6. QED
  BY <1>3, <1>5

\* The sum of a sequence and one more byte.
LEMMA SumOfOneMore ==
  ASSUME NEW n \in Nat, NEW f \in [1 .. n -> Nat], NEW g \in [1 .. n + 1 -> Nat],
         \A i \in 1 .. n : f[i] = g[i]
  PROVE  Sum(f) \in Nat /\ Sum(g) = Sum(f) + g[n + 1]
<1>1. Len(f) = n /\ Len(g) = n + 1
  OBVIOUS
<1>2. PICK u : IsSum(u, f, n) /\ Sum(f) = u[n]
  <2>1. Len(f) \in Nat
    BY <1>1
  <2>2. \E w : IsSum(w, f, Len(f)) /\ Sum(f) = w[Len(f)]
    BY <2>1, SumIs
  <2>3. QED
    BY <1>1, <2>2
<1>3. PICK v : IsSum(v, g, n + 1) /\ Sum(g) = v[n + 1]
  <2>1. Len(g) \in Nat
    BY <1>1
  <2>2. \E w : IsSum(w, g, Len(g)) /\ Sum(g) = w[Len(g)]
    BY <2>1, SumIs
  <2>3. QED
    BY <1>1, <2>2
<1> DEFINE S == {i \in Nat : i <= n => u[i] \in Nat /\ v[i] = u[i]}
<1>10. /\ \A i \in 0 .. n : u[i] = IF i = 0 THEN 0 ELSE u[i - 1] + f[i]
       /\ \A i \in 0 .. n + 1 : v[i] = IF i = 0 THEN 0 ELSE v[i - 1] + g[i]
  BY <1>2, <1>3 DEF IsSum
<1>4. 0 \in S
  <2>1. 0 \in 0 .. n /\ 0 \in 0 .. n + 1
    OBVIOUS
  <2>2. u[0] = 0 /\ v[0] = 0
    BY <1>10, <2>1
  <2>3. QED
    BY <2>2
<1>5. ASSUME NEW i \in Nat, i \in S
      PROVE  i + 1 \in S
  <2>1. SUFFICES ASSUME i + 1 <= n
                 PROVE  u[i + 1] \in Nat /\ v[i + 1] = u[i + 1]
    OBVIOUS
  <2>2. i + 1 \in 0 .. n /\ i + 1 \in 0 .. n + 1 /\ i + 1 # 0 /\ (i + 1) - 1 = i /\ i + 1 \in 1 .. n
    BY <2>1
  <2>3. u[i + 1] = u[i] + f[i + 1] /\ v[i + 1] = v[i] + g[i + 1]
    BY <1>10, <2>2
  <2>4. u[i] \in Nat /\ v[i] = u[i]
    BY <1>5, <2>1
  <2>5. QED
    BY <2>2, <2>3, <2>4
<1> HIDE DEF S
<1>6. Nat \subseteq S
  BY <1>4, <1>5, SetInduction
<1>7. u[n] \in Nat /\ v[n] = u[n]
  BY <1>6 DEF S
<1>8. v[n + 1] = v[n] + g[n + 1]
  <2>1. n + 1 \in 0 .. n + 1 /\ n + 1 # 0 /\ (n + 1) - 1 = n
    OBVIOUS
  <2>2. QED
    BY <1>10, <2>1
<1>9. QED
  BY <1>2, <1>3, <1>7, <1>8


\* A byte and the rest are the number.
LEMMA LoIs ==
  ASSUME NEW x \in Nat
  PROVE  Lo(x) \in Bytes /\ x \div 256 \in Nat /\ x = 256 * (x \div 256) + Lo(x)
BY DEF Lo, Bytes

\* Two nibbles are a byte,
LEMMA NibblesAre ==
  ASSUME NEW a \in Nat, NEW b \in Nat
  PROVE  Nibbles(a, b) \in Bytes
<1>1. a \div 256 \in Nat /\ b \div 256 \in Nat
  OBVIOUS
<1>2. Bits(a, 256, 16) \in 0 .. 15 /\ Bits(b, 256, 16) \in 0 .. 15
  BY <1>1 DEF Bits
<1>3. QED
  BY <1>2 DEF Nibbles, Bytes

\* and so are four pairs of bits.
LEMMA LowBitsAre ==
  ASSUME NEW a \in Nat, NEW b \in Nat, NEW c \in Nat, NEW d \in Nat
  PROVE  LowBits(a, b, c, d) \in Bytes
<1>1. a % 4 \in 0 .. 3 /\ b % 4 \in 0 .. 3 /\ c % 4 \in 0 .. 3 /\ d % 4 \in 0 .. 3
  OBVIOUS
<1>2. QED
  BY <1>1 DEF LowBits, Bytes

TwelveBits == 0 .. 4095
ComeBack(a, b, nibbles) ==
  /\ Lo(a) + 256 * Bits(nibbles, 16, 16) = a
  /\ Lo(b) + 256 * Bits(nibbles, 1, 16) = b

\* A reader takes two values of 12 bits out of their low bytes and a byte of
\* nibbles,
LEMMA NibblesComeBack ==
  ASSUME NEW a \in TwelveBits, NEW b \in TwelveBits
  PROVE  ComeBack(a, b, Nibbles(a, b))
<1> DEFINE p == a \div 256
           q == b \div 256
<1>1. p \in 0 .. 15 /\ a = 256 * p + Lo(a) /\ q \in 0 .. 15 /\ b = 256 * q + Lo(b)
  BY DEF Lo, TwelveBits
<1>2. Nibbles(a, b) = 16 * (p % 16) + (q % 16)
  BY DEF Nibbles, Bits
<1> HIDE DEF p, q
<1>3. p % 16 = p /\ q % 16 = q
  BY <1>1
<1>4. Nibbles(a, b) = 16 * p + q
  BY <1>2, <1>3
<1>5. (16 * p + q) \div 16 = p /\ (16 * p + q) \div 1 = 16 * p + q /\ (16 * p + q) % 16 = q
  BY <1>1
<1>6. Bits(Nibbles(a, b), 16, 16) = p /\ Bits(Nibbles(a, b), 1, 16) = q
  BY <1>3, <1>4, <1>5 DEF Bits
<1>7. Lo(a) \in Nat /\ Lo(b) \in Nat
  BY DEF Lo, TwelveBits
<1>8. QED
  BY <1>1, <1>6, <1>7 DEF ComeBack

\* Four values of 10, 10, 6 and 6 bits.
TenBits == 0 .. 1023
SixBits == 0 .. 63
AllComeBack(a, b, c, d, low, high) ==
  /\ Lo(a) + 256 * Bits(high, 64, 4) = a
  /\ Lo(b) + 256 * Bits(high, 16, 4) = b
  /\ Bits(low, 16, 16) + 16 * Bits(high, 4, 4) = c
  /\ Bits(low, 1, 16) + 16 * Bits(high, 1, 4) = d

\* and two values of 10 and two of 6 bits out of the four bytes they share.
LEMMA FourFields ==
  ASSUME NEW a \in TenBits, NEW b \in TenBits, NEW c \in SixBits, NEW d \in SixBits
  PROVE  AllComeBack(a, b, c, d, 16 * (c % 16) + (d % 16),
                     LowBits(a \div 256, b \div 256, c \div 16, d \div 16))
<1> DEFINE high == LowBits(a \div 256, b \div 256, c \div 16, d \div 16)
           low == 16 * (c % 16) + (d % 16)
           p == a \div 256
           q == b \div 256
           r == c \div 16
           s == d \div 16
           t == c % 16
           u == d % 16
<1>1. /\ p \in 0 .. 3 /\ a = 256 * p + Lo(a) /\ Lo(a) \in Nat
      /\ q \in 0 .. 3 /\ b = 256 * q + Lo(b) /\ Lo(b) \in Nat
      /\ r \in 0 .. 3 /\ c = 16 * r + t /\ t \in 0 .. 15
      /\ s \in 0 .. 3 /\ d = 16 * s + u /\ u \in 0 .. 15
  BY DEF Lo, TenBits, SixBits
<1>2. high = 64 * (p % 4) + 16 * (q % 4) + 4 * (r % 4) + (s % 4)
  BY DEF LowBits
<1>3. low = 16 * t + u
  OBVIOUS
<1> HIDE DEF high, low, p, q, r, s, t, u
<1>4. p % 4 = p /\ q % 4 = q /\ r % 4 = r /\ s % 4 = s
  <2>1. p \in 0 .. 3 /\ q \in 0 .. 3 /\ r \in 0 .. 3 /\ s \in 0 .. 3
    BY <1>1
  <2>2. p % 4 = p /\ q % 4 = q
    BY <2>1
  <2>3. r % 4 = r /\ s % 4 = s
    BY <2>1
  <2>4. QED
    BY <2>2, <2>3
<1>5. high = 64 * p + 16 * q + 4 * r + s
  BY <1>2, <1>4
<1>6. high \div 64 = p /\ high \div 16 = 4 * p + q /\ high \div 4 = 16 * p + 4 * q + r /\ high \div 1 = high
  BY <1>1, <1>5
<1>7. (4 * p + q) % 4 = q /\ (16 * p + 4 * q + r) % 4 = r /\ (64 * p + 16 * q + 4 * r + s) % 4 = s
  BY <1>1
<1>8. Bits(high, 64, 4) = p /\ Bits(high, 16, 4) = q /\ Bits(high, 4, 4) = r /\ Bits(high, 1, 4) = s
  BY <1>4, <1>5, <1>6, <1>7 DEF Bits
<1>9. low \div 16 = t /\ low \div 1 = low /\ t % 16 = t /\ (16 * t + u) % 16 = u
  BY <1>1, <1>3
<1>10. Bits(low, 16, 16) = t /\ Bits(low, 1, 16) = u
  BY <1>3, <1>9 DEF Bits
<1>11. /\ Lo(a) + 256 * Bits(high, 64, 4) = a
       /\ Lo(b) + 256 * Bits(high, 16, 4) = b
       /\ Bits(low, 16, 16) + 16 * Bits(high, 4, 4) = c
       /\ Bits(low, 1, 16) + 16 * Bits(high, 1, 4) = d
  <2>1. Lo(a) + 256 * p = a /\ Lo(b) + 256 * q = b
    BY <1>1
  <2>2. t + 16 * r = c /\ u + 16 * s = d
    BY <1>1
  <2>3. QED
    BY <1>8, <1>10, <2>1, <2>2
<1>12. QED
  BY <1>11 DEF AllComeBack, high, low

\* The timings of a line: the pulse lies within the blanking, and 12 bits of
\* size leave 10 bits for them.
LEMMA HorizontalIs ==
  \A x \in Nat :
    /\ Horizontal(x).front \in Nat /\ Horizontal(x).sync \in Nat /\ Horizontal(x).blank \in 0 .. x
    /\ Horizontal(x).front + Horizontal(x).sync <= Horizontal(x).blank
    /\ x < 4096 => Horizontal(x).front < 1024 /\ Horizontal(x).sync < 1024
BY DEF Horizontal

\* The same of a column, whose timings have 6 bits.
LEMMA VerticalIs ==
  \A x \in Nat :
    /\ Vertical(x).front \in Nat /\ Vertical(x).sync \in Nat /\ Vertical(x).blank \in 0 .. x
    /\ Vertical(x).front + Vertical(x).sync <= Vertical(x).blank
    /\ x < 4096 => Vertical(x).front < 64 /\ Vertical(x).sync < 64
BY DEF Vertical

\* A size in millimetres is a number.
LEMMA MillimetresAre == \A x \in Nat : Millimetres(x) \in Nat
BY DEF Millimetres

\* The clock is that of all pixels shown, in its step.
LEMMA ClockIs ==
  ASSUME NEW w \in Nat, NEW h \in Nat
  PROVE  /\ PixelClock(w, h) \in Nat
         /\ PixelClock(w, h) =
              (60 * ((w + Horizontal(w).blank) * (h + Vertical(h).blank))) \div 10000
<1> DEFINE a == w + Horizontal(w).blank
           b == h + Vertical(h).blank
<1>1. a \in Nat /\ b \in Nat
  BY HorizontalIs, VerticalIs
<1>2. PixelClock(w, h) = (60 * a * b) \div 10000
  BY DEF PixelClock, RefreshRateHz
<1> HIDE DEF a, b
<1>3. 60 * a * b = 60 * (a * b) /\ 60 * a * b \in Nat
  BY <1>1
<1>4. QED
  BY <1>2, <1>3 DEF a, b

\* A detailed timing is 18 bytes, whatever the size: what a field cannot hold
\* is cut off.
LEMMA DetailedTimingIs ==
  ASSUME NEW w \in Nat, NEW h \in Nat
  PROVE  DetailedTiming(w, h) \in Seq(Bytes) /\ Len(DetailedTiming(w, h)) = 18
<1> DEFINE clock == PixelClock(w, h)
           hf == Horizontal(w).front  hs == Horizontal(w).sync  hb == Horizontal(w).blank
           vf == Vertical(h).front  vs == Vertical(h).sync  vb == Vertical(h).blank
           mw == Millimetres(w)  mh == Millimetres(h)
           low == 16 * (vf % 16) + (vs % 16)
           high == LowBits(hf \div 256, hs \div 256, vf \div 16, vs \div 16)
<1>1. /\ clock \in Nat /\ hf \in Nat /\ hs \in Nat /\ hb \in Nat
      /\ vf \in Nat /\ vs \in Nat /\ vb \in Nat /\ mw \in Nat /\ mh \in Nat
  <2>1. clock \in Nat
    BY ClockIs
  <2>2. hf \in Nat /\ hs \in Nat /\ hb \in 0 .. w /\ mw \in Nat
    BY HorizontalIs, MillimetresAre
  <2>3. vf \in Nat /\ vs \in Nat /\ vb \in 0 .. h /\ mh \in Nat
    BY VerticalIs, MillimetresAre
  <2> HIDE DEF clock, hf, hs, hb, vf, vs, vb, mw, mh
  <2>4. QED
    BY <2>1, <2>2, <2>3
<1>2. DetailedTiming(w, h) =
        <<Lo(clock), Lo(clock \div 256), Lo(w), Lo(hb), Nibbles(w, hb), Lo(h), Lo(vb), Nibbles(h, vb),
          Lo(hf), Lo(hs), low, high, Lo(mw), Lo(mh), Nibbles(mw, mh), 0, 0, 24>>
  BY DEF DetailedTiming
<1>3. clock \div 256 \in Nat /\ hf \div 256 \in Nat /\ hs \div 256 \in Nat
      /\ vf \div 16 \in Nat /\ vs \div 16 \in Nat
  BY <1>1
<1>4. low \in Bytes
  <2>1. vf % 16 \in 0 .. 15 /\ vs % 16 \in 0 .. 15
    BY <1>1
  <2>2. QED
    BY <2>1 DEF Bytes
<1>5. high \in Bytes
  BY <1>3, LowBitsAre
<1> HIDE DEF clock, hf, hs, hb, vf, vs, vb, mw, mh, low, high
<1>6. /\ Lo(clock) \in Bytes /\ Lo(clock \div 256) \in Bytes /\ Lo(w) \in Bytes /\ Lo(hb) \in Bytes
      /\ Lo(h) \in Bytes /\ Lo(vb) \in Bytes /\ Lo(hf) \in Bytes /\ Lo(hs) \in Bytes
      /\ Lo(mw) \in Bytes /\ Lo(mh) \in Bytes
  BY <1>1, <1>3, LoIs
<1>7. Nibbles(w, hb) \in Bytes /\ Nibbles(h, vb) \in Bytes /\ Nibbles(mw, mh) \in Bytes
  BY <1>1, NibblesAre
<1>8. 0 \in Bytes /\ 24 \in Bytes
  BY DEF Bytes
<1>9. QED
  BY <1>2, <1>4, <1>5, <1>6, <1>7, <1>8

\* What a reader takes out of a detailed timing is the mode, for every size the
\* fields can hold.
LEMMA TimingIsMode ==
  ASSUME NEW w \in Nat, NEW h \in Nat, w < 4096, h < 4096, PixelClock(w, h) < 65536
  PROVE  IsMode(Decoded(DetailedTiming(w, h)), w, h, RefreshRateHz)
<1> DEFINE clock == PixelClock(w, h)
           hf == Horizontal(w).front  hs == Horizontal(w).sync  hb == Horizontal(w).blank
           vf == Vertical(h).front  vs == Vertical(h).sync  vb == Vertical(h).blank
           mw == Millimetres(w)  mh == Millimetres(h)
           low == 16 * (vf % 16) + (vs % 16)
           high == LowBits(hf \div 256, hs \div 256, vf \div 16, vs \div 16)
           b == DetailedTiming(w, h)
           t == Decoded(b)
<1>1. /\ clock \in Nat /\ hf \in TenBits /\ hs \in TenBits /\ hb \in TwelveBits
      /\ vf \in SixBits /\ vs \in SixBits /\ vb \in TwelveBits
      /\ hf + hs <= hb /\ vf + vs <= vb /\ w \in TwelveBits /\ h \in TwelveBits
  <2>1. clock \in Nat
    BY ClockIs
  <2>2. /\ hf \in Nat /\ hs \in Nat /\ hb \in 0 .. w /\ hf + hs <= hb
        /\ hf < 1024 /\ hs < 1024
    BY HorizontalIs
  <2>3. /\ vf \in Nat /\ vs \in Nat /\ vb \in 0 .. h /\ vf + vs <= vb
        /\ vf < 64 /\ vs < 64
    BY VerticalIs
  <2> HIDE DEF clock, hf, hs, hb, vf, vs, vb, mw, mh
  <2>4. hf \in TenBits /\ hs \in TenBits /\ vf \in SixBits /\ vs \in SixBits
    BY <2>2, <2>3 DEF TenBits, SixBits
  <2>5. w \in TwelveBits /\ h \in TwelveBits
    BY DEF TwelveBits
  <2>6. hb \in TwelveBits /\ vb \in TwelveBits
    BY <2>2, <2>3 DEF TwelveBits
  <2>7. QED
    BY <2>1, <2>2, <2>3, <2>4, <2>5, <2>6
<1>2. b = <<Lo(clock), Lo(clock \div 256), Lo(w), Lo(hb), Nibbles(w, hb), Lo(h), Lo(vb), Nibbles(h, vb),
            Lo(hf), Lo(hs), low, high, Lo(mw), Lo(mh), Nibbles(mw, mh), 0, 0, 24>>
  BY DEF DetailedTiming
<1>3. clock = (60 * ((w + hb) * (h + vb))) \div 10000
  BY ClockIs
<1>4. AllComeBack(hf, hs, vf, vs, low, high)
  <2>1. hf \in TenBits /\ hs \in TenBits /\ vf \in SixBits /\ vs \in SixBits
    BY <1>1
  <2> HIDE DEF hf, hs, vf, vs
  <2>2. QED
    BY <2>1, FourFields
<1> HIDE DEF clock, hf, hs, hb, vf, vs, vb, mw, mh, low, high, b
<1>5. /\ b[1] = Lo(clock) /\ b[2] = Lo(clock \div 256) /\ b[3] = Lo(w) /\ b[4] = Lo(hb)
      /\ b[5] = Nibbles(w, hb) /\ b[6] = Lo(h) /\ b[7] = Lo(vb) /\ b[8] = Nibbles(h, vb)
      /\ b[9] = Lo(hf) /\ b[10] = Lo(hs) /\ b[11] = low /\ b[12] = high
  BY <1>2
<1>6. t.clock = clock
  <2>1. clock < 65536
    BY DEF clock
  <2>2. clock \div 256 \in 0 .. 255 /\ clock = 256 * (clock \div 256) + Lo(clock) /\ Lo(clock) \in Nat
    BY <1>1, <2>1 DEF Lo
  <2>3. Lo(clock \div 256) = clock \div 256
    BY <2>2 DEF Lo
  <2>4. t.clock = b[1] + 256 * b[2]
    BY DEF Decoded
  <2>5. QED
    BY <1>5, <2>2, <2>3, <2>4
<1>7. t.hactive = w /\ t.hblank = hb
  <2>1. t.hactive = b[3] + 256 * Bits(b[5], 16, 16) /\ t.hblank = b[4] + 256 * Bits(b[5], 1, 16)
    BY DEF Decoded
  <2> HIDE DEF t
  <2>2. w \in TwelveBits /\ hb \in TwelveBits
    BY <1>1
  <2>3. ComeBack(w, hb, Nibbles(w, hb))
    BY <2>2, NibblesComeBack
  <2>4. QED
    BY <1>5, <2>1, <2>3 DEF ComeBack
<1>8. t.vactive = h /\ t.vblank = vb
  <2>1. t.vactive = b[6] + 256 * Bits(b[8], 16, 16) /\ t.vblank = b[7] + 256 * Bits(b[8], 1, 16)
    BY DEF Decoded
  <2> HIDE DEF t
  <2>2. h \in TwelveBits /\ vb \in TwelveBits
    BY <1>1
  <2>3. ComeBack(h, vb, Nibbles(h, vb))
    BY <2>2, NibblesComeBack
  <2>4. QED
    BY <1>5, <2>1, <2>3 DEF ComeBack
<1>9. t.hfront = hf /\ t.hsync = hs /\ t.vfront = vf /\ t.vsync = vs
  <2>1. /\ t.hfront = b[9] + 256 * Bits(b[12], 64, 4) /\ t.hsync = b[10] + 256 * Bits(b[12], 16, 4)
        /\ t.vfront = Bits(b[11], 16, 16) + 16 * Bits(b[12], 4, 4)
        /\ t.vsync = Bits(b[11], 1, 16) + 16 * Bits(b[12], 1, 4)
    BY DEF Decoded
  <2>2. QED
    BY <1>4, <1>5, <2>1 DEF AllComeBack
<1> HIDE DEF t
<1>10. /\ t.hactive = w /\ t.vactive = h
       /\ t.hfront + t.hsync <= t.hblank /\ t.vfront + t.vsync <= t.vblank
       /\ t.clock = (60 * ((t.hactive + t.hblank) * (t.vactive + t.vblank))) \div 10000
  BY <1>1, <1>3, <1>6, <1>7, <1>8, <1>9 DEF TwelveBits
<1>11. IsMode(t, w, h, RefreshRateHz)
  BY <1>10 DEF IsMode, RefreshRateHz
<1>12. QED
  BY <1>11 DEF t, b

\* b is a block that differs from a only at the places from..to.
Changes(a, b, from, to) ==
  /\ b \in Blocks
  /\ \A i \in 1 .. BlockSize : i < from \/ i > to => b[i] = a[i]

Holds(b, at, bytes) == \A i \in 1 .. Len(bytes) : b[at + i] = bytes[i]

\* What Put() changes.
LEMMA ChangesIs ==
  ASSUME NEW block \in Blocks, NEW at \in Nat, NEW bytes \in Seq(Bytes),
         NEW from \in Nat, NEW to \in Nat,
         from = at + 1, to = at + Len(bytes), to <= BlockSize
  PROVE  /\ Changes(block, Put(block, at, bytes), from, to)
         /\ Holds(Put(block, at, bytes), at, bytes)
<1> DEFINE b == Put(block, at, bytes)
           n == Len(bytes)
<1>1. at + Len(bytes) <= BlockSize /\ n \in Nat /\ BlockSize \in Nat
  BY LenProperties DEF BlockSize
<1>2. /\ b \in Blocks
      /\ \A i \in 1 .. BlockSize :
           b[i] = IF i \in at + 1 .. at + n THEN bytes[i - at] ELSE block[i]
  <2>1. /\ Put(block, at, bytes) \in Blocks
        /\ \A i \in 1 .. BlockSize :
             Put(block, at, bytes)[i] = IF i \in at + 1 .. at + Len(bytes)
                                        THEN bytes[i - at] ELSE block[i]
    <3> HIDE DEF b, n
    <3>1. at + Len(bytes) <= BlockSize
      BY <1>1
    <3>2. QED
      BY <3>1, PutBytes
  <2>2. QED
    BY <2>1
<1> HIDE DEF b, n
<1>3. \A i \in 1 .. BlockSize : i < from \/ i > to => b[i] = block[i]
  BY <1>1, <1>2 DEF n
<1>4. Changes(block, b, from, to)
  BY <1>2, <1>3 DEF Changes
<1>5. ASSUME NEW i \in 1 .. n
      PROVE  b[at + i] = bytes[i]
  <2>1. at + i \in 1 .. BlockSize /\ at + i \in at + 1 .. at + n /\ (at + i) - at = i
    BY <1>1 DEF n
  <2>2. QED
    BY <1>2, <2>1
<1>6. QED
  BY <1>4, <1>5 DEF b, n, Holds

\* memset() clears all of a block,
LEMMA ClearedIs ==
  ASSUME NEW page \in Blocks
  PROVE  Cleared(page) \in Blocks /\ \A i \in 1 .. BlockSize : Cleared(page)[i] = 0
<1> DEFINE zeros == [i \in 1 .. BlockSize |-> 0]
<1>1. 0 \in Bytes /\ BlockSize \in Nat
  BY DEF Bytes, BlockSize
<1>2. zeros \in Seq(Bytes) /\ Len(zeros) = BlockSize /\ 0 + BlockSize <= BlockSize
  BY <1>1
<1>3. Cleared(page) = Put(page, 0, zeros)
  BY DEF Cleared
<1> HIDE DEF zeros
<1>4. /\ Put(page, 0, zeros) \in Blocks
      /\ \A i \in 1 .. BlockSize : Put(page, 0, zeros)[0 + i] = zeros[i]
  <2>1. 1 = 0 + 1 /\ BlockSize = 0 + Len(zeros) /\ 1 \in Nat /\ BlockSize <= BlockSize
    BY <1>1, <1>2
  <2>2. Changes(page, Put(page, 0, zeros), 1, BlockSize) /\ Holds(Put(page, 0, zeros), 0, zeros)
    BY <1>1, <1>2, <2>1, ChangesIs
  <2>3. QED
    BY <1>2, <2>2 DEF Changes, Holds
<1>5. \A i \in 1 .. BlockSize : Put(page, 0, zeros)[i] = 0
  BY <1>1, <1>4 DEF zeros
<1>6. QED
  BY <1>3, <1>4, <1>5

\* The first eight bytes of a block.
Header == <<0, 255, 255, 255, 255, 255, 255, 0>>

\* putEssentials() starts it with the header,
LEMMA EssentialsAre ==
  ASSUME NEW block \in Blocks
  PROVE  /\ Changes(block, putEssentials(block), 1, 25)
         /\ \A i \in 1 .. 8 : putEssentials(block)[i] = Header[i]
<1> DEFINE e == <<0, 255, 255, 255, 255, 255, 255, 0, 96, 174, 77, 86,
                  5, 5, 32, 32, 1, 30, 1, 4, 165, 0, 0, 120, 6>>
<1>1. e \in Seq(Bytes) /\ Len(e) = 25
  BY SMT DEF Bytes
<1>2. \A i \in 1 .. 8 : e[i] = Header[i]
  BY SMT DEF Header
<1>3. putEssentials(block) = Put(block, 0, e)
  BY DEF putEssentials
<1> HIDE DEF e
<1>4. /\ Changes(block, Put(block, 0, e), 1, 25)
      /\ Holds(Put(block, 0, e), 0, e)
  <2> DEFINE at == 0  from == 1  to == 25
  <2>1. from = at + 1 /\ to = at + Len(e) /\ to <= BlockSize /\ at \in Nat /\ from \in Nat /\ to \in Nat
    BY <1>1, SMT DEF BlockSize
  <2> HIDE DEF at, from, to
  <2>2. Changes(block, Put(block, at, e), from, to) /\ Holds(Put(block, at, e), at, e)
    BY <1>1, <2>1, ChangesIs
  <2>3. QED
    BY <2>2 DEF at, from, to
<1>5. \A i \in 1 .. 8 : Put(block, 0, e)[i] = e[i]
  <2>1. \A i \in 1 .. 8 : i \in 1 .. Len(e) /\ 0 + i = i
    BY <1>1, SMT
  <2>2. QED
    BY <1>4, <2>1 DEF Holds
<1>6. QED
  BY <1>2, <1>3, <1>4, <1>5, SMT

\* putColorSpace() keeps to its ten bytes,
LEMMA ColorsAre ==
  ASSUME NEW block \in Blocks
  PROVE  Changes(block, putColorSpace(block), 26, 35)
<1> DEFINE c == [i \in 1..8 |-> To10Bit(Colors[i])]
           low == <<LowBits(c[1], c[2], c[3], c[4]), LowBits(c[5], c[6], c[7], c[8])>>
           high == [i \in 1..8 |-> c[i] \div 4]
           bytes == low \o high
<1> DEFINE Values == 0 .. 6400
<1>1. \A i \in 1 .. 8 : Colors[i] \in Values
  <2>1. 6400 \in Values /\ 3300 \in Values /\ 3000 \in Values /\ 6000 \in Values
    BY SMT
  <2>2. 1500 \in Values /\ 600 \in Values /\ 3127 \in Values /\ 3290 \in Values
    BY SMT
  <2> HIDE DEF Values
  <2>3. QED
    BY <2>1, <2>2, SMT DEF Colors
<1>2. \A x \in Values : To10Bit(x) \in TenBits
  BY SMT DEF To10Bit, TenBits
<1> HIDE DEF Values
<1>3. \A i \in 1 .. 8 : c[i] \in TenBits
  <2>1. \A i \in 1 .. 8 : c[i] = To10Bit(Colors[i])
    OBVIOUS
  <2> HIDE DEF c
  <2>2. QED
    BY <1>1, <1>2, <2>1
<1>4. putColorSpace(block) = Put(block, 25, bytes)
  BY DEF putColorSpace
<1> HIDE DEF c
<1>5. LowBits(c[1], c[2], c[3], c[4]) \in Bytes /\ LowBits(c[5], c[6], c[7], c[8]) \in Bytes
  <2>1. \A x \in TenBits : x \in Nat
    BY DEF TenBits
  <2>2. /\ c[1] \in Nat /\ c[2] \in Nat /\ c[3] \in Nat /\ c[4] \in Nat
        /\ c[5] \in Nat /\ c[6] \in Nat /\ c[7] \in Nat /\ c[8] \in Nat
    BY <1>3, <2>1
  <2>3. QED
    BY <2>2, LowBitsAre
<1>6. low \in Seq(Bytes) /\ Len(low) = 2
  BY <1>5
<1>7. \A i \in 1 .. 8 : c[i] \div 4 \in Bytes
  <2>1. \A x \in TenBits : x \div 4 \in Bytes
    BY DEF TenBits, Bytes
  <2>2. QED
    BY <1>3, <2>1
<1>8. high \in Seq(Bytes) /\ Len(high) = 8
  BY <1>7, SMT
<1> HIDE DEF low, high
<1>9. bytes \in Seq(Bytes) /\ Len(bytes) = 10
  <2>1. bytes \in Seq(Bytes) /\ Len(bytes) = Len(low) + Len(high)
    BY <1>6, <1>8, ConcatProperties
  <2> HIDE DEF bytes
  <2>2. QED
    BY <1>6, <1>8, <2>1, SMT
<1> HIDE DEF bytes
<1>10. /\ Changes(block, Put(block, 25, bytes), 26, 35)
      /\ Holds(Put(block, 25, bytes), 25, bytes)
  <2> DEFINE at == 25  from == 26  to == 35
  <2>1. from = at + 1 /\ to = at + Len(bytes) /\ to <= BlockSize /\ at \in Nat /\ from \in Nat /\ to \in Nat
    BY <1>9, SMT DEF BlockSize
  <2> HIDE DEF at, from, to
  <2>2. Changes(block, Put(block, at, bytes), from, to) /\ Holds(Put(block, at, bytes), at, bytes)
    BY <1>9, <2>1, ChangesIs
  <2>3. QED
    BY <2>2 DEF at, from, to
<1>11. QED
  BY <1>4, <1>10, SMT

\* putTimings() to its nineteen,
LEMMA TimingsAre ==
  ASSUME NEW block \in Blocks
  PROVE  Changes(block, putTimings(block), 36, 54)
<1> DEFINE bytes == [i \in 1..19 |-> IF i <= 3 THEN 0 ELSE 1]
<1>1. 0 \in Bytes /\ 1 \in Bytes
  BY DEF Bytes
<1>2. bytes \in Seq(Bytes) /\ Len(bytes) = 19
  BY <1>1, SMT
<1>3. putTimings(block) = Put(block, 35, bytes)
  BY DEF putTimings
<1> HIDE DEF bytes
<1>4. /\ Changes(block, Put(block, 35, bytes), 36, 54)
      /\ Holds(Put(block, 35, bytes), 35, bytes)
  <2> DEFINE at == 35  from == 36  to == 54
  <2>1. from = at + 1 /\ to = at + Len(bytes) /\ to <= BlockSize /\ at \in Nat /\ from \in Nat /\ to \in Nat
    BY <1>2, SMT DEF BlockSize
  <2> HIDE DEF at, from, to
  <2>2. Changes(block, Put(block, at, bytes), from, to) /\ Holds(Put(block, at, bytes), at, bytes)
    BY <1>2, <2>1, ChangesIs
  <2>3. QED
    BY <2>2 DEF at, from, to
<1>5. QED
  BY <1>3, <1>4, SMT

\* putDetailedTiming() writes the first descriptor,
LEMMA DetailedTimingPut ==
  ASSUME NEW block \in Blocks, NEW w \in Nat, NEW h \in Nat
  PROVE  /\ Changes(block, putDetailedTiming(block, 0, w, h), 55, 72)
         /\ \A i \in 1 .. 18 : putDetailedTiming(block, 0, w, h)[54 + i] = DetailedTiming(w, h)[i]
<1> DEFINE bytes == DetailedTiming(w, h)
<1>1. bytes \in Seq(Bytes) /\ Len(bytes) = 18
  BY DetailedTimingIs
<1>2. putDetailedTiming(block, 0, w, h) = Put(block, 54, bytes)
  <2>1. 54 + 18 * 0 = 54
    BY SMT
  <2>2. QED
    BY <2>1 DEF putDetailedTiming
<1> HIDE DEF bytes
<1>3. /\ Changes(block, Put(block, 54, bytes), 55, 72)
      /\ Holds(Put(block, 54, bytes), 54, bytes)
  <2> DEFINE at == 54  from == 55  to == 72
  <2>1. from = at + 1 /\ to = at + Len(bytes) /\ to <= BlockSize /\ at \in Nat /\ from \in Nat /\ to \in Nat
    BY <1>1, SMT DEF BlockSize
  <2> HIDE DEF at, from, to
  <2>2. Changes(block, Put(block, at, bytes), from, to) /\ Holds(Put(block, at, bytes), at, bytes)
    BY <1>1, <2>1, ChangesIs
  <2>3. QED
    BY <2>2 DEF at, from, to
<1>4. \A i \in 1 .. 18 : Put(block, 54, bytes)[54 + i] = bytes[i]
  BY <1>1, <1>3 DEF Holds
<1>5. QED
  BY <1>2, <1>3, <1>4 DEF bytes

\* and putDisplayDescritor() the type of the second and its name.
LEMMA DisplayDescriptorIs ==
  ASSUME NEW block \in Blocks
  PROVE  /\ putDisplayDescritor(block, 1) \in Blocks
         /\ \A i \in 1 .. BlockSize :
              i < 76 \/ i = 77 \/ i > 90 => putDisplayDescritor(block, 1)[i] = block[i]
         /\ putDisplayDescritor(block, 1)[76] = 252
<1> DEFINE type == <<252>>
           name == [i \in 1..13 |-> IF i <= 10 THEN DisplayName[i] ELSE IF i = 11 THEN 10 ELSE 32]
           a == Put(block, 75, type)
           b == Put(a, 77, name)
<1>1. type \in Seq(Bytes) /\ Len(type) = 1 /\ type[1] = 252
  BY SMT DEF Bytes
<1>2. name \in Seq(Bytes) /\ Len(name) = 13
  <2>1. \A i \in 1 .. 10 : DisplayName[i] \in Bytes
    BY SMT DEF DisplayName, Bytes
  <2>2. 10 \in Bytes /\ 32 \in Bytes
    BY SMT DEF Bytes
  <2>3. \A i \in 1 .. 13 : name[i] \in Bytes
    BY <2>1, <2>2, SMT
  <2>4. QED
    BY <2>3, SMT
<1>3. putDisplayDescritor(block, 1) = b
  <2>1. 54 + 18 * 1 + 3 = 75 /\ 54 + 18 * 1 + 5 = 77
    BY SMT
  <2>2. QED
    BY <2>1 DEF putDisplayDescritor
<1> HIDE DEF type, name
<1>4. Changes(block, a, 76, 76) /\ Holds(a, 75, type)
  <2> DEFINE at == 75  to == 76
  <2>1. to = at + 1 /\ to = at + Len(type) /\ to <= BlockSize /\ at \in Nat /\ to \in Nat
    BY <1>1, SMT DEF BlockSize
  <2> HIDE DEF at, to
  <2>2. Changes(block, Put(block, at, type), to, to) /\ Holds(Put(block, at, type), at, type)
    BY <1>1, <2>1, ChangesIs
  <2>3. QED
    BY <2>2 DEF a, at, to
<1> HIDE DEF a
<1>5. a \in Blocks
  BY <1>4 DEF Changes
<1>6. Changes(a, b, 78, 90)
  <2> DEFINE at == 77  from == 78  to == 90
  <2>1. from = at + 1 /\ to = at + Len(name) /\ to <= BlockSize /\ at \in Nat /\ from \in Nat /\ to \in Nat
    BY <1>2, SMT DEF BlockSize
  <2> HIDE DEF at, from, to
  <2>2. Changes(a, Put(a, at, name), from, to) /\ Holds(Put(a, at, name), at, name)
    BY <1>2, <1>5, <2>1, ChangesIs
  <2>3. QED
    BY <2>2 DEF at, from, to, b
<1> HIDE DEF b
<1>7. a[76] = 252
  <2>1. 1 \in 1 .. Len(type) /\ 75 + 1 = 76
    BY <1>1, SMT
  <2>2. QED
    BY <1>1, <1>4, <2>1 DEF Holds
<1>8. QED
  BY <1>3, <1>4, <1>6, <1>7, SMT DEF Changes, BlockSize

\* A part of a block.
LEMMA PartIs ==
  ASSUME NEW block \in Blocks, NEW at \in Nat, NEW n \in Nat, at + n <= BlockSize
  PROVE  /\ SubSeq(block, at + 1, at + n) \in [1 .. n -> Bytes]
         /\ \A i \in 1 .. n : SubSeq(block, at + 1, at + n)[i] = block[at + i]
<1> DEFINE a == at + 1  z == at + n  part == SubSeq(block, a, z)
<1>1. a \in Int /\ z \in Int /\ \A i \in a .. z : block[i] \in Bytes
  <2>1. \A i \in a .. z : i \in 1 .. BlockSize
    BY DEF BlockSize
  <2>2. QED
    BY <2>1 DEF Blocks
<1>2. z - a + 1 = n /\ (a <= z \/ n = 0) /\ (n = 0 => ~(a <= z)) /\ \A i \in 1 .. n : a + i - 1 = at + i
  OBVIOUS
<1> HIDE DEF a, z
<1>3. /\ part \in Seq(Bytes) /\ Len(part) = IF a <= z THEN z - a + 1 ELSE 0
      /\ \A i \in 1 .. z - a + 1 : part[i] = block[a + i - 1]
  BY <1>1, SubSeqProperties
<1> HIDE DEF part
<1>4. Len(part) = n /\ \A i \in 1 .. n : part[i] = block[at + i]
  BY <1>2, <1>3
<1>5. part \in [1 .. n -> Bytes]
  BY <1>3, <1>4, LenProperties
<1>6. QED
  BY <1>4, <1>5 DEF part, a, z

\* The whole of a block is the block.
LEMMA WholeIs ==
  ASSUME NEW block \in Blocks
  PROVE  SubSeq(block, 1, BlockSize) = block
<1>1. BlockSize \in Nat /\ 0 + BlockSize <= BlockSize /\ 0 + 1 = 1 /\ 0 + BlockSize = BlockSize
  BY DEF BlockSize
<1> DEFINE whole == SubSeq(block, 0 + 1, 0 + BlockSize)
<1>2. /\ whole \in [1 .. BlockSize -> Bytes]
      /\ \A i \in 1 .. BlockSize : whole[i] = block[0 + i]
  BY <1>1, PartIs
<1>3. SubSeq(block, 1, BlockSize) = whole
  BY <1>1
<1> HIDE DEF whole
<1>4. \A i \in 1 .. BlockSize : whole[i] = block[i]
  BY <1>1, <1>2
<1>5. whole = block
  <2>1. whole = [i \in 1 .. BlockSize |-> whole[i]] /\ block = [i \in 1 .. BlockSize |-> block[i]]
    BY <1>2 DEF Blocks
  <2>2. QED
    BY <1>4, <2>1
<1>6. QED
  BY <1>3, <1>5

\* What is added to a sum makes it a multiple of 256.
LEMMA CheckSum ==
  ASSUME NEW s \in Nat
  PROVE  Lo(256 - Lo(s)) \in Bytes /\ Lo(s + Lo(256 - Lo(s))) = 0
<1> DEFINE q == s \div 256
           r == Lo(s)
<1>1. q \in Nat /\ r \in 0 .. 255 /\ s = 256 * q + r
  BY DEF Lo
<1> HIDE DEF q, r
<1>2. CASE r = 0
  <2>1. Lo(256 - r) = 0
    BY <1>2 DEF Lo
  <2>2. Lo(s + 0) = 0
    BY <1>1, <1>2 DEF Lo
  <2>3. QED
    BY <2>1, <2>2 DEF Bytes, r
<1>3. CASE r # 0
  <2>1. Lo(256 - r) = 256 - r /\ 256 - r \in 0 .. 255
    BY <1>1, <1>3 DEF Lo
  <2>2. s + (256 - r) = 256 * (q + 1)
    BY <1>1
  <2>3. Lo(256 * (q + 1)) = 0
    BY <1>1 DEF Lo
  <2>4. QED
    BY <2>1, <2>2, <2>3 DEF Bytes, r
<1>4. QED
  BY <1>2, <1>3

\* putBlockCheckSum() makes the bytes of a block add up.
LEMMA CheckSumIs ==
  ASSUME NEW block \in Blocks
  PROVE  /\ Changes(block, putBlockCheckSum(block), 128, 128)
         /\ Lo(Sum(SubSeq(putBlockCheckSum(block), 1, BlockSize))) = 0
<1> DEFINE n == BlockSize - 1
           part == SubSeq(block, 0 + 1, 0 + n)
           s == Sum(part)
           x == Lo(256 - Lo(s))
           last == <<x>>
           b == Put(block, n, last)
<1>1. n \in Nat /\ n + 1 = BlockSize /\ 0 + n <= BlockSize
  BY DEF BlockSize
<1>2. putBlockCheckSum(block) = b
  <2>1. 0 + n = n /\ 0 + 1 = 1
    BY <1>1
  <2>2. QED
    BY <2>1 DEF putBlockCheckSum
<1> HIDE DEF n
<1>3. part \in [1 .. n -> Bytes] /\ \A i \in 1 .. n : part[i] = block[0 + i]
  BY <1>1, PartIs
<1> HIDE DEF part
<1>4. s \in Nat
  <2>1. \A y \in Bytes : y \in Nat
    BY DEF Bytes
  <2>2. part \in [1 .. n -> Nat]
    BY <1>3, <2>1
  <2> DEFINE g == [i \in 1 .. n + 1 |-> IF i \in 1 .. n THEN part[i] ELSE 0]
  <2>3. g \in [1 .. n + 1 -> Nat] /\ \A i \in 1 .. n : part[i] = g[i]
    BY <1>1, <2>2
  <2> HIDE DEF g
  <2>4. Sum(part) \in Nat /\ Sum(g) = Sum(part) + g[n + 1]
    BY <1>1, <2>2, <2>3, SumOfOneMore
  <2>5. QED
    BY <2>4
<1> HIDE DEF s
<1>5. x \in Bytes /\ Lo(s + x) = 0
  BY <1>4, CheckSum
<1> HIDE DEF x
<1>6. last \in Seq(Bytes) /\ Len(last) = 1 /\ last[1] = x
  BY <1>5
<1> HIDE DEF last
<1>7. Changes(block, b, BlockSize, BlockSize) /\ Holds(b, n, last)
  <2> DEFINE to == BlockSize
  <2>1. to = n + 1 /\ to = n + Len(last) /\ to <= BlockSize /\ to \in Nat
    BY <1>1, <1>6
  <2> HIDE DEF to
  <2>2. Changes(block, Put(block, n, last), to, to) /\ Holds(Put(block, n, last), n, last)
    BY <1>1, <1>6, <2>1, ChangesIs
  <2>3. QED
    BY <2>2 DEF b, to
<1> HIDE DEF b
<1>8. b[n + 1] = x
  BY <1>6, <1>7 DEF Holds
<1>9. \A i \in 1 .. n : b[i] = part[i]
  <2>1. \A i \in 1 .. n : i \in 1 .. BlockSize /\ i < BlockSize /\ 0 + i = i
    BY <1>1
  <2>2. QED
    BY <1>3, <1>7, <2>1 DEF Changes
<1>10. Sum(b) = s + x
  <2>1. \A y \in Bytes : y \in Nat
    BY DEF Bytes
  <2>2. part \in [1 .. n -> Nat] /\ b \in [1 .. n + 1 -> Nat]
    BY <1>1, <1>3, <1>7, <2>1 DEF Changes, Blocks
  <2>3. Sum(b) = Sum(part) + b[n + 1]
    BY <1>1, <1>9, <2>2, SumOfOneMore
  <2>4. QED
    BY <1>8, <2>3 DEF s
<1>11. SubSeq(b, 1, BlockSize) = b
  BY <1>7, WholeIs DEF Changes
<1>12. 128 = BlockSize
  BY DEF BlockSize
<1>13. QED
  BY <1>2, <1>5, <1>7, <1>10, <1>11, <1>12

\* What each function puts into the block is there when it is made up.
IsBlockOf(b, w, h) ==
  /\ b \in Blocks
  /\ \A i \in 1 .. 8 : b[i] = Header[i]
  /\ \A i \in 1 .. 18 : b[54 + i] = DetailedTiming(w, h)[i]
  /\ b[73] = 0 /\ b[74] = 0 /\ b[75] = 0 /\ b[76] = 252 /\ b[77] = 0
  /\ \A i \in 91 .. 127 : b[i] = 0
  /\ Lo(Sum(SubSeq(b, 1, BlockSize))) = 0

\* A block that was made up is what its functions put there: none of them
\* writes over what another has put.
LEMMA BlockIs ==
  ASSUME NEW page \in Blocks, NEW w \in Nat, NEW h \in Nat
  PROVE  IsBlockOf(Block(page, w, h), w, h)
<1> DEFINE b0 == Cleared(page)
           b1 == putEssentials(b0)
           b2 == putColorSpace(b1)
           b3 == putTimings(b2)
           b4 == putDetailedTiming(b3, 0, w, h)
           b5 == putDisplayDescritor(b4, 1)
           b6 == putBlockCheckSum(b5)
<1>1. Block(page, w, h) = b6
  BY DEF Block
<1>2. b0 \in Blocks /\ \A i \in 1 .. BlockSize : b0[i] = 0
  BY ClearedIs
<1> HIDE DEF b0
<1>3. Changes(b0, b1, 1, 25) /\ \A i \in 1 .. 8 : b1[i] = Header[i]
  BY <1>2, EssentialsAre
<1> HIDE DEF b1
<1>4. Changes(b1, b2, 26, 35)
  BY <1>3, ColorsAre DEF Changes
<1> HIDE DEF b2
<1>5. Changes(b2, b3, 36, 54)
  BY <1>4, TimingsAre DEF Changes
<1> HIDE DEF b3
<1>6. Changes(b3, b4, 55, 72) /\ \A i \in 1 .. 18 : b4[54 + i] = DetailedTiming(w, h)[i]
  BY <1>5, DetailedTimingPut DEF Changes
<1> HIDE DEF b4
<1>7. /\ b5 \in Blocks /\ b5[76] = 252
      /\ \A i \in 1 .. BlockSize : i < 76 \/ i = 77 \/ i > 90 => b5[i] = b4[i]
  BY <1>6, DisplayDescriptorIs DEF Changes
<1> HIDE DEF b5
<1>8. Changes(b5, b6, 128, 128) /\ Lo(Sum(SubSeq(b6, 1, BlockSize))) = 0
  BY <1>7, CheckSumIs
<1> HIDE DEF b6
<1>9. \A i \in 1 .. 8 : b6[i] = b1[i]
  <2>1. \A i \in 1 .. 8 : b2[i] = b1[i] /\ b3[i] = b2[i]
    BY <1>4, <1>5, SMT DEF Changes, BlockSize
  <2>2. \A i \in 1 .. 8 : b4[i] = b3[i]
    BY <1>6, SMT DEF Changes, BlockSize
  <2>3. \A i \in 1 .. 8 : b6[i] = b5[i] /\ b5[i] = b4[i]
    BY <1>7, <1>8, SMT DEF Changes, BlockSize
  <2>4. QED
    BY <2>1, <2>2, <2>3
<1>10. \A i \in 1 .. 18 : b6[54 + i] = b4[54 + i]
  BY <1>7, <1>8, SMT DEF Changes, BlockSize
<1>11. \A i \in 73 .. 127 : b4[i] = 0
  <2>1. \A i \in 73 .. 127 : b0[i] = 0 /\ b1[i] = b0[i]
    BY <1>2, <1>3, SMT DEF Changes, BlockSize
  <2>2. \A i \in 73 .. 127 : b2[i] = b1[i] /\ b3[i] = b2[i]
    BY <1>4, <1>5, SMT DEF Changes, BlockSize
  <2>3. \A i \in 73 .. 127 : b4[i] = b3[i]
    BY <1>6, SMT DEF Changes, BlockSize
  <2> DEFINE free == 73 .. 127
  <2> HIDE DEF free
  <2>4. \A i \in free : b4[i] = 0
    BY <2>1, <2>2, <2>3 DEF free
  <2>5. QED
    BY <2>4 DEF free
<1>12. b6[73] = 0 /\ b6[74] = 0 /\ b6[75] = 0 /\ b6[76] = 252 /\ b6[77] = 0
  BY <1>7, <1>8, <1>11, SMT DEF Changes, BlockSize
<1>13. \A i \in 91 .. 127 : b6[i] = 0
  BY <1>7, <1>8, <1>11, SMT DEF Changes, BlockSize
<1>14. b6 \in Blocks
  BY <1>8 DEF Changes
<1>15. IsBlockOf(b6, w, h)
  BY <1>3, <1>6, <1>8, <1>9, <1>10, <1>12, <1>13, <1>14 DEF IsBlockOf
<1>16. QED
  BY <1>1, <1>15

\* A descriptor is 18 bytes of its block.
LEMMA DescriptorIs ==
  ASSUME NEW block \in Blocks, NEW index \in 0 .. 3
  PROVE  /\ Descriptor(block, index) \in [1 .. 18 -> Bytes]
         /\ \A i \in 1 .. 18 : Descriptor(block, index)[i] = block[54 + 18 * index + i]
<1> DEFINE at == 54 + 18 * index
           n == 18
           part == SubSeq(block, at + 1, at + n)
<1>1. at \in Nat /\ n \in Nat /\ at + n <= BlockSize
  BY DEF BlockSize
<1>2. Descriptor(block, index) = part
  BY DEF Descriptor
<1> HIDE DEF at, n
<1>3. part \in [1 .. n -> Bytes] /\ \A i \in 1 .. n : part[i] = block[at + i]
  BY <1>1, PartIs
<1> HIDE DEF part
<1>4. QED
  BY <1>2, <1>3 DEF at, n

\* A function from 1..n is a sequence.
LEMMA AsSequence ==
  ASSUME NEW n \in Nat, NEW f \in [1 .. n -> Bytes]
  PROVE  f \in Seq(Bytes) /\ Len(f) = n
OBVIOUS

\* The block of a connector describes it.
Describes(b, w, h) ==
  /\ IsBlock(b)
  /\ Representable(<<w, h>>) => IsMode(Decoded(Descriptor(b, 0)), w, h, RefreshRateHz)
  /\ SubSeq(Descriptor(b, 1), 1, 5) = <<0, 0, 0, 252, 0>>
  /\ Empty(Descriptor(b, 2)) /\ Empty(Descriptor(b, 3)) /\ b[127] = 0

\* A reader of such a block sees the mode, one name, and nothing more.
LEMMA BlockDescribes ==
  ASSUME NEW b, NEW w \in Nat, NEW h \in Nat, IsBlockOf(b, w, h)
  PROVE  Describes(b, w, h)
<1>1. b \in Blocks
  BY DEF IsBlockOf
<1>2. IsBlock(b)
  <2> DEFINE n == 8
             part == SubSeq(b, 0 + 1, 0 + n)
  <2>1. n \in Nat /\ 0 + n <= BlockSize
    BY DEF BlockSize
  <2>2. SubSeq(b, 1, 8) = part
    OBVIOUS
  <2> HIDE DEF n
  <2>3. part \in [1 .. n -> Bytes] /\ \A i \in 1 .. n : part[i] = b[0 + i]
    BY <1>1, <2>1, PartIs
  <2> HIDE DEF part
  <2>4. \A i \in 1 .. 8 : part[i] = Header[i]
    <3>1. \A i \in 1 .. 8 : b[i] = Header[i]
      BY DEF IsBlockOf
    <3>2. QED
      BY <2>3, <3>1, SMT DEF n
  <2>5. part = Header
    <3>1. part \in Seq(Bytes) /\ Len(part) = 8
      BY <2>1, <2>3, AsSequence DEF n
    <3>2. Header \in Seq(Bytes) /\ Len(Header) = 8
      BY SMT DEF Header, Bytes
    <3> HIDE DEF part
    <3>3. Len(part) = Len(Header) /\ \A i \in 1 .. Len(part) : part[i] = Header[i]
      BY <2>4, <3>1, <3>2, SMT
    <3>4. QED
      BY <3>1, <3>2, <3>3, SeqEqual
  <2>6. \A i \in 1 .. BlockSize : b[i] \in 0 .. 255
    BY <1>1 DEF Blocks, Bytes
  <2>7. Lo(Sum(SubSeq(b, 1, BlockSize))) = 0
    BY DEF IsBlockOf
  <2>8. QED
    BY <2>2, <2>5, <2>6, <2>7 DEF IsBlock, Header
<1>3. ASSUME Representable(<<w, h>>)
      PROVE  IsMode(Decoded(Descriptor(b, 0)), w, h, RefreshRateHz)
  <2> DEFINE d == Descriptor(b, 0)  t == DetailedTiming(w, h)
  <2>1. w < 4096 /\ h < 4096 /\ PixelClock(w, h) < 65536
    BY <1>3, SMT DEF Representable
  <2>2. IsMode(Decoded(t), w, h, RefreshRateHz)
    BY <2>1, TimingIsMode
  <2>3. \A i \in 1 .. 18 : b[54 + i] = t[i]
    BY DEF IsBlockOf
  <2>4. d \in [1 .. 18 -> Bytes] /\ \A i \in 1 .. 18 : d[i] = b[54 + 18 * 0 + i]
    <3>1. 0 \in 0 .. 3
      BY SMT
    <3>2. QED
      BY <1>1, <3>1, DescriptorIs
  <2>5. t \in Seq(Bytes) /\ Len(t) = 18
    BY DetailedTimingIs
  <2> HIDE DEF d, t
  <2>6. \A i \in 1 .. 18 : d[i] = t[i]
    BY <2>3, <2>4, SMT
  <2>7. d \in Seq(Bytes) /\ Len(d) = 18
    <3>1. 18 \in Nat
      BY SMT
    <3>2. QED
      BY <2>4, <3>1, AsSequence
  <2>8. Len(d) = Len(t) /\ \A i \in 1 .. Len(d) : d[i] = t[i]
    BY <2>5, <2>6, <2>7, SMT
  <2>9. d = t
    BY <2>5, <2>7, <2>8, SeqEqual
  <2>10. QED
    BY <2>2, <2>9 DEF d
<1>4. SubSeq(Descriptor(b, 1), 1, 5) = <<0, 0, 0, 252, 0>>
  <2> DEFINE d == Descriptor(b, 1)
             five == SubSeq(d, 1, 5)
             type == <<0, 0, 0, 252, 0>>
  <2>1. d \in [1 .. 18 -> Bytes] /\ \A i \in 1 .. 18 : d[i] = b[54 + 18 * 1 + i]
    <3>1. 1 \in 0 .. 3
      BY SMT
    <3>2. QED
      BY <1>1, <3>1, DescriptorIs
  <2> HIDE DEF d
  <2>2. b[73] = 0 /\ b[74] = 0 /\ b[75] = 0 /\ b[76] = 252 /\ b[77] = 0
    BY DEF IsBlockOf
  <2>3. d[1] = 0 /\ d[2] = 0 /\ d[3] = 0 /\ d[4] = 252 /\ d[5] = 0
    BY <2>1, <2>2, SMT
  <2>4. /\ five \in Seq(Bytes) /\ Len(five) = 5
        /\ \A i \in 1 .. 5 : five[i] = d[i]
    <3>1. \A i \in 1 .. 5 : d[i] \in Bytes
      BY <2>1, SMT
    <3>2. /\ five \in Seq(Bytes) /\ Len(five) = IF 1 <= 5 THEN 5 - 1 + 1 ELSE 0
          /\ \A i \in 1 .. 5 - 1 + 1 : five[i] = d[1 + i - 1]
      BY <3>1, SubSeqProperties
    <3> HIDE DEF five
    <3>3. QED
      BY <3>2, SMT
  <2>5. type \in Seq(Bytes) /\ Len(type) = 5 /\ \A i \in 1 .. 5 : type[i] = IF i = 4 THEN 252 ELSE 0
    BY SMT DEF Bytes
  <2> HIDE DEF five, type
  <2>6. Len(five) = Len(type) /\ \A i \in 1 .. Len(five) : five[i] = type[i]
    BY <2>3, <2>4, <2>5, SMT
  <2>7. five = type
    BY <2>4, <2>5, <2>6, SeqEqual
  <2>8. QED
    BY <2>7 DEF five, type, d
<1>5. ASSUME NEW index \in 2 .. 3
      PROVE  Empty(Descriptor(b, index))
  <2> DEFINE d == Descriptor(b, index)
  <2>1. \A i \in 1 .. 18 : d[i] = b[54 + 18 * index + i]
    <3>1. index \in 0 .. 3
      BY SMT
    <3>2. QED
      BY <1>1, <3>1, DescriptorIs
  <2> HIDE DEF d
  <2>2. \A i \in 91 .. 127 : b[i] = 0
    BY DEF IsBlockOf
  <2>3. \A i \in 1 .. 18 : 54 + 18 * index + i \in 91 .. 127
    BY SMT
  <2>4. \A i \in 1 .. 18 : d[i] = 0
    BY <2>1, <2>2, <2>3
  <2>5. QED
    BY <2>4 DEF Empty, d
<1>6. Empty(Descriptor(b, 2)) /\ Empty(Descriptor(b, 3))
  BY <1>5, SMT
<1>7. b[127] = 0
  BY SMT DEF IsBlockOf
<1>8. QED
  BY <1>2, <1>3, <1>4, <1>6, <1>7 DEF Describes

\* The mode is the connector's, and the buffer a block.
EdidInv ==
  /\ mode \in Modes /\ buffer \in Blocks
  /\ pc \in {"walk", "walked", "error", "answered"}
  /\ pc = "answered" => IsBlockOf(buffer, mode[1], mode[2])

\* A frontend whose request is answered reads an EDID block of its connector:
\* the checksum holds, the mode is the connector's where the fields can hold
\* it, and nothing else is said (ConnectorBase::getEDID()).
THEOREM EdidOfConnector == ESpec => []EdidDescribesConnector
<1>1. EInit => EdidInv
  <2> SUFFICES ASSUME EInit PROVE EdidInv
    OBVIOUS
  <2>1. mode \in Modes /\ pc = "walk"
    BY DEF EInit, DInit
  <2>2. buffer \in Blocks
    BY EdidRequestAssumption DEF EInit, Blocks, Bytes
  <2>3. QED
    BY <2>1, <2>2 DEF EdidInv
<1>2. EdidInv /\ [ENext]_evars => EdidInv'
  <2> SUFFICES ASSUME EdidInv, [ENext]_evars PROVE EdidInv'
    OBVIOUS
  <2>1. mode \in Modes /\ buffer \in Blocks
    BY DEF EdidInv
  <2>2. CASE Walk
    <3>1. mode' = mode /\ buffer' = buffer /\ pc' \in {"walk", "walked", "error"}
      BY <2>2 DEF EdidInv, Walk, DNext, pgDirGetBufferRefs, pgDirSetBufferRefs, MapFails, Walked, Walking
    <3>2. QED
      BY <2>1, <3>1 DEF EdidInv
  <2>3. CASE getEDID
    <3>1. CASE pc' = "answered" /\ buffer' = Block(buffer, mode[1], mode[2]) /\ mode' = mode
      <4>1. mode[1] \in Nat /\ mode[2] \in Nat
        BY <2>1, EdidRequestAssumption
      <4>2. IsBlockOf(Block(buffer, mode[1], mode[2]), mode[1], mode[2])
        BY <2>1, <4>1, BlockIs
      <4>3. buffer' \in Blocks
        BY <3>1, <4>2 DEF IsBlockOf
      <4>4. QED
        BY <2>1, <3>1, <4>2, <4>3 DEF EdidInv
    <3>2. CASE pc' = "error" /\ buffer' = buffer /\ mode' = mode
      BY <2>1, <3>2 DEF EdidInv
    <3>3. QED
      BY <2>3, <3>1, <3>2 DEF getEDID
  <2>4. CASE UNCHANGED evars
    BY <2>4 DEF EdidInv, evars, dvars
  <2>5. QED
    BY <2>2, <2>3, <2>4 DEF ENext
<1>3. EdidInv => EdidDescribesConnector
  <2> SUFFICES ASSUME EdidInv, pc = "answered"
               PROVE  Describes(buffer, mode[1], mode[2])
    <3>1. mode \in Modes => mode = <<mode[1], mode[2]>>
      BY EdidRequestAssumption
    <3>2. QED
      BY <3>1 DEF EdidInv, EdidDescribesConnector, Describes
  <2>1. mode[1] \in Nat /\ mode[2] \in Nat
    BY EdidRequestAssumption DEF EdidInv
  <2>2. IsBlockOf(buffer, mode[1], mode[2])
    BY DEF EdidInv
  <2>3. QED
    BY <2>1, <2>2, BlockDescribes
<1>4. QED
  BY <1>1, <1>2, <1>3, PTL DEF ESpec

=============================================================================
