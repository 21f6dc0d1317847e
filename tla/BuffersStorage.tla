---------------------------- MODULE BuffersStorage ----------------------------
(***************************************************************************)
(* The display and frame buffers of one frontend (BuffersStorage.cpp), as  *)
(* the requests DBUF_CREATE, DBUF_DESTROY, FB_ATTACH and FB_DETACH reach   *)
(* it through DisplayCommandHandler.                                       *)
(*                                                                         *)
(* Buffers are kept in maps from the frontend's cookies.  All connectors   *)
(* of the frontend share one storage and mMutex makes every request one    *)
(* step.  A display buffer is the number of the DBUF_CREATE request that   *)
(* made it; its pages are its own, or those in a page directory of the     *)
(* frontend, which any number of requests may name.  A display buffer      *)
(* whose size is not known yet is kept pending until a frame buffer        *)
(* attached to it tells.                                                   *)
(*                                                                         *)
(* known and attached are the frontend's own books: what it was told, by   *)
(* the status of its requests, that exists.                                *)
(***************************************************************************)
EXTENDS Naturals, FiniteSets

CONSTANTS
  DbCookies,    \* display buffer cookies
  FbCookies,    \* frame buffer cookies
  Directories,  \* page directories of the frontend
  MaxRequests   \* bound: DBUF_CREATE requests

ASSUME StorageAssumption ==
  /\ DbCookies \subseteq Nat
  /\ FbCookies \subseteq Nat
  /\ Directories \subseteq Nat \ {0}
  /\ MaxRequests \in Nat

VARIABLES
  requests,        \* DBUF_CREATE requests so far
  displayBuffers,  \* mDisplayBuffers: cookie to buffer, Nothing if absent
  pending,         \* mPendingDisplayBuffers: cookie to buffer
  frameBuffers,    \* mFrameBuffers: cookie to the buffer the frame buffer holds
  exported,        \* buffers allocated here whose pages the frontend was given
  directory,       \* directory whose pages a buffer maps, NoDir if it has its own
  known,           \* frontend: display buffers by cookie
  attached,        \* frontend: buffers under its frame buffers, by cookie
  careful,         \* history: the frontend has kept to displif.h, no cookie 0
                   \*   and none used for two buffers at a time
  apart,           \* history: the frontend named no directory whose pages are
                   \*   in a buffer it counts on
  dirFailed        \* history: a page directory turned out unusable when the
                   \*   backend was to fill it

maps == <<displayBuffers, pending, frameBuffers>>
history == <<careful, apart, dirFailed>>
vars == <<requests, maps, exported, directory, known, attached, history>>

Nothing == 0
NoDir == 0

NoDb == [c \in DbCookies |-> Nothing]
NoFb == [f \in FbCookies |-> Nothing]
NoDirectories == [b \in 1 .. MaxRequests |-> NoDir]

Init ==
  /\ requests = 0
  /\ displayBuffers = NoDb
  /\ pending = NoDb
  /\ frameBuffers = NoFb
  /\ exported = {}
  /\ directory = NoDirectories
  /\ known = NoDb
  /\ attached = NoFb
  /\ careful = TRUE
  /\ apart = TRUE
  /\ dirFailed = FALSE

\* Mutant: an entry that exists is replaced.
Emplace_Replaces(map, key, value) == [map EXCEPT ![key] = value]

\* unordered_map::emplace(): does nothing if the key is there already.
Emplace(map, key, value) ==
  IF map[key] = Nothing THEN [map EXCEPT ![key] = value] ELSE map

-----------------------------------------------------------------------------
(* DBUF_CREATE *)

\* A create request reaches the backend.
Requested(c) ==
  /\ requests < MaxRequests
  /\ careful' = (careful /\ c # 0 /\ known[c] = Nothing)
  /\ requests' = requests + 1
  /\ UNCHANGED <<frameBuffers, attached>>

Granted(c) == known' = [known EXCEPT ![c] = requests']

\* The buffers the frontend counts on.
CountedOn ==
  ({known[c] : c \in DbCookies} \cup {attached[f] : f \in FbCookies})
    \ {Nothing}

\* pgDirGetBufferRefs(): the pages are those in directory d of the frontend.
PagesFrom(d) ==
  /\ directory' = [directory EXCEPT ![requests'] = d]
  /\ apart' = (apart /\ \A b \in CountedOn : directory[b] # d)

\* The pages are allocated by the backend.
OwnPages == UNCHANGED <<directory, apart>>

\* Refused before anything is stored: the directory cannot be read, backend
\* allocation with an offset or without a size, no memory for the buffer.
CreateRefused(c) ==
  /\ Requested(c)
  /\ OwnPages
  /\ UNCHANGED <<displayBuffers, pending, exported, known, dirFailed>>

\* Pages of the frontend, size not given.
CreatePending(c, d) ==
  /\ Requested(c)
  /\ PagesFrom(d)
  /\ pending' = Emplace(pending, c, requests')
  /\ Granted(c)
  /\ UNCHANGED <<displayBuffers, exported, dirFailed>>

\* Pages of the frontend, size given.
CreateFromRefs(c, d) ==
  /\ Requested(c)
  /\ PagesFrom(d)
  /\ displayBuffers' = Emplace(displayBuffers, c, requests')
  /\ Granted(c)
  /\ UNCHANGED <<pending, exported, dirFailed>>

\* Pages of the backend; the directory is filled after the buffer is stored.
CreateAllocated(c) ==
  /\ Requested(c)
  /\ OwnPages
  /\ displayBuffers' = Emplace(displayBuffers, c, requests')
  /\ exported' = exported \cup {requests'}
  /\ Granted(c)
  /\ UNCHANGED <<pending, dirFailed>>

\* pgDirSetBufferRefs() throws: the request fails, the buffer stays stored.
CreateAllocatedFails(c) ==
  /\ Requested(c)
  /\ OwnPages
  /\ displayBuffers' = Emplace(displayBuffers, c, requests')
  /\ dirFailed' = TRUE
  /\ UNCHANGED <<pending, exported, known>>

\* Mutant: a display buffer that is pending is not erased.
DestroyDisplayBuffer_KeepsPending(c) ==
  /\ careful' = (careful /\ known[c] # Nothing)
  /\ displayBuffers' = [displayBuffers EXCEPT ![c] = Nothing]
  /\ known' = [known EXCEPT ![c] = Nothing]
  /\ UNCHANGED <<requests, pending, frameBuffers, exported, directory, attached,
                 apart, dirFailed>>

\* DBUF_DESTROY: both maps are cleared of the cookie.  Frame buffers attached
\* to the buffer keep it alive.
DestroyDisplayBuffer(c) ==
  /\ careful' = (careful /\ known[c] # Nothing)
  /\ displayBuffers' = [displayBuffers EXCEPT ![c] = Nothing]
  /\ pending' = [pending EXCEPT ![c] = Nothing]
  /\ known' = [known EXCEPT ![c] = Nothing]
  /\ UNCHANGED <<requests, frameBuffers, exported, directory, attached, apart,
                 dirFailed>>

-----------------------------------------------------------------------------
(* FB_ATTACH, FB_DETACH *)

AttachRequested(f, c) ==
  /\ careful' = (careful /\ f # 0 /\ attached[f] = Nothing /\ known[c] # Nothing)
  /\ UNCHANGED <<directory, apart, dirFailed>>

\* handlePendingDisplayBuffers(): a pending buffer is created now that its
\* size is known.
Created(c) ==
  IF pending[c] = Nothing THEN displayBuffers
  ELSE Emplace(displayBuffers, c, pending[c])

\* Mutant: the pending entry is not erased.
StillPending_All(c) == pending

StillPending(c) == [pending EXCEPT ![c] = Nothing]

AttachFrameBuffer(f, c) ==
  /\ AttachRequested(f, c)
  /\ Created(c)[c] # Nothing
  /\ displayBuffers' = Created(c)
  /\ pending' = StillPending(c)
  /\ frameBuffers' = Emplace(frameBuffers, f, Created(c)[c])
  /\ attached' = [attached EXCEPT ![f] = known[c]]
  /\ UNCHANGED <<requests, exported, known>>

\* The display cannot create the frame buffer: the request fails, the display
\* buffer created for it stays.  (An unknown cookie or format, or a display
\* buffer that cannot be created, changes nothing.)
AttachFails(f, c) ==
  /\ AttachRequested(f, c)
  /\ pending[c] # Nothing
  /\ displayBuffers' = Created(c)
  /\ pending' = StillPending(c)
  /\ UNCHANGED <<requests, frameBuffers, exported, known, attached>>

DetachFrameBuffer(f) ==
  /\ careful' = (careful /\ attached[f] # Nothing)
  /\ frameBuffers' = [frameBuffers EXCEPT ![f] = Nothing]
  /\ attached' = [attached EXCEPT ![f] = Nothing]
  /\ UNCHANGED <<requests, displayBuffers, pending, exported, directory, known,
                 apart, dirFailed>>

\* The frontend is closed: ~BuffersStorage empties the maps, onBind() makes a
\* new storage, for a frontend that starts over.
Rebind ==
  /\ displayBuffers' = NoDb
  /\ pending' = NoDb
  /\ frameBuffers' = NoFb
  /\ exported' = {}
  /\ directory' = NoDirectories
  /\ known' = NoDb
  /\ attached' = NoFb
  /\ careful' = TRUE
  /\ apart' = TRUE
  /\ dirFailed' = FALSE
  /\ UNCHANGED requests

-----------------------------------------------------------------------------
CreateDisplayBuffer(c) ==
  \/ CreateRefused(c)
  \/ \E d \in Directories : CreatePending(c, d) \/ CreateFromRefs(c, d)
  \/ CreateAllocated(c)
  \/ CreateAllocatedFails(c)

Next ==
  \/ \E c \in DbCookies : CreateDisplayBuffer(c) \/ DestroyDisplayBuffer(c)
  \/ \E f \in FbCookies, c \in DbCookies :
        AttachFrameBuffer(f, c) \/ AttachFails(f, c)
  \/ \E f \in FbCookies : DetachFrameBuffer(f)
  \/ Rebind

Spec == Init /\ [][Next]_vars

-----------------------------------------------------------------------------
(* Safety *)

\* Types of the variables: every cookie stands for a buffer that was requested.
TypeOK ==
  /\ requests \in 0 .. MaxRequests
  /\ displayBuffers \in [DbCookies -> 0 .. requests]
  /\ pending \in [DbCookies -> 0 .. requests]
  /\ frameBuffers \in [FbCookies -> 0 .. requests]
  /\ exported \subseteq 1 .. requests
  /\ directory \in [1 .. MaxRequests -> Directories \cup {NoDir}]
  /\ known \in [DbCookies -> 0 .. requests]
  /\ attached \in [FbCookies -> 0 .. requests]
  /\ careful \in BOOLEAN
  /\ apart \in BOOLEAN
  /\ dirFailed \in BOOLEAN

\* The storage and the books of a careful frontend agree: a cookie whose
\* creation was reported as a success stands for the buffer created for it, and
\* so does a frame buffer attached to it, through failed requests, buffers
\* destroyed under their frame buffers and cookies used again.  A directory the
\* backend filled (displif.h, XENDISPL_DBUF_FLG_REQ_ALLOC) names the pages of
\* that buffer.
ViewAgrees ==
  careful /\ ~dirFailed =>
    /\ \A c \in DbCookies :
          known[c] # Nothing => known[c] \in {displayBuffers[c], pending[c]}
    /\ \A f \in FbCookies :
          attached[f] # Nothing => frameBuffers[f] = attached[f]
    /\ \A c \in DbCookies :
          known[c] \in exported => displayBuffers[c] = known[c]

Stored ==
  {displayBuffers[c] : c \in DbCookies} \cup {pending[c] : c \in DbCookies}
    \cup {frameBuffers[f] : f \in FbCookies}

\* Pages stay mapped only as long as the frontend counts on them: a careful one
\* can take back the pages of buffers that it destroyed, or that were refused.
NoBufferLeaked ==
  careful /\ ~dirFailed =>
    Stored \subseteq CountedOn \cup {Nothing}

\* A pending buffer is created once: whatever the frontend sends, one that was
\* created is not pending any more, or the next attach would map its pages once
\* more.  And a careful frontend that names a directory again only when no
\* buffer it counts on has its pages never has them in two buffers: what it
\* destroyed or detached is stored nowhere, and nothing is of what was refused.
PagesMappedOnce ==
  /\ \A c, d \in DbCookies :
        pending[c] # Nothing => pending[c] # displayBuffers[d]
  /\ careful /\ apart /\ ~dirFailed =>
       \A b, e \in Stored \ {Nothing} :
         b # e /\ directory[b] # NoDir => directory[b] # directory[e]

\* What a cookie stands for is never replaced, whatever the frontend sends: a
\* display buffer, pending or not, and a frame buffer stay under their cookie
\* until it is destroyed or detached; what is flipped or attached by a cookie
\* never changes under it.  Only the size that was missing makes a pending
\* buffer a display buffer, and the same one.
BuffersStable ==
  [][/\ \A f \in FbCookies :
          frameBuffers'[f] \in {Nothing, frameBuffers[f]}
            \/ frameBuffers[f] = Nothing
     /\ \A c \in DbCookies :
          /\ displayBuffers'[c] \in {Nothing, displayBuffers[c]}
               \/ displayBuffers[c] = Nothing
          /\ pending'[c] \in {Nothing, pending[c]} \/ pending[c] = Nothing
          /\ pending[c] # Nothing /\ pending'[c] = Nothing
             => displayBuffers'[c] = Nothing
                  \/ displayBuffers[c] # Nothing
                  \/ displayBuffers'[c] = pending[c]]_vars

=============================================================================
