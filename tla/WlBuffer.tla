------------------------------ MODULE WlBuffer ------------------------------
(***************************************************************************)
(* The two raw pointers between a Wayland surface and the buffer it shows.  *)
(* Surface::mBuffer and WlBuffer::mSurface are set by draw(), forgotten     *)
(* when the compositor releases the buffer, when the buffer is destroyed or *)
(* when the surface is; each object has a lock of its own, and draw() and   *)
(* ~WlBuffer() take the two in opposite orders.                             *)
(*                                                                          *)
(* A thread of Threads is the control ring of one connector: it has at most *)
(* one surface at a time.  The connectors of a frontend share the storage.  *)
(***************************************************************************)
EXTENDS Naturals, FiniteSets

CONSTANTS
  Threads,     \* the control rings
  Buffers,     \* the frame buffers of the frontend, all attached at first
  MaxSurfaces, \* bound: how many surfaces a connector makes
  None

ASSUME WlBufferAssumption ==
  /\ MaxSurfaces \in Nat
  /\ "dispatch" \notin Threads
  /\ None \notin Threads \cup Buffers \cup {"dispatch"}
  /\ None \notin Threads \X Nat

Dispatch == "dispatch"   \* the thread that runs the Wayland listeners
Surfaces == Threads \X (0..MaxSurfaces)

VARIABLES
  frontend, \* "any", "tidy" or "patient": when it detaches, see MayDetach
  stored,   \* the buffers the storage still has
  dead,     \* the buffers destroyed
  shown,    \* the buffers attached and not yet released by the compositor
  back,     \* [Buffers -> the surface of mSurface or None]
  live,     \* [Threads -> the connector has a surface]
  made,     \* [Threads -> how many it has made: the last is the live one]
  cur,      \* [Threads -> mBuffer of its surface]
  ref,      \* [Threads -> the buffer a draw() in progress has a shared_ptr to]
  pc, arg,  \* [Threads and Dispatch -> where it is and the buffer it is at]
  slock,    \* [Threads -> who holds the lock of its surface]
  block,    \* [Buffers -> who holds the lock of the buffer]
  storage,  \* who holds the lock of the storage
  misuse    \* what was used after it was destroyed

vars == <<frontend, stored, dead, shown, back, live, made, cur, ref, pc, arg,
          slock, block, storage, misuse>>
Procs == Threads \cup {Dispatch}
Labels == {"idle", "draw", "link", "drop", "delete", "clear", "unlink", "close", "released"}

TypeOK ==
  /\ frontend \in {"any", "tidy", "patient"} /\ live \in [Threads -> BOOLEAN]
  /\ stored \subseteq Buffers /\ dead \subseteq Buffers /\ shown \subseteq Buffers
  /\ back \in [Buffers -> Surfaces \cup {None}] /\ made \in [Threads -> 0..MaxSurfaces]
  /\ cur \in [Threads -> Buffers \cup {None}] /\ ref \in [Threads -> Buffers \cup {None}]
  /\ pc \in [Procs -> Labels]
  /\ arg \in [Procs -> Buffers \cup {None}]
  /\ slock \in [Threads -> Procs \cup {None}] /\ block \in [Buffers -> Procs \cup {None}]
  /\ storage \in Threads \cup {None}
  /\ misuse \subseteq {"buffer in release()", "surface in ~WlBuffer()", "buffer in onRelease()"}
  /\ \A t \in Threads : cur[t] # None => live[t]

-----------------------------------------------------------------------------
(***************************************************************************)
(* Starting, and what the frontend may be expected to keep to.              *)
(***************************************************************************)
Init ==
  /\ frontend \in {"any", "tidy", "patient"}
  /\ stored = Buffers /\ dead = {} /\ shown = {} /\ misuse = {}
  /\ back = [b \in Buffers |-> None] /\ block = [b \in Buffers |-> None]
  /\ live = [t \in Threads |-> FALSE] /\ made = [t \in Threads |-> 0]
  /\ cur = [t \in Threads |-> None] /\ ref = [t \in Threads |-> None]
  /\ slock = [t \in Threads |-> None] /\ storage = None
  /\ pc = [p \in Procs |-> "idle"] /\ arg = [p \in Procs |-> None]

Users(b) == {u \in Threads : cur[u] = b \/ ref[u] = b \/ arg[u] = b}

\* Nothing shows the buffer, and its release is handled.
Unused(b) == Users(b) = {} /\ b \notin shown /\ arg[Dispatch] # b

\* The connector of this ring alone shows it and the compositor still has it, so
\* that mSurface and mBuffer name each other.
OnOwnSurface(t, b) ==
  b \in shown /\ arg[Dispatch] # b /\ Users(b) = {t} /\ cur[t] = b /\ back[b] = <<t, made[t]>>

MayDetach(t, b) ==
  \/ frontend = "any"
  \/ Unused(b)
  \/ frontend = "tidy" /\ OnOwnSurface(t, b)

Goto(p, label, b) == pc' = [pc EXCEPT ![p] = label] /\ arg' = [arg EXCEPT ![p] = b]

-----------------------------------------------------------------------------
(***************************************************************************)
(* draw(): the storage hands out a reference; the surface's lock is held    *)
(* while the buffer's is taken.                                             *)
(***************************************************************************)
\* init(): a surface of its own.
Open(t) ==
  /\ pc[t] = "idle" /\ ~live[t] /\ made[t] < MaxSurfaces
  /\ live' = [live EXCEPT ![t] = TRUE] /\ made' = [made EXCEPT ![t] = @ + 1]
  /\ UNCHANGED <<frontend, stored, dead, shown, back, cur, ref, pc, arg, slock, block,
                 storage, misuse>>

\* Mutant: the storage hands out a plain pointer.
Fetch_Plain(t) ==
  /\ pc[t] = "idle" /\ live[t] /\ storage = None
  /\ \E b \in stored : Goto(t, "draw", b)
  /\ UNCHANGED <<frontend, stored, dead, shown, back, live, made, cur, ref, slock, block,
                 storage, misuse>>
Fetch(t) ==
  /\ pc[t] = "idle" /\ live[t] /\ storage = None
  /\ \E b \in stored : ref' = [ref EXCEPT ![t] = b] /\ Goto(t, "draw", b)
  /\ UNCHANGED <<frontend, stored, dead, shown, back, live, made, cur, slock, block,
                 storage, misuse>>

LockToDraw(t) ==
  /\ pc[t] = "draw" /\ slock[t] = None
  /\ slock' = [slock EXCEPT ![t] = t]
  /\ cur' = [cur EXCEPT ![t] = arg[t]]
  /\ Goto(t, "link", arg[t])
  /\ UNCHANGED <<frontend, stored, dead, shown, back, live, made, ref, block, storage, misuse>>

\* setSurface(), attach and commit.
Link(t) ==
  /\ pc[t] = "link" /\ block[arg[t]] = None
  /\ back' = [back EXCEPT ![arg[t]] = <<t, made[t]>>]
  /\ shown' = shown \cup {arg[t]}
  /\ slock' = [slock EXCEPT ![t] = None]
  /\ Goto(t, "drop", arg[t])
  /\ UNCHANGED <<frontend, stored, dead, live, made, cur, ref, block, storage, misuse>>

\* The reference goes; the last one destroys.
DropReference(t) ==
  /\ pc[t] = "drop"
  /\ ref' = [ref EXCEPT ![t] = None]
  /\ IF arg[t] \in stored \/ \E u \in Threads \ {t} : ref[u] = arg[t]
       THEN Goto(t, "idle", None)
       ELSE Goto(t, "delete", arg[t])
  /\ UNCHANGED <<frontend, stored, dead, shown, back, live, made, cur, slock, block,
                 storage, misuse>>

-----------------------------------------------------------------------------
(***************************************************************************)
(* ~WlBuffer(), under the lock of the storage when detaching dropped the    *)
(* last reference.                                                          *)
(***************************************************************************)
Detach(t) ==
  /\ pc[t] = "idle" /\ storage = None
  /\ \E b \in stored :
       /\ MayDetach(t, b)
       /\ stored' = stored \ {b}
       /\ IF \E u \in Threads : ref[u] = b
            THEN UNCHANGED <<storage, pc, arg>>
            ELSE storage' = t /\ Goto(t, "delete", b)
  /\ UNCHANGED <<frontend, dead, shown, back, live, made, cur, ref, slock, block, misuse>>

\* What the destructor ends with.
Destroyed(t, b) ==
  /\ dead' = dead \cup {b} /\ shown' = shown \ {b}
  /\ storage' = IF storage = t THEN None ELSE storage
  /\ Goto(t, "idle", None)

LockToDelete(t) ==
  /\ pc[t] = "delete" /\ block[arg[t]] = None
  /\ IF back[arg[t]] = None
       THEN Destroyed(t, arg[t]) /\ UNCHANGED block
       ELSE /\ block' = [block EXCEPT ![arg[t]] = t]
            /\ Goto(t, "clear", arg[t])
            /\ UNCHANGED <<dead, shown, storage>>
  /\ UNCHANGED <<frontend, stored, back, live, made, cur, ref, slock, misuse>>

\* mSurface->clear() takes the surface's lock.
ClearSurface(t) ==
  LET b == arg[t]
      s == back[b]
      alive == live[s[1]] /\ made[s[1]] = s[2]
  IN  /\ pc[t] = "clear"
      /\ alive => slock[s[1]] = None
      /\ cur' = IF alive THEN [cur EXCEPT ![s[1]] = None] ELSE cur
      /\ misuse' = IF alive THEN misuse ELSE misuse \cup {"surface in ~WlBuffer()"}
      /\ block' = [block EXCEPT ![b] = None]
      /\ Destroyed(t, b)
      /\ UNCHANGED <<frontend, stored, back, live, made, ref, slock>>

-----------------------------------------------------------------------------
(***************************************************************************)
(* Surface::release(): mBuffer is read without the lock.                    *)
(***************************************************************************)
Close(t) ==
  /\ pc[t] = "idle" /\ live[t]
  /\ IF cur[t] = None THEN Goto(t, "close", None) ELSE Goto(t, "unlink", cur[t])
  /\ UNCHANGED <<frontend, stored, dead, shown, back, live, made, cur, ref, slock, block,
                 storage, misuse>>

\* mBuffer->setSurface(nullptr).
Unlink(t) ==
  /\ pc[t] = "unlink"
  /\ IF arg[t] \in dead
       THEN misuse' = misuse \cup {"buffer in release()"} /\ UNCHANGED back
       ELSE /\ block[arg[t]] = None
            /\ back' = [back EXCEPT ![arg[t]] = None]
            /\ UNCHANGED misuse
  /\ Goto(t, "close", None)
  /\ UNCHANGED <<frontend, stored, dead, shown, live, made, cur, ref, slock, block, storage>>

\* clear(), stop() and the destruction.
Closed(t) ==
  /\ pc[t] = "close" /\ slock[t] = None
  /\ cur' = [cur EXCEPT ![t] = None] /\ live' = [live EXCEPT ![t] = FALSE]
  /\ Goto(t, "idle", None)
  /\ UNCHANGED <<frontend, stored, dead, shown, back, made, ref, slock, block, storage, misuse>>

-----------------------------------------------------------------------------
(***************************************************************************)
(* onRelease(): the event names the buffer before its lock is taken.        *)
(***************************************************************************)
Deliver ==
  /\ pc[Dispatch] = "idle"
  /\ \E b \in shown : shown' = shown \ {b} /\ Goto(Dispatch, "released", b)
  /\ UNCHANGED <<frontend, stored, dead, back, live, made, cur, ref, slock, block, storage, misuse>>

\* Mutant: the buffer keeps its surface when the compositor releases it.
OnRelease_Keeps ==
  /\ pc[Dispatch] = "released" /\ Goto(Dispatch, "idle", None)
  /\ UNCHANGED <<frontend, stored, dead, shown, back, live, made, cur, ref, slock, block, storage, misuse>>
OnRelease ==
  LET b == arg[Dispatch]
  IN  /\ pc[Dispatch] = "released"
      /\ IF b \in dead
           THEN misuse' = misuse \cup {"buffer in onRelease()"} /\ UNCHANGED back
           ELSE /\ block[b] = None
                /\ back' = [back EXCEPT ![b] = None]
                /\ UNCHANGED misuse
      /\ Goto(Dispatch, "idle", None)
      /\ UNCHANGED <<frontend, stored, dead, shown, live, made, cur, ref, slock, block, storage>>

Next ==
  \/ \E t \in Threads : \/ Open(t) \/ Fetch(t) \/ LockToDraw(t) \/ Link(t) \/ DropReference(t)
                        \/ Detach(t) \/ LockToDelete(t) \/ ClearSurface(t)
                        \/ Close(t) \/ Unlink(t) \/ Closed(t)
  \/ Deliver \/ OnRelease

Spec == Init /\ [][Next]_vars

-----------------------------------------------------------------------------
\* The surfaces and the buffers whose lock a process is about to take.
NeededSurfaces(p) ==
  {t \in Threads : \/ pc[p] \in {"draw", "close"} /\ p = t
                   \/ pc[p] = "clear" /\ back[arg[p]] = <<t, made[t]>> /\ live[t]}
NeededBuffers(p) ==
  {b \in Buffers : /\ arg[p] = b
                   /\ \/ pc[p] \in {"link", "delete"}
                      \/ pc[p] \in {"unlink", "released"} /\ b \notin dead}

WaitsFor(p) == {slock[t] : t \in NeededSurfaces(p)} \cup {block[b] : b \in NeededBuffers(p)}

(***************************************************************************)
(* draw() takes the surface's lock and then the buffer's, ~WlBuffer() the   *)
(* buffer's and then the surface's: the reference draw() holds keeps the    *)
(* two from meeting on one buffer, whatever the frontend does.              *)
(***************************************************************************)
NoCircularWait ==
  \A ps \in (SUBSET Procs) \ {{}} : \E p \in ps : WaitsFor(p) \cap ps = {}

(***************************************************************************)
(* release(), ~WlBuffer() and onRelease() follow raw pointers.  With a      *)
(* frontend that detaches a buffer only when nothing shows it, none of them *)
(* reaches an object after its destructor; when it also detaches the one    *)
(* its connector shows, ~WlBuffer() still finds a living surface, and only  *)
(* a release handled in between can make the two others go wrong.           *)
(***************************************************************************)
NothingDeadUsed ==
  /\ frontend = "patient" => misuse = {}
  /\ frontend = "tidy" => "surface in ~WlBuffer()" \notin misuse
=============================================================================
