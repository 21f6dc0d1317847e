------------------------------- MODULE DrmFlip -------------------------------
(***************************************************************************)
(* Page flips of one DRM connector (drm/Connector.cpp, drm/Display.cpp).   *)
(*                                                                         *)
(* The control ring thread stores mFlipPending and mFlipCallback, then     *)
(* asks the kernel for the flip (drmModePageFlip).  The kernel takes one   *)
(* flip at a time and queues an event on the DRM file descriptor when it   *)
(* is done.  The display's event thread reads the event and calls          *)
(* flipFinished() on the connector.  No lock orders the two threads, so    *)
(* each touch of the shared fields is a step of its own.  A flip is its    *)
(* number; the buffer shown is abstracted.                                 *)
(***************************************************************************)
EXTENDS Naturals, Sequences

CONSTANTS
  MaxFlips,        \* bound: page flips the frontend requests
  Patient          \* the frontend waits for the event of a flip it was granted
                   \*   before it requests the next one

ASSUME MaxFlipsAssumption == MaxFlips \in Nat
ASSUME PatientAssumption == Patient \in BOOLEAN

VARIABLES
  ring,          \* the ring thread: between requests, inside pageFlip(), in
                 \*   the steps of ~Connector, or past it
  initialized,   \* isInitialized(): a CRTC is assigned
  flipPending,   \* mFlipPending
  flipCallback,  \* mFlipCallback: the flip it names, NoFlip when null
  kernel,        \* the flip the kernel is performing, or NoFlip
  fdQueue,       \* events on the DRM file descriptor: the flips completed
  ev,            \* the event thread inside handleFlipEvent()
  evFlip,        \* the completed flip it is handling
  issued,        \* number of the flip requested last
  events,        \* flips named by the flip events sent, oldest first
  late           \* history: the 100 ms of ~Connector passed before the flip in
                 \*   progress was over and its event handled

connVars == <<initialized, flipPending, flipCallback>>
evVars == <<ev, evFlip, events>>
vars == <<ring, connVars, kernel, fdQueue, evVars, issued, late>>

NoFlip == 0
Flips == 1 .. MaxFlips

RingStates == {"idle", "store", "submit", "sleep", "check", "gone", "crashed"}

Init ==
  /\ ring = "idle"
  /\ initialized = FALSE
  /\ flipPending = FALSE
  /\ flipCallback = NoFlip
  /\ kernel = NoFlip
  /\ fdQueue = <<>>
  /\ ev = "idle"
  /\ evFlip = NoFlip
  /\ issued = 0
  /\ events = <<>>
  /\ late = FALSE

\* The flip the kernel took and whose event has not been sent.
Owed ==
  IF ev # "idle" THEN evFlip
  ELSE IF fdQueue # <<>> THEN Head(fdQueue)
  ELSE kernel

-----------------------------------------------------------------------------
(* The control ring thread *)

\* Connector::init() and release() as pageFlip() sees them (DrmCrtc has the
\* rest).  Neither touches the flip fields.
SetConfig ==
  /\ ring = "idle"
  /\ initialized' \in BOOLEAN
  /\ UNCHANGED <<ring, flipPending, flipCallback, kernel, fdQueue, evVars,
                 issued, late>>

\* Mutant: the flip is not marked as pending.
PageFlip_Unmarked ==
  /\ ring = "idle"
  /\ initialized
  /\ issued < MaxFlips
  /\ Patient => Owed = NoFlip
  /\ issued' = issued + 1
  /\ ring' = "store"
  /\ UNCHANGED <<connVars, kernel, fdQueue, evVars, late>>

\* Connector::pageFlip(): refused when the connector is not initialized;
\* otherwise mFlipPending is set first.
PageFlip ==
  /\ ring = "idle"
  /\ initialized
  /\ issued < MaxFlips
  /\ Patient => Owed = NoFlip
  /\ issued' = issued + 1
  /\ flipPending' = TRUE
  /\ ring' = "store"
  /\ UNCHANGED <<initialized, flipCallback, kernel, fdQueue, evVars, late>>

\* Mutant: the callback of the flip before is kept.
StoreCallback_Stale ==
  /\ ring = "store"
  /\ ring' = "submit"
  /\ flipCallback' = IF flipCallback = NoFlip THEN issued ELSE flipCallback
  /\ UNCHANGED <<initialized, flipPending, kernel, fdQueue, evVars, issued,
                 late>>

\* mFlipCallback is stored next.
StoreCallback ==
  /\ ring = "store"
  /\ ring' = "submit"
  /\ flipCallback' = issued
  /\ UNCHANGED <<initialized, flipPending, kernel, fdQueue, evVars, issued,
                 late>>

\* drmModePageFlip(): taken, or refused for any reason, always when a flip is in
\* progress (EBUSY).  The throw leaves mFlipPending and mFlipCallback as they are.
Submit ==
  /\ ring = "submit"
  /\ ring' = "idle"
  /\ \/ /\ kernel = NoFlip
        /\ kernel' = issued
     \/ UNCHANGED kernel
  /\ UNCHANGED <<connVars, fdQueue, evVars, issued, late>>

\* Mutant: the connector is deleted at once.
Destroy_NoSleep ==
  /\ ring = "idle"
  /\ ring' = "check"
  /\ UNCHANGED <<connVars, kernel, fdQueue, evVars, issued, late>>

\* ~Connector: sleep 100 ms if a flip is pending.
Destroy ==
  /\ ring = "idle"
  /\ ring' = IF flipPending THEN "sleep" ELSE "check"
  /\ UNCHANGED <<connVars, kernel, fdQueue, evVars, issued, late>>

SleepOver ==
  /\ ring = "sleep"
  /\ ring' = "check"
  /\ late' = (Owed # NoFlip)
  /\ UNCHANGED <<connVars, kernel, fdQueue, evVars, issued>>

\* The rest of ~Connector: an error is logged if the flip is still pending,
\* then release().
Delete ==
  /\ ring = "check"
  /\ ring' = "gone"
  /\ initialized' = FALSE
  /\ UNCHANGED <<flipPending, flipCallback, kernel, fdQueue, evVars, issued,
                 late>>

-----------------------------------------------------------------------------
(* The kernel and the display's event thread *)

KernelDone ==
  /\ ring # "crashed"
  /\ kernel # NoFlip
  /\ fdQueue' = Append(fdQueue, kernel)
  /\ kernel' = NoFlip
  /\ UNCHANGED <<ring, connVars, evVars, issued, late>>

\* eventThread(): drmHandleEvent() reads an event and calls handleFlipEvent()
\* with the connector it was submitted with.
HandleEvent ==
  /\ ring \notin {"gone", "crashed"}
  /\ ev = "idle"
  /\ fdQueue # <<>>
  /\ ev' = "entered"
  /\ evFlip' = Head(fdQueue)
  /\ fdQueue' = Tail(fdQueue)
  /\ UNCHANGED <<ring, connVars, kernel, issued, events, late>>

\* flipFinished(): an event nobody expects is dropped.
FlipFinished ==
  /\ ring \notin {"gone", "crashed"}
  /\ ev = "entered"
  /\ IF flipPending THEN ev' = "call" ELSE ev' = "idle"
  /\ flipPending' = FALSE
  /\ UNCHANGED <<ring, initialized, flipCallback, kernel, fdQueue, evFlip,
                 issued, events, late>>

\* The rest of flipFinished(): mFlipCallback, as it is now, sends the event.
SendFlipEvent ==
  /\ ring \notin {"gone", "crashed"}
  /\ ev = "call"
  /\ ev' = "idle"
  /\ events' = IF flipCallback = NoFlip THEN events
               ELSE Append(events, flipCallback)
  /\ UNCHANGED <<ring, connVars, kernel, fdQueue, evFlip, issued, late>>

\* handleFlipEvent() on a connector that was deleted, before or under it, is
\* undefined.  The memory freed may still serve (the event is dropped, or sent
\* by the callback that was being called), or the process dies.
DanglingEvent ==
  /\ ring = "gone"
  /\ \/ /\ ev = "idle"
        /\ fdQueue # <<>>
        /\ fdQueue' = Tail(fdQueue)
        /\ UNCHANGED <<ev, events>>
     \/ /\ ev # "idle"
        /\ ev' = "idle"
        /\ UNCHANGED <<fdQueue, events>>
     \/ /\ ev = "call"
        /\ ev' = "idle"
        /\ events' = Append(events, flipCallback)
        /\ UNCHANGED fdQueue
  /\ ring' \in {"gone", "crashed"}
  /\ UNCHANGED <<connVars, kernel, evFlip, issued, late>>

\* The connector is gone for good.
Gone ==
  /\ ring \in {"gone", "crashed"}
  /\ UNCHANGED vars

-----------------------------------------------------------------------------
RingThread == StoreCallback \/ Submit \/ SleepOver \/ Delete
EventThread == HandleEvent \/ FlipFinished \/ SendFlipEvent \/ DanglingEvent

Next ==
  \/ SetConfig
  \/ PageFlip
  \/ Destroy
  \/ RingThread
  \/ KernelDone
  \/ EventThread
  \/ Gone

\* Threads run and the kernel completes the flips it took; no request has to
\* come.
Fairness ==
  /\ WF_vars(RingThread)
  /\ WF_vars(EventThread)
  /\ WF_vars(KernelDone)

Spec == Init /\ [][Next]_vars

FairSpec == Spec /\ Fairness

-----------------------------------------------------------------------------
(* Safety *)

\* Types of the variables.
TypeOK ==
  /\ ring \in RingStates
  /\ initialized \in BOOLEAN
  /\ flipPending \in BOOLEAN
  /\ flipCallback \in Flips \cup {NoFlip}
  /\ kernel \in Flips \cup {NoFlip}
  /\ fdQueue \in Seq(Flips)
  /\ ev \in {"idle", "entered", "call"}
  /\ evFlip \in Flips \cup {NoFlip}
  /\ issued \in 0 .. MaxFlips
  /\ events \in Seq(Flips)
  /\ late \in BOOLEAN

\* While the kernel owes a flip event to a patient frontend, the connector
\* expects it: flipFinished() will neither drop it as unexpected nor call a
\* callback other than that flip's.
OwedFlipIsExpected ==
  Owed # NoFlip => (ev = "call" \/ flipPending) /\ flipCallback = Owed

\* If the flip in progress makes it in time, ~Connector leaves none behind whose
\* event would point to freed memory: what it waits for is enough for the flip
\* itself, the event and the check of flipFinished().  It is not enough for the
\* callback, which flipFinished() calls after it has cleared mFlipPending.
NoDanglingEvent ==
  ring = "gone" /\ ~late => kernel = NoFlip /\ fdQueue = <<>> /\ ev # "entered"

\* A flip event is sent only for the flip the kernel has completed: "event
\* from back to front on page flip completed" (displif.h).
EventNamesCompletedFlip ==
  [][events' # events => events' = Append(events, evFlip)]_vars

\* The connector implements the abstract flip service: a request counts as
\* taken, or refused, when the ioctl returns.
Service == INSTANCE FlipService WITH
  issued <- IF ring \in {"store", "submit"} THEN issued - 1 ELSE issued,
  current <- Owed

ImplementsFlipService == Service!Spec

-----------------------------------------------------------------------------
(* Liveness *)

\* Every flip the kernel took is reported, unless the connector is deleted
\* first: the frontend's wait always ends.
FlipReported ==
  \A f \in Flips :
    (kernel = f) ~> \/ \E i \in 1 .. Len(events) : events[i] = f
                    \/ ring \in {"gone", "crashed"}

=============================================================================
