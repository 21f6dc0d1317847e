------------------------------- MODULE Surface -------------------------------
(***************************************************************************)
(* The Wayland connector (wayland/Connector.cpp) and the surface it draws  *)
(* to (wayland/Surface.cpp).                                               *)
(*                                                                         *)
(* Three threads share a Surface and take its mMutex:                      *)
(*   - the connector's control ring thread: SET_CONFIG creates and         *)
(*     destroys the surface, PG_FLIP draws (variable ctl);                 *)
(*   - the compositor dispatch thread, which delivers the wl_callback      *)
(*     "done" event of a frame request (variable dispatch);                *)
(*   - the surface's own thread run(), which answers a flip the compositor *)
(*     does not show within cFrameTimeoutMs (variable runPc).              *)
(* Every critical section of mMutex is one action.  The buffers drawn are  *)
(* abstracted: a flip is its number.                                       *)
(***************************************************************************)
EXTENDS Naturals, Sequences

CONSTANT MaxFlips    \* bound: page flips the frontend requests

ASSUME MaxFlipsAssumption == MaxFlips \in Nat

VARIABLES
  ctl,           \* where the ring thread is in the life of the surface
  dispatch,      \* the dispatch thread: idle, in frameHandler(), or there
                 \*   on a surface that was freed under it
  runPc,         \* the thread run(): about to look, waiting, timed waiting
  stored,        \* mStoredCallback: the flip it answers, or NoFlip
  frame,         \* life of *mWlFrameCallback; "none" is the null pointer,
                 \*   "dead" is one that was destroyed and not nulled
  waitForFrame,  \* mWaitForFrame
  terminate,     \* mTerminate
  issued,        \* number of the flip requested last
  events,        \* flips named by the flip events sent, oldest first
  left,          \* the flip in the freed memory dispatch is in, if it is
  drawFailed,    \* history: a draw() on this surface has thrown
  refused,       \* history: the draw() that stored the flip has thrown
  caught         \* history: frameHandler() ran in a freed surface

history == <<drawFailed, refused, caught>>

vars == <<ctl, dispatch, runPc, stored, frame, waitForFrame, terminate,
          issued, events, left, history>>

NoFlip == 0
Flips == 1 .. MaxFlips

\* The steps of Surface::release().
Releasing == {"clear", "stop", "join", "test", "destroy", "free"}
CtlStates == {"absent", "live", "crashed"} \cup Releasing
RunStates == {"none", "ready", "wait", "timed", "done"}
FrameStates == {"none", "requested", "deaf", "committed", "queued",
                "dead"}

Init ==
  /\ ctl = "absent"
  /\ dispatch = "idle"
  /\ runPc = "none"
  /\ stored = NoFlip
  /\ frame = "none"
  /\ waitForFrame = FALSE
  /\ terminate = FALSE
  /\ issued = 0
  /\ events = <<>>
  /\ left = NoFlip
  /\ drawFailed = FALSE
  /\ refused = FALSE
  /\ caught = FALSE

-----------------------------------------------------------------------------
(* Building blocks *)

\* Mutant: the notification is forgotten.
Notified_Dropped(pc) == pc

\* mCondVar.notify_one(): wakes run() if it is in the untimed wait.  A timed
\* wait only re-evaluates its predicate, which TimedOver covers.
Notified(pc) == IF pc = "wait" THEN "ready" ELSE pc

SendCallback_Keeps ==
  /\ stored' = stored
  /\ events' = IF stored = NoFlip THEN events ELSE Append(events, stored)

\* sendCallback(): calls the stored callback, if any, and forgets it.
SendCallback ==
  /\ stored' = NoFlip
  /\ events' = IF stored = NoFlip THEN events ELSE Append(events, stored)

\* What run() does at the top of its loop when nothing is stored.
NextWait == IF terminate THEN "done" ELSE "wait"

\* The process dies of what it did to freed memory.
Crash ==
  /\ ctl' = "crashed"
  /\ dispatch' = "idle"
  /\ runPc' = "none"
  /\ stored' = NoFlip
  /\ frame' = "none"
  /\ left' = NoFlip
  /\ UNCHANGED <<waitForFrame, terminate, issued, events, history>>

\* draw() asks for a frame event unless one is outstanding or the surface is
\* known to be inactive.
NeedsFrame == ~waitForFrame /\ frame = "none"

-----------------------------------------------------------------------------
(* The control ring thread *)

\* Connector::init(): new Surface (its thread starts), first draw() without
\* a callback.
InitConnector ==
  /\ ctl = "absent"
  /\ ctl' = "live"
  /\ runPc' = "ready"
  /\ stored' = NoFlip
  /\ frame' = "none"
  /\ waitForFrame' = FALSE
  /\ terminate' = FALSE
  /\ drawFailed' = FALSE
  /\ refused' = FALSE
  /\ UNCHANGED <<dispatch, issued, events, left, caught>>

\* Surface::draw() with a callback, up to its commit.
Draw ==
  /\ ctl = "live"
  /\ issued < MaxFlips
  /\ issued' = issued + 1
  /\ stored' = issued'
  /\ frame' = IF NeedsFrame \/ frame = "requested" THEN "committed" ELSE frame
  /\ runPc' = Notified(runPc)
  /\ refused' = FALSE
  /\ UNCHANGED <<ctl, dispatch, waitForFrame, terminate, events, left,
                 drawFailed, caught>>

\* draw() throws, because wl_surface_frame() fails, its listener cannot be
\* added or the buffer has another type: the callback is already stored, in
\* the place of the one before, nothing is committed and run() is not notified.
DrawFails ==
  /\ ctl = "live"
  /\ issued < MaxFlips
  /\ issued' = issued + 1
  /\ stored' = issued'
  /\ drawFailed' = TRUE
  /\ refused' = TRUE
  /\ \/ NeedsFrame /\ UNCHANGED frame
     \/ NeedsFrame /\ frame' = "deaf"
     \/ frame' = IF NeedsFrame THEN "requested" ELSE frame
  /\ UNCHANGED <<ctl, dispatch, runPc, waitForFrame, terminate, events, left,
                 caught>>

\* Connector::onRelease() drops the last reference: ~Surface, release().
Release ==
  /\ ctl = "live"
  /\ ctl' = "clear"
  /\ UNCHANGED <<dispatch, runPc, stored, frame, waitForFrame, terminate,
                 issued, events, left, history>>

\* Mutant: the frame callback is destroyed before the threads are stopped.
Clear_DestroysFrame ==
  /\ ctl = "clear"
  /\ ctl' = "stop"
  /\ frame' = "none"
  /\ UNCHANGED <<dispatch, runPc, stored, waitForFrame, terminate, issued,
                 events, left, history>>

\* clear(): an empty commit, which also commits a request made before it.
Clear ==
  /\ ctl = "clear"
  /\ ctl' = "stop"
  /\ frame' = IF frame = "requested" THEN "committed" ELSE frame
  /\ UNCHANGED <<dispatch, runPc, stored, waitForFrame, terminate, issued,
                 events, left, history>>

\* Mutant: run() is not notified of the termination.
Stop_Silent ==
  /\ ctl = "stop"
  /\ ctl' = "join"
  /\ terminate' = TRUE
  /\ UNCHANGED <<dispatch, runPc, stored, frame, waitForFrame, issued,
                 events, left, history>>

Stop ==
  /\ ctl = "stop"
  /\ ctl' = "join"
  /\ terminate' = TRUE
  /\ runPc' = Notified(runPc)
  /\ UNCHANGED <<dispatch, stored, frame, waitForFrame, issued, events,
                 left, history>>

Join ==
  /\ ctl = "join"
  /\ runPc = "done"
  /\ ctl' = "test"
  /\ UNCHANGED <<dispatch, runPc, stored, frame, waitForFrame, terminate,
                 issued, events, left, history>>

\* What follows runs beside the dispatch thread and takes no lock.  The
\* pointer is tested,
TestFrame ==
  /\ ctl = "test"
  /\ ctl' = IF frame = "none" THEN "free" ELSE "destroy"
  /\ UNCHANGED <<dispatch, runPc, stored, frame, waitForFrame, terminate,
                 issued, events, left, history>>

\* and the frame callback is destroyed, whose queued event is not delivered
\* any more.  frameHandler() may have destroyed it since the test: undefined.
DestroyFrame ==
  /\ ctl = "destroy"
  /\ \/ /\ ctl' = "free"
        /\ frame' = IF frame = "none" THEN "none" ELSE "dead"
        /\ UNCHANGED <<dispatch, runPc, stored, waitForFrame, terminate,
                       issued, events, left, history>>
     \/ frame = "none" /\ Crash

\* Mutant: the thread is not waited for, and outlives the surface.
Free_Detached ==
  /\ ctl \in {"join", "free"}
  /\ ctl' = "absent"
  /\ frame' = "none"
  /\ dispatch' = IF dispatch = "entered" THEN "stale" ELSE dispatch
  /\ left' = IF dispatch = "entered" THEN stored ELSE left
  /\ UNCHANGED <<runPc, stored, waitForFrame, terminate, issued, events,
                 history>>

\* The surface is destroyed and its memory is freed: a dispatch thread that is
\* in frameHandler() stays there, with what the memory last held.
Free ==
  /\ ctl = "free"
  /\ ctl' = "absent"
  /\ runPc' = "none"
  /\ stored' = NoFlip
  /\ frame' = "none"
  /\ dispatch' = IF dispatch = "entered" THEN "stale" ELSE dispatch
  /\ left' = IF dispatch = "entered" THEN stored ELSE left
  /\ UNCHANGED <<waitForFrame, terminate, issued, events, history>>

-----------------------------------------------------------------------------
(* The compositor and the dispatch thread *)

\* The compositor has shown what is committed and sends the "done" event.
Done ==
  /\ ctl # "crashed"
  /\ frame = "committed"
  /\ frame' = "queued"
  /\ UNCHANGED <<ctl, dispatch, runPc, stored, waitForFrame, terminate,
                 issued, events, left, history>>

\* The dispatch thread takes the event off its queue and calls sFrameHandler,
\* which has yet to get mMutex.
EnterFrameHandler ==
  /\ ctl # "crashed"
  /\ dispatch = "idle"
  /\ frame = "queued"
  /\ dispatch' = "entered"
  /\ UNCHANGED <<ctl, runPc, stored, frame, waitForFrame, terminate, issued,
                 events, left, history>>

\* Mutant: a surface that became inactive stays so.
FrameHandler_StaysInactive ==
  /\ dispatch = "entered"
  /\ dispatch' = "idle"
  /\ frame' = "none"
  /\ SendCallback
  /\ runPc' = IF waitForFrame THEN runPc ELSE Notified(runPc)
  /\ UNCHANGED <<ctl, waitForFrame, terminate, issued, left, history>>

\* frameHandler(): destroys the frame callback, answers the stored flip; an
\* inactive surface becomes active again.
HandleFrame ==
  /\ frame' = "none"
  /\ SendCallback
  /\ waitForFrame' = FALSE
  /\ runPc' = IF waitForFrame THEN runPc ELSE Notified(runPc)

\* Destroying the callback once more, after release(), is undefined: the
\* process dies, or it goes on.
FrameHandler ==
  /\ dispatch = "entered"
  /\ \/ /\ dispatch' = "idle"
        /\ HandleFrame
        /\ UNCHANGED <<ctl, terminate, issued, left, history>>
     \/ frame = "dead" /\ Crash

\* frameHandler() in a surface freed under it, undefined: the process dies, the
\* callback reads as empty, it is run as the memory last held it, or a new
\* surface is at the same address and the handler works on that one.
StaleFrameHandler ==
  /\ dispatch = "stale"
  /\ \/ Crash
     \/ /\ dispatch' = "idle"
        /\ left' = NoFlip
        /\ caught' = TRUE
        /\ \/ UNCHANGED <<runPc, stored, frame, waitForFrame, events>>
           \/ /\ left # NoFlip
              /\ events' = Append(events, left)
              /\ UNCHANGED <<runPc, stored, frame, waitForFrame>>
           \/ /\ ctl # "absent"
              /\ frame # "none"
              /\ HandleFrame
        /\ UNCHANGED <<ctl, terminate, issued, drawFailed, refused>>

\* The process is gone.
Crashed ==
  /\ ctl = "crashed"
  /\ UNCHANGED vars

-----------------------------------------------------------------------------
(* The surface's thread, run() *)

\* One pass of the loop, from acquiring the mutex to the wait that gives it
\* up: a new wait, an immediate answer when the surface is inactive, or the
\* start of a timed wait.
RunLooks ==
  /\ runPc = "ready"
  /\ \/ /\ terminate \/ stored = NoFlip
        /\ runPc' = NextWait
        /\ UNCHANGED <<stored, events>>
     \/ /\ ~terminate
        /\ stored # NoFlip
        /\ waitForFrame
        /\ SendCallback
        /\ runPc' = "wait"
     \/ /\ ~terminate
        /\ stored # NoFlip
        /\ ~waitForFrame
        /\ runPc' = "timed"
        /\ UNCHANGED <<stored, events>>
  /\ UNCHANGED <<ctl, dispatch, frame, waitForFrame, terminate, issued,
                 left, history>>

\* mCondVar.wait() may also return on its own.
SpuriousWakeup ==
  /\ runPc = "wait"
  /\ runPc' = "ready"
  /\ UNCHANGED <<ctl, dispatch, stored, frame, waitForFrame, terminate,
                 issued, events, left, history>>

\* The timed wait ends with its predicate true: the flip was answered.
TimedOver ==
  /\ runPc = "timed"
  /\ stored = NoFlip
  /\ runPc' = NextWait
  /\ UNCHANGED <<ctl, dispatch, stored, frame, waitForFrame, terminate,
                 issued, events, left, history>>

\* cFrameTimeoutMs passed: the surface is inactive and the flip is answered
\* without having been shown.  stop() does not end the timed wait.
FrameTimeout ==
  /\ runPc = "timed"
  /\ stored # NoFlip
  /\ waitForFrame' = TRUE
  /\ SendCallback
  /\ runPc' = NextWait
  /\ UNCHANGED <<ctl, dispatch, frame, terminate, issued, left, history>>

-----------------------------------------------------------------------------
RunThread == RunLooks \/ TimedOver \/ FrameTimeout
ReleaseSteps == Clear \/ Stop \/ Join \/ TestFrame \/ DestroyFrame \/ Free
Dispatch == EnterFrameHandler \/ FrameHandler \/ StaleFrameHandler

Next ==
  \/ InitConnector
  \/ Draw
  \/ DrawFails
  \/ Release
  \/ ReleaseSteps
  \/ Done
  \/ Dispatch
  \/ RunThread
  \/ SpuriousWakeup
  \/ Crashed

\* The three threads are scheduled and timers expire.  Nothing makes the
\* frontend send requests, or the compositor show a hidden surface.
Fairness ==
  /\ WF_vars(RunThread)
  /\ WF_vars(ReleaseSteps)
  /\ WF_vars(Dispatch)

Spec == Init /\ [][Next]_vars

FairSpec == Spec /\ Fairness

-----------------------------------------------------------------------------
(* Safety *)

\* Types of the variables.  That only numbers of flips appear in events says
\* that sendCallback() never calls an empty callback.
TypeOK ==
  /\ ctl \in CtlStates
  /\ dispatch \in {"idle", "entered", "stale"}
  /\ runPc \in RunStates
  /\ stored \in Flips \cup {NoFlip}
  /\ frame \in FrameStates
  /\ waitForFrame \in BOOLEAN
  /\ terminate \in BOOLEAN
  /\ issued \in 0 .. MaxFlips
  /\ events \in Seq(Flips)
  /\ left \in Flips \cup {NoFlip}
  /\ drawFailed \in BOOLEAN
  /\ refused \in BOOLEAN
  /\ caught \in BOOLEAN

\* No wakeup is lost: as long as no draw() fails, run() never sleeps in its
\* untimed wait while a flip is stored, although that wait has no predicate.
FlipIsWatched ==
  stored # NoFlip /\ ~drawFailed => runPc # "wait"

\* As long as no draw() fails, a flip stored on an active surface has a frame
\* event on its way, and so has an inactive surface: nothing but that event
\* clears mWaitForFrame, so without it page flips would never be paced again.
FrameArmed ==
  /\ ctl \notin {"absent", "crashed"}
  /\ waitForFrame \/ stored # NoFlip
  /\ ~drawFailed
  => frame # "none"

\* frameHandler() destroys mWlFrameCallback unconditionally: whenever it is
\* about to run on a surface that exists, the pointer is the callback whose
\* event is being handled, until release() has destroyed that callback, which
\* it does without the lock, and is about to free the surface.
HandlerOwnsCallback ==
  dispatch = "entered" =>
    frame = "queued" \/ (frame = "dead" /\ ctl = "free")

\* The flip callback captures the command handler: once ~Surface is through,
\* no flip event is sent until a surface exists again, but for a frameHandler()
\* that was under way when the memory was freed.  It can send one, of the flip
\* the surface held to the end.
LastEventOfSurface ==
  [][events' # events /\ ctl = "absent"
     => /\ dispatch = "stale" /\ dispatch' # "stale"
        /\ left # NoFlip
        /\ events' = Append(events, left)]_vars

\* Events name the flips in the order of the requests, none of them twice, as
\* long as no frameHandler() has run in a freed surface.
EventsInOrder ==
  ~caught => \A i, j \in 1 .. Len(events) : i < j => events[i] < events[j]

\* The flip the connector owes an event: one whose draw() threw was refused.
Owed == IF refused THEN NoFlip ELSE stored

Service == INSTANCE FlipService WITH current <- Owed

\* A draw() that throws has replaced the flip that was owed,
LosesOwed ==
  /\ refused'
  /\ issued' = issued + 1
  /\ Owed' = NoFlip
  /\ UNCHANGED events

\* and what it stored is answered as if it had been taken.
AnswersRefused ==
  /\ refused
  /\ stored = issued
  /\ stored' = NoFlip
  /\ events' = Append(events, stored)
  /\ Owed' = NoFlip
  /\ UNCHANGED issued

\* The handler caught in a freed surface sends what that surface owed.
SendsLeft ==
  /\ dispatch = "stale" /\ dispatch' # "stale"
  /\ left # NoFlip
  /\ events' = Append(events, left)
  /\ UNCHANGED <<issued, Owed>>

\* The connector implements the abstract flip service, but for what becomes of
\* a flip whose draw() threw and of a surface freed under frameHandler():
\* draw() stores the callback before it can throw, and release() takes no lock.
ImplementsFlipService ==
  /\ Service!Init
  /\ [][\/ Service!Next
        \/ LosesOwed
        \/ AnswersRefused
        \/ SendsLeft]_(Service!vars)

-----------------------------------------------------------------------------
(* Liveness *)

\* Whatever the compositor does, a stored flip is answered, superseded by a
\* newer one or dropped with the surface: as long as no draw() fails, the
\* frontend is never left waiting.
FlipAnswered == \A f \in Flips : (stored = f) ~> (stored # f \/ drawFailed)

\* Destroying a surface always ends: run() notices mTerminate whatever it was
\* waiting for, and join() returns.
ReleaseCompletes == (ctl \in Releasing) ~> (ctl \in {"absent", "crashed"})

\* Under a compositor that shows what is committed, an inactive surface becomes
\* active again, and its flips are paced by frames once more.
BecomesActive ==
  WF_vars(Done) =>
    (waitForFrame ~> \/ ~waitForFrame
                     \/ ctl \in {"absent", "crashed"}
                     \/ drawFailed)

=============================================================================
