----------------------------- MODULE SurfaceProofs -----------------------------
(***************************************************************************)
(* Theorems about Surface for any number of flips.                         *)
(*                                                                         *)
(* Clean and HandlerOwnsCallback hold whatever fails.  They and the types  *)
(* show where the connector is the flip service and where it is not.       *)
(* Paced, that no flip is forgotten and no surface stays inactive for      *)
(* good, holds as long as no draw() fails, and Ordered, that events come   *)
(* in the order of the requests, until a frame event meets a freed surface.*)
(***************************************************************************)
EXTENDS Surface, TLAPS

USE MaxFlipsAssumption

\* Without a surface there is no callback of any kind, the thread is joined
\* before the rest of release(), and a refused flip is the one requested last.
Clean ==
  /\ ctl \in {"absent", "crashed"} =>
       stored = NoFlip /\ frame = "none" /\ runPc = "none"
  /\ ctl \in {"test", "destroy", "free"} => runPc = "done"
  /\ ctl = "crashed" => dispatch = "idle"
  /\ frame = "dead" => ctl = "free"
  /\ stored \in {NoFlip, issued}

IInv == TypeOK /\ Clean /\ HandlerOwnsCallback

LEMMA InitIInv == Init => IInv
<1> SUFFICES ASSUME Init
             PROVE  IInv
  OBVIOUS
<1>1. ctl \in CtlStates /\ runPc \in RunStates /\ frame \in FrameStates
  BY DEF Init, CtlStates, RunStates, FrameStates
<1>2. issued \in 0 .. MaxFlips
  BY DEF Init
<1>3. <<>> \in Seq(Flips)
  OBVIOUS
<1>4. events \in Seq(Flips)
  BY <1>3 DEF Init
<1>5. /\ waitForFrame \in BOOLEAN /\ terminate \in BOOLEAN
       /\ drawFailed \in BOOLEAN /\ refused \in BOOLEAN /\ caught \in BOOLEAN
       /\ left \in Flips \cup {NoFlip}
  BY DEF Init
<1>6. TypeOK
  BY <1>1, <1>2, <1>4, <1>5 DEF Init, TypeOK
<1>7. QED
  BY <1>6 DEF Init, IInv, Clean, HandlerOwnsCallback

\* sendCallback() appends a flip, or does nothing.
LEMMA SendCallbackType ==
  ASSUME TypeOK, SendCallback
  PROVE  /\ stored' \in Flips \cup {NoFlip}
         /\ events' \in Seq(Flips)
  BY DEF TypeOK, SendCallback, NoFlip

\* A process that died keeps the invariant.
LEMMA CrashIInv ==
  ASSUME IInv, Crash
  PROVE  IInv'
  BY DEF IInv, TypeOK, Clean, HandlerOwnsCallback, CtlStates, RunStates,
         FrameStates, Crash, history

\* The types after the body of frameHandler().
LEMMA HandleFrameType ==
  ASSUME TypeOK, HandleFrame
  PROVE  /\ stored' = NoFlip
         /\ events' \in Seq(Flips)
         /\ frame' = "none"
         /\ runPc' \in RunStates
         /\ runPc \notin {"wait"} => runPc' = runPc
         /\ waitForFrame' \in BOOLEAN
  BY SendCallbackType DEF HandleFrame, SendCallback, Notified, RunStates, TypeOK

LEMMA NextIInv == IInv /\ [Next]_vars => IInv'
<1> SUFFICES ASSUME IInv, [Next]_vars
             PROVE  IInv'
  OBVIOUS
<1> USE DEF IInv, TypeOK, Clean, HandlerOwnsCallback, CtlStates, Releasing,
            RunStates, FrameStates, history
<1>1. CASE InitConnector
  BY <1>1 DEF InitConnector
<1>2. CASE Draw
  <2>1. /\ issued \in 0 .. MaxFlips /\ issued < MaxFlips
        /\ issued' = issued + 1 /\ stored' = issued'
    BY <1>2 DEF Draw
  <2>2. issued' \in 0 .. MaxFlips /\ stored' \in Flips
    BY <2>1 DEF Flips
  <2>3. frame' \in FrameStates /\ (frame' = "dead" => frame = "dead")
        /\ (frame = "queued" => frame' = "queued")
    BY <1>2 DEF Draw, NeedsFrame
  <2>4. runPc' \in RunStates
    BY <1>2 DEF Draw, Notified
  <2>5. QED
    BY <1>2, <2>1, <2>2, <2>3, <2>4 DEF Draw
<1>3. CASE DrawFails
  BY <1>3 DEF DrawFails, NeedsFrame, Flips, NoFlip
<1>4. CASE Release
  BY <1>4 DEF Release
<1>5. CASE Clear
  BY <1>5 DEF Clear
<1>6. CASE Stop
  BY <1>6 DEF Stop, Notified
<1>7. CASE Join \/ TestFrame
  BY <1>7 DEF Join, TestFrame
<1>8. CASE DestroyFrame
  BY <1>8, CrashIInv DEF DestroyFrame
<1>9. CASE Free
  BY <1>9 DEF Free
<1>10. CASE Done
  BY <1>10 DEF Done
<1>11. CASE EnterFrameHandler
  BY <1>11 DEF EnterFrameHandler
<1>12. CASE FrameHandler
  BY <1>12, HandleFrameType, CrashIInv DEF FrameHandler
<1>13. CASE StaleFrameHandler
  <2>1. CASE Crash
    BY <2>1, CrashIInv
  <2>2. CASE HandleFrame /\ ctl # "absent" /\ ~Crash
    BY <1>13, <2>2, HandleFrameType DEF StaleFrameHandler
  <2>3. CASE UNCHANGED <<runPc, stored, frame, waitForFrame>> /\ ~Crash
    <3>1. events' \in Seq(Flips)
      BY <1>13, <2>3, HandleFrameType DEF StaleFrameHandler, NoFlip
    <3>2. left' = NoFlip /\ caught' = TRUE /\ dispatch' = "idle"
      BY <1>13, <2>3 DEF StaleFrameHandler
    <3>3. UNCHANGED <<ctl, terminate, issued, drawFailed, refused>>
      BY <1>13, <2>3 DEF StaleFrameHandler
    <3>4. QED
      BY <2>3, <3>1, <3>2, <3>3
  <2>4. QED
    BY <1>13, <2>1, <2>2, <2>3 DEF StaleFrameHandler
<1>14. CASE Crashed
  BY <1>14 DEF Crashed, vars
<1>15. CASE RunLooks
  BY <1>15, SendCallbackType DEF RunLooks, NextWait, SendCallback
<1>16. CASE SpuriousWakeup
  BY <1>16 DEF SpuriousWakeup
<1>17. CASE TimedOver
  BY <1>17 DEF TimedOver, NextWait
<1>18. CASE FrameTimeout
  BY <1>18, SendCallbackType DEF FrameTimeout, NextWait, SendCallback
<1>19. CASE UNCHANGED vars
  BY <1>19 DEF vars
<1>20. QED
  BY <1>1, <1>2, <1>3, <1>4, <1>5, <1>6, <1>7, <1>8, <1>9, <1>10, <1>11,
     <1>12, <1>13, <1>14, <1>15, <1>16, <1>17, <1>18, <1>19
     DEF Next, ReleaseSteps, Dispatch, RunThread

\* The types, and that nothing is left of a surface that was destroyed.
THEOREM Inductive == Spec => []IInv
  BY InitIInv, NextIInv, PTL DEF Spec

\* Types of the variables; sendCallback() never calls an empty callback.
THEOREM TypeCorrect == Spec => []TypeOK
  BY Inductive, PTL DEF IInv

\* frameHandler() never destroys a null or a foreign wl_callback, nor one that is
\* destroyed, but for what the unlocked end of release() does under it.
THEOREM CallbackOwned == Spec => []HandlerOwnsCallback
  BY Inductive, PTL DEF IInv

-----------------------------------------------------------------------------
\* Without a surface a flip event is sent by a frameHandler() that was under
\* way when it was freed, and by nobody else, and it is of the flip left there.
THEOREM SilentWhenAbsent == Spec => LastEventOfSurface
<1> DEFINE Last == /\ dispatch = "stale" /\ dispatch' # "stale"
                   /\ left # NoFlip
                   /\ events' = Append(events, left)
<1>1. IInv /\ [Next]_vars => [events' # events /\ ctl = "absent" => Last]_vars
  <2> SUFFICES ASSUME IInv, Next, events' # events, ctl = "absent"
               PROVE  Last
    OBVIOUS
  <2>1. CASE FrameHandler
    BY <2>1 DEF FrameHandler, IInv, Clean, HandlerOwnsCallback
  <2>2. CASE RunLooks
    BY <2>2 DEF RunLooks, IInv, Clean
  <2>3. CASE FrameTimeout
    BY <2>3 DEF FrameTimeout, IInv, Clean
  <2>4. CASE StaleFrameHandler
    BY <2>4 DEF StaleFrameHandler, Crash
  <2>5. QED
    BY <2>1, <2>2, <2>3, <2>4
       DEF Next, ReleaseSteps, Dispatch, RunThread, InitConnector, Draw,
           DrawFails, Release, Clear, Stop, Join, TestFrame, DestroyFrame,
           Crash, Free, Done, EnterFrameHandler, Crashed, SpuriousWakeup,
           TimedOver, vars
<1>2. QED
  BY <1>1, Inductive, PTL DEF Spec, LastEventOfSurface

-----------------------------------------------------------------------------
\* The frame callback is neither uncommitted nor deaf.
FrameSound == drawFailed \/ frame \in {"none", "committed", "queued", "dead"}

Paced == FrameSound /\ FlipIsWatched /\ FrameArmed

LEMMA CrashPaced ==
  ASSUME Paced, Crash
  PROVE  Paced'
  BY DEF Paced, FrameSound, FlipIsWatched, FrameArmed, Crash, history

LEMMA HandleFramePaced ==
  ASSUME HandleFrame, UNCHANGED <<ctl, drawFailed>>
  PROVE  Paced'
  BY DEF Paced, FrameSound, FlipIsWatched, FrameArmed, HandleFrame, SendCallback

LEMMA NextPaced ==
  ASSUME IInv, Paced, [Next]_vars
  PROVE  Paced'
<1> USE DEF Paced, FrameSound, FlipIsWatched, FrameArmed, history
<1>1. CASE InitConnector
  BY <1>1 DEF InitConnector
<1>2. CASE Draw
  BY <1>2 DEF Draw, Notified, NeedsFrame, IInv, Clean
<1>3. CASE DrawFails
  BY <1>3 DEF DrawFails
<1>4. CASE Release
  BY <1>4 DEF Release
<1>5. CASE Clear \/ Stop \/ Join \/ TestFrame \/ Free
  BY <1>5 DEF Clear, Stop, Join, TestFrame, Free, Notified
<1>6. CASE DestroyFrame
  BY <1>6, CrashPaced DEF DestroyFrame
<1>7. CASE Done
  BY <1>7 DEF Done
<1>8. CASE EnterFrameHandler
  BY <1>8 DEF EnterFrameHandler
<1>9. CASE FrameHandler
  BY <1>9, CrashPaced, HandleFramePaced DEF FrameHandler
<1>10. CASE StaleFrameHandler
  BY <1>10, CrashPaced, HandleFramePaced DEF StaleFrameHandler
<1>11. CASE RunLooks
  BY <1>11 DEF RunLooks, SendCallback, NextWait
<1>12. CASE SpuriousWakeup
  BY <1>12 DEF SpuriousWakeup
<1>13. CASE TimedOver
  BY <1>13 DEF TimedOver, NextWait
<1>14. CASE FrameTimeout
  BY <1>14 DEF FrameTimeout, SendCallback, NextWait, IInv, Clean
<1>15. CASE UNCHANGED vars
  BY <1>15 DEF vars
<1>16. QED
  BY <1>1, <1>2, <1>3, <1>4, <1>5, <1>6, <1>7, <1>8, <1>9, <1>10, <1>11,
     <1>12, <1>13, <1>14, <1>15
     DEF Next, ReleaseSteps, Dispatch, RunThread, Crashed

\* As long as no draw() fails, no wakeup of run() is lost.
THEOREM NoLostWakeup == Spec => []FlipIsWatched
<1>1. Init => Paced
  BY DEF Init, Paced, FrameSound, FlipIsWatched, FrameArmed, NoFlip
<1>2. IInv /\ Paced /\ [Next]_vars => Paced'
  BY NextPaced
<1>3. Paced => FlipIsWatched
  BY DEF Paced
<1>4. QED
  BY <1>1, <1>2, <1>3, Inductive, PTL DEF Spec

\* As long as no draw() fails, a stored flip on an active surface, and every
\* inactive surface, has a frame event to come.
THEOREM FrameEventToCome == Spec => []FrameArmed
<1>1. Init => Paced
  BY DEF Init, Paced, FrameSound, FlipIsWatched, FrameArmed, NoFlip
<1>2. IInv /\ Paced /\ [Next]_vars => Paced'
  BY NextPaced
<1>3. Paced => FrameArmed
  BY DEF Paced
<1>4. QED
  BY <1>1, <1>2, <1>3, Inductive, PTL DEF Spec

-----------------------------------------------------------------------------
(* The flip service is implemented, but for the listed steps *)

\* What a step of the connector may do to the flips.
ServiceStep ==
  Service!Next \/ LosesOwed \/ AnswersRefused \/ SendsLeft

LEMMA SendCallbackAnswers ==
  ASSUME IInv, SendCallback, UNCHANGED <<issued, refused>>
  PROVE  [ServiceStep]_(Service!vars)
<1> USE DEF Service!NoFlip, NoFlip, Owed
<1>1. CASE stored = NoFlip
  BY <1>1 DEF SendCallback, Service!vars
<1>2. CASE stored # NoFlip /\ ~refused
  <2>1. Service!Answer
    BY <1>2 DEF SendCallback, Service!Answer
  <2>2. QED
    BY <2>1 DEF Service!Next, ServiceStep
<1>3. CASE stored # NoFlip /\ refused
  <2>1. AnswersRefused
    BY <1>3 DEF SendCallback, AnswersRefused, IInv, Clean
  <2>2. QED
    BY <2>1 DEF ServiceStep
<1>4. QED
  BY <1>1, <1>2, <1>3 DEF IInv, TypeOK

LEMMA StoredDropped ==
  ASSUME stored' = NoFlip, UNCHANGED <<issued, events>>
  PROVE  [ServiceStep]_(Service!vars)
<1> USE DEF Service!NoFlip, NoFlip, Owed
<1>1. CASE Owed = NoFlip
  BY <1>1 DEF Service!vars
<1>2. CASE Owed # NoFlip
  <2>1. Service!Drop
    BY <1>2 DEF Service!Drop
  <2>2. QED
    BY <2>1 DEF Service!Next, ServiceStep
<1>3. QED
  BY <1>1, <1>2

\* Whatever the threads and the compositor do, and whatever fails, page flips
\* of the Wayland connector are answered as the flip service allows, but for
\* what comes of a draw() that throws and of a surface freed under its handler.
THEOREM Refinement == Spec => ImplementsFlipService
<1>1. Init => Service!Init
  BY DEF Init, Service!Init, Service!NoFlip, NoFlip, Owed
<1>2. IInv /\ [Next]_vars => [ServiceStep]_(Service!vars)
  <2> SUFFICES ASSUME IInv, [Next]_vars
               PROVE  [ServiceStep]_(Service!vars)
    OBVIOUS
  <2> USE DEF history
  <2>1. CASE InitConnector
    BY <2>1, StoredDropped DEF InitConnector
  <2>2. CASE Draw
    <3>1. Service!Accept
      BY <2>2 DEF Draw, Service!Accept, Owed, IInv, TypeOK
    <3>2. QED
      BY <3>1 DEF Service!Next, ServiceStep
  <2>3. CASE DrawFails
    <3>1. LosesOwed
      BY <2>3 DEF DrawFails, LosesOwed, Owed
    <3>2. QED
      BY <3>1 DEF ServiceStep
  <2>4. CASE Free \/ Crash
    BY <2>4, StoredDropped DEF Free, Crash
  <2>5. CASE FrameHandler /\ ~Crash
    BY <2>5, SendCallbackAnswers DEF FrameHandler, HandleFrame
  <2>6. CASE StaleFrameHandler /\ ~Crash
    <3>1. CASE UNCHANGED <<stored, events>>
      BY <2>6, <3>1 DEF StaleFrameHandler, Service!vars, Owed
    <3>2. CASE HandleFrame
      BY <2>6, <3>2, SendCallbackAnswers DEF StaleFrameHandler, HandleFrame
    <3>3. CASE UNCHANGED stored /\ left # NoFlip /\ events' = Append(events, left)
      <4>1. SendsLeft
        BY <2>6, <3>3 DEF StaleFrameHandler, SendsLeft, Owed
      <4>2. QED
        BY <4>1 DEF ServiceStep
    <3>4. QED
      BY <2>6, <3>1, <3>2, <3>3 DEF StaleFrameHandler
  <2>7. CASE RunLooks
    BY <2>7, SendCallbackAnswers DEF RunLooks, Service!vars, Owed
  <2>8. CASE FrameTimeout
    BY <2>8, SendCallbackAnswers DEF FrameTimeout
  <2>9. CASE \/ Release \/ Clear \/ Stop \/ Join \/ TestFrame
             \/ DestroyFrame /\ ~Crash
             \/ Done \/ EnterFrameHandler
             \/ TimedOver \/ SpuriousWakeup \/ Crashed \/ UNCHANGED vars
    BY <2>9 DEF Release, Clear, Stop, Join, TestFrame, DestroyFrame, Done,
                EnterFrameHandler, TimedOver, SpuriousWakeup, Crashed, vars,
                Service!vars, Owed
  <2>10. QED
    BY <2>1, <2>2, <2>3, <2>4, <2>5, <2>6, <2>7, <2>8, <2>9
       DEF Next, ReleaseSteps, Dispatch, RunThread
<1>3. QED
  BY <1>1, <1>2, Inductive, PTL DEF Spec, ImplementsFlipService, ServiceStep

-----------------------------------------------------------------------------
(* What the flip service guarantees, whatever implements it: here with the   *)
(* connector's variables in the place of its own.                            *)

\* The variables of the service keep their types.
LEMMA ServiceTypes == Service!Spec => []Service!TypeOK
<1>1. Service!Init => Service!TypeOK
  BY DEF Service!Init, Service!TypeOK, Service!NoFlip
<1>2. Service!TypeOK /\ [Service!Next]_(Service!vars) => Service!TypeOK'
  <2> SUFFICES ASSUME Service!TypeOK, [Service!Next]_(Service!vars)
               PROVE  Service!TypeOK'
    OBVIOUS
  <2> USE DEF Service!TypeOK, Service!NoFlip
  <2>1. CASE Service!Accept
    BY <2>1 DEF Service!Accept
  <2>2. CASE Service!Refuse
    BY <2>2 DEF Service!Refuse
  <2>3. CASE Service!Answer
    BY <2>3 DEF Service!Answer
  <2>4. CASE Service!Drop
    BY <2>4 DEF Service!Drop
  <2>5. CASE UNCHANGED Service!vars
    BY <2>5 DEF Service!vars
  <2>6. QED
    BY <2>1, <2>2, <2>3, <2>4, <2>5 DEF Service!Next
<1>3. QED
  BY <1>1, <1>2, PTL DEF Service!Spec

\* Appending a number greater than every element keeps a sequence of numbers
\* increasing.
LEMMA AppendGreater ==
  ASSUME NEW s \in Seq(Nat), NEW x \in Nat,
         \A i, j \in 1 .. Len(s) : i < j => s[i] < s[j],
         \A i \in 1 .. Len(s) : s[i] < x
  PROVE  \A i, j \in 1 .. Len(Append(s, x)) :
            i < j => Append(s, x)[i] < Append(s, x)[j]
<1> DEFINE t == Append(s, x)
<1> SUFFICES ASSUME NEW i \in 1 .. Len(t), NEW j \in 1 .. Len(t), i < j
             PROVE  t[i] < t[j]
  OBVIOUS
<1>1. Len(t) = Len(s) + 1 /\ Len(s) \in Nat
  OBVIOUS
<1>2. i \in 1 .. Len(s) /\ t[i] = s[i]
  BY <1>1
<1>3. CASE j = Len(s) + 1
  BY <1>2, <1>3
<1>4. CASE j \in 1 .. Len(s)
  BY <1>2, <1>4
<1>5. QED
  BY <1>1, <1>3, <1>4

\* Events name flips in the order they were taken and none of them twice,
\* whatever is superseded, refused or dropped in between.
THEOREM ServiceInOrder == Service!Spec => []Service!EventsInOrder
<1>1. Service!Init => Service!EventsInOrder
  BY DEF Service!Init, Service!EventsInOrder
<1>2. /\ Service!TypeOK /\ Service!TypeOK' /\ Service!EventsInOrder
      /\ [Service!Next]_(Service!vars)
      => Service!EventsInOrder'
  <2> SUFFICES ASSUME Service!TypeOK, Service!TypeOK', Service!EventsInOrder, [Service!Next]_(Service!vars)
               PROVE  Service!EventsInOrder'
    OBVIOUS
  <2> USE DEF Service!TypeOK, Service!NoFlip
  <2>1. CASE Service!Accept
    BY <2>1 DEF Service!Accept, Service!EventsInOrder
  <2>2. CASE Service!Refuse
    BY <2>2 DEF Service!Refuse, Service!EventsInOrder
  <2>3. CASE Service!Answer
    <3>1. events' = Append(events, Owed) /\ issued' = issued
          /\ Owed # Service!NoFlip /\ Owed' = Service!NoFlip
      BY <2>3 DEF Service!Answer
    <3>2. \A i \in 1 .. Len(events) : events[i] < Owed
      BY <3>1 DEF Service!EventsInOrder
    <3>3. \A i, j \in 1 .. Len(events') : i < j => events'[i] < events'[j]
      <4>1. events \in Seq(Nat) /\ Owed \in Nat
        OBVIOUS
      <4>2. \A i, j \in 1 .. Len(events) : i < j => events[i] < events[j]
        BY DEF Service!EventsInOrder
      <4>3. \A i, j \in 1 .. Len(Append(events, Owed)) :
              i < j => Append(events, Owed)[i] < Append(events, Owed)[j]
        BY <3>2, <4>1, <4>2, AppendGreater
      <4>4. QED
        BY <3>1, <4>3
    <3>4. \A i \in 1 .. Len(events') : events'[i] \in 1 .. issued'
      BY <3>1 DEF Service!EventsInOrder
    <3>5. QED
      BY <3>1, <3>3, <3>4 DEF Service!EventsInOrder
  <2>4. CASE Service!Drop
    BY <2>4 DEF Service!Drop, Service!EventsInOrder
  <2>5. CASE UNCHANGED Service!vars
    BY <2>5 DEF Service!vars, Service!EventsInOrder
  <2>6. QED
    BY <2>1, <2>2, <2>3, <2>4, <2>5 DEF Service!Next
<1>3. QED
  BY <1>1, <1>2, ServiceTypes, PTL DEF Service!Spec

\* What keeps the events in order: those sent are older than the flip stored.
Ordered ==
  ~caught =>
    /\ \A i, j \in 1 .. Len(events) : i < j => events[i] < events[j]
    /\ \A i \in 1 .. Len(events) :
         /\ events[i] <= issued
         /\ stored # NoFlip => events[i] < stored

\* sendCallback() keeps the order.
LEMMA SendCallbackOrdered ==
  ASSUME IInv, Ordered, SendCallback, UNCHANGED <<issued, caught>>
  PROVE  Ordered'
<1> SUFFICES ASSUME ~caught
             PROVE  Ordered'
  BY DEF Ordered
<1>1. CASE stored = NoFlip
  BY <1>1 DEF SendCallback, Ordered
<1>2. CASE stored # NoFlip
  <2>1. /\ events \in Seq(Nat) /\ stored \in Nat /\ stored = issued
        /\ events' = Append(events, stored) /\ stored' = NoFlip
    BY <1>2 DEF SendCallback, IInv, TypeOK, Clean, Flips
  <2>2. /\ \A i, j \in 1 .. Len(events) : i < j => events[i] < events[j]
        /\ \A i \in 1 .. Len(events) : events[i] < stored
    BY <1>2 DEF Ordered
  <2>3. \A i, j \in 1 .. Len(Append(events, stored)) :
          i < j => Append(events, stored)[i] < Append(events, stored)[j]
    BY <2>1, <2>2, AppendGreater
  <2>4. \A i \in 1 .. Len(events') : events'[i] <= issued'
    BY <2>1, <2>2
  <2>5. QED
    BY <2>1, <2>3, <2>4 DEF Ordered
<1>3. QED
  BY <1>1, <1>2

\* Flip events name the flips in the order of the requests, none of them
\* twice, refused or not, until a frameHandler() has run in a freed surface.
THEOREM InOrder == Spec => []EventsInOrder
<1>1. Init => Ordered
  BY DEF Init, Ordered
<1>2. IInv /\ Ordered /\ [Next]_vars => Ordered'
  <2> SUFFICES ASSUME IInv, Ordered, [Next]_vars
               PROVE  Ordered'
    OBVIOUS
  <2> USE DEF history
  <2>1. CASE Draw \/ DrawFails
    <3>1. /\ issued \in Nat /\ issued' = issued + 1 /\ stored' = issued'
          /\ UNCHANGED <<events, caught>> /\ events \in Seq(Nat)
      BY <2>1 DEF Draw, DrawFails, IInv, TypeOK, Flips
    <3>2. QED
      BY <3>1 DEF Ordered
  <2>2. CASE InitConnector \/ Free \/ Crash
    BY <2>2 DEF InitConnector, Free, Crash, Ordered
  <2>3. CASE FrameHandler /\ ~Crash
    BY <2>3, SendCallbackOrdered DEF FrameHandler, HandleFrame
  <2>4. CASE StaleFrameHandler /\ ~Crash
    BY <2>4 DEF StaleFrameHandler, Ordered
  <2>5. CASE RunLooks
    BY <2>5, SendCallbackOrdered DEF RunLooks, Ordered
  <2>6. CASE FrameTimeout
    BY <2>6, SendCallbackOrdered DEF FrameTimeout
  <2>7. CASE UNCHANGED <<stored, issued, events, caught>>
    BY <2>7 DEF Ordered
  <2>8. QED
    BY <2>1, <2>2, <2>3, <2>4, <2>5, <2>6, <2>7
       DEF Next, ReleaseSteps, Dispatch, RunThread, Release, Clear, Stop, Join,
           TestFrame, DestroyFrame, Done, EnterFrameHandler, TimedOver,
           SpuriousWakeup, Crashed, vars
<1>3. Ordered => EventsInOrder
  BY DEF Ordered, EventsInOrder
<1>4. QED
  BY <1>1, <1>2, <1>3, Inductive, PTL DEF Spec

=============================================================================
