-------------------------- MODULE DrmConnectorProofs --------------------------
(***************************************************************************)
(* Theorems about the two halves of a DRM connector: which CRTC drives it   *)
(* (DrmCrtc, for any connectors, CRTCs and wiring), and its page flips      *)
(* (DrmFlip, for any number of flips).                                      *)
(*                                                                          *)
(* The list sCrtcIds never keeps a CRTC nobody uses, whatever fails.  That  *)
(* connectors do not share a CRTC needs more: that the list has every CRTC  *)
(* in use, which a late failure of init() breaks.  Sound, which is          *)
(* inductive, says what holds until the first such failure.                 *)
(*                                                                          *)
(* The fields that the two threads of a flip share without a lock are safe  *)
(* because of when they are touched.  With a patient frontend the kernel    *)
(* owes no flip while pageFlip() stores them (Quiet), so the event thread   *)
(* is outside flipFinished(); once the kernel owes a flip they stay as they *)
(* were stored until its event is handled (OwedFlipIsExpected).             *)
(***************************************************************************)
EXTENDS DrmCrtc, DrmFlip, SequenceTheorems, TLAPS

USE CrtcAssumption

\* Every variable keeps its type: what findCrtcId() finds is a CRTC of the card.
THEOREM CrtcsOfTheCard == CSpec => []CTypeOK
<1>1. CInit => CTypeOK
  BY DEF CInit, CTypeOK, MaybeCrtc
<1>2. CTypeOK /\ [CNext]_cvars => CTypeOK'
  <2> SUFFICES ASSUME CTypeOK, [CNext]_cvars
               PROVE  CTypeOK'
    OBVIOUS
  <2> USE DEF CTypeOK, MaybeCrtc
  <2>1. ASSUME NEW c \in Connectors, NEW x \in MaybeCrtc
        PROVE  Driven(c, x) \in [Connectors -> MaybeCrtc]
    BY DEF Driven
  <2>2. ASSUME NEW c \in Connectors
        PROVE  FindCrtc(c) \subseteq Crtcs
    BY DEF FindCrtc, Assigned
  <2>3. ASSUME NEW c \in Connectors, Release(c), UNCHANGED failed,
               setting' \in [Connectors -> {"idle", "init"}]
        PROVE  CTypeOK'
    BY <2>3, <2>1 DEF Release
  <2>4. ASSUME NEW c \in Connectors, SetConfigOff(c)
        PROVE  CTypeOK'
    BY <2>3, <2>4 DEF SetConfigOff
  <2>5. ASSUME NEW c \in Connectors, SetConfigOn(c)
        PROVE  CTypeOK'
    <3>1. setting' \in [Connectors -> {"idle", "init"}] /\ UNCHANGED failed
      BY <2>5 DEF SetConfigOn
    <3>2. CASE Release(c)
      BY <2>3, <3>1, <3>2
    <3>3. CASE UNCHANGED <<crtc, saved, crtcIds, bound>>
      BY <3>1, <3>3
    <3>4. QED
      BY <2>5, <3>2, <3>3 DEF SetConfigOn
  <2>6. ASSUME NEW c \in Connectors, SetConfigFails(c)
        PROVE  CTypeOK'
    BY <2>6 DEF SetConfigFails
  <2>7. ASSUME NEW c \in Connectors, InitFails(c)
        PROVE  CTypeOK'
    BY <2>2, <2>7 DEF InitFails
  <2>8. ASSUME NEW c \in Connectors, InitConnector(c)
        PROVE  CTypeOK'
    BY <2>1, <2>2, <2>8 DEF InitConnector
  <2>9. CASE UNCHANGED cvars
    BY <2>9 DEF cvars
  <2>10. QED
    BY <2>4, <2>5, <2>6, <2>7, <2>8, <2>9 DEF CNext
<1>3. QED
  BY <1>1, <1>2, PTL DEF CSpec

-----------------------------------------------------------------------------
\* findCrtcId() finds no CRTC that is on the list.
LEMMA FoundIsFree ==
  ASSUME NEW c \in Connectors, NEW x \in FindCrtc(c)
  PROVE  x \notin crtcIds
BY DEF FindCrtc, Assigned

\* ... and, without a free CRTC that is the assigned one, a CRTC of the card.
LEMMA FoundIsCrtc ==
  ASSUME CTypeOK, NEW c \in Connectors, NEW x \in FindCrtc(c)
  PROVE  x \in Crtcs
BY DEF FindCrtc, Assigned, CTypeOK, MaybeCrtc

\* setConfig() calls init() on a connector that is released.
InitFromReleased ==
  \A c \in Connectors : setting[c] = "init" => ~IsInitialized(c)

\* What every step preserves, whatever init() does.
NothingLostInv == CTypeOK /\ InitFromReleased /\ NoCrtcLost

LEMMA NothingLostInductive == CSpec => []NothingLostInv
<1>1. CInit => InitFromReleased /\ NoCrtcLost
  BY DEF CInit, InitFromReleased, NoCrtcLost
<1>2. CTypeOK /\ InitFromReleased /\ NoCrtcLost /\ [CNext]_cvars
        => InitFromReleased' /\ NoCrtcLost'
  <2> SUFFICES ASSUME CTypeOK, InitFromReleased, NoCrtcLost, [CNext]_cvars
               PROVE  InitFromReleased' /\ NoCrtcLost'
    OBVIOUS
  <2>1. ASSUME NEW c \in Connectors, Release(c)
        PROVE  crtc'[c] = NoCrtc /\ NoCrtcLost'
    <3>1. crtc'[c] = NoCrtc
      BY <2>1 DEF Release, CTypeOK
    <3>2. ASSUME NEW x \in crtcIds'
          PROVE  \E d \in Connectors : crtc'[d] = x
      <4>1. x \in crtcIds /\ x # crtc[c]
        BY <2>1, <3>2 DEF Release
      <4>2. PICK d \in Connectors : crtc[d] = x
        BY <4>1 DEF NoCrtcLost
      <4>3. crtc'[d] = x
        BY <2>1, <4>1, <4>2 DEF Release, CTypeOK
      <4>4. QED
        BY <4>3
    <3>3. QED
      BY <3>1, <3>2 DEF NoCrtcLost
  <2>2. ASSUME NEW c \in Connectors, SetConfigOff(c)
        PROVE  InitFromReleased' /\ NoCrtcLost'
    <3>1. Release(c) /\ setting' = setting
      BY <2>2 DEF SetConfigOff
    <3>2. InitFromReleased'
      BY <3>1, <2>1 DEF Release, InitFromReleased, IsInitialized, CTypeOK
    <3>3. QED
      BY <3>1, <3>2, <2>1
  <2>3. ASSUME NEW c \in Connectors, SetConfigOn(c)
        PROVE  InitFromReleased' /\ NoCrtcLost'
    <3>1. setting' = [setting EXCEPT ![c] = "init"]
      BY <2>3 DEF SetConfigOn
    <3>2. CASE IsInitialized(c)
      <4>1. Release(c)
        BY <2>3, <3>2 DEF SetConfigOn
      <4>2. InitFromReleased'
        BY <3>1, <4>1, <2>1 DEF Release, InitFromReleased, IsInitialized, CTypeOK
      <4>3. QED
        BY <4>1, <4>2, <2>1
    <3>3. CASE ~IsInitialized(c)
      BY <2>3, <3>1, <3>3
         DEF SetConfigOn, InitFromReleased, IsInitialized, NoCrtcLost, CTypeOK
    <3>4. QED
      BY <3>2, <3>3
  <2>4. ASSUME NEW c \in Connectors, SetConfigFails(c)
        PROVE  InitFromReleased' /\ NoCrtcLost'
    BY <2>4 DEF SetConfigFails, InitFromReleased, IsInitialized, NoCrtcLost, CTypeOK
  <2>5. ASSUME NEW c \in Connectors, InitFails(c)
        PROVE  InitFromReleased' /\ NoCrtcLost'
    <3>1. PICK x \in FindCrtc(c) : crtc' = [crtc EXCEPT ![c] = x]
      BY <2>5 DEF InitFails
    <3>2. setting' = [setting EXCEPT ![c] = "idle"] /\ crtcIds' = crtcIds
      BY <2>5 DEF InitFails
    <3>3. InitFromReleased'
      BY <3>1, <3>2 DEF InitFromReleased, IsInitialized, CTypeOK
    <3>4. crtc[c] \notin crtcIds
      BY <2>5, CrtcAssumption DEF InitFails, InitFromReleased, IsInitialized, CTypeOK
    <3>5. NoCrtcLost'
      BY <3>1, <3>2, <3>4 DEF NoCrtcLost, CTypeOK
    <3>6. QED
      BY <3>3, <3>5
  <2>6. ASSUME NEW c \in Connectors, InitConnector(c)
        PROVE  InitFromReleased' /\ NoCrtcLost'
    <3>1. PICK x \in FindCrtc(c) : /\ crtc' = [crtc EXCEPT ![c] = x]
                                   /\ crtcIds' = crtcIds \cup {x}
      BY <2>6 DEF InitConnector
    <3>2. setting' = [setting EXCEPT ![c] = "idle"]
      BY <2>6 DEF InitConnector
    <3>3. InitFromReleased'
      BY <3>1, <3>2 DEF InitFromReleased, IsInitialized, CTypeOK
    <3>4. crtc[c] \notin crtcIds
      BY <2>6, CrtcAssumption DEF InitConnector, InitFromReleased, IsInitialized, CTypeOK
    <3>5. NoCrtcLost'
      BY <3>1, <3>4 DEF NoCrtcLost, CTypeOK
    <3>6. QED
      BY <3>3, <3>5
  <2>7. CASE UNCHANGED cvars
    BY <2>7 DEF cvars, InitFromReleased, IsInitialized, NoCrtcLost
  <2>8. QED
    BY <2>2, <2>3, <2>4, <2>5, <2>6, <2>7 DEF CNext
<1>3. QED
  BY <1>1, <1>2, CrtcsOfTheCard, PTL DEF CSpec, NothingLostInv

\* Every CRTC on the list is some connector's, whatever init() does: release()
\* and findCrtcId() never lose one, even after init() failed half way.
THEOREM NothingLost == CSpec => []NoCrtcLost
<1>1. NothingLostInv => NoCrtcLost
  BY DEF NothingLostInv
<1>2. QED
  BY <1>1, NothingLostInductive, PTL

-----------------------------------------------------------------------------
\* Until init() fails late, the fields of a connector, the list and the kernel
\* agree on who uses which CRTC.
Sound ==
  ~failed => /\ InitializedIsReserved
             /\ CrtcExclusive
             /\ ScanoutKept
             /\ saved = crtc

\* A step of Release(c) gives up c's CRTC and touches nobody else's.
LEMMA ReleaseSound ==
  ASSUME CTypeOK, Sound, NEW c \in Connectors, Release(c), UNCHANGED failed
  PROVE  Sound'
<1> SUFFICES ASSUME ~failed
             PROVE  Sound'
  BY DEF Sound
<1> USE DEF CTypeOK, MaybeCrtc, IsInitialized
<1>1. crtc' = [crtc EXCEPT ![c] = NoCrtc] /\ saved' = crtc'
  BY DEF Release, Sound
<1>2. ASSUME NEW d \in Connectors, crtc'[d] # NoCrtc
      PROVE  d # c /\ crtc'[d] = crtc[d] /\ crtc[d] # crtc[c]
  BY <1>1, <1>2 DEF Sound, CrtcExclusive
<1>3. InitializedIsReserved'
  BY <1>2 DEF Release, Sound, InitializedIsReserved
<1>4. CrtcExclusive'
  BY <1>1, <1>2 DEF Sound, CrtcExclusive
<1>5. ScanoutKept'
  BY <1>2 DEF Release, Driven, Sound, ScanoutKept
<1>6. QED
  BY <1>1, <1>3, <1>4, <1>5 DEF Sound

LEMMA SoundInductive == CSpec => [](CTypeOK /\ Sound)
<1>1. CInit => Sound
  BY DEF CInit, Sound, InitializedIsReserved, CrtcExclusive, ScanoutKept, IsInitialized
<1>2. CTypeOK /\ Sound /\ [CNext]_cvars => Sound'
  <2> SUFFICES ASSUME CTypeOK, Sound, [CNext]_cvars
               PROVE  Sound'
    OBVIOUS
  <2>1. ASSUME UNCHANGED <<crtc, saved, crtcIds, bound, failed>>
        PROVE  Sound'
    BY <2>1 DEF Sound, InitializedIsReserved, CrtcExclusive, ScanoutKept, IsInitialized
  <2>2. ASSUME NEW c \in Connectors, SetConfigOff(c)
        PROVE  Sound'
    BY <2>2, ReleaseSound DEF SetConfigOff
  <2>3. ASSUME NEW c \in Connectors, SetConfigOn(c)
        PROVE  Sound'
    BY <2>1, <2>3, ReleaseSound DEF SetConfigOn
  <2>4. ASSUME NEW c \in Connectors, SetConfigFails(c)
        PROVE  Sound'
    BY <2>1, <2>4 DEF SetConfigFails
  <2>5. ASSUME NEW c \in Connectors, InitFails(c)
        PROVE  Sound'
    BY <2>5 DEF InitFails, Sound
  <2>6. ASSUME NEW c \in Connectors, InitConnector(c)
        PROVE  Sound'
    <3> SUFFICES ASSUME ~failed
                 PROVE  Sound'
      BY <2>6 DEF InitConnector, Sound
    <3> USE DEF CTypeOK, MaybeCrtc, IsInitialized
    <3>1. PICK x \in FindCrtc(c) : /\ crtc' = [crtc EXCEPT ![c] = x]
                                   /\ saved' = [saved EXCEPT ![c] = x]
                                   /\ crtcIds' = crtcIds \cup {x}
                                   /\ bound' = Driven(c, x)
      BY <2>6 DEF InitConnector
    <3>2. x \in Crtcs /\ x # NoCrtc /\ x \notin crtcIds
      BY FoundIsFree, FoundIsCrtc, CrtcAssumption
    <3>3. \A d \in Connectors : crtc[d] # x
      BY <3>2 DEF Sound, InitializedIsReserved
    <3>4. InitializedIsReserved'
      BY <3>1 DEF Sound, InitializedIsReserved
    <3>5. CrtcExclusive'
      BY <3>1, <3>3 DEF Sound, CrtcExclusive
    <3>6. ScanoutKept'
      BY <3>1, <3>2, <3>3 DEF Sound, ScanoutKept, Driven
    <3>7. QED
      BY <3>1, <3>4, <3>5, <3>6 DEF Sound
  <2>7. CASE UNCHANGED cvars
    BY <2>1, <2>7 DEF cvars
  <2>8. QED
    BY <2>2, <2>3, <2>4, <2>5, <2>6, <2>7 DEF CNext
<1>3. QED
  BY <1>1, <1>2, CrtcsOfTheCard, PTL DEF CSpec

\* Until init() fails late, no two connectors ever use one CRTC.
THEOREM Exclusive == CSpec => []CrtcExclusive
<1>1. Sound => CrtcExclusive
  BY DEF Sound, CrtcExclusive
<1>2. QED
  BY <1>1, SoundInductive, PTL

\* ... and no connector, by configuring itself or by restoring the wiring it
\* found, takes the CRTC of another working connector away.
THEOREM WorkingConnectorKept == CSpec => []ScanoutKept
<1>1. Sound => ScanoutKept
  BY DEF Sound, ScanoutKept
<1>2. QED
  BY <1>1, SoundInductive, PTL

-----------------------------------------------------------------------------
(* Page flips *)

USE MaxFlipsAssumption, PatientAssumption

\* Whatever the frontend does, the kernel is only asked for a flip when a
\* callback is stored.
CallbackStored ==
  /\ ring \in {"store", "submit"} => issued \in Flips
  /\ ring = "submit" => flipCallback # NoFlip
  /\ kernel # NoFlip \/ fdQueue # <<>> \/ ev # "idle" => flipCallback # NoFlip

LEMMA TailOfOne ==
  ASSUME NEW S, NEW s \in Seq(S), Len(s) = 1
  PROVE  Tail(s) = <<>>
<1>1. Len(Tail(s)) = 0 /\ Tail(s) \in Seq(S)
  OBVIOUS
<1>2. QED
  BY <1>1, EmptySeq

LEMMA TypeInductive == Spec => [](TypeOK /\ CallbackStored)
<1>1. Init => TypeOK /\ CallbackStored
  <2> SUFFICES ASSUME Init
               PROVE  TypeOK /\ CallbackStored
    OBVIOUS
  <2>1. initialized \in BOOLEAN /\ flipPending \in BOOLEAN /\ late \in BOOLEAN
    BY DEF Init
  <2>2. QED
    BY <2>1 DEF Init, TypeOK, CallbackStored, RingStates, Flips, NoFlip
<1>2. TypeOK /\ CallbackStored /\ [Next]_vars => TypeOK' /\ CallbackStored'
  <2> SUFFICES ASSUME TypeOK, CallbackStored, [Next]_vars
               PROVE  TypeOK' /\ CallbackStored'
    OBVIOUS
  <2> USE DEF TypeOK, CallbackStored, RingStates, Flips, NoFlip, connVars, evVars
  <2>1. CASE SetConfig
    BY <2>1 DEF SetConfig
  <2>2. CASE PageFlip
    BY <2>2 DEF PageFlip
  <2>3. CASE StoreCallback
    BY <2>3 DEF StoreCallback
  <2>4. CASE Submit
    BY <2>4 DEF Submit
  <2>5. CASE Destroy
    BY <2>5 DEF Destroy
  <2>6. CASE SleepOver
    BY <2>6 DEF SleepOver
  <2>7. CASE Delete
    BY <2>7 DEF Delete
  <2>8. CASE KernelDone
    BY <2>8 DEF KernelDone
  <2>9. CASE HandleEvent
    <3>1. Head(fdQueue) \in Flips /\ Tail(fdQueue) \in Seq(Flips)
      BY <2>9 DEF HandleEvent
    <3>2. QED
      BY <2>9, <3>1 DEF HandleEvent
  <2>10. CASE FlipFinished
    BY <2>10 DEF FlipFinished
  <2>11. CASE SendFlipEvent
    BY <2>11 DEF SendFlipEvent
  <2>12. CASE DanglingEvent
    <3>1. fdQueue # <<>> => Tail(fdQueue) \in Seq(Flips)
      OBVIOUS
    <3>2. ev = "call" => events' \in Seq(Flips)
      <4>1. ev = "call" => flipCallback \in Flips
        OBVIOUS
      <4>2. ev = "call" => Append(events, flipCallback) \in Seq(Flips)
        BY <4>1
      <4>3. events' \in {events, Append(events, flipCallback)}
        BY <2>12 DEF DanglingEvent
      <4>4. QED
        BY <4>2, <4>3
    <3>3. events' \in Seq(Flips) /\ fdQueue' \in Seq(Flips)
      BY <2>12, <3>1, <3>2 DEF DanglingEvent
    <3>4. QED
      BY <2>12, <3>3 DEF DanglingEvent
  <2>13. CASE UNCHANGED vars
    BY <2>13 DEF vars
  <2>14. QED
    BY <2>1, <2>2, <2>3, <2>4, <2>5, <2>6, <2>7, <2>8, <2>9, <2>10, <2>11,
       <2>12, <2>13 DEF Next, RingThread, EventThread, Gone
<1>3. QED
  BY <1>1, <1>2, PTL DEF Spec

\* Every variable keeps its type, for a patient frontend and any other: no
\* flip event is sent for a callback that was never stored.
THEOREM TypeCorrect == Spec => []TypeOK
<1>1. TypeOK /\ CallbackStored => TypeOK
  OBVIOUS
<1>2. QED
  BY <1>1, TypeInductive, PTL

-----------------------------------------------------------------------------
(* A patient frontend *)

\* At most one flip is anywhere between the kernel and the event thread.
OneFlip ==
  /\ kernel # NoFlip => fdQueue = <<>> /\ ev = "idle"
  /\ fdQueue # <<>> => ev = "idle" /\ Len(fdQueue) = 1
  /\ ev # "idle" => evFlip # NoFlip

\* No flip is owed while pageFlip() stores the fields of the next one.
Quiet ==
  /\ ring \in {"store", "submit"} =>
        ev = "idle" /\ fdQueue = <<>> /\ kernel = NoFlip /\ flipPending
  /\ ring = "submit" => flipCallback = issued

\* Once ~Connector has waited, for long enough, only the callback may still run.
Waited ==
  ring \in {"check", "gone"} /\ ~late =>
    kernel = NoFlip /\ fdQueue = <<>> /\ ev # "entered"

PatientInv == OneFlip /\ Quiet /\ OwedFlipIsExpected /\ Waited

LEMMA PatientStep ==
  ASSUME Patient, TypeOK, TypeOK', CallbackStored, PatientInv, [Next]_vars
  PROVE  PatientInv'
<1> USE DEF TypeOK, CallbackStored, PatientInv, OneFlip, Quiet, Waited,
            OwedFlipIsExpected, Owed, Flips, NoFlip, connVars, evVars
<1>1. CASE SetConfig
  BY <1>1 DEF SetConfig
<1>2. CASE PageFlip
  BY <1>2 DEF PageFlip
<1>3. CASE StoreCallback
  BY <1>3 DEF StoreCallback
<1>4. CASE Submit
  BY <1>4 DEF Submit
<1>5. CASE Destroy
  BY <1>5 DEF Destroy
<1>6. CASE SleepOver
  BY <1>6 DEF SleepOver
<1>7. CASE Delete
  BY <1>7 DEF Delete
<1>8. CASE KernelDone
  BY <1>8 DEF KernelDone
<1>9. CASE HandleEvent
  <2>1. Head(fdQueue) \in Flips /\ Tail(fdQueue) = <<>>
    BY <1>9, TailOfOne DEF HandleEvent
  <2>2. QED
    BY <1>9, <2>1 DEF HandleEvent
<1>10. CASE FlipFinished
  BY <1>10 DEF FlipFinished
<1>11. CASE SendFlipEvent
  BY <1>11 DEF SendFlipEvent
<1>12. CASE DanglingEvent
  <2>1. CASE fdQueue # <<>>
    <3>1. Tail(fdQueue) = <<>>
      BY <2>1, TailOfOne
    <3>2. QED
      BY <1>12, <2>1, <3>1 DEF DanglingEvent
  <2>2. CASE fdQueue = <<>>
    BY <1>12, <2>2 DEF DanglingEvent
  <2>3. QED
    BY <2>1, <2>2
<1>13. CASE UNCHANGED vars
  BY <1>13 DEF vars
<1>14. QED
  BY <1>1, <1>2, <1>3, <1>4, <1>5, <1>6, <1>7, <1>8, <1>9, <1>10, <1>11,
     <1>12, <1>13 DEF Next, RingThread, EventThread, Gone

LEMMA PatientInductive == ASSUME Patient PROVE Spec => []PatientInv
<1>1. Init => PatientInv
  BY DEF Init, PatientInv, OneFlip, Quiet, Waited, OwedFlipIsExpected, Owed,
         NoFlip
<1>2. TypeOK /\ TypeOK' /\ CallbackStored /\ PatientInv /\ [Next]_vars
        => PatientInv'
  BY PatientStep
<1>3. QED
  BY <1>1, <1>2, TypeInductive, PTL DEF Spec

\* For a patient frontend the event thread finds the flip it completed pending,
\* and its callback stored, at every interleaving with the ring thread.
THEOREM FlipIsExpected == ASSUME Patient PROVE Spec => []OwedFlipIsExpected
<1>1. PatientInv => OwedFlipIsExpected
  BY DEF PatientInv
<1>2. QED
  BY <1>1, PatientInductive, PTL

\* For a patient frontend ~Connector leaves no event behind, if the flip is over
\* within the time it waits.
THEOREM NothingLeftBehind == ASSUME Patient PROVE Spec => []NoDanglingEvent
<1>1. PatientInv => NoDanglingEvent
  BY DEF PatientInv, Waited, NoDanglingEvent
<1>2. QED
  BY <1>1, PatientInductive, PTL

\* For a patient frontend a flip event names the flip the kernel completed,
\* also when the connector was deleted under it.
THEOREM EventIsForCompleted ==
  ASSUME Patient PROVE Spec => EventNamesCompletedFlip
<1>1. TypeOK /\ PatientInv /\ [Next]_vars
        => [events' # events => events' = Append(events, evFlip)]_vars
  <2> SUFFICES ASSUME TypeOK, PatientInv, [Next]_vars, events' # events
               PROVE  events' = Append(events, evFlip)
    OBVIOUS
  <2> USE DEF PatientInv, OneFlip, OwedFlipIsExpected, Owed, NoFlip
  <2>1. CASE SendFlipEvent
    BY <2>1 DEF SendFlipEvent
  <2>2. CASE DanglingEvent
    BY <2>2 DEF DanglingEvent
  <2>3. QED
    BY <2>1, <2>2
       DEF Next, RingThread, EventThread, Gone, SetConfig, PageFlip, Destroy,
           StoreCallback, Submit, SleepOver, Delete, KernelDone, HandleEvent,
           FlipFinished, vars, evVars, connVars
<1>2. QED
  BY <1>1, TypeInductive, PatientInductive, PTL
     DEF Spec, EventNamesCompletedFlip

-----------------------------------------------------------------------------
(* The flip service is implemented *)

\* The requests the service has seen: one inside pageFlip() does not count yet.
Taken == IF ring \in {"store", "submit"} THEN issued - 1 ELSE issued

\* A step that leaves what the service sees alone.
LEMMA Stutter ==
  ASSUME UNCHANGED <<Taken, Owed, events>>
  PROVE  [Service!Next]_(Service!vars)
BY DEF Taken, Service!vars

LEMMA OwedIsLast ==
  ASSUME TypeOK, PatientInv, Owed # NoFlip
  PROVE  /\ Owed \in Flips
         /\ ev # "idle" => Owed = evFlip /\ kernel = NoFlip /\ fdQueue = <<>>
         /\ fdQueue # <<>> => Owed = Head(fdQueue) /\ Tail(fdQueue) = <<>>
<1> USE DEF TypeOK, PatientInv, OneFlip, Owed, NoFlip, Flips
<1>1. fdQueue # <<>> => Head(fdQueue) \in Flips /\ Tail(fdQueue) = <<>>
  BY TailOfOne
<1>2. QED
  BY <1>1

LEMMA ServiceStep ==
  ASSUME Patient, TypeOK, TypeOK', CallbackStored, PatientInv, PatientInv',
         [Next]_vars
  PROVE  [Service!Next]_(Service!vars)
<1> USE DEF NoFlip, connVars, evVars
<1>1. CASE SetConfig
  BY <1>1, Stutter DEF SetConfig, Taken, Owed
<1>2. CASE PageFlip
  BY <1>2, Stutter DEF PageFlip, Taken, Owed, TypeOK
<1>3. CASE StoreCallback
  BY <1>3, Stutter DEF StoreCallback, Taken, Owed
<1>4. CASE Submit
  <2>1. /\ Taken \in Nat /\ Taken' \in Nat /\ Taken' > Taken
        /\ Taken' = issued
    BY <1>4 DEF Submit, Taken, TypeOK, CallbackStored, Flips
  <2>2. CASE UNCHANGED kernel
    <3>1. UNCHANGED <<Owed, events>>
      BY <1>4, <2>2 DEF Submit, Owed
    <3>2. Service!Refuse
      BY <2>1, <3>1 DEF Service!Refuse, Taken
    <3>3. QED
      BY <3>2 DEF Service!Next
  <2>3. CASE kernel' = issued
    <3>1. Owed' = issued /\ UNCHANGED events
      BY <1>4, <2>3 DEF Submit, Owed, PatientInv, Quiet
    <3>2. Service!Accept
      BY <2>1, <3>1 DEF Service!Accept, Taken
    <3>3. QED
      BY <3>2 DEF Service!Next
  <2>4. QED
    BY <1>4, <2>2, <2>3 DEF Submit
<1>5. CASE Destroy \/ SleepOver \/ Delete
  BY <1>5, Stutter DEF Destroy, SleepOver, Delete, Taken, Owed
<1>6. CASE KernelDone
  <2>1. fdQueue = <<>> /\ ev = "idle" /\ fdQueue' = <<kernel>>
    BY <1>6 DEF KernelDone, PatientInv, OneFlip, TypeOK
  <2>2. UNCHANGED <<Taken, Owed, events>>
    BY <1>6, <2>1 DEF KernelDone, Taken, Owed
  <2>3. QED
    BY <2>2, Stutter
<1>7. CASE HandleEvent
  <2>1. UNCHANGED <<Taken, Owed, events>>
    BY <1>7 DEF HandleEvent, Taken, Owed
  <2>2. QED
    BY <2>1, Stutter
<1>8. CASE FlipFinished
  <2>1. Owed = evFlip /\ Owed # NoFlip
    BY <1>8 DEF FlipFinished, Owed, PatientInv, OneFlip
  <2>2. flipPending
    BY <1>8, <2>1 DEF FlipFinished, PatientInv, OwedFlipIsExpected
  <2>3. UNCHANGED <<Taken, Owed, events>>
    BY <1>8, <2>2 DEF FlipFinished, Taken, Owed
  <2>4. QED
    BY <2>3, Stutter
<1>9. CASE SendFlipEvent
  <2>1. Owed = evFlip /\ Owed # NoFlip
    BY <1>9 DEF SendFlipEvent, Owed, PatientInv, OneFlip
  <2>2. /\ events' = Append(events, Owed)
        /\ Owed' = NoFlip
        /\ UNCHANGED Taken
    BY <1>9, <2>1, OwedIsLast
       DEF SendFlipEvent, Owed, Taken, PatientInv, OwedFlipIsExpected
  <2>3. Service!Answer
    BY <2>1, <2>2 DEF Service!Answer, Service!NoFlip, Taken
  <2>4. QED
    BY <2>3 DEF Service!Next
<1>10. CASE DanglingEvent
  <2>1. Owed # NoFlip
    BY <1>10 DEF DanglingEvent, Owed, PatientInv, OneFlip, TypeOK, Flips
  <2>2. /\ Owed' = NoFlip
        /\ UNCHANGED Taken
    BY <1>10, <2>1, OwedIsLast
       DEF DanglingEvent, Owed, Taken, PatientInv, OneFlip
  <2>3. events' = events \/ events' = Append(events, Owed)
    BY <1>10, <2>1 DEF DanglingEvent, PatientInv, OwedFlipIsExpected
  <2>4. Service!Drop \/ Service!Answer
    BY <2>1, <2>2, <2>3
       DEF Service!Drop, Service!Answer, Service!NoFlip, Taken
  <2>5. QED
    BY <2>4 DEF Service!Next
<1>11. CASE UNCHANGED vars
  BY <1>11, Stutter DEF vars, Taken, Owed
<1>12. QED
  BY <1>1, <1>2, <1>3, <1>4, <1>5, <1>6, <1>7, <1>8, <1>9, <1>10, <1>11
     DEF Next, RingThread, EventThread, Gone

\* For a patient frontend the DRM connector implements the flip service, across
\* refused flips and a connector that is deleted with a flip in progress.
THEOREM Refinement == ASSUME Patient PROVE Spec => ImplementsFlipService
<1>1. Init => Service!Init
  BY DEF Init, Owed, NoFlip, Service!Init, Service!NoFlip
<1>2. TypeOK /\ TypeOK' /\ CallbackStored /\ PatientInv /\ PatientInv' /\ [Next]_vars
        => [Service!Next]_(Service!vars)
  BY ServiceStep
<1>3. QED
  BY <1>1, <1>2, TypeInductive, PatientInductive, PTL
     DEF Spec, ImplementsFlipService, Service!Spec

=============================================================================
