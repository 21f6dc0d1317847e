-------------------------- MODULE SeatRoutingProofs --------------------------
(***************************************************************************)
(* Theorems about SeatRouting for any connectors, surfaces and contacts.   *)
(*                                                                         *)
(* The two locks make the two tables agree: while one of them is changed   *)
(* under one lock, the look-up or the notification that must follow holds  *)
(* the other.  Subscribed says what is true in between.  Aimed says where  *)
(* the current callback points, which an event that names no surface       *)
(* relies on; Listening and Followed say what has reached the frontends,   *)
(* for a device with a focus and for one with contacts.                    *)
(***************************************************************************)
EXTENDS SeatRouting, TLAPS

USE KindsAssumption, NoneAssumption

\* Connectors have different surfaces.
Apart ==
  \A c, d \in Connectors : window[c] # None /\ window[c] = window[d] => c = d

\* The manager knows a surface until deleteSurface() is over.
Known ==
  \A c \in Connectors :
    /\ surfaces[c] = IF displayAt[c] = "destroying" THEN None ELSE window[c]
    /\ displayAt[c] # "idle" => window[c] # None

\* One thread at a time holds the device's lock.
DeviceLock ==
  \A c, d \in Connectors :
    inputAt[c] # "idle" =>
      /\ dispatch = NoEvent
      /\ inputAt[d] # "idle" => c = d

\* A device that is not there has no callbacks, and an operation on the
\* callbacks of a connector has them in mConnectorCallbacks.
Bound ==
  /\ ~plugged => connectorCallbacks = {}
  /\ \A c \in Connectors : inputAt[c] # "idle" => c \in connectorCallbacks

\* Callbacks of a surface are those of its connector.
Stored ==
  \A s \in Surfaces :
    surfaceCallbacks[s] # None =>
      /\ surfaceCallbacks[s] \in connectorCallbacks
      /\ surfaces[surfaceCallbacks[s]] = s

\* A surface has the callbacks of its connector unless one of the two is
\* just being made known.
Complete ==
  \A c \in connectorCallbacks :
    surfaces[c] # None /\ displayAt[c] # "creating" /\ inputAt[c] # "setting" =>
      surfaceCallbacks[surfaces[c]] = c

\* An event that names a surface has one, and a contact if it is a down.
Named ==
  /\ dispatch.op \in {"down", "enter"} => dispatch.surface \in Surfaces
  /\ dispatch.op = "down" => dispatch.id \in Contacts

Subscribed ==
  /\ TypeOK
  /\ Named
  /\ Apart
  /\ Known
  /\ DeviceLock
  /\ Bound
  /\ Stored
  /\ Complete
  /\ CurrentIsStored

\* Between events the current callback is the one of the surface that is
\* touched or in focus, and an event that is being handled will make it so.
Aimed ==
  /\ ~spread /\ dispatch = NoEvent /\ current # None =>
       \A i \in Contacts : focus[i] \in {None, current}
  /\ ~spread /\ dispatch.op \in {"down", "enter"}
       /\ surfaceCallbacks[dispatch.surface] # None =>
         \A i \in Contacts : focus[i] \in {None, dispatch.surface}

IInv == Subscribed /\ Aimed /\ InputReachesOwner

-----------------------------------------------------------------------------
\* What a frontend is told keeps the type of what it has been told.
LEMMA ViewsKept ==
  ASSUME NEW v \in Series!Views, NEW i \in Contacts
  PROVE  /\ Series!SeeDown(v, i, 0) \in Series!Views
         /\ Series!SeeUp(v, i) \in Series!Views
         /\ Series!SeeMotion(v, i, 0) \in Series!Views
BY DEF Series!Views, Series!SeeDown, Series!SeeUp, Series!SeeMotion,
       Series!DownIn, Series!Nowhere

LEMMA NothingSeenTyped == Series!NothingSeen \in Series!Views
BY DEF Series!NothingSeen, Series!Views, Series!Nowhere

\* An unplugged device has no callbacks, so that a surface has none either.
LEMMA SubscribedStep == Subscribed /\ [Next]_vars => Subscribed'
<1> SUFFICES ASSUME Subscribed, [Next]_vars
             PROVE  Subscribed'
  OBVIOUS
<1> USE DEF Subscribed, TypeOK, Named, Apart, Known, DeviceLock, Bound, Stored,
            Complete, CurrentIsStored, NoEvent, vars, threadVars, managerVars,
            deviceVars, history
<1>1. ASSUME NEW c \in Connectors, CreateSurface(c)
       PROVE  Subscribed'
  BY <1>1 DEF CreateSurface
<1>2. ASSUME NEW c \in Connectors, SurfaceCreated(c)
       PROVE  Subscribed'
  BY <1>2 DEF SurfaceCreated, OnSurfaceCreate, SetSurfaceCallbacks, KeepCallbacks, ManagerFree, DeviceFree
<1>3. ASSUME NEW c \in Connectors, DeleteSurface(c)
       PROVE  Subscribed'
  BY <1>3 DEF DeleteSurface
<1>4. ASSUME NEW c \in Connectors, SurfaceDeleted(c)
       PROVE  Subscribed'
  BY <1>4 DEF SurfaceDeleted, OnSurfaceDelete, ClearSurfaceCallbacks, KeepCallbacks, DeviceFree, InUse
<1>5. ASSUME NEW c \in Connectors, DestroySurface(c)
       PROVE  Subscribed'
  BY <1>5 DEF DestroySurface, InUse
<1>6. ASSUME NEW c \in Connectors, SetConnectorCallbacks(c)
       PROVE  Subscribed'
  BY <1>6 DEF SetConnectorCallbacks, DeviceFree
<1>7. ASSUME NEW c \in Connectors, ConnectorCallbacksSet(c)
       PROVE  Subscribed'
  BY <1>7 DEF ConnectorCallbacksSet, SetSurfaceCallbacks, KeepCallbacks, ManagerFree, InUse
<1>8. ASSUME NEW c \in Connectors, ClearConnectorCallbacks(c)
       PROVE  Subscribed'
  BY <1>8 DEF ClearConnectorCallbacks, DeviceFree
<1>9. ASSUME NEW c \in Connectors, ConnectorCallbacksCleared(c)
       PROVE  Subscribed'
  BY <1>9, NothingSeenTyped DEF ConnectorCallbacksCleared, ClearSurfaceCallbacks, KeepCallbacks, ManagerFree, InUse
<1>10. ASSUME Plug
        PROVE  Subscribed'
  BY <1>10 DEF Plug
<1>11. ASSUME NEW i \in Contacts, NEW s \in Surfaces, TouchDown(i, s)
        PROVE  Subscribed'
  BY <1>11 DEF TouchDown, Name, DeviceFree
<1>12. ASSUME OnDown
        PROVE  Subscribed'
  <2>1. dispatch' = NoEvent /\ NoEvent \in [op : {"none", "down", "enter", "leave"},
                 id : Contacts \cup {None}, surface : Surfaces \cup {None}]
    BY <1>12 DEF OnDown
  <2>2. current' \in Surfaces \cup {None} /\ CurrentIsStored'
    BY <1>12 DEF OnDown, Find
  <2>3. view' \in [Connectors -> Series!Views]
    <3> DEFINE s == dispatch.surface
               c == surfaceCallbacks[s]
    <3>1. CASE c = None
      BY <1>12, <3>1 DEF OnDown, Find
    <3>2. CASE c # None
      <4>1. c \in Connectors /\ view[c] \in Series!Views
        BY <1>12, <3>2 DEF OnDown
      <4>2. Series!SeeDown(view[c], dispatch.id, 0) \in Series!Views
        BY <1>12, <4>1, ViewsKept DEF OnDown
      <4>3. view' = [view EXCEPT ![c] = Series!SeeDown(view[c], dispatch.id, 0)]
        BY <1>12, <3>2 DEF OnDown, Find
      <4>4. QED
        BY <4>1, <4>2, <4>3
    <3>3. QED
      BY <3>1, <3>2
  <2>4. TypeOK'
    BY <1>12, <2>1, <2>2, <2>3 DEF OnDown
  <2>5. QED
    BY <1>12, <2>1, <2>2, <2>4 DEF OnDown
<1>13. ASSUME NEW i \in Contacts, OnMotion(i)
        PROVE  Subscribed'
  <2>1. view' \in [Connectors -> Series!Views]
    <3>1. CASE current = None
      BY <1>13, <3>1 DEF OnMotion, Tell
    <3>2. CASE current # None
      <4>1. surfaceCallbacks[current] \in Connectors /\ Told \in Series!Views
        BY <3>2 DEF Told
      <4>2. Series!SeeMotion(Told, i, 0) \in Series!Views
        BY <4>1, ViewsKept
      <4>3. view' = [view EXCEPT ![surfaceCallbacks[current]] = Series!SeeMotion(Told, i, 0)]
        BY <1>13, <3>2 DEF OnMotion, Tell
      <4>4. QED
        BY <4>1, <4>2, <4>3
    <3>3. QED
      BY <3>1, <3>2
  <2>2. TypeOK'
    BY <1>13, <2>1 DEF OnMotion, Route
  <2>3. QED
    BY <1>13, <2>2 DEF OnMotion
<1>14. ASSUME NEW i \in Contacts, OnUp(i)
        PROVE  Subscribed'
  <2>1. view' \in [Connectors -> Series!Views]
    <3>1. CASE current = None
      BY <1>14, <3>1 DEF OnUp, Tell
    <3>2. CASE current # None
      <4>1. surfaceCallbacks[current] \in Connectors /\ Told \in Series!Views
        BY <3>2 DEF Told
      <4>2. Series!SeeUp(Told, i) \in Series!Views
        BY <4>1, ViewsKept
      <4>3. view' = [view EXCEPT ![surfaceCallbacks[current]] = Series!SeeUp(Told, i)]
        BY <1>14, <3>2 DEF OnUp, Tell
      <4>4. QED
        BY <4>1, <4>2, <4>3
    <3>3. QED
      BY <3>1, <3>2
  <2>2. TypeOK'
    BY <1>14, <2>1 DEF OnUp, Route
  <2>3. QED
    BY <1>14, <2>2 DEF OnUp
<1>15. ASSUME OnCancel
        PROVE  Subscribed'
  BY <1>15 DEF OnCancel
<1>16. ASSUME NEW s \in Surfaces, Enter(s)
        PROVE  Subscribed'
  BY <1>16 DEF Enter, Name, DeviceFree
<1>17. ASSUME OnEnter
        PROVE  Subscribed'
  <2>1. dispatch' = NoEvent /\ NoEvent \in [op : {"none", "down", "enter", "leave"},
                 id : Contacts \cup {None}, surface : Surfaces \cup {None}]
    BY <1>17 DEF OnEnter
  <2>2. current' \in Surfaces \cup {None} /\ CurrentIsStored'
    BY <1>17 DEF OnEnter, Find
  <2>3. view' \in [Connectors -> Series!Views]
    BY <1>17 DEF OnEnter, Find
  <2>4. TypeOK'
    BY <1>17, <2>1, <2>2, <2>3 DEF OnEnter
  <2>5. QED
    BY <1>17, <2>1, <2>2, <2>4 DEF OnEnter
<1>18. ASSUME NEW s \in Surfaces, Leave(s)
        PROVE  Subscribed'
  BY <1>18 DEF Leave, Name, DeviceFree
<1>19. ASSUME OnLeave
        PROVE  Subscribed'
  <2>1. dispatch' = NoEvent /\ NoEvent \in [op : {"none", "down", "enter", "leave"},
                 id : Contacts \cup {None}, surface : Surfaces \cup {None}]
    BY <1>19 DEF OnLeave
  <2>2. current' \in Surfaces \cup {None} /\ CurrentIsStored'
    BY <1>19 DEF OnLeave
  <2>3. view' \in [Connectors -> Series!Views]
    BY <1>19 DEF OnLeave
  <2>4. TypeOK'
    BY <1>19, <2>1, <2>2, <2>3 DEF OnLeave
  <2>5. QED
    BY <1>19, <2>1, <2>2, <2>4 DEF OnLeave
<1>20. ASSUME NEW s \in Surfaces, OnKey(s)
        PROVE  Subscribed'
  BY <1>20 DEF OnKey, Route
<1>21. CASE UNCHANGED vars
  BY <1>21
<1>22. QED
  BY <1>1, <1>2, <1>3, <1>4, <1>5, <1>6, <1>7, <1>8, <1>9, <1>10, <1>11,
     <1>12, <1>13, <1>14, <1>15, <1>16, <1>17, <1>18, <1>19, <1>20, <1>21
     DEF Next, FinishDisplay, FinishInput, FinishEvent, Deadlock

\* Where the current callback points, and that no event goes astray.
LEMMA AimedStep == IInv /\ [Next]_vars => (Aimed /\ InputReachesOwner)'
<1> SUFFICES ASSUME IInv, [Next]_vars
             PROVE  (Aimed /\ InputReachesOwner)'
  OBVIOUS
<1> USE DEF IInv, Subscribed, TypeOK, Named, Apart, Known, DeviceLock, Bound, Stored,
            CurrentIsStored, Aimed, InputReachesOwner, Owns, NoEvent, vars,
            threadVars, managerVars, deviceVars, history
<1>1. ASSUME NEW c \in Connectors, CreateSurface(c)
       PROVE  (Aimed /\ InputReachesOwner)'
  BY <1>1 DEF CreateSurface
<1>2. ASSUME NEW c \in Connectors, SurfaceCreated(c)
       PROVE  (Aimed /\ InputReachesOwner)'
  BY <1>2 DEF SurfaceCreated, OnSurfaceCreate, SetSurfaceCallbacks, KeepCallbacks, ManagerFree, DeviceFree
<1>3. ASSUME NEW c \in Connectors, DeleteSurface(c)
       PROVE  (Aimed /\ InputReachesOwner)'
  BY <1>3 DEF DeleteSurface
<1>4. ASSUME NEW c \in Connectors, SurfaceDeleted(c)
       PROVE  (Aimed /\ InputReachesOwner)'
  BY <1>4 DEF SurfaceDeleted, OnSurfaceDelete, ClearSurfaceCallbacks, KeepCallbacks, DeviceFree, InUse
<1>5. ASSUME NEW c \in Connectors, DestroySurface(c)
       PROVE  (Aimed /\ InputReachesOwner)'
  BY <1>5 DEF DestroySurface, InUse
<1>6. ASSUME NEW c \in Connectors, SetConnectorCallbacks(c)
       PROVE  (Aimed /\ InputReachesOwner)'
  BY <1>6 DEF SetConnectorCallbacks, DeviceFree
<1>7. ASSUME NEW c \in Connectors, ConnectorCallbacksSet(c)
       PROVE  (Aimed /\ InputReachesOwner)'
  BY <1>7 DEF ConnectorCallbacksSet, SetSurfaceCallbacks, KeepCallbacks, ManagerFree, InUse
<1>8. ASSUME NEW c \in Connectors, ClearConnectorCallbacks(c)
       PROVE  (Aimed /\ InputReachesOwner)'
  BY <1>8 DEF ClearConnectorCallbacks, DeviceFree
<1>9. ASSUME NEW c \in Connectors, ConnectorCallbacksCleared(c)
       PROVE  (Aimed /\ InputReachesOwner)'
  BY <1>9 DEF ConnectorCallbacksCleared, ClearSurfaceCallbacks, KeepCallbacks, ManagerFree, InUse
<1>10. ASSUME Plug
        PROVE  (Aimed /\ InputReachesOwner)'
  BY <1>10 DEF Plug
<1>11. ASSUME NEW i \in Contacts, NEW s \in Surfaces, TouchDown(i, s)
        PROVE  (Aimed /\ InputReachesOwner)'
  <2>1. dispatch = NoEvent /\ dispatch' = [op |-> "down", id |-> i, surface |-> s]
    BY <1>11 DEF TouchDown, Name, DeviceFree
  <2>2. ~spread' => ~spread /\ \A j \in Contacts : focus'[j] \in {None, s}
    <3>1. spread' = (spread \/ \E j \in Contacts : focus[j] \notin {None, s})
      BY <1>11 DEF TouchDown
    <3>2. ~spread' => ~spread /\ \A j \in Contacts : focus[j] \in {None, s}
      BY <3>1, Zenon
    <3>3. \A j \in Contacts : focus'[j] = IF j = i THEN s ELSE focus[j]
      BY <1>11 DEF TouchDown
    <3>4. QED
      BY <3>2, <3>3
  <2>3. InputReachesOwner'
    BY <1>11, <2>2 DEF TouchDown, Name
  <2>4. QED
    BY <1>11, <2>1, <2>2, <2>3 DEF TouchDown, Name
<1>12. ASSUME OnDown
        PROVE  (Aimed /\ InputReachesOwner)'
  BY <1>12 DEF OnDown, Find
<1>13. ASSUME NEW i \in Contacts, OnMotion(i)
        PROVE  (Aimed /\ InputReachesOwner)'
  <2>1. dispatch = NoEvent /\ dispatch' = NoEvent
    BY <1>13 DEF OnMotion, DeviceFree
  <2>2. ~spread /\ current # None => Owns(surfaceCallbacks[current], focus[i])
    BY <1>13, <2>1 DEF OnMotion
  <2>3. InputReachesOwner'
    BY <1>13, <2>2 DEF OnMotion, Route
  <2>4. QED
    BY <1>13, <2>1, <2>3 DEF OnMotion
<1>14. ASSUME NEW i \in Contacts, OnUp(i)
        PROVE  (Aimed /\ InputReachesOwner)'
  <2>1. dispatch = NoEvent /\ dispatch' = NoEvent
    BY <1>14 DEF OnUp, DeviceFree
  <2>2. ~spread /\ current # None => Owns(surfaceCallbacks[current], focus[i])
    BY <1>14, <2>1 DEF OnUp
  <2>3. InputReachesOwner'
    BY <1>14, <2>2 DEF OnUp, Route
  <2>4. QED
    BY <1>14, <2>1, <2>3 DEF OnUp
<1>15. ASSUME OnCancel
        PROVE  (Aimed /\ InputReachesOwner)'
  BY <1>15 DEF OnCancel
<1>16. ASSUME NEW s \in Surfaces, Enter(s)
        PROVE  (Aimed /\ InputReachesOwner)'
  BY <1>16 DEF Enter, Name, DeviceFree
<1>17. ASSUME OnEnter
        PROVE  (Aimed /\ InputReachesOwner)'
  BY <1>17 DEF OnEnter, Find
<1>18. ASSUME NEW s \in Surfaces, Leave(s)
        PROVE  (Aimed /\ InputReachesOwner)'
  BY <1>18 DEF Leave, Name, DeviceFree
<1>19. ASSUME OnLeave
        PROVE  (Aimed /\ InputReachesOwner)'
  BY <1>19 DEF OnLeave
<1>20. ASSUME NEW s \in Surfaces, OnKey(s)
        PROVE  (Aimed /\ InputReachesOwner)'
  <2>1. dispatch = NoEvent /\ dispatch' = NoEvent
    BY <1>20 DEF OnKey, DeviceFree
  <2>2. ~spread /\ current # None => Owns(surfaceCallbacks[current], s)
    BY <1>20, <2>1 DEF OnKey, InUse
  <2>3. InputReachesOwner'
    BY <1>20, <2>2 DEF OnKey, Route
  <2>4. QED
    BY <1>20, <2>1, <2>3 DEF OnKey
<1>21. CASE UNCHANGED vars
  BY <1>21
<1>22. QED
  BY <1>1, <1>2, <1>3, <1>4, <1>5, <1>6, <1>7, <1>8, <1>9, <1>10, <1>11,
     <1>12, <1>13, <1>14, <1>15, <1>16, <1>17, <1>18, <1>19, <1>20, <1>21
     DEF Next, FinishDisplay, FinishInput, FinishEvent, Deadlock

LEMMA InitAimed == Init => IInv
<1> SUFFICES ASSUME Init
             PROVE  IInv
  OBVIOUS
<1> USE DEF Init, NoEvent
<1>1. TypeOK
  BY NothingSeenTyped DEF TypeOK
<1>2. Named /\ Apart /\ Known /\ DeviceLock /\ Bound
  BY DEF Named, Apart, Known, DeviceLock, Bound
<1>3. Stored /\ Complete /\ CurrentIsStored
  BY DEF Stored, Complete, CurrentIsStored
<1>4. Aimed /\ InputReachesOwner
  BY DEF Aimed, InputReachesOwner
<1>5. QED
  BY <1>1, <1>2, <1>3, <1>4 DEF IInv, Subscribed

-----------------------------------------------------------------------------
(* The focus: a surface it is on is one that was drawn, so that nobody makes *)
(* callbacks known for it by creating it; the events that move it are        *)
(* handled before anything else.                                             *)

Landed ==
  \A i \in Contacts : focus[i] # None =>
    \E c \in Connectors : window[c] = focus[i] /\ displayAt[c] # "creating"

OfKind ==
  /\ dispatch.op = "down" => kind = "touch"
  /\ dispatch.op \in {"enter", "leave"} => kind = "focus"

Pending ==
  /\ dispatch.op = "enter" => \A i \in Contacts : focus[i] \in {None, dispatch.surface}
  /\ dispatch.op = "leave" => \A i \in Contacts : focus[i] = None

\* Nothing is going on with the surface of the connector, nor its callbacks.
Settled(c) == displayAt[c] = "idle" /\ inputAt[c] = "idle"

Heard ==
  kind = "focus" /\ ~late /\ dispatch = NoEvent =>
    \A c \in connectorCallbacks :
      InUse(window[c]) /\ window[c] # None /\ Settled(c) => current = window[c]

Listening == Landed /\ OfKind /\ Pending /\ Heard

\* The current callback is the one of the surface in focus.
LEMMA ListeningStep == IInv /\ Listening /\ [Next]_vars => Listening'
<1> SUFFICES ASSUME IInv /\ Listening, [Next]_vars
             PROVE  Listening'
  OBVIOUS
<1> USE DEF IInv, Subscribed, TypeOK, Named, Apart, Known, DeviceLock, Bound, Stored,
            Complete, Listening, Landed, OfKind, Pending, Heard, Settled, Owns, InUse, NoEvent,
            ManagerFree, DeviceFree, vars, threadVars, managerVars, deviceVars, history
<1>1. ASSUME NEW c \in Connectors, CreateSurface(c)
       PROVE  Listening'
  BY <1>1 DEF CreateSurface
<1>2. ASSUME NEW c \in Connectors, SurfaceCreated(c)
       PROVE  Listening'
  BY <1>2 DEF SurfaceCreated, OnSurfaceCreate, SetSurfaceCallbacks, KeepCallbacks
<1>3. ASSUME NEW c \in Connectors, DeleteSurface(c)
       PROVE  Listening'
  BY <1>3 DEF DeleteSurface
<1>4. ASSUME NEW c \in Connectors, SurfaceDeleted(c)
       PROVE  Listening'
  BY <1>4 DEF SurfaceDeleted, OnSurfaceDelete, ClearSurfaceCallbacks, KeepCallbacks
<1>5. ASSUME NEW c \in Connectors, DestroySurface(c)
       PROVE  Listening'
  BY <1>5 DEF DestroySurface
<1>6. ASSUME NEW c \in Connectors, SetConnectorCallbacks(c)
       PROVE  Listening'
  BY <1>6 DEF SetConnectorCallbacks
<1>7. ASSUME NEW c \in Connectors, ConnectorCallbacksSet(c)
       PROVE  Listening'
  BY <1>7 DEF ConnectorCallbacksSet, SetSurfaceCallbacks, KeepCallbacks
<1>8. ASSUME NEW c \in Connectors, ClearConnectorCallbacks(c)
       PROVE  Listening'
  BY <1>8 DEF ClearConnectorCallbacks
<1>9. ASSUME NEW c \in Connectors, ConnectorCallbacksCleared(c)
       PROVE  Listening'
  BY <1>9 DEF ConnectorCallbacksCleared, ClearSurfaceCallbacks, KeepCallbacks
<1>10. ASSUME Plug
       PROVE  Listening'
  BY <1>10 DEF Plug
<1>11. ASSUME NEW i \in Contacts, NEW s \in Surfaces, TouchDown(i, s)
       PROVE  Listening'
  BY <1>11 DEF TouchDown, Name, Mapped
<1>12. ASSUME OnDown
       PROVE  Listening'
  BY <1>12 DEF OnDown, Find
<1>13. ASSUME NEW i \in Contacts, OnMotion(i)
       PROVE  Listening'
  BY <1>13 DEF OnMotion
<1>14. ASSUME NEW i \in Contacts, OnUp(i)
       PROVE  Listening'
  BY <1>14 DEF OnUp
<1>15. ASSUME OnCancel
       PROVE  Listening'
  BY <1>15 DEF OnCancel
<1>16. ASSUME NEW s \in Surfaces, Enter(s)
       PROVE  Listening'
  BY <1>16 DEF Enter, Name, Mapped
<1>17. ASSUME OnEnter
       PROVE  Listening'
  BY <1>17 DEF OnEnter, Find
<1>18. ASSUME NEW s \in Surfaces, Leave(s)
       PROVE  Listening'
  BY <1>18 DEF Leave, Name
<1>19. ASSUME OnLeave
       PROVE  Listening'
  BY <1>19 DEF OnLeave
<1>20. ASSUME NEW s \in Surfaces, OnKey(s)
       PROVE  Listening'
  BY <1>20 DEF OnKey
<1>21. CASE UNCHANGED vars
  BY <1>21
<1>22. QED
  BY <1>1, <1>2, <1>3, <1>4, <1>5, <1>6, <1>7, <1>8, <1>9, <1>10, <1>11,
     <1>12, <1>13, <1>14, <1>15, <1>16, <1>17, <1>18, <1>19, <1>20, <1>21
     DEF Next, FinishDisplay, FinishInput, FinishEvent, Deadlock

-----------------------------------------------------------------------------
(* The contacts, while they stay on one surface that keeps its callbacks.    *)

\* The down of the contact is being handled.
Coming(i) == dispatch.op = "down" /\ dispatch.id = i

Followed ==
  kind = "touch" /\ ~disturbed =>
    /\ ~spread
    /\ dispatch.op = "down" =>
         /\ focus[dispatch.id] = dispatch.surface
         /\ \A i \in Contacts : focus[i] \in {None, dispatch.surface}
    /\ \A i \in Contacts : focus[i] # None /\ ~Coming(i) => current = focus[i]
    /\ \A c \in Connectors :
         /\ view[c].inTurn
         /\ \A i \in Contacts :
              i \in Series!DownIn(view[c]) <=> Owns(c, focus[i]) /\ ~Coming(i)

\* What an event does to the contacts its receiver holds to be down.
LEMMA Seen ==
  ASSUME NEW v \in Series!Views, NEW i \in Contacts, NEW j \in Contacts
  PROVE  /\ Series!SeeDown(v, i, 0).inTurn <=> v.inTurn /\ i \notin Series!DownIn(v)
         /\ Series!SeeUp(v, i).inTurn <=> v.inTurn /\ i \in Series!DownIn(v)
         /\ Series!SeeMotion(v, i, 0).inTurn <=> v.inTurn /\ i \in Series!DownIn(v)
         /\ j \in Series!DownIn(Series!SeeDown(v, i, 0)) <=> j = i \/ j \in Series!DownIn(v)
         /\ j \in Series!DownIn(Series!SeeUp(v, i)) <=> j # i /\ j \in Series!DownIn(v)
         /\ j \in Series!DownIn(Series!SeeMotion(v, i, 0)) <=> j \in Series!DownIn(v)
<1>1. v.at \in [Contacts -> {0} \cup {Series!Nowhere}] /\ Series!Nowhere # 0
  BY DEF Series!Views, Series!Nowhere
<1>2. \A w : j \in Series!DownIn(w) <=> w.at[j] # Series!Nowhere
  BY DEF Series!DownIn
<1>3. i \in Series!DownIn(v) <=> v.at[i] # Series!Nowhere
  BY DEF Series!DownIn
<1>4. /\ Series!SeeDown(v, i, 0).inTurn <=> v.inTurn /\ i \notin Series!DownIn(v)
      /\ Series!SeeUp(v, i).inTurn <=> v.inTurn /\ i \in Series!DownIn(v)
      /\ Series!SeeMotion(v, i, 0).inTurn <=> v.inTurn /\ i \in Series!DownIn(v)
  BY Zenon DEF Series!SeeDown, Series!SeeUp, Series!SeeMotion
<1>5. /\ Series!SeeDown(v, i, 0).at = [v.at EXCEPT ![i] = 0]
      /\ Series!SeeUp(v, i).at = [v.at EXCEPT ![i] = Series!Nowhere]
      /\ Series!SeeMotion(v, i, 0).at =
           IF i \in Series!DownIn(v) THEN [v.at EXCEPT ![i] = 0] ELSE v.at
  BY DEF Series!SeeDown, Series!SeeUp, Series!SeeMotion
<1>6. j \in Series!DownIn(Series!SeeDown(v, i, 0)) <=> j = i \/ j \in Series!DownIn(v)
  BY <1>1, <1>2, <1>5
<1>7. j \in Series!DownIn(Series!SeeUp(v, i)) <=> j # i /\ j \in Series!DownIn(v)
  BY <1>1, <1>2, <1>5
<1>8. j \in Series!DownIn(Series!SeeMotion(v, i, 0)) <=> j \in Series!DownIn(v)
  BY <1>1, <1>2, <1>3, <1>5
<1>9. QED
  BY <1>4, <1>6, <1>7, <1>8

LEMMA NobodySeen ==
  /\ Series!NothingSeen.inTurn
  /\ \A i \in Contacts : i \notin Series!DownIn(Series!NothingSeen)
BY DEF Series!NothingSeen, Series!DownIn, Series!Nowhere

\* What the frontends have been told is where the contacts are.
LEMMA FollowedStep == IInv /\ Landed /\ OfKind /\ Followed /\ [Next]_vars => Followed'
<1> SUFFICES ASSUME IInv /\ Landed /\ OfKind /\ Followed, [Next]_vars
             PROVE  Followed'
  OBVIOUS
<1> USE DEF IInv, Subscribed, TypeOK, Named, Apart, Known, DeviceLock, Bound, Stored,
            CurrentIsStored, Landed, OfKind, Followed, Coming, Owns, InUse, NoEvent,
            ManagerFree, DeviceFree, vars, threadVars, managerVars, deviceVars, history
<1>1. ASSUME NEW c \in Connectors, CreateSurface(c)
       PROVE  Followed'
  BY <1>1 DEF CreateSurface
<1>2. ASSUME NEW c \in Connectors, SurfaceCreated(c)
       PROVE  Followed'
  BY <1>2 DEF SurfaceCreated, OnSurfaceCreate, SetSurfaceCallbacks, KeepCallbacks
<1>3. ASSUME NEW c \in Connectors, DeleteSurface(c)
       PROVE  Followed'
  BY <1>3 DEF DeleteSurface
<1>4. ASSUME NEW c \in Connectors, SurfaceDeleted(c)
       PROVE  Followed'
  BY <1>4 DEF SurfaceDeleted, OnSurfaceDelete, ClearSurfaceCallbacks, KeepCallbacks
<1>5. ASSUME NEW c \in Connectors, DestroySurface(c)
       PROVE  Followed'
  <2>1. ~disturbed' => ~disturbed /\ \A i \in Contacts : focus[i] # window[c]
    BY <1>5, Zenon DEF DestroySurface
  <2>2. ~disturbed' => focus' = focus
    BY <1>5, <2>1 DEF DestroySurface
  <2>3. \A i \in Contacts : \A d \in Connectors :
          ~disturbed' => (Owns(d, focus[i]))' <=> Owns(d, focus[i])
    BY <1>5, <2>1, <2>2 DEF DestroySurface
  <2>4. QED
    BY <1>5, <2>1, <2>2, <2>3 DEF DestroySurface
<1>6. ASSUME NEW c \in Connectors, SetConnectorCallbacks(c)
       PROVE  Followed'
  BY <1>6 DEF SetConnectorCallbacks
<1>7. ASSUME NEW c \in Connectors, ConnectorCallbacksSet(c)
       PROVE  Followed'
  BY <1>7 DEF ConnectorCallbacksSet, SetSurfaceCallbacks, KeepCallbacks
<1>8. ASSUME NEW c \in Connectors, ClearConnectorCallbacks(c)
       PROVE  Followed'
  BY <1>8 DEF ClearConnectorCallbacks
<1>9. ASSUME NEW c \in Connectors, ConnectorCallbacksCleared(c)
       PROVE  Followed'
  <2>1. ~disturbed' => ~disturbed /\ \A i \in Contacts : focus[i] # window[c]
    BY <1>9, Zenon DEF ConnectorCallbacksCleared
  <2>2. /\ view'[c] = Series!NothingSeen
        /\ \A d \in Connectors \ {c} : view'[d] = view[d]
    BY <1>9 DEF ConnectorCallbacksCleared
  <2>3. ASSUME kind = "touch", ~disturbed', NEW i \in Contacts, focus[i] # None, ~Coming(i)
        PROVE  current' = current
    <3>1. current = focus[i] /\ current # surfaces[c]
      BY <2>1, <2>3
    <3>2. QED
      BY <1>9, <3>1 DEF ConnectorCallbacksCleared, ClearSurfaceCallbacks, KeepCallbacks
  <2>4. ~disturbed' => \A i \in Contacts : ~Owns(c, focus[i])
    BY <2>1
  <2>5. UNCHANGED <<kind, dispatch, spread, focus, window>>
    BY <1>9 DEF ConnectorCallbacksCleared
  <2>6. QED
    BY <2>1, <2>2, <2>3, <2>4, <2>5, NobodySeen
<1>10. ASSUME Plug
       PROVE  Followed'
  BY <1>10 DEF Plug
<1>11. ASSUME NEW i \in Contacts, NEW s \in Surfaces, TouchDown(i, s)
       PROVE  Followed'
  <2>1. ~disturbed' => ~disturbed /\ ~spread'
    BY <1>11, Zenon DEF TouchDown
  <2>2. ~disturbed' => ~spread /\ \A j \in Contacts : focus[j] \in {None, s}
    BY <1>11, <2>1, Zenon DEF TouchDown
  <2>3. /\ dispatch = NoEvent
        /\ dispatch' = [op |-> "down", id |-> i, surface |-> s]
        /\ focus' = [focus EXCEPT ![i] = s]
        /\ focus[i] = None
        /\ UNCHANGED <<kind, window, current, view>>
    BY <1>11 DEF TouchDown, Name
  <2>4. \A j \in Contacts : Coming(j)' <=> j = i
    BY <2>3
  <2>5. QED
    BY <2>1, <2>2, <2>3, <2>4
<1>12. ASSUME OnDown
       PROVE  Followed'
  <2> DEFINE s == dispatch.surface
             i == dispatch.id
             c == surfaceCallbacks[s]
  <2>1. SUFFICES ASSUME kind' = "touch", ~disturbed'
                 PROVE  Followed'
    OBVIOUS
  <2>2. ~disturbed /\ current' # None
    BY <1>12, <2>1, Zenon DEF OnDown
  <2>3. s \in Surfaces /\ i \in Contacts /\ current' = s /\ c # None
    BY <1>12, <2>2 DEF OnDown, Find
  <2>4. view' = [view EXCEPT ![c] = Series!SeeDown(view[c], i, 0)]
    BY <1>12, <2>3 DEF OnDown, Find
  <2>5. c \in Connectors /\ view[c] \in Series!Views /\ Owns(c, s)
    BY <2>3
  <2>6. UNCHANGED <<kind, spread, focus, window>> /\ dispatch' = NoEvent /\ dispatch.op = "down"
    BY <1>12 DEF OnDown
  <2>7. /\ focus[i] = s
        /\ \A j \in Contacts : focus[j] \in {None, s}
        /\ \A j \in Contacts : Coming(j) <=> j = i
        /\ \A j \in Contacts : ~Coming(j)'
    BY <2>1, <2>2, <2>6
  <2>8. \A d \in Connectors :
          /\ view[d].inTurn
          /\ \A j \in Contacts : j \in Series!DownIn(view[d]) <=> Owns(d, focus[j]) /\ j # i
    BY <2>1, <2>2, <2>6, <2>7
  <2>9. ASSUME NEW d \in Connectors
        PROVE  /\ view'[d].inTurn
               /\ \A j \in Contacts : j \in Series!DownIn(view'[d]) <=> Owns(d, focus[j])
    <3>1. CASE d = c
      BY <2>3, <2>4, <2>5, <2>7, <2>8, <3>1, Seen, SMTT(30)
    <3>2. CASE d # c
      <4>1. view'[d] = view[d] /\ ~Owns(d, s)
        BY <2>4, <2>5, <3>2
      <4>2. QED
        BY <2>7, <2>8, <4>1
    <3>3. QED
      BY <3>1, <3>2
  <2>10. QED
    BY <2>1, <2>2, <2>3, <2>6, <2>7, <2>9
<1>13. ASSUME NEW i \in Contacts, OnMotion(i)
       PROVE  Followed'
  <2>1. SUFFICES ASSUME kind' = "touch", ~disturbed'
                 PROVE  Followed'
    OBVIOUS
  <2>2. /\ UNCHANGED <<kind, dispatch, spread, disturbed, window, current>>
        /\ dispatch = NoEvent /\ focus[i] # None
    BY <1>13 DEF OnMotion
  <2>3. current = focus[i] /\ \A j \in Contacts : ~Coming(j) /\ ~Coming(j)'
    BY <2>1, <2>2
  <2>4. /\ surfaceCallbacks[current] \in Connectors
        /\ Told \in Series!Views
        /\ Owns(surfaceCallbacks[current], focus[i])
    <3>1. current \in Surfaces /\ surfaceCallbacks[current] \in Connectors
      BY <2>2, <2>3
    <3>2. Owns(surfaceCallbacks[current], current)
      BY <3>1
    <3>3. QED
      BY <2>3, <3>1, <3>2 DEF Told
  <2>5. view' = [view EXCEPT ![surfaceCallbacks[current]] = Series!SeeMotion(Told, i, 0)]
    BY <1>13, <2>2, <2>3 DEF OnMotion, Tell
  <2>6. \A d \in Connectors :
          /\ view[d].inTurn
          /\ \A j \in Contacts : j \in Series!DownIn(view[d]) <=> Owns(d, focus[j])
    BY <2>1, <2>2, <2>3
  <2>7. ASSUME NEW d \in Connectors
        PROVE  /\ view'[d].inTurn
               /\ \A j \in Contacts : j \in Series!DownIn(view'[d]) <=> Owns(d, focus[j])
    <3>1. CASE d = surfaceCallbacks[current]
      BY <2>4, <2>5, <2>6, <3>1, Seen DEF Told
    <3>2. CASE d # surfaceCallbacks[current]
      BY <2>5, <2>6, <3>2
    <3>3. QED
      BY <3>1, <3>2
  <2>8. focus' = focus
    BY <1>13 DEF OnMotion
  <2>9. QED
    BY <2>1, <2>2, <2>3, <2>7, <2>8
<1>14. ASSUME NEW i \in Contacts, OnUp(i)
       PROVE  Followed'
  <2>1. SUFFICES ASSUME kind' = "touch", ~disturbed'
                 PROVE  Followed'
    OBVIOUS
  <2>2. /\ UNCHANGED <<kind, dispatch, spread, disturbed, window, current>>
        /\ dispatch = NoEvent /\ focus[i] # None
    BY <1>14 DEF OnUp
  <2>3. current = focus[i] /\ \A j \in Contacts : ~Coming(j) /\ ~Coming(j)'
    BY <2>1, <2>2
  <2>4. /\ surfaceCallbacks[current] \in Connectors
        /\ Told \in Series!Views
        /\ Owns(surfaceCallbacks[current], focus[i])
    <3>1. current \in Surfaces /\ surfaceCallbacks[current] \in Connectors
      BY <2>2, <2>3
    <3>2. Owns(surfaceCallbacks[current], current)
      BY <3>1
    <3>3. QED
      BY <2>3, <3>1, <3>2 DEF Told
  <2>5. view' = [view EXCEPT ![surfaceCallbacks[current]] = Series!SeeUp(Told, i)]
    BY <1>14, <2>2, <2>3 DEF OnUp, Tell
  <2>6. \A d \in Connectors :
          /\ view[d].inTurn
          /\ \A j \in Contacts : j \in Series!DownIn(view[d]) <=> Owns(d, focus[j])
    BY <2>1, <2>2, <2>3
  <2>7. focus' = [focus EXCEPT ![i] = None]
    BY <1>14 DEF OnUp
  <2>8. ASSUME NEW d \in Connectors
        PROVE  /\ view'[d].inTurn
               /\ \A j \in Contacts : j \in Series!DownIn(view'[d]) <=> Owns(d, focus'[j])
    <3>1. CASE d = surfaceCallbacks[current]
      BY <2>4, <2>5, <2>6, <2>7, <3>1, Seen DEF Told
    <3>2. CASE d # surfaceCallbacks[current]
      <4>1. view'[d] = view[d] /\ ~Owns(d, focus[i])
        BY <2>4, <2>5, <3>2
      <4>2. QED
        BY <2>6, <2>7, <4>1
    <3>3. QED
      BY <3>1, <3>2
  <2>9. QED
    BY <2>1, <2>2, <2>3, <2>7, <2>8
<1>15. ASSUME OnCancel
       PROVE  Followed'
  BY <1>15 DEF OnCancel
<1>16. ASSUME NEW s \in Surfaces, Enter(s)
       PROVE  Followed'
  BY <1>16 DEF Enter, Name, Mapped
<1>17. ASSUME OnEnter
       PROVE  Followed'
  BY <1>17 DEF OnEnter, Find
<1>18. ASSUME NEW s \in Surfaces, Leave(s)
       PROVE  Followed'
  BY <1>18 DEF Leave, Name
<1>19. ASSUME OnLeave
       PROVE  Followed'
  BY <1>19 DEF OnLeave
<1>20. ASSUME NEW s \in Surfaces, OnKey(s)
       PROVE  Followed'
  BY <1>20 DEF OnKey
<1>21. CASE UNCHANGED vars
  BY <1>21
<1>22. QED
  BY <1>1, <1>2, <1>3, <1>4, <1>5, <1>6, <1>7, <1>8, <1>9, <1>10, <1>11,
     <1>12, <1>13, <1>14, <1>15, <1>16, <1>17, <1>18, <1>19, <1>20, <1>21
     DEF Next, FinishDisplay, FinishInput, FinishEvent, Deadlock

Reached == IInv /\ Listening /\ Followed

LEMMA ReachedAlways == Spec => []Reached
<1>1. Init => Reached
  <2> SUFFICES ASSUME Init
               PROVE  Reached
    OBVIOUS
  <2>1. IInv
    BY InitAimed
  <2>2. Listening
    BY DEF Init, Listening, Landed, OfKind, Pending, Heard, NoEvent
  <2>3. Followed
    BY NobodySeen DEF Init, Followed, Coming, Owns, NoEvent
  <2>4. QED
    BY <2>1, <2>2, <2>3 DEF Reached
<1>2. Reached /\ [Next]_vars => Reached'
  BY SubscribedStep, AimedStep, ListeningStep, FollowedStep DEF Reached, IInv, Listening
<1>3. QED
  BY <1>1, <1>2, PTL DEF Spec

-----------------------------------------------------------------------------
\* Every variable keeps its type, and the manager never hands out a surface that
\* was destroyed.
THEOREM TypeCorrect == Spec => []TypeOK
<1>1. Reached => TypeOK
  BY DEF Reached, IInv, Subscribed
<1>2. QED
  BY <1>1, ReachedAlways, PTL

\* mCurrentCallback never points to an entry that was erased.
THEOREM CurrentValid == Spec => []CurrentIsStored
<1>1. Reached => CurrentIsStored
  BY DEF Reached, IInv, Subscribed
<1>2. QED
  BY <1>1, ReachedAlways, PTL

\* Whenever both locks are free, the surfaces that have callbacks are those of
\* the connectors that have them.
THEOREM Agreement == Spec => []SubscriptionsAgree
<1>1. Reached => SubscriptionsAgree
  <2> SUFFICES ASSUME Reached, ManagerFree, DeviceFree,
                      NEW s \in Surfaces, NEW c \in Connectors
               PROVE  surfaceCallbacks[s] = c <=>
                        c \in connectorCallbacks /\ surfaces[c] = s
    BY DEF SubscriptionsAgree
  <2>1. c # None /\ s # None
    OBVIOUS
  <2>2. displayAt[c] # "creating" /\ inputAt[c] # "setting"
    BY DEF ManagerFree, DeviceFree
  <2>3. QED
    BY <2>1, <2>2 DEF Reached, IInv, Subscribed, Stored, Complete
<1>2. QED
  BY <1>1, ReachedAlways, PTL

\* Input reaches the frontend whose surface it is for, unless contacts were on
\* several surfaces at a time.
THEOREM RightFrontend == Spec => []InputReachesOwner
<1>1. Reached => InputReachesOwner
  BY DEF Reached, IInv
<1>2. QED
  BY <1>1, ReachedAlways, PTL

\* A pointer or keyboard at rest whose focus is on the surface of a frontend
\* sends to it, unless the callbacks were stored after the focus came.
THEOREM FocusSent == Spec => []FocusIsHeard
<1>1. Reached => FocusIsHeard
  BY DEF Reached, IInv, Subscribed, TypeOK, Listening, Heard, Settled, FocusIsHeard,
         AtRest, DeviceFree
<1>2. QED
  BY <1>1, ReachedAlways, PTL

\* The frontend of an undisturbed surface holds exactly the contacts on it to be
\* down, and has seen their events in turn.
THEOREM ContactsSent == Spec => []ContactsReachOwner
<1>1. Reached => ContactsReachOwner
  <2> SUFFICES ASSUME Reached, AtRest, kind = "touch", ~disturbed,
                      NEW c \in connectorCallbacks
               PROVE  /\ view[c].inTurn
                      /\ Series!DownIn(view[c]) = {i \in Contacts : Owns(c, focus[i])}
    BY DEF ContactsReachOwner
  <2>1. c \in Connectors
    BY DEF Reached, IInv, Subscribed, TypeOK
  <2>2. \A i \in Contacts : ~Coming(i)
    BY DEF AtRest, DeviceFree, Coming, NoEvent
  <2>3. /\ view[c].inTurn
        /\ \A i \in Contacts : i \in Series!DownIn(view[c]) <=> Owns(c, focus[i])
    BY <2>1, <2>2 DEF Reached, Followed
  <2>4. Series!DownIn(view[c]) \subseteq Contacts
    BY DEF Series!DownIn
  <2>5. QED
    BY <2>3, <2>4
<1>2. QED
  BY <1>1, ReachedAlways, PTL

=============================================================================
