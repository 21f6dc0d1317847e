----------------------------- MODULE SeatRouting -----------------------------
(***************************************************************************)
(* Input of a Wayland seat on its way to the frontends: the manager of the *)
(* surfaces (SurfaceManager.cpp), a device of the seat (SeatDevice.hpp)    *)
(* and its listener: SeatTouch.cpp, whose contacts name their surface once,*)
(* when they go down, or SeatPointer.cpp and SeatKeyboard.cpp, which follow*)
(* the focus.                                                              *)
(*                                                                         *)
(* The thread of a display frontend creates and deletes its surface under  *)
(* the manager's lock and takes the device's lock in the notification.     *)
(* The thread of an input frontend stores callbacks under the device's     *)
(* lock and takes the manager's to look its surface up.  The dispatch      *)
(* thread handles events under the device's lock and asks the manager for  *)
(* a name to log.  An operation that takes both locks is two steps; who    *)
(* holds a lock follows from where the threads are.                        *)
(***************************************************************************)
EXTENDS Integers

CONSTANTS
  Connectors,   \* connectors, each with one display and one input frontend
  Surfaces,     \* addresses of a wl_surface
  Contacts,     \* touch IDs
  Kinds,        \* devices: "touch", "focus" (a pointer or a keyboard)
  None

ASSUME KindsAssumption == Kinds \subseteq {"touch", "focus"}
ASSUME NoneAssumption == None \notin Connectors \cup Surfaces

VARIABLES
  kind,                 \* which device this is
  plugged,              \* the device is there and has subscribed
  displayAt, inputAt,   \* where the threads of the frontends are
  dispatch,             \* the event the dispatch thread handles
  surfaces,             \* SurfaceManager::mSurfaces
  window,               \* the surface each connector has in the compositor
  connectorCallbacks,   \* keys of mConnectorCallbacks
  surfaceCallbacks,     \* mSurfaceCallbacks: whose callbacks a surface has
  current,              \* mCurrentCallback: its key, None for end()
  focus,                \* the surface a contact is on, or the one in focus
  view,                 \* what each frontend has been told of the contacts
  late,                 \* history: callbacks were stored after the focus came
  spread,               \* history: contacts were on several surfaces at a time
  disturbed,            \* history: contacts met one of the cases below
  misrouted             \* history: an event went to a frontend it is not for

threadVars == <<displayAt, inputAt, dispatch>>
managerVars == <<surfaces, window>>
deviceVars == <<connectorCallbacks, surfaceCallbacks, current>>
history == <<late, spread, disturbed, misrouted>>
vars == <<kind, plugged, threadVars, managerVars, deviceVars, focus, view, history>>

Series == INSTANCE ContactSeries WITH Positions <- {0}

NoEvent == [op |-> "none", id |-> None, surface |-> None]

Init ==
  /\ kind \in Kinds
  /\ plugged \in BOOLEAN
  /\ displayAt = [c \in Connectors |-> "idle"]
  /\ inputAt = [c \in Connectors |-> "idle"]
  /\ dispatch = NoEvent
  /\ surfaces = [c \in Connectors |-> None]
  /\ window = [c \in Connectors |-> None]
  /\ connectorCallbacks = {}
  /\ surfaceCallbacks = [s \in Surfaces |-> None]
  /\ current = None
  /\ focus = [i \in Contacts |-> None]
  /\ view = [c \in Connectors |-> Series!NothingSeen]
  /\ late = FALSE
  /\ spread = FALSE
  /\ disturbed = FALSE
  /\ misrouted = FALSE

-----------------------------------------------------------------------------
(* Locks *)

ManagerFree == \A c \in Connectors : displayAt[c] \notin {"creating", "deleting"}
DeviceFree == dispatch = NoEvent /\ \A c \in Connectors : inputAt[c] = "idle"

\* Each lock is held by a thread that waits for the other one.
Stuck == ~ManagerFree /\ ~DeviceFree

\* A contact is on the surface, or the focus is.
InUse(s) == \E i \in Contacts : focus[i] = s

Owns(c, s) == s # None /\ window[c] = s

-----------------------------------------------------------------------------
(* The callbacks of surfaces *)

SetSurfaceCallbacks(s, c) ==
  /\ surfaceCallbacks' = [surfaceCallbacks EXCEPT ![s] = c]
  /\ UNCHANGED current

ClearSurfaceCallbacks(s) ==
  /\ surfaceCallbacks' = [surfaceCallbacks EXCEPT ![s] = None]
  /\ current' = IF current = s THEN None ELSE current

KeepCallbacks == UNCHANGED <<surfaceCallbacks, current>>

-----------------------------------------------------------------------------
(* A display frontend *)

\* onInit(): a new wl_surface, then createSurface() up to the subscribers.
CreateSurface(c) ==
  /\ displayAt[c] = "idle"
  /\ window[c] = None
  /\ ManagerFree
  /\ \E s \in Surfaces :
       /\ \A d \in Connectors : window[d] # s
       /\ window' = [window EXCEPT ![c] = s]
       /\ surfaces' = [surfaces EXCEPT ![c] = s]
  /\ displayAt' = [displayAt EXCEPT ![c] = "creating"]
  /\ UNCHANGED <<kind, plugged, inputAt, dispatch, deviceVars, focus, view, history>>

\* Mutant: only connectors without callbacks get them.
OnSurfaceCreate_Inverted(c) ==
  IF c \notin connectorCallbacks
  THEN SetSurfaceCallbacks(surfaces[c], c)
  ELSE KeepCallbacks

OnSurfaceCreate(c) ==
  IF c \in connectorCallbacks
  THEN SetSurfaceCallbacks(surfaces[c], c)
  ELSE KeepCallbacks

\* The rest of createSurface(): a device that has subscribed is notified.
SurfaceCreated(c) ==
  /\ displayAt[c] = "creating"
  /\ IF plugged
       THEN DeviceFree /\ OnSurfaceCreate(c)
       ELSE KeepCallbacks
  /\ displayAt' = [displayAt EXCEPT ![c] = "idle"]
  /\ UNCHANGED <<kind, plugged, inputAt, dispatch, managerVars,
                 connectorCallbacks, focus, view, history>>

\* onRelease(): deleteSurface() up to the subscribers.
DeleteSurface(c) ==
  /\ displayAt[c] = "idle"
  /\ window[c] # None
  /\ ManagerFree
  /\ displayAt' = [displayAt EXCEPT ![c] = "deleting"]
  /\ UNCHANGED <<kind, plugged, inputAt, dispatch, managerVars, deviceVars,
                 focus, view, history>>

\* Mutant: the callbacks stay with the surface.
OnSurfaceDelete_Keeps(c) == KeepCallbacks

OnSurfaceDelete(c) ==
  IF c \in connectorCallbacks
  THEN ClearSurfaceCallbacks(window[c])
  ELSE KeepCallbacks

SurfaceDeleted(c) ==
  /\ displayAt[c] = "deleting"
  /\ IF plugged
       THEN DeviceFree /\ OnSurfaceDelete(c)
       ELSE KeepCallbacks
  /\ surfaces' = [surfaces EXCEPT ![c] = None]
  /\ displayAt' = [displayAt EXCEPT ![c] = "destroying"]
  /\ disturbed' = (disturbed \/ InUse(window[c]))
  /\ UNCHANGED <<kind, plugged, inputAt, dispatch, window, connectorCallbacks,
                 focus, view, late, spread, misrouted>>

\* mSurface.reset(): ~Surface destroys the wl_surface, and the compositor
\* forgets what was on it.
DestroySurface(c) ==
  /\ displayAt[c] = "destroying"
  /\ window' = [window EXCEPT ![c] = None]
  /\ focus' = [i \in Contacts |-> IF focus[i] = window[c] THEN None ELSE focus[i]]
  /\ displayAt' = [displayAt EXCEPT ![c] = "idle"]
  /\ disturbed' = (disturbed \/ InUse(window[c]))
  /\ UNCHANGED <<kind, plugged, inputAt, dispatch, surfaces, deviceVars, view,
                 late, spread, misrouted>>

-----------------------------------------------------------------------------
(* An input frontend *)

\* readCapabilities(): a device that appears subscribes.
Plug ==
  /\ ~plugged
  /\ ManagerFree
  /\ plugged' = TRUE
  /\ UNCHANGED <<kind, threadVars, managerVars, deviceVars, focus, view, history>>

\* setInputCallbacks() and setConnectorCallbacks() up to the look-up, for a
\* new input ring.
SetConnectorCallbacks(c) ==
  /\ plugged
  /\ inputAt[c] = "idle"
  /\ c \notin connectorCallbacks
  /\ DeviceFree
  /\ connectorCallbacks' = connectorCallbacks \cup {c}
  /\ inputAt' = [inputAt EXCEPT ![c] = "setting"]
  /\ UNCHANGED <<kind, plugged, displayAt, dispatch, managerVars,
                 surfaceCallbacks, current, focus, view, history>>

ConnectorCallbacksSet(c) ==
  /\ inputAt[c] = "setting"
  /\ ManagerFree
  /\ IF surfaces[c] # None
       THEN SetSurfaceCallbacks(surfaces[c], c)
       ELSE KeepCallbacks
  /\ inputAt' = [inputAt EXCEPT ![c] = "idle"]
  /\ late' = (late \/ InUse(window[c]))
  /\ disturbed' = (disturbed \/ InUse(window[c]))
  /\ UNCHANGED <<kind, plugged, displayAt, dispatch, managerVars,
                 connectorCallbacks, focus, view, spread, misrouted>>

\* ~WlInput: clearInputCallbacks() and clearConnectorCallbacks().  The frontend
\* forgets what it was told.
ClearConnectorCallbacks(c) ==
  /\ plugged
  /\ inputAt[c] = "idle"
  /\ c \in connectorCallbacks
  /\ DeviceFree
  /\ inputAt' = [inputAt EXCEPT ![c] = "clearing"]
  /\ UNCHANGED <<kind, plugged, displayAt, dispatch, managerVars, deviceVars,
                 focus, view, history>>

ConnectorCallbacksCleared(c) ==
  /\ inputAt[c] = "clearing"
  /\ ManagerFree
  /\ IF surfaces[c] # None
       THEN ClearSurfaceCallbacks(surfaces[c])
       ELSE KeepCallbacks
  /\ connectorCallbacks' = connectorCallbacks \ {c}
  /\ inputAt' = [inputAt EXCEPT ![c] = "idle"]
  /\ view' = [view EXCEPT ![c] = Series!NothingSeen]
  /\ disturbed' = (disturbed \/ InUse(window[c]))
  /\ UNCHANGED <<kind, plugged, displayAt, dispatch, managerVars, focus, late,
                 spread, misrouted>>

-----------------------------------------------------------------------------
(* The dispatch thread *)

\* A surface can have input once it was drawn, which is after createSurface().
Mapped(s) ==
  \E c \in Connectors : Owns(c, s) /\ displayAt[c] # "creating"

\* The current callback after a surface was named.
Find(s) == IF surfaceCallbacks[s] = None THEN None ELSE s

\* What the frontend of the current callback has been told, and is told now.
Told == view[surfaceCallbacks[current]]

Tell(v) ==
  IF current = None THEN UNCHANGED view
  ELSE view' = [view EXCEPT ![surfaceCallbacks[current]] = v]

\* An event of surface s reaches the frontend of the current callback.
Route(s) ==
  misrouted' = \/ misrouted
               \/ current # None /\ ~Owns(surfaceCallbacks[current], s)

\* The compositor names a surface: onDown(), onEnter(), and onLeave() with
\* none, up to the name they log.
Name(op, i, s) ==
  /\ plugged
  /\ DeviceFree
  /\ dispatch' = [op |-> op, id |-> i, surface |-> s]
  /\ UNCHANGED <<kind, plugged, displayAt, inputAt, managerVars, deviceVars,
                 view, late, misrouted>>

TouchDown(i, s) ==
  /\ kind = "touch"
  /\ focus[i] = None
  /\ Mapped(s)
  /\ Name("down", i, s)
  /\ focus' = [focus EXCEPT ![i] = s]
  /\ spread' = (spread \/ \E j \in Contacts : focus[j] \notin {None, s})
  /\ disturbed' = (disturbed \/ spread')

OnDown ==
  /\ dispatch.op = "down"
  /\ ManagerFree
  /\ LET s == dispatch.surface
         i == dispatch.id IN
     /\ current' = Find(s)
     /\ IF current' = None
          THEN UNCHANGED <<view, misrouted>>
          ELSE /\ view' = [view EXCEPT ![surfaceCallbacks[s]] =
                                         Series!SeeDown(@, i, 0)]
               /\ misrouted' = (misrouted \/ ~Owns(surfaceCallbacks[s], s))
     /\ disturbed' = (disturbed \/ current' = None)
  /\ dispatch' = NoEvent
  /\ UNCHANGED <<kind, plugged, displayAt, inputAt, managerVars,
                 connectorCallbacks, surfaceCallbacks, focus, late, spread>>

\* Motions and ups name a contact only: they go to the current callback.
OnMotion(i) ==
  /\ kind = "touch"
  /\ plugged
  /\ focus[i] # None
  /\ DeviceFree
  /\ Tell(Series!SeeMotion(Told, i, 0))
  /\ Route(focus[i])
  /\ UNCHANGED <<kind, plugged, threadVars, managerVars, deviceVars, focus,
                 late, spread, disturbed>>

\* Mutant: a contact that goes up takes the current callback with it.
OnUp_ResetsCurrent(i) ==
  /\ kind = "touch"
  /\ plugged
  /\ focus[i] # None
  /\ DeviceFree
  /\ Tell(Series!SeeUp(Told, i))
  /\ Route(focus[i])
  /\ current' = None
  /\ focus' = [focus EXCEPT ![i] = None]
  /\ UNCHANGED <<kind, plugged, threadVars, managerVars, connectorCallbacks,
                 surfaceCallbacks, late, spread, disturbed>>

OnUp(i) ==
  /\ kind = "touch"
  /\ plugged
  /\ focus[i] # None
  /\ DeviceFree
  /\ Tell(Series!SeeUp(Told, i))
  /\ Route(focus[i])
  /\ focus' = [focus EXCEPT ![i] = None]
  /\ UNCHANGED <<kind, plugged, threadVars, managerVars, deviceVars, late,
                 spread, disturbed>>

\* onCancel() does nothing: the compositor sends no more of the contacts.
OnCancel ==
  /\ kind = "touch"
  /\ plugged
  /\ DeviceFree
  /\ \E i \in Contacts : focus[i] # None
  /\ focus' = [i \in Contacts |-> None]
  /\ disturbed' = TRUE
  /\ UNCHANGED <<kind, plugged, threadVars, managerVars, deviceVars, view, late,
                 spread, misrouted>>

Enter(s) ==
  /\ kind = "focus"
  /\ \A i \in Contacts : focus[i] = None
  /\ Mapped(s)
  /\ Name("enter", None, s)
  /\ focus' = [i \in Contacts |-> s]
  /\ UNCHANGED <<spread, disturbed>>

OnEnter ==
  /\ dispatch.op = "enter"
  /\ ManagerFree
  /\ current' = Find(dispatch.surface)
  /\ late' = FALSE
  /\ dispatch' = NoEvent
  /\ UNCHANGED <<kind, plugged, displayAt, inputAt, managerVars,
                 connectorCallbacks, surfaceCallbacks, focus, view, spread,
                 disturbed, misrouted>>

Leave(s) ==
  /\ kind = "focus"
  /\ InUse(s)
  /\ Name("leave", None, s)
  /\ focus' = [i \in Contacts |-> None]
  /\ UNCHANGED <<spread, disturbed>>

OnLeave ==
  /\ dispatch.op = "leave"
  /\ ManagerFree
  /\ current' = None
  /\ late' = FALSE
  /\ dispatch' = NoEvent
  /\ UNCHANGED <<kind, plugged, displayAt, inputAt, managerVars,
                 connectorCallbacks, surfaceCallbacks, focus, view, spread,
                 disturbed, misrouted>>

\* Keys, buttons, axes and pointer motions on the surface in focus.
OnKey(s) ==
  /\ kind = "focus"
  /\ plugged
  /\ InUse(s)
  /\ DeviceFree
  /\ Route(s)
  /\ UNCHANGED <<kind, plugged, threadVars, managerVars, deviceVars, focus,
                 view, late, spread, disturbed>>

\* The two locks taken in two orders: nobody gets any further.
Deadlock ==
  /\ Stuck
  /\ UNCHANGED vars

FinishDisplay(c) == SurfaceCreated(c) \/ SurfaceDeleted(c) \/ DestroySurface(c)
FinishInput(c) == ConnectorCallbacksSet(c) \/ ConnectorCallbacksCleared(c)
FinishEvent == OnDown \/ OnEnter \/ OnLeave

Next ==
  \/ \E c \in Connectors :
       \/ CreateSurface(c)
       \/ DeleteSurface(c)
       \/ SetConnectorCallbacks(c)
       \/ ClearConnectorCallbacks(c)
       \/ FinishDisplay(c)
       \/ FinishInput(c)
  \/ Plug
  \/ \E i \in Contacts : \E s \in Surfaces : TouchDown(i, s)
  \/ \E i \in Contacts : OnMotion(i) \/ OnUp(i)
  \/ \E s \in Surfaces : Enter(s) \/ Leave(s) \/ OnKey(s)
  \/ FinishEvent
  \/ OnCancel
  \/ Deadlock

Spec == Init /\ [][Next]_vars

-----------------------------------------------------------------------------
(* Properties *)

\* Types of the variables; the manager knows no surface that does not exist.
TypeOK ==
  /\ kind \in Kinds
  /\ plugged \in BOOLEAN
  /\ displayAt \in [Connectors -> {"idle", "creating", "deleting", "destroying"}]
  /\ inputAt \in [Connectors -> {"idle", "setting", "clearing"}]
  /\ dispatch \in [op : {"none", "down", "enter", "leave"},
                   id : Contacts \cup {None}, surface : Surfaces \cup {None}]
  /\ surfaces \in [Connectors -> Surfaces \cup {None}]
  /\ window \in [Connectors -> Surfaces \cup {None}]
  /\ \A c \in Connectors : surfaces[c] \in {None, window[c]}
  /\ connectorCallbacks \subseteq Connectors
  /\ surfaceCallbacks \in [Surfaces -> Connectors \cup {None}]
  /\ current \in Surfaces \cup {None}
  /\ focus \in [Contacts -> Surfaces \cup {None}]
  /\ view \in [Connectors -> Series!Views]
  /\ late \in BOOLEAN /\ spread \in BOOLEAN
  /\ disturbed \in BOOLEAN /\ misrouted \in BOOLEAN

\* The iterator of the current callback is never one that was erased.
CurrentIsStored ==
  current # None => surfaceCallbacks[current] # None

\* Whatever the order in which surfaces and callbacks come and go, with both
\* locks free exactly the surfaces of connectors with callbacks have them, and
\* their own.
SubscriptionsAgree ==
  ManagerFree /\ DeviceFree =>
    \A s \in Surfaces : \A c \in Connectors :
      surfaceCallbacks[s] = c <=> c \in connectorCallbacks /\ surfaces[c] = s

\* No frontend gets the input of another one, unless contacts were on several
\* surfaces at a time.
InputReachesOwner == misrouted => spread

AtRest ==
  DeviceFree /\ \A c \in Connectors : displayAt[c] = "idle"

\* A pointer or keyboard whose focus is on the surface of a frontend sends to
\* it, unless the callbacks were stored after the focus came.
FocusIsHeard ==
  AtRest /\ kind = "focus" /\ ~late =>
    \A c \in connectorCallbacks : InUse(window[c]) /\ window[c] # None =>
      current = window[c]

\* Contacts that stay on one surface, which keeps its callbacks, reach its
\* frontend as complete series.
ContactsReachOwner ==
  AtRest /\ kind = "touch" /\ ~disturbed =>
    \A c \in connectorCallbacks :
      /\ view[c].inTurn
      /\ Series!DownIn(view[c]) = {i \in Contacts : Owns(c, focus[i])}

=============================================================================
