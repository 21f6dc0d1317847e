------------------------------ MODULE DevTouch -------------------------------
(***************************************************************************)
(* A touch screen read through evdev (input/DevInput.cpp) and the frontend *)
(* that gets its contacts (InputBackend.cpp).                              *)
(*                                                                         *)
(* The reader thread translates one evdev event after the other; it is     *)
(* started by the constructor, so that it may run before the input ring    *)
(* has stored its callbacks, and it calls flushEvents() both with and      *)
(* without the lock that setCallbacks() takes.  One state machine serves   *)
(* drivers of multi-touch protocol B, which report what changed in a slot, *)
(* and of protocol A, which list all contacts each time.                   *)
(*                                                                         *)
(* A frame of the driver is not a sequence of events here: the events that *)
(* are still to come follow from what has been read of each slot.          *)
(***************************************************************************)
EXTENDS Integers, FiniteSets

CONSTANTS
  MaxSlot,        \* bound: the screen tracks contacts in the slots 0 .. MaxSlot
  Places,         \* on the screen, 0 being the corner
  TrackingIds,    \* tracking IDs
  Drivers         \* kinds of driver: "B" (protocol B), "BKey" (B with the
                  \*   single-touch events too), "A", "AId" (A with tracking IDs)

ASSUME MaxSlotAssumption == MaxSlot \in Nat
ASSUME PlacesAssumption == Places \subseteq Nat /\ 0 \in Places
ASSUME TrackingIdsAssumption == TrackingIds \subseteq Nat /\ 0 \in TrackingIds
ASSUME DriversAssumption == Drivers \subseteq {"B", "BKey", "A", "AId"}

VARIABLES
  driver,       \* the kind of the driver
  screen,       \* what is in each slot: tracking ID, NoId when nothing touches,
                \*   and the position reported last
  told,         \* the same, as far as the events read have told it
  unread,       \* the slots of the frame that have events not read yet
  more,         \* the events of the frame behind those of its slots
  kernelSlot,   \* the slot the driver reported last
  touch,        \* the fields of DevInput<TouchCallbacks>
  thread,       \* the reader: in poll(), between the events of a frame, in the
                \*   loop that lifts contacts, waiting for the lock to end the
                \*   frame, or dead
  lift,         \* i of that loop
  stored,       \* how many of down, up and motion are stored in mCallbacks
  view,         \* what the frontend has been told of the contacts
  early,        \* history: an event was handled before all callbacks were stored
  torn,         \* history: flushEvents() ran while they were being stored
  reused        \* history: a new contact took a slot that was not lifted

frameVars == <<told, unread, more, kernelSlot>>
tvars == <<driver, screen, frameVars, touch, thread, lift, stored, view, early, torn, reused>>

Slots == 0 .. MaxSlot
Numbers == 0 .. MaxSlot + 1
NoId == -1
NoPlace == -1
NoKey == -1
NoMore == [key |-> NoKey, pos |-> NoPlace, mtReport |-> FALSE]

Series == INSTANCE ContactSeries WITH Contacts <- Numbers, Positions <- Places

Contact == [id : TrackingIds \cup {NoId}, pos : Places]
Touched(s) == s.id # NoId
TouchedSlots == {s \in Slots : Touched(screen[s])}
Listing == driver \in {"A", "AId"}

\* The screen has not been touched before it was opened.
TInit ==
  /\ driver \in Drivers
  /\ screen = [s \in Slots |-> [id |-> NoId, pos |-> 0]]
  /\ told = screen /\ unread = {} /\ more = NoMore /\ kernelSlot = 0
  /\ touch = [key |-> 0, sendKey |-> FALSE, sendAbs |-> FALSE,
              mtReport |-> FALSE, lastMtReports |-> 0, currentSlot |-> 0,
              contacts |-> [c \in Numbers |-> [id |-> NoId, pos |-> 0]]]
  /\ thread = "polling" /\ lift = 0
  /\ stored = 0
  /\ view = Series!NothingSeen
  /\ early = FALSE /\ torn = FALSE /\ reused = FALSE

-----------------------------------------------------------------------------
(* The driver: external *)

\* Behind the slots, the single-touch events of a driver that adds them: the
\* key of the first contact down and of the last one up, and the position of
\* one of them.
SingleTouchReports(new) ==
  LET down == {s \in Slots : Touched(new[s])}
      key == IF TouchedSlots = {} /\ down # {} THEN 1
             ELSE IF TouchedSlots # {} /\ down = {} THEN 0 ELSE NoKey
      one == [NoMore EXCEPT !.key = key]
  IN  {one} \cup {[one EXCEPT !.pos = new[s].pos] : s \in down}

\* Protocol B: the slots that changed.
ChangeReport(new) ==
  /\ told' = told
  /\ unread' = {s \in Slots : new[s] # screen[s]}
  /\ more' \in IF driver = "BKey" THEN SingleTouchReports(new) ELSE {NoMore}

\* Protocol A: every contact from anew, its ID if the driver has IDs; or a
\* report of none.
ListReport(new) ==
  /\ unread' = {s \in Slots : Touched(new[s])}
  /\ told' = [s \in Slots |->
                IF s \in unread' THEN [id |-> IF driver = "AId" THEN NoId ELSE new[s].id, pos |-> NoPlace]
                                 ELSE new[s]]
  /\ more' = [NoMore EXCEPT !.mtReport = (unread' = {})]

\* The contacts move, come and go, and the driver reports a frame.
Frame ==
  /\ thread = "polling" /\ thread' = "reading"
  /\ screen' \in [Slots -> Contact]
  /\ \A s \in Slots : ~Touched(screen'[s]) => screen'[s].pos = screen[s].pos
  /\ driver # "B" => \A s \in Slots : screen'[s].id \in {0, NoId}
  /\ screen' # screen
  /\ reused' = \/ reused
               \/ \E s \in TouchedSlots : screen'[s].id \notin {NoId, screen[s].id}
  /\ IF Listing THEN ListReport(screen') ELSE ChangeReport(screen')
  /\ UNCHANGED <<driver, kernelSlot, touch, lift, stored, view, early, torn>>

\* The event that comes next.  The slots come in order; protocol B gives the
\* number of a slot if another one was reported last, then what changed in it;
\* protocol A ends each contact.
Foremost(s) == thread = "reading" /\ s \in unread /\ \A r \in unread : s <= r
AtSlot(s) == Foremost(s) /\ ~Listing /\ kernelSlot # s
AtFields(s) == Foremost(s) /\ ~AtSlot(s)
AtId(s) == AtFields(s) /\ told[s].id # screen[s].id
AtPosition(s) == AtFields(s) /\ ~AtId(s) /\ told[s].pos # screen[s].pos
AtMtReport(s) == AtFields(s) /\ told[s] = screen[s]
AtMore == thread = "reading" /\ unread = {} /\ more # NoMore
AtReport == thread = "reading" /\ unread = {} /\ more = NoMore

\* What is left of the frame when more of slot s has been read: with protocol A
\* its contact is still to be ended.
Read(s, contact) ==
  /\ told' = [told EXCEPT ![s] = contact]
  /\ unread' = IF ~Listing /\ contact = screen[s] THEN unread \ {s} ELSE unread
  /\ UNCHANGED <<more, kernelSlot, thread>>

-----------------------------------------------------------------------------
(* The translation: pairs of the fields t and what has been sent, v *)

StoredCallbacks == {<<"down", "up", "motion">>[i] : i \in 1 .. stored}

\* Mutant: mSendKey is not reset after a down.
FlushKey_KeepsKey(w) ==
  LET t == w.t
      c == t.currentSlot
      done == [t EXCEPT !.sendKey = FALSE]
  IN  CASE t.sendKey /\ t.key = 1 /\ "down" \in StoredCallbacks ->
             [t |-> [t EXCEPT !.sendAbs = FALSE],
              v |-> Series!SeeDown(w.v, c, t.contacts[c].pos)]
        [] t.sendKey /\ t.key = 0 /\ "up" \in StoredCallbacks ->
             [t |-> [done EXCEPT !.contacts[c].id = NoId],
              v |-> Series!SeeUp(w.v, c)]
        [] OTHER -> [w EXCEPT !.t = done]

\* The first half of flushEvents(): a pending key is a contact down or up.  A
\* callback that is not stored leaves the rest as it is.
FlushKey(w) ==
  LET t == w.t
      c == t.currentSlot
      done == [t EXCEPT !.sendKey = FALSE]
  IN  CASE t.sendKey /\ t.key = 1 /\ "down" \in StoredCallbacks ->
             [t |-> [done EXCEPT !.sendAbs = FALSE],
              v |-> Series!SeeDown(w.v, c, t.contacts[c].pos)]
        [] t.sendKey /\ t.key = 0 /\ "up" \in StoredCallbacks ->
             [t |-> [done EXCEPT !.contacts[c].id = NoId],
              v |-> Series!SeeUp(w.v, c)]
        [] OTHER -> [w EXCEPT !.t = done]

\* The second half: a pending position is a motion.
FlushAbs(w) ==
  IF w.t.sendAbs /\ "motion" \in StoredCallbacks
  THEN [t |-> [w.t EXCEPT !.sendAbs = FALSE],
        v |-> Series!SeeMotion(w.v, w.t.currentSlot,
                               w.t.contacts[w.t.currentSlot].pos)]
  ELSE w

FlushEvents(w) == FlushAbs(FlushKey(w))

\* Assignments to mKey and mSendKey, and setCurrentSlot(); its resize() leaves
\* new places as Init has them.
WithKey(w, value) == [w EXCEPT !.t.key = value, !.t.sendKey = TRUE]
WithSlot(w, slot) == [w EXCEPT !.t.currentSlot = slot]

OnPosition(w, value) ==
  [w EXCEPT !.t.contacts[w.t.currentSlot].pos = value, !.t.sendAbs = TRUE]

\* Mutant: what is pending goes to the new slot.
OnSlot_Unflushed(w, value) == WithSlot(w, value)

OnSlot(w, value) == WithSlot(FlushEvents(w), value)

\* Mutant: mKey is not reset when the contact is lifted.
OnTrackingId_StaleKey(w, value) ==
  IF value >= 0
  THEN WithKey([w EXCEPT !.t.contacts[w.t.currentSlot].id = value], 1)
  ELSE FlushEvents(WithKey(w, w.t.key))

OnTrackingId(w, value) ==
  IF value >= 0
  THEN WithKey([w EXCEPT !.t.contacts[w.t.currentSlot].id = value], 1)
  ELSE FlushEvents(WithKey(w, 0))

\* SYN_MT_REPORT: the end of one contact of protocol A, or of none.
OnMtReport(w) ==
  LET c == w.t.currentSlot
      keyed == IF w.t.contacts[c].id = NoId THEN WithKey(w, 1) ELSE w
      next == IF w.t.sendAbs THEN c + 1 ELSE c
  IN  [WithSlot(FlushEvents(keyed), next) EXCEPT !.t.mtReport = TRUE]

\* A contact that is not listed any more goes up.
OnGone(w, i) == FlushEvents(WithKey(WithSlot(w, i), 0))

\* Behind the loop the last slot it lifted is the current one.
OnLifted(w) ==
  [WithSlot(w, 0) EXCEPT !.t.lastMtReports = w.t.currentSlot, !.t.mtReport = FALSE]

-----------------------------------------------------------------------------
(* The reader thread and the thread that binds the frontend *)

Storing == stored \in 1 .. 2
AllStored == stored = 3

Now == [t |-> touch, v |-> view]

\* onEvent(), which may have called flushEvents() without the lock.
Handled(w, unlocked) ==
  /\ touch' = w.t /\ view' = w.v
  /\ early' = (early \/ ~AllStored)
  /\ torn' = (torn \/ (unlocked /\ Storing))
  /\ UNCHANGED <<driver, screen, reused, stored>>

ReadSlot(s) ==
  /\ AtSlot(s)
  /\ kernelSlot' = s
  /\ Handled(OnSlot(Now, s), TRUE)
  /\ UNCHANGED <<told, unread, more, thread, lift>>

ReadTrackingId(s) ==
  /\ AtId(s)
  /\ Read(s, [told[s] EXCEPT !.id = screen[s].id])
  /\ Handled(OnTrackingId(Now, screen[s].id), ~Touched(screen[s]))
  /\ UNCHANGED lift

ReadPosition(s) ==
  /\ AtPosition(s)
  /\ Read(s, screen[s])
  /\ Handled(OnPosition(Now, screen[s].pos), FALSE)
  /\ UNCHANGED lift

ReadMtReport(s) ==
  /\ AtMtReport(s)
  /\ unread' = unread \ {s}
  /\ Handled(OnMtReport(Now), TRUE)
  /\ UNCHANGED <<told, more, kernelSlot, thread, lift>>

\* The events behind those of the slots, the key first.
ReadMore ==
  /\ AtMore
  /\ \/ /\ more.key # NoKey
        /\ more' = [more EXCEPT !.key = NoKey]
        /\ Handled(WithKey(Now, more.key), FALSE)
     \/ /\ more.key = NoKey /\ more.pos # NoPlace
        /\ more' = [more EXCEPT !.pos = NoPlace]
        /\ Handled(OnPosition(Now, more.pos), FALSE)
     \/ /\ more.mtReport
        /\ more' = [more EXCEPT !.mtReport = FALSE]
        /\ Handled(OnMtReport(Now), TRUE)
  /\ UNCHANGED <<told, unread, kernelSlot, thread, lift>>

\* SYN_REPORT: with protocol A the contacts that are not listed any more go
\* up, one after the other.
ReadReport ==
  /\ AtReport
  /\ IF touch.mtReport THEN thread' = "lifting" /\ lift' = touch.currentSlot
                       ELSE thread' = "locking" /\ UNCHANGED lift
  /\ Handled(Now, FALSE)
  /\ UNCHANGED frameVars

Lifting == thread = "lifting" /\ lift < touch.lastMtReports

Lift ==
  /\ Lifting
  /\ lift' = lift + 1
  /\ Handled(OnGone(Now, lift), TRUE)
  /\ UNCHANGED <<frameVars, thread>>

Lifted ==
  /\ thread = "lifting" /\ ~Lifting
  /\ thread' = "locking" /\ lift' = 0
  /\ Handled(OnLifted(Now), FALSE)
  /\ UNCHANGED frameVars

\* flushEvents() and the frame callback under the lock.
EndFrame ==
  /\ thread = "locking" /\ thread' = "polling"
  /\ ~Storing
  /\ Handled(FlushEvents(Now), FALSE)
  /\ UNCHANGED <<frameVars, lift>>

\* A callback that is called while it is being stored is undefined: it may be
\* there or not, or the process dies.
ReaderDies ==
  /\ Storing
  /\ \/ \E s \in Slots : AtSlot(s) \/ AtMtReport(s) \/ (AtId(s) /\ ~Touched(screen[s]))
     \/ AtMore /\ more.mtReport
     \/ Lifting
  /\ thread' = "dead" /\ torn' = TRUE
  /\ UNCHANGED <<driver, screen, frameVars, touch, lift, stored, view, early, reused>>

\* setCallbacks(): under the lock, member after member.
StoreCallback ==
  /\ thread # "dead"
  /\ ~AllStored
  /\ stored' = stored + 1
  /\ UNCHANGED <<driver, screen, frameVars, touch, thread, lift, view, early, torn, reused>>

Dead ==
  /\ thread = "dead"
  /\ UNCHANGED tvars

ReadsOn ==
  \/ \E s \in Slots : ReadSlot(s) \/ ReadTrackingId(s) \/ ReadPosition(s) \/ ReadMtReport(s)
  \/ ReadMore \/ ReadReport \/ Lift \/ Lifted \/ EndFrame

TNext == Frame \/ ReadsOn \/ ReaderDies \/ StoreCallback \/ Dead

TSpec == TInit /\ [][TNext]_tvars

\* Both threads run; the screen need not be touched, and a frontend may never
\* ask for multi-touch events.
Fairness ==
  /\ WF_tvars(ReadsOn)
  /\ WF_tvars(Storing /\ StoreCallback)

FairSpec == TSpec /\ Fairness

-----------------------------------------------------------------------------
(* Properties *)

\* Types of the variables: no number beyond the screen's slots is ever current.
TTypeOK ==
  /\ driver \in Drivers
  /\ screen \in [Slots -> Contact]
  /\ told \in [Slots -> [id : TrackingIds \cup {NoId}, pos : Places \cup {NoPlace}]]
  /\ unread \subseteq Slots
  /\ more \in [key : {0, 1, NoKey}, pos : Places \cup {NoPlace}, mtReport : BOOLEAN]
  /\ kernelSlot \in Slots
  /\ touch \in [key : {0, 1}, sendKey : BOOLEAN, sendAbs : BOOLEAN,
                mtReport : BOOLEAN, lastMtReports : Numbers,
                currentSlot : Numbers, contacts : [Numbers -> Contact]]
  /\ thread \in {"polling", "reading", "lifting", "locking", "dead"}
  /\ lift \in Numbers
  /\ stored \in 0 .. 3
  /\ view \in Series!Views

AtRest == thread = "polling"

\* The number each contact on the screen has for the frontend: its slot, or in
\* protocol A its place on the list.
Number(s) ==
  IF Listing THEN Cardinality({r \in TouchedSlots : r < s}) ELSE s

\* Between two frames the frontend has exactly the contacts of the screen, and
\* where they are unless the driver mixes positions of other contacts in.
ContactsAgree ==
  /\ TTypeOK
  /\ AtRest /\ ~early =>
       /\ Series!DownIn(view) = {Number(s) : s \in TouchedSlots}
       /\ driver # "BKey" =>
            \A s \in TouchedSlots : view.at[Number(s)] = screen[s].pos

\* With protocol B every contact is a down, motions and an up.
SeriesInTurn ==
  driver = "B" /\ ~early /\ ~reused => view.inTurn

\* With protocol B also the contacts that were on the screen before the
\* callbacks were stored leave nothing behind: as kbdif.h says of each contact,
\* its series of events ends with an up.
NoGhostInSlot ==
  ~Listing /\ AtRest /\ TouchedSlots = {} /\ ~torn => Series!DownIn(view) = {}

\* The reader gets through every frame, and the frontend learns that a contact
\* is gone, or the slot is touched again.
LiftReported ==
  \A s \in Slots :
    ~Touched(screen[s]) /\ driver = "B" ~>
       \/ s \notin Series!DownIn(view)
       \/ Touched(screen[s])
       \/ thread = "dead" \/ torn

=============================================================================
