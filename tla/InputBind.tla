----------------------------- MODULE InputBind ------------------------------
(***************************************************************************)
(* The input rings of several frontends: onBind() parses the id a frontend  *)
(* was given, creates its devices and its ring, whose constructor stores    *)
(* the callbacks, and the ring's destructor takes the devices down again,   *)
(* while the reader threads of evdev devices and the dispatch thread of the *)
(* Wayland display call into the rings.                                     *)
(*                                                                          *)
(* A device is evdev when its id is a path, and else the input of a         *)
(* connector.  One frontend has the evdev pointer of DevPointer.  The seat  *)
(* has all its devices, and a connector one surface.                        *)
(***************************************************************************)
EXTENDS DevPointer

CONSTANTS
  Frontends,
  Configs,    \* [ids, reqAbs, reqMTouch]; ids is a sequence of <<key, value>>
  Path,       \* the id of an evdev device
  PointerOf,  \* the frontend whose evdev pointer is DevPointer
  None

Classes == {"K", "P", "T"}

ASSUME InputBindAssumption ==
  /\ PointerOf \in Frontends /\ Path # ""
  /\ None \notin Frontends /\ None \notin {"evdev", "wl"} /\ None \notin Frontends \X Classes
  /\ \A c \in Configs : c.ids \in Seq(STRING \X STRING) /\ c.reqMTouch \in BOOLEAN

VARIABLES
  config,   \* [Frontends -> Configs]
  wayland,  \* there is a Wayland display
  pc,       \* where onBind(), or the ring's destructor, is
  todo,     \* the classes it has still to do
  dev,      \* [Frontends -> [Classes -> "evdev", "wl", or None]]
  heard,    \* [Frontends -> the classes whose evdev device has callbacks]
  store,    \* [Classes -> [connectors -> the frontend whose callbacks are stored, or None]]
  reader,   \* the call each evdev reader is in: <<frontend, class>>
  dispatch  \* the call the dispatch thread is in: <<frontend, class>>, or None

bvars == <<config, wayland, pc, todo, dev, heard, store, reader, dispatch>>
vars == <<bvars, pvars>>

NamesIn(c) == {c.ids[k][2] : k \in DOMAIN c.ids}
Connectors == (UNION {NamesIn(c) : c \in Configs}) \ {Path, ""}

(***************************************************************************)
(* parseInputId(): the value behind the last key of a class, "" for none; a *)
(* part without a colon is its own key and value.                           *)
(***************************************************************************)
Valid(ids) == \A k \in DOMAIN ids : ids[k][1] \in Classes
\* Mutant: the first one counts.
parseInputId_First(ids, c) ==
  LET of == SelectSeq(ids, LAMBDA part : part[1] = c) IN IF of = <<>> THEN "" ELSE Head(of)[2]
\* What the loop has for a class after each part.
Parsed(ids, c) == LET id[k \in 0..Len(ids)] ==
                        IF k = 0 THEN "" ELSE IF ids[k][1] = c THEN ids[k][2] ELSE id[k - 1]
                  IN  id
parseInputId(ids, c) == Parsed(ids, c)[Len(ids)]

Id(f, c) == parseInputId(config[f].ids, c)
\* createInputDevice(): "" for a pointer to nothing.
Kind(f, c) == CASE Id(f, c) = "" -> None
                [] Id(f, c) = Path -> "evdev"
                [] OTHER -> IF wayland THEN "wl" ELSE None

\* The classes whose callbacks the constructor of the ring stores.
Asked(f) == {c \in Classes : dev[f][c] # None /\ (c = "T" => config[f].reqMTouch)}
Fields(f) == {"moveRelative", "button"} \cup (IF config[f].reqAbs THEN {"moveAbsolute"} ELSE {})

Init ==
  /\ config \in [Frontends -> Configs] /\ wayland \in BOOLEAN
  /\ pc = [f \in Frontends |-> "new"] /\ todo = [f \in Frontends |-> {}]
  /\ dev = [f \in Frontends |-> [c \in Classes |-> None]]
  /\ heard = [f \in Frontends |-> {}]
  /\ store = [c \in Classes |-> [k \in Connectors |-> None]]
  /\ reader = {} /\ dispatch = None
  /\ PInit

-----------------------------------------------------------------------------
(***************************************************************************)
(* InputFrontendHandler::onBind().  The arguments of the ring's constructor *)
(* are evaluated in any order.                                              *)
(***************************************************************************)
Parse(f) ==
  /\ pc[f] = "new"
  /\ pc' = [pc EXCEPT ![f] = IF Valid(config[f].ids) THEN "create" ELSE "failed"]
  /\ todo' = [todo EXCEPT ![f] = {c \in Classes : Kind(f, c) # None}]
  /\ UNCHANGED <<config, wayland, dev, heard, store, reader, dispatch, pvars>>

\* A device may be missing, or grabbed: the others are deleted.
Fail(f) ==
  /\ \/ pc[f] = "create" /\ \E c \in todo[f] : Kind(f, c) = "evdev"
     \/ pc[f] = "create" /\ todo[f] = {}  \* the ring cannot be mapped
  /\ pc' = [pc EXCEPT ![f] = "unwind"]
  /\ todo' = [todo EXCEPT ![f] = {c \in Classes : dev[f][c] # None}]
  /\ UNCHANGED <<config, wayland, dev, heard, store, reader, dispatch, pvars>>

Create(f, c) ==
  /\ pc[f] = "create" /\ c \in todo[f]
  /\ dev' = [dev EXCEPT ![f][c] = Kind(f, c)]
  /\ todo' = [todo EXCEPT ![f] = @ \ {c}]
  /\ UNCHANGED <<config, wayland, pc, heard, store, reader, dispatch, pvars>>

\* The base of the ring is made: its constructor's body begins.
MapRing(f) ==
  /\ pc[f] = "create" /\ todo[f] = {}
  /\ pc' = [pc EXCEPT ![f] = "ring"] /\ todo' = [todo EXCEPT ![f] = Asked(f)]
  /\ UNCHANGED <<config, wayland, dev, heard, store, reader, dispatch, pvars>>

\* The dispatch thread is not in a handler of the seat's device, which it locks.
Unlocked(c) == \A f \in Frontends : dispatch # <<f, c>>

setInputCallbacks(f, c) == [store EXCEPT ![c][Id(f, c)] = f]

\* Keyboard, pointer, touch.
Turn(f, c) == CASE c = "K" -> TRUE
                [] c = "P" -> "K" \notin todo[f]
                [] c = "T" -> {"K", "P"} \cap todo[f] = {}

InputRingBuffer(f, c) ==
  /\ pc[f] = "ring" /\ c \in todo[f] /\ Turn(f, c)
  /\ todo' = [todo EXCEPT ![f] = @ \ {c}]
  /\ IF dev[f][c] = "wl"
       THEN /\ store' = setInputCallbacks(f, c)
            /\ Unlocked(c)
            /\ UNCHANGED <<heard, pvars>>
       ELSE /\ c = "T" \/ <<f, c>> \notin reader
            /\ heard' = [heard EXCEPT ![f] = @ \cup {c}] /\ UNCHANGED store
            /\ IF <<f, c>> = <<PointerOf, "P">> THEN setCallbacks(Fields(f)) ELSE UNCHANGED pvars
  /\ UNCHANGED <<config, wayland, pc, dev, reader, dispatch>>

addRingBuffer(f) ==
  /\ pc[f] = "ring" /\ todo[f] = {} /\ pc' = [pc EXCEPT ![f] = "bound"]
  /\ UNCHANGED <<config, wayland, todo, dev, heard, store, reader, dispatch, pvars>>

-----------------------------------------------------------------------------
(***************************************************************************)
(* The destructors: the ring's, whose devices go in the reverse order, and  *)
(* those of the devices of a ring that could not be made.  A reader is      *)
(* joined; the callbacks of a connector are removed, whoever's they are.    *)
(***************************************************************************)
\* The body of the destructor, and the end of mLog.
Close(f) ==
  /\ pc[f] = "bound" /\ pc' = [pc EXCEPT ![f] = "close"]
  /\ todo' = [todo EXCEPT ![f] = {c \in Classes : dev[f][c] # None}]
  /\ UNCHANGED <<config, wayland, dev, heard, store, reader, dispatch, pvars>>

\* Mutant: the callbacks of the connector stay.
clearInputCallbacks_Kept(f, c) == store
clearInputCallbacks(f, c) == [store EXCEPT ![c][Id(f, c)] = None]

\* Touch, pointer, keyboard.
LastTurn(f, c) == \A d \in todo[f] \ {c} : <<c, d>> \in {<<"T", "P">>, <<"T", "K">>, <<"P", "K">>}

Delete(f, c) ==
  /\ \/ pc[f] = "close" /\ LastTurn(f, c)
     \/ pc[f] = "unwind"
  /\ c \in todo[f] /\ todo' = [todo EXCEPT ![f] = @ \ {c}]
  /\ IF dev[f][c] = "wl" THEN Unlocked(c) /\ store' = clearInputCallbacks(f, c)
                         ELSE <<f, c>> \notin reader /\ UNCHANGED store
  /\ dev' = [dev EXCEPT ![f][c] = None] /\ heard' = [heard EXCEPT ![f] = @ \ {c}]
  /\ UNCHANGED <<config, wayland, pc, reader, dispatch, pvars>>

Gone(f) ==
  /\ pc[f] \in {"close", "unwind"} /\ todo[f] = {}
  /\ pc' = [pc EXCEPT ![f] = IF @ = "close" THEN "gone" ELSE "failed"]
  /\ UNCHANGED <<config, wayland, todo, dev, heard, store, reader, dispatch, pvars>>

-----------------------------------------------------------------------------
(***************************************************************************)
(* The threads that call.                                                   *)
(***************************************************************************)
\* run() of the pointer that DevPointer models.
Pointer ==
  /\ dev[PointerOf]["P"] = "evdev" /\ <<PointerOf, "P">> \notin reader
  /\ onRelEvent \/ onAbsEvent \/ onSynEvent
  /\ UNCHANGED bvars

\* run(): a key, a button or a contact is passed on.
ReaderCalls(f, c) ==
  /\ dev[f][c] = "evdev" /\ c \in heard[f] /\ reader' = reader \cup {<<f, c>>}
  /\ UNCHANGED <<config, wayland, pc, todo, dev, heard, store, dispatch, pvars>>

ReaderReturns ==
  /\ \E call \in reader : reader' = reader \ {call}
  /\ UNCHANGED <<config, wayland, pc, todo, dev, heard, store, dispatch, pvars>>

DispatchCalls ==
  /\ dispatch = None
  /\ \E c \in Classes, k \in Connectors : store[c][k] # None /\ dispatch' = <<store[c][k], c>>
  /\ UNCHANGED <<config, wayland, pc, todo, dev, heard, store, reader, pvars>>

DispatchReturns ==
  /\ dispatch # None /\ dispatch' = None
  /\ UNCHANGED <<config, wayland, pc, todo, dev, heard, store, reader, pvars>>

Next ==
  \/ \E f \in Frontends :
       \/ Parse(f) \/ Fail(f) \/ MapRing(f) \/ addRingBuffer(f) \/ Close(f) \/ Gone(f)
       \/ \E c \in Classes : Create(f, c) \/ InputRingBuffer(f, c) \/ Delete(f, c) \/ ReaderCalls(f, c)
  \/ Pointer \/ ReaderReturns \/ DispatchCalls \/ DispatchReturns

Spec == Init /\ [][Next]_vars

-----------------------------------------------------------------------------
TypeOK ==
  /\ pc \in [Frontends -> {"new", "create", "ring", "bound", "unwind", "close", "gone", "failed"}]
  /\ todo \in [Frontends -> SUBSET Classes] /\ heard \in [Frontends -> SUBSET Classes]
  /\ dev \in [Frontends -> [Classes -> {"evdev", "wl", None}]]
  /\ store \in [Classes -> [Connectors -> Frontends \cup {None}]]
  /\ reader \subseteq Frontends \X Classes /\ dispatch \in (Frontends \X Classes) \cup {None}

\* The base of the ring is there.
Alive(f) == pc[f] \in {"ring", "bound", "close"}

\* All members of the ring are there: it is bound, or in its constructor's body.
Whole(f) == pc[f] \in {"ring", "bound"}

\* A device that is deleted with its ring and is not deleted yet.  mLog, which
\* onKey() and the others write to, is gone then.
Outlasts(f, c) == pc[f] = "close" /\ c \in todo[f]

(***************************************************************************)
(* The types hold, and a call, or a callback that is stored, is one into a  *)
(* ring that has all its members or, while a ring is destroyed, one of a    *)
(* device that outlasts them: no device that is deleted calls its ring any  *)
(* more, and nobody calls one before its body, after its end or when its    *)
(* bind failed; and then no device is left (InputRingBuffer's members,      *)
(* ~DevInput, ~WlInput).                                                    *)
(***************************************************************************)
CallsReachLiveRings ==
  /\ TypeOK
  /\ \A call \in reader : Whole(call[1]) \/ Outlasts(call[1], call[2])
  /\ dispatch # None => Whole(dispatch[1]) \/ Outlasts(dispatch[1], dispatch[2])
  /\ \A c \in Classes, k \in Connectors : store[c][k] # None =>
       Whole(store[c][k]) \/ Outlasts(store[c][k], c)
  /\ \A f \in Frontends : pc[f] \in {"new", "failed", "gone"} =>
       heard[f] = {} /\ \A c \in Classes : dev[f][c] = None

(***************************************************************************)
(* A frontend that is bound has the device of every class its id names, the *)
(* last of its name counting, and each of them its callbacks: touch only    *)
(* when asked for, and the callbacks of a connector while no other frontend *)
(* names it (onBind(), parseInputId(), createInputDevice()).                *)
(***************************************************************************)
Named(f, c) == LET ids == config[f].ids
                   at == {k \in DOMAIN ids : ids[k][1] = c}
               IN  IF at = {} THEN "" ELSE ids[CHOOSE k \in at : \A j \in at : j <= k][2]
Shared(f, c) == \E g \in Frontends \ {f} : Named(g, c) = Named(f, c)

BoundInFull ==
  \A f \in Frontends, c \in Classes :
    pc[f] = "bound" =>
      LET on == Named(f, c)  asked == c = "T" => config[f].reqMTouch
      IN  /\ dev[f][c] = "evdev" <=> on = Path
          /\ dev[f][c] = "wl" <=> wayland /\ on \notin {Path, ""}
          /\ c \in heard[f] <=> on = Path /\ asked
          /\ wayland /\ on \in Connectors /\ ~Shared(f, c) => (store[c][on] = f <=> asked)

=============================================================================
