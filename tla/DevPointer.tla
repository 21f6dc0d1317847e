----------------------------- MODULE DevPointer -----------------------------
(***************************************************************************)
(* DevInput<PointerCallbacks>: the pointer events of an evdev device are    *)
(* gathered until the kernel ends a frame, and then passed to the callbacks *)
(* of a ring.  The reader thread runs from the constructor on, before the   *)
(* ring has stored its callbacks.                                           *)
(*                                                                          *)
(* One horizontal axis stands for both, and the kernel reports an axis at   *)
(* most once a frame.                                                       *)
(***************************************************************************)
EXTENDS Integers, FiniteSets, Sequences

CONSTANTS
  Positions,  \* of the absolute axis
  MaxEvents   \* read by the reader

VARIABLES
  rel, wheel, abs,     \* mRelX, mRelZ, mAbsX
  sendRel, sendWheel, sendAbs,
  calls,    \* mCallbacks: a subset of the fields moveRelative, moveAbsolute, button
  frame,    \* the axes the kernel has reported in the frame
  events,   \* how many events were read
  history   \* what was read and sent, see HistoryInit

pvars == <<rel, wheel, abs, sendRel, sendWheel, sendAbs, calls, frame, events, history>>

\* rel and wheel: motion read in frames that ended with callbacks stored, or
\* held over from before, less the motion sent.  at: the position last sent.
\* seen: the absolute axis was ever reported.  ended: a frame has, since the
\* callbacks were stored.
HistoryInit == [rel |-> 0, wheel |-> 0, at |-> -1, seen |-> FALSE, ended |-> FALSE]

PInit ==
  /\ rel = 0 /\ wheel = 0 /\ abs = 0
  /\ sendRel = FALSE /\ sendWheel = FALSE /\ sendAbs = FALSE
  /\ calls = {} /\ frame = {} /\ events = 0 /\ history = HistoryInit

Reads(axis) == /\ events < MaxEvents /\ axis \notin frame
               /\ events' = events + 1 /\ frame' = frame \cup {axis}

\* A motion held over is overwritten.
onRelEvent ==
  \/ /\ Reads("rel") /\ rel' = 1 /\ sendRel' = TRUE
     /\ history' = [history EXCEPT !.rel = 0]
     /\ UNCHANGED <<wheel, abs, sendWheel, sendAbs, calls>>
  \/ /\ Reads("wheel") /\ wheel' = 1 /\ sendWheel' = TRUE
     /\ history' = [history EXCEPT !.wheel = 0]
     /\ UNCHANGED <<rel, abs, sendRel, sendAbs, calls>>

onAbsEvent ==
  /\ Reads("abs") /\ abs' \in Positions /\ sendAbs' = TRUE
  /\ history' = [history EXCEPT !.seen = TRUE]
  /\ UNCHANGED <<rel, wheel, sendRel, sendWheel, calls>>

\* What the ring owes its frontend once the frame has ended.
Owed(h) == [h EXCEPT !.rel = @ + (IF "rel" \in frame THEN rel ELSE 0),
                     !.wheel = @ + (IF "wheel" \in frame THEN wheel ELSE 0),
                     !.ended = TRUE]

\* The wheel that goes with a position: none when it went with a motion.
\* Mutant: it goes with both.
WheelLeft_Again(moves) == wheel
WheelLeft(moves) == IF moves THEN 0 ELSE wheel

\* Of any code: also of SYN_DROPPED.
onSynEvent ==
  /\ events < MaxEvents /\ events' = events + 1 /\ frame' = {}
  /\ LET moves == (sendRel \/ sendWheel) /\ "moveRelative" \in calls
         places == sendAbs /\ "moveAbsolute" \in calls
         sent == [rel   |-> IF moves THEN rel ELSE 0,
                  wheel |-> (IF moves THEN wheel ELSE 0) + (IF places THEN WheelLeft(moves) ELSE 0)]
         h == IF calls = {} THEN history ELSE Owed(history)
     IN  /\ rel' = (IF moves THEN 0 ELSE rel) /\ sendRel' = (sendRel /\ ~moves)
         /\ wheel' = (IF moves \/ places THEN 0 ELSE wheel)
         /\ sendWheel' = (sendWheel /\ ~moves /\ ~places)
         /\ sendAbs' = (sendAbs /\ ~places)
         /\ history' = [h EXCEPT !.rel = @ - sent.rel, !.wheel = @ - sent.wheel,
                                 !.at = IF places THEN abs ELSE @]
  /\ UNCHANGED <<abs, calls>>

\* The callbacks of a ring; what is held over will be sent with them.
setCallbacks(fields) ==
  /\ calls' = fields
  /\ history' = [history EXCEPT !.rel = IF "rel" \in frame THEN 0 ELSE rel,
                                !.wheel = IF "wheel" \in frame THEN 0 ELSE wheel,
                                !.ended = FALSE]
  /\ UNCHANGED <<rel, wheel, abs, sendRel, sendWheel, sendAbs, frame, events>>

-----------------------------------------------------------------------------
(***************************************************************************)
(* Between two frames the frontend has been told everything that the frames *)
(* since it was bound reported: every motion and every turn of the wheel    *)
(* once, although a wheel may go with a motion or with a position, and the  *)
(* position where the kernel has it, although it was set before the         *)
(* callbacks were (DevInput<PointerCallbacks>::onSynEvent()).               *)
(***************************************************************************)
ToldOnce ==
  calls # {} /\ frame = {} /\ history.ended =>
    /\ history.rel = 0 /\ history.wheel = 0
    /\ "moveAbsolute" \in calls /\ history.seen => history.at = abs

=============================================================================
