----------------------------- MODULE FlipService -----------------------------
(***************************************************************************)
(* What DisplayItf::Connector promises a frontend about page flips: a flip *)
(* that was taken is answered by at most one flip event, the event names   *)
(* the flip taken last, and events never go back to an older flip.  A flip *)
(* is identified by its number; a newer flip supersedes one that is still  *)
(* unanswered, and releasing the connector may drop it.  The Wayland       *)
(* connector (Surface) and the DRM connector (DrmFlip) both implement this *)
(* specification.                                                          *)
(***************************************************************************)
EXTENDS Naturals, Sequences

VARIABLES
  issued,    \* number of the flip taken last
  current,   \* the flip whose event is still owed, NoFlip when there is none
  events     \* flips named by the events sent so far, oldest first

vars == <<issued, current, events>>

NoFlip == 0

Init ==
  /\ issued = 0
  /\ current = NoFlip
  /\ events = <<>>

\* Connector::pageFlip took a flip: its event is owed from now on.
Accept ==
  /\ issued' \in Nat
  /\ issued' > issued
  /\ current' = issued'
  /\ UNCHANGED events

\* The request was refused: no event is owed for it.
Refuse ==
  /\ issued' \in Nat
  /\ issued' > issued
  /\ UNCHANGED <<current, events>>

\* The FlipCallback runs: the event names the flip that is owed.
Answer ==
  /\ current # NoFlip
  /\ events' = Append(events, current)
  /\ current' = NoFlip
  /\ UNCHANGED issued

\* The connector is released with a flip unanswered.
Drop ==
  /\ current # NoFlip
  /\ current' = NoFlip
  /\ UNCHANGED <<issued, events>>

Next == Accept \/ Refuse \/ Answer \/ Drop

Spec == Init /\ [][Next]_vars

-----------------------------------------------------------------------------
TypeOK ==
  /\ issued \in Nat
  /\ current \in 0 .. issued
  /\ events \in Seq(Nat)

\* Events name flips in the order they were taken, none of them twice, and
\* the flip that is still owed is newer than every flip already answered.
EventsInOrder ==
  /\ \A i, j \in 1 .. Len(events) : i < j => events[i] < events[j]
  /\ \A i \in 1 .. Len(events) :
        /\ events[i] \in 1 .. issued
        /\ current # NoFlip => events[i] < current

=============================================================================
