---------------------------- MODULE ContactSeries ----------------------------
(***************************************************************************)
(* The multi-touch events of the input ring as their receiver sees them.   *)
(* The protocol (kbdif.h) promises for each contact a series of events: a  *)
(* down, motions, and an up that ends it; its number may be used again     *)
(* after the up.                                                           *)
(*                                                                         *)
(* A view records where each contact is, Nowhere when it is not down, and  *)
(* whether all events have come in turn.                                   *)
(***************************************************************************)
EXTENDS Integers

CONSTANTS
  Contacts,     \* contact numbers
  Positions     \* places on the screen, natural numbers

Nowhere == -1

Views == [at : [Contacts -> Positions \cup {Nowhere}], inTurn : BOOLEAN]

NothingSeen == [at |-> [c \in Contacts |-> Nowhere], inTurn |-> TRUE]

\* The contacts a view holds to be down.
DownIn(v) == {c \in Contacts : v.at[c] # Nowhere}

\* A receiver takes an event at its word, except for the motion of a contact
\* that is not down.
SeeDown(v, c, p) ==
  [at |-> [v.at EXCEPT ![c] = p], inTurn |-> v.inTurn /\ c \notin DownIn(v)]

SeeUp(v, c) ==
  [at |-> [v.at EXCEPT ![c] = Nowhere], inTurn |-> v.inTurn /\ c \in DownIn(v)]

SeeMotion(v, c, p) ==
  [at |-> IF c \in DownIn(v) THEN [v.at EXCEPT ![c] = p] ELSE v.at,
   inTurn |-> v.inTurn /\ c \in DownIn(v)]

=============================================================================
