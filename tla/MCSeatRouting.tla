---------------------------- MODULE MCSeatRouting ----------------------------
(***************************************************************************)
(* SeatRouting for TLC: two connectors, so that input may reach the wrong  *)
(* one; two addresses, so that a surface may get the one another had.      *)
(***************************************************************************)
EXTENDS SeatRouting, TLC

\* Nothing tells connectors, addresses or contacts apart.
Symmetry ==
  Permutations(Connectors) \cup Permutations(Surfaces) \cup Permutations(Contacts)

=============================================================================
