---- MODULE MCWlBuffer ----
(***************************************************************************)
(* Two connectors of one frontend, their buffers and the dispatch thread.   *)
(* Before it starts, TLC also evaluates that the tables of the lifetimes,   *)
(* among them those of the frame buffers, are sound: a run of the tables    *)
(* themselves needs only what they say.                                     *)
(***************************************************************************)
EXTENDS WlBuffer, CodeTableSound, TLC
Symmetry == Permutations(Buffers) \cup Permutations(Threads)
====
