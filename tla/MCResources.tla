---- MODULE MCResources ----
(***************************************************************************)
(* The lifetimes of the classes of the code, one object after another.      *)
(***************************************************************************)
EXTENDS Ownership, Resources
====
