-------------------------- MODULE CodeTableSound ---------------------------
(***************************************************************************)
(* The tables of the code have the form that the theorems of               *)
(* OwnershipProofs ask of a table, so that they hold of the code; and what  *)
(* the tables list as out of order is so in the code.                       *)
(***************************************************************************)
EXTENDS Resources

ASSUME CodeTableIsSound == /\ Sound(CodeTable) /\ Ordered(CodeTable)
                           /\ \A n \in DOMAIN CodeTable : Admitted(CodeTable[n])
                           /\ CodeTable \in [DOMAIN CodeTable -> Class]
=============================================================================
