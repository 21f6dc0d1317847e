------------------------------ MODULE MCDrmFlip ------------------------------
(***************************************************************************)
(* Instances of DrmFlip for TLC.  Three flips are enough for one to be     *)
(* refused while another is in progress and a third to follow either.      *)
(***************************************************************************)
EXTENDS DrmFlip

=============================================================================
