------------------------------ MODULE MCDevTouch -----------------------------
(***************************************************************************)
(* DevTouch for TLC: two slots, so that one contact may be lifted, moved   *)
(* or replaced while another one stays.                                    *)
(***************************************************************************)
EXTENDS DevTouch

=============================================================================
