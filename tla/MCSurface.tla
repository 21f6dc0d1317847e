------------------------------ MODULE MCSurface ------------------------------
(***************************************************************************)
(* Surface for TLC.  Three flips let a flip supersede one that is          *)
(* unanswered while an older one is still on its way through a frame       *)
(* event; the surface is created and destroyed any number of times.        *)
(***************************************************************************)
EXTENDS Surface

=============================================================================
