--------------------------- MODULE MCBuffersStorage ---------------------------
(***************************************************************************)
(* Instances of BuffersStorage for TLC.  With two cookies of a kind, two   *)
(* directories and three create requests a cookie and a directory are used *)
(* again while a frame buffer still holds the buffer they stood for, next  *)
(* to another buffer.                                                      *)
(***************************************************************************)
EXTENDS BuffersStorage

TwoCookies == {1, 2}
TwoDirectories == {1, 2}

=============================================================================
