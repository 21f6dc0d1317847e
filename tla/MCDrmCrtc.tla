------------------------------ MODULE MCDrmCrtc ------------------------------
(***************************************************************************)
(* Instances of DrmCrtc for TLC: three connectors and two CRTCs, so that   *)
(* one connector has to go without; c1 and c2 had an encoder when the      *)
(* backend started, c3 fits one of the CRTCs only.                         *)
(***************************************************************************)
EXTENDS DrmCrtc

CONSTANTS c1, c2, c3, x1, x2

ThreeConnectors == {c1, c2, c3}
TwoCrtcs == {x1, x2}
Fits == [c \in ThreeConnectors |-> IF c = c3 THEN {x2} ELSE TwoCrtcs]
WiredUp == {c1, c2}

=============================================================================
