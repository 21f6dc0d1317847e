--------------------------- MODULE MCEdidRequest ----------------------------
(***************************************************************************)
(* EdidRequest for TLC: every chain over three pages of two references,     *)
(* those that come back among them; the smallest mode, usual ones, the      *)
(* largest whose clock fits, one whose clock does not, and the largest.     *)
(***************************************************************************)
EXTENDS EdidRequest

MCModes == { <<1, 1>>, <<640, 480>>, <<1024, 768>>, <<1920, 1080>>, <<1919, 1201>>, <<3840, 2035>>, <<3840, 2036>>,
             <<3840, 2160>>, <<4095, 4095>> }

=============================================================================
