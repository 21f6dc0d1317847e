---------------------------- MODULE MCWlDisplay -----------------------------
(***************************************************************************)
(* WlDisplay for TLC.  Two rings; compositors with a zero copy protocol and *)
(* shared memory, with two zero copy protocols, with a shell, with an IVI   *)
(* application, with a seat, and one without the compositor interface.      *)
(***************************************************************************)
EXTENDS WlDisplay

MCOffers == { {"compositor", "drm", "shm"}, {"compositor", "kms", "dmabuf"},
              {"compositor", "shell", "shm"}, {"compositor", "ivi"}, {"compositor", "seat"}, {"shm"} }

=============================================================================
