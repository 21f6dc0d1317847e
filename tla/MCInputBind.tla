---------------------------- MODULE MCInputBind -----------------------------
(***************************************************************************)
(* InputBind for TLC: two frontends, which may name the same connector or   *)
(* the same path, one key twice, an unknown key, and nothing.               *)
(***************************************************************************)
EXTENDS InputBind

MCConfigs == {
  [ids |-> << <<"K", "c1">>, <<"P", "dev">> >>,              reqAbs |-> TRUE,  reqMTouch |-> FALSE],
  [ids |-> << <<"P", "dev">>, <<"K", "c1">>, <<"K", "c2">> >>, reqAbs |-> FALSE, reqMTouch |-> FALSE],
  [ids |-> << <<"T", "c1">>, <<"K", "dev">> >>,              reqAbs |-> FALSE, reqMTouch |-> TRUE],
  [ids |-> << <<"T", "dev">>, <<"P", "">> >>,                reqAbs |-> FALSE, reqMTouch |-> FALSE],
  [ids |-> << <<"K", "c1">>, <<"T1000", "T1000">> >>,        reqAbs |-> FALSE, reqMTouch |-> TRUE] }

=============================================================================
