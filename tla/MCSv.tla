-------------------------------- MODULE MCSv --------------------------------
(* sv, svwaitdown and svwaitup with one runsv, for TLC: up to two         *)
(* invocations one after the other.                                         *)
EXTENDS SvControl

Acts ==
  {<<"check">>, <<"start">>, <<"waitup">>, <<"waitdown">>, <<"waitdownx">>,
   <<"forcestop">>, <<"restart">>, <<"once", "stop">>}
=============================================================================
