---------------------------- MODULE MCAdafruitMqtt ----------------------------
(* Model-checking instances of AdafruitMqtt: two sockets, and message ids  *)
(* that wrap after four.                                                   *)
EXTENDS AdafruitMqtt
=============================================================================
