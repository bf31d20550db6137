------------------------------ MODULE MCPingPong ------------------------------
(* Model-checking instances of PingPong.                                   *)
EXTENDS PingPong
=============================================================================
