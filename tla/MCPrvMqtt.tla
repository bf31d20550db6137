------------------------------ MODULE MCPrvMqtt ------------------------------
(* Model-checking instances of PrvMqtt.                                    *)
EXTENDS PrvMqtt
=============================================================================
