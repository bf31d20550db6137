----------------------------- MODULE MCSensorMqtt -----------------------------
(* Model-checking instances of SensorMqtt.                                 *)
EXTENDS SensorMqtt
=============================================================================
