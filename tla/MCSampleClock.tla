---------------------------- MODULE MCSampleClock ----------------------------
(* Model-checking instance of SampleClock.                                 *)
EXTENDS SampleClock
=============================================================================
