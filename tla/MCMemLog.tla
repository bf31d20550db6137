------------------------------- MODULE MCMemLog -------------------------------
(* Model-checking instances of MemLog: the three workers of the code, of   *)
(* which the third, the IMU, ignores the results of its channels.          *)
EXTENDS MemLog
=============================================================================
