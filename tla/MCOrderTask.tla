------------------------------ MODULE MCOrderTask ------------------------------
(* Model-checking instances of OrderTask: the code's three threads with    *)
(* three numbers each.                                                     *)
EXTENDS OrderTask
=============================================================================
