------------------------------ MODULE MCLogger ------------------------------
(* Model-checking instances of Logger: one request below the minimum, and  *)
(* the default.                                                            *)
EXTENDS Logger
=============================================================================
