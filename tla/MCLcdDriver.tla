----------------------------- MODULE MCLcdDriver -----------------------------
(* Model-checking instances of LcdDriver: two threads use the display.     *)
EXTENDS LcdDriver, TLC

CONSTANTS boot, ui, log

MCCallers == {ui, log}
CallerSymmetry == Permutations(MCCallers)
=============================================================================
