------------------------------ MODULE SensorLog ------------------------------
(***************************************************************************)
(* What sensor_task/mem_log promises ("triggers the chain HT->PRESS->IMU,  *)
(* then writes a single compact line each period"), without threads,       *)
(* semaphores, mutex or shared snapshot: a session is a sequence of        *)
(* cycles; each measures every sensor once, in order, and then reports     *)
(* exactly what it measured.  A session may be stopped at any moment, and  *)
(* the next begins afresh.                                                 *)
(***************************************************************************)
EXTENDS Naturals

CONSTANT N    \* the number of sensors

Sensors == 1 .. N

VARIABLES
    phase,    \* what the session is doing
    result    \* what this cycle has measured, and then what it reports

vars == <<phase, result>>

NoResult == [s \in Sensors |-> "pending"]

Init == phase = "stopped" /\ result = NoResult

Start == /\ phase = "stopped" /\ phase' = "rest"
         /\ result' = NoResult

Begin == /\ phase = "rest" /\ phase' = "measuring"
         /\ result' = NoResult

(* The sensors before s have been measured, s has not.                     *)
Measure(s) ==
    /\ phase = "measuring" /\ phase' = phase
    /\ \A r \in Sensors : r < s => result[r] # "pending"
    /\ result[s] = "pending"
    /\ \E v \in {"valid", "invalid"} : result' = [result EXCEPT ![s] = v]

Report ==
    /\ phase = "measuring" /\ phase' = "report"
    /\ \A s \in Sensors : result[s] # "pending"
    /\ result' = result

Rest == /\ phase = "report" /\ phase' = "rest"
        /\ result' = NoResult

Stop == /\ phase # "stopped" /\ phase' = "stopped"
        /\ result' = NoResult

Next == Start \/ Begin \/ (\E s \in Sensors : Measure(s)) \/ Report \/ Rest
              \/ Stop

Spec == Init /\ [][Next]_vars
==============================================================================
