----------------------------- MODULE SampleClock -----------------------------
(***************************************************************************)
(* The schedule of sensor_task/mem_log's coordinator_thread.               *)
(*                                                                         *)
(* Every cycle adds the period to next_deadline, triggers the sensors,     *)
(* writes a line, reads the uptime and sleeps until the deadline, at least *)
(* 1 ms.  MemLog says what happens within a cycle; here a cycle only takes *)
(* time, and what matters is when it begins.  A step of the clock may come *)
(* between any two steps of the thread, also between the reading of the    *)
(* uptime and the sleep computed from it.                                  *)
(*                                                                         *)
(* Absolute times grow without bound: the model keeps their difference     *)
(* (ahead), and what has elapsed since start_sensors in whole periods      *)
(* (missing) and the rest (phase).                                         *)
(***************************************************************************)
EXTENDS Integers

CONSTANTS
    Period,      \* LOG_PERIOD_MS
    Work,        \* longest ordinary cycle, until it is asleep, in ms
    Long,        \* longest cycle of all: a slow flash, a sensor that retries
    Jitter,      \* how late the kernel may end a sleep, in ms
    MaxOverruns  \* bound: cycles longer than Work in one session

ASSUME PeriodAssumption == Period \in Nat \ {0}
ASSUME WorkAssumption == Work \in Nat /\ Long \in Nat /\ Work <= Long
ASSUME JitterAssumption == Jitter \in Nat
ASSUME MaxOverrunsAssumption == MaxOverruns \in Nat
(* An ordinary cycle leaves time to spare: the sensors and the flash take  *)
(* some 100 ms of 6000.                                                    *)
ASSUME SlackAssumption == 2 * Work + Jitter < Period

VARIABLES
    at,        \* where the thread is
    ahead,     \* next_deadline - uptime
    budget,    \* ms this cycle may still take until the thread sleeps
    sleep_ms,  \* what the thread sleeps, and then what is left of it
    overruns,  \* cycles of this session longer than Work
    phase,     \* ms since start_sensors, modulo Period
    missing    \* periods begun since start_sensors, less cycles begun

vars == <<at, ahead, budget, sleep_ms, overruns, phase, missing>>
history == <<phase, missing>>

TypeOK ==
    /\ at \in {"off", "begin", "cycle", "computed", "asleep"}
    /\ ahead \in Int /\ ahead <= Period
    /\ budget \in 0 .. Long
    /\ sleep_ms \in -Jitter .. Period
    /\ overruns \in 0 .. MaxOverruns
    /\ phase \in 0 .. Period - 1
    /\ missing \in Int

Init ==
    /\ at = "off" /\ ahead = 0 /\ budget = 0 /\ sleep_ms = 0
    /\ overruns = 0 /\ phase = 0 /\ missing = 0

-----------------------------------------------------------------------------
(* start_sensors creates the thread, which takes the uptime for its first  *)
(* deadline: the first period begins, without a cycle yet.                 *)
Start ==
    /\ at = "off" /\ at' = "begin"
    /\ ahead' = 0 /\ budget' = 0 /\ sleep_ms' = 0 /\ overruns' = 0
    /\ phase' = 0 /\ missing' = 1

(* stop_sensors, from the shell, which runs while the thread waits for the *)
(* sensors or sleeps.                                                      *)
Stop ==
    /\ at \in {"cycle", "asleep"} /\ at' = "off"
    /\ ahead' = 0 /\ budget' = 0 /\ sleep_ms' = 0 /\ overruns' = 0
    /\ phase' = 0 /\ missing' = 0

(* Variants: the next deadline is a period after the present time; missed  *)
(* deadlines are skipped.                                                  *)
DeadlineFromNow == Period
DeadlineSkips == IF ahead + Period < 0 THEN 0 ELSE ahead + Period

(* next_deadline += LOG_PERIOD_MS                                          *)
Deadline == ahead + Period

(* The cycle begins, and will take up to Work ms, or up to Long.           *)
Begin ==
    /\ at = "begin" /\ at' = "cycle"
    /\ ahead' = Deadline
    /\ \/ budget' = Work /\ UNCHANGED overruns
       \/ /\ overruns < MaxOverruns /\ overruns' = overruns + 1
          /\ budget' = Long
    /\ missing' = missing - 1
    /\ UNCHANGED <<sleep_ms, phase>>

(* Variant: a millisecond is taken off for the way there.                  *)
SleepTimeShort == IF ahead < 2 THEN 1 ELSE ahead - 1

(* next_deadline - now, and no less than 1                                 *)
SleepTime == IF ahead < 1 THEN 1 ELSE ahead

(* The line is written: the uptime is read and the sleep computed.         *)
Compute ==
    /\ at = "cycle" /\ at' = "computed"
    /\ sleep_ms' = SleepTime
    /\ UNCHANGED <<ahead, budget, overruns, history>>

FallAsleep ==
    /\ at = "computed" /\ at' = "asleep"
    /\ UNCHANGED <<ahead, budget, sleep_ms, overruns, history>>

(* The sleep has lasted at least as long as was asked for.                 *)
Wake ==
    /\ at = "asleep" /\ sleep_ms <= 0 /\ at' = "begin"
    /\ UNCHANGED <<ahead, budget, sleep_ms, overruns, history>>

(* A millisecond passes: of a cycle while it has any left, of a sleep      *)
(* until Jitter after its end.  A thread that is about to begin a cycle    *)
(* does so at once: none has a higher priority than it for long.           *)
Tick ==
    /\ \/ /\ at \in {"cycle", "computed"} /\ budget > 0
          /\ budget' = budget - 1 /\ UNCHANGED sleep_ms
       \/ /\ at = "asleep" /\ sleep_ms > -Jitter
          /\ sleep_ms' = sleep_ms - 1 /\ UNCHANGED budget
    /\ ahead' = ahead - 1
    /\ phase' = (IF phase = Period - 1 THEN 0 ELSE phase + 1)
    /\ missing' = (IF phase = Period - 1 THEN missing + 1 ELSE missing)
    /\ UNCHANGED <<at, overruns>>

-----------------------------------------------------------------------------
Thread == Begin \/ Compute \/ FallAsleep \/ Wake

Next == Start \/ Stop \/ Thread \/ Tick

(* Time passes, and the thread goes on when it can.                        *)
Spec == Init /\ [][Next]_vars
FairSpec == Spec /\ WF_vars(Thread) /\ WF_vars(Tick)

-----------------------------------------------------------------------------
(* Properties                                                              *)

(* What missing and phase have to do with the deadline: the next cycle is  *)
(* due `ahead' from now.                                                   *)
ScheduleKept == at # "off" => ahead = Period * (1 - missing) - phase

(* Even while it catches up, cycle after cycle without a pause, the        *)
(* coordinator never writes more lines than periods have begun: no cycle   *)
(* begins before its time, though the sleep is computed from a time that   *)
(* has passed when the sleep begins.                                       *)
NeverEarly == missing >= 0

(* Lateness does not add up: as long as no cycle overran, the next is      *)
(* begun at most Work + Jitter after its time, and no period is skipped,   *)
(* however many cycles there were before.                                  *)
NoDrift == overruns = 0 => ahead >= -(Work + Jitter) /\ missing <= 1

(* After overruns the lost time is made up: again and again, every period  *)
(* that has begun has its line.                                            *)
LinesMadeUp == []<>(at = "off" \/ missing = 0)
==============================================================================
