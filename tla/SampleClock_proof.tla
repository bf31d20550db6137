-------------------------- MODULE SampleClock_proof --------------------------
(***************************************************************************)
(* Proofs about the schedule of mem_log's coordinator, for every period,   *)
(* every length of ordinary and of overrunning cycles, and every number of *)
(* overruns.                                                               *)
(*                                                                         *)
(* The argument: what a cycle has not used of its budget bounds how far    *)
(* the deadline can be behind (OnTime), and a sleep is never shorter than  *)
(* the way to the deadline (DueWhenAwake).  Both speak of the deadline;    *)
(* ScheduleKept turns them into statements about lines and periods.        *)
(***************************************************************************)
EXTENDS SampleClock, TLAPS

(* A cycle begins when its deadline has come: the sleep that leads to it   *)
(* reaches at least to the deadline.                                       *)
DueWhenAwake ==
    /\ at = "begin" => ahead <= 0
    /\ at \in {"computed", "asleep"} => ahead <= sleep_ms
    /\ at = "computed" => sleep_ms >= 1

(* While no cycle has overrun, the deadline is ahead by at least what is   *)
(* left of the period when the cycle takes all of its budget, and a sleep  *)
(* ends no later than what the cycle has used after the deadline.          *)
OnTime ==
    overruns = 0 =>
        /\ at = "begin" => ahead >= -(Work + Jitter)
        /\ at \in {"cycle", "computed"} =>
               /\ budget <= Work
               /\ ahead >= Period - 2 * Work - Jitter + budget
        /\ at = "computed" => sleep_ms <= ahead + Work - budget
        /\ at = "asleep" => sleep_ms <= ahead + Work

OffAtRest == at = "off" => ahead = 0 /\ missing = 0

IInv == TypeOK /\ ScheduleKept /\ DueWhenAwake /\ OnTime /\ OffAtRest

-----------------------------------------------------------------------------
(* The three facts about multiples of the period that are needed.          *)
LEMMA NextMultiple ==
    ASSUME NEW p \in Int, NEW m \in Int
    PROVE  /\ p * (1 - (m - 1)) = p * (1 - m) + p
           /\ p * (1 - (m + 1)) = p * (1 - m) - p
BY SMT

LEMMA AtMostOneMultiple ==
    ASSUME NEW p \in Nat \ {0}, NEW m \in Int, p * (1 - m) < 2 * p
    PROVE  m >= 0
<1>1. SUFFICES ASSUME m <= -1 PROVE FALSE
  BY SMT
<1>2. PICK k \in Nat : 1 - m = 2 + k
  <2>1. -1 - m \in Nat /\ 1 - m = 2 + (-1 - m)
    BY <1>1, SMT
  <2>2. QED
    BY <2>1
<1>3. p * (1 - m) = 2 * p + p * k
  BY <1>2, SMT
<1>4. p * k >= 0
  BY <1>2, SMT
<1>5. p * k \in Int
  BY <1>2, SMT
<1>6. QED
  BY <1>3, <1>4, <1>5, SMT

LEMMA NotMinusOneMultiple ==
    ASSUME NEW p \in Nat \ {0}, NEW m \in Int, p * (1 - m) > -p
    PROVE  m <= 1
<1>1. SUFFICES ASSUME m >= 2 PROVE FALSE
  BY SMT
<1>2. PICK k \in Nat : m = 2 + k
  <2>1. m - 2 \in Nat /\ m = 2 + (m - 2)
    BY <1>1, SMT
  <2>2. QED
    BY <2>1
<1>3. p * (1 - m) = -p - p * k
  BY <1>2, SMT
<1>4. p * k >= 0 /\ p * k \in Int
  BY <1>2, SMT
<1>5. QED
  BY <1>3, <1>4, SMT

-----------------------------------------------------------------------------
LEMMA InitIInv == Init => IInv
BY PeriodAssumption, WorkAssumption, JitterAssumption, MaxOverrunsAssumption
   DEF Init, IInv, TypeOK, ScheduleKept, DueWhenAwake, OnTime, OffAtRest

USE PeriodAssumption, WorkAssumption, JitterAssumption,
    MaxOverrunsAssumption, SlackAssumption

LEMMA StartIInv == IInv /\ Start => IInv'
BY DEF IInv, TypeOK, ScheduleKept, DueWhenAwake, OnTime, OffAtRest, Start

LEMMA StopIInv == IInv /\ Stop => IInv'
BY DEF IInv, TypeOK, ScheduleKept, DueWhenAwake, OnTime, OffAtRest, Stop

LEMMA BeginIInv == IInv /\ Begin => IInv'
<1> SUFFICES ASSUME IInv, Begin PROVE IInv'
  OBVIOUS
<1>1. TypeOK'
  BY DEF IInv, TypeOK, DueWhenAwake, Begin, Deadline
<1>2. ScheduleKept'
  <2>1. ahead' = Period * (1 - missing) - phase + Period
    BY DEF IInv, TypeOK, ScheduleKept, Begin, Deadline
  <2>2. Period * (1 - (missing - 1)) = Period * (1 - missing) + Period
    BY NextMultiple DEF IInv, TypeOK
  <2>3. missing' = missing - 1 /\ phase' = phase
    BY DEF Begin
  <2>4. Period * (1 - missing) \in Int /\ phase \in Int
    BY DEF IInv, TypeOK
  <2>5. QED
    BY <2>1, <2>2, <2>3, <2>4 DEF ScheduleKept
<1>3. DueWhenAwake' /\ OffAtRest'
  BY DEF Begin, DueWhenAwake, OffAtRest
<1>4. OnTime'
  BY DEF IInv, TypeOK, OnTime, Begin, Deadline
<1>5. QED
  BY <1>1, <1>2, <1>3, <1>4 DEF IInv

LEMMA ComputeIInv == IInv /\ Compute => IInv'
<1> SUFFICES ASSUME IInv, Compute PROVE IInv'
  OBVIOUS
<1>1. TypeOK' /\ DueWhenAwake' /\ OnTime' /\ OffAtRest'
  BY DEF IInv, TypeOK, DueWhenAwake, OnTime, OffAtRest, Compute, SleepTime,
         history
<1>2. ScheduleKept'
  BY DEF IInv, ScheduleKept, Compute, history
<1>3. QED
  BY <1>1, <1>2 DEF IInv

LEMMA FallAsleepIInv == IInv /\ FallAsleep => IInv'
<1> SUFFICES ASSUME IInv, FallAsleep PROVE IInv'
  OBVIOUS
<1>1. TypeOK' /\ DueWhenAwake' /\ OnTime' /\ OffAtRest'
  BY DEF IInv, TypeOK, DueWhenAwake, OnTime, OffAtRest, FallAsleep, history
<1>2. ScheduleKept'
  BY DEF IInv, ScheduleKept, FallAsleep, history
<1>3. QED
  BY <1>1, <1>2 DEF IInv

LEMMA WakeIInv == IInv /\ Wake => IInv'
<1> SUFFICES ASSUME IInv, Wake PROVE IInv'
  OBVIOUS
<1>1. TypeOK' /\ DueWhenAwake' /\ OnTime' /\ OffAtRest'
  BY DEF IInv, TypeOK, DueWhenAwake, OnTime, OffAtRest, Wake, history
<1>2. ScheduleKept'
  BY DEF IInv, ScheduleKept, Wake, history
<1>3. QED
  BY <1>1, <1>2 DEF IInv

LEMMA TickIInv == IInv /\ Tick => IInv'
<1> SUFFICES ASSUME IInv, Tick PROVE IInv'
  OBVIOUS
<1>1. TypeOK'
  BY DEF IInv, TypeOK, Tick
<1>2. ScheduleKept'
  <2>1. /\ ahead' = Period * (1 - missing) - phase - 1
        /\ Period * (1 - missing) \in Int /\ phase \in Int
    BY DEF IInv, TypeOK, ScheduleKept, Tick
  <2>2. CASE phase = Period - 1
    <3>1. missing' = missing + 1 /\ phase' = 0
      BY <2>2 DEF Tick
    <3>2. Period * (1 - (missing + 1)) = Period * (1 - missing) - Period
      BY NextMultiple DEF IInv, TypeOK
    <3>3. QED
      BY <2>1, <2>2, <3>1, <3>2 DEF ScheduleKept
  <2>3. CASE phase # Period - 1
    <3>1. missing' = missing /\ phase' = phase + 1
      BY <2>3 DEF Tick
    <3>2. QED
      BY <2>1, <3>1 DEF ScheduleKept
  <2>4. QED
    BY <2>2, <2>3
<1>3. DueWhenAwake' /\ OnTime' /\ OffAtRest'
  BY DEF IInv, TypeOK, DueWhenAwake, OnTime, OffAtRest, Tick
<1>4. QED
  BY <1>1, <1>2, <1>3 DEF IInv

LEMMA NextIInv == IInv /\ [Next]_vars => IInv'
<1>1. IInv /\ UNCHANGED vars => IInv'
  BY DEF IInv, TypeOK, ScheduleKept, DueWhenAwake, OnTime, OffAtRest, vars
<1>2. QED
  BY <1>1, StartIInv, StopIInv, BeginIInv, ComputeIInv, FallAsleepIInv,
     WakeIInv, TickIInv DEF Next, Thread

-----------------------------------------------------------------------------
LEMMA IInvNeverEarly == IInv => NeverEarly
<1> SUFFICES ASSUME IInv PROVE missing >= 0
  BY DEF NeverEarly
<1>1. CASE at = "off"
  BY <1>1 DEF IInv, OffAtRest
<1>2. CASE at # "off"
  <2>1. /\ ahead = Period * (1 - missing) - phase
        /\ ahead <= Period /\ phase <= Period - 1
        /\ ahead \in Int /\ phase \in Int /\ missing \in Int
        /\ Period * (1 - missing) \in Int
    BY <1>2 DEF IInv, TypeOK, ScheduleKept
  <2>2. Period * (1 - missing) < 2 * Period
    BY <2>1
  <2>3. QED
    BY <2>1, <2>2, AtMostOneMultiple
<1>3. QED
  BY <1>1, <1>2

LEMMA IInvNoDrift == IInv => NoDrift
<1> SUFFICES ASSUME IInv, overruns = 0
             PROVE  ahead >= -(Work + Jitter) /\ missing <= 1
  BY DEF NoDrift
<1>1. ahead >= -(Work + Jitter)
  BY DEF IInv, TypeOK, OnTime, OffAtRest
<1>2. CASE at = "off"
  BY <1>1, <1>2 DEF IInv, OffAtRest
<1>3. CASE at # "off"
  <2>1. /\ ahead = Period * (1 - missing) - phase
        /\ phase >= 0
        /\ ahead \in Int /\ phase \in Int /\ missing \in Int
        /\ Period * (1 - missing) \in Int
    BY <1>3 DEF IInv, TypeOK, ScheduleKept
  <2>2. Period * (1 - missing) > -Period
    BY <1>1, <2>1
  <2>3. QED
    BY <1>1, <2>1, <2>2, NotMinusOneMultiple
<1>4. QED
  BY <1>2, <1>3

(* The inductive invariant: where the deadline is at every point of the    *)
(* cycle, for every period and every number of overruns.                   *)
THEOREM ClockCorrect == Spec => []IInv
BY InitIInv, NextIInv, PTL DEF Spec

(* coordinator_thread never begins a cycle before its period, also while   *)
(* it catches up.                                                          *)
THEOREM ClockNeverEarly == Spec => []NeverEarly
BY ClockCorrect, IInvNeverEarly, PTL

(* The absolute deadline of coordinator_thread keeps lateness from adding  *)
(* up over any number of cycles.                                           *)
THEOREM ClockDoesNotDrift == Spec => []NoDrift
BY ClockCorrect, IInvNoDrift, PTL

(* Type correctness of the schedule, its sleeps within a period included.  *)
THEOREM ClockTypeOK == Spec => []TypeOK
<1>1. IInv => TypeOK
  BY DEF IInv
<1>2. QED
  BY <1>1, ClockCorrect, PTL
==============================================================================
