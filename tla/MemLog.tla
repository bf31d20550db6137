-------------------------------- MODULE MemLog --------------------------------
(***************************************************************************)
(* The shell-driven periodic sensor logger, sensor_task/mem_log.           *)
(*                                                                         *)
(* Three workers (humidity/temperature, pressure, IMU) and a coordinator   *)
(* are created and aborted by shell commands.  Each worker waits for its   *)
(* semaphore, reads its sensor, updates the shared snapshot g_sd under a   *)
(* mutex and hands over to the next thread; the coordinator starts the     *)
(* chain, waits for its end, copies g_sd and appends a line to the log.    *)
(*                                                                         *)
(* Threads are numbered along the chain: worker i waits on sem[i] and      *)
(* gives sem[i + 1], and the coordinator, the last thread, waits on the    *)
(* last semaphore (semDone) and gives sem[1] (semHT).  Any thread may run  *)
(* at any time: nothing here relies on the priorities, but for the file    *)
(* access (StopCmd).                                                       *)
(***************************************************************************)
EXTENDS Naturals

CONSTANTS
    NumWorkers,  \* the length of the chain, three in the code
    Unchecked,   \* workers whose sensor code ignores the channel results
    MaxOpen      \* open files LittleFS has room for

ASSUME NumWorkersAssumption == NumWorkers \in Nat \ {0}
ASSUME UncheckedAssumption == Unchecked \subseteq 1 .. NumWorkers
ASSUME MaxOpenAssumption == MaxOpen \in Nat

Workers == 1 .. NumWorkers
Coord == NumWorkers + 1
Threads == 1 .. Coord

VARIABLES
    pc,       \* where each thread is; "dead" before creation, after abort
    sem,      \* counts of semHT, semPress, semGyro, semDone; limit 1
    mtx,      \* owner of g_sd_mtx, 0 if free
    reading,  \* what each worker last got from its sensor
    g_sd,     \* the shared snapshot
    snap,     \* the coordinator's copy
    handles,  \* files open in LittleFS
    log,      \* the log file exists
    tid,      \* the thread ids kept by the shell commands
    cmd, step \* the shell command running, and the thread it is at

vars == <<pc, sem, mtx, reading, g_sd, snap, handles, log, tid, cmd, step>>
shellVars == <<tid, cmd, step>>
fileVars == <<handles, log>>

(* Values are told apart by when they were measured: zeroed by start, in   *)
(* an earlier cycle, in this cycle, or made of unread channel memory.      *)
Values == {"zero", "old", "fresh", "garbage"}
Entry == [ok : BOOLEAN, val : Values]
Zeroed == [ok |-> FALSE, val |-> "zero"]

WorkerStates == {"dead", "take", "sample", "lock", "update", "give"}
CoordStates == {"dead", "give", "await", "lock", "copy", "open", "write",
                "close", "sleep"}

TypeOK ==
    /\ pc \in [Threads -> WorkerStates \cup CoordStates]
    /\ \A i \in Workers : pc[i] \in WorkerStates
    /\ pc[Coord] \in CoordStates
    /\ sem \in [Threads -> {0, 1}]
    /\ mtx \in Threads \cup {0}
    /\ reading \in [Workers -> {"fail", "fresh", "garbage"}]
    /\ g_sd \in [Workers -> Entry]
    /\ snap \in [Workers -> Entry]
    /\ handles \in 0 .. MaxOpen
    /\ log \in BOOLEAN
    /\ tid \in [Threads -> BOOLEAN]
    /\ cmd \in {"none", "start", "stop", "drain"}
    /\ step \in Threads

Init ==
    /\ pc = [t \in Threads |-> "dead"]
    /\ sem = [t \in Threads |-> 0]
    /\ mtx = 0
    /\ reading = [i \in Workers |-> "fail"]
    /\ g_sd = [i \in Workers |-> Zeroed]
    /\ snap = [i \in Workers |-> Zeroed]
    /\ handles = 0 /\ log = FALSE
    /\ tid = [t \in Threads |-> FALSE]
    /\ cmd = "none" /\ step = Coord

Moves(t, from, to) == pc[t] = from /\ pc' = [pc EXCEPT ![t] = to]

-----------------------------------------------------------------------------
(* Workers: hum_thread, press_thread, imu_thread                           *)

WorkerTake(i) ==
    /\ Moves(i, "take", "sample")
    /\ sem[i] = 1 /\ sem' = [sem EXCEPT ![i] = 0]
    /\ UNCHANGED <<mtx, reading, g_sd, snap, fileVars, shellVars>>

(* hum_temp_sensor_get_string and its like: a failed call leaves no value, *)
(* but the IMU's ignores the channels it could not read and formats what   *)
(* is on its stack.                                                        *)
Sample(i) ==
    /\ Moves(i, "sample", "lock")
    /\ \E r \in {"fail", "fresh"} \cup (IF i \in Unchecked THEN {"garbage"}
                                                           ELSE {}) :
           reading' = [reading EXCEPT ![i] = r]
    /\ UNCHANGED <<sem, mtx, g_sd, snap, fileVars, shellVars>>

WorkerLock(i) ==
    /\ Moves(i, "lock", "update")
    /\ mtx = 0 /\ mtx' = i
    /\ UNCHANGED <<sem, reading, g_sd, snap, fileVars, shellVars>>

(* Variant: a failed reading leaves the validity flag as it was.           *)
UpdatedKeepsFlag(e, r) == IF r = "fail" THEN e ELSE [ok |-> TRUE, val |-> r]

(* A failed reading clears the validity flag and keeps the old value.      *)
Updated(e, r) == IF r = "fail" THEN [e EXCEPT !.ok = FALSE]
                               ELSE [ok |-> TRUE, val |-> r]

WorkerUpdate(i) ==
    /\ Moves(i, "update", "give")
    /\ g_sd' = [g_sd EXCEPT ![i] = Updated(g_sd[i], reading[i])]
    /\ mtx' = 0
    /\ UNCHANGED <<sem, reading, snap, fileVars, shellVars>>

(* Variant: a worker whose reading failed does not hand over.              *)
WorkerGiveOnSuccess(i) ==
    /\ Moves(i, "give", "take")
    /\ sem' = IF reading[i] = "fail" THEN sem ELSE [sem EXCEPT ![i + 1] = 1]
    /\ UNCHANGED <<mtx, reading, g_sd, snap, fileVars, shellVars>>

WorkerGive(i) ==
    /\ Moves(i, "give", "take")
    /\ sem' = [sem EXCEPT ![i + 1] = 1]
    /\ UNCHANGED <<mtx, reading, g_sd, snap, fileVars, shellVars>>

-----------------------------------------------------------------------------
(* Coordinator: coordinator_thread                                         *)

Aged(e) == [e EXCEPT !.val = IF e.val = "zero" THEN "zero" ELSE "old"]

(* A cycle begins: every measured value is now of an earlier cycle.        *)
CoordGive ==
    /\ Moves(Coord, "give", "await")
    /\ sem' = [sem EXCEPT ![1] = 1]
    /\ g_sd' = [i \in Workers |-> Aged(g_sd[i])]
    /\ UNCHANGED <<mtx, reading, snap, fileVars, shellVars>>

CoordAwait ==
    /\ Moves(Coord, "await", "lock")
    /\ sem[Coord] = 1 /\ sem' = [sem EXCEPT ![Coord] = 0]
    /\ UNCHANGED <<mtx, reading, g_sd, snap, fileVars, shellVars>>

CoordLock ==
    /\ Moves(Coord, "lock", "copy")
    /\ mtx = 0 /\ mtx' = Coord
    /\ UNCHANGED <<sem, reading, g_sd, snap, fileVars, shellVars>>

CoordCopy ==
    /\ Moves(Coord, "copy", "open")
    /\ snap' = g_sd /\ mtx' = 0
    /\ UNCHANGED <<sem, reading, g_sd, fileVars, shellVars>>

(* fs_open may fail, and does once every file slot is taken.               *)
CoordOpen ==
    \/ /\ Moves(Coord, "open", "write")
       /\ handles < MaxOpen /\ handles' = handles + 1
       /\ log' = TRUE
       /\ UNCHANGED <<sem, mtx, reading, g_sd, snap, shellVars>>
    \/ /\ Moves(Coord, "open", "sleep")
       /\ UNCHANGED <<sem, mtx, reading, g_sd, snap, fileVars, shellVars>>

(* Variant: a failed fs_write skips fs_close.                              *)
CoordWriteOrSkip ==
    /\ Moves(Coord, "write", "close") \/ Moves(Coord, "write", "sleep")
    /\ UNCHANGED <<sem, mtx, reading, g_sd, snap, fileVars, shellVars>>

(* The result of fs_write is not looked at.                                *)
CoordWrite ==
    /\ Moves(Coord, "write", "close")
    /\ UNCHANGED <<sem, mtx, reading, g_sd, snap, fileVars, shellVars>>

CoordClose ==
    /\ Moves(Coord, "close", "sleep")
    /\ handles' = handles - 1
    /\ UNCHANGED <<sem, mtx, reading, g_sd, snap, log, shellVars>>

CoordSleep ==
    /\ Moves(Coord, "sleep", "give")
    /\ UNCHANGED <<sem, mtx, reading, g_sd, snap, fileVars, shellVars>>

-----------------------------------------------------------------------------
(* Shell commands                                                          *)

(* The command goes on to the next thread, and ends with the last.         *)
Advance == IF step = Coord THEN cmd' = "none" /\ step' = Coord
                           ELSE cmd' = cmd /\ step' = step + 1

StartCmd ==
    /\ cmd = "none" /\ cmd' = "start" /\ step' = 1
    /\ UNCHANGED <<pc, sem, mtx, reading, g_sd, snap, fileVars, tid>>

(* Variant: start_sensor without k_mutex_init.                             *)
CreateNoMutexInit ==
    /\ cmd = "start"
    /\ IF tid[step]
       THEN UNCHANGED <<pc, g_sd, tid>>
       ELSE /\ pc' = [pc EXCEPT ![step] = IF step = Coord THEN "give"
                                                          ELSE "take"]
            /\ tid' = [tid EXCEPT ![step] = TRUE]
            /\ g_sd' = IF step = 1 THEN [i \in Workers |-> Zeroed] ELSE g_sd
    /\ Advance
    /\ UNCHANGED <<sem, mtx, reading, snap, fileVars>>

(* Creating the first worker initialises the mutex and clears g_sd.        *)
Create ==
    /\ cmd = "start"
    /\ IF tid[step]
       THEN UNCHANGED <<pc, mtx, g_sd, tid>>
       ELSE /\ pc' = [pc EXCEPT ![step] = IF step = Coord THEN "give"
                                                          ELSE "take"]
            /\ tid' = [tid EXCEPT ![step] = TRUE]
            /\ IF step = 1
               THEN mtx' = 0 /\ g_sd' = [i \in Workers |-> Zeroed]
               ELSE UNCHANGED <<mtx, g_sd>>
    /\ Advance
    /\ UNCHANGED <<sem, reading, snap, fileVars>>

(* stop_sensors begins with the coordinator, the last in the numbering.    *)
(* The shell's thread has the lowest priority, and the driver of the       *)
(* internal flash does not suspend its caller: the shell does not run      *)
(* while the coordinator is between fs_open and fs_close.                  *)
StopCmd ==
    /\ cmd = "none" /\ cmd' = "stop" /\ step' = 1
    /\ pc[Coord] \notin {"open", "write", "close"}
    /\ pc' = [pc EXCEPT ![Coord] = "dead"]
    /\ tid' = [tid EXCEPT ![Coord] = FALSE]
    /\ UNCHANGED <<sem, mtx, reading, g_sd, snap, fileVars>>

(* k_thread_abort: whatever the thread holds it goes on holding.           *)
Abort ==
    /\ cmd = "stop"
    /\ pc' = [pc EXCEPT ![step] = "dead"]
    /\ tid' = [tid EXCEPT ![step] = FALSE]
    /\ IF step = NumWorkers THEN cmd' = "drain" /\ step' = 1
                            ELSE cmd' = cmd /\ step' = step + 1
    /\ UNCHANGED <<sem, mtx, reading, g_sd, snap, fileVars>>

(* Variant: stop_sensors forgets semDone.                                  *)
DrainAllButDone ==
    /\ cmd = "drain"
    /\ sem' = IF step = Coord THEN sem ELSE [sem EXCEPT ![step] = 0]
    /\ Advance
    /\ UNCHANGED <<pc, mtx, reading, g_sd, snap, fileVars, tid>>

Drain ==
    /\ cmd = "drain"
    /\ sem' = [sem EXCEPT ![step] = 0]
    /\ Advance
    /\ UNCHANGED <<pc, mtx, reading, g_sd, snap, fileVars, tid>>

ClearLogs ==
    /\ cmd = "none"
    /\ log' \in {FALSE, log}
    /\ UNCHANGED <<pc, sem, mtx, reading, g_sd, snap, handles, shellVars>>

-----------------------------------------------------------------------------
Worker(i) == WorkerTake(i) \/ Sample(i) \/ WorkerLock(i) \/ WorkerUpdate(i)
                           \/ WorkerGive(i)

Coordinator == \/ CoordGive \/ CoordAwait \/ CoordLock \/ CoordCopy
               \/ CoordOpen \/ CoordWrite \/ CoordClose \/ CoordSleep

Shell == StartCmd \/ Create \/ StopCmd \/ Abort \/ Drain \/ ClearLogs

Next == (\E i \in Workers : Worker(i)) \/ Coordinator \/ Shell

Spec == Init /\ [][Next]_vars

(* The kernel runs every thread that is ready; a sensor, a file or a sleep *)
(* does not suspend one for ever.  Nobody need type a command, but one     *)
(* that was begun is carried through.                                      *)
FairSpec ==
    /\ Spec
    /\ \A i \in Workers : WF_vars(Worker(i))
    /\ WF_vars(Coordinator)
    /\ WF_vars(Create \/ Abort \/ Drain)

-----------------------------------------------------------------------------
(* The chain.  The thread whose turn it is: its semaphore has been given,  *)
(* or it has taken it and not yet handed over.                             *)
Busy == {"sample", "lock", "update", "give"}
HasTurn(t) == sem[t] = 1 \/ (t \in Workers /\ pc[t] \in Busy)

(* At most one thread of the chain has the turn, and never twice; nobody   *)
(* has it but while the coordinator waits for the cycle, or after an       *)
(* abort, until stop_sensors has drained the semaphores.                   *)
OneTurn ==
    /\ \A s, t \in Threads : HasTurn(s) /\ HasTurn(t) => s = t
    /\ \A i \in Workers : ~(sem[i] = 1 /\ pc[i] \in Busy)
    /\ (\E t \in Threads : HasTurn(t)) =>
           pc[Coord] = "await" \/ cmd \in {"stop", "drain"}

(* A coordinator that waits for the end of the cycle waits for a chain     *)
(* that is running: the hand-over was not lost.                            *)
TurnNotLost == pc[Coord] = "await" => \E t \in Threads : HasTurn(t)

FreshFor(i, e) ==
    e.ok => e.val = "fresh" \/ (e.val = "garbage" /\ i \in Unchecked)

(* The log says a sensor was read only if it was, in the cycle the line is *)
(* about.  The IMU may have read garbage all the same.                     *)
LineFresh ==
    pc[Coord] \in {"open", "write", "close"} =>
        \A i \in Workers : FreshFor(i, snap[i])

Critical == {"update", "copy"}

(* g_sd is only touched by the owner of the mutex, and in a running        *)
(* session the mutex is never left with a thread that will not release it, *)
(* though stop_sensors may abort a thread that holds it.                   *)
MutexLive ==
    /\ \A t \in Threads : pc[t] \in Critical => mtx = t
    /\ tid[1] /\ cmd \in {"none", "start"} /\ mtx # 0 => pc[mtx] \in Critical

(* Between commands a session runs with all its threads or with none, and  *)
(* after stop_sensors no semaphore is left given.                          *)
WholeSession ==
    cmd = "none" =>
        \/ \A t \in Threads : tid[t] /\ pc[t] # "dead"
        \/ \A t \in Threads : ~tid[t] /\ pc[t] = "dead" /\ sem[t] = 0

(* What makes the above inductive: which threads exist at each point of a  *)
(* command, and that a sensor's entry is of this cycle once its worker has *)
(* had the turn.                                                           *)
ThreadsFollowCommand ==
    /\ \A t \in Threads : tid[t] <=> pc[t] # "dead"
    /\ cmd = "none" => \A s, t \in Threads : tid[s] <=> tid[t]
    /\ cmd = "start" => \/ \A t \in Threads : tid[t]
                        \/ \A t \in Threads : tid[t] <=> t < step
    /\ cmd = "stop" => /\ step \in Workers /\ ~tid[Coord]
                       /\ \A i \in Workers : i < step => ~tid[i]
    /\ cmd = "drain" => \A t \in Threads : ~tid[t] /\ (t < step => sem[t] = 0)

Measured(i) ==
    \/ \E t \in Threads : t > i /\ HasTurn(t)
    \/ pc[i] = "give"
    \/ pc[Coord] \in {"lock", "copy"}

MeasuredFresh ==
    /\ \A i \in Workers : reading[i] = "garbage" => i \in Unchecked
    /\ \A i \in Workers : Measured(i) => FreshFor(i, g_sd[i])

(* The log is open only while the coordinator writes its line: no failure, *)
(* stop or restart leaves a file open behind it, to use up the slots.      *)
NoFileLeft == handles = IF pc[Coord] \in {"write", "close"} THEN 1 ELSE 0

ChainInv == /\ TypeOK /\ NoFileLeft /\ ThreadsFollowCommand
            /\ OneTurn /\ TurnNotLost /\ MutexLive /\ MeasuredFresh /\ LineFresh

(* A cycle that was begun ends in the sleep until the next, unless the     *)
(* logger is stopped.                                                      *)
CycleCompletes == pc[Coord] = "give" ~> pc[Coord] \in {"sleep", "dead"}

-----------------------------------------------------------------------------
(* Refinement                                                              *)

Status(e) == IF e.ok THEN "valid" ELSE "invalid"

(* The session as SensorLog sees it: the coordinator's control state, and  *)
(* of the sensors what has been measured in the present cycle, then the    *)
(* snapshot the line is made of.                                           *)
phaseBar == CASE pc[Coord] = "dead" -> "stopped"
              [] pc[Coord] \in {"give", "sleep"} -> "rest"
              [] pc[Coord] \in {"await", "lock", "copy"} -> "measuring"
              [] OTHER -> "report"

resultBar ==
    [i \in Workers |->
        CASE phaseBar = "measuring" /\ Measured(i) -> Status(g_sd[i])
          [] phaseBar = "report" -> Status(snap[i])
          [] OTHER -> "pending"]

SL == INSTANCE SensorLog
          WITH N <- NumWorkers, phase <- phaseBar, result <- resultBar

(* The chain of semaphores, the mutex and the commands together implement  *)
(* SensorLog: in each cycle every sensor is measured once, in the order of *)
(* the chain, and the line reports these results and no others.            *)
RefinesSensorLog == SL!Spec

=============================================================================
