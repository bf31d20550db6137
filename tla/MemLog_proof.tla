----------------------------- MODULE MemLog_proof -----------------------------
(***************************************************************************)
(* Proofs about MemLog for a chain of any length: the shared snapshot, the *)
(* hand-over between the threads and the shell commands that create and    *)
(* abort them.                                                             *)
(***************************************************************************)
EXTENDS MemLog, TLAPS

(* The chain's numbering.                                                  *)
LEMMA Numbering ==
    /\ Coord \in Threads /\ Coord \notin Workers /\ 1 \in Workers
    /\ \A i \in Workers : i \in Threads /\ i + 1 \in Threads /\ i \in Nat
    /\ \A t \in Threads : t \in Nat /\ t # 0 /\ (t \in Workers \/ t = Coord)
    /\ NumWorkers \in Workers /\ Coord \in Nat
    /\ \A t \in Threads : t # Coord => t + 1 \in Threads
    /\ \A i \in Workers : i # NumWorkers => i + 1 \in Workers
BY NumWorkersAssumption DEF Coord, Threads, Workers

(* The type invariant with what makes it inductive.                        *)
TypeInv == /\ TypeOK /\ NoFileLeft /\ (cmd = "stop" => step \in Workers)
           /\ tid[Coord] <=> pc[Coord] # "dead"

(* The initial values are of their types.                                  *)
LEMMA TypeInit == Init => TypeInv
<1> SUFFICES ASSUME Init PROVE TypeInv
  OBVIOUS
<1> USE Numbering DEF Init
<1>1. pc \in [Threads -> WorkerStates \cup CoordStates]
  BY DEF WorkerStates
<1>2. Zeroed \in Entry
  BY DEF Zeroed, Entry, Values
<1>3. g_sd \in [Workers -> Entry] /\ snap \in [Workers -> Entry]
  BY <1>2
<1>4. handles \in 0 .. MaxOpen
  BY MaxOpenAssumption
<1>5. QED
  BY <1>1, <1>3, <1>4 DEF TypeInv, TypeOK, WorkerStates, CoordStates, NoFileLeft

(* Types are kept, and the log is closed again: the commands' position     *)
(* needs to know that stop visits workers only, and the handle count that  *)
(* only a coordinator that does not exist is created.                      *)
LEMMA TypeStep == TypeInv /\ [Next]_vars => TypeInv'
<1> SUFFICES ASSUME TypeInv, [Next]_vars PROVE TypeInv'
  OBVIOUS
<1> USE Numbering DEF TypeInv, NoFileLeft, TypeOK, WorkerStates, CoordStates,
                      Moves, fileVars, shellVars
<1>1. ASSUME NEW i \in Workers, Worker(i) PROVE TypeInv'
  <2>1. CASE WorkerTake(i)
    BY <2>1 DEF WorkerTake
  <2>2. CASE Sample(i)
    BY <2>2 DEF Sample
  <2>3. CASE WorkerLock(i)
    BY <2>3 DEF WorkerLock
  <2>4. CASE WorkerUpdate(i)
    <3>1. Updated(g_sd[i], reading[i]) \in Entry
      <4>1. g_sd[i] \in Entry /\ reading[i] \in {"fail", "fresh", "garbage"}
        OBVIOUS
      <4>2. CASE reading[i] = "fail"
        BY <4>1, <4>2 DEF Updated, Entry
      <4>3. CASE reading[i] # "fail"
        <5>1. Updated(g_sd[i], reading[i]) = [ok |-> TRUE, val |-> reading[i]]
          BY <4>3 DEF Updated
        <5>2. reading[i] \in Values
          BY <4>1, <4>3 DEF Values
        <5>3. QED
          BY <5>1, <5>2 DEF Entry
      <4>4. QED
        BY <4>2, <4>3
    <3>2. QED
      BY <2>4, <3>1 DEF WorkerUpdate
  <2>5. CASE WorkerGive(i)
    BY <2>5 DEF WorkerGive
  <2>6. QED
    BY <1>1, <2>1, <2>2, <2>3, <2>4, <2>5 DEF Worker
<1>2. CASE Coordinator
  <2>1. CASE CoordGive
    <3>1. \A e \in Entry : Aged(e) \in Entry
      BY DEF Aged, Entry, Values
    <3>2. QED
      BY <2>1, <3>1 DEF CoordGive
  <2>2. CASE CoordAwait
    BY <2>2 DEF CoordAwait
  <2>3. CASE CoordLock
    BY <2>3 DEF CoordLock
  <2>4. CASE CoordCopy
    BY <2>4 DEF CoordCopy
  <2>5. CASE CoordOpen
    <3>1. handles' \in 0 .. MaxOpen /\ (pc'[Coord] = "write" => handles' > 0)
      BY <2>5, MaxOpenAssumption DEF CoordOpen
    <3>2. log' \in BOOLEAN
      BY <2>5, Zenon DEF CoordOpen
    <3>3. QED
      BY <2>5, <3>1, <3>2 DEF CoordOpen
  <2>6. CASE CoordWrite
    BY <2>6 DEF CoordWrite
  <2>7. CASE CoordClose
    BY <2>7, MaxOpenAssumption DEF CoordClose
  <2>8. CASE CoordSleep
    BY <2>8 DEF CoordSleep
  <2>9. QED
    BY <1>2, <2>1, <2>2, <2>3, <2>4, <2>5, <2>6, <2>7, <2>8 DEF Coordinator
<1>3. CASE Shell
  <2>1. CASE StartCmd
    BY <2>1 DEF StartCmd
  <2>2. CASE Create
    <3>1. cmd' \in {"none", "start"} /\ step' \in Threads
      BY <2>2 DEF Create, Advance
    <3>2. g_sd' \in [Workers -> Entry] /\ mtx' \in Threads \cup {0}
      <4>1. Zeroed \in Entry
        BY DEF Zeroed, Entry, Values
      <4>2. \/ g_sd' = g_sd /\ mtx' = mtx
            \/ g_sd' = [i \in Workers |-> Zeroed] /\ mtx' = 0
        BY <2>2 DEF Create
      <4>3. QED
        BY <4>1, <4>2
    <3>3. tid' \in [Threads -> BOOLEAN]
      <4>1. tid' = tid \/ tid' = [tid EXCEPT ![step] = TRUE]
        BY <2>2 DEF Create
      <4>2. tid \in [Threads -> BOOLEAN] /\ step \in Threads
        OBVIOUS
      <4>3. [tid EXCEPT ![step] = TRUE] \in [Threads -> BOOLEAN]
        BY <4>2
      <4>4. QED
        BY <4>1, <4>2, <4>3, Zenon
    <3>4. /\ pc' \in [Threads -> WorkerStates \cup CoordStates]
          /\ \A i \in Workers : pc'[i] \in WorkerStates
          /\ pc'[Coord] \in CoordStates
      <4>1. CASE tid[step]
        BY <2>2, <4>1 DEF Create
      <4>2. CASE ~tid[step]
        <5>1. pc' = [pc EXCEPT ![step] = IF step = Coord THEN "give"
                                                         ELSE "take"]
          BY <2>2, <4>2 DEF Create
        <5>2. QED
          BY <5>1
      <4>3. QED
        BY <4>1, <4>2
    <3>5. tid'[Coord] <=> pc'[Coord] # "dead"
      <4>1. CASE tid[step]
        BY <2>2, <4>1 DEF Create
      <4>2. CASE ~tid[step]
        BY <2>2, <4>2 DEF Create
      <4>3. QED
        BY <4>1, <4>2
    <3>6. NoFileLeft'
      BY <2>2 DEF Create
    <3>7. QED
      BY <2>2, <3>1, <3>2, <3>3, <3>4, <3>5, <3>6 DEF Create
  <2>3. CASE StopCmd
    BY <2>3 DEF StopCmd
  <2>4. CASE Abort
    BY <2>4 DEF Abort
  <2>5. CASE Drain
    BY <2>5 DEF Drain, Advance
  <2>6. CASE ClearLogs
    BY <2>6 DEF ClearLogs
  <2>7. QED
    BY <1>3, <2>1, <2>2, <2>3, <2>4, <2>5, <2>6 DEF Shell
<1>4. CASE UNCHANGED vars
  BY <1>4 DEF vars
<1>5. QED
  BY <1>1, <1>2, <1>3, <1>4 DEF Next

(* Every variable keeps its type, for any number of workers.               *)
THEOREM TypeCorrect == Spec => []TypeOK
<1>1. TypeInv => TypeOK
  BY DEF TypeInv
<1>2. QED
  BY <1>1, TypeInit, TypeStep, PTL DEF Spec

(* Which threads exist follows the shell's commands.                        *)
LEMMA ThreadsStep ==
    ASSUME ChainInv, [Next]_vars PROVE ThreadsFollowCommand'
<1> USE Numbering DEF ChainInv, TypeOK, WorkerStates, CoordStates, Moves, fileVars,
                      shellVars, ThreadsFollowCommand
<1>1. ASSUME NEW i \in Workers, Worker(i) PROVE ThreadsFollowCommand'
  <2>1. CASE WorkerTake(i)
    BY <2>1 DEF WorkerTake
  <2>2. CASE Sample(i)
    BY <2>2 DEF Sample
  <2>3. CASE WorkerLock(i)
    BY <2>3 DEF WorkerLock
  <2>4. CASE WorkerUpdate(i)
    BY <2>4 DEF WorkerUpdate, Updated
  <2>5. CASE WorkerGive(i)
    BY <2>5 DEF WorkerGive
  <2>6. QED
    BY <1>1, <2>1, <2>2, <2>3, <2>4, <2>5 DEF Worker
<1>2. CASE Coordinator
  <2>1. CASE CoordGive
    BY <2>1 DEF CoordGive, Aged
  <2>2. CASE CoordAwait
    BY <2>2 DEF CoordAwait
  <2>3. CASE CoordLock
    BY <2>3 DEF CoordLock
  <2>4. CASE CoordCopy
    BY <2>4 DEF CoordCopy
  <2>5. CASE CoordOpen
    BY <2>5 DEF CoordOpen
  <2>6. CASE CoordWrite
    BY <2>6 DEF CoordWrite
  <2>7. CASE CoordClose
    BY <2>7 DEF CoordClose
  <2>8. CASE CoordSleep
    BY <2>8 DEF CoordSleep
  <2>9. QED
    BY <1>2, <2>1, <2>2, <2>3, <2>4, <2>5, <2>6, <2>7, <2>8 DEF Coordinator
<1>3. CASE Shell
  <2>1. CASE StartCmd
    BY <2>1 DEF StartCmd
  <2>2. CASE Create
    <3>2. CASE tid[step]
      BY <2>2, <3>2, NumWorkersAssumption
         DEF Create, Advance, Threads, Workers, Coord
    <3>3. CASE ~tid[step]
      <4>1. /\ \A t \in Threads : tid[t] <=> t < step
            /\ \A t \in Threads : tid'[t] <=> t < step + 1
        BY <2>2, <3>3, NumWorkersAssumption
           DEF Create, Threads, Workers, Coord
      <4>2. \A t \in Threads : tid'[t] <=> pc'[t] # "dead"
        BY <2>2, <3>3 DEF Create
      <4>3. QED
        BY <2>2, <4>1, <4>2, NumWorkersAssumption
           DEF Create, Advance, Threads, Workers, Coord
    <3>4. QED
      BY <3>2, <3>3
  <2>3. CASE StopCmd
    BY <2>3 DEF StopCmd
  <2>4. CASE Abort
    <3>1. \A t \in Threads : tid'[t] <=> pc'[t] # "dead"
      BY <2>4 DEF Abort
    <3>2. \A i \in Workers : i < step + 1 => ~tid'[i]
      BY <2>4, NumWorkersAssumption DEF Abort, Threads, Workers, Coord
    <3>3. ~tid'[Coord]
      BY <2>4 DEF Abort
    <3>4. \A t \in Threads : ~(t < 1)
      BY NumWorkersAssumption DEF Threads, Coord
    <3>5. CASE step = NumWorkers
      <4>1. \A t \in Threads : ~tid'[t]
        BY <2>4, <3>2, <3>3, <3>5, NumWorkersAssumption
           DEF Threads, Workers, Coord
      <4>2. QED
        BY <2>4, <3>1, <3>4, <3>5, <4>1 DEF Abort
    <3>6. CASE step # NumWorkers
      BY <2>4, <3>1, <3>2, <3>3, <3>6 DEF Abort
    <3>7. QED
      BY <3>5, <3>6
  <2>5. CASE Drain
    BY <2>5 DEF Drain, Advance
  <2>6. CASE ClearLogs
    BY <2>6 DEF ClearLogs
  <2>7. QED
    BY <1>3, <2>1, <2>2, <2>3, <2>4, <2>5, <2>6 DEF Shell
<1>4. CASE UNCHANGED vars
  BY <1>4 DEF vars
<1>5. QED
  BY <1>1, <1>2, <1>3, <1>4 DEF Next

(* The turn is handed on, to one thread, and drained after an abort.        *)
LEMMA TurnStep ==
    ASSUME ChainInv, [Next]_vars PROVE OneTurn' /\ TurnNotLost'
<1> USE Numbering DEF ChainInv, TypeOK, WorkerStates, CoordStates, Moves, fileVars,
                      shellVars, ThreadsFollowCommand, OneTurn, TurnNotLost, HasTurn, Busy
<1>1. ASSUME NEW i \in Workers, Worker(i) PROVE OneTurn' /\ TurnNotLost'
  <2>1. CASE WorkerTake(i)
    BY <2>1 DEF WorkerTake
  <2>2. CASE Sample(i)
    BY <2>2 DEF Sample
  <2>3. CASE WorkerLock(i)
    BY <2>3 DEF WorkerLock
  <2>4. CASE WorkerUpdate(i)
    BY <2>4 DEF WorkerUpdate, Updated
  <2>5. CASE WorkerGive(i)
    BY <2>5 DEF WorkerGive
  <2>6. QED
    BY <1>1, <2>1, <2>2, <2>3, <2>4, <2>5 DEF Worker
<1>2. CASE Coordinator
  <2>1. CASE CoordGive
    BY <2>1 DEF CoordGive, Aged
  <2>2. CASE CoordAwait
    BY <2>2 DEF CoordAwait
  <2>3. CASE CoordLock
    BY <2>3 DEF CoordLock
  <2>4. CASE CoordCopy
    BY <2>4 DEF CoordCopy
  <2>5. CASE CoordOpen
    BY <2>5 DEF CoordOpen
  <2>6. CASE CoordWrite
    BY <2>6 DEF CoordWrite
  <2>7. CASE CoordClose
    BY <2>7 DEF CoordClose
  <2>8. CASE CoordSleep
    BY <2>8 DEF CoordSleep
  <2>9. QED
    BY <1>2, <2>1, <2>2, <2>3, <2>4, <2>5, <2>6, <2>7, <2>8 DEF Coordinator
<1>3. CASE Shell
  <2>1. CASE StartCmd
    BY <2>1 DEF StartCmd
  <2>2. CASE Create
    BY <2>2 DEF Create, Advance
  <2>3. CASE StopCmd
    BY <2>3 DEF StopCmd
  <2>4. CASE Abort
    BY <2>4 DEF Abort
  <2>5. CASE Drain
    <3>1. \A t \in Threads : ~tid[t] /\ pc[t] = "dead"
      BY <2>5 DEF Drain
    <3>2. \A t \in Threads : HasTurn(t)' => HasTurn(t) /\ step < Coord
      BY <2>5, NumWorkersAssumption DEF Drain, Threads, Workers, Coord
    <3>3. QED
      BY <2>5, <3>1, <3>2 DEF Drain, Advance
  <2>6. CASE ClearLogs
    BY <2>6 DEF ClearLogs
  <2>7. QED
    BY <1>3, <2>1, <2>2, <2>3, <2>4, <2>5, <2>6 DEF Shell
<1>4. CASE UNCHANGED vars
  BY <1>4 DEF vars
<1>5. QED
  BY <1>1, <1>2, <1>3, <1>4 DEF Next

(* The mutex is owned by the one thread in its critical section.           *)
LEMMA MutexStep ==
    ASSUME ChainInv, [Next]_vars PROVE MutexLive'
<1> USE Numbering DEF ChainInv, TypeOK, WorkerStates, CoordStates, Moves, fileVars,
                      shellVars, ThreadsFollowCommand, MutexLive, Critical
<1>1. ASSUME NEW i \in Workers, Worker(i) PROVE MutexLive'
  <2>1. CASE WorkerTake(i)
    BY <2>1 DEF WorkerTake
  <2>2. CASE Sample(i)
    BY <2>2 DEF Sample
  <2>3. CASE WorkerLock(i)
    BY <2>3 DEF WorkerLock
  <2>4. CASE WorkerUpdate(i)
    BY <2>4 DEF WorkerUpdate, Updated
  <2>5. CASE WorkerGive(i)
    BY <2>5 DEF WorkerGive
  <2>6. QED
    BY <1>1, <2>1, <2>2, <2>3, <2>4, <2>5 DEF Worker
<1>2. CASE Coordinator
  <2>1. CASE CoordGive
    BY <2>1 DEF CoordGive, Aged
  <2>2. CASE CoordAwait
    BY <2>2 DEF CoordAwait
  <2>3. CASE CoordLock
    BY <2>3 DEF CoordLock
  <2>4. CASE CoordCopy
    BY <2>4 DEF CoordCopy
  <2>5. CASE CoordOpen
    BY <2>5 DEF CoordOpen
  <2>6. CASE CoordWrite
    BY <2>6 DEF CoordWrite
  <2>7. CASE CoordClose
    BY <2>7 DEF CoordClose
  <2>8. CASE CoordSleep
    BY <2>8 DEF CoordSleep
  <2>9. QED
    BY <1>2, <2>1, <2>2, <2>3, <2>4, <2>5, <2>6, <2>7, <2>8 DEF Coordinator
<1>3. CASE Shell
  <2>1. CASE StartCmd
    BY <2>1 DEF StartCmd
  <2>2. CASE Create
    BY <2>2 DEF Create, Advance
  <2>3. CASE StopCmd
    BY <2>3 DEF StopCmd
  <2>4. CASE Abort
    BY <2>4 DEF Abort
  <2>5. CASE Drain
    BY <2>5 DEF Drain, Advance
  <2>6. CASE ClearLogs
    BY <2>6 DEF ClearLogs
  <2>7. QED
    BY <1>3, <2>1, <2>2, <2>3, <2>4, <2>5, <2>6 DEF Shell
<1>4. CASE UNCHANGED vars
  BY <1>4 DEF vars
<1>5. QED
  BY <1>1, <1>2, <1>3, <1>4 DEF Next

(* What has been measured in this cycle is fresh in g_sd and in the copy.   *)
LEMMA FreshStep ==
    ASSUME ChainInv, [Next]_vars PROVE MeasuredFresh' /\ LineFresh'
<1> USE Numbering DEF ChainInv, TypeOK, WorkerStates, CoordStates, Moves, fileVars,
                      shellVars, ThreadsFollowCommand, OneTurn, HasTurn, Busy, MeasuredFresh, Measured,
        FreshFor, LineFresh
<1>1. ASSUME NEW i \in Workers, Worker(i) PROVE MeasuredFresh' /\ LineFresh'
  <2>1. CASE WorkerTake(i)
    BY <2>1 DEF WorkerTake
  <2>2. CASE Sample(i)
    BY <2>2 DEF Sample
  <2>3. CASE WorkerLock(i)
    BY <2>3 DEF WorkerLock
  <2>4. CASE WorkerUpdate(i)
    <3>1. FreshFor(i, g_sd'[i])
      <4>1. g_sd'[i] = Updated(g_sd[i], reading[i])
        BY <2>4 DEF WorkerUpdate
      <4>2. CASE reading[i] = "fail"
        BY <4>1, <4>2 DEF Updated, Entry
      <4>3. CASE reading[i] # "fail"
        BY <4>1, <4>3 DEF Updated
      <4>4. QED
        BY <4>2, <4>3
    <3>2. \A j \in Workers : j # i =>
              g_sd'[j] = g_sd[j] /\ (Measured(j)' => Measured(j))
      BY <2>4 DEF WorkerUpdate
    <3>3. QED
      BY <2>4, <3>1, <3>2 DEF WorkerUpdate
  <2>5. CASE WorkerGive(i)
    BY <2>5 DEF WorkerGive
  <2>6. QED
    BY <1>1, <2>1, <2>2, <2>3, <2>4, <2>5 DEF Worker
<1>2. CASE Coordinator
  <2>1. CASE CoordGive
    BY <2>1 DEF CoordGive, Aged
  <2>2. CASE CoordAwait
    <3>1. \A i \in Workers : Coord > i
      BY NumWorkersAssumption DEF Workers, Coord
    <3>2. \A i \in Workers : Measured(i)
      BY <2>2, <3>1 DEF CoordAwait
    <3>3. QED
      BY <2>2, <3>2 DEF CoordAwait
  <2>3. CASE CoordLock
    BY <2>3 DEF CoordLock
  <2>4. CASE CoordCopy
    BY <2>4 DEF CoordCopy
  <2>5. CASE CoordOpen
    BY <2>5 DEF CoordOpen
  <2>6. CASE CoordWrite
    BY <2>6 DEF CoordWrite
  <2>7. CASE CoordClose
    BY <2>7 DEF CoordClose
  <2>8. CASE CoordSleep
    BY <2>8 DEF CoordSleep
  <2>9. QED
    BY <1>2, <2>1, <2>2, <2>3, <2>4, <2>5, <2>6, <2>7, <2>8 DEF Coordinator
<1>3. CASE Shell
  <2>1. CASE StartCmd
    BY <2>1 DEF StartCmd
  <2>2. CASE Create
    BY <2>2 DEF Create, Advance, Zeroed
  <2>3. CASE StopCmd
    BY <2>3 DEF StopCmd
  <2>4. CASE Abort
    BY <2>4 DEF Abort
  <2>5. CASE Drain
    BY <2>5 DEF Drain, Advance
  <2>6. CASE ClearLogs
    BY <2>6 DEF ClearLogs
  <2>7. QED
    BY <1>3, <2>1, <2>2, <2>3, <2>4, <2>5, <2>6 DEF Shell
<1>4. CASE UNCHANGED vars
  BY <1>4 DEF vars
<1>5. QED
  BY <1>1, <1>2, <1>3, <1>4 DEF Next

(* ChainInv holds initially: no thread exists.                             *)
LEMMA ChainInit == Init => ChainInv
<1> SUFFICES ASSUME Init PROVE ChainInv
  OBVIOUS
<1>1. TypeOK /\ NoFileLeft
  BY TypeInit DEF TypeInv
<1>2. ThreadsFollowCommand /\ OneTurn /\ TurnNotLost
  BY Numbering DEF Init, ThreadsFollowCommand, OneTurn, TurnNotLost, HasTurn,
                   Busy
<1>3. MutexLive /\ MeasuredFresh /\ LineFresh
  BY Numbering DEF Init, MutexLive, Critical, MeasuredFresh, Measured, HasTurn,
                   Busy, LineFresh
<1>4. QED
  BY <1>1, <1>2, <1>3 DEF ChainInv

(* The chain invariant, for any number of workers and any commands.        *)
THEOREM ChainCorrect == Spec => []ChainInv
<1>1. ChainInv => TypeInv
  BY Numbering DEF ChainInv, ThreadsFollowCommand, TypeInv
<1>2. ChainInv /\ [Next]_vars => ChainInv'
  BY <1>1, TypeStep, ThreadsStep, TurnStep, MutexStep, FreshStep
     DEF ChainInv, TypeInv
<1>3. QED
  BY ChainInit, <1>2, PTL DEF Spec

(* At most one worker or semaphore has the turn; an aborted cycle leaves   *)
(* none behind.                                                            *)
THEOREM TurnIsUnique == Spec => [](OneTurn /\ TurnNotLost)
<1>1. ChainInv => OneTurn /\ TurnNotLost
  BY DEF ChainInv
<1>2. QED
  BY <1>1, ChainCorrect, PTL

(* g_sd is touched by the mutex's owner only, and no session starts or     *)
(* runs with a mutex that a dead thread owns.                              *)
THEOREM SnapshotIsExclusive == Spec => []MutexLive
<1>1. ChainInv => MutexLive
  BY DEF ChainInv
<1>2. QED
  BY <1>1, ChainCorrect, PTL

(* What the log marks valid was measured in the line's own cycle.          *)
THEOREM LinesAreFresh == Spec => []LineFresh
<1>1. ChainInv => LineFresh
  BY DEF ChainInv
<1>2. QED
  BY <1>1, ChainCorrect, PTL

(* Between commands all threads run or none does, with drained semaphores. *)
THEOREM SessionIsWhole == Spec => []WholeSession
<1>1. ChainInv => WholeSession
  <2> SUFFICES ASSUME ChainInv, cmd = "none"
               PROVE  \/ \A t \in Threads : tid[t] /\ pc[t] # "dead"
                      \/ \A t \in Threads : /\ ~tid[t] /\ pc[t] = "dead"
                                            /\ sem[t] = 0
    BY DEF WholeSession
  <2> USE Numbering DEF ChainInv, ThreadsFollowCommand
  <2>1. CASE tid[Coord]
    BY <2>1
  <2>2. CASE ~tid[Coord]
    <3>1. \A t \in Threads : ~tid[t] /\ pc[t] = "dead"
      BY <2>2
    <3>2. \A t \in Threads : ~HasTurn(t)
      BY <3>1 DEF OneTurn
    <3>3. QED
      BY <3>1, <3>2 DEF HasTurn, TypeOK
  <2>3. QED
    BY <2>1, <2>2
<1>2. QED
  BY <1>1, ChainCorrect, PTL

(* The log is open only while a line is written: stop, a failed open and a *)
(* restart leave no file behind.                                           *)
THEOREM LogIsClosed == Spec => []NoFileLeft
<1>1. ChainInv => NoFileLeft
  BY DEF ChainInv
<1>2. QED
  BY <1>1, ChainCorrect, PTL

-----------------------------------------------------------------------------
(***************************************************************************)
(* MemLog implements SensorLog, for a chain of any length.  A step of the  *)
(* logger is mapped by what it does to the coordinator's phase; within a   *)
(* phase, by the turn: OneTurn and TurnNotLost say which sensors have been *)
(* measured when a thread of the chain moves.                              *)
(***************************************************************************)

(* What phaseBar and resultBar are, case by case.                          *)
BarFacts ==
    /\ phaseBar \in {"stopped", "rest", "measuring", "report"}
    /\ phaseBar = "stopped" <=> pc[Coord] = "dead"
    /\ phaseBar = "rest" <=> pc[Coord] \in {"give", "sleep"}
    /\ phaseBar = "measuring" <=> pc[Coord] \in {"await", "lock", "copy"}
    /\ phaseBar = "report" <=> pc[Coord] \in {"open", "write", "close"}
    /\ resultBar = [i \in Workers |-> resultBar[i]]
    /\ \A i \in Workers :
         /\ phaseBar = "measuring" /\ Measured(i)
                => resultBar[i] = Status(g_sd[i])
         /\ phaseBar = "measuring" /\ ~Measured(i) => resultBar[i] = "pending"
         /\ phaseBar = "report" => resultBar[i] = Status(snap[i])
         /\ phaseBar \in {"stopped", "rest"} => resultBar[i] = "pending"

(* The mapping is defined by cases that exclude one another.               *)
LEMMA BarIs == TypeOK => BarFacts
<1> SUFFICES ASSUME TypeOK PROVE BarFacts
  OBVIOUS
<1>1. pc[Coord] \in CoordStates
  BY DEF TypeOK
<1>2. /\ phaseBar \in {"stopped", "rest", "measuring", "report"}
      /\ phaseBar = "stopped" <=> pc[Coord] = "dead"
      /\ phaseBar = "rest" <=> pc[Coord] \in {"give", "sleep"}
      /\ phaseBar = "measuring" <=> pc[Coord] \in {"await", "lock", "copy"}
      /\ phaseBar = "report" <=> pc[Coord] \in {"open", "write", "close"}
  BY <1>1 DEF phaseBar, CoordStates
<1>3. resultBar = [i \in Workers |-> resultBar[i]]
  BY DEF resultBar
<1>4. ASSUME NEW i \in Workers
      PROVE  /\ phaseBar = "measuring" /\ Measured(i)
                    => resultBar[i] = Status(g_sd[i])
             /\ phaseBar = "measuring" /\ ~Measured(i)
                    => resultBar[i] = "pending"
             /\ phaseBar = "report" => resultBar[i] = Status(snap[i])
             /\ phaseBar \in {"stopped", "rest"} => resultBar[i] = "pending"
  BY <1>4 DEF resultBar
<1>5. QED
  BY <1>2, <1>3, <1>4 DEF BarFacts

(* A step within a phase that changes neither what has been measured nor   *)
(* the snapshot is a stuttering step.                                      *)
LEMMA Stutters ==
    ASSUME BarFacts, BarFacts', phaseBar' = phaseBar,
           phaseBar = "report" => snap' = snap,
           \A i \in Workers : phaseBar = "measuring" =>
               /\ Measured(i)' <=> Measured(i)
               /\ Measured(i) => g_sd'[i] = g_sd[i]
    PROVE  UNCHANGED SL!vars
<1>1. ASSUME NEW i \in Workers PROVE resultBar'[i] = resultBar[i]
  BY <1>1 DEF BarFacts, Status
<1>2. resultBar' = resultBar
  BY <1>1 DEF BarFacts
<1>3. QED
  BY <1>2 DEF SL!vars

(* While a cycle is measured, the thread that has the turn tells which     *)
(* sensors have been measured.                                             *)
TurnFacts ==
    \A t \in Threads : HasTurn(t) =>
        /\ pc[Coord] = "await"
        /\ \A s \in Threads : HasTurn(s) => s = t
        /\ \A i \in Workers :
               Measured(i) <=> i < t \/ (i = t /\ pc[i] = "give")

LEMMA TurnMeasures == ChainInv /\ phaseBar = "measuring" => TurnFacts
<1> SUFFICES ASSUME ChainInv, phaseBar = "measuring",
                    NEW t \in Threads, HasTurn(t)
             PROVE  /\ pc[Coord] = "await"
                    /\ \A s \in Threads : HasTurn(s) => s = t
                    /\ \A i \in Workers :
                          Measured(i) <=> i < t \/ (i = t /\ pc[i] = "give")
  BY DEF TurnFacts
<1>1. pc[Coord] \in {"await", "lock", "copy"}
  BY BarIs DEF ChainInv, BarFacts
<1>2. cmd \notin {"stop", "drain"}
  BY <1>1, Numbering DEF ChainInv, ThreadsFollowCommand
<1>3. pc[Coord] = "await"
  BY <1>2 DEF ChainInv, OneTurn
<1>4. \A s \in Threads : HasTurn(s) => s = t
  BY DEF ChainInv, OneTurn
<1>5. ASSUME NEW i \in Workers
      PROVE  Measured(i) <=> i < t \/ (i = t /\ pc[i] = "give")
  <2>1. i \in Threads /\ i \in Nat /\ t \in Nat
    BY Numbering
  <2>2. pc[i] = "give" => i = t
    BY <1>4, <2>1 DEF HasTurn, Busy
  <2>3. (\E s \in Threads : s > i /\ HasTurn(s)) <=> t > i
    BY <1>4
  <2>4. QED
    BY <1>3, <2>1, <2>2, <2>3 DEF Measured
<1>6. QED
  BY <1>3, <1>4, <1>5

(* Both kinds of facts, for the states before and after a step.            *)
Facts == BarFacts /\ (phaseBar = "measuring" => TurnFacts)

LEMMA FactsHold == ChainInv => Facts
BY BarIs, TurnMeasures DEF ChainInv, Facts

LEMMA FactsNext == ChainInv' => Facts'
BY FactsHold, PTL

(* A worker's step measures its sensor, or changes nothing SensorLog sees. *)
LEMMA WorkerMaps ==
    ASSUME ChainInv, ChainInv', NEW i \in Workers, Worker(i)
    PROVE  [SL!Next]_SL!vars
<1> USE DEF Moves, fileVars, shellVars
<1>1. /\ BarFacts /\ BarFacts'
      /\ phaseBar = "measuring" => TurnFacts
      /\ phaseBar' = "measuring" => TurnFacts'
  BY FactsHold, FactsNext DEF Facts
<1>2. i \in Threads /\ i # Coord /\ i \in Nat /\ i + 1 \in Threads
  BY Numbering
<1>3. pc \in [Threads -> WorkerStates \cup CoordStates] /\ Coord \in Threads
          /\ sem \in [Threads -> {0, 1}] /\ g_sd \in [Workers -> Entry]
  BY Numbering DEF ChainInv, TypeOK
<1>4. snap' = snap /\ \E x : pc' = [pc EXCEPT ![i] = x]
  BY DEF Worker, WorkerTake, Sample, WorkerLock, WorkerUpdate, WorkerGive
<1>5. /\ pc'[Coord] = pc[Coord] /\ phaseBar' = phaseBar
      /\ \A t \in Threads : t # i => pc'[t] = pc[t]
  <2>1. PICK x : pc' = [pc EXCEPT ![i] = x]
    BY <1>4
  <2>2. \A t \in Threads : t # i => pc'[t] = pc[t]
    BY <1>3, <2>1
  <2>3. pc'[Coord] = pc[Coord]
    BY <1>2, <1>3, <2>2
  <2>4. QED
    BY <1>1, <2>2, <2>3 DEF BarFacts
<1>6. CASE phaseBar # "measuring"
  BY <1>1, <1>4, <1>5, <1>6, Stutters
<1>7. CASE phaseBar = "measuring" /\ WorkerUpdate(i)
  <2>1. pc[i] = "update" /\ pc'[i] = "give"
    BY <1>2, <1>3, <1>7 DEF WorkerUpdate
  <2>2. HasTurn(i) /\ HasTurn(i)'
    BY <2>1 DEF HasTurn, Busy
  <2>3. \A j \in Workers : /\ Measured(j) <=> j < i
                           /\ Measured(j)' <=> j < i \/ j = i
    <3>1. TurnFacts /\ TurnFacts'
      BY <1>1, <1>5, <1>7
    <3>2. \A j \in Workers : Measured(j) <=> j < i \/ (j = i /\ pc[j] = "give")
      BY <1>2, <2>2, <3>1 DEF TurnFacts
    <3>3. \A j \in Workers :
              Measured(j)' <=> j < i \/ (j = i /\ pc'[j] = "give")
      BY <1>2, <2>2, <3>1 DEF TurnFacts
    <3>4. QED
      BY <2>1, <3>2, <3>3
  <2>4. \A j \in Workers : j # i => g_sd'[j] = g_sd[j]
    BY <1>3, <1>7 DEF WorkerUpdate
  <2>5. /\ \A j \in Workers : j < i => resultBar[j] \in {"valid", "invalid"}
        /\ resultBar[i] = "pending"
        /\ resultBar'[i] \in {"valid", "invalid"}
        /\ \A j \in Workers : j # i => resultBar'[j] = resultBar[j]
    BY <1>1, <1>2, <1>5, <1>7, <2>3, <2>4 DEF BarFacts, Status
  <2>6. resultBar' = [resultBar EXCEPT ![i] = resultBar'[i]]
    BY <1>1, <2>5 DEF BarFacts
  <2>7. SL!Measure(i)
    BY <1>5, <1>7, <2>5, <2>6 DEF SL!Measure, SL!Sensors, Workers
  <2>8. QED
    BY <2>7 DEF SL!Next, SL!Sensors, Workers
<1>8. CASE phaseBar = "measuring" /\ ~WorkerUpdate(i)
  <2>1. g_sd' = g_sd
    BY <1>8 DEF Worker, WorkerTake, Sample, WorkerLock, WorkerGive
  <2>2. ASSUME NEW j \in Workers PROVE Measured(j)' <=> Measured(j)
    <3>1. TurnFacts /\ TurnFacts'
      BY <1>1, <1>5, <1>8
    <3>2. HasTurn(i)
      BY <1>3, <1>8 DEF Worker, WorkerTake, Sample, WorkerLock, WorkerGive,
                        HasTurn, Busy
    <3>3. CASE WorkerGive(i)
      <4>1. pc[i] = "give" /\ pc'[i] = "take" /\ sem'[i + 1] = 1
        BY <1>2, <1>3, <3>3 DEF WorkerGive
      <4>2. HasTurn(i + 1)'
        BY <4>1 DEF HasTurn
      <4>3. Measured(j) <=> j < i \/ (j = i /\ pc[j] = "give")
        BY <1>2, <3>1, <3>2 DEF TurnFacts
      <4>4. Measured(j)' <=> j < i + 1 \/ (j = i + 1 /\ pc'[j] = "give")
        BY <1>2, <3>1, <4>2 DEF TurnFacts
      <4>5. j = i + 1 => pc'[j] # "give"
        <5>1. j = i + 1 => ~HasTurn(j)
          BY <1>2, <3>1, <3>2, Numbering DEF TurnFacts
        <5>2. QED
          BY <1>2, <1>5, <5>1, Numbering DEF HasTurn, Busy
      <4>6. QED
        BY <1>2, <4>1, <4>3, <4>4, <4>5, Numbering
    <3>4. CASE ~WorkerGive(i)
      <4>1. pc[i] # "give" /\ pc'[i] # "give" /\ HasTurn(i)'
        BY <1>2, <1>3, <1>8, <3>4
           DEF Worker, WorkerTake, Sample, WorkerLock, HasTurn, Busy
      <4>2. Measured(j) <=> j < i \/ (j = i /\ pc[j] = "give")
        BY <1>2, <3>1, <3>2 DEF TurnFacts
      <4>3. Measured(j)' <=> j < i \/ (j = i /\ pc'[j] = "give")
        BY <1>2, <3>1, <4>1 DEF TurnFacts
      <4>4. QED
        BY <4>1, <4>2, <4>3
    <3>5. QED
      BY <3>3, <3>4
  <2>3. QED
    BY <1>1, <1>4, <1>5, <2>1, <2>2, Stutters
<1>9. QED
  BY <1>6, <1>7, <1>8

(* A step of the coordinator begins, reports or ends a cycle.              *)
LEMMA CoordinatorMaps ==
    ASSUME ChainInv, ChainInv', Coordinator
    PROVE  [SL!Next]_SL!vars
<1> USE DEF Moves, fileVars, shellVars
<1>1. /\ BarFacts /\ BarFacts'
      /\ phaseBar = "measuring" => TurnFacts
      /\ phaseBar' = "measuring" => TurnFacts'
  BY FactsHold, FactsNext DEF Facts
<1>2. pc \in [Threads -> WorkerStates \cup CoordStates] /\ Coord \in Threads
          /\ sem \in [Threads -> {0, 1}] /\ g_sd \in [Workers -> Entry]
  BY Numbering DEF ChainInv, TypeOK
<1>3. phaseBar' \in {"stopped", "rest"} => resultBar' = SL!NoResult
  BY <1>1 DEF BarFacts, SL!NoResult, SL!Sensors, Workers
<1>4. ASSUME phaseBar' = phaseBar, phaseBar \in {"rest", "report"},
             snap' = snap
      PROVE  UNCHANGED SL!vars
  BY <1>1, <1>4, Stutters
<1>5. CASE CoordGive
  <2>1. pc[Coord] = "give" /\ pc'[Coord] = "await"
    BY <1>2, <1>5 DEF CoordGive
  <2>2. \A t \in Threads : ~HasTurn(t)
    BY <1>2, <2>1, Numbering DEF ChainInv, OneTurn, ThreadsFollowCommand
  <2>3. HasTurn(1)' /\ pc'[1] # "give"
    <3>1. 1 \in Threads /\ 1 # Coord /\ 1 \in Workers
      BY Numbering
    <3>2. pc'[1] = pc[1] /\ sem'[1] = 1
      BY <1>2, <1>5, <3>1 DEF CoordGive
    <3>3. QED
      BY <2>2, <3>1, <3>2 DEF HasTurn, Busy
  <2>4. phaseBar = "rest" /\ phaseBar' = "measuring"
    BY <1>1, <2>1 DEF BarFacts
  <2>5. \A j \in Workers : ~Measured(j)'
    <3>1. \A j \in Workers :
              Measured(j)' <=> j < 1 \/ (j = 1 /\ pc'[j] = "give")
      BY <1>1, <2>3, <2>4, Numbering DEF TurnFacts
    <3>2. \A j \in Workers : j \in Nat /\ j >= 1
      BY NumWorkersAssumption DEF Workers
    <3>3. QED
      BY <2>3, <3>1, <3>2
  <2>6. resultBar' = SL!NoResult
    BY <1>1, <2>4, <2>5 DEF BarFacts, SL!NoResult, SL!Sensors, Workers
  <2>7. QED
    BY <2>4, <2>6 DEF SL!Next, SL!Begin
<1>6. CASE CoordAwait
  <2>1. pc[Coord] = "await" /\ pc'[Coord] = "lock" /\ HasTurn(Coord)
    BY <1>2, <1>6 DEF CoordAwait, HasTurn
  <2>2. phaseBar = "measuring" /\ phaseBar' = "measuring"
    BY <1>1, <2>1 DEF BarFacts
  <2>3. \A j \in Workers : Measured(j)
    BY <1>1, <1>2, <2>1, <2>2, NumWorkersAssumption
       DEF TurnFacts, Workers, Coord
  <2>4. \A j \in Workers : Measured(j)'
    BY <2>1 DEF Measured
  <2>5. QED
    BY <1>1, <1>6, <2>2, <2>3, <2>4, Stutters DEF CoordAwait
<1>7. CASE CoordLock
  <2>1. pc[Coord] = "lock" /\ pc'[Coord] = "copy"
    BY <1>2, <1>7 DEF CoordLock
  <2>2. phaseBar = "measuring" /\ phaseBar' = "measuring"
    BY <1>1, <2>1 DEF BarFacts
  <2>3. \A j \in Workers : Measured(j) /\ Measured(j)'
    BY <2>1 DEF Measured
  <2>4. QED
    BY <1>1, <1>7, <2>2, <2>3, Stutters DEF CoordLock
<1>8. CASE CoordCopy
  <2>1. pc[Coord] = "copy" /\ pc'[Coord] = "open" /\ snap' = g_sd
    BY <1>2, <1>8 DEF CoordCopy
  <2>2. phaseBar = "measuring" /\ phaseBar' = "report"
    BY <1>1, <2>1 DEF BarFacts
  <2>3. \A j \in Workers : Measured(j)
    BY <2>1 DEF Measured
  <2>4. \A j \in Workers : resultBar'[j] = resultBar[j]
                               /\ resultBar[j] # "pending"
    BY <1>1, <2>1, <2>2, <2>3 DEF BarFacts, Status
  <2>5. resultBar' = resultBar
    BY <1>1, <2>4 DEF BarFacts
  <2>6. QED
    BY <2>2, <2>4, <2>5 DEF SL!Next, SL!Report, SL!Sensors, Workers
<1>9. ASSUME phaseBar = "report", phaseBar' = "rest"
      PROVE  [SL!Next]_SL!vars
  BY <1>3, <1>9 DEF SL!Next, SL!Rest
<1>10. CASE CoordOpen
  <2>1. pc[Coord] = "open" /\ pc'[Coord] \in {"write", "sleep"} /\ snap' = snap
    BY <1>2, <1>10 DEF CoordOpen
  <2>2. phaseBar = "report" /\ phaseBar' \in {"report", "rest"}
    BY <1>1, <2>1 DEF BarFacts
  <2>3. QED
    BY <1>4, <1>9, <2>1, <2>2
<1>11. CASE CoordWrite
  <2>1. phaseBar = "report" /\ phaseBar' = "report" /\ snap' = snap
    BY <1>1, <1>2, <1>11 DEF CoordWrite, BarFacts
  <2>2. QED
    BY <1>4, <2>1
<1>12. CASE CoordClose
  <2>1. phaseBar = "report" /\ phaseBar' = "rest"
    BY <1>1, <1>2, <1>12 DEF CoordClose, BarFacts
  <2>2. QED
    BY <1>9, <2>1
<1>13. CASE CoordSleep
  <2>1. phaseBar = "rest" /\ phaseBar' = "rest" /\ snap' = snap
    BY <1>1, <1>2, <1>13 DEF CoordSleep, BarFacts
  <2>2. QED
    BY <1>4, <2>1
<1>14. QED
  BY <1>5, <1>6, <1>7, <1>8, <1>10, <1>11, <1>12, <1>13 DEF Coordinator

(* A command starts or stops the session, or is not seen by SensorLog.     *)
LEMMA ShellMaps ==
    ASSUME ChainInv, ChainInv', Shell
    PROVE  [SL!Next]_SL!vars
<1>1. BarFacts /\ BarFacts'
  BY FactsHold, FactsNext DEF Facts
<1>2. pc \in [Threads -> WorkerStates \cup CoordStates] /\ Coord \in Threads
          /\ step \in Threads
  BY Numbering DEF ChainInv, TypeOK
<1>3. phaseBar' \in {"stopped", "rest"} => resultBar' = SL!NoResult
  BY <1>1 DEF BarFacts, SL!NoResult, SL!Sensors, Workers
<1>4. ASSUME phaseBar = "stopped", phaseBar' = "stopped"
      PROVE  UNCHANGED SL!vars
  BY <1>1, <1>4, Stutters
<1>5. ASSUME UNCHANGED <<pc, sem, g_sd, snap>> PROVE UNCHANGED SL!vars
  <2>1. \A j \in Workers : Measured(j)' <=> Measured(j)
    BY <1>5 DEF Measured, HasTurn
  <2>2. phaseBar' = phaseBar
    BY <1>1, <1>5 DEF BarFacts
  <2>3. QED
    BY <1>1, <1>5, <2>1, <2>2, Stutters
<1>6. CASE StartCmd
  BY <1>5, <1>6 DEF StartCmd
<1>7. CASE Create
  <2>1. CASE tid[step]
    BY <1>5, <1>7, <2>1 DEF Create
  <2>2. CASE ~tid[step]
    <3>1. pc[Coord] = "dead"
      BY <1>2, <1>7, <2>2, NumWorkersAssumption
         DEF Create, ChainInv, ThreadsFollowCommand, Threads, Coord
    <3>2. CASE step = Coord
      <4>1. pc'[Coord] = "give"
        BY <1>2, <1>7, <2>2, <3>2 DEF Create
      <4>2. phaseBar = "stopped" /\ phaseBar' = "rest"
        BY <1>1, <3>1, <4>1 DEF BarFacts
      <4>3. QED
        BY <1>3, <4>2 DEF SL!Next, SL!Start
    <3>3. CASE step # Coord
      <4>1. pc'[Coord] = "dead"
        BY <1>2, <1>7, <2>2, <3>1, <3>3 DEF Create
      <4>2. QED
        BY <1>1, <1>4, <3>1, <4>1 DEF BarFacts
    <3>4. QED
      BY <3>2, <3>3
  <2>3. QED
    BY <2>1, <2>2
<1>8. CASE StopCmd
  <2>1. phaseBar' = "stopped"
    BY <1>1, <1>2, <1>8 DEF StopCmd, BarFacts
  <2>2. CASE phaseBar = "stopped"
    BY <1>4, <2>1, <2>2
  <2>3. CASE phaseBar # "stopped"
    BY <1>3, <2>1, <2>3 DEF SL!Next, SL!Stop
  <2>4. QED
    BY <2>2, <2>3
<1>9. CASE Abort
  <2>1. pc[Coord] = "dead" /\ step # Coord
    BY <1>2, <1>9, Numbering DEF Abort, ChainInv, ThreadsFollowCommand
  <2>2. pc'[Coord] = "dead"
    BY <1>2, <1>9, <2>1 DEF Abort
  <2>3. QED
    BY <1>1, <1>4, <2>1, <2>2 DEF BarFacts
<1>10. CASE Drain
  <2>1. pc[Coord] = "dead" /\ pc'[Coord] = "dead"
    BY <1>2, <1>10 DEF Drain, ChainInv, ThreadsFollowCommand
  <2>2. QED
    BY <1>1, <1>4, <2>1 DEF BarFacts
<1>11. CASE ClearLogs
  BY <1>5, <1>11 DEF ClearLogs
<1>12. QED
  BY <1>6, <1>7, <1>8, <1>9, <1>10, <1>11 DEF Shell

(* MemLog implements SensorLog: whatever the interleaving of the threads   *)
(* and the commands, a session measures every sensor once per cycle, in    *)
(* order, and reports these results only.                                  *)
THEOREM MemLogRefines == Spec => RefinesSensorLog
<1>1. Init => SL!Init
  <2> SUFFICES ASSUME Init PROVE SL!Init
    OBVIOUS
  <2>1. ChainInv
    BY ChainInit
  <2>2. BarFacts
    BY <2>1, BarIs DEF ChainInv
  <2>3. pc[Coord] = "dead"
    BY Numbering DEF Init
  <2>4. phaseBar = "stopped"
    BY <2>2, <2>3 DEF BarFacts
  <2>5. QED
    BY <2>2, <2>4 DEF BarFacts, SL!Init, SL!NoResult, SL!Sensors, Workers
<1>2. ChainInv /\ ChainInv' /\ [Next]_vars => [SL!Next]_SL!vars
  <2> SUFFICES ASSUME ChainInv, ChainInv', [Next]_vars
               PROVE  [SL!Next]_SL!vars
    OBVIOUS
  <2>1. ASSUME NEW i \in Workers, Worker(i) PROVE [SL!Next]_SL!vars
    BY <2>1, WorkerMaps
  <2>2. CASE Coordinator
    BY <2>2, CoordinatorMaps
  <2>3. CASE Shell
    BY <2>3, ShellMaps
  <2>4. CASE UNCHANGED vars
    <3>1. BarFacts /\ BarFacts'
      BY FactsHold, FactsNext DEF Facts
    <3>2. \A j \in Workers : Measured(j)' <=> Measured(j)
      BY <2>4 DEF vars, Measured, HasTurn
    <3>3. phaseBar' = phaseBar
      BY <2>4, <3>1 DEF vars, BarFacts
    <3>4. QED
      BY <2>4, <3>1, <3>2, <3>3, Stutters DEF vars
  <2>5. QED
    BY <2>1, <2>2, <2>3, <2>4 DEF Next
<1>3. QED
  BY <1>1, <1>2, ChainCorrect, PTL DEF Spec, RefinesSensorLog, SL!Spec
================================================================================
