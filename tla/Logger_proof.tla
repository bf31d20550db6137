----------------------------- MODULE Logger_proof -----------------------------
(***************************************************************************)
(* Proofs about the CSV logger: its mutex that every access initialises    *)
(* anew, its log file after a clear and at a boot, and its types, for any  *)
(* set of requests and any number of lines and resets.                     *)
(*                                                                         *)
(* MutexInv and FileInv are inductive; FileInv needs of MutexInv only that *)
(* nobody but the console runs while main boots.                           *)
(***************************************************************************)
EXTENDS Logger, SequenceTheorems, TLAPS

States == LockStates \cup InitStates \cup SamplerStates \cup {"idle", "unlink"}

(* The owner is between lock and unlock, and the waiters are who is        *)
(* blocked: a thread that initialises the mutex finds nobody waiting,      *)
(* because nobody waits but for the other, which is not at `init'.         *)
MutexInv ==
    /\ pc \in [Threads -> States]
    /\ owner \in Threads \cup {Nobody} /\ waiters \subseteq Threads
    /\ \A t \in Threads : owner = t => pc[t] \in {"access", "unlock"}
    /\ \A t \in Threads : t \in waiters <=> pc[t] = "blocked"
    /\ \A t \in Threads : pc[t] = "blocked" => owner \in Threads \ {t}
    /\ job = "boot" => pc["sampler"] = "none" /\ pc["console"] \in InitStates

NoneOld(rows) == \A i \in DOMAIN rows : rows[i] # "old"

FileType ==
    /\ log \in [exists : BOOLEAN, rows : Seq(Rows)]
    /\ view \in [Threads -> Seq(Rows)]
    /\ handle \in [Threads -> {"closed", "open", "dirty", "removed"}]

(* A removed row is in no file and in no handle that may still commit.     *)
Forgotten ==
    /\ NoneOld(log.rows)
    /\ \A t \in Threads : handle[t] \in {"open", "dirty"} => NoneOld(view[t])

(* While main boots, only a header for an empty log may be committed.      *)
BootCommits ==
    job = "boot" =>
        /\ pc["console"] = "header" => log.rows = <<>>
        /\ handle["console"] = "dirty" => log.rows = <<>>
        /\ pc["console"] \in {"mount", "create"} =>
               handle["console"] = "closed"

FileInv == FileType /\ Forgotten /\ BootCommits

-----------------------------------------------------------------------------
(* The mutex                                                               *)

USE DEF Threads, Nobody

LEMMA InitMutexInv == Init => MutexInv
BY DEF Init, MutexInv, Starts, Booting, NoDevices, States, InitStates, SamplerStates

LEMMA MutexInitStep ==
    ASSUME MutexInv, NEW t \in Threads, MutexInit(t) PROVE MutexInv'
BY DEF MutexInv, MutexInit, Moves, States, LockStates, InitStates

LEMMA LockStep ==
    ASSUME MutexInv, NEW t \in Threads, Lock(t) PROVE MutexInv'
BY DEF MutexInv, Lock, Moves, States, LockStates, InitStates

LEMMA AccessStep ==
    ASSUME MutexInv, NEW t \in Threads, Access(t) PROVE MutexInv'
BY DEF MutexInv, Access, Moves, States, LockStates, InitStates, lock

LEMMA UnlockStep ==
    ASSUME MutexInv, NEW t \in Threads, Unlock(t) PROVE MutexInv'
BY DEF MutexInv, Unlock, Resumes, States, LockStates, InitStates,
       SamplerStates

(* The actions that touch neither the mutex nor a thread that is at it.    *)
LEMMA OtherStep ==
    ASSUME MutexInv,
           \/ OpenLog \/ AppendLine \/ LineClose \/ Sleep
           \/ LogInit \/ Unlink \/ RateCmd \/ ClearCmd
    PROVE  MutexInv'
<1> USE DEF MutexInv, Moves, States, LockStates, InitStates, SamplerStates,
            lock
<1>1. CASE OpenLog
  BY <1>1 DEF OpenLog
<1>2. CASE AppendLine
  BY <1>2 DEF AppendLine
<1>3. CASE LineClose
  BY <1>3 DEF LineClose
<1>4. CASE Sleep
  BY <1>4 DEF Sleep
<1>5. CASE Mount
  BY <1>5 DEF Mount, InitEnds
<1>6. CASE Create
  BY <1>6 DEF Create, InitEnds
<1>7. CASE Stat
  BY <1>7 DEF Stat
<1>8. CASE Header
  BY <1>8 DEF Header
<1>9. CASE HeaderClose
  BY <1>9 DEF HeaderClose, InitEnds
<1>10. CASE Unlink
  BY <1>10 DEF Unlink
<1>11. CASE RateCmd
  BY <1>11 DEF RateCmd
<1>12. CASE ClearCmd
  BY <1>12 DEF ClearCmd
<1>13. QED
  BY <1>1, <1>2, <1>3, <1>4, <1>5, <1>6, <1>7, <1>8, <1>9, <1>10, <1>11,
     <1>12 DEF LogInit

LEMMA MutexStep == MutexInv /\ [Next]_vars => MutexInv'
<1> SUFFICES ASSUME MutexInv, [Next]_vars PROVE MutexInv'
  OBVIOUS
<1>1. CASE \E t \in Threads : RateAccess(t)
  BY <1>1, MutexInitStep, LockStep, AccessStep, UnlockStep DEF RateAccess
<1>2. CASE \/ OpenLog \/ AppendLine \/ LineClose \/ Sleep
           \/ LogInit \/ Unlink \/ RateCmd \/ ClearCmd
  BY <1>2, OtherStep
<1>3. CASE Reset
  BY <1>3 DEF Reset, MutexInv, Starts, Booting, NoDevices, States, InitStates, SamplerStates
<1>4. CASE UNCHANGED vars
  BY <1>4 DEF MutexInv, vars
<1>5. QED
  BY <1>1, <1>2, <1>3, <1>4 DEF Next, Sampler, Console

(* No thread waits for a mutex that has forgotten it, although             *)
(* sens_update_period_ms and sens_get_period_ms call k_mutex_init before   *)
(* every k_mutex_lock.                                                     *)
THEOREM WaitersAreRemembered == Spec => []NoWaiterLost
<1>1. MutexInv => NoWaiterLost
  BY DEF MutexInv, NoWaiterLost
<1>2. QED
  BY <1>1, InitMutexInv, MutexStep, PTL DEF Spec

-----------------------------------------------------------------------------
(* The log file                                                            *)

LEMMA AppendNoneOld ==
    ASSUME NEW rows \in Seq(Rows), NoneOld(rows)
    PROVE  /\ Append(rows, "line") \in Seq(Rows)
           /\ NoneOld(Append(rows, "line"))
BY DEF NoneOld, Rows

LEMMA WithHeaderNoneOld ==
    ASSUME NEW rows \in Seq(Rows)
    PROVE  /\ WithHeader(rows) \in Seq(Rows)
           /\ NoneOld(rows) => NoneOld(WithHeader(rows))
<1>1. CASE rows = <<>>
  BY <1>1 DEF WithHeader, NoneOld, Rows
<1>2. CASE rows # <<>>
  <2>1. WithHeader(rows) = [rows EXCEPT ![1] = "header"]
    BY <1>2 DEF WithHeader, ReplaceAt
  <2>2. 1 \in 1 .. Len(rows) /\ "header" \in Rows
    BY <1>2 DEF Rows
  <2>3. [rows EXCEPT ![1] = "header"] \in Seq(Rows)
    BY <2>2, ExceptSeq
  <2>4. NoneOld(rows) => NoneOld([rows EXCEPT ![1] = "header"])
    BY DEF NoneOld
  <2>5. QED
    BY <2>1, <2>3, <2>4
<1>3. QED
  BY <1>1, <1>2

LEMMA AppendRows ==
    ASSUME NEW rows \in Seq(Rows) PROVE Append(rows, "line") \in Seq(Rows)
BY DEF Rows

LEMMA AllOldRows ==
    ASSUME NEW rows \in Seq(Rows) PROVE AllOld(rows) \in Seq(Rows)
BY DEF AllOld, Rows

LEMMA FileInit == Init => FileInv
BY DEF Init, FileInv, FileType, Forgotten, BootCommits, NoneOld, Starts, Booting

LEMMA FileStep == MutexInv /\ FileInv /\ [Next]_vars => FileInv'
<1> SUFFICES ASSUME MutexInv, FileInv, [Next]_vars PROVE FileInv'
  OBVIOUS
<1> USE DEF FileInv, FileType, Forgotten, BootCommits
<1>1. CASE \E t \in Threads : RateAccess(t)
  BY <1>1 DEF RateAccess, MutexInit, Lock, Access, Unlock, Moves, files,
              MutexInv, InitStates
<1>2. CASE OpenLog
  BY <1>2 DEF OpenLog, Opens, Moves, files, MutexInv
<1>3. CASE AppendLine
  <2>1. CASE UNCHANGED <<view, handle>>
    BY <1>3, <2>1 DEF AppendLine, Moves, MutexInv
  <2>2. CASE Writes("sampler", Append(view["sampler"], "line"))
    <3>1. /\ view' = [view EXCEPT !["sampler"] = Append(view["sampler"], "line")]
          /\ handle' = [handle EXCEPT !["sampler"] =
                            IF @ = "open" THEN "dirty" ELSE @]
          /\ log' = log /\ job' = job /\ pc["sampler"] = "append"
      BY <1>3, <2>2 DEF AppendLine, Moves, Writes
    <3>2. job # "boot"
      BY <3>1 DEF MutexInv
    <3>3. FileType'
      BY <3>1, AppendRows
    <3>4. Forgotten'
      BY <3>1, AppendNoneOld
    <3>5. QED
      BY <3>1, <3>2, <3>3, <3>4
  <2>3. QED
    BY <1>3, <2>1, <2>2 DEF AppendLine
<1>4. CASE LineClose
  BY <1>4 DEF LineClose, Closes, Moves, MutexInv
<1>5. CASE Sleep
  BY <1>5 DEF Sleep, Moves, files, MutexInv
<1>6. CASE Mount
  BY <1>6 DEF Mount, InitEnds, Moves, files, MutexInv
<1>7. CASE Create
  <2>1. CASE InitEnds /\ UNCHANGED files
    BY <1>7, <2>1 DEF Create, InitEnds, files, MutexInv
  <2>2. CASE /\ log' = [log EXCEPT !.exists = TRUE] /\ Opens("console")
             /\ pc["console"] = "create"
             /\ pc' = [pc EXCEPT !["console"] = "stat"]
    <3>1. /\ view' = [view EXCEPT !["console"] = log'.rows]
          /\ handle' = [handle EXCEPT !["console"] = "open"]
          /\ log'.rows = log.rows
      BY <2>2 DEF Opens
    <3>2. FileType'
      BY <2>2, <3>1
    <3>3. Forgotten'
      BY <3>1
    <3>4. BootCommits'
      BY <2>2, <3>1 DEF MutexInv
    <3>5. QED
      BY <3>2, <3>3, <3>4
  <2>3. QED
    BY <1>7, <2>1, <2>2 DEF Create, Moves
<1>8. CASE Stat
  BY <1>8 DEF Stat, Moves, files, MutexInv
<1>9. CASE Header
  BY <1>9, WithHeaderNoneOld DEF Header, Writes, Moves, MutexInv
<1>10. CASE HeaderClose
  <2>1. /\ log' = IF handle["console"] = "dirty"
                   THEN [log EXCEPT !.rows = view["console"]] ELSE log
        /\ view' = [view EXCEPT !["console"] = <<>>]
        /\ handle' = [handle EXCEPT !["console"] = "closed"]
        /\ job' = "none"
    BY <1>10 DEF HeaderClose, InitEnds, Closes
  <2>2. FileType'
    BY <2>1
  <2>3. Forgotten'
    BY <2>1
  <2>4. QED
    BY <2>1, <2>2, <2>3
<1>11. CASE Unlink
  <2>1. job # "boot" /\ job' # "boot"
    BY <1>11 DEF Unlink, Moves, MutexInv, InitStates
  <2>2. CASE UNCHANGED files
    BY <2>1, <2>2 DEF files
  <2>3. CASE /\ log' = [exists |-> FALSE, rows |-> <<>>]
             /\ view' = [t \in Threads |-> AllOld(view[t])]
             /\ handle' = [t \in Threads |->
                    IF handle[t] = "closed" THEN "closed" ELSE "removed"]
    <3>1. FileType'
      <4>1. \A t \in Threads : AllOld(view[t]) \in Seq(Rows)
        BY AllOldRows
      <4>2. QED
        BY <2>3, <4>1
    <3>2. Forgotten'
      BY <2>3 DEF NoneOld
    <3>3. QED
      BY <2>1, <3>1, <3>2
  <2>4. QED
    BY <1>11, <2>2, <2>3 DEF Unlink
<1>12. CASE RateCmd \/ ClearCmd
  BY <1>12 DEF RateCmd, ClearCmd, Moves, files, MutexInv, InitStates
<1>13. CASE Reset
  BY <1>13 DEF Reset, Starts, Booting
<1>14. CASE UNCHANGED vars
  BY <1>14 DEF vars
<1>15. QED
  BY <1>1, <1>2, <1>3, <1>4, <1>5, <1>6, <1>7, <1>8, <1>9, <1>10, <1>11,
     <1>12, <1>13, <1>14 DEF Next, Sampler, Console, LogInit

(* What fslog_clear removed does not come back into the log, although the  *)
(* sampler may have had the file open.                                     *)
THEOREM ClearedStaysCleared == Spec => []ClearForgets
<1>1. FileInv => ClearForgets
  BY DEF FileInv, Forgotten, ClearForgets, NoneOld, ToSet
<1>2. QED
  BY <1>1, InitMutexInv, MutexStep, FileInit, FileStep, PTL DEF Spec

-----------------------------------------------------------------------------
LEMMA PrefixOfItself ==
    ASSUME NEW rows \in Seq(Rows) PROVE IsPrefix(rows, rows)
BY DEF IsPrefix

LEMMA EmptyIsPrefix ==
    ASSUME NEW rows \in Seq(Rows) PROVE IsPrefix(<<>>, rows)
BY DEF IsPrefix

LEMMA BootStep ==
    MutexInv /\ FileInv /\ [Next]_vars =>
        (job = "boot" => IsPrefix(log.rows, log'.rows))
<1> SUFFICES ASSUME MutexInv, FileInv, [Next]_vars, job = "boot"
             PROVE  IsPrefix(log.rows, log'.rows)
  OBVIOUS
<1>1. ASSUME log'.rows = log.rows PROVE IsPrefix(log.rows, log'.rows)
  BY <1>1, PrefixOfItself DEF FileInv, FileType
<1>2. CASE HeaderClose
  <2>1. CASE handle["console"] = "dirty"
    BY <1>2, <2>1, EmptyIsPrefix DEF HeaderClose, Closes, FileInv, FileType, BootCommits
  <2>2. CASE handle["console"] # "dirty"
    BY <1>1, <1>2, <2>2 DEF HeaderClose, Closes
  <2>3. QED
    BY <2>1, <2>2
<1>3. CASE Create
  BY <1>1, <1>3 DEF Create, FileInv, FileType, files
<1>4. CASE Mount \/ Stat \/ Header
  BY <1>1, <1>4 DEF Mount, Stat, Header, files
<1>5. CASE Reset \/ UNCHANGED vars
  BY <1>1, <1>5 DEF Reset, vars
<1>6. CASE \E t \in Threads : RateAccess(t)
  BY <1>1, <1>6 DEF RateAccess, MutexInit, Lock, Access, Unlock, files
<1>7. CASE Sampler \/ Unlink \/ RateCmd \/ ClearCmd
  <2>1. pc["sampler"] = "none" /\ pc["console"] \in InitStates
    BY DEF MutexInv
  <2>2. QED
    BY <1>1, <1>6, <1>7, <2>1
       DEF Sampler, OpenLog, AppendLine, LineClose, Sleep, Unlink, RateCmd,
           ClearCmd, Moves, InitStates
<1>8. QED
  BY <1>2, <1>3, <1>4, <1>5, <1>6, <1>7 DEF Next, Console, LogInit

(* fslog_init keeps every row of the log it finds at a boot.               *)
THEOREM BootKeepsRows == Spec => BootKeepsLog
BY InitMutexInv, MutexStep, FileInit, FileStep, BootStep, PTL
   DEF Spec, BootKeepsLog

-----------------------------------------------------------------------------
(* Type correctness                                                        *)

LEMMA ContentsAreRows ==
    ASSUME NEW rows
    PROVE  rows \in Contents <=> rows \in Seq(Rows) /\ Len(rows) <= MaxLines + 1
<1>1. ASSUME rows \in Contents
      PROVE  rows \in Seq(Rows) /\ Len(rows) <= MaxLines + 1
  <2>1. PICK n \in 0 .. MaxLines + 1 : rows \in [1 .. n -> Rows]
    BY <1>1 DEF Contents, BoundedSeq, SeqOf
  <2>2. QED
    BY <2>1, LoggerBoundsAssumption
<1>2. ASSUME rows \in Seq(Rows), Len(rows) <= MaxLines + 1
      PROVE  rows \in Contents
  <2>1. Len(rows) \in 0 .. MaxLines + 1 /\ rows \in [1 .. Len(rows) -> Rows]
    BY <1>2, LoggerBoundsAssumption
  <2>2. QED
    BY <2>1 DEF Contents, BoundedSeq, SeqOf
<1>3. QED
  BY <1>1, <1>2

LEMMA EmptyContents == <<>> \in Contents
<1>1. <<>> \in Seq(Rows) /\ Len(<<>>) <= MaxLines + 1
  BY LoggerBoundsAssumption
<1>2. QED
  BY <1>1, ContentsAreRows, Zenon

LEMMA WithHeaderContents ==
    ASSUME NEW rows \in Contents PROVE WithHeader(rows) \in Contents
<1>1. rows \in Seq(Rows) /\ Len(rows) <= MaxLines + 1
  BY ContentsAreRows
<1>2. WithHeader(rows) \in Seq(Rows)
  BY <1>1, WithHeaderNoneOld
<1>3. Len(WithHeader(rows)) <= MaxLines + 1
  BY <1>1, LoggerBoundsAssumption DEF WithHeader, ReplaceAt
<1>4. QED
  BY <1>2, <1>3, ContentsAreRows

LEMMA AppendContents ==
    ASSUME NEW rows \in Contents, Len(rows) < MaxLines
    PROVE  Append(rows, "line") \in Contents
<1>1. rows \in Seq(Rows)
  BY ContentsAreRows
<1>2. /\ Append(rows, "line") \in Seq(Rows)
      /\ Len(Append(rows, "line")) <= MaxLines + 1
  BY <1>1, AppendRows, LoggerBoundsAssumption
<1>3. QED
  BY <1>2, ContentsAreRows, Zenon

LEMMA AllOldContents ==
    ASSUME NEW rows \in Contents PROVE AllOld(rows) \in Contents
<1>1. rows \in Seq(Rows) /\ Len(rows) <= MaxLines + 1
  BY ContentsAreRows
<1>2. AllOld(rows) \in Seq(Rows) /\ Len(AllOld(rows)) = Len(rows)
  BY <1>1, AllOldRows DEF AllOld
<1>3. QED
  BY <1>1, <1>2, ContentsAreRows

(* TypeOK in three parts: the threads, the period, the file.               *)
ThreadType ==
    /\ pc["console"] \in LockStates \cup InitStates \cup {"idle", "unlink"}
    /\ pc["sampler"] \in LockStates \cup SamplerStates
    /\ job \in {"boot", "none", "clear", "set", "get"}
    /\ owner \in Threads \cup {Nobody} /\ waiters \subseteq Threads
    /\ mounted \in BOOLEAN /\ resets \in 0 .. MaxResets

PeriodType == arg \in Periods /\ g_period_ms \in Periods /\ period \in Periods

ContentsType ==
    /\ log \in [exists : BOOLEAN, rows : Contents]
    /\ view \in [Threads -> Contents]
    /\ handle \in [Threads -> {"closed", "open", "dirty", "removed"}]

LEMMA TypeInit == Init => TypeOK
<1> SUFFICES ASSUME Init PROVE TypeOK
  OBVIOUS
<1>1. mounted \in BOOLEAN
  BY Zenon DEF Init
<1>2. PICK start \in Starts : pc = start.pc /\ job = start.job
  BY DEF Init
<1>3. /\ pc["console"] \in InitStates \cup {"idle"} /\ pc["sampler"] = "none"
      /\ job \in {"boot", "none"}
  BY <1>2 DEF Starts, Booting, NoDevices, InitStates
<1>4. log \in [exists : BOOLEAN, rows : Contents]
  BY EmptyContents DEF Init
<1>5. QED
  BY <1>1, <1>3, <1>4, EmptyContents, PeriodsAssumption, LoggerBoundsAssumption
     DEF Init, TypeOK, Periods, LockStates, InitStates, SamplerStates

LEMMA ThreadTypeStep == MutexInv /\ ThreadType /\ [Next]_vars => ThreadType'
<1> SUFFICES ASSUME MutexInv, ThreadType, [Next]_vars PROVE ThreadType'
  OBVIOUS
<1> USE DEF ThreadType, LockStates, InitStates, SamplerStates, Moves, lock,
            power
<1>0. pc \in [Threads -> States]
  BY DEF MutexInv
<1>1. ASSUME NEW t \in Threads, RateAccess(t) PROVE ThreadType'
  <2>1. CASE MutexInit(t)
    BY <1>0, <2>1 DEF MutexInit
  <2>2. CASE Lock(t)
    BY <1>0, <2>2 DEF Lock
  <2>3. CASE Access(t)
    BY <1>0, <2>3 DEF Access
  <2>4. CASE Unlock(t)
    BY <1>0, <2>4 DEF Unlock, Resumes
  <2>5. QED
    BY <1>1, <2>1, <2>2, <2>3, <2>4 DEF RateAccess
<1>2. CASE OpenLog \/ AppendLine \/ LineClose \/ Sleep
  BY <1>0, <1>2 DEF OpenLog, AppendLine, LineClose, Sleep
<1>3. CASE LogInit
  BY <1>0, <1>3 DEF LogInit, Mount, Create, Stat, Header, HeaderClose, InitEnds
<1>4. CASE Unlink \/ RateCmd \/ ClearCmd
  BY <1>0, <1>4 DEF Unlink, RateCmd, ClearCmd
<1>5. CASE Reset
  <2>1. PICK start \in Starts : pc' = start.pc /\ job' = start.job
    BY <1>5 DEF Reset
  <2>2. mounted' \in BOOLEAN
    BY <1>5, Zenon DEF Reset
  <2>3. resets' \in 0 .. MaxResets /\ owner' = Nobody /\ waiters' = {}
    BY <1>5, LoggerBoundsAssumption DEF Reset
  <2>4. QED
    BY <2>1, <2>2, <2>3 DEF Starts, Booting, NoDevices
<1>6. CASE UNCHANGED vars
  BY <1>6 DEF vars
<1>7. QED
  BY <1>1, <1>2, <1>3, <1>4, <1>5, <1>6 DEF Next, Sampler, Console

LEMMA PeriodTypeStep == PeriodType /\ [Next]_vars => PeriodType'
<1> SUFFICES ASSUME PeriodType, [Next]_vars PROVE PeriodType'
  OBVIOUS
<1> USE DEF PeriodType, rate
<1>1. ASSUME NEW t \in Threads, RateAccess(t) PROVE PeriodType'
  BY <1>1 DEF RateAccess, MutexInit, Lock, Access, Unlock
<1>2. CASE OpenLog \/ AppendLine \/ LineClose \/ Sleep
  BY <1>2 DEF OpenLog, AppendLine, LineClose, Sleep
<1>3. CASE LogInit
  BY <1>3 DEF LogInit, Mount, Create, Stat, Header, HeaderClose
<1>4. CASE Unlink \/ ClearCmd
  BY <1>4 DEF Unlink, ClearCmd
<1>5. CASE RateCmd
  BY <1>5 DEF RateCmd, Periods
<1>6. CASE Reset
  BY <1>6 DEF Reset, Periods
<1>7. CASE UNCHANGED vars
  BY <1>7 DEF vars
<1>8. QED
  BY <1>1, <1>2, <1>3, <1>4, <1>5, <1>6, <1>7 DEF Next, Sampler, Console

LEMMA ContentsTypeStep == ContentsType /\ [Next]_vars => ContentsType'
<1> SUFFICES ASSUME ContentsType, [Next]_vars PROVE ContentsType'
  OBVIOUS
<1> USE DEF ContentsType
<1>1. ASSUME NEW t \in Threads, RateAccess(t) PROVE ContentsType'
  BY <1>1 DEF RateAccess, MutexInit, Lock, Access, Unlock, files
<1>2. CASE OpenLog \/ LineClose
  BY <1>2, EmptyContents DEF OpenLog, LineClose, Opens, Closes, files
<1>3. CASE AppendLine
  <2>1. CASE UNCHANGED <<view, handle>>
    BY <1>3, <2>1 DEF AppendLine
  <2>2. CASE /\ Len(view["sampler"]) < MaxLines
             /\ Writes("sampler", Append(view["sampler"], "line"))
    <3>1. Append(view["sampler"], "line") \in Contents
      BY <2>2, AppendContents
    <3>2. QED
      BY <1>3, <2>2, <3>1 DEF AppendLine, Writes
  <2>3. QED
    BY <1>3, <2>1, <2>2 DEF AppendLine
<1>4. CASE Sleep \/ Mount \/ Stat
  BY <1>4 DEF Sleep, Mount, Stat, files
<1>5. CASE Create
  BY <1>5 DEF Create, Opens, files
<1>6. CASE Header
  BY <1>6, WithHeaderContents DEF Header, Writes
<1>7. CASE HeaderClose
  BY <1>7, EmptyContents DEF HeaderClose, Closes
<1>8. CASE Unlink
  <2>1. CASE UNCHANGED files
    BY <2>1 DEF files
  <2>2. CASE /\ log' = [exists |-> FALSE, rows |-> <<>>]
             /\ view' = [t \in Threads |-> AllOld(view[t])]
             /\ handle' = [t \in Threads |->
                    IF handle[t] = "closed" THEN "closed" ELSE "removed"]
    <3>1. \A t \in Threads : AllOld(view[t]) \in Contents
      BY AllOldContents
    <3>2. log' \in [exists : BOOLEAN, rows : Contents]
      BY <2>2, EmptyContents
    <3>3. QED
      BY <2>2, <3>1, <3>2
  <2>3. QED
    BY <1>8, <2>1, <2>2 DEF Unlink
<1>9. CASE RateCmd \/ ClearCmd
  BY <1>9 DEF RateCmd, ClearCmd, files
<1>10. CASE Reset
  BY <1>10, EmptyContents DEF Reset
<1>11. CASE UNCHANGED vars
  BY <1>11 DEF vars
<1>12. QED
  BY <1>1, <1>2, <1>3, <1>4, <1>5, <1>6, <1>7, <1>8, <1>9, <1>10, <1>11
     DEF Next, Sampler, Console, LogInit

(* Every period is the default or a request clamped to the minimum, and    *)
(* no handle writes a row beyond the bound of the log.                     *)
THEOREM LoggerTypeOK == Spec => []TypeOK
<1>1. TypeOK <=> ThreadType /\ PeriodType /\ ContentsType
  BY DEF TypeOK, ThreadType, PeriodType, ContentsType
<1>2. MutexInv /\ TypeOK /\ [Next]_vars => TypeOK'
  BY <1>1, ThreadTypeStep, PeriodTypeStep, ContentsTypeStep
     DEF TypeOK, ThreadType, PeriodType, ContentsType
<1>3. QED
  BY <1>2, InitMutexInv, MutexStep, TypeInit, PTL DEF Spec
=============================================================================
