-------------------------------- MODULE Logger --------------------------------
(***************************************************************************)
(* The CSV sensor logger, sensor_task/logger: a sampler thread that        *)
(* appends a line to a LittleFS file every g_period_ms, and the console,   *)
(* which is main until it has created the sampler, or has returned for     *)
(* want of a sensor, and the shell from then on.  They share the log file  *)
(* and the period, under a mutex that every access initialises anew.       *)
(*                                                                         *)
(* Either thread may take the next step: the priorities are not used.      *)
(* A file's contents change when a handle is closed: a handle works on the *)
(* contents it found when it was opened, and one whose file has been       *)
(* removed writes nothing.  Any call of the file system may fail.          *)
(***************************************************************************)
EXTENDS Integers, SequencesExt

CONSTANTS
    DefaultPeriod, MinPeriod,  \* 1000 and 100 in the code
    Requests,   \* what may be typed after `sens rate'
    MaxLines,   \* bound: lines in the file
    MaxResets   \* bound: how often the power is cut

ASSUME PeriodsAssumption ==
    /\ DefaultPeriod \in Nat /\ MinPeriod \in 0 .. DefaultPeriod
    /\ Requests \subseteq Nat
ASSUME LoggerBoundsAssumption == MaxLines \in Nat /\ MaxResets \in Nat

VARIABLES
    pc,              \* where the console and the sampler are
    job,             \* what the console is doing
    arg,             \* the period the console's command sets
    owner, waiters,  \* g_rate_lock
    g_period_ms, period,  \* the shared period, and the sampler's copy
    log,             \* the log file: whether it exists, and its contents
    view,            \* contents as each thread's open handle has them
    handle,          \* the state of each thread's handle
    mounted,         \* the volume is mounted
    resets

lock == <<owner, waiters>>
rate == <<arg, g_period_ms, period>>
files == <<log, view, handle>>
power == <<mounted, resets>>
vars == <<pc, job, arg, owner, waiters, g_period_ms, period, log, view, handle,
          mounted, resets>>

Threads == {"console", "sampler"}
Nobody == "nobody"

(* A line is old once the file it was written to has been removed.         *)
Rows == {"header", "line", "old"}
Contents == BoundedSeq(Rows, MaxLines + 1)

Clamped(ms) == IF ms < MinPeriod THEN MinPeriod ELSE ms
Periods == {DefaultPeriod} \cup {Clamped(ms) : ms \in Requests}

LockStates == {"init", "lock", "blocked", "access", "unlock"}
InitStates == {"mount", "create", "stat", "header", "close"}
SamplerStates == {"none", "open", "append", "append_close", "sleep"}

TypeOK ==
    /\ pc["console"] \in LockStates \cup InitStates \cup {"idle", "unlink"}
    /\ pc["sampler"] \in LockStates \cup SamplerStates
    /\ job \in {"boot", "none", "clear", "set", "get"}
    /\ arg \in Periods /\ g_period_ms \in Periods /\ period \in Periods
    /\ owner \in Threads \cup {Nobody} /\ waiters \subseteq Threads
    /\ log \in [exists : BOOLEAN, rows : Contents]
    /\ view \in [Threads -> Contents]
    /\ handle \in [Threads -> {"closed", "open", "dirty", "removed"}]
    /\ mounted \in BOOLEAN /\ resets \in 0 .. MaxResets

(* Power on: main has found its devices, or returns and leaves a shell     *)
(* without a sampler.  The volume may hold an older log.                   *)
Booting == [t \in Threads |-> IF t = "console" THEN "mount" ELSE "none"]
NoDevices == [t \in Threads |-> IF t = "console" THEN "idle" ELSE "none"]
Starts == {[pc |-> Booting, job |-> "boot"], [pc |-> NoDevices, job |-> "none"]}

Init ==
    /\ \E start \in Starts : pc = start.pc /\ job = start.job
    /\ arg = DefaultPeriod /\ g_period_ms = arg /\ period = arg
    /\ owner = Nobody /\ waiters = {}
    /\ \E exists \in BOOLEAN : log = [exists |-> exists, rows |-> <<>>]
    /\ view = [t \in Threads |-> <<>>] /\ handle = [t \in Threads |-> "closed"]
    /\ mounted = FALSE /\ resets = 0

Moves(t, from, to) == pc[t] = from /\ pc' = [pc EXCEPT ![t] = to]

-----------------------------------------------------------------------------
(* The period: sens_update_period_ms, sens_get_period_ms                   *)

(* k_mutex_init forgets the owner, and whoever waits.                      *)
MutexInit(t) ==
    /\ Moves(t, "init", "lock")
    /\ owner' = Nobody /\ waiters' = {}
    /\ UNCHANGED <<job, rate, files, power>>

Lock(t) ==
    /\ IF owner = Nobody
       THEN Moves(t, "lock", "access") /\ owner' = t /\ waiters' = waiters
       ELSE /\ Moves(t, "lock", "blocked")
            /\ owner' = owner /\ waiters' = waiters \cup {t}
    /\ UNCHANGED <<job, rate, files, power>>

Access(t) ==
    /\ Moves(t, "access", "unlock")
    /\ period' = IF t = "sampler" THEN g_period_ms ELSE period
    /\ g_period_ms' = IF t = "console" /\ job = "set" THEN arg ELSE g_period_ms
    /\ UNCHANGED <<job, arg, lock, files, power>>

(* Where a thread is after its access.                                     *)
Resumes(t) == IF t = "sampler" THEN "open" ELSE "idle"

(* Variant: the access ends without k_mutex_unlock.                        *)
UnlockMissing(t) ==
    /\ Moves(t, "unlock", Resumes(t))
    /\ job' = IF t = "console" THEN "none" ELSE job
    /\ UNCHANGED <<lock, rate, files, power>>

(* k_mutex_unlock hands the mutex over to a waiter; who does not own it    *)
(* gets an error, which is ignored.                                        *)
Unlock(t) ==
    /\ pc[t] = "unlock"
    /\ job' = IF t = "console" THEN "none" ELSE job
    /\ IF owner = t /\ waiters # {}
       THEN \E w \in waiters :
                /\ owner' = w /\ waiters' = waiters \ {w}
                /\ pc' = [pc EXCEPT ![t] = Resumes(t), ![w] = "access"]
       ELSE /\ owner' = IF owner = t THEN Nobody ELSE owner
            /\ waiters' = waiters
            /\ pc' = [pc EXCEPT ![t] = Resumes(t)]
    /\ UNCHANGED <<rate, files, power>>

-----------------------------------------------------------------------------
(* The log file: fslog_init, fslog_append                                  *)

Opens(t) == /\ view' = [view EXCEPT ![t] = log'.rows]
            /\ handle' = [handle EXCEPT ![t] = "open"]

Writes(t, rows) ==
    /\ view' = [view EXCEPT ![t] = rows]
    /\ handle' = [handle EXCEPT ![t] = IF @ = "open" THEN "dirty" ELSE @]

(* fs_close commits what the handle has written.                           *)
Closes(t) ==
    /\ log' = IF handle[t] = "dirty" THEN [log EXCEPT !.rows = view[t]] ELSE log
    /\ view' = [view EXCEPT ![t] = <<>>]
    /\ handle' = [handle EXCEPT ![t] = "closed"]

(* fslog_init is over, whatever it returned; main then creates the         *)
(* sampler, the shell has done with its command.                           *)
InitEnds ==
    /\ pc' = [pc EXCEPT !["console"] = "idle",
                        !["sampler"] = IF job = "boot" THEN "init" ELSE @]
    /\ job' = "none"

(* A volume that is mounted already gives an error code, which is -EEXIST  *)
(* or another one.                                                         *)
Mount ==
    /\ \/ Moves("console", "mount", "create") /\ job' = job /\ mounted' = TRUE
       \/ pc["console"] = "mount" /\ InitEnds /\ mounted' = mounted
    /\ UNCHANGED <<lock, rate, files, resets>>

Create ==
    \/ /\ Moves("console", "create", "stat")
       /\ log' = [log EXCEPT !.exists = TRUE] /\ Opens("console")
       /\ UNCHANGED <<job, lock, rate, power>>
    \/ /\ pc["console"] = "create" /\ InitEnds
       /\ UNCHANGED <<lock, rate, files, power>>

(* Variant: the header is written whatever the size.                       *)
StatUnchecked ==
    /\ Moves("console", "stat", "header")
    /\ UNCHANGED <<job, lock, rate, files, power>>

(* The size is the file's, not what the open handle finds; fs_stat may     *)
(* fail.                                                                   *)
Stat ==
    /\ \/ log.rows = <<>> /\ Moves("console", "stat", "header")
       \/ Moves("console", "stat", "close")
    /\ UNCHANGED <<job, lock, rate, files, power>>

(* The header is written at the beginning; the result is ignored.          *)
WithHeader(rows) == IF rows = <<>> THEN <<"header">>
                                   ELSE ReplaceAt(rows, 1, "header")

Header ==
    /\ Moves("console", "header", "close")
    /\ \/ Writes("console", WithHeader(view["console"]))
       \/ UNCHANGED <<view, handle>>
    /\ UNCHANGED <<job, lock, rate, log, power>>

HeaderClose ==
    /\ pc["console"] = "close" /\ InitEnds /\ Closes("console")
    /\ UNCHANGED <<lock, rate, power>>

(* fslog_append neither mounts the volume nor creates the file.            *)
OpenLog ==
    /\ \/ mounted /\ log.exists /\ Moves("sampler", "open", "append")
          /\ log' = log /\ Opens("sampler")
       \/ Moves("sampler", "open", "sleep") /\ UNCHANGED files
    /\ UNCHANGED <<job, lock, rate, power>>

AppendLine ==
    /\ Moves("sampler", "append", "append_close")
    /\ \/ /\ Len(view["sampler"]) < MaxLines
          /\ Writes("sampler", Append(view["sampler"], "line"))
       \/ UNCHANGED <<view, handle>>
    /\ UNCHANGED <<job, lock, rate, log, power>>

LineClose ==
    /\ Moves("sampler", "append_close", "sleep") /\ Closes("sampler")
    /\ UNCHANGED <<job, lock, rate, power>>

(* Variant: the sampler reads the period once, before its loop.            *)
SleepKeepingPeriod ==
    /\ Moves("sampler", "sleep", "open")
    /\ UNCHANGED <<job, lock, rate, files, power>>

Sleep ==
    /\ Moves("sampler", "sleep", "init")
    /\ UNCHANGED <<job, lock, rate, files, power>>

-----------------------------------------------------------------------------
(* Shell commands                                                          *)

(* Variant: sens rate sets what was typed.                                 *)
RateCmdUnclamped ==
    /\ Moves("console", "idle", "init")
    /\ \/ job' = "get" /\ arg' = arg
       \/ job' = "set" /\ arg' \in Requests
    /\ UNCHANGED <<lock, g_period_ms, period, files, power>>

RateCmd ==
    /\ Moves("console", "idle", "init")
    /\ \/ job' = "get" /\ arg' = arg
       \/ job' = "set" /\ \E ms \in Requests : arg' = Clamped(ms)
    /\ UNCHANGED <<lock, g_period_ms, period, files, power>>

ClearCmd ==
    /\ Moves("console", "idle", "unlink") /\ job' = "clear"
    /\ UNCHANGED <<lock, rate, files, power>>

AllOld(rows) == [i \in DOMAIN rows |-> IF rows[i] = "line" THEN "old"
                                                           ELSE rows[i]]

(* Variant: the log is initialised again without having been removed.      *)
UnlinkMissing ==
    /\ Moves("console", "unlink", "mount")
    /\ log' = [log EXCEPT !.rows = AllOld(log.rows)]
    /\ view' = [t \in Threads |-> AllOld(view[t])]
    /\ UNCHANGED <<job, lock, rate, handle, power>>

(* fs_unlink, and -ENOENT is as good, which is also what a volume that is  *)
(* not mounted gives; or another error, and clear fails.                   *)
Unlink ==
    \/ /\ mounted /\ Moves("console", "unlink", "mount") /\ job' = job
       /\ log' = [exists |-> FALSE, rows |-> <<>>]
       /\ view' = [t \in Threads |-> AllOld(view[t])]
       /\ handle' = [t \in Threads |-> IF handle[t] = "closed" THEN "closed"
                                                              ELSE "removed"]
       /\ UNCHANGED <<lock, rate, power>>
    \/ /\ \/ mounted /\ Moves("console", "unlink", "idle") /\ job' = "none"
          \/ ~mounted /\ Moves("console", "unlink", "mount") /\ job' = job
       /\ UNCHANGED <<lock, rate, files, power>>

(* The power is cut: the file has what was committed, and main starts.     *)
Reset ==
    /\ resets < MaxResets /\ resets' = resets + 1
    /\ \E start \in Starts : pc' = start.pc /\ job' = start.job
    /\ owner' = Nobody /\ waiters' = {}
    /\ arg' = DefaultPeriod /\ g_period_ms' = arg' /\ period' = arg'
    /\ view' = [t \in Threads |-> <<>>] /\ handle' = [t \in Threads |-> "closed"]
    /\ mounted' = FALSE /\ UNCHANGED log

-----------------------------------------------------------------------------
RateAccess(t) == MutexInit(t) \/ Lock(t) \/ Access(t) \/ Unlock(t)
Sampler == RateAccess("sampler") \/ OpenLog \/ AppendLine \/ LineClose \/ Sleep
LogInit == Mount \/ Create \/ Stat \/ Header \/ HeaderClose
Console == RateAccess("console") \/ LogInit \/ Unlink

Next == Sampler \/ Console \/ RateCmd \/ ClearCmd \/ Reset

Spec == Init /\ [][Next]_vars

(* Both threads are scheduled, and a sleep ends.  Nobody need type a       *)
(* command, but one that was begun is carried through.                     *)
FairSpec == Spec /\ WF_vars(Sampler) /\ WF_vars(Console)

-----------------------------------------------------------------------------
(* A boot keeps the log of the runs before it, row by row, even one whose  *)
(* header was never written ("write header if empty").                     *)
BootKeepsLog ==
    [][job = "boot" => IsPrefix(log.rows, log'.rows)]_vars

(* What a clear has removed does not come back, though the sampler may     *)
(* have had the file open ("truncate by re-creating").  A clear that finds *)
(* no mounted volume removes nothing, and this does not say that it does.  *)
ClearForgets == "old" \notin ToSet(log.rows)

(* Nobody waits for a mutex that has forgotten him: a thread initialises   *)
(* it only when it neither holds it nor can have kept the other waiting.   *)
NoWaiterLost ==
    \A t \in Threads : pc[t] = "blocked" =>
        t \in waiters /\ owner \in Threads \ {t}

(* The sampler, if there is one, takes up a period that was set, unless    *)
(* another one is.                                                         *)
PeriodApplied ==
    \A p \in Periods : g_period_ms = p /\ pc["sampler"] # "none"
                         ~> period = p \/ g_period_ms # p

=============================================================================
