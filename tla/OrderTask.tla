------------------------------- MODULE OrderTask -------------------------------
(***************************************************************************)
(* Three threads that print 1 to 9 in turn, rtos_tasks/order_task, with    *)
(* one mutex and one condition variable for all of them.  The threads run  *)
(* the same code; thread t, from 0, prints when ready % NumThreads = t.    *)
(*                                                                         *)
(* k_condvar_signal wakes the longest waiter only, whoever's turn it is.   *)
(* Equal priorities without time slices run threads in the order in which  *)
(* they became ready: a run has fifo if its kernel does.  Without that any *)
(* thread that is ready may take the next step, sleeps end in any order.   *)
(***************************************************************************)
EXTENDS Integers, SequencesExt

CONSTANTS
    NumThreads,  \* 3 in the code
    ArrayLen     \* numbers each thread prints, 3 in the code

ASSUME SizesAssumption == NumThreads \in Nat \ {0} /\ ArrayLen \in Nat \ {0}

Threads == 0 .. NumThreads - 1
Count == NumThreads * ArrayLen
Nobody == NumThreads

VARIABLES
    ready,      \* the turn, modulo Count
    pc,         \* where each thread is
    mutex,      \* its owner, or Nobody
    runq,       \* threads that are ready, in the order they became so
    waitq,      \* threads that wait for the condition variable
    sleepq,     \* threads asleep, in the order in which they will wake
    printed,    \* the number printed last
    fifo        \* the kernel's order among equal priorities; never changes

vars == <<ready, pc, mutex, runq, waitq, sleepq, printed, fifo>>

TypeOK ==
    /\ ready \in 0 .. Count - 1
    /\ pc \in [Threads -> {"lock", "test", "print", "signal", "unlock"}]
    /\ mutex \in Threads \cup {Nobody}
    /\ {runq, waitq, sleepq} \subseteq Seq(Threads)
    /\ printed \in 0 .. Count /\ fifo \in BOOLEAN

(* main, of a higher priority, creates all the threads before any runs.    *)
Init ==
    /\ ready = 0 /\ printed = 0 /\ mutex = Nobody
    /\ pc = [t \in Threads |-> "lock"]
    /\ runq = [i \in 1 .. NumThreads |-> i - 1]
    /\ waitq = <<>> /\ sleepq = <<>>
    /\ fifo \in BOOLEAN

-----------------------------------------------------------------------------
(* Thread t is the one that runs.                                          *)
Runs(t) == IF fifo THEN runq # <<>> /\ Head(runq) = t ELSE t \in ToSet(runq)

Moves(t, from, to) == /\ Runs(t) /\ pc[t] = from
                      /\ pc' = [pc EXCEPT ![t] = to]

(* k_mutex_lock, at the head of the loop and at the end of a wait.         *)
Lock(t) ==
    /\ Moves(t, "lock", "test")
    /\ mutex = Nobody /\ mutex' = t
    /\ UNCHANGED <<ready, runq, waitq, sleepq, printed>>

(* The queue without the thread t, which is in it.                         *)
Without(queue, t) == RemoveAt(queue, CHOOSE i \in DOMAIN queue : queue[i] = t)

MyTurn(t) == ready % NumThreads = t

(* Variant: `if' for `while' around k_condvar_wait.                        *)
TestOnce(t) ==
    \/ /\ MyTurn(t) /\ Moves(t, "test", "print")
       /\ UNCHANGED <<ready, mutex, runq, waitq, sleepq, printed>>
    \/ /\ ~MyTurn(t) /\ Moves(t, "test", "print")
       /\ mutex' = Nobody
       /\ runq' = Without(runq, t) /\ waitq' = Append(waitq, t)
       /\ UNCHANGED <<ready, sleepq, printed>>

(* The while loop around k_condvar_wait, which releases the mutex and      *)
(* takes it again.                                                         *)
Test(t) ==
    \/ /\ MyTurn(t) /\ Moves(t, "test", "print")
       /\ UNCHANGED <<ready, mutex, runq, waitq, sleepq, printed>>
    \/ /\ ~MyTurn(t) /\ Moves(t, "test", "lock")
       /\ mutex' = Nobody
       /\ runq' = Without(runq, t) /\ waitq' = Append(waitq, t)
       /\ UNCHANGED <<ready, sleepq, printed>>

(* arr[ready / 3], where the arrays hold 1 to 9 dealt out to the threads.  *)
Element(t, i) == NumThreads * i + t + 1

(* Variant: the turn counter is reduced too early.                         *)
PrintNumberShortRound(t) ==
    /\ Moves(t, "print", "signal")
    /\ printed' = Element(t, ready \div NumThreads)
    /\ ready' = (ready + 1) % NumThreads
    /\ UNCHANGED <<mutex, runq, waitq, sleepq>>

PrintNumber(t) ==
    /\ Moves(t, "print", "signal")
    /\ printed' = Element(t, ready \div NumThreads)
    /\ ready' = (ready + 1) % Count
    /\ UNCHANGED <<mutex, runq, waitq, sleepq>>

Signal(t) ==
    /\ Moves(t, "signal", "unlock")
    /\ IF waitq = <<>> THEN UNCHANGED <<runq, waitq>>
       ELSE runq' = Append(runq, Head(waitq)) /\ waitq' = Tail(waitq)
    /\ UNCHANGED <<ready, mutex, sleepq, printed>>

(* Variant: the loop ends without k_msleep.                                *)
UnlockOnly(t) ==
    /\ Moves(t, "unlock", "lock")
    /\ mutex' = Nobody
    /\ UNCHANGED <<ready, runq, waitq, sleepq, printed>>

(* k_mutex_unlock and k_msleep.                                            *)
UnlockAndSleep(t) ==
    /\ Moves(t, "unlock", "lock")
    /\ mutex' = Nobody
    /\ runq' = Without(runq, t) /\ sleepq' = Append(sleepq, t)
    /\ UNCHANGED <<ready, waitq, printed>>

(* All sleeps last the same time.                                          *)
Wake(t) ==
    /\ IF fifo THEN sleepq # <<>> /\ Head(sleepq) = t ELSE t \in ToSet(sleepq)
    /\ sleepq' = Without(sleepq, t) /\ runq' = Append(runq, t)
    /\ UNCHANGED <<ready, pc, mutex, waitq, printed>>

Thread(t) == Lock(t) \/ Test(t) \/ PrintNumber(t) \/ Signal(t)
                     \/ UnlockAndSleep(t)

Next == (\E t \in Threads : Thread(t) \/ Wake(t)) /\ fifo' = fifo

(* The processor is not idle while a thread is ready, and sleeps end.      *)
Spec == Init /\ [][Next]_vars
FairSpec == /\ Spec /\ WF_vars(Next /\ \E t \in Threads : Thread(t))
            /\ \A t \in Threads : WF_vars(Next /\ Wake(t))

-----------------------------------------------------------------------------
(* The numbers come out in order, 1 after the last, whatever the schedule. *)
PrintsInOrder == [][printed' # printed => printed' = (printed % Count) + 1]_vars

(* With fifo each thread comes up when it is its turn, and nobody ever     *)
(* waits for the condition variable: the sleep that ends the loop is what  *)
(* sends a thread to the end of the round.                                 *)
NobodyWaits == fifo => waitq = <<>>

(* "Sequence repeats indefinitely": every number is printed for ever.      *)
(* This needs fifo: a thread that was first in waiting out of turn takes   *)
(* the signal meant for the next, and nobody signals again.                *)
SequenceRepeats == fifo => \A n \in 1 .. Count : []<>(printed = n)

=============================================================================
