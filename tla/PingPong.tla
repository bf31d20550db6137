------------------------------- MODULE PingPong -------------------------------
(***************************************************************************)
(* Two threads that print "ping" and "pong" in turn, rtos_tasks/ping_pong. *)
(* Each waits for its own binary semaphore, prints, gives the other's and  *)
(* sleeps, Iters times; then its function returns.  The names of the       *)
(* specification are its own, as its proofs share a module with those of   *)
(* the other threading exercise, order_task.                               *)
(***************************************************************************)
EXTENDS Naturals

CONSTANT Iters  \* ITERS, 100 in the code

ASSUME ItersAssumption == Iters \in Nat

VARIABLES
    pcA, iA,     \* thread A: where it is, and its loop counter
    pcB, iB,     \* thread B
    semA, semB,  \* counts, limit 1
    pings, pongs \* lines printed so far

varsA == <<pcA, iA, pings>>
varsB == <<pcB, iB, pongs>>
allVars == <<pcA, iA, pcB, iB, semA, semB, pings, pongs>>

States == {"loop", "print", "give", "sleep", "ended"}

PingPongTypeOK ==
    /\ pcA \in States /\ pcB \in States
    /\ iA \in 0 .. Iters /\ iB \in 0 .. Iters
    /\ semA \in {0, 1} /\ semB \in {0, 1}
    /\ pings \in 0 .. Iters /\ pongs \in 0 .. Iters

PingPongInit ==
    /\ pcA = "loop" /\ iA = 0 /\ pcB = "loop" /\ iB = 0
    /\ semA = 1 /\ semB = 0
    /\ pings = 0 /\ pongs = 0

-----------------------------------------------------------------------------
(* threadA_fn                                                              *)

(* Variant: thread A's loop is one turn too short.                         *)
TakeAOneLess ==
    /\ pcA = "loop" /\ iA + 1 < Iters /\ semA = 1
    /\ semA' = 0 /\ pcA' = "print"
    /\ UNCHANGED <<iA, pings, semB, varsB>>

TakeA ==
    /\ pcA = "loop" /\ iA < Iters /\ semA = 1
    /\ semA' = 0 /\ pcA' = "print"
    /\ UNCHANGED <<iA, pings, semB, varsB>>

Ping ==
    /\ pcA = "print"
    /\ pings' = pings + 1 /\ pcA' = "give"
    /\ UNCHANGED <<iA, semA, semB, varsB>>

(* Variant: thread A gives its own semaphore.                              *)
GiveBOwn ==
    /\ pcA = "give"
    /\ semA' = 1 /\ pcA' = "sleep"
    /\ UNCHANGED <<iA, pings, semB, varsB>>

GiveB ==
    /\ pcA = "give"
    /\ semB' = 1 /\ pcA' = "sleep"
    /\ UNCHANGED <<iA, pings, semA, varsB>>

SleepA ==
    /\ pcA = "sleep"
    /\ iA' = iA + 1 /\ pcA' = "loop"
    /\ UNCHANGED <<pings, semA, semB, varsB>>

EndA ==
    /\ pcA = "loop" /\ iA = Iters /\ pcA' = "ended"
    /\ UNCHANGED <<iA, pings, semA, semB, varsB>>

-----------------------------------------------------------------------------
(* threadB_fn                                                              *)

TakeB ==
    /\ pcB = "loop" /\ iB < Iters /\ semB = 1
    /\ semB' = 0 /\ pcB' = "print"
    /\ UNCHANGED <<iB, pongs, semA, varsA>>

Pong ==
    /\ pcB = "print"
    /\ pongs' = pongs + 1 /\ pcB' = "give"
    /\ UNCHANGED <<iB, semA, semB, varsA>>

GiveA ==
    /\ pcB = "give"
    /\ semA' = 1 /\ pcB' = "sleep"
    /\ UNCHANGED <<iB, pongs, semB, varsA>>

SleepB ==
    /\ pcB = "sleep"
    /\ iB' = iB + 1 /\ pcB' = "loop"
    /\ UNCHANGED <<pongs, semA, semB, varsA>>

EndB ==
    /\ pcB = "loop" /\ iB = Iters /\ pcB' = "ended"
    /\ UNCHANGED <<iB, pongs, semA, semB, varsA>>

-----------------------------------------------------------------------------
ThreadA == TakeA \/ Ping \/ GiveB \/ SleepA \/ EndA
ThreadB == TakeB \/ Pong \/ GiveA \/ SleepB \/ EndB

PingPongNext == ThreadA \/ ThreadB

(* Equal priorities, and both threads sleep: each gets to run.             *)
PingPongSpec == PingPongInit /\ [][PingPongNext]_allVars
PingPongFairSpec ==
    PingPongSpec /\ WF_allVars(ThreadA) /\ WF_allVars(ThreadB)

-----------------------------------------------------------------------------
(* "ping" and "pong" alternate: a pong answers every ping before the next. *)
Alternates == pings = pongs \/ pings = pongs + 1

(* The line a thread prints carries its loop counter: ping 0, pong 0,      *)
(* ping 1, pong 1 and so on.                                               *)
Numbered == /\ pcA = "print" => iA = pings /\ pings = pongs
            /\ pcB = "print" => iB = pongs /\ pings = pongs + 1

(* "Runs until both threads finish their iterations": they do, and no      *)
(* thread is left waiting for the other's last give.                       *)
BothFinish == <>(pcA = "ended" /\ pcB = "ended" /\ pings = Iters
                     /\ pongs = Iters)

(* Why they alternate: exactly one of five things holds the turn - a given *)
(* semaphore, or a thread that has taken its own and not given the other's *)
(* - and the counters of both threads follow from which.                   *)
Printed(pc, i) == IF pc \in {"give", "sleep"} THEN i + 1 ELSE i

TurnA == semA = 1 \/ pcA \in {"print", "give"}
TurnB == semB = 1 \/ pcB \in {"print", "give"}

TurnInv ==
    /\ pings = Printed(pcA, iA) /\ pongs = Printed(pcB, iB)
    /\ TurnA <=> ~TurnB
    /\ semA = 1 => pcA \notin {"print", "give"}
    /\ semB = 1 => pcB \notin {"print", "give"}
    /\ pings = pongs + (IF pcA = "give" \/ semB = 1 \/ pcB = "print"
                        THEN 1 ELSE 0)
    /\ pcA \in {"print", "give", "sleep"} => iA < Iters
    /\ pcB \in {"print", "give", "sleep"} => iB < Iters
    /\ pcA = "ended" => iA = Iters
    /\ pcB = "ended" => iB = Iters

PingPongInv == PingPongTypeOK /\ TurnInv

=============================================================================
