------------------------------- MODULE LcdDriver -------------------------------
(***************************************************************************)
(* The HD44780 LCD driver over a PCF8574 I2C expander,                     *)
(* modules/my_hd44780_pcf8574_mod, and the controller behind it.           *)
(*                                                                         *)
(* Every byte goes to the controller as two nibbles, each latched by the   *)
(* falling edge of the line E, and so as four I2C writes, any of which may *)
(* fail and between any two of which another thread may run.  The          *)
(* controller cannot be read: whether it expects a high or a low nibble is *)
(* known to the driver only by counting.  It keeps its state when the      *)
(* microcontroller alone is reset.                                         *)
(*                                                                         *)
(* A nibble is told by its byte, by the half of it that it is, and by the  *)
(* thread that sent it.  Boot is the thread that runs hd44780_init; the    *)
(* mutex it takes then cannot be contended, and is left out of it.         *)
(***************************************************************************)
EXTENDS Integers, Sequences

CONSTANTS
    Callers,     \* threads that use the driver's API
    Boot,        \* the thread that initialises the device
    MaxChars,    \* bound: the longest text a caller writes
    I2cFails,    \* I2C writes may fail
    MaxResets    \* bound: how often the microcontroller is reset

ASSUME BootAssumption == Boot \notin Callers
ASSUME BoundsAssumption == /\ MaxChars \in Nat /\ MaxResets \in Nat
                           /\ I2cFails \in BOOLEAN

VARIABLES
    at, op, k,      \* where each thread is: its call, the nibble it is at
    failed,         \* r: a write of its present byte has failed
    owner,          \* of the driver's mutex: a singleton, or nobody
    leaked,         \* the owner has returned from a call without unlocking
    ready,          \* hd44780_init has returned 0 since the last reset
    e, pins,        \* the expander's E line and the nibble it shows
    bits, held,     \* the controller: interface width, high nibble latched
    missed,         \* history: a nibble of the thread's call was not latched
    faulty,         \* history: a write has failed since the last reset
    garbled,        \* history: since ready, a byte was put together wrongly
    prev,           \* history: whose byte was executed last, and which
    resets

lock == <<owner, leaked>>
lcdVars == <<e, pins, bits, held>>
history == <<missed, faulty, garbled, prev>>
vars == <<at, op, k, failed, owner, leaked, ready, e, pins, bits, held, missed,
          faulty, garbled, prev, resets>>

Threads == Callers \cup {Boot}
Commands == {"clear", "home", "set_cursor", "control"}
Texts == 0 .. MaxChars

(* What a call sends: the bytes of fn_write are characters, a command's is *)
(* one byte, and hd44780_init sends three times a lone 3 and a lone 2, the *)
(* high nibbles of a function set, then five commands.                     *)
Length(o) == IF o.call = "write" THEN 2 * o.chars
             ELSE IF o.call = "init" THEN 14 ELSE 2

(* Variant: only two of the three wake-up nibbles are sent.                *)
ByteOfTwoWakeUps(o, i) ==
    IF o.call = "write" THEN "char"
    ELSE IF o.call # "init" THEN "command"
    ELSE IF i <= 2 THEN "func8" ELSE IF i <= 6 THEN "func4"
    ELSE "command"

ByteOf(o, i) == IF o.call = "write" THEN "char"
                ELSE IF o.call # "init" THEN "command"
                ELSE IF i <= 3 THEN "func8" ELSE IF i <= 6 THEN "func4"
                ELSE "command"

HalfOf(o, i) == IF (o.call = "init" /\ i <= 4) \/ i % 2 = 1 THEN "hi" ELSE "lo"

Nibble(t) == [byte |-> ByteOf(op[t], k[t]), half |-> HalfOf(op[t], k[t]),
              by |-> t]

Calls == [call : Commands \cup {"init"}, chars : {0}]
             \cup [call : {"write"}, chars : Texts]
Nibbles == [byte : {"char", "command", "func4", "func8"},
            half : {"hi", "lo"}, by : Threads]
NoNibble == [byte |-> "none", half |-> "none", by |-> Boot]

TypeOK ==
    /\ at \in [Threads -> {"idle", "lock", "backlight", "up", "down",
                           "return", "off"}]
    /\ op \in [Threads -> Calls]
    /\ k \in [Threads -> Nat]
    /\ \A t \in Threads : k[t] = 1 \/ k[t] \in 1 .. Length(op[t])
    /\ failed \in [Threads -> BOOLEAN]
    /\ owner \in SUBSET Callers /\ leaked \in BOOLEAN
    /\ ready \in BOOLEAN
    /\ e \in BOOLEAN /\ pins \in Nibbles
    /\ bits \in {4, 8} /\ held \in Nibbles \cup {NoNibble}
    /\ missed \in [Threads -> BOOLEAN]
    /\ faulty \in BOOLEAN /\ garbled \in BOOLEAN
    /\ prev \in [by : Threads, nibble : Nat]
    /\ resets \in 0 .. MaxResets

(* The expander powers up with all its lines high; the controller is in    *)
(* its 8-bit mode.                                                         *)
Booting(t) == IF t = Boot THEN "backlight" ELSE "idle"
InitCall == [call |-> "init", chars |-> 0]

Init ==
    /\ at = [t \in Threads |-> Booting(t)]
    /\ op = [t \in Threads |-> InitCall] /\ k = [t \in Threads |-> 1]
    /\ failed = [t \in Threads |-> FALSE]
    /\ owner = {} /\ leaked = FALSE /\ ready = FALSE
    /\ e = TRUE /\ bits = 8 /\ held = NoNibble
    /\ pins = [byte |-> "char", half |-> "lo", by |-> Boot]
    /\ missed = [t \in Threads |-> FALSE]
    /\ faulty = FALSE /\ garbled = FALSE
    /\ prev = [by |-> Boot, nibble |-> 0] /\ resets = 0

-----------------------------------------------------------------------------
(* The controller (external)                                               *)

(* A function set selects the width, and is told by the high nibble of the *)
(* byte alone.  Nibbles that do not belong together may make one by        *)
(* accident, unless both are of characters or the first is a command's.    *)
Widths(hi, lo) == IF hi.byte = "func8" THEN {8}
                  ELSE IF hi.byte = "func4" /\ hi.half = "hi" THEN {4}
                  ELSE IF \/ hi.byte = "char" /\ lo.byte = "char"
                          \/ hi.byte = "command" /\ hi.half = "hi" THEN {bits}
                  ELSE {4, 8}

(* E falls and the nibble n is latched: in 8-bit mode it is a byte, with   *)
(* the lower lines not connected.                                          *)
Latch(n) ==
    IF bits = 4 /\ held = NoNibble
    THEN held' = n /\ UNCHANGED <<bits, garbled, prev>>
    ELSE /\ held' = NoNibble
         /\ bits' \in Widths(IF bits = 8 THEN n ELSE held, n)
         /\ garbled' = (garbled \/
                (ready /\ (bits = 8 \/ n # [held EXCEPT !.half = "lo"])))
         /\ prev' = [by |-> n.by, nibble |-> k[n.by]]

(* The expander takes the nibble n with E low.  When E falls while the     *)
(* data lines change, either value may be latched.                         *)
Shows(n) ==
    /\ e' = FALSE /\ pins' = n
    /\ IF e THEN \E seen \in {pins, n} : Latch(seen)
            ELSE UNCHANGED <<bits, held, garbled, prev>>

(* Variant: strobe loses the result of the write that raises E.            *)
RaiseUnchecked(t, n) ==
    \/ /\ e' = TRUE /\ pins' = n
       /\ UNCHANGED <<failed, faulty, bits, held, missed, garbled, prev>>
    \/ /\ I2cFails /\ faulty' = TRUE
       /\ UNCHANGED <<failed, lcdVars, missed, garbled, prev>>

(* pcf_write, with E high or low; a failed write does not reach the        *)
(* expander.                                                               *)
Raise(t, n) ==
    \/ /\ e' = TRUE /\ pins' = n
       /\ UNCHANGED <<failed, faulty, bits, held, missed, garbled, prev>>
    \/ /\ I2cFails
       /\ failed' = [failed EXCEPT ![t] = TRUE] /\ faulty' = TRUE
       /\ UNCHANGED <<lcdVars, missed, garbled, prev>>

Lower(t, n) ==
    \/ /\ Shows(n)
       /\ missed' = [missed EXCEPT ![t] = missed[t] \/ ~e]
       /\ UNCHANGED <<failed, faulty>>
    \/ /\ I2cFails
       /\ failed' = [failed EXCEPT ![t] = TRUE] /\ faulty' = TRUE
       /\ missed' = [missed EXCEPT ![t] = TRUE]
       /\ UNCHANGED <<lcdVars, garbled, prev>>

-----------------------------------------------------------------------------
(* The driver                                                              *)

(* backlight_apply: E and the data lines go low, as in the high nibble of  *)
(* a command; the result is ignored.                                       *)
Zero == [byte |-> "command", half |-> "hi", by |-> Boot]

Backlight ==
    /\ at[Boot] = "backlight" /\ at' = [at EXCEPT ![Boot] = "up"]
    /\ \/ Shows(Zero)
       \/ I2cFails /\ UNCHANGED <<lcdVars, garbled, prev>>
    /\ UNCHANGED <<op, k, failed, lock, ready, missed, faulty, resets>>

(* strobe: E is raised, then lowered, whether or not the first succeeded.  *)
StrobeUp(t) ==
    /\ at[t] = "up" /\ at' = [at EXCEPT ![t] = "down"]
    /\ Raise(t, Nibble(t))
    /\ UNCHANGED <<op, k, lock, ready, resets>>

(* Where a nibble ends: a lone nibble of hd44780_init or the low one of a  *)
(* byte, and the result is looked at; or the next nibble follows.          *)
Checked(t) == HalfOf(op[t], k[t]) = "lo" \/ (op[t].call = "init" /\ k[t] <= 4)

(* Variant: the loop over a text runs one character too far.               *)
AfterNibbleOneMore(t) ==
    IF Checked(t) /\ failed'[t]
    THEN IF op[t].call = "init" THEN "off"
         ELSE IF op[t].call = "write" THEN "idle" ELSE "return"
    ELSE IF k[t] > Length(op[t]) /\ Checked(t) THEN "return" ELSE "up"

(* fn_write returns at once from a failed character, the mutex still       *)
(* locked; the commands go on to their unlock.                             *)
AfterNibble(t) ==
    IF Checked(t) /\ failed'[t]
    THEN IF op[t].call = "init" THEN "off"
         ELSE IF op[t].call = "write" THEN "idle" ELSE "return"
    ELSE IF k[t] = Length(op[t]) THEN "return" ELSE "up"

StrobeDown(t) ==
    /\ at[t] = "down"
    /\ Lower(t, Nibble(t))
    /\ at' = [at EXCEPT ![t] = AfterNibble(t)]
    /\ k' = [k EXCEPT ![t] = IF AfterNibble(t) = "up" THEN k[t] + 1 ELSE k[t]]
    /\ leaked' = (leaked \/ (t # Boot /\ AfterNibble(t) = "idle"))
    /\ UNCHANGED <<op, owner, ready, resets>>

InitDone ==
    /\ at[Boot] = "return" /\ at' = [at EXCEPT ![Boot] = "off"]
    /\ ready' = TRUE /\ garbled' = FALSE
    /\ UNCHANGED <<op, k, failed, lock, lcdVars, missed, faulty, prev, resets>>

(* A call of the API; one with coordinates outside the panel returns       *)
(* before it does anything.                                                *)
Call(t) ==
    /\ ready /\ at[t] = "idle" /\ at' = [at EXCEPT ![t] = "lock"]
    /\ \E o \in Calls \ {InitCall} : op' = [op EXCEPT ![t] = o]
    /\ k' = [k EXCEPT ![t] = 1]
    /\ failed' = [failed EXCEPT ![t] = FALSE]
    /\ missed' = [missed EXCEPT ![t] = FALSE]
    /\ UNCHANGED <<lock, ready, lcdVars, faulty, garbled, prev, resets>>

(* Variant: a call that does not take the mutex.                           *)
LockMissing(t) ==
    /\ at[t] = "lock"
    /\ at' = [at EXCEPT ![t] = IF Length(op[t]) = 0 THEN "return" ELSE "up"]
    /\ UNCHANGED <<op, k, failed, lock, ready, lcdVars, history, resets>>

(* k_mutex_lock: its owner may lock it again.                              *)
Lock(t) ==
    /\ at[t] = "lock"
    /\ owner \subseteq {t} /\ owner' = {t}
    /\ at' = [at EXCEPT ![t] = IF Length(op[t]) = 0 THEN "return" ELSE "up"]
    /\ UNCHANGED <<op, k, failed, leaked, ready, lcdVars, history, resets>>

(* k_mutex_unlock undoes one lock; one that was left locked remains.       *)
Unlock(t) ==
    /\ at[t] = "return" /\ at' = [at EXCEPT ![t] = "idle"]
    /\ owner' = IF leaked THEN owner ELSE {}
    /\ UNCHANGED <<op, k, failed, leaked, ready, lcdVars, history, resets>>

(* The microcontroller is reset in the middle of anything; the expander    *)
(* and the controller keep their power.                                    *)
Reset ==
    /\ resets < MaxResets /\ resets' = resets + 1
    /\ at' = [t \in Threads |-> Booting(t)]
    /\ op' = [t \in Threads |-> InitCall] /\ k' = [t \in Threads |-> 1]
    /\ failed' = [t \in Threads |-> FALSE]
    /\ owner' = {} /\ leaked' = FALSE /\ ready' = FALSE
    /\ missed' = [t \in Threads |-> FALSE]
    /\ faulty' = FALSE /\ garbled' = FALSE
    /\ prev' = [by |-> Boot, nibble |-> 0]
    /\ UNCHANGED lcdVars

-----------------------------------------------------------------------------
Driver(t) == StrobeUp(t) \/ StrobeDown(t)
Caller(t) == Lock(t) \/ Unlock(t) \/ Driver(t)
Initialise == Backlight \/ Driver(Boot) \/ InitDone

(* Without a device that is ready the application has nothing to do.       *)
NotReady == at[Boot] = "off" /\ ~ready /\ UNCHANGED vars

Next == \/ Initialise \/ Reset \/ NotReady
        \/ \E t \in Callers : Call(t) \/ Caller(t)

Spec == Init /\ [][Next]_vars

(* The kernel runs every thread that is not waiting for the mutex, and     *)
(* hands the mutex over in the order of the waiting threads.               *)
FairSpec == /\ Spec /\ WF_vars(Initialise)
            /\ \A t \in Callers : WF_vars(Driver(t)) /\ WF_vars(Unlock(t))
                                  /\ SF_vars(Lock(t))

-----------------------------------------------------------------------------
Strobing(t) == at[t] \in {"up", "down"}

(* Initialisation ends, whatever state the controller was found in, with   *)
(* driver and controller in step: 4-bit mode, and the next nibble is a     *)
(* high one exactly when the driver sends a high one.  They stay in step   *)
(* until a write fails.                                                    *)
InStep ==
    ready /\ ~faulty =>
        /\ bits = 4
        /\ held = NoNibble <=> \A t \in Callers :
               Strobing(t) => HalfOf(op[t], k[t]) = "hi"

(* Once ready and until a write fails, every byte the controller puts      *)
(* together is a byte that was sent.                                       *)
WholeBytes == ready /\ ~faulty => ~garbled

(* The characters of one fn_write reach the display one after another,     *)
(* with no other caller's byte in between.                                 *)
TextContiguous ==
    \A t \in Callers :
        /\ ~faulty /\ at[t] = "up" /\ k[t] > 2 /\ HalfOf(op[t], k[t]) = "hi"
        => prev = [by |-> t, nibble |-> k[t] - 1]

(* A call reports success only if every nibble of it was latched.          *)
SuccessMeansLatched ==
    \A t \in Threads : at[t] = "return" /\ ~failed[t] => ~missed[t]

(* A call of the driver's API returns; the driver's comment allows calls   *)
(* from several contexts.                                                  *)
CallsReturn == \A t \in Callers : at[t] = "lock" ~> at[t] = "idle"

=============================================================================
