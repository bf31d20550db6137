--------------------------- MODULE LcdDriver_proof ---------------------------
(***************************************************************************)
(* Proofs about LcdDriver, for any number of callers, any length of texts, *)
(* any failures and any number of resets.                                  *)
(*                                                                         *)
(* The argument: one thread at a time is strobing (Exclusive), so what it  *)
(* raised is still on the pins when it lowers E (Raised).  From there the  *)
(* controller's state follows the driver's position nibble by nibble       *)
(* (Followed): three lone 3s leave it in 8-bit mode wherever they find it, *)
(* the lone 2 in 4-bit mode between two bytes, and every byte after that   *)
(* leaves it as it was.                                                    *)
(***************************************************************************)
EXTENDS LcdDriver, TLAPS

(* Where threads can be, and that a nibble being sent is one of the call.  *)
InCall ==
    /\ at[Boot] \in {"backlight", "up", "down", "return", "off"}
    /\ op[Boot] = InitCall
    /\ \A t \in Callers :
         /\ at[t] \in {"idle", "lock", "up", "down", "return"}
         /\ at[t] # "idle" => op[t] # InitCall
         /\ at[t] = "lock" => k[t] = 1
    /\ \A t \in Threads : Strobing(t) => k[t] \in 1 .. Length(op[t])
    /\ at[Boot] = "backlight" => k[Boot] = 1

(* Who sends has the mutex, except hd44780_init, which is alone.           *)
Exclusive ==
    /\ \A t \in Callers : at[t] \in {"up", "down", "return"} => owner = {t}
    /\ ready => at[Boot] = "off"
    /\ ~ready => \A t \in Callers : at[t] = "idle"

(* Failures of a call are seen by its thread, and none is forgotten before *)
(* a reset; what a thread has raised it finds raised.                      *)
Raised ==
    /\ \A t \in Threads : /\ missed[t] => failed[t]
                          /\ failed[t] => faulty
                          /\ at[t] = "down" /\ ~failed[t]
                                => e /\ pins = Nibble(t)

(* The controller is in 4-bit mode, and holds the high half of the byte    *)
(* whose low half t is about to send, or nothing.                          *)
Follows(t) ==
    /\ bits = 4
    /\ held = IF HalfOf(op[t], k[t]) = "hi" THEN NoNibble
              ELSE [Nibble(t) EXCEPT !.half = "hi"]

(* The high nibble of a function set to 8 bits, which hd44780_init sends   *)
(* three times.                                                            *)
WakeUp == [byte |-> "func8", half |-> "hi", by |-> Boot]

(* What hd44780_init has made of the controller before its nibble k.       *)
Synchronised ==
    Strobing(Boot) =>
        /\ k[Boot] = 2 => bits = 8 \/ held \in {NoNibble, WakeUp}
        /\ k[Boot] = 3 => bits = 8 \/ held = WakeUp
        /\ k[Boot] = 4 => bits = 8
        /\ k[Boot] >= 5 => Follows(Boot)

Followed ==
    ~faulty =>
        /\ Synchronised
        /\ at[Boot] = "return" \/ ready => bits = 4
        /\ at[Boot] = "return" => held = NoNibble
        /\ ready /\ (\A t \in Callers : ~Strobing(t)) => held = NoNibble
        /\ \A t \in Callers : Strobing(t) => Follows(t)

(* In 8-bit mode nothing is held back.                                     *)
WholeIn8 == bits = 8 => held = NoNibble

(* A thread that begins another character has sent the last byte.          *)
OneAfterAnother ==
    \A t \in Callers :
        /\ ~faulty /\ Strobing(t) /\ k[t] > 2 /\ HalfOf(op[t], k[t]) = "hi"
        => prev = [by |-> t, nibble |-> k[t] - 1]

LcdInv == /\ TypeOK /\ InCall /\ Exclusive /\ Raised /\ WholeIn8 /\ Followed
          /\ WholeBytes /\ OneAfterAnother

-----------------------------------------------------------------------------
(* Bytes, halves and nibbles                                               *)

(* A call is made of whole bytes, but for the four nibbles at the          *)
(* beginning of hd44780_init.                                              *)
LEMMA LengthOfCall ==
    ASSUME NEW o \in Calls
    PROVE  /\ Length(o) \in Nat /\ Length(o) % 2 = 0
           /\ o.call = "init" => Length(o) = 14 /\ o = InitCall
           /\ o # InitCall => o.call # "init"
<1>1. CASE o \in [call : {"write"}, chars : Texts]
  <2>1. o.call = "write" /\ o.chars \in Nat
    BY <1>1, BoundsAssumption DEF Texts
  <2>2. \A c \in Nat : 2 * c \in Nat /\ (2 * c) % 2 = 0
    OBVIOUS
  <2>3. QED
    BY <2>1, <2>2 DEF Length, InitCall
<1>2. CASE o \in [call : Commands \cup {"init"}, chars : {0}]
  BY <1>2 DEF Length, Commands, InitCall
<1>3. QED
  BY <1>1, <1>2 DEF Calls

(* The halves of a call's nibbles alternate; a low one belongs to the byte *)
(* whose high one came before it.                                          *)
LEMMA Halves ==
    ASSUME NEW o \in Calls, NEW i \in 1 .. Length(o)
    PROVE  /\ HalfOf(o, i) \in {"hi", "lo"}
           /\ HalfOf(o, i) = "lo" => /\ HalfOf(o, i + 1) = "hi"
                                     /\ i >= 2
           /\ HalfOf(o, i) = "hi" /\ (o # InitCall \/ i >= 5) =>
                  /\ i < Length(o)
                  /\ HalfOf(o, i + 1) = "lo"
                  /\ ByteOf(o, i + 1) = ByteOf(o, i)
           /\ o # InitCall => HalfOf(o, 1) = "hi"
<1>1. Length(o) \in Nat /\ Length(o) % 2 = 0
  BY LengthOfCall
<1>2. \A n \in Nat : /\ n % 2 \in {0, 1}
                     /\ n % 2 = 1 => (n + 1) % 2 = 0
                     /\ n % 2 = 0 => (n + 1) % 2 = 1
  OBVIOUS
<1>3. i \in Nat /\ i >= 1 /\ i <= Length(o) /\ i % 2 \in {0, 1}
  BY <1>1, <1>2
<1>4. CASE o.call = "init"
  <2>1. Length(o) = 14 /\ o = InitCall
    BY <1>4, LengthOfCall
  <2>2. i <= 14 /\ 14 % 2 = 0
    BY <1>3, <2>1
  <2>3. QED
    BY <1>2, <1>3, <1>4, <2>1, <2>2 DEF HalfOf, ByteOf
<1>5. CASE o.call # "init"
  BY <1>1, <1>2, <1>3, <1>5 DEF HalfOf, ByteOf, InitCall
<1>6. QED
  BY <1>4, <1>5

LEMMA NibbleIs ==
    ASSUME TypeOK, NEW t \in Threads
    PROVE  /\ Nibble(t) \in Nibbles
           /\ Nibble(t).by = t
           /\ Nibble(t).half = HalfOf(op[t], k[t])
           /\ Nibble(t).byte = ByteOf(op[t], k[t])
           /\ Nibble(t) # NoNibble
<1>1. /\ ByteOf(op[t], k[t]) \in {"char", "command", "func4", "func8"}
      /\ HalfOf(op[t], k[t]) \in {"hi", "lo"}
  BY DEF ByteOf, HalfOf
<1>2. QED
  BY <1>1 DEF Nibble, Nibbles, NoNibble

(* Whatever is latched, the controller stays in a state it can be in.      *)
LEMMA LatchIs ==
    ASSUME TypeOK, NEW n \in Nibbles, Latch(n)
    PROVE  /\ bits' \in {4, 8} /\ held' \in Nibbles \cup {NoNibble}
           /\ garbled' \in BOOLEAN
           /\ prev' \in [by : Threads, nibble : Nat]
           /\ WholeIn8'
<1>1. \A h \in Nibbles \cup {NoNibble} : Widths(h, n) \subseteq {4, 8}
  BY DEF Widths, TypeOK
<1>2. n.by \in Threads /\ k[n.by] \in Nat
  BY DEF Nibbles, TypeOK
<1>3. CASE bits = 4 /\ held = NoNibble
  BY <1>3 DEF Latch, TypeOK, WholeIn8
<1>4. CASE ~(bits = 4 /\ held = NoNibble)
  BY <1>1, <1>2, <1>4 DEF Latch, TypeOK, WholeIn8
<1>5. QED
  BY <1>3, <1>4

LEMMA ShowsIs ==
    ASSUME TypeOK, WholeIn8, NEW n \in Nibbles, Shows(n)
    PROVE  /\ bits' \in {4, 8} /\ held' \in Nibbles \cup {NoNibble}
           /\ garbled' \in BOOLEAN
           /\ prev' \in [by : Threads, nibble : Nat]
           /\ WholeIn8'
           /\ e' \in BOOLEAN /\ pins' \in Nibbles
<1>1. CASE e
  <2>1. PICK seen \in {pins, n} : Latch(seen)
    BY <1>1 DEF Shows
  <2>2. seen \in Nibbles
    BY DEF TypeOK
  <2>3. QED
    BY <2>1, <2>2, LatchIs DEF Shows
<1>2. CASE ~e
  BY <1>2 DEF Shows, TypeOK, WholeIn8
<1>3. QED
  BY <1>1, <1>2

-----------------------------------------------------------------------------
(* The steps                                                               *)

(* While one thread is strobing, no other is: the mutex keeps callers      *)
(* apart, and there are none before hd44780_init has returned.             *)
LEMMA OneStrobes ==
    ASSUME InCall, Exclusive, NEW t \in Threads, Strobing(t)
    PROVE  /\ \A u \in Threads : Strobing(u) => u = t
           /\ t = Boot => ~ready /\ \A u \in Callers : at[u] = "idle"
           /\ t # Boot => ready /\ t \in Callers
<1>1. CASE t = Boot
  BY <1>1, BootAssumption DEF Exclusive, Strobing, Threads
<1>2. CASE t # Boot
  <2>1. t \in Callers /\ owner = {t} /\ ready
    BY <1>2 DEF Exclusive, Strobing, Threads
  <2>2. QED
    BY <1>2, <2>1 DEF Exclusive, Strobing, Threads
<1>3. QED
  BY <1>1, <1>2

LEMMA InitStep == Init => LcdInv
<1> SUFFICES ASSUME Init PROVE LcdInv
  OBVIOUS
<1>1. /\ Boot \in Threads /\ Boot \notin Callers /\ InitCall \in Calls
      /\ 0 \in 0 .. MaxResets /\ [by |-> Boot, nibble |-> 0] \in [by : Threads, nibble : Nat]
      /\ [byte |-> "char", half |-> "lo", by |-> Boot] \in Nibbles
  BY BootAssumption, BoundsAssumption
     DEF Threads, InitCall, Calls, Nibbles
<1>2. TypeOK
  BY <1>1 DEF Init, TypeOK, Booting
<1>3. InCall
  BY <1>1 DEF Init, InCall, Booting, Strobing, Threads
<1>4. Exclusive /\ Raised /\ WholeIn8 /\ WholeBytes
  BY <1>1 DEF Init, Exclusive, Raised, WholeIn8, WholeBytes, Booting, Threads
<1>5. Followed /\ OneAfterAnother
  BY <1>1 DEF Init, Followed, Synchronised, OneAfterAnother, Strobing,
              Booting, Threads
<1>6. QED
  BY <1>2, <1>3, <1>4, <1>5 DEF LcdInv

LEMMA BacklightStep == LcdInv /\ Backlight => LcdInv'
<1> SUFFICES ASSUME LcdInv, Backlight PROVE LcdInv'
  OBVIOUS
<1>1. /\ Boot \in Threads /\ Boot \notin Callers /\ ~ready
      /\ \A t \in Callers : at[t] = "idle" /\ at'[t] = "idle"
      /\ at \in [Threads -> {"idle", "lock", "backlight", "up", "down",
                             "return", "off"}]
      /\ at' = [at EXCEPT ![Boot] = "up"] /\ k[Boot] = 1
      /\ UNCHANGED <<op, k, failed, lock, ready, missed, faulty, resets>>
  BY BootAssumption
     DEF LcdInv, TypeOK, InCall, Exclusive, Backlight, Threads
<1>2. /\ e' \in BOOLEAN /\ pins' \in Nibbles
      /\ bits' \in {4, 8} /\ held' \in Nibbles \cup {NoNibble}
      /\ garbled' \in BOOLEAN
      /\ prev' \in [by : Threads, nibble : Nat] /\ WholeIn8'
  <2>1. Zero \in Nibbles
    BY DEF Zero, Nibbles, Threads
  <2>2. CASE Shows(Zero)
    BY <2>1, <2>2, ShowsIs DEF LcdInv
  <2>3. CASE UNCHANGED <<lcdVars, garbled, prev>>
    BY <2>3 DEF LcdInv, TypeOK, WholeIn8, lcdVars
  <2>4. QED
    BY <2>2, <2>3 DEF Backlight
<1>3. TypeOK'
  BY <1>1, <1>2 DEF LcdInv, TypeOK, lock
<1>4. InCall'
  <2>1. Length(op[Boot]) = 14
    BY DEF LcdInv, InCall, InitCall, Length
  <2>2. QED
    BY <1>1, <2>1 DEF LcdInv, InCall, Strobing, Threads
<1>5. Exclusive' /\ Raised' /\ WholeBytes'
  BY <1>1 DEF LcdInv, TypeOK, Exclusive, Raised, WholeBytes, lock, Threads
<1>6. Followed' /\ OneAfterAnother'
  BY <1>1 DEF Followed, Synchronised, OneAfterAnother, Strobing
<1>7. QED
  BY <1>2, <1>3, <1>4, <1>5, <1>6 DEF LcdInv

LEMMA StrobeUpStep ==
    ASSUME LcdInv, NEW t \in Threads, StrobeUp(t) PROVE LcdInv'
<1>1. /\ at[t] = "up" /\ at' = [at EXCEPT ![t] = "down"]
      /\ UNCHANGED <<op, k, owner, leaked, ready, bits, held, missed,
                     garbled, prev, resets>>
      /\ \/ e' = TRUE /\ pins' = Nibble(t) /\ UNCHANGED <<failed, faulty>>
         \/ /\ failed' = [failed EXCEPT ![t] = TRUE] /\ faulty' = TRUE
            /\ UNCHANGED <<e, pins>>
  BY DEF StrobeUp, Raise, lock, lcdVars
<1>2. \A u \in Threads : /\ Strobing(u) => u = t
                         /\ Strobing(u)' <=> Strobing(u)
                         /\ u # t => at'[u] = at[u] /\ at[u] \notin {"up", "down"}
                         /\ Nibble(u)' = Nibble(u)
  <2>1. at \in [Threads -> {"idle", "lock", "backlight", "up", "down",
                            "return", "off"}]
    BY DEF LcdInv, TypeOK
  <2>2. Strobing(t)
    BY <1>1 DEF Strobing
  <2>3. QED
    BY <1>1, <2>1, <2>2, OneStrobes DEF LcdInv, Strobing, Nibble
<1>3. TypeOK'
  BY <1>1, NibbleIs DEF LcdInv, TypeOK
<1>4. at'[t] = "down" /\ Boot \in Threads /\ Callers \subseteq Threads
  BY <1>1 DEF LcdInv, TypeOK, Threads
<1>5. InCall' /\ Exclusive'
  BY <1>1, <1>2, <1>4 DEF LcdInv, InCall, Exclusive
<1>6. Raised'
  BY <1>1, <1>2, <1>4 DEF LcdInv, TypeOK, Raised
<1>7. WholeIn8' /\ WholeBytes' /\ OneAfterAnother'
  BY <1>1, <1>2, <1>4 DEF LcdInv, WholeIn8, WholeBytes, OneAfterAnother
<1>8. Followed'
  BY <1>1, <1>2, <1>4 DEF LcdInv, Followed, Synchronised, Follows
<1>9. QED
  BY <1>3, <1>5, <1>6, <1>7, <1>8 DEF LcdInv

(* The controller, following t, latches t's nibble: a high one is held, a  *)
(* low one completes a byte that was sent and leaves 4-bit mode as it is.  *)
LEMMA HighLatched ==
    ASSUME TypeOK, NEW t \in Threads, Follows(t), Latch(Nibble(t)),
           HalfOf(op[t], k[t]) = "hi"
    PROVE  bits' = 4 /\ held' = Nibble(t) /\ UNCHANGED <<garbled, prev>>
BY DEF Follows, Latch

LEMMA LowLatched ==
    ASSUME TypeOK, NEW t \in Threads, Follows(t), Latch(Nibble(t)),
           HalfOf(op[t], k[t]) = "lo"
    PROVE  /\ bits' = 4 /\ held' = NoNibble /\ garbled' = garbled
           /\ prev' = [by |-> t, nibble |-> k[t]]
<1> DEFINE n == Nibble(t)
           h == [n EXCEPT !.half = "hi"]
<1>1. /\ n.by = t /\ n.half = "lo" /\ n \in Nibbles
      /\ n.byte \in {"char", "command", "func4"}
  <2>1. /\ n.by = t /\ n.half = "lo" /\ n \in Nibbles
        /\ n.byte = ByteOf(op[t], k[t]) /\ k[t] \in Nat
    BY NibbleIs DEF TypeOK
  <2>2. ByteOf(op[t], k[t]) \in {"char", "command", "func4"}
    BY <2>1 DEF ByteOf, HalfOf
  <2>3. QED
    BY <2>1, <2>2
<1>2. /\ bits = 4 /\ held = h /\ h \in Nibbles /\ h # NoNibble
      /\ h.byte = n.byte /\ h.half = "hi" /\ h.by = t
  BY <1>1 DEF Follows, Nibbles, NoNibble
<1>3. n = [held EXCEPT !.half = "lo"]
  BY <1>1, <1>2 DEF Nibbles
<1>4. Widths(held, n) = {4}
  BY <1>1, <1>2 DEF Widths
<1>5. /\ held' = NoNibble /\ bits' \in Widths(held, n)
      /\ garbled' = (garbled \/ (ready /\ n # [held EXCEPT !.half = "lo"]))
      /\ prev' = [by |-> n.by, nibble |-> k[n.by]]
  BY <1>2 DEF Latch
<1>6. garbled \in BOOLEAN
  BY DEF TypeOK
<1>7. garbled' = garbled
  BY <1>3, <1>5, <1>6
<1>8. QED
  BY <1>1, <1>4, <1>5, <1>7

(* What hd44780_init's first four nibbles do, whatever they find.          *)
LEMMA WakeUpLatched ==
    ASSUME TypeOK, WholeIn8, Latch(Nibble(Boot)), op[Boot] = InitCall,
           k[Boot] \in 1 .. 4, Synchronised, Strobing(Boot)
    PROVE  /\ k[Boot] = 1 => bits' = 8 \/ held' \in {NoNibble, WakeUp}
           /\ k[Boot] = 2 => bits' = 8 \/ held' = WakeUp
           /\ k[Boot] = 3 => bits' = 8
           /\ k[Boot] = 4 => bits' = 4 /\ held' = NoNibble
<1>1. /\ k[Boot] <= 3 => Nibble(Boot) = WakeUp
      /\ k[Boot] = 4 => Nibble(Boot) = [byte |-> "func4", half |-> "hi",
                                        by |-> Boot]
  BY DEF Nibble, ByteOf, HalfOf, InitCall, WakeUp
<1>2. bits \in {4, 8} /\ WakeUp # NoNibble
  BY DEF TypeOK, WakeUp, NoNibble
<1>3. CASE k[Boot] = 1
  BY <1>1, <1>2, <1>3 DEF Latch
<1>4. CASE k[Boot] = 2
  BY <1>1, <1>2, <1>4 DEF Latch, Widths, WakeUp, Synchronised, WholeIn8
<1>5. CASE k[Boot] = 3
  BY <1>1, <1>2, <1>5 DEF Latch, Widths, WakeUp, Synchronised, WholeIn8
<1>6. CASE k[Boot] = 4
  BY <1>1, <1>6 DEF Latch, Widths, Synchronised
<1>7. QED
  BY <1>3, <1>4, <1>5, <1>6

(* A falling edge that succeeds in a call without failures is that of the  *)
(* nibble which the thread has raised.                                     *)
LEMMA EdgeLatches ==
    ASSUME TypeOK, Raised, NEW t \in Threads, at[t] = "down",
           Lower(t, Nibble(t)), ~faulty'
    PROVE  /\ Latch(Nibble(t)) /\ ~faulty /\ ~failed[t] /\ failed' = failed
           /\ AfterNibble(t) = IF k[t] = Length(op[t]) THEN "return" ELSE "up"
<1>1. Shows(Nibble(t)) /\ UNCHANGED <<failed, faulty>>
  BY DEF Lower
<1>2. ~failed[t] /\ e /\ pins = Nibble(t)
  BY <1>1 DEF Raised
<1>3. Latch(Nibble(t))
  BY <1>1, <1>2 DEF Shows
<1>4. QED
  BY <1>1, <1>2, <1>3 DEF AfterNibble

(* Where the thread and the others are after a falling edge.               *)
LEMMA StrobeDownMoves ==
    ASSUME LcdInv, NEW t \in Threads, StrobeDown(t)
    PROVE  /\ at[t] = "down" /\ Strobing(t)
           /\ at' = [at EXCEPT ![t] = AfterNibble(t)]
           /\ at'[t] = AfterNibble(t)
           /\ AfterNibble(t) \in IF t = Boot THEN {"up", "return", "off"}
                                 ELSE {"up", "return", "idle"}
           /\ k' = [k EXCEPT ![t] = IF AfterNibble(t) = "up" THEN k[t] + 1
                                                             ELSE k[t]]
           /\ k[t] \in 1 .. Length(op[t]) /\ Length(op[t]) \in Nat
           /\ AfterNibble(t) = "up" => /\ k[t] < Length(op[t])
                                       /\ k'[t] = k[t] + 1
           /\ UNCHANGED <<op, owner, ready, resets>>
           /\ \A u \in Threads \ {t} :
                 /\ at'[u] = at[u] /\ k'[u] = k[u] /\ ~Strobing(u)
                 /\ ~Strobing(u)'
<1>1. /\ at \in [Threads -> {"idle", "lock", "backlight", "up", "down",
                             "return", "off"}]
      /\ k \in [Threads -> Nat] /\ op[t] \in Calls
  BY DEF LcdInv, TypeOK
<1>2. at[t] = "down" /\ Strobing(t)
  BY DEF StrobeDown, Strobing
<1>3. k[t] \in 1 .. Length(op[t]) /\ Length(op[t]) \in Nat
  BY <1>1, <1>2, LengthOfCall DEF LcdInv, InCall
<1>4. /\ op[Boot].call = "init"
      /\ t # Boot => op[t].call # "init"
  <2>1. t # Boot => op[t] # InitCall
    BY <1>2 DEF LcdInv, InCall, Threads
  <2>2. QED
    BY <1>1, <2>1, LengthOfCall DEF LcdInv, InCall, InitCall
<1>5. /\ AfterNibble(t) \in IF t = Boot THEN {"up", "return", "off"}
                            ELSE {"up", "return", "idle"}
      /\ AfterNibble(t) = "up" => k[t] # Length(op[t])
  BY <1>4 DEF AfterNibble
<1>6. AfterNibble(t) = "up" => k[t] < Length(op[t])
  BY <1>3, <1>5
<1>7. \A u \in Threads \ {t} : ~Strobing(u)
  BY <1>2, OneStrobes DEF LcdInv
<1>8. QED
  BY <1>1, <1>2, <1>3, <1>5, <1>6, <1>7 DEF StrobeDown, lock, Strobing

(* What holds after a falling edge, failed or not.                         *)
LEMMA StrobeDownKeeps ==
    ASSUME LcdInv, NEW t \in Threads, StrobeDown(t)
    PROVE  TypeOK' /\ InCall' /\ Exclusive' /\ Raised' /\ WholeIn8'
<1>1. Lower(t, Nibble(t))
  BY DEF StrobeDown
<1>2. leaked' \in BOOLEAN
  BY DEF StrobeDown, LcdInv, TypeOK
<1>3. /\ bits' \in {4, 8} /\ held' \in Nibbles \cup {NoNibble}
      /\ garbled' \in BOOLEAN
      /\ prev' \in [by : Threads, nibble : Nat]
      /\ WholeIn8'
      /\ e' \in BOOLEAN /\ pins' \in Nibbles
  <2>1. CASE Shows(Nibble(t))
    BY <2>1, NibbleIs, ShowsIs DEF LcdInv
  <2>2. CASE UNCHANGED <<lcdVars, garbled, prev>>
    BY <2>2 DEF LcdInv, TypeOK, WholeIn8, lcdVars
  <2>3. QED
    BY <1>1, <2>1, <2>2 DEF Lower
<1>4. /\ failed' \in [Threads -> BOOLEAN] /\ missed' \in [Threads -> BOOLEAN]
      /\ faulty' \in BOOLEAN
  BY <1>1 DEF Lower, LcdInv, TypeOK
<1>5. /\ at' \in [Threads -> {"idle", "lock", "backlight", "up", "down",
                              "return", "off"}]
      /\ k' \in [Threads -> Nat]
      /\ \A u \in Threads : k'[u] = 1 \/ k'[u] \in 1 .. Length(op[u])
  <2>1. AfterNibble(t) \in {"idle", "up", "return", "off"}
    BY StrobeDownMoves
  <2>2. k'[t] \in 1 .. Length(op[t])
    BY StrobeDownMoves DEF LcdInv, TypeOK
  <2>3. QED
    BY <2>1, <2>2, StrobeDownMoves DEF LcdInv, TypeOK
<1>6. TypeOK'
  BY <1>2, <1>3, <1>4, <1>5, StrobeDownMoves DEF LcdInv, TypeOK
<1>7. InCall'
  <2>1. Strobing(t)' => k'[t] \in 1 .. Length(op[t])
    BY StrobeDownMoves DEF LcdInv, TypeOK, Strobing
  <2>2. \A u \in Threads : Strobing(u)' => k'[u] \in 1 .. Length(op[u])
    BY <2>1, StrobeDownMoves
  <2>3. Boot \in Threads /\ Callers \subseteq Threads
    BY DEF Threads
  <2>4. QED
    BY <2>2, <2>3, StrobeDownMoves, BootAssumption DEF LcdInv, InCall
<1>8. Exclusive'
  <2>1. Boot \in Threads /\ Callers \subseteq Threads
    BY DEF Threads
  <2>2. t = Boot => ~ready
    BY StrobeDownMoves, OneStrobes DEF LcdInv
  <2>3. t # Boot => ready /\ t \in Callers
    BY StrobeDownMoves, OneStrobes DEF LcdInv
  <2>4. QED
    BY <2>1, <2>2, <2>3, StrobeDownMoves, BootAssumption DEF LcdInv, Exclusive
<1>9. Raised'
  <2>1. \A u \in Threads : at'[u] # "down"
    BY StrobeDownMoves DEF Strobing
  <2>2. \A u \in Threads : failed'[u] => faulty'
    BY <1>1 DEF LcdInv, TypeOK, Raised, Lower
  <2>3. \A u \in Threads : missed'[u] => failed'[u]
    BY <1>1, StrobeDownMoves DEF LcdInv, TypeOK, Raised, Lower
  <2>4. QED
    BY <2>1, <2>2, <2>3 DEF Raised
<1>10. QED
  BY <1>3, <1>6, <1>7, <1>8, <1>9

(* A nibble latched while the controller follows its sender: afterwards it *)
(* follows the sender's next one, and after the last it holds nothing.     *)
LEMMA FollowsOn ==
    ASSUME LcdInv, NEW t \in Threads, StrobeDown(t), ~faulty',
           Follows(t), op[t] # InitCall \/ k[t] >= 5
    PROVE  /\ bits' = 4 /\ garbled' = garbled
           /\ at'[t] = "up" => Follows(t)'
           /\ at'[t] # "up" => at'[t] = "return" /\ held' = NoNibble
           /\ at'[t] = "up" /\ HalfOf(op[t], k'[t]) = "hi"
                 => prev' = [by |-> t, nibble |-> k[t]]
<1>1. /\ Latch(Nibble(t))
      /\ AfterNibble(t) = IF k[t] = Length(op[t]) THEN "return" ELSE "up"
  <2>1. at[t] = "down" /\ Lower(t, Nibble(t))
    BY DEF StrobeDown
  <2>2. QED
    BY <2>1, EdgeLatches DEF LcdInv
<1>2. /\ at'[t] = AfterNibble(t) /\ op' = op /\ op[t] \in Calls
      /\ k[t] \in 1 .. Length(op[t])
      /\ at'[t] = "up" => k'[t] = k[t] + 1
  BY StrobeDownMoves DEF LcdInv, TypeOK
<1>3. CASE HalfOf(op[t], k[t]) = "hi"
  <2>1. bits' = 4 /\ held' = Nibble(t) /\ garbled' = garbled
    BY <1>1, <1>3, HighLatched DEF LcdInv
  <2>2. /\ k[t] < Length(op[t]) /\ HalfOf(op[t], k[t] + 1) = "lo"
        /\ ByteOf(op[t], k[t] + 1) = ByteOf(op[t], k[t])
    BY <1>2, <1>3, Halves
  <2>3. at'[t] = "up" /\ k'[t] = k[t] + 1
    BY <1>1, <1>2, <2>2, LengthOfCall
  <2>4. /\ Nibble(t)' = [byte |-> ByteOf(op[t], k[t]), half |-> "lo",
                         by |-> t]
        /\ Nibble(t) = [byte |-> ByteOf(op[t], k[t]), half |-> "hi", by |-> t]
    BY <1>2, <1>3, <2>2, <2>3 DEF Nibble
  <2>5. held' = [Nibble(t)' EXCEPT !.half = "hi"]
    BY <2>1, <2>4
  <2>6. Follows(t)'
    BY <1>2, <2>1, <2>2, <2>3, <2>5 DEF Follows
  <2>7. QED
    BY <2>1, <2>2, <2>3, <2>6
<1>4. CASE HalfOf(op[t], k[t]) = "lo"
  <2>1. /\ bits' = 4 /\ held' = NoNibble /\ garbled' = garbled
        /\ prev' = [by |-> t, nibble |-> k[t]]
    BY <1>1, <1>4, LowLatched DEF LcdInv
  <2>2. HalfOf(op[t], k[t] + 1) = "hi"
    BY <1>2, <1>4, Halves
  <2>3. at'[t] = "up" => Follows(t)'
    BY <1>2, <2>1, <2>2 DEF Follows
  <2>4. QED
    BY <1>1, <1>2, <2>1, <2>3
<1>5. QED
  BY <1>2, <1>3, <1>4, Halves

LEMMA CallerDownStep ==
    ASSUME LcdInv, NEW t \in Threads \ {Boot}, StrobeDown(t) PROVE LcdInv'
<1>1. /\ ready /\ ready' /\ t \in Callers /\ op[t] # InitCall /\ t \in Threads
      /\ Strobing(t) /\ Boot \notin Callers /\ at[Boot] = "off"
      /\ at'[Boot] = "off" /\ at[t] = "down"
  BY StrobeDownMoves, OneStrobes, BootAssumption
     DEF LcdInv, InCall, Exclusive, Threads
<1>2. CASE faulty'
  BY <1>2, StrobeDownKeeps
     DEF LcdInv, Followed, WholeBytes, OneAfterAnother
<1>3. CASE ~faulty'
  <2>1. ~faulty
    BY <1>1, <1>3, EdgeLatches DEF LcdInv, StrobeDown
  <2>2. Follows(t) /\ ~garbled
    BY <1>1, <2>1 DEF LcdInv, Followed, WholeBytes
  <2>3. /\ bits' = 4 /\ garbled' = garbled
        /\ at'[t] = "up" => Follows(t)'
        /\ at'[t] # "up" => at'[t] = "return" /\ held' = NoNibble
        /\ at'[t] = "up" /\ HalfOf(op[t], k'[t]) = "hi"
              => prev' = [by |-> t, nibble |-> k[t]]
    BY <1>1, <1>3, <2>2, FollowsOn
  <2>4. \A u \in Callers : Strobing(u)' => u = t /\ at'[t] = "up"
    <3>1. Callers \subseteq Threads
      BY DEF Threads
    <3>2. \A u \in Callers : Strobing(u)' => u = t
      BY <3>1, StrobeDownMoves
    <3>3. at'[t] # "down"
      BY <1>1, StrobeDownMoves
    <3>4. QED
      BY <3>2, <3>3 DEF Strobing
  <2>5. Followed'
    <3>1. ~Strobing(Boot)'
      BY <1>1 DEF Strobing
    <3>2. (\A u \in Callers : ~Strobing(u)') => held' = NoNibble
      BY <1>1, <2>3, StrobeDownMoves DEF Strobing
    <3>3. \A u \in Callers : Strobing(u)' => Follows(u)'
      BY <2>3, <2>4
    <3>4. QED
      BY <1>1, <2>3, <3>1, <3>2, <3>3 DEF Followed, Synchronised
  <2>6. WholeBytes'
    BY <2>2, <2>3 DEF WholeBytes
  <2>7. OneAfterAnother'
    <3>1. at'[t] = "up" => k'[t] = k[t] + 1 /\ k[t] \in Nat /\ op' = op
      BY <1>1, StrobeDownMoves DEF LcdInv, TypeOK
    <3>2. at'[t] = "up" => k[t] = k'[t] - 1
      BY <3>1
    <3>3. QED
      BY <2>3, <2>4, <3>1, <3>2 DEF OneAfterAnother
  <2>8. QED
    BY <1>1, <2>5, <2>6, <2>7, StrobeDownKeeps DEF LcdInv
<1>4. QED
  BY <1>2, <1>3

LEMMA BootDownStep == ASSUME LcdInv, StrobeDown(Boot) PROVE LcdInv'
<1>1. /\ Boot \in Threads /\ ~ready /\ ~ready' /\ op[Boot] = InitCall
      /\ op' = op /\ Strobing(Boot) /\ at[Boot] = "down"
      /\ \A t \in Callers : ~Strobing(t)'
      /\ k[Boot] \in 1 .. 14 /\ Length(op[Boot]) = 14
  <2>1. Boot \in Threads /\ Callers \subseteq Threads \ {Boot}
    BY BootAssumption DEF Threads
  <2>2. op[Boot] = InitCall /\ Length(InitCall) = 14
    BY DEF LcdInv, InCall, InitCall, Length
  <2>3. ~ready
    BY <2>1, StrobeDownMoves, OneStrobes DEF LcdInv
  <2>4. QED
    BY <2>1, <2>2, <2>3, StrobeDownMoves
<1>2. WholeBytes' /\ OneAfterAnother'
  BY <1>1 DEF WholeBytes, OneAfterAnother
<1>3. Followed'
  <2>1. SUFFICES ASSUME ~faulty'
                 PROVE  /\ Synchronised'
                        /\ at'[Boot] = "return" => bits' = 4 /\ held' = NoNibble
    BY <1>1 DEF Followed
  <2>2. /\ Latch(Nibble(Boot)) /\ ~faulty
        /\ at'[Boot] = IF k[Boot] = 14 THEN "return" ELSE "up"
    <3>1. Lower(Boot, Nibble(Boot))
      BY DEF StrobeDown
    <3>2. QED
      BY <1>1, <2>1, <3>1, EdgeLatches, StrobeDownMoves DEF LcdInv
  <2>3. Synchronised
    BY <2>2 DEF LcdInv, Followed
  <2>4. at'[Boot] = "up" => k'[Boot] = k[Boot] + 1
    BY <1>1, StrobeDownMoves
  <2>5. CASE k[Boot] \in 1 .. 3
    <3>1. /\ k[Boot] = 1 => bits' = 8 \/ held' \in {NoNibble, WakeUp}
          /\ k[Boot] = 2 => bits' = 8 \/ held' = WakeUp
          /\ k[Boot] = 3 => bits' = 8
      BY <1>1, <2>2, <2>3, <2>5, WakeUpLatched DEF LcdInv
    <3>2. at'[Boot] = "up" /\ k'[Boot] = k[Boot] + 1
      BY <2>2, <2>4, <2>5
    <3>3. QED
      BY <2>5, <3>1, <3>2 DEF Synchronised
  <2>6. CASE k[Boot] = 4
    <3>1. bits' = 4 /\ held' = NoNibble
      BY <1>1, <2>2, <2>3, <2>6, WakeUpLatched DEF LcdInv
    <3>2. at'[Boot] = "up" /\ k'[Boot] = 5
      BY <2>2, <2>4, <2>6
    <3>3. HalfOf(op'[Boot], k'[Boot]) = "hi"
      BY <1>1, <3>2 DEF HalfOf, InitCall
    <3>4. Follows(Boot)'
      BY <3>1, <3>3 DEF Follows
    <3>5. QED
      BY <3>2, <3>4 DEF Synchronised
  <2>7. CASE k[Boot] >= 5
    <3>1. Follows(Boot)
      BY <1>1, <2>3, <2>7 DEF Synchronised
    <3>2. /\ bits' = 4
          /\ at'[Boot] = "up" => Follows(Boot)'
          /\ at'[Boot] # "up" => at'[Boot] = "return" /\ held' = NoNibble
      BY <1>1, <2>1, <2>7, <3>1, FollowsOn
    <3>3. at'[Boot] = "up" => k'[Boot] >= 6
      BY <1>1, <2>4, <2>7
    <3>4. QED
      BY <2>2, <3>2, <3>3 DEF Synchronised, Strobing
  <2>8. QED
    BY <1>1, <2>5, <2>6, <2>7
<1>4. QED
  BY <1>2, <1>3, StrobeDownKeeps, <1>1 DEF LcdInv

LEMMA InitDoneStep == LcdInv /\ InitDone => LcdInv'
<1> SUFFICES ASSUME LcdInv, InitDone PROVE LcdInv'
  OBVIOUS
<1>1. /\ Boot \in Threads /\ Boot \notin Callers /\ ~ready
      /\ at[Boot] = "return" /\ at' = [at EXCEPT ![Boot] = "off"]
      /\ at'[Boot] = "off" /\ ready' = TRUE /\ garbled' = FALSE
      /\ \A t \in Callers : at[t] = "idle" /\ at'[t] = "idle"
      /\ UNCHANGED <<op, k, failed, owner, leaked, e, pins, bits, held,
                     missed, faulty, prev, resets>>
  BY BootAssumption
     DEF LcdInv, TypeOK, Exclusive, InitDone, lock, lcdVars, Threads
<1>2. TypeOK' /\ WholeBytes' /\ WholeIn8'
  BY <1>1 DEF LcdInv, TypeOK, WholeBytes, WholeIn8
<1>3. InCall' /\ Exclusive' /\ Raised' /\ OneAfterAnother'
  BY <1>1 DEF LcdInv, InCall, Exclusive, Raised, OneAfterAnother, Strobing,
              Nibble, Threads
<1>4. Followed'
  BY <1>1 DEF LcdInv, Followed, Synchronised, Strobing
<1>5. QED
  BY <1>2, <1>3, <1>4 DEF LcdInv

(* A caller's steps that write nothing: what they leave alone is enough    *)
(* for the controller to be followed as before.                            *)
LEMMA QuietStep ==
    ASSUME LcdInv, NEW t \in Callers, NEW p \in {"idle", "lock", "return"},
           ready, ~Strobing(t), at' = [at EXCEPT ![t] = p],
           UNCHANGED <<ready, e, pins, bits, held, faulty, garbled, prev>>,
           \A u \in Threads \ {t} : /\ op'[u] = op[u] /\ k'[u] = k[u]
                                    /\ failed'[u] = failed[u]
                                    /\ missed'[u] = missed[u],
           failed'[t] => failed[t], missed'[t] => failed'[t]
    PROVE  Raised' /\ WholeIn8' /\ Followed' /\ WholeBytes' /\ OneAfterAnother'
<1>1. /\ t \in Threads /\ Boot \in Threads /\ t # Boot
      /\ Callers \subseteq Threads
      /\ at \in [Threads -> {"idle", "lock", "backlight", "up", "down",
                             "return", "off"}]
  BY BootAssumption DEF LcdInv, TypeOK, Threads
<1>2. at'[t] = p /\ \A u \in Threads \ {t} : at'[u] = at[u]
  BY <1>1
<1>3. \A u \in Threads : /\ Strobing(u)' <=> Strobing(u)
                         /\ Strobing(u) => u # t
  BY <1>2 DEF Strobing
<1>4. \A u \in Threads \ {t} : /\ Nibble(u)' = Nibble(u)
                               /\ Follows(u)' <=> Follows(u)
  BY DEF Nibble, Follows
<1>5. Raised'
  BY <1>1, <1>2, <1>4 DEF LcdInv, Raised
<1>6. WholeIn8' /\ WholeBytes'
  BY DEF LcdInv, WholeIn8, WholeBytes
<1>7. OneAfterAnother'
  BY <1>1, <1>3 DEF LcdInv, OneAfterAnother
<1>8. Synchronised' <=> Synchronised
  BY <1>1, <1>3, <1>4 DEF Synchronised
<1>9. Followed'
  BY <1>1, <1>2, <1>3, <1>4, <1>8 DEF LcdInv, Followed
<1>10. QED
  BY <1>5, <1>6, <1>7, <1>9

LEMMA CallStep == ASSUME LcdInv, NEW t \in Callers, Call(t) PROVE LcdInv'
<1>1. PICK o \in Calls \ {InitCall} : op' = [op EXCEPT ![t] = o]
  BY DEF Call
<1>2. /\ ready /\ at[t] = "idle" /\ at' = [at EXCEPT ![t] = "lock"]
      /\ k' = [k EXCEPT ![t] = 1]
      /\ failed' = [failed EXCEPT ![t] = FALSE]
      /\ missed' = [missed EXCEPT ![t] = FALSE]
      /\ UNCHANGED <<owner, leaked, ready, e, pins, bits, held, faulty,
                     garbled, prev, resets>>
  BY DEF Call, lock, lcdVars
<1>3. t \in Threads /\ Boot \in Threads /\ t # Boot /\ Callers \subseteq Threads
  BY BootAssumption DEF Threads
<1>4. TypeOK'
  BY <1>1, <1>2, <1>3 DEF LcdInv, TypeOK
<1>5. InCall'
  BY <1>1, <1>2, <1>3 DEF LcdInv, TypeOK, InCall, Strobing
<1>6. Exclusive'
  BY <1>2, <1>3 DEF LcdInv, TypeOK, Exclusive
<1>7. /\ ~Strobing(t) /\ ~failed'[t] /\ ~missed'[t]
      /\ \A u \in Threads \ {t} : /\ op'[u] = op[u] /\ k'[u] = k[u]
                                  /\ failed'[u] = failed[u]
                                  /\ missed'[u] = missed[u]
  BY <1>1, <1>2, <1>3 DEF LcdInv, TypeOK, Strobing
<1>8. Raised' /\ WholeIn8' /\ Followed' /\ WholeBytes' /\ OneAfterAnother'
  BY <1>2, <1>7, QuietStep
<1>9. QED
  BY <1>4, <1>5, <1>6, <1>8 DEF LcdInv

LEMMA UnlockStep == ASSUME LcdInv, NEW t \in Callers, Unlock(t) PROVE LcdInv'
<1>1. /\ at[t] = "return" /\ at' = [at EXCEPT ![t] = "idle"]
      /\ owner' = IF leaked THEN owner ELSE {}
      /\ UNCHANGED <<op, k, failed, leaked, ready, e, pins, bits, held, missed,
                     faulty, garbled, prev, resets>>
  BY DEF Unlock, lcdVars, history
<1>2. t \in Threads /\ Boot \in Threads /\ t # Boot /\ Callers \subseteq Threads
  BY BootAssumption DEF Threads
<1>3. ready /\ owner = {t} /\ ~Strobing(t)
  BY <1>1 DEF LcdInv, Exclusive, Strobing
<1>4. TypeOK'
  BY <1>1, <1>2 DEF LcdInv, TypeOK
<1>5. InCall'
  BY <1>1, <1>2 DEF LcdInv, TypeOK, InCall, Strobing
<1>6. Exclusive'
  BY <1>1, <1>2, <1>3 DEF LcdInv, TypeOK, Exclusive
<1>7. missed[t] => failed[t]
  BY <1>2 DEF LcdInv, Raised
<1>8. Raised' /\ WholeIn8' /\ Followed' /\ WholeBytes' /\ OneAfterAnother'
  BY <1>1, <1>3, <1>7, QuietStep
<1>9. QED
  BY <1>4, <1>5, <1>6, <1>8 DEF LcdInv

(* The bus passes to a caller, between two bytes.                          *)
LEMMA LockStep == ASSUME LcdInv, NEW t \in Callers, Lock(t) PROVE LcdInv'
<1>1. /\ at[t] = "lock" /\ owner \subseteq {t} /\ owner' = {t}
      /\ at' = [at EXCEPT ![t] = IF Length(op[t]) = 0 THEN "return" ELSE "up"]
      /\ UNCHANGED <<op, k, failed, leaked, ready, e, pins, bits, held, missed,
                     faulty, garbled, prev, resets>>
  BY DEF Lock, lcdVars, history
<1>2. t \in Threads /\ Boot \in Threads /\ t # Boot /\ Callers \subseteq Threads
  BY BootAssumption DEF Threads
<1>3. ready /\ at[Boot] = "off"
  BY <1>1 DEF LcdInv, Exclusive
<1>4. /\ op[t] \in Calls /\ op[t] # InitCall /\ Length(op[t]) \in Nat
      /\ k[t] = 1 \/ k[t] \in 1 .. Length(op[t])
      /\ k[t] \in Nat
  BY <1>1, <1>2, LengthOfCall DEF LcdInv, TypeOK, InCall
<1>5. \A u \in Callers : u # t => at[u] \notin {"up", "down", "return"}
  <2>1. SUFFICES ASSUME NEW u \in Callers, u # t,
                        at[u] \in {"up", "down", "return"}
                 PROVE  FALSE
    OBVIOUS
  <2>2. owner = {u}
    BY <2>1 DEF LcdInv, Exclusive
  <2>3. QED
    BY <1>1, <2>1, <2>2
<1>6. TypeOK'
  BY <1>1, <1>2 DEF LcdInv, TypeOK
<1>7. InCall'
  BY <1>1, <1>2, <1>4 DEF LcdInv, TypeOK, InCall, Strobing
<1>8. Exclusive'
  BY <1>1, <1>2, <1>3, <1>5 DEF LcdInv, TypeOK, Exclusive
<1>9. CASE Length(op[t]) = 0
  <2>1. ~Strobing(t)
    BY <1>1 DEF Strobing
  <2>2. missed[t] => failed[t]
    BY <1>2 DEF LcdInv, Raised
  <2>3. Raised' /\ WholeIn8' /\ Followed' /\ WholeBytes' /\ OneAfterAnother'
    BY <1>1, <1>3, <1>9, <2>1, <2>2, QuietStep
  <2>4. QED
    BY <1>6, <1>7, <1>8, <2>3 DEF LcdInv
<1>10. CASE Length(op[t]) # 0
  <2>1. /\ at'[t] = "up" /\ at' = [at EXCEPT ![t] = "up"]
        /\ \A u \in Threads \ {t} : at'[u] = at[u]
        /\ \A u \in Threads : Nibble(u)' = Nibble(u)
    BY <1>1, <1>2, <1>10 DEF LcdInv, TypeOK, Nibble
  <2>2. /\ k'[t] = 1 /\ HalfOf(op'[t], k'[t]) = "hi"
    <3>1. k[t] = 1 /\ 1 \in 1 .. Length(op[t])
      BY <1>1, <1>4, <1>10 DEF LcdInv, InCall
    <3>2. QED
      BY <1>1, <1>4, <3>1, Halves
  <2>3. \A u \in Callers : Strobing(u)' => u = t
    BY <1>2, <1>5, <2>1 DEF Strobing
  <2>4. \A u \in Callers : ~Strobing(u)
    BY <1>1, <1>5 DEF Strobing
  <2>5. Raised' /\ WholeIn8' /\ WholeBytes'
    BY <1>1, <1>2, <2>1 DEF LcdInv, Raised, WholeIn8, WholeBytes
  <2>6. OneAfterAnother'
    BY <2>2, <2>3 DEF OneAfterAnother
  <2>7. Followed'
    <3>1. ~faulty => bits = 4 /\ held = NoNibble
      BY <1>3, <2>4 DEF LcdInv, Followed
    <3>2. ~faulty => Follows(t)'
      BY <1>1, <2>2, <3>1 DEF Follows
    <3>3. at'[Boot] = "off" /\ Strobing(t)'
      BY <1>2, <1>3, <2>1 DEF Strobing
    <3>4. QED
      BY <1>1, <2>3, <3>1, <3>2, <3>3 DEF Followed, Synchronised, Strobing
  <2>8. QED
    BY <1>6, <1>7, <1>8, <2>5, <2>6, <2>7 DEF LcdInv
<1>11. QED
  BY <1>9, <1>10

(* A reset forgets all that the driver knew, and nothing of the controller *)
(* but what never changes.                                                 *)
LEMMA ResetStep == LcdInv /\ Reset => LcdInv'
<1> SUFFICES ASSUME LcdInv, Reset PROVE LcdInv'
  OBVIOUS
<1>1. /\ Boot \in Threads /\ Boot \notin Callers /\ InitCall \in Calls
      /\ Callers \subseteq Threads
      /\ [by |-> Boot, nibble |-> 0] \in [by : Threads, nibble : Nat]
      /\ resets' \in 0 .. MaxResets
  BY BootAssumption, BoundsAssumption
     DEF LcdInv, TypeOK, Reset, Threads, InitCall, Calls
<1>2. /\ \A t \in Threads : /\ at'[t] = Booting(t) /\ op'[t] = InitCall
                            /\ k'[t] = 1 /\ ~failed'[t] /\ ~missed'[t]
      /\ owner' = {} /\ ~ready' /\ UNCHANGED <<bits, held>>
  BY DEF Reset, lcdVars
<1>3. TypeOK'
  BY <1>1 DEF LcdInv, TypeOK, Reset, lcdVars, Booting
<1>4. \A t \in Threads : at'[t] = IF t = Boot THEN "backlight" ELSE "idle"
  BY <1>2 DEF Booting
<1>5. InCall' /\ Exclusive' /\ Raised'
  BY <1>1, <1>2, <1>4 DEF InCall, Exclusive, Raised, Strobing
<1>6. WholeIn8' /\ WholeBytes' /\ Followed' /\ OneAfterAnother'
  BY <1>1, <1>2, <1>4 DEF LcdInv, WholeIn8, WholeBytes, Followed,
                          Synchronised, OneAfterAnother, Strobing
<1>7. QED
  BY <1>3, <1>5, <1>6 DEF LcdInv

LEMMA StutterStep == LcdInv /\ UNCHANGED vars => LcdInv'
BY DEF LcdInv, vars, TypeOK, InCall, Exclusive, Raised, WholeIn8, WholeBytes,
       Followed, Synchronised, Follows, OneAfterAnother, Strobing, Nibble

-----------------------------------------------------------------------------
(* The driver's calls keep LcdInv.                                         *)
LEMMA NextStep == LcdInv /\ [Next]_vars => LcdInv'
<1> SUFFICES ASSUME LcdInv, [Next]_vars PROVE LcdInv'
  OBVIOUS
<1>1. Boot \in Threads /\ Callers \subseteq Threads \ {Boot}
  BY BootAssumption DEF Threads
<1>2. CASE Initialise
  BY <1>1, <1>2, BacklightStep, StrobeUpStep, BootDownStep, InitDoneStep
     DEF Initialise, Driver
<1>3. CASE Reset
  BY <1>3, ResetStep
<1>4. CASE NotReady
  BY <1>4, StutterStep DEF NotReady
<1>5. ASSUME NEW t \in Callers, Call(t) \/ Caller(t) PROVE LcdInv'
  BY <1>1, <1>5, CallStep, LockStep, UnlockStep, StrobeUpStep, CallerDownStep
     DEF Caller, Driver
<1>6. CASE UNCHANGED vars
  BY <1>6, StutterStep
<1>7. QED
  BY <1>2, <1>3, <1>4, <1>5, <1>6 DEF Next

(* The inductive invariant: the controller follows the driver nibble by    *)
(* nibble, for any number of callers, failures and resets.                 *)
THEOREM LcdCorrect == Spec => []LcdInv
BY InitStep, NextStep, PTL DEF Spec

(* Type correctness of driver, expander and controller.                    *)
THEOREM LcdTypeOK == Spec => []TypeOK
<1>1. LcdInv => TypeOK
  BY DEF LcdInv
<1>2. QED
  BY <1>1, LcdCorrect, PTL

(* Whatever state hd44780_init finds the controller in, it ends with both  *)
(* in step, and they stay so until an I2C write fails.                     *)
THEOREM LcdStaysInStep == Spec => []InStep
<1>1. LcdInv => InStep
  <2>1. SUFFICES ASSUME LcdInv, ready, ~faulty
                 PROVE  /\ bits = 4
                        /\ held = NoNibble <=> \A t \in Callers :
                               Strobing(t) => HalfOf(op[t], k[t]) = "hi"
    BY DEF InStep
  <2>2. /\ bits = 4 /\ \A t \in Callers : Strobing(t) => Follows(t)
        /\ (\A t \in Callers : ~Strobing(t)) => held = NoNibble
    BY <2>1 DEF LcdInv, Followed
  <2>3. ASSUME NEW t \in Callers, Strobing(t)
        PROVE  /\ held = NoNibble <=> HalfOf(op[t], k[t]) = "hi"
               /\ \A u \in Callers : Strobing(u) => u = t
    <3>1. t \in Threads /\ Callers \subseteq Threads
      BY DEF Threads
    <3>2. [Nibble(t) EXCEPT !.half = "hi"] # NoNibble
      BY <2>1, <3>1, NibbleIs DEF LcdInv, Nibbles, NoNibble
    <3>3. QED
      BY <2>1, <2>2, <2>3, <3>1, <3>2, OneStrobes DEF LcdInv, Follows
  <2>4. QED
    BY <2>2, <2>3
<1>2. QED
  BY <1>1, LcdCorrect, PTL

(* Every byte that the controller puts together is one that was sent.      *)
THEOREM LcdBytesAreWhole == Spec => []WholeBytes
<1>1. LcdInv => WholeBytes
  BY DEF LcdInv
<1>2. QED
  BY <1>1, LcdCorrect, PTL

(* No other caller's byte gets between the characters of one fn_write.     *)
THEOREM LcdTextIsContiguous == Spec => []TextContiguous
<1>1. LcdInv => TextContiguous
  BY DEF LcdInv, OneAfterAnother, TextContiguous, Strobing
<1>2. QED
  BY <1>1, LcdCorrect, PTL

(* A call without an error has had every nibble latched.                   *)
THEOREM LcdSuccessMeansLatched == Spec => []SuccessMeansLatched
<1>1. LcdInv => SuccessMeansLatched
  BY DEF LcdInv, Raised, SuccessMeansLatched
<1>2. QED
  BY <1>1, LcdCorrect, PTL
=============================================================================
