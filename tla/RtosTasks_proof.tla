--------------------------- MODULE RtosTasks_proof ---------------------------
(***************************************************************************)
(* Proofs about the two threading exercises, order_task and ping_pong.     *)
(*                                                                         *)
(* OrderTask, for any number of threads and any length of their arrays:    *)
(* the numbers come out in order whatever the scheduler does, no thread is *)
(* lost from the kernel's queues, and with the kernel's order among equal  *)
(* priorities nobody ever waits.  OrderInv is inductive: the mutex has one *)
(* owner inside, the turn counter follows the number printed, the queues   *)
(* share the threads out, and with fifo they are a round that rotates.     *)
(*                                                                         *)
(* PingPong, for any number of iterations: ping and pong alternate, and    *)
(* each line carries the number it should.                                 *)
(***************************************************************************)
EXTENDS OrderTask, PingPong, SequenceTheorems, TLAPS

Inside == {"test", "print", "signal", "unlock"}

(* Whoever is between k_mutex_lock and k_mutex_unlock owns the mutex.      *)
Held == \A t \in Threads : mutex = t <=> pc[t] \in Inside

(* The number printed last and the turn counter say the same, and a thread *)
(* that is about to print is the one whose turn it is.                     *)
TurnFollows ==
    /\ ready = printed % Count
    /\ \A t \in Threads : pc[t] = "print" => MyTurn(t)

Queues(p, q, r) ==
    /\ {p, q, r} \subseteq Seq(Threads)
    /\ IsInjective(p) /\ IsInjective(q) /\ IsInjective(r)
    /\ ToSet(p) \cap ToSet(q) = {}
    /\ ToSet(p) \cap ToSet(r) = {} /\ ToSet(q) \cap ToSet(r) = {}
    /\ ToSet(p) \cup ToSet(q) \cup ToSet(r) = Threads

(* Each thread is once in one of the three queues; inside, in runq.        *)
Queued ==
    /\ Queues(runq, waitq, sleepq)
    /\ \A t \in Threads : pc[t] \in Inside => t \in ToSet(runq)

Succ(t) == IF t = NumThreads - 1 THEN 0 ELSE t + 1

(* The threads in the order in which they come up, each after the one that *)
(* prints before it.                                                       *)
Round == runq \o sleepq

InRound(q) ==
    /\ Len(q) = NumThreads
    /\ \A i \in 1 .. NumThreads - 1 : q[i + 1] = Succ(q[i])
    /\ q[1] = Succ(q[NumThreads])

(* With fifo it is the turn of the first of the round, until it has        *)
(* printed, and only the first is ever inside.                             *)
RoundInv == fifo =>
    /\ waitq = <<>> /\ InRound(Round)
    /\ \A t \in Threads : pc[t] \in Inside => t = Round[1]
    /\ MyTurn(IF pc[Round[1]] \in {"signal", "unlock"} THEN Succ(Round[1])
                                                       ELSE Round[1])

OrderInv == TypeOK /\ Held /\ TurnFollows /\ Queued /\ RoundInv

-----------------------------------------------------------------------------
(* Arithmetic of the turn counter                                          *)

LEMMA CountNat == Count \in Nat \ {0} /\ NumThreads <= Count
<1>1. NumThreads * ArrayLen >= NumThreads * 1
  BY SizesAssumption
<1>2. QED
  BY <1>1, SizesAssumption DEF Count

LEMMA DivMod ==
    ASSUME NEW n \in Nat
    PROVE  /\ n \div NumThreads \in Nat /\ n % NumThreads \in Threads
           /\ n = NumThreads * (n \div NumThreads) + (n % NumThreads)
BY SizesAssumption DEF Threads

LEMMA ModUnique ==
    ASSUME NEW q \in Nat, NEW r \in Threads
    PROVE  (NumThreads * q + r) % NumThreads = r
BY SizesAssumption DEF Threads

LEMMA ModSucc ==
    ASSUME NEW n \in Nat
    PROVE  (n + 1) % NumThreads = Succ(n % NumThreads)
<1> DEFINE q == n \div NumThreads
           r == n % NumThreads
<1>1. q \in Nat /\ r \in Threads /\ n = NumThreads * q + r
  BY DivMod
<1>2. CASE r = NumThreads - 1
  <2>1. n + 1 = NumThreads * (q + 1) + 0
    BY <1>1, <1>2, SizesAssumption
  <2>2. 0 \in Threads /\ q + 1 \in Nat
    BY <1>1, SizesAssumption DEF Threads
  <2>3. QED
    BY <2>1, <2>2, <1>2, ModUnique DEF Succ
<1>3. CASE r # NumThreads - 1
  <2>1. r + 1 \in Threads /\ n + 1 = NumThreads * q + (r + 1)
    BY <1>1, <1>3, SizesAssumption DEF Threads
  <2>2. QED
    BY <1>1, <2>1, <1>3, ModUnique DEF Succ
<1>4. QED
  BY <1>2, <1>3

(* The turn counter passes the turn on, at the end of the round too.       *)
LEMMA NextTurn ==
    ASSUME NEW n \in 0 .. Count - 1
    PROVE  /\ (n + 1) % Count \in 0 .. Count - 1
           /\ ((n + 1) % Count) % NumThreads = Succ(n % NumThreads)
<1>1. CASE n = Count - 1
  <2>1. (n + 1) % Count = 0
    BY <1>1, CountNat
  <2>2. Count % NumThreads = 0
    <3>1. 0 \in Threads /\ Count = NumThreads * ArrayLen + 0
      BY SizesAssumption DEF Threads, Count
    <3>2. QED
      BY <3>1, ModUnique, SizesAssumption
  <2>3. 0 % NumThreads = 0
    BY SizesAssumption
  <2>4. (n + 1) % NumThreads = Succ(n % NumThreads)
    BY ModSucc, CountNat
  <2>5. QED
    BY <1>1, <2>1, <2>2, <2>3, <2>4, CountNat
<1>2. CASE n # Count - 1
  <2>1. (n + 1) % Count = n + 1 /\ n \in Nat
    BY <1>2, CountNat
  <2>2. QED
    BY <1>2, <2>1, ModSucc, CountNat
<1>3. QED
  BY <1>1, <1>2

-----------------------------------------------------------------------------
(* The queues                                                              *)

(* The queue without its k-th thread, place by place.                      *)
LEMMA WithoutPlaces ==
    ASSUME NEW S, NEW q \in Seq(S), IsInjective(q),
           NEW k \in 1 .. Len(q)
    PROVE  LET w == Without(q, q[k])
           IN  /\ w \in Seq(S) /\ Len(w) = Len(q) - 1
               /\ \A i \in 1 .. Len(w) : w[i] = IF i < k THEN q[i] ELSE q[i + 1]
<1> DEFINE w == Without(q, q[k])
           front == SubSeq(q, 1, k - 1)
           back == SubSeq(q, k + 1, Len(q))
<1>1. (CHOOSE i \in DOMAIN q : q[i] = q[k]) = k
  BY DEF IsInjective
<1>2. w = front \o back
  BY <1>1 DEF Without, RemoveAt
<1>3. /\ front \in Seq(S) /\ Len(front) = k - 1
      /\ \A i \in 1 .. k - 1 : front[i] = q[i]
  OBVIOUS
<1>4. /\ back \in Seq(S) /\ Len(back) = Len(q) - k
      /\ \A i \in 1 .. Len(q) - k : back[i] = q[i + k]
  OBVIOUS
<1> HIDE DEF w, front, back
<1>5. /\ w \in Seq(S) /\ Len(w) = Len(q) - 1
      /\ \A i \in 1 .. Len(w) : w[i] = IF i <= Len(front) THEN front[i]
                                       ELSE back[i - Len(front)]
  <2>1. /\ front \o back \in Seq(S)
        /\ Len(front \o back) = Len(front) + Len(back)
        /\ \A i \in 1 .. Len(front) + Len(back) :
               (front \o back)[i] = IF i <= Len(front) THEN front[i]
                                    ELSE back[i - Len(front)]
    BY <1>3, <1>4, ConcatProperties, ZenonT(30)
  <2>2. Len(front) + Len(back) = Len(q) - 1
    BY <1>3, <1>4
  <2>3. QED
    BY <1>2, <2>1, <2>2, Zenon
<1>6. ASSUME NEW i \in 1 .. Len(w)
      PROVE  w[i] = IF i < k THEN q[i] ELSE q[i + 1]
  <2>1. CASE i < k
    BY <1>3, <1>5, <2>1
  <2>2. CASE i >= k
    <3>1. w[i] = back[i - (k - 1)]
      BY <1>3, <1>5, <2>2 DEF w
    <3>2. i - (k - 1) \in 1 .. Len(q) - k
      BY <1>5, <2>2
    <3>3. QED
      BY <1>4, <2>2, <3>1, <3>2
  <2>3. QED
    BY <2>1, <2>2
<1>7. QED
  BY <1>5, <1>6 DEF w

LEMMA WithoutQueue ==
    ASSUME NEW S, NEW q \in Seq(S), IsInjective(q), NEW t \in ToSet(q)
    PROVE  /\ Without(q, t) \in Seq(S) /\ IsInjective(Without(q, t))
           /\ ToSet(Without(q, t)) = ToSet(q) \ {t}
<1> DEFINE w == Without(q, t)
<1>1. PICK k \in 1 .. Len(q) : q[k] = t
  BY DEF ToSet
<1>2. /\ w \in Seq(S) /\ Len(w) = Len(q) - 1
      /\ \A i \in 1 .. Len(w) : w[i] = IF i < k THEN q[i] ELSE q[i + 1]
  BY <1>1, WithoutPlaces
<1> HIDE DEF w
<1> DEFINE place(i) == IF i < k THEN i ELSE i + 1
<1>3. \A i \in 1 .. Len(w) : /\ place(i) \in 1 .. Len(q) \ {k}
                            /\ w[i] = q[place(i)]
  BY <1>2
<1>4. IsInjective(w)
  <2>1. ASSUME NEW a \in 1 .. Len(w), NEW b \in 1 .. Len(w), w[a] = w[b]
        PROVE  a = b
    <3>1. place(a) \in 1 .. Len(q) /\ place(b) \in 1 .. Len(q)
          /\ q[place(a)] = q[place(b)]
      BY <1>3, <2>1
    <3>2. place(a) = place(b)
      BY <3>1 DEF IsInjective
    <3>3. QED
      BY <3>2
  <2>2. DOMAIN w = 1 .. Len(w)
    BY <1>2
  <2>3. QED
    BY <2>1, <2>2 DEF IsInjective
<1>5. ToSet(w) \subseteq ToSet(q) \ {t}
  BY <1>1, <1>2, <1>3 DEF IsInjective, ToSet
<1>6. ASSUME NEW u \in ToSet(q) \ {t} PROVE u \in ToSet(w)
  <2>1. PICK j \in 1 .. Len(q) : q[j] = u
    BY DEF ToSet
  <2>2. CASE j < k
    BY <1>2, <2>1, <2>2 DEF ToSet
  <2>3. CASE j > k
    <3>1. j - 1 \in 1 .. Len(w) /\ w[j - 1] = u
      BY <1>2, <2>1, <2>3
    <3>2. QED
      BY <1>2, <3>1 DEF ToSet
  <2>4. QED
    BY <1>1, <2>1, <2>2, <2>3
<1>7. QED
  BY <1>2, <1>4, <1>5, <1>6 DEF w

LEMMA WithoutHead ==
    ASSUME NEW S, NEW q \in Seq(S), IsInjective(q), q # <<>>
    PROVE  Without(q, Head(q)) = Tail(q)
<1>1. 1 \in 1 .. Len(q) /\ Head(q) = q[1]
  OBVIOUS
<1>2. LET w == Without(q, Head(q))
      IN  /\ w \in Seq(S) /\ Len(w) = Len(q) - 1
          /\ \A i \in 1 .. Len(w) : w[i] = q[i + 1]
  BY <1>1, WithoutPlaces
<1>3. Tail(q) \in Seq(S) /\ Len(Tail(q)) = Len(q) - 1
      /\ \A i \in 1 .. Len(q) - 1 : Tail(q)[i] = q[i + 1]
  OBVIOUS
<1>4. QED
  BY <1>2, <1>3, SeqEqual

LEMMA AppendQueue ==
    ASSUME NEW S, NEW q \in Seq(S), IsInjective(q), NEW t \in S \ ToSet(q)
    PROVE  /\ Append(q, t) \in Seq(S) /\ IsInjective(Append(q, t))
           /\ ToSet(Append(q, t)) = ToSet(q) \cup {t}
<1>1. /\ Append(q, t) \in Seq(S) /\ Len(Append(q, t)) = Len(q) + 1
      /\ \A i \in 1 .. Len(q) : Append(q, t)[i] = q[i]
      /\ Append(q, t)[Len(q) + 1] = t
  OBVIOUS
<1>2. IsInjective(Append(q, t))
  BY <1>1 DEF IsInjective, ToSet
<1>3. ToSet(Append(q, t)) = ToSet(q) \cup {t}
  BY <1>1 DEF ToSet
<1>4. QED
  BY <1>1, <1>2, <1>3

LEMMA TailQueue ==
    ASSUME NEW S, NEW q \in Seq(S), IsInjective(q), q # <<>>
    PROVE  /\ Tail(q) \in Seq(S) /\ IsInjective(Tail(q))
           /\ ToSet(Tail(q)) = ToSet(q) \ {Head(q)} /\ Head(q) \in ToSet(q)
<1>1. Head(q) \in ToSet(q)
  BY DEF ToSet
<1>2. Tail(q) = Without(q, Head(q))
  BY WithoutHead
<1>3. LET w == Without(q, Head(q))
      IN  /\ w \in Seq(S) /\ IsInjective(w)
          /\ ToSet(w) = ToSet(q) \ {Head(q)}
  BY <1>1, WithoutQueue, Zenon
<1>4. QED
  BY <1>1, <1>2, <1>3, Zenon

LEMMA SwapQueues ==
    ASSUME NEW p, NEW q, NEW r, Queues(p, q, r)
    PROVE  Queues(q, p, r) /\ Queues(p, r, q)
BY DEF Queues

(* A thread changes from one queue to another.                             *)
LEMMA ChangeQueue ==
    ASSUME NEW p, NEW q, NEW r, Queues(p, q, r), NEW t \in ToSet(p)
    PROVE  Queues(Without(p, t), Append(q, t), r)
<1>1. p \in Seq(Threads) /\ q \in Seq(Threads) /\ r \in Seq(Threads)
  BY DEF Queues
<1>2. /\ IsInjective(p) /\ IsInjective(q) /\ IsInjective(r)
      /\ t \in Threads \ ToSet(q)
  BY DEF Queues
<1>3. /\ Without(p, t) \in Seq(Threads) /\ IsInjective(Without(p, t))
      /\ ToSet(Without(p, t)) = ToSet(p) \ {t}
  BY <1>1, <1>2, WithoutQueue
<1>4. /\ Append(q, t) \in Seq(Threads) /\ IsInjective(Append(q, t))
      /\ ToSet(Append(q, t)) = ToSet(q) \cup {t}
  BY <1>1, <1>2, AppendQueue
<1>5. QED
  BY <1>1, <1>2, <1>3, <1>4 DEF Queues

(* The first of the round goes to its end.                                 *)
LEMMA RotateRound ==
    ASSUME NEW p \in Seq(Threads), NEW q \in Seq(Threads), p # <<>>,
           InRound(p \o q)
    PROVE  LET rotated == Tail(p) \o Append(q, Head(p))
           IN  InRound(rotated) /\ rotated[1] = Succ(Head(p))
<1> DEFINE whole == p \o q
           rotated == Tail(p) \o Append(q, Head(p))
<1>1. /\ whole \in Seq(Threads) /\ Len(whole) = Len(p) + Len(q)
      /\ \A i \in 1 .. Len(p) + Len(q) :
             whole[i] = IF i <= Len(p) THEN p[i] ELSE q[i - Len(p)]
  BY ConcatProperties
<1>2. /\ Tail(p) \in Seq(Threads) /\ Len(Tail(p)) = Len(p) - 1
      /\ \A i \in 1 .. Len(p) - 1 : Tail(p)[i] = p[i + 1]
      /\ Head(p) \in Threads /\ Head(p) = p[1] /\ Len(p) >= 1
  OBVIOUS
<1> DEFINE back == Append(q, Head(p))
           front == Tail(p)
<1>3. /\ back \in Seq(Threads) /\ Len(back) = Len(q) + 1
      /\ \A i \in 1 .. Len(q) : back[i] = q[i]
      /\ back[Len(q) + 1] = Head(p)
  BY <1>2
<1>4. /\ rotated \in Seq(Threads) /\ Len(rotated) = Len(front) + Len(back)
      /\ \A i \in 1 .. Len(front) + Len(back) :
             rotated[i] = IF i <= Len(front) THEN front[i]
                          ELSE back[i - Len(front)]
  BY <1>2, <1>3, ConcatProperties
<1>5. front \in Seq(Threads) /\ Len(front) = Len(p) - 1
      /\ \A i \in 1 .. Len(p) - 1 : front[i] = p[i + 1]
  BY <1>2
<1> HIDE DEF whole, rotated, back, front
<1>6. Len(rotated) = NumThreads /\ Len(p) + Len(q) = NumThreads
  BY <1>1, <1>3, <1>4, <1>5 DEF InRound, whole
<1>7. \A i \in 1 .. NumThreads - 1 : rotated[i] = whole[i + 1]
  <2> SUFFICES ASSUME NEW i \in 1 .. NumThreads - 1
               PROVE  rotated[i] = whole[i + 1]
    OBVIOUS
  <2>1. CASE i <= Len(p) - 1
    <3>1. /\ i \in 1 .. Len(front) /\ i + 1 \in 1 .. Len(p)
          /\ i \in 1 .. Len(front) + Len(back)
          /\ i + 1 \in 1 .. Len(p) + Len(q)
      BY <1>2, <1>3, <1>5, <1>6, <2>1, SizesAssumption
    <3>2. rotated[i] = p[i + 1]
      BY <1>4, <1>5, <3>1
    <3>3. whole[i + 1] = p[i + 1]
      BY <1>1, <3>1
    <3>4. QED
      BY <3>2, <3>3
  <2>2. CASE i > Len(p) - 1
    <3>1. PICK j \in 1 .. Len(q) : i = Len(p) - 1 + j
      <4> DEFINE k == i - (Len(p) - 1)
      <4>1. k \in 1 .. Len(q) /\ i = Len(p) - 1 + k
        BY <1>2, <1>6, <2>2, SizesAssumption
      <4> HIDE DEF k
      <4>2. QED
        BY <4>1
    <3>2. /\ i \in 1 .. Len(front) + Len(back) /\ ~(i <= Len(front))
          /\ i - Len(front) = j
      BY <1>2, <1>3, <1>5, <1>6, <2>2, <3>1
    <3>3. rotated[i] = q[j]
      BY <1>3, <1>4, <3>2
    <3>4. /\ i + 1 \in 1 .. Len(p) + Len(q) /\ ~(i + 1 <= Len(p))
          /\ i + 1 - Len(p) = j
      BY <1>2, <1>6, <3>1, SizesAssumption
    <3>5. whole[i + 1] = q[j]
      BY <1>1, <3>4
    <3>6. QED
      BY <3>3, <3>5
  <2>3. QED
    BY <1>2, <2>1, <2>2
<1>8. rotated[NumThreads] = whole[1] /\ whole[1] = Head(p)
  BY <1>1, <1>2, <1>3, <1>4, <1>5, <1>6
<1>9. /\ \A i \in 1 .. NumThreads - 1 : whole[i + 1] = Succ(whole[i])
      /\ whole[1] = Succ(whole[NumThreads])
  BY DEF InRound, whole
<1>10. rotated[1] = Succ(whole[1])
  <2>1. CASE NumThreads = 1
    BY <1>8, <1>9, <2>1
  <2>2. CASE NumThreads # 1
    <3>1. 1 \in 1 .. NumThreads - 1 /\ 1 + 1 = 2
      BY <2>2, SizesAssumption
    <3>2. QED
      BY <1>7, <1>9, <3>1
  <2>3. QED
    BY <2>1, <2>2
<1>11. ASSUME NEW i \in 1 .. NumThreads - 1
       PROVE  rotated[i + 1] = Succ(rotated[i])
  <2>1. CASE i = NumThreads - 1
    BY <1>7, <1>8, <1>9, <2>1, SizesAssumption
  <2>2. CASE i # NumThreads - 1
    <3>1. i + 1 \in 1 .. NumThreads - 1
      BY <2>2, SizesAssumption
    <3>2. QED
      BY <1>7, <1>9, <3>1
  <2>3. QED
    BY <2>1, <2>2
<1>12. rotated[1] = Succ(rotated[NumThreads])
  BY <1>8, <1>10
<1>13. QED
  BY <1>6, <1>8, <1>10, <1>11, <1>12 DEF InRound, rotated, back, front

(* Who wakes first goes to the end of the ready queue: same round.         *)
LEMMA SameRound ==
    ASSUME NEW p \in Seq(Threads), NEW q \in Seq(Threads), q # <<>>
    PROVE  Append(p, Head(q)) \o Tail(q) = p \o q
OBVIOUS

-----------------------------------------------------------------------------
(* The threads                                                             *)

LEMMA RunsInRunq ==
    ASSUME Queued, NEW t \in Threads, Runs(t)
    PROVE  t \in ToSet(runq) /\ runq \in Seq(Threads) /\ runq # <<>>
<1>1. runq \in Seq(Threads)
  BY DEF Queued, Queues
<1>2. t \in ToSet(runq)
  BY <1>1 DEF Runs, ToSet
<1>3. QED
  BY <1>1, <1>2 DEF ToSet

LEMMA FirstRuns ==
    ASSUME Queued, NEW t \in Threads, Runs(t), fifo
    PROVE  Round[1] = t /\ Head(runq) = t
<1>1. /\ runq \in Seq(Threads) /\ runq # <<>> /\ sleepq \in Seq(Threads)
      /\ Head(runq) = t
  BY RunsInRunq DEF Queued, Queues, Runs
<1>2. QED
  BY <1>1 DEF Round

LEMMA OrderInit == Init => OrderInv
<1> SUFFICES ASSUME Init PROVE OrderInv
  OBVIOUS
<1>1. /\ runq \in Seq(Threads) /\ Len(runq) = NumThreads
      /\ \A i \in 1 .. NumThreads : runq[i] = i - 1
      /\ waitq = <<>> /\ sleepq = <<>>
  BY SizesAssumption DEF Init, Threads
<1>2. Round = runq
  BY <1>1 DEF Round
<1>3. TypeOK
  BY <1>1, SizesAssumption, CountNat DEF Init, TypeOK
<1>4. Held
  BY SizesAssumption DEF Init, Held, Inside, Nobody, Threads
<1>5. TurnFollows
  BY CountNat DEF Init, TurnFollows
<1>6. Queued
  <2>1. IsInjective(runq)
    BY <1>1 DEF IsInjective
  <2>2. ToSet(runq) = Threads
    <3>1. ASSUME NEW t \in Threads PROVE t \in ToSet(runq)
      <4>1. t + 1 \in 1 .. NumThreads /\ runq[t + 1] = t
        BY <1>1, SizesAssumption DEF Threads
      <4>2. QED
        BY <1>1, <4>1 DEF ToSet
    <3>2. ToSet(runq) \subseteq Threads
      BY <1>1 DEF ToSet
    <3>3. QED
      BY <3>1, <3>2
  <2>3. <<>> \in Seq(Threads) /\ IsInjective(<<>>) /\ ToSet(<<>>) = {}
    BY DEF IsInjective, ToSet
  <2>4. QED
    BY <1>1, <2>1, <2>2, <2>3 DEF Queued, Queues, Init, Inside
<1>7. RoundInv
  <2>1. InRound(runq)
    BY <1>1, SizesAssumption DEF InRound, Succ
  <2>2. MyTurn(0) /\ 0 \in Threads /\ runq[1] = 0
    BY <1>1, SizesAssumption DEF MyTurn, Init, Threads
  <2>3. QED
    BY <1>1, <1>2, <2>1, <2>2 DEF RoundInv, Init, Inside
<1>8. QED
  BY <1>3, <1>4, <1>5, <1>6, <1>7 DEF OrderInv

(* The mutex, the turn and the queues, one call of the kernel at a time.   *)
LEMMA LockOrder ==
    ASSUME OrderInv, NEW t \in Threads, Lock(t), fifo' = fifo PROVE OrderInv'
<1> USE DEF OrderInv
<1>1. /\ Runs(t) /\ pc[t] = "lock" /\ pc' = [pc EXCEPT ![t] = "test"]
      /\ mutex = Nobody /\ mutex' = t
      /\ UNCHANGED <<ready, runq, waitq, sleepq, printed, fifo>>
  BY DEF Lock, Moves
<1>2. pc \in [Threads -> {"lock", "test", "print", "signal", "unlock"}]
  BY DEF TypeOK
<1>3. \A u \in Threads : mutex # u
  BY <1>1, SizesAssumption DEF Nobody, Threads
<1>4. TypeOK'
  BY <1>1, <1>2 DEF TypeOK
<1>5. Held'
  BY <1>1, <1>2, <1>3 DEF Held, Inside
<1>6. TurnFollows'
  BY <1>1, <1>2 DEF TurnFollows, MyTurn
<1>7. t \in ToSet(runq)
  BY <1>1, RunsInRunq
<1>8. Queued'
  BY <1>1, <1>2, <1>7 DEF Queued, Inside
<1>9. RoundInv'
  <2> SUFFICES ASSUME fifo PROVE RoundInv'
    BY <1>1 DEF RoundInv
  <2>1. Round[1] = t /\ Round' = Round
    BY <1>1, FirstRuns DEF Round
  <2>2. MyTurn(t) /\ waitq = <<>> /\ InRound(Round)
    BY <1>1, <2>1 DEF RoundInv
  <2>3. \A u \in Threads : pc'[u] \in Inside => u = t
    BY <1>1, <1>2, <1>3 DEF Held
  <2>4. InRound(Round)' /\ MyTurn(t)'
    BY <1>1, <2>1, <2>2 DEF InRound, MyTurn
  <2>5. QED
    BY <1>1, <1>2, <2>1, <2>2, <2>3, <2>4 DEF RoundInv
<1>10. QED
  BY <1>4, <1>5, <1>6, <1>8, <1>9

(* One's own turn, or to the end of the queue of the condition variable.   *)
LEMMA TestOrder ==
    ASSUME OrderInv, NEW t \in Threads, Test(t), fifo' = fifo PROVE OrderInv'
<1> USE DEF OrderInv
<1>1. /\ Runs(t) /\ pc[t] = "test"
      /\ pc \in [Threads -> {"lock", "test", "print", "signal", "unlock"}]
      /\ UNCHANGED <<ready, sleepq, printed, fifo>>
  BY DEF Test, Moves, TypeOK
<1>2. t \in ToSet(runq)
  BY <1>1, RunsInRunq
<1>3. fifo => Round[1] = t /\ MyTurn(t)
  BY <1>1, FirstRuns DEF RoundInv
<1>4. CASE /\ MyTurn(t) /\ pc' = [pc EXCEPT ![t] = "print"]
           /\ UNCHANGED <<mutex, runq, waitq>>
  <2>1. TypeOK'
    BY <1>1, <1>4 DEF TypeOK
  <2>2. Held'
    BY <1>1, <1>4 DEF Held, Inside
  <2>3. TurnFollows'
    BY <1>1, <1>4 DEF TurnFollows, MyTurn
  <2>4. Queued'
    BY <1>1, <1>2, <1>4 DEF Queued, Inside
  <2>5. RoundInv'
    <3> SUFFICES ASSUME fifo PROVE RoundInv'
      BY <1>1 DEF RoundInv
    <3>1. Round' = Round /\ InRound(Round) /\ waitq = <<>>
      BY <1>1, <1>4 DEF Round, RoundInv
    <3>2. \A u \in Threads : pc'[u] \in Inside => u = t
      BY <1>1, <1>3, <1>4 DEF RoundInv, Inside
    <3>3. InRound(Round)' /\ MyTurn(t)'
      BY <1>1, <1>3, <3>1 DEF InRound, MyTurn
    <3>4. QED
      BY <1>1, <1>3, <1>4, <3>1, <3>2, <3>3 DEF RoundInv
  <2>6. QED
    BY <2>1, <2>2, <2>3, <2>4, <2>5
<1>5. CASE /\ ~MyTurn(t) /\ pc' = [pc EXCEPT ![t] = "lock"]
           /\ mutex' = Nobody
           /\ runq' = Without(runq, t) /\ waitq' = Append(waitq, t)
  <2>1. Queues(runq', waitq', sleepq') /\ ToSet(runq') = ToSet(runq) \ {t}
    <3>1. Queues(runq', waitq', sleepq)
      BY <1>2, <1>5, ChangeQueue DEF Queued
    <3>2. ToSet(Without(runq, t)) = ToSet(runq) \ {t}
      BY <1>2, WithoutQueue DEF Queued, Queues
    <3>3. QED
      BY <1>1, <1>5, <3>1, <3>2
  <2>2. TypeOK'
    BY <1>1, <1>5, <2>1 DEF TypeOK, Queues
  <2>3. mutex = t
    BY <1>1 DEF Held, Inside
  <2>4. \A u \in Threads : pc'[u] = "lock"
    <3>1. \A u \in Threads : u # t => pc[u] \notin Inside
      BY <2>3 DEF Held
    <3>2. QED
      BY <1>1, <1>5, <3>1 DEF Inside
  <2>5. Held' /\ TurnFollows' /\ Queued'
    BY <1>1, <1>5, <2>1, <2>4, SizesAssumption
       DEF Held, TurnFollows, Queued, Inside, Nobody, Threads
  <2>6. QED
    BY <1>1, <1>3, <1>5, <2>2, <2>5 DEF RoundInv
<1>6. QED
  BY <1>4, <1>5 DEF Test, Moves

(* The turn passes on, and the number printed is the turn, counted from 1. *)
LEMMA PrintsTheTurn ==
    ASSUME OrderInv, NEW t \in Threads, PrintNumber(t)
    PROVE  /\ printed' = ready + 1 /\ ready = printed % Count
           /\ ready' = printed' % Count /\ ready' \in 0 .. Count - 1
           /\ ready' % NumThreads = Succ(t) /\ ready + 1 \in 0 .. Count
<1>1. ready \in 0 .. Count - 1 /\ ready \in Nat /\ ready = printed % Count
  BY CountNat DEF OrderInv, TypeOK, TurnFollows
<1>2. ready % NumThreads = t
  BY DEF PrintNumber, Moves, OrderInv, TurnFollows, MyTurn
<1>3. ready = NumThreads * (ready \div NumThreads) + t
  BY <1>1, <1>2, DivMod
<1>4. printed' = ready + 1
  BY <1>1, <1>3, DivMod, SizesAssumption DEF PrintNumber, Element, Threads
<1>5. ready' = (ready + 1) % Count
  BY DEF PrintNumber
<1>6. QED
  BY <1>1, <1>2, <1>4, <1>5, NextTurn, CountNat

LEMMA PrintOrder ==
    ASSUME OrderInv, NEW t \in Threads, PrintNumber(t), fifo' = fifo
    PROVE  OrderInv'
<1> USE DEF OrderInv
<1>1. /\ Runs(t) /\ pc[t] = "print" /\ pc' = [pc EXCEPT ![t] = "signal"]
      /\ pc \in [Threads -> {"lock", "test", "print", "signal", "unlock"}]
      /\ UNCHANGED <<mutex, runq, waitq, sleepq, fifo>>
  BY DEF PrintNumber, Moves, TypeOK
<1>2. TypeOK'
  BY <1>1, PrintsTheTurn DEF TypeOK
<1>3. Held'
  BY <1>1 DEF Held, Inside
<1>4. \A u \in Threads : pc[u] \in Inside => u = t
  BY <1>1 DEF Held, Inside
<1>5. TurnFollows'
  BY <1>1, <1>4, PrintsTheTurn DEF TurnFollows, Inside
<1>6. t \in ToSet(runq)
  BY <1>1, RunsInRunq
<1>7. Queued'
  BY <1>1, <1>6 DEF Queued, Inside
<1>8. RoundInv'
  <2> SUFFICES ASSUME fifo PROVE RoundInv'
    BY <1>1 DEF RoundInv
  <2>1. Round[1] = t /\ Round' = Round /\ InRound(Round) /\ waitq = <<>>
    BY <1>1, FirstRuns DEF Round, RoundInv
  <2>2. InRound(Round)' /\ MyTurn(Succ(t))'
    BY <1>1, <2>1, PrintsTheTurn DEF InRound, MyTurn
  <2>3. QED
    BY <1>1, <1>4, <2>1, <2>2 DEF RoundInv, Inside
<1>9. QED
  BY <1>2, <1>3, <1>5, <1>7, <1>8

(* With fifo nobody is there to be woken.                                  *)
LEMMA SignalOrder ==
    ASSUME OrderInv, NEW t \in Threads, Signal(t), fifo' = fifo PROVE OrderInv'
<1> USE DEF OrderInv
<1>1. /\ Runs(t) /\ pc[t] = "signal" /\ pc' = [pc EXCEPT ![t] = "unlock"]
      /\ pc \in [Threads -> {"lock", "test", "print", "signal", "unlock"}]
      /\ UNCHANGED <<ready, mutex, sleepq, printed, fifo>>
  BY DEF Signal, Moves, TypeOK
<1>2. /\ Queues(runq', waitq', sleepq) /\ ToSet(runq) \subseteq ToSet(runq')
      /\ waitq = <<>> => UNCHANGED <<runq, waitq>>
  <2>1. CASE waitq = <<>>
    BY <2>1 DEF Signal, Queued
  <2>2. CASE waitq # <<>>
    <3>1. waitq \in Seq(Threads) /\ IsInjective(waitq)
          /\ runq \in Seq(Threads) /\ IsInjective(runq)
      BY DEF Queued, Queues
    <3>2. Head(waitq) \in ToSet(waitq) /\ Tail(waitq) = Without(waitq, Head(waitq))
      BY <2>2, <3>1, WithoutHead, TailQueue
    <3>3. /\ runq' = Append(runq, Head(waitq))
          /\ waitq' = Without(waitq, Head(waitq))
      BY <2>2, <3>2 DEF Signal
    <3>4. Queues(Without(waitq, Head(waitq)), Append(runq, Head(waitq)), sleepq)
      BY <3>2, SwapQueues, ChangeQueue DEF Queued
    <3>5. Queues(runq', waitq', sleepq)
      BY <3>3, <3>4, SwapQueues
    <3>6. Head(waitq) \in Threads \ ToSet(runq)
      BY <3>2 DEF Queued, Queues
    <3>7. ToSet(Append(runq, Head(waitq))) = ToSet(runq) \cup {Head(waitq)}
      BY <3>1, <3>6, AppendQueue
    <3>8. QED
      BY <2>2, <3>3, <3>5, <3>7
  <2>3. QED
    BY <2>1, <2>2
<1>3. TypeOK'
  BY <1>1, <1>2 DEF TypeOK, Queues
<1>4. Held' /\ TurnFollows'
  BY <1>1 DEF Held, TurnFollows, MyTurn, Inside
<1>5. t \in ToSet(runq)
  BY <1>1, RunsInRunq
<1>6. Queued'
  BY <1>1, <1>2, <1>5 DEF Queued, Inside
<1>7. RoundInv'
  <2> SUFFICES ASSUME fifo PROVE RoundInv'
    BY <1>1 DEF RoundInv
  <2>1. /\ Round[1] = t /\ InRound(Round) /\ waitq = <<>>
        /\ MyTurn(Succ(t)) /\ UNCHANGED <<runq, waitq>>
    BY <1>1, <1>2, FirstRuns DEF RoundInv
  <2>2. Round' = Round
    BY <1>1, <2>1 DEF Round
  <2>3. InRound(Round)' /\ MyTurn(Succ(t))'
    BY <1>1, <2>1, <2>2 DEF InRound, MyTurn
  <2>4. \A u \in Threads : pc'[u] \in Inside => u = t
    BY <1>1 DEF Held, Inside
  <2>5. QED
    BY <1>1, <2>1, <2>2, <2>3, <2>4 DEF RoundInv
<1>8. QED
  BY <1>3, <1>4, <1>6, <1>7

(* The thread goes to the end of the round, and the next one is first.     *)
LEMMA UnlockOrder ==
    ASSUME OrderInv, NEW t \in Threads, UnlockAndSleep(t), fifo' = fifo
    PROVE  OrderInv'
<1> USE DEF OrderInv
<1>1. /\ Runs(t) /\ pc[t] = "unlock" /\ pc' = [pc EXCEPT ![t] = "lock"]
      /\ pc \in [Threads -> {"lock", "test", "print", "signal", "unlock"}]
      /\ mutex' = Nobody
      /\ runq' = Without(runq, t) /\ sleepq' = Append(sleepq, t)
      /\ UNCHANGED <<ready, waitq, printed, fifo>>
  BY DEF UnlockAndSleep, Moves, TypeOK
<1>2. t \in ToSet(runq)
  BY <1>1, RunsInRunq
<1>3. Queues(runq', waitq', sleepq')
  <2>1. Queues(Without(runq, t), Append(sleepq, t), waitq)
    BY <1>2, SwapQueues, ChangeQueue DEF Queued
  <2>2. QED
    BY <1>1, <2>1, SwapQueues
<1>4. \A u \in Threads : pc'[u] = "lock"
  <2>1. \A u \in Threads : u # t => pc[u] \notin Inside
    BY <1>1 DEF Held, Inside
  <2>2. QED
    BY <1>1, <2>1 DEF Inside
<1>5. TypeOK'
  BY <1>1, <1>3 DEF TypeOK, Queues
<1>6. Held' /\ TurnFollows' /\ Queued'
  BY <1>1, <1>3, <1>4, SizesAssumption
     DEF Held, TurnFollows, Queued, Inside, Nobody, Threads
<1>7. RoundInv'
  <2> SUFFICES ASSUME fifo PROVE RoundInv'
    BY <1>1 DEF RoundInv
  <2>1. /\ Round[1] = t /\ Head(runq) = t /\ InRound(Round)
        /\ waitq = <<>> /\ MyTurn(Succ(t))
    BY <1>1, FirstRuns DEF RoundInv
  <2>2. /\ runq \in Seq(Threads) /\ runq # <<>> /\ IsInjective(runq)
        /\ sleepq \in Seq(Threads)
    BY <1>1, RunsInRunq DEF Queued, Queues
  <2>3. runq' = Tail(runq)
    BY <1>1, <2>1, <2>2, WithoutHead
  <2>4. Round' = Tail(runq) \o Append(sleepq, Head(runq))
    BY <1>1, <2>1, <2>3 DEF Round
  <2>5. InRound(Round') /\ Round'[1] = Succ(t)
    BY <2>1, <2>2, <2>4, RotateRound DEF Round
  <2>6. InRound(Round)' /\ MyTurn(Succ(t))'
    BY <1>1, <2>1, <2>5 DEF InRound, MyTurn
  <2>7. Succ(t) \in Threads
    BY SizesAssumption DEF Succ, Threads
  <2>8. QED
    BY <1>1, <1>4, <2>1, <2>5, <2>6, <2>7 DEF RoundInv, Inside
<1>8. QED
  BY <1>5, <1>6, <1>7

(* A sleep that ends leaves the round as it is.                            *)
LEMMA WakeOrder ==
    ASSUME OrderInv, NEW t \in Threads, Wake(t), fifo' = fifo PROVE OrderInv'
<1> USE DEF OrderInv
<1>1. /\ sleepq' = Without(sleepq, t) /\ runq' = Append(runq, t)
      /\ UNCHANGED <<ready, pc, mutex, waitq, printed, fifo>>
  BY DEF Wake
<1>2. /\ sleepq \in Seq(Threads) /\ IsInjective(sleepq)
      /\ runq \in Seq(Threads) /\ IsInjective(runq)
  BY DEF Queued, Queues
<1>3. t \in ToSet(sleepq)
  BY <1>2 DEF Wake, ToSet
<1>4. Queues(runq', waitq', sleepq') /\ ToSet(runq) \subseteq ToSet(runq')
  <2>1. Queues(Without(sleepq, t), Append(runq, t), waitq)
    BY <1>3, SwapQueues, ChangeQueue DEF Queued
  <2>2. Queues(Append(runq, t), waitq, Without(sleepq, t))
    BY <2>1, SwapQueues
  <2>3. t \in Threads \ ToSet(runq)
    BY <1>3 DEF Queued, Queues
  <2>4. ToSet(Append(runq, t)) = ToSet(runq) \cup {t}
    BY <1>2, <2>3, AppendQueue
  <2>5. QED
    BY <1>1, <2>2, <2>4
<1>5. TypeOK'
  BY <1>1, <1>4 DEF TypeOK, Queues
<1>6. Held' /\ TurnFollows' /\ Queued'
  BY <1>1, <1>4 DEF Held, TurnFollows, MyTurn, Queued
<1>7. RoundInv'
  <2> SUFFICES ASSUME fifo PROVE RoundInv'
    BY <1>1 DEF RoundInv
  <2>1. sleepq # <<>> /\ Head(sleepq) = t
    BY DEF Wake
  <2>2. sleepq' = Tail(sleepq)
    BY <1>1, <1>2, <2>1, WithoutHead
  <2>3. Append(runq, Head(sleepq)) \o Tail(sleepq) = runq \o sleepq
    BY <1>2, <2>1, SameRound
  <2>4. Round' = Round
    BY <1>1, <2>1, <2>2, <2>3 DEF Round
  <2>5. QED
    BY <1>1, <2>4 DEF RoundInv, InRound, MyTurn
<1>8. QED
  BY <1>5, <1>6, <1>7

LEMMA OrderStep == OrderInv /\ [Next]_vars => OrderInv'
<1> SUFFICES ASSUME OrderInv, [Next]_vars PROVE OrderInv'
  OBVIOUS
<1>1. ASSUME NEW t \in Threads, Thread(t), fifo' = fifo PROVE OrderInv'
  BY <1>1, LockOrder, TestOrder, PrintOrder, SignalOrder, UnlockOrder
     DEF Thread
<1>2. CASE UNCHANGED vars
  BY <1>2 DEF vars, OrderInv, TypeOK, Held, TurnFollows, MyTurn, Queued,
              RoundInv, InRound, Round
<1>3. QED
  BY <1>1, <1>2, WakeOrder DEF Next

(* Owner, turn, queues and round agree in every state of any number of     *)
(* threads that share threadA_fn's loop, for arrays of any length.         *)
THEOREM OrderCorrect == Spec => []OrderInv
BY OrderInit, OrderStep, PTL DEF Spec

(* Type correctness: the turn counter stays below the number of numbers,   *)
(* and the kernel's queues hold threads.                                   *)
THEOREM OrderTypeOK == Spec => []TypeOK
<1>1. OrderInv => TypeOK
  BY DEF OrderInv
<1>2. QED
  BY <1>1, OrderCorrect, PTL

(* No thread is lost: each is once in the ready queue, in that of the      *)
(* condition variable, or asleep, and one that holds the mutex is ready.   *)
THEOREM NoThreadLost == Spec => []Queued
<1>1. OrderInv => Queued
  BY DEF OrderInv
<1>2. QED
  BY <1>1, OrderCorrect, PTL

(* With the kernel's order among equal priorities each thread comes up in  *)
(* its turn: k_condvar_wait is never called.                               *)
THEOREM OrderNobodyWaits == Spec => []NobodyWaits
<1>1. OrderInv => NobodyWaits
  BY DEF OrderInv, RoundInv, NobodyWaits
<1>2. QED
  BY <1>1, OrderCorrect, PTL

LEMMA PrintsStep ==
    OrderInv /\ [Next]_vars =>
        (printed' # printed => printed' = (printed % Count) + 1)
<1> SUFFICES ASSUME OrderInv, Next, printed' # printed
             PROVE  printed' = (printed % Count) + 1
  BY DEF vars
<1>1. PICK t \in Threads : PrintNumber(t)
  BY DEF Next, Thread, Lock, Test, Signal, UnlockAndSleep, Wake
<1>2. QED
  BY <1>1, PrintsTheTurn

(* The numbers come out in order, 1 after the last, whatever thread the    *)
(* scheduler picks and in whatever order the sleeps end.                   *)
THEOREM OrderPrintsInOrder == Spec => PrintsInOrder
BY OrderCorrect, PrintsStep, PTL DEF Spec, PrintsInOrder

-----------------------------------------------------------------------------
(* ping_pong                                                               *)

(* Thread A holds the turn at first.                                       *)
LEMMA TurnInit == PingPongInit => PingPongInv
BY ItersAssumption
   DEF PingPongInit, PingPongInv, PingPongTypeOK, TurnInv, TurnA, TurnB,
       Printed, States

(* The turn is handed over once per line, by whoever holds it.             *)
LEMMA TurnStep == PingPongInv /\ [PingPongNext]_allVars => PingPongInv'
<1> SUFFICES ASSUME PingPongInv, [PingPongNext]_allVars
             PROVE  PingPongInv'
  OBVIOUS
<1> USE ItersAssumption
    DEF PingPongInv, PingPongTypeOK, TurnInv, TurnA, TurnB,
        Printed, States, varsA, varsB
<1>1. CASE ThreadA
  <2>1. CASE TakeA
    BY <2>1 DEF TakeA
  <2>2. CASE Ping
    BY <2>2 DEF Ping
  <2>3. CASE GiveB
    BY <2>3 DEF GiveB
  <2>4. CASE SleepA
    BY <2>4 DEF SleepA
  <2>5. CASE EndA
    BY <2>5 DEF EndA
  <2>6. QED
    BY <1>1, <2>1, <2>2, <2>3, <2>4, <2>5 DEF ThreadA
<1>2. CASE ThreadB
  <2>1. CASE TakeB
    BY <2>1 DEF TakeB
  <2>2. CASE Pong
    BY <2>2 DEF Pong
  <2>3. CASE GiveA
    BY <2>3 DEF GiveA
  <2>4. CASE SleepB
    BY <2>4 DEF SleepB
  <2>5. CASE EndB
    BY <2>5 DEF EndB
  <2>6. QED
    BY <1>2, <2>1, <2>2, <2>3, <2>4, <2>5 DEF ThreadB
<1>3. CASE UNCHANGED allVars
  BY <1>3 DEF allVars
<1>4. QED
  BY <1>1, <1>2, <1>3 DEF PingPongNext

(* The turn has one holder, and the counters follow it, in every state     *)
(* of threadA_fn and threadB_fn, however many iterations they run.         *)
THEOREM TurnCorrect == PingPongSpec => []PingPongInv
BY TurnInit, TurnStep, PTL DEF PingPongSpec

(* A pong answers every ping before the next ping is printed.              *)
THEOREM PingPongAlternates == PingPongSpec => []Alternates
<1>1. PingPongInv => Alternates
  BY DEF PingPongInv, TurnInv, PingPongTypeOK, Alternates
<1>2. QED
  BY <1>1, TurnCorrect, PTL

(* Each line carries its thread's loop counter, and the counters agree.    *)
THEOREM LinesAreNumbered == PingPongSpec => []Numbered
<1>1. PingPongInv => Numbered
  BY DEF PingPongInv, TurnInv, TurnA, TurnB,
         Printed, PingPongTypeOK, Numbered
<1>2. QED
  BY <1>1, TurnCorrect, PTL
=============================================================================
