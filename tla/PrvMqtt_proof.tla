---------------------------- MODULE PrvMqtt_proof ----------------------------
(* Proofs about PrvMqtt, for a buffer, a text, messages and a number of    *)
(* polls of any size.                                                      *)
EXTENDS PrvMqtt, TLAPS

(* Who holds the mutex follows from where the two threads are.             *)
OwnerInv ==
    /\ owner = "thread" <=> thread \in {"reading", "pinging"}
    /\ owner = "main" => main \in {"publish", "sending"}
    /\ main = "sending" => owner = "main"

(* There is no connection before mqtt_connect, no session before CONNACK,  *)
(* and no mqtt_thread before main's publish loop.                          *)
SetupInv ==
    /\ thread # "absent" => main \in LoopStates
    /\ main \in {"wifi", "resolve", "connect"} => lib = "idle"
    /\ main \in SetupStates => lib # "connected"

(* Nothing remains to be read, and neither thread blocks in a call, unless *)
(* there is a session.                                                     *)
CallsInSession ==
    /\ remaining > 0 => lib = "connected"
    /\ thread \in {"reading", "pinging"} => lib = "connected"
    /\ main = "sending" => lib = "connected"

(* The last byte of payload_buf is never written but with the terminator.  *)
LastByte == buf[BufSize - 1] = "nul"

IInv == TypeOK /\ OwnerInv /\ SetupInv /\ LastByte /\ FlagAccurate
            /\ ComposedIntact /\ CallsInSession

(* The lesser of two numbers is one of them, and not above the other.      *)
LEMMA LeastBound ==
    ASSUME NEW a \in Nat, NEW b \in Nat
    PROVE  Least(a, b) \in Nat /\ Least(a, b) <= a /\ Least(a, b) <= b
  BY DEF Least

LEMMA InitIInv == Init => IInv
  <1> SUFFICES ASSUME Init PROVE IInv
    OBVIOUS
  <1>1. BufSize - 1 \in Nat /\ 0 \in 0 .. BufSize - 1 /\ 0 \in 0 .. Polls
            /\ 0 \in 0 .. MaxPayload
    BY BufSizeAssumption, PollsAssumption, MaxPayloadAssumption
  <1>2. LastByte
    BY <1>1 DEF Init, LastByte
  <1>3. TypeOK
    BY <1>1 DEF Init, TypeOK, SetupStates, LoopStates, ThreadStates
  <1> QED
    BY <1>2, <1>3 DEF Init, IInv, OwnerInv, SetupInv, FlagAccurate,
                      ComposedIntact, LoopStates, CallsInSession

(* Composing a text leaves a terminated buffer that begins with it.        *)
LEMMA ComposeTerminates ==
    ASSUME TypeOK, LastByte, Compose
    PROVE  /\ plen' \in 0 .. BufSize - 1
           /\ buf' \in [0 .. BufSize - 1 -> {"nul", "hello", "rx"}]
           /\ LastByte'
           /\ \A i \in 0 .. plen' - 1 : buf'[i] = "hello"
  <1>1. BufSize - 1 \in Nat /\ BufSize \in Nat
    BY BufSizeAssumption
  <1>2. plen' \in Nat /\ plen' <= BufSize - 1
    BY <1>1, HelloLenAssumption, LeastBound DEF Compose
  <1>3. buf' = [i \in 0 .. BufSize - 1 |->
                  IF i < plen' THEN "hello"
                  ELSE IF i = plen' THEN "nul" ELSE buf[i]]
    BY DEF Compose
  <1>4. \A i \in 0 .. BufSize - 1 : buf[i] \in {"nul", "hello", "rx"}
    BY DEF TypeOK
  <1>5. buf' \in [0 .. BufSize - 1 -> {"nul", "hello", "rx"}]
    BY <1>3, <1>4
  <1>6. LastByte'
    BY <1>1, <1>2, <1>3 DEF LastByte
  <1>7. plen' \in 0 .. BufSize - 1
    BY <1>1, <1>2
  <1>8. \A i \in 0 .. plen' - 1 : buf'[i] = "hello"
    <2> DEFINE p == plen'
    <2>1. p \in Nat /\ p <= BufSize - 1
      BY <1>2
    <2> HIDE DEF p
    <2>2. \A i \in 0 .. p - 1 : i \in 0 .. BufSize - 1 /\ i < p
      BY <1>1, <2>1
    <2>3. \A i \in 0 .. BufSize - 1 : i < p => buf'[i] = "hello"
      BY <1>3 DEF p
    <2>4. \A i \in 0 .. p - 1 : buf'[i] = "hello"
      BY <2>2, <2>3
    <2> QED BY <2>4 DEF p
  <1> QED BY <1>5, <1>6, <1>7, <1>8

(* One read of the payload writes neither the last byte nor more than      *)
(* remains.                                                                *)
LEMMA ReadStaysInside ==
    ASSUME TypeOK, LastByte, ReadChunk
    PROVE  /\ remaining' \in 0 .. MaxPayload
           /\ buf' \in [0 .. BufSize - 1 -> {"nul", "hello", "rx"}]
           /\ LastByte'
  <1>1. BufSize - 1 \in Nat /\ BufSize \in Nat /\ rlen \in Nat
            /\ rlen <= BufSize - 1 /\ remaining \in Nat
            /\ remaining <= MaxPayload /\ MaxPayload \in Nat
    BY BufSizeAssumption, MaxPayloadAssumption DEF TypeOK
  <1>2. PICK n \in 1 .. Least(rlen, remaining) :
            /\ buf' = [i \in 0 .. BufSize - 1 |->
                         IF i < n THEN "rx" ELSE buf[i]]
            /\ remaining' = remaining - n
    BY DEF ReadChunk
  <1>3. n \in Nat /\ 1 <= n /\ n <= rlen /\ n <= remaining
    <2>1. /\ Least(rlen, remaining) \in Nat
          /\ Least(rlen, remaining) <= rlen
          /\ Least(rlen, remaining) <= remaining
      BY <1>1, LeastBound
    <2> QED BY <1>1, <1>2, <2>1
  <1>4. remaining' \in 0 .. MaxPayload
    BY <1>1, <1>2, <1>3
  <1>5. \A i \in 0 .. BufSize - 1 : buf[i] \in {"nul", "hello", "rx"}
    BY DEF TypeOK
  <1>6. buf' \in [0 .. BufSize - 1 -> {"nul", "hello", "rx"}]
    BY <1>2, <1>5
  <1>7. LastByte'
    BY <1>1, <1>2, <1>3 DEF LastByte
  <1> QED BY <1>4, <1>6, <1>7

USE DEF TypeOK, OwnerInv, SetupInv, FlagAccurate, ComposedIntact,
        CallsInSession,
        SetupStates, LoopStates, ThreadStates, InCallback, flags, bufVars,
        libVars, ThreadAt, MainBlocked, Released, ClientReset

LEMMA SetupKeepsIInv == ASSUME IInv, Setup PROVE IInv'
  <1>1. CASE WifiWait      BY <1>1 DEF WifiWait, IInv, LastByte
  <1>2. CASE BrokerResolve BY <1>2 DEF BrokerResolve, IInv, LastByte
  <1>3. CASE MqttConnect   BY <1>3 DEF MqttConnect, IInv, LastByte
  <1>4. CASE WaitConnack
    <2>1. tries' \in 0 .. Polls
      BY <1>4, PollsAssumption DEF WaitConnack, IInv
    <2>2. CASE tries < Polls
      BY <1>4, <2>1, <2>2
         DEF WaitConnack, ConnackInput, OnConnack, IInv, LastByte
    <2>3. CASE ~(tries < Polls)
      BY <1>4, <2>1, <2>3 DEF WaitConnack, IInv, LastByte
    <2> QED BY <2>2, <2>3
  <1> QED BY <1>1, <1>2, <1>3, <1>4 DEF Setup

LEMMA LoopKeepsIInv == ASSUME IInv, Loop PROVE IInv'
  <1>1. CASE PublishMessage
    <2>1. CASE mqtt_connected
      <3>1. Compose /\ main' = "publish"
        BY <1>1, <2>1 DEF PublishMessage
      <3>2. /\ plen' \in 0 .. BufSize - 1
            /\ buf' \in [0 .. BufSize - 1 -> {"nul", "hello", "rx"}]
            /\ LastByte'
            /\ \A i \in 0 .. plen' - 1 : buf'[i] = "hello"
        BY <3>1, ComposeTerminates DEF IInv
      <3> QED BY <1>1, <3>1, <3>2 DEF PublishMessage, IInv
    <2>2. CASE ~mqtt_connected
      BY <1>1, <2>2 DEF PublishMessage, IInv, LastByte
    <2> QED BY <2>1, <2>2
  <1>2. CASE PublishEnter BY <1>2 DEF PublishEnter, IInv, LastByte
  <1>3. CASE Send
    <2>1. remaining' \in 0 .. MaxPayload
      BY <1>3, MaxPayloadAssumption DEF Send, IInv
    <2>2. main = "sending" /\ main' = "sleep" /\ thread' = thread
      BY <1>3 DEF Send
    <2>3. FlagAccurate'
      BY <1>3 DEF Send, IInv
    <2>4. OwnerInv' /\ SetupInv' /\ CallsInSession'
      BY <1>3, <2>2 DEF Send, IInv
    <2>5. TypeOK' /\ LastByte'
      BY <1>3, <2>1 DEF Send, IInv, LastByte
    <2> QED BY <2>2, <2>3, <2>4, <2>5 DEF IInv
  <1>4. CASE Wake BY <1>4 DEF Wake, IInv, LastByte
  <1> QED BY <1>1, <1>2, <1>3, <1>4 DEF Loop

(* Losing the connection in a call of mqtt_thread.                         *)
LEMMA LosesKeepsIInv ==
    ASSUME IInv, NEW t \in {"live", "sleep", "term"}, ThreadLoses(t),
           MainBlocked, lib = "connected" \/ thread = "reading",
           \/ thread = "input" /\ owner = "none" /\ t = "live"
           \/ thread = "pinging" /\ t = "sleep"
           \/ thread = "reading" /\ t = "term"
    PROVE  IInv'
  BY MaxPayloadAssumption DEF ThreadLoses, IInv, LastByte

LEMMA ThreadKeepsIInv == ASSUME IInv, ThreadRuns PROVE IInv'
  <1>1. CASE ThreadCheck
    BY <1>1 DEF ThreadCheck, ThreadGoes, IInv, LastByte
  <1>2. CASE InputNothing
    BY <1>2 DEF InputNothing, InputReturns, ThreadGoes, IInv, LastByte
  <1>3. CASE InputLoses
    BY <1>3, LosesKeepsIInv DEF InputLoses
  <1>4. ASSUME NEW n \in 0 .. MaxPayload, InputPublish(n) PROVE IInv'
    <2>1. rlen' \in 0 .. BufSize - 1
      BY <1>4, LeastBound, BufSizeAssumption, MaxPayloadAssumption
         DEF InputPublish, ReadLen
    <2> QED BY <1>4, <2>1 DEF InputPublish, IInv, LastByte
  <1>5. CASE ReadEnter BY <1>5 DEF ReadEnter, IInv, LastByte
  <1>6. CASE Terminate
    <2>1. buf' = [buf EXCEPT ![rlen] = "nul"]
      BY <1>6 DEF Terminate
    <2>2. buf' \in [0 .. BufSize - 1 -> {"nul", "hello", "rx"}]
      BY <2>1 DEF IInv
    <2>3. LastByte'
      BY <2>1, BufSizeAssumption DEF LastByte, IInv
    <2> QED BY <1>6, <2>2, <2>3 DEF Terminate, IInv
  <1>7. CASE CallbackReturns
    BY <1>7 DEF CallbackReturns, InputReturns, ThreadGoes, IInv, LastByte
  <1>8. CASE OnDisconnect BY <1>8 DEF OnDisconnect, IInv, LastByte
  <1>9. CASE Live
    <2>1. CASE ThreadGoes("sleep")
      BY <1>9, <2>1 DEF Live, ThreadGoes, IInv, LastByte
    <2>2. CASE thread' = "pinging"
      BY <1>9, <2>2 DEF Live, ThreadGoes, IInv, LastByte
    <2> QED BY <1>9, <2>1, <2>2 DEF Live
  <1>10. CASE ThreadWakes
    BY <1>10 DEF ThreadWakes, ThreadGoes, IInv, LastByte
  <1> QED BY <1>1, <1>2, <1>3, <1>4, <1>5, <1>6, <1>7, <1>8, <1>9, <1>10
          DEF ThreadRuns

LEMMA SocketKeepsIInv == ASSUME IInv, Reads \/ Pings PROVE IInv'
  <1>1. CASE ReadChunk
    <2>1. /\ remaining' \in 0 .. MaxPayload
          /\ buf' \in [0 .. BufSize - 1 -> {"nul", "hello", "rx"}]
          /\ LastByte'
      BY <1>1, ReadStaysInside DEF IInv
    <2> QED BY <1>1, <2>1 DEF ReadChunk, IInv
  <1>2. CASE ReadFails BY <1>2, LosesKeepsIInv DEF ReadFails
  <1>3. CASE PingSent BY <1>3 DEF PingSent, IInv, LastByte
  <1>4. CASE PingFails
    BY <1>4, MaxPayloadAssumption DEF PingFails, ThreadLoses, IInv, LastByte
  <1> QED BY <1>1, <1>2, <1>3, <1>4 DEF Reads, Pings

LEMMA NextIInv == IInv /\ [Next]_vars => IInv'
  <1> SUFFICES ASSUME IInv, [Next]_vars PROVE IInv'
    OBVIOUS
  <1>1. CASE WifiEvent BY <1>1 DEF WifiEvent, IInv, LastByte
  <1>2. CASE UNCHANGED vars BY <1>2 DEF vars, IInv, LastByte
  <1> QED BY <1>1, <1>2, SetupKeepsIInv, LoopKeepsIInv, ThreadKeepsIInv,
             SocketKeepsIInv DEF Next

(* Every reachable state satisfies the inductive invariant.                *)
THEOREM PrvIInv == Spec => []IInv
  BY InitIInv, NextIInv, PTL DEF Spec

(* The variables of PrvMqtt keep their types.                              *)
THEOREM PrvTypeOK == Spec => []TypeOK
  BY PrvIInv, PTL DEF IInv

(* payload_buf is terminated in every interleaving of its three writers.   *)
THEOREM PrvBufTerminated == Spec => []BufTerminated
  <1>1. IInv => BufTerminated
    BY BufSizeAssumption DEF IInv, LastByte, BufTerminated
  <1> QED BY <1>1, PrvIInv, PTL

(* The connection flag follows the library's session, callbacks aside.     *)
THEOREM PrvFlagAccurate == Spec => []FlagAccurate
  <1>1. IInv => FlagAccurate
    BY DEF IInv
  <1> QED BY <1>1, PrvIInv, PTL

(* A message is sent as composed unless an inbound one is being received.  *)
THEOREM PrvComposedIntact == Spec => []ComposedIntact
  <1>1. IInv => ComposedIntact
    BY DEF IInv
  <1> QED BY <1>1, PrvIInv, PTL

-----------------------------------------------------------------------------
(* PrvMqtt implements MqttSession.                                         *)

(* A step of the session while nobody publishes.                           *)
LEMMA SessionMoves ==
    ASSUME NEW from, NEW to, phaseBar = from, phaseBar' = to,
           main # "sending", main' # "sending"
    PROVE  Session!Moves(from, to)
  BY DEF Session!Moves

(* A step that leaves client, flag and the sending main alone, and neither *)
(* reaches nor leaves the call of mqtt_connect, is none of the session's.  *)
LEMMA SessionRests ==
    ASSUME lib' = lib, mqtt_connected' = mqtt_connected,
           main' = "sending" <=> main = "sending",
           main' = "connect" <=> main = "connect"
    PROVE  UNCHANGED Session!vars
  <1>1. phaseBar' = phaseBar
    BY DEF phaseBar
  <1>2. (main = "sending")' = (main = "sending")
    OBVIOUS
  <1> QED BY <1>1, <1>2 DEF Session!vars

(* main up to the publish loop: mqtt_connect dials, and one of the polls   *)
(* for CONNACK makes the connection a served session, or ends it.          *)
LEMMA SetupMaps ==
    ASSUME IInv, Setup PROVE [Session!Next]_Session!vars
  <1>1. main # "sending" /\ thread # "disc" /\ ~mqtt_connected
    BY DEF Setup, WifiWait, BrokerResolve, MqttConnect, WaitConnack, IInv
  <1>2. CASE WifiWait
    BY <1>2, SessionRests DEF WifiWait
  <1>3. CASE BrokerResolve
    <2>1. CASE main' = "connect"
      <3>1. phaseBar = "none" /\ phaseBar' = "dialing"
        BY <1>1, <1>3, <2>1 DEF BrokerResolve, phaseBar, IInv
      <3>2. Session!Dial
        BY <1>1, <2>1, <3>1, SessionMoves DEF Session!Dial
      <3> QED BY <3>2 DEF Session!Next
    <2>2. CASE main' = "awake"
      BY <1>3, <2>2, SessionRests DEF BrokerResolve
    <2> QED BY <1>3, <2>1, <2>2 DEF BrokerResolve
  <1>4. CASE MqttConnect
    <2>1. phaseBar = "dialing" /\ main' # "sending"
      BY <1>4 DEF MqttConnect, phaseBar
    <2>2. CASE main' = "connack" /\ lib' = "tcp"
      <3>1. Session!Open
        BY <1>1, <2>1, <2>2, SessionMoves DEF Session!Open, phaseBar
      <3> QED BY <3>1 DEF Session!Next
    <2>3. CASE main' = "returned" /\ lib' = lib
      <3>1. phaseBar' = "none"
        BY <1>1, <1>4, <2>3 DEF MqttConnect, phaseBar, IInv
      <3>2. Session!Refuse
        BY <1>1, <2>1, <3>1, SessionMoves DEF Session!Refuse
      <3> QED BY <3>2 DEF Session!Next
    <2> QED BY <1>4, <2>2, <2>3 DEF MqttConnect
  <1>5. CASE WaitConnack
    <2>1. main = "connack" /\ main' \in {"connack", "awake", "returned"}
      BY <1>5 DEF WaitConnack
    <2>2. CASE lib' = lib /\ mqtt_connected' = mqtt_connected
      BY <2>1, <2>2, SessionRests
    <2>3. CASE lib = "tcp" /\ lib' = "connected" /\ mqtt_connected'
      <3>1. phaseBar = "opening" /\ phaseBar' = "served"
        BY <2>1, <2>3 DEF phaseBar
      <3>2. Session!Serve
        BY <2>1, <3>1, SessionMoves DEF Session!Serve
      <3> QED BY <3>2 DEF Session!Next
    <2>4. CASE lib = "tcp" /\ lib' = "idle" /\ ~mqtt_connected'
      <3>1. phaseBar = "opening" /\ phaseBar' = "none"
        BY <2>1, <2>4 DEF phaseBar
      <3>2. Session!Refuse
        BY <2>1, <3>1, SessionMoves DEF Session!Refuse
      <3> QED BY <3>2 DEF Session!Next
    <2> QED
      BY <1>5, <2>2, <2>3, <2>4 DEF WaitConnack, ConnackInput, OnConnack
  <1> QED BY <1>2, <1>3, <1>4, <1>5 DEF Setup

(* main's publish loop: a publish finds the session served, and keeps the  *)
(* mutex until it is sent, or has ended the session itself.                *)
LEMMA LoopMaps ==
    ASSUME IInv, Loop PROVE [Session!Next]_Session!vars
  <1>1. CASE PublishMessage
    BY <1>1, SessionRests DEF PublishMessage
  <1>2. CASE PublishEnter
    <2>1. main = "publish" /\ lib' = lib /\ mqtt_connected' = mqtt_connected
      BY <1>2 DEF PublishEnter
    <2>2. CASE lib = "connected"
      <3>1. mqtt_connected
        BY <2>2 DEF IInv
      <3>2. main' = "sending"
        BY <1>2, <2>2 DEF PublishEnter
      <3>3. phaseBar = "served" /\ phaseBar' = "served"
        BY <2>1, <2>2, <3>1, <3>2 DEF phaseBar
      <3>4. Session!Publish
        BY <2>1, <3>2, <3>3 DEF Session!Publish
      <3> QED BY <3>4 DEF Session!Next
    <2>3. CASE lib # "connected"
      BY <1>2, <2>1, <2>3, SessionRests DEF PublishEnter
    <2> QED BY <2>2, <2>3
  <1>3. CASE Send
    <2>1. main = "sending" /\ main' = "sleep"
      BY <1>3 DEF Send
    <2>2. CASE lib' = lib /\ mqtt_connected' = mqtt_connected
      <3>1. phaseBar' = phaseBar
        BY <2>1, <2>2 DEF phaseBar
      <3>2. Session!Sent
        BY <2>1, <3>1 DEF Session!Sent
      <3> QED BY <3>2 DEF Session!Next
    <2>3. CASE lib' = "idle" /\ ~mqtt_connected'
      <3>1. phaseBar' = "none"
        BY <2>1, <2>3 DEF phaseBar
      <3>2. Session!Fail
        BY <2>1, <3>1 DEF Session!Fail
      <3> QED BY <3>2 DEF Session!Next
    <2> QED BY <1>3, <2>2, <2>3 DEF Send
  <1>4. CASE Wake
    BY <1>4, SessionRests DEF Wake
  <1> QED BY <1>1, <1>2, <1>3, <1>4 DEF Loop

(* A call of mqtt_thread that loses the connection is made while main is   *)
(* not in the library.                                                     *)
LEMMA LosesMaps ==
    ASSUME IInv, NEW t, ThreadLoses(t), MainBlocked,
           \/ InputLoses
           \/ thread \in {"reading", "pinging"} /\ lib = "connected"
    PROVE  [Session!Next]_Session!vars
  <1>1. lib = "connected" /\ thread # "disc" /\ main # "sending"
            /\ main # "connect"
    BY DEF InputLoses, IInv
  <1>2. mqtt_connected /\ mqtt_connected' = mqtt_connected
    BY <1>1 DEF ThreadLoses, IInv
  <1>3. main' = main /\ lib' = "idle"
    BY DEF ThreadLoses
  <1>4. phaseBar = "served" /\ phaseBar' = "lost"
    BY <1>1, <1>2, <1>3 DEF phaseBar
  <1>5. Session!Lose
    BY <1>1, <1>3, <1>4, SessionMoves DEF Session!Lose
  <1> QED BY <1>5 DEF Session!Next

(* mqtt_thread: it ends no session but by a loss that its own call finds.  *)
LEMMA ThreadMaps ==
    ASSUME IInv, ThreadRuns \/ Reads \/ Pings
    PROVE  [Session!Next]_Session!vars
  <1>1. CASE InputLoses
    BY <1>1, LosesMaps DEF InputLoses
  <1>2. CASE ReadFails \/ PingFails
    BY <1>2, LosesMaps DEF ReadFails, PingFails, IInv
  <1>3. CASE OnDisconnect
    <2>1. lib = "idle" /\ main # "sending" /\ main # "connect"
              /\ main' = main /\ lib' = lib /\ ~mqtt_connected'
      BY <1>3 DEF OnDisconnect, IInv
    <2>2. CASE mqtt_connected
      <3>1. phaseBar = "lost" /\ phaseBar' = "none"
        BY <2>1, <2>2 DEF phaseBar
      <3>2. Session!Notice
        BY <2>1, <3>1, SessionMoves DEF Session!Notice
      <3> QED BY <3>2 DEF Session!Next
    <2>3. CASE ~mqtt_connected
      <3>1. phaseBar = "none" /\ phaseBar' = "none"
        BY <2>1, <2>3 DEF phaseBar
      <3>2. (main = "sending")' = (main = "sending")
        BY <2>1
      <3> QED BY <3>1, <3>2 DEF Session!vars
    <2> QED BY <2>2, <2>3
  <1>4. CASE \/ ThreadCheck \/ InputNothing \/ ReadEnter \/ Terminate
             \/ CallbackReturns \/ Live \/ ThreadWakes \/ ReadChunk
             \/ PingSent \/ \E n \in 0 .. MaxPayload : InputPublish(n)
    BY <1>4, SessionRests
       DEF ThreadCheck, InputNothing, ReadEnter, Terminate,
           CallbackReturns, Live, ThreadWakes, ReadChunk, PingSent,
           InputPublish, ThreadGoes
  <1> QED BY <1>1, <1>2, <1>3, <1>4 DEF ThreadRuns, Reads, Pings

(* main, mqtt_thread and the callbacks together implement MqttSession: one *)
(* session, published into only while it is served and ended by nobody     *)
(* else during a publish, for any sizes of buffer, text and payloads.      *)
THEOREM PrvRefinesSession == Spec => RefinesSession
  <1>1. Init => Session!Init
    <2>1. Init => phaseBar = "none" /\ main # "sending"
      BY DEF Init, phaseBar
    <2> QED BY <2>1 DEF Session!Init
  <1>2. IInv /\ [Next]_vars => [Session!Next]_Session!vars
    <2> SUFFICES ASSUME IInv, [Next]_vars
                 PROVE  [Session!Next]_Session!vars
      OBVIOUS
    <2>1. CASE WifiEvent
      BY <2>1, SessionRests DEF WifiEvent
    <2>2. CASE UNCHANGED vars
      BY <2>2, SessionRests DEF vars
    <2> QED BY <2>1, <2>2, SetupMaps, LoopMaps, ThreadMaps DEF Next
  <1> QED BY <1>1, <1>2, PrvIInv, PTL
          DEF Spec, RefinesSession, Session!Spec
==============================================================================
