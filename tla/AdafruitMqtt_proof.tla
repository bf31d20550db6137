-------------------------- MODULE AdafruitMqtt_proof --------------------------
(***************************************************************************)
(* Proofs about AdafruitMqtt: what the adapter tells its caller about the  *)
(* connection, and what the caller has to see to for that, for any number  *)
(* of sockets and any width of the ids.                                    *)
(***************************************************************************)
EXTENDS AdafruitMqtt, TLAPS

(* A client that is not idle has a socket.                                 *)
ClientOwnsSocket == lib # "idle" => open > 0

(* The two facts need each other: a connect call reports the flag, and the *)
(* flag must then be what the library knows.                               *)
ClientInv == /\ TypeOK /\ FlagTrusted /\ ConnectTellsOutcome
             /\ ClientOwnsSocket /\ (pc = "off" => lib = "idle")

(* Nothing is connected at first.                                          *)
LEMMA ClientInit == Init => ClientInv
<1> SUFFICES ASSUME Init PROVE ClientInv
  OBVIOUS
<1> USE MaxSocketsAssumption, IdBoundAssumption DEF Init
<1>1. ret \in [call : CallNames, rc : Results]
  BY DEF CallNames, Results
<1>2. connected \in BOOLEAN /\ unread \in BOOLEAN /\ again \in BOOLEAN
  BY Zenon
<1>3. FlagTrusted
  BY Zenon DEF FlagTrusted
<1>4. QED
  BY <1>1, <1>2, <1>3
     DEF ClientInv, TypeOK, ConnectTellsOutcome, ClientOwnsSocket

(* The ways a step can change the flag or the library's connection.  That  *)
(* disconnect finds no session and clears the flag is one of them.         *)
Cleared == /\ connected' = FALSE /\ again' = FALSE /\ UNCHANGED <<lib, unread>>
           /\ ~connected \/ lib # "connected"

LEMMA FlagChanges ==
  [Next]_vars => \/ UNCHANGED <<pc, flag, lib, unread>>
                 \/ pc' # "off" /\ UNCHANGED <<flag, lib, unread>>
                 \/ pc' # "off" /\ (InputConnack \/ InputMessage \/ Drop)
                 \/ pc' # "off" /\ Cleared
                 \/ InitCall \/ ConnectEnter
<1> SUFFICES ASSUME Next \/ UNCHANGED vars
             PROVE  \/ UNCHANGED <<pc, flag, lib, unread>>
                    \/ pc' # "off" /\ UNCHANGED <<flag, lib, unread>>
                    \/ pc' # "off" /\ (InputConnack \/ InputMessage \/ Drop)
                    \/ pc' # "off" /\ Cleared
                    \/ InitCall \/ ConnectEnter
  OBVIOUS
<1> USE DEF flag, zclient, libVars, Returns, NoChange, WriteOk, WriteFails,
            NotEncoded, NotConnected, Sends
<1>1. CASE ConnectWait \/ ConnectReturn \/ Publish
  BY <1>1 DEF ConnectWait, ConnectReturn, InputFails, Publish
<1>2. CASE Disconnect
  BY <1>2 DEF Disconnect, Cleared
<1>3. CASE Subscribe \/ YieldEnter
  BY <1>3 DEF Subscribe, YieldEnter
<1>4. CASE YieldInput \/ YieldLive
  BY <1>4 DEF YieldInput, YieldLive, InputFails
<1>5. CASE Answers \/ PeerFails \/ UNCHANGED vars
  BY <1>5 DEF Answers, PeerFails, vars
<1>6. QED
  BY <1>1, <1>2, <1>3, <1>4, <1>5 DEF Next, Adapter

(* The flags stay Boolean.  A session is seen whatever the caller does,    *)
(* and what is seen is there unless connect was called over it.            *)
FlagInv == /\ connected \in BOOLEAN /\ unread \in BOOLEAN /\ again \in BOOLEAN
           /\ FlagTrusted
           /\ pc = "off" => lib = "idle"

LEMMA FlagStep == FlagInv /\ [Next]_vars => FlagInv'
<1> SUFFICES ASSUME FlagInv, [Next]_vars PROVE FlagInv'
  OBVIOUS
<1> USE DEF FlagInv, FlagTrusted, flag
<1>1. CASE UNCHANGED <<pc, flag, lib, unread>>
  BY <1>1
<1>2. CASE pc' # "off" /\ UNCHANGED <<flag, lib, unread>>
  BY <1>2
<1>3. CASE pc' # "off" /\ InputConnack
  <2>1. unread' = unread /\ again' = again
    BY <1>3 DEF InputConnack
  <2>2. QED
    BY <1>3, <2>1, Zenon DEF InputConnack
<1>4. CASE pc' # "off" /\ InputMessage
  <2>1. connected' = connected /\ again' = again /\ lib' = lib
    BY <1>4 DEF InputMessage
  <2>2. unread' \in BOOLEAN
    BY <1>4, Zenon DEF InputMessage
  <2>3. QED
    BY <1>4, <2>1, <2>2
<1>5. CASE pc' # "off" /\ Drop
  BY <1>5, Zenon DEF Drop
<1>6. CASE pc' # "off" /\ Cleared
  <2>1. lib' = lib /\ unread' = unread /\ lib # "connected"
    BY <1>6 DEF Cleared
  <2>2. QED
    BY <1>6, <2>1, Zenon DEF Cleared
<1>7. CASE InitCall
  BY <1>7, Zenon DEF InitCall
<1>8. CASE ConnectEnter
  <2>1. /\ connected' = connected /\ again' = connected
        /\ pc' # "off" /\ lib' # "connected"
    BY <1>8 DEF ConnectEnter, Returns
  <2>2. unread' \in BOOLEAN
    BY <1>8, Zenon DEF ConnectEnter
  <2>3. QED
    BY <2>1, <2>2, Zenon
<1>9. QED
  BY <1>1, <1>2, <1>3, <1>4, <1>5, <1>6, <1>7, <1>8, FlagChanges

(* Every call, and everything the broker does meanwhile, keeps the rest.   *)
LEMMA ClientStep == ClientInv /\ [Next]_vars => ClientInv'
<1> SUFFICES ASSUME ClientInv, [Next]_vars PROVE ClientInv'
  OBVIOUS
<1> USE MaxSocketsAssumption, IdBoundAssumption
    DEF ClientInv, TypeOK, ConnectTellsOutcome, ClientOwnsSocket, CallNames,
        Results, Returns, flag, zclient, libVars, NoChange
<1>a. FlagInv'
  BY FlagStep DEF FlagInv
<1>b. /\ connected' \in BOOLEAN /\ unread' \in BOOLEAN /\ again' \in BOOLEAN
      /\ FlagTrusted' /\ (pc' = "off" => lib' = "idle")
  BY <1>a DEF FlagInv
<1>1. CASE InitCall
  BY <1>1, <1>b DEF InitCall
<1>2. CASE ConnectEnter
  BY <1>2, <1>b DEF ConnectEnter
<1>3. CASE ConnectWait
  BY <1>3, <1>b DEF ConnectWait, InputConnack, InputFails, Drop
<1>4. CASE ConnectReturn
  BY <1>4, <1>b DEF ConnectReturn, FlagTrusted
<1>5. CASE Disconnect
  BY <1>5, <1>b DEF Disconnect, WriteFails, Drop
<1>6. CASE Publish
  BY <1>6, <1>b
     DEF Publish, NotConnected, Sends, WriteOk, WriteFails, NotEncoded, Drop
<1>7. CASE Subscribe
  <2>1. msg_id' \in 0 .. IdBound - 1
    BY <1>7, <1>b DEF Subscribe, NotConnected
  <2>2. QED
    BY <1>7, <1>b, <2>1
       DEF Subscribe, NotConnected, Sends, WriteOk, WriteFails, NotEncoded, Drop
<1>8. CASE YieldEnter
  BY <1>8, <1>b DEF YieldEnter, NotConnected
<1>9. CASE YieldInput
  BY <1>9, <1>b
     DEF YieldInput, InputConnack, InputMessage, InputFails, NoInput, Drop
<1>10. CASE YieldLive
  BY <1>10, <1>b DEF YieldLive, WriteFails, Drop
<1>11. CASE Answers
  BY <1>11, <1>b DEF Answers
<1>12. CASE PeerFails
  BY <1>12, <1>b DEF PeerFails
<1>13. CASE UNCHANGED vars
  BY <1>13, <1>b DEF vars
<1>14. QED
  BY <1>1, <1>2, <1>3, <1>4, <1>5, <1>6, <1>7, <1>8, <1>9, <1>10, <1>11,
     <1>12, <1>13 DEF Next, Adapter

(* connected() is true whenever there is a session; and there is one when  *)
(* it is true, unless the caller called connect while it was.              *)
THEOREM FlagCorrect == Spec => []FlagTrusted
<1>1. ClientInv => FlagTrusted
  BY DEF ClientInv
<1>2. QED
  BY <1>1, ClientInit, ClientStep, PTL DEF Spec

(* What connect returns tells whether there is a session, with the same    *)
(* exception for its success.                                              *)
THEOREM ConnectResultCorrect == Spec => []ConnectTellsOutcome
<1>1. ClientInv => ConnectTellsOutcome
  BY DEF ClientInv
<1>2. QED
  BY <1>1, ClientInit, ClientStep, PTL DEF Spec
=============================================================================
