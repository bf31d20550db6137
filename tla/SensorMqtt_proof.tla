--------------------------- MODULE SensorMqtt_proof ---------------------------
(***************************************************************************)
(* Proofs about SensorMqtt.  Type correctness holds for every sensor; the  *)
(* session invariant, and with it the accuracy of the connection flag and  *)
(* of the armed publisher, holds when reading the sensor does not suspend  *)
(* the work queue (~SensorBlocks).                                         *)
(***************************************************************************)
EXTENDS SensorMqtt, TLAPS

(* The shapes shared by main's actions keep the types.  main only moves.    *)
LEMMA GoesTypeOK ==
    ASSUME TypeOK, NEW t \in MainStates, Goes(t)
    PROVE  TypeOK'
BY DEF TypeOK, Goes, pubVars, appVars, sessVars, netVars, pollVars, Events

(* The client drops the connection.                                        *)
LEMMA ClientDisconnectTypeOK ==
    ASSUME TypeOK, NEW t \in MainStates, ClientDisconnect(t)
    PROVE  TypeOK'
BY DEF TypeOK, ClientDisconnect, pubVars, appVars, netVars, pollVars,
       Events, LinkStates

(* main blocks inside the library.                                         *)
LEMMA BlocksTypeOK ==
    ASSUME TypeOK, NEW t \in MainStates, Blocks(t)
    PROVE  TypeOK'
BY DEF TypeOK, Blocks, pubVars, appVars, netVars, pollVars, Events

(* main's blocking call writes its packet.                                 *)
LEMMA WriteSucceedsTypeOK ==
    ASSUME TypeOK, NEW t \in MainStates, WriteSucceeds(t)
    PROVE  TypeOK'
BY DEF TypeOK, WriteSucceeds, AfterWrite, pubVars, appVars, netVars,
       pollVars, Events, LinkStates

(* The steps of poll_mqtt_socket.                                          *)
LEMMA PollTypeOK ==
    ASSUME TypeOK, NEW from, NEW to \in MainStates,
           \/ PrepareFds(from, to) \/ PollReports(from, to)
           \/ PollTimesOut(from, to)
    PROVE  TypeOK'
<1>1. CASE PrepareFds(from, to)
  BY <1>1 DEF TypeOK, PrepareFds, Events, pubVars, sessVars, netVars
<1>2. CASE PollReports(from, to)
  <2>1. revents' \in SUBSET {"IN", "HUP"}
    BY <1>2 DEF PollReports, Reports
  <2>2. QED
    BY <1>2, <2>1 DEF TypeOK, PollReports, Events, pubVars, appVars, sessVars,
                      netVars
<1>3. CASE PollTimesOut(from, to)
  BY <1>3 DEF TypeOK, PollTimesOut, Events, pubVars, appVars, sessVars, netVars
<1>4. QED
  BY <1>1, <1>2, <1>3

(* The initial values are of their types.                                  *)
LEMMA TypeInit == Init => TypeOK
<1>1. 0 \in 0 .. MaxDrops
  BY MaxDropsAssumption
<1>2. QED
  BY <1>1, Zenon
     DEF Init, TypeOK, MainStates, Events, WqStates, LinkStates

(* Every action keeps the values of every variable in their sets.          *)
LEMMA TypeStep == TypeOK /\ [Next]_vars => TypeOK'
<1> SUFFICES ASSUME TypeOK, [Next]_vars PROVE TypeOK'
  OBVIOUS
<1> USE DEF MainStates, ConnectStates, HandshakeStates, RunStates, mainVars,
        pubVars, appVars, sessVars, netVars, pollVars, Events, LinkStates,
        WqStates
<1>1. CASE NetWait
  <2>1. CASE At("net_wait") /\ Goes("exited")
    BY <2>1, GoesTypeOK
  <2>2. CASE /\ net_conn_sem' = 0 /\ main' = "init" /\ evt' = "none"
             /\ UNCHANGED <<pubVars, appVars, led_user, sessVars, l4, drops,
                            pollVars>>
    BY <2>2 DEF TypeOK
  <2>3. QED
    BY <1>1, <2>1, <2>2 DEF NetWait
<1>2. CASE AppMqttInit
  BY <1>2, GoesTypeOK DEF AppMqttInit
<1>3. CASE ConnectEnter
  <2>1. mqtt_connected' \in BOOLEAN
    BY <1>3, Zenon DEF ConnectEnter
  <2>2. main' \in MainStates /\ evt' \in Events
    BY <1>3 DEF ConnectEnter
  <2>3. QED
    BY <1>3, <2>1, <2>2 DEF TypeOK, ConnectEnter
<1>4. CASE ConnectLoop
  BY <1>4, GoesTypeOK, BlocksTypeOK DEF ConnectLoop
<1>5. CASE MqttConnectOk
  BY <1>5 DEF TypeOK, MqttConnectOk, At
<1>6. CASE MqttConnectFails
  BY <1>6 DEF TypeOK, MqttConnectFails, At
<1>7. CASE Backoff
  BY <1>7, GoesTypeOK DEF Backoff
<1>8. CASE ConnPoll
  BY <1>8, PollTypeOK, GoesTypeOK DEF ConnPoll, PollFails
<1>9. CASE ConnInput
  <2>1. CASE ConnInputAccepted
    BY <2>1 DEF TypeOK, ConnInputAccepted
  <2>2. QED
    BY <1>9, <2>1, GoesTypeOK, ClientDisconnectTypeOK DEF ConnInput
<1>10. CASE ConnCheck
  BY <1>10, GoesTypeOK, ClientDisconnectTypeOK DEF ConnCheck
<1>11. CASE StartPublishing
  BY <1>11 DEF TypeOK, StartPublishing, At
<1>12. CASE Subscribe
  BY <1>12, GoesTypeOK, ClientDisconnectTypeOK, BlocksTypeOK,
     WriteSucceedsTypeOK DEF Subscribe
<1>13. CASE RunLoop
  BY <1>13, GoesTypeOK DEF RunLoop
<1>14. CASE RunPoll
  BY <1>14, PollTypeOK, GoesTypeOK DEF RunPoll, PollFails
<1>15. CASE RunReady
  <2>1. CASE InputPublish
    BY <2>1 DEF TypeOK, InputPublish
  <2>2. QED
    BY <1>15, <2>1, GoesTypeOK, ClientDisconnectTypeOK DEF RunReady
<1>16. CASE RunAfterInput
  BY <1>16, GoesTypeOK DEF RunAfterInput
<1>17. CASE RunLive
  BY <1>17, GoesTypeOK, ClientDisconnectTypeOK, BlocksTypeOK,
     WriteSucceedsTypeOK DEF RunLive
<1>18. CASE MqttDisconnect
  BY <1>18, GoesTypeOK, BlocksTypeOK, ClientDisconnectTypeOK
     DEF MqttDisconnect
<1>19. CASE OnConnackFlag
  BY <1>19 DEF TypeOK, OnConnackFlag, Handles
<1>20. CASE OnConnackLed
  BY <1>20 DEF TypeOK, OnConnackLed, Handles
<1>21. CASE OnDisconnect
  <2>1. /\ mqtt_connected' \in BOOLEAN /\ led_net' \in BOOLEAN
       /\ nfds' \in {0, 1}
    BY <1>21, Zenon DEF OnDisconnect, OnMqttDisconnect
  <2>2. QED
    BY <1>21, <2>1 DEF TypeOK, OnDisconnect, Handles
<1>22. CASE OnPublish
  <2>1. led_user' \in BOOLEAN /\ txSincePoll' \in BOOLEAN
    BY <1>22, Zenon DEF TypeOK, OnPublish, AckSent
  <2>2. link' \in LinkStates
    BY <1>22 DEF TypeOK, OnPublish, AckSent, AfterWrite
  <2>3. /\ main' = main /\ evt' = "none" /\ lib' = lib /\ owner' = owner
        /\ revents' = revents
        /\ UNCHANGED <<pubVars, appVars, netVars>>
    BY <1>22 DEF OnPublish, AckSent
  <2>4. QED
    BY <2>1, <2>2, <2>3 DEF TypeOK
<1>22a. CASE AckFails
  BY <1>22a DEF TypeOK, AckFails, ClientDisconnect
<1>23. CASE TimerExpires
  <2>1. timer' \in BOOLEAN /\ queued' \in BOOLEAN
    BY <1>23, Zenon DEF TimerExpires
  <2>2. QED
    BY <1>23, <2>1 DEF TypeOK, TimerExpires
<1>24. CASE HandlerStarts
  <2>1. wq' \in WqStates /\ timer' \in BOOLEAN /\ queued' \in BOOLEAN
    BY <1>24, Zenon DEF HandlerStarts, TypeOK
  <2>2. QED
    BY <1>24, <2>1 DEF TypeOK, HandlerStarts
<1>25. CASE GetPayload
  BY <1>25 DEF TypeOK, GetPayload
<1>26. CASE PublishCall
  BY <1>26 DEF TypeOK, PublishCall
<1>27. CASE PublishSent
  BY <1>27 DEF TypeOK, PublishSent, AfterWrite
<1>28. CASE PublishFails
  <2>1. /\ mqtt_connected' \in BOOLEAN /\ led_net' \in BOOLEAN
       /\ nfds' \in {0, 1}
    BY <1>28, Zenon DEF PublishFails, OnMqttDisconnect
  <2>2. QED
    BY <1>28, <2>1 DEF TypeOK, PublishFails
<1>29. CASE Reschedule
  BY <1>29 DEF TypeOK, Reschedule
<1>30. CASE L4Connected
  BY <1>30 DEF TypeOK, L4Connected
<1>31. CASE L4Disconnected
  <2>1. l4' \in BOOLEAN
    BY <1>31, Zenon DEF L4Disconnected
  <2>2. drops' \in 0 .. MaxDrops
    BY <1>31, MaxDropsAssumption DEF TypeOK, L4Disconnected
  <2>3. link' \in LinkStates
    BY <1>31 DEF TypeOK, L4Disconnected
  <2>4. QED
    BY <1>31, <2>1, <2>2, <2>3 DEF TypeOK, L4Disconnected
<1>32. CASE PeerFails
  BY <1>32, MaxDropsAssumption DEF TypeOK, PeerFails
<1>33. CASE StackNotices
  BY <1>33 DEF TypeOK, StackNotices
<1>34. CASE UNCHANGED vars
  BY <1>34 DEF TypeOK, vars
<1>35. QED
  BY <1>1, <1>2, <1>3, <1>4, <1>5, <1>6, <1>7, <1>8, <1>9, <1>10, <1>11,
     <1>12, <1>13, <1>14, <1>15, <1>16, <1>17, <1>18, <1>19, <1>20, <1>21,
     <1>22, <1>22a, <1>23, <1>24, <1>25, <1>26, <1>27, <1>28, <1>29, <1>30, <1>31,
     <1>32, <1>33, <1>34 DEF Next, MainStep, WqStep, EnvStep, Exited

(* The values of every variable stay in their sets.                        *)
THEOREM TypeCorrect == Spec => []TypeOK
BY TypeInit, TypeStep, PTL DEF Spec

(* What every step keeps when the handler is never suspended between        *)
(* reading the flag and entering the library.                              *)
LEMMA SessionStep ==
    ASSUME ~SensorBlocks, SessionInv, [Next]_vars
    PROVE  (/\ FlagAccurate /\ PublisherArmed
            /\ OwnerFollowsControl /\ LibFollowsControl)'
<1> USE ~SensorBlocks DEF SessionInv, At, Calls, Goes, ClientDisconnect,
        Blocks, WriteSucceeds, Handles, MainMayRun, TypeOK, FlagAccurate,
        PublisherArmed, OwnerFollowsControl, LibFollowsControl,
        HandshakeStates, RunStates, mainVars, pubVars, appVars, sessVars,
        netVars, pollVars
<1>1. CASE NetWait
  BY <1>1 DEF NetWait
<1>2. CASE AppMqttInit
  BY <1>2 DEF AppMqttInit
<1>3. CASE ConnectEnter
  BY <1>3 DEF ConnectEnter
<1>4. CASE ConnectLoop
  BY <1>4 DEF ConnectLoop
<1>5. CASE MqttConnectOk
  BY <1>5 DEF MqttConnectOk
<1>6. CASE MqttConnectFails
  BY <1>6 DEF MqttConnectFails
<1>7. CASE Backoff
  BY <1>7 DEF Backoff
<1>8. CASE ConnPoll
  BY <1>8 DEF ConnPoll, PrepareFds, PollReports, PollTimesOut, PollFails
<1>9. CASE ConnInput
  BY <1>9 DEF ConnInput, ConnInputAccepted
<1>10. CASE ConnCheck
  BY <1>10 DEF ConnCheck
<1>11. CASE StartPublishing
  BY <1>11 DEF StartPublishing
<1>12. CASE Subscribe
  BY <1>12 DEF Subscribe
<1>13. CASE RunLoop
  BY <1>13 DEF RunLoop
<1>14. CASE RunPoll
  BY <1>14 DEF RunPoll, PrepareFds, PollReports, PollTimesOut, PollFails
<1>15. CASE RunReady
  BY <1>15 DEF RunReady, InputPublish
<1>16. CASE RunAfterInput
  BY <1>16 DEF RunAfterInput
<1>17. CASE RunLive
  BY <1>17 DEF RunLive
<1>18. CASE MqttDisconnect
  BY <1>18 DEF MqttDisconnect
<1>19. CASE OnConnackFlag
  BY <1>19 DEF OnConnackFlag
<1>20. CASE OnConnackLed
  BY <1>20 DEF OnConnackLed
<1>21. CASE OnDisconnect
  BY <1>21 DEF OnDisconnect, OnMqttDisconnect
<1>22. CASE OnPublish
  BY <1>22 DEF OnPublish, AckSent
<1>22a. CASE AckFails
  BY <1>22a DEF AckFails
<1>23. CASE TimerExpires
  BY <1>23 DEF TimerExpires
<1>24. CASE HandlerStarts
  BY <1>24 DEF HandlerStarts
<1>25. CASE GetPayload
  BY <1>25 DEF GetPayload
<1>26. CASE PublishCall
  BY <1>26 DEF PublishCall
<1>27. CASE PublishSent
  BY <1>27 DEF PublishSent
<1>28. CASE PublishFails
  BY <1>28 DEF PublishFails, OnMqttDisconnect
<1>29. CASE Reschedule
  BY <1>29 DEF Reschedule
<1>30. CASE L4Connected
  BY <1>30 DEF L4Connected
<1>31. CASE L4Disconnected
  BY <1>31 DEF L4Disconnected
<1>32. CASE PeerFails
  BY <1>32 DEF PeerFails
<1>33. CASE StackNotices
  BY <1>33 DEF StackNotices
<1>34. CASE UNCHANGED vars
  BY <1>34 DEF vars
<1>35. QED
  BY <1>1, <1>2, <1>3, <1>4, <1>5, <1>6, <1>7, <1>8, <1>9, <1>10, <1>11,
     <1>12, <1>13, <1>14, <1>15, <1>16, <1>17, <1>18, <1>19, <1>20, <1>21,
     <1>22, <1>22a, <1>23, <1>24, <1>25, <1>26, <1>27, <1>28, <1>29, <1>30, <1>31,
     <1>32, <1>33, <1>34 DEF Next, MainStep, WqStep, EnvStep, Exited

(* With a sensor that does not suspend its reader, the session invariant   *)
(* holds of app_mqtt_connect, app_mqtt_run and publish_work_handler        *)
(* together.                                                               *)
THEOREM SessionCorrect == ASSUME ~SensorBlocks PROVE Spec => []SessionInv
<1>1. Init => SessionInv
  <2>1. Init => FlagAccurate /\ PublisherArmed
    BY DEF Init, FlagAccurate, PublisherArmed, RunStates
  <2>2. Init => OwnerFollowsControl /\ LibFollowsControl
    BY DEF Init, OwnerFollowsControl, LibFollowsControl
  <2>3. QED
    BY <2>1, <2>2, TypeInit DEF SessionInv
<1>2. SessionInv /\ [Next]_vars => SessionInv'
  BY SessionStep, TypeStep, ~SensorBlocks DEF SessionInv
<1>3. QED
  BY <1>1, <1>2, PTL DEF Spec

(* The connection flag agrees with the library outside its callbacks.      *)
THEOREM FlagIsAccurate == ASSUME ~SensorBlocks PROVE Spec => []FlagAccurate
<1>1. SessionInv => FlagAccurate
  BY DEF SessionInv
<1>2. QED
  BY <1>1, SessionCorrect, PTL

(* No run of the handler cancels the publish of a session being served.    *)
THEOREM PublisherStaysArmed ==
    ASSUME ~SensorBlocks PROVE Spec => []PublisherArmed
<1>1. SessionInv => PublisherArmed
  BY DEF SessionInv
<1>2. QED
  BY <1>1, SessionCorrect, PTL

(* mqtt_connect never overwrites an open connection.                       *)
THEOREM NoConnectionLost ==
    ASSUME ~SensorBlocks PROVE Spec => []ConnectOnlyWhenIdle
<1>1. SessionInv => ConnectOnlyWhenIdle
  BY DEF SessionInv, ConnectOnlyWhenIdle, TypeOK, FlagAccurate,
         OwnerFollowsControl, LibFollowsControl, ConnectStates,
         HandshakeStates
<1>2. QED
  BY <1>1, SessionCorrect, PTL

-----------------------------------------------------------------------------
(* The LED goes with the flag once on_mqtt_connect has got to it: whoever  *)
(* clears the one turns the other off, on whichever thread.                *)
LedFollowsFlag == mqtt_connected /\ evt # "led_on" => led_net

LEMMA LedStep ==
    ASSUME LedFollowsFlag, [Next]_vars PROVE LedFollowsFlag'
<1> USE DEF LedFollowsFlag, At, Calls, Goes, Handles, ClientDisconnect,
        Blocks, WriteSucceeds, MainMayRun, mainVars, pubVars, appVars, sessVars, netVars, pollVars
<1>1. CASE NetWait
  BY <1>1 DEF NetWait
<1>2. CASE AppMqttInit
  <2>1. evt = "none" /\ mqtt_connected' = mqtt_connected /\ led_net' = led_net
    BY <1>2, Zenon DEF AppMqttInit
  <2>2. QED
    BY <2>1
<1>3. CASE ConnectEnter
  BY <1>3 DEF ConnectEnter
<1>4. CASE ConnectLoop
  <2>1. evt = "none" /\ mqtt_connected' = mqtt_connected /\ led_net' = led_net
    BY <1>4, Zenon DEF ConnectLoop
  <2>2. QED
    BY <2>1
<1>5. CASE MqttConnectOk
  BY <1>5 DEF MqttConnectOk
<1>6. CASE MqttConnectFails
  BY <1>6 DEF MqttConnectFails
<1>7. CASE Backoff
  BY <1>7 DEF Backoff
<1>8. CASE ConnPoll
  BY <1>8 DEF ConnPoll, PrepareFds, PollReports, PollTimesOut, PollFails
<1>9. CASE ConnInput
  BY <1>9 DEF ConnInput, ConnInputAccepted
<1>10. CASE ConnCheck
  BY <1>10 DEF ConnCheck
<1>11. CASE StartPublishing
  BY <1>11 DEF StartPublishing
<1>12. CASE Subscribe
  BY <1>12 DEF Subscribe
<1>13. CASE RunLoop
  BY <1>13 DEF RunLoop
<1>14. CASE RunPoll
  BY <1>14 DEF RunPoll, PrepareFds, PollReports, PollTimesOut, PollFails
<1>15. CASE RunReady
  BY <1>15 DEF RunReady, InputPublish
<1>16. CASE RunAfterInput
  BY <1>16 DEF RunAfterInput
<1>17. CASE RunLive
  BY <1>17 DEF RunLive
<1>18. CASE MqttDisconnect
  BY <1>18 DEF MqttDisconnect
<1>19. CASE OnConnackFlag
  BY <1>19 DEF OnConnackFlag
<1>20. CASE OnConnackLed
  BY <1>20 DEF OnConnackLed
<1>21. CASE OnDisconnect
  BY <1>21 DEF OnDisconnect, OnMqttDisconnect
<1>22. CASE OnPublish
  BY <1>22 DEF OnPublish, AckSent
<1>22a. CASE AckFails
  BY <1>22a DEF AckFails
<1>23. CASE TimerExpires
  BY <1>23 DEF TimerExpires
<1>24. CASE HandlerStarts
  BY <1>24 DEF HandlerStarts
<1>25. CASE GetPayload
  BY <1>25 DEF GetPayload
<1>26. CASE PublishCall
  BY <1>26 DEF PublishCall
<1>27. CASE PublishSent
  BY <1>27 DEF PublishSent
<1>28. CASE PublishFails
  BY <1>28 DEF PublishFails, OnMqttDisconnect
<1>29. CASE Reschedule
  BY <1>29 DEF Reschedule
<1>30. CASE L4Connected
  BY <1>30 DEF L4Connected
<1>31. CASE L4Disconnected
  BY <1>31 DEF L4Disconnected
<1>32. CASE PeerFails
  BY <1>32 DEF PeerFails
<1>33. CASE StackNotices
  BY <1>33 DEF StackNotices
<1>34. CASE UNCHANGED vars
  BY <1>34 DEF vars
<1>35. QED
  BY <1>1, <1>2, <1>3, <1>4, <1>5, <1>6, <1>7, <1>8, <1>9, <1>10, <1>11,
     <1>12, <1>13, <1>14, <1>15, <1>16, <1>17, <1>18, <1>19, <1>20, <1>21,
     <1>22, <1>22a, <1>23, <1>24, <1>25, <1>26, <1>27, <1>28, <1>29, <1>30, <1>31,
     <1>32, <1>33, <1>34 DEF Next, MainStep, WqStep, EnvStep, Exited

(* While a session is served the network LED is lit, whatever the work     *)
(* queue does between the flag and the LED, with a suspending sensor too.  *)
THEOREM LedIsLit == Spec => []LedLitInSession
<1>1. Init => LedFollowsFlag
  BY DEF Init, LedFollowsFlag
<1>2. LedFollowsFlag => LedLitInSession
  BY DEF LedFollowsFlag, LedLitInSession
<1>3. LedFollowsFlag /\ [Next]_vars => LedFollowsFlag'
  BY LedStep
<1>4. QED
  BY <1>1, <1>2, <1>3, PTL DEF Spec

-----------------------------------------------------------------------------
(* SensorMqtt implements MqttSession.                                      *)

(* A step of the session while nobody publishes.                           *)
LEMMA SessionMoves ==
    ASSUME NEW from, NEW to, phaseBar = from, phaseBar' = to,
           wq # "sending", wq' # "sending"
    PROVE  Session!Moves(from, to)
BY DEF Session!Moves

(* A step that leaves client, flag and the sending handler alone, and      *)
(* neither begins nor ends a mqtt_connect, is none of the session's.       *)
LEMMA SessionRests ==
    ASSUME lib' = lib, mqtt_connected' = mqtt_connected,
           wq' = "sending" <=> wq = "sending",
           main' = "connecting" <=> main = "connecting"
    PROVE  UNCHANGED Session!vars
<1>1. phaseBar' = phaseBar
  BY DEF phaseBar
<1>2. (wq = "sending")' = (wq = "sending")
  OBVIOUS
<1>3. QED
  BY <1>1, <1>2 DEF Session!vars

(* The client drops its connection in a call of main.  Where main may make *)
(* such a call the handler is not in the library, and the session was      *)
(* either served or not yet accepted.                                      *)
LEMMA DropIsLoss ==
    ASSUME SessionInv, TypeOK', NEW t, t # "connecting", ClientDisconnect(t),
           lib # "idle", evt \in {"none", "publish"}, main # "connecting",
           wq # "sending"
    PROVE  Session!Next
<1>1. /\ lib' = "idle" /\ mqtt_connected' = mqtt_connected /\ wq' = wq
      /\ main' # "connecting"
  BY DEF ClientDisconnect, appVars, pubVars
<1>2. CASE lib = "connected"
  <2>1. mqtt_connected
    BY <1>2 DEF SessionInv, FlagAccurate
  <2>2. phaseBar = "served" /\ phaseBar' = "lost"
    BY <1>1, <1>2, <2>1 DEF phaseBar
  <2>3. Session!Lose
    BY <1>1, <2>2, SessionMoves DEF Session!Lose
  <2>4. QED
    BY <2>3 DEF Session!Next
<1>3. CASE lib = "connecting"
  <2>1. ~mqtt_connected
    BY <1>3 DEF SessionInv, FlagAccurate
  <2>2. phaseBar = "opening" /\ phaseBar' = "none"
    BY <1>1, <1>3, <2>1 DEF phaseBar
  <2>3. Session!Refuse
    BY <1>1, <2>2, SessionMoves DEF Session!Refuse
  <2>4. QED
    BY <2>3 DEF Session!Next
<1>4. QED
  BY <1>2, <1>3 DEF SessionInv, TypeOK

(* The steps that are none of the session's: main between its calls, the   *)
(* handler before and after its publish, timer and network.                *)
LEMMA QuietSteps ==
    ASSUME SessionInv,
           \/ NetWait \/ AppMqttInit \/ ConnectEnter \/ Backoff \/ ConnPoll
           \/ StartPublishing \/ RunLoop \/ RunPoll \/ RunAfterInput
           \/ OnConnackLed \/ OnPublish \/ TimerExpires \/ HandlerStarts
           \/ GetPayload \/ Reschedule \/ EnvStep \/ Exited
    PROVE  UNCHANGED Session!vars
<1> USE DEF At, Goes, Handles, mainVars, pubVars, appVars, sessVars, netVars,
            pollVars
<1>1. CASE NetWait
  BY <1>1, SessionRests DEF NetWait
<1>2. CASE AppMqttInit
  BY <1>2, SessionRests DEF AppMqttInit
<1>3. CASE ConnectEnter
  <2>1. evt = "none" /\ lib = "idle"
    BY <1>3 DEF ConnectEnter, SessionInv, LibFollowsControl
  <2>2. mqtt_connected' = mqtt_connected
    BY <1>3, <2>1 DEF ConnectEnter, SessionInv, FlagAccurate, TypeOK
  <2>3. QED
    BY <1>3, <2>2, SessionRests DEF ConnectEnter
<1>4. CASE Backoff
  BY <1>4, SessionRests DEF Backoff
<1>5. CASE ConnPoll
  BY <1>5, SessionRests
     DEF ConnPoll, PrepareFds, PollReports, PollTimesOut, PollFails
<1>6. CASE StartPublishing
  BY <1>6, SessionRests DEF StartPublishing
<1>7. CASE RunLoop
  BY <1>7, SessionRests DEF RunLoop
<1>8. CASE RunPoll
  BY <1>8, SessionRests
     DEF RunPoll, PrepareFds, PollReports, PollTimesOut, PollFails
<1>9. CASE RunAfterInput
  BY <1>9, SessionRests DEF RunAfterInput
<1>10. CASE OnConnackLed
  BY <1>10, SessionRests DEF OnConnackLed
<1>11. CASE OnPublish
  BY <1>11, SessionRests DEF OnPublish, AckSent
<1>12. CASE TimerExpires
  BY <1>12, SessionRests DEF TimerExpires
<1>13. CASE HandlerStarts
  BY <1>13, SessionRests DEF HandlerStarts
<1>14. CASE GetPayload
  BY <1>14, SessionRests DEF GetPayload
<1>15. CASE Reschedule
  BY <1>15, SessionRests DEF Reschedule
<1>16. CASE EnvStep
  BY <1>16, SessionRests
     DEF EnvStep, L4Connected, L4Disconnected, PeerFails, StackNotices
<1>17. CASE Exited
  BY <1>17, SessionRests DEF Exited, vars
<1>18. QED
  BY <1>1, <1>2, <1>3, <1>4, <1>5, <1>6, <1>7, <1>8, <1>9, <1>10, <1>11,
     <1>12, <1>13, <1>14, <1>15, <1>16, <1>17

(* app_mqtt_connect: mqtt_connect, the wait for CONNACK and giving it up.  *)
LEMMA ConnectSteps ==
    ASSUME SessionInv, TypeOK',
           \/ ConnectLoop \/ MqttConnectOk \/ MqttConnectFails
           \/ ConnInput \/ ConnCheck
    PROVE  [Session!Next]_Session!vars
<1> USE DEF At, Calls
<1>1. CASE ConnectLoop
  <2>1. CASE Goes("arm")
    BY <1>1, <2>1, SessionRests DEF Goes, ConnectLoop, pubVars, appVars,
                                    sessVars
  <2>2. CASE Calls("try") /\ ~mqtt_connected /\ Blocks("connecting")
    <3>1. evt = "none" /\ owner = "none" /\ lib # "connected"
              /\ lib # "connecting"
      BY <2>2 DEF SessionInv, FlagAccurate, LibFollowsControl,
                  HandshakeStates
    <3>2. wq # "sending" /\ wq' = wq
      BY <2>2, <3>1 DEF SessionInv, OwnerFollowsControl, Blocks, pubVars
    <3>3. phaseBar = "none" /\ phaseBar' = "dialing"
      BY <2>2, <3>1 DEF phaseBar, Blocks
    <3>4. Session!Dial
      BY <3>2, <3>3, SessionMoves DEF Session!Dial
    <3>5. QED
      BY <3>4 DEF Session!Next
  <2>3. QED
    BY <1>1, <2>1, <2>2 DEF ConnectLoop
<1>2. CASE MqttConnectOk \/ MqttConnectFails
  <2>1. lib = "idle" /\ owner = "main" /\ evt = "none"
    BY <1>2 DEF MqttConnectOk, MqttConnectFails, SessionInv,
                LibFollowsControl, OwnerFollowsControl
  <2>2. ~mqtt_connected /\ wq # "sending"
    BY <2>1 DEF SessionInv, FlagAccurate, LibFollowsControl
  <2>3. wq' = wq /\ mqtt_connected' = mqtt_connected
    BY <1>2 DEF MqttConnectOk, MqttConnectFails, pubVars, appVars
  <2>4. CASE MqttConnectOk
    <3>1. phaseBar = "dialing" /\ phaseBar' = "opening"
      BY <2>4 DEF MqttConnectOk, phaseBar
    <3>2. Session!Open
      BY <2>2, <2>3, <3>1, SessionMoves DEF Session!Open
    <3>3. QED
      BY <3>2 DEF Session!Next
  <2>5. CASE MqttConnectFails
    <3>1. phaseBar = "dialing" /\ phaseBar' = "none"
      BY <2>2, <2>3, <2>5 DEF MqttConnectFails, phaseBar
    <3>2. Session!Refuse
      BY <2>2, <2>3, <3>1, SessionMoves DEF Session!Refuse
    <3>3. QED
      BY <3>2 DEF Session!Next
  <2>6. QED
    BY <1>2, <2>4, <2>5
<1>3. CASE ConnInput
  <2>1. main = "conn_input" /\ evt = "none" /\ owner = "none"
            /\ wq # "sending"
    BY <1>3 DEF ConnInput, ConnInputAccepted, SessionInv,
                OwnerFollowsControl
  <2>2. CASE ConnInputAccepted
    <3>1. ~mqtt_connected
      BY <2>1, <2>2 DEF ConnInputAccepted, SessionInv, FlagAccurate
    <3>2. phaseBar = "opening" /\ phaseBar' = "accepted" /\ wq' = wq
      BY <2>1, <2>2, <3>1 DEF ConnInputAccepted, phaseBar, pubVars, appVars
    <3>3. Session!Accept
      BY <2>1, <3>2, SessionMoves DEF Session!Accept
    <3>4. QED
      BY <3>3 DEF Session!Next
  <2>3. CASE Goes("conn_check")
    BY <2>1, <2>3, SessionRests DEF Goes, pubVars, appVars, sessVars
  <2>4. CASE lib # "idle" /\ ClientDisconnect("conn_check")
    BY <2>1, <2>4, DropIsLoss
  <2>5. QED
    BY <1>3, <2>2, <2>3, <2>4 DEF ConnInput
<1>4. CASE ConnCheck
  <2>1. CASE Goes("try")
    BY <1>4, <2>1, SessionRests DEF ConnCheck, Goes, pubVars, appVars,
                                    sessVars, ClientDisconnect
  <2>2. CASE Calls("conn_check") /\ lib # "idle" /\ ClientDisconnect("try")
    BY <2>2, DropIsLoss DEF SessionInv, OwnerFollowsControl
  <2>3. QED
    BY <1>4, <2>1, <2>2 DEF ConnCheck
<1>5. QED
  BY <1>1, <1>2, <1>3, <1>4

(* app_mqtt_run: every call of main that may drop the session is made      *)
(* while the handler is not in the library.                                *)
LEMMA ServeSteps ==
    ASSUME SessionInv, TypeOK',
           Subscribe \/ RunReady \/ RunLive \/ MqttDisconnect
    PROVE  [Session!Next]_Session!vars
<1> USE DEF At, Calls
<1>1. /\ evt = "none"
      /\ main \in {"subscribing", "living", "disconnecting"}
            => lib = "connected" /\ wq # "sending"
      /\ owner = "none" => wq # "sending"
  BY DEF Subscribe, RunReady, RunLive, MqttDisconnect, SessionInv,
         LibFollowsControl, OwnerFollowsControl, InputPublish
<1>2. ASSUME NEW t, t # "connecting", main # "connecting",
             \/ Goes(t) \/ Blocks(t) \/ WriteSucceeds(t)
             \/ InputPublish /\ t = "run_after"
      PROVE  UNCHANGED Session!vars
  BY <1>2, SessionRests
     DEF Goes, Blocks, WriteSucceeds, InputPublish, pubVars, appVars,
         sessVars
<1>3. ASSUME NEW t, t # "connecting", main # "connecting",
             lib = "connected", wq # "sending", ClientDisconnect(t)
      PROVE  Session!Next
  BY <1>1, <1>3, DropIsLoss
<1>4. CASE Subscribe
  BY <1>1, <1>2, <1>3, <1>4 DEF Subscribe
<1>5. CASE RunReady
  BY <1>1, <1>2, <1>3, <1>5 DEF RunReady
<1>6. CASE RunLive
  BY <1>1, <1>2, <1>3, <1>6 DEF RunLive
<1>7. CASE MqttDisconnect
  BY <1>1, <1>2, <1>3, <1>7 DEF MqttDisconnect
<1>8. QED
  BY <1>4, <1>5, <1>6, <1>7

(* The callbacks in main tell the application of the new session, and of   *)
(* the lost one; an acknowledgement that fails loses one.                  *)
LEMMA CallbackSteps ==
    ASSUME SessionInv, TypeOK', OnConnackFlag \/ OnDisconnect \/ AckFails
    PROVE  [Session!Next]_Session!vars
<1> USE DEF Handles
<1>1. CASE OnConnackFlag
  <2>1. main = "conn_check" /\ lib = "connected" /\ ~mqtt_connected
            /\ wq = "idle"
    BY <1>1 DEF OnConnackFlag, SessionInv, LibFollowsControl
  <2>2. phaseBar = "accepted" /\ phaseBar' = "served" /\ wq' = wq
    BY <1>1, <2>1 DEF OnConnackFlag, phaseBar, sessVars, pubVars
  <2>3. Session!Serve
    BY <2>1, <2>2, SessionMoves DEF Session!Serve
  <2>4. QED
    BY <2>3 DEF Session!Next
<1>2. CASE OnDisconnect
  <2>1. lib = "idle" /\ wq # "sending" /\ owner # "main"
            /\ main # "connecting"
    BY <1>2 DEF OnDisconnect, SessionInv, LibFollowsControl,
                OwnerFollowsControl
  <2>2. lib' = lib /\ wq' = wq /\ main' = main /\ ~mqtt_connected'
    BY <1>2 DEF OnDisconnect, OnMqttDisconnect, sessVars, pubVars
  <2>3. CASE mqtt_connected
    <3>1. phaseBar = "lost" /\ phaseBar' = "none"
      BY <2>1, <2>2, <2>3 DEF phaseBar
    <3>2. Session!Notice
      BY <2>1, <2>2, <3>1, SessionMoves DEF Session!Notice
    <3>3. QED
      BY <3>2 DEF Session!Next
  <2>4. CASE ~mqtt_connected
    <3>1. phaseBar = "none" /\ phaseBar' = "none"
      BY <2>1, <2>2, <2>4 DEF phaseBar
    <3>2. (wq = "sending")' = (wq = "sending")
      BY <2>2
    <3>3. QED
      BY <3>1, <3>2 DEF Session!vars
  <2>5. QED
    BY <2>3, <2>4
<1>3. CASE AckFails
  <2>1. main # "connecting" /\ lib = "connected" /\ wq # "sending"
    BY <1>3 DEF AckFails, SessionInv, LibFollowsControl, OwnerFollowsControl
  <2>2. QED
    BY <1>3, <2>1, DropIsLoss DEF AckFails
<1>4. QED
  BY <1>1, <1>2, <1>3

(* The handler's publish.  A handler that finds the client connected and   *)
(* nobody in the library finds the session served: the CONNACK callback    *)
(* has run, and no DISCONNECT callback is pending.                         *)
LEMMA PublishSteps ==
    ASSUME SessionInv, PublishCall \/ PublishSent \/ PublishFails
    PROVE  [Session!Next]_Session!vars
<1>1. CASE PublishCall
  <2>1. wq = "publish" /\ owner = "none" /\ main' = main
            /\ main # "connecting"
    BY <1>1 DEF PublishCall, SessionInv, OwnerFollowsControl, mainVars
  <2>2. CASE lib = "connected"
    <3>1. evt # "connack" /\ evt # "disc"
      BY <2>1, <2>2 DEF SessionInv, LibFollowsControl
    <3>2. mqtt_connected
      BY <2>2, <3>1 DEF SessionInv, FlagAccurate
    <3>3. phaseBar = "served" /\ phaseBar' = "served"
      BY <1>1, <2>1, <2>2, <3>2 DEF PublishCall, phaseBar, appVars
    <3>4. wq # "sending" /\ wq' = "sending"
      BY <1>1, <2>1, <2>2 DEF PublishCall
    <3>5. Session!Publish
      BY <3>3, <3>4 DEF Session!Publish
    <3>6. QED
      BY <3>5 DEF Session!Next
  <2>3. CASE lib # "connected"
    BY <1>1, <2>1, <2>3, SessionRests DEF PublishCall, appVars
  <2>4. QED
    BY <2>2, <2>3
<1>2. CASE PublishSent \/ PublishFails
  <2>1. wq = "sending" /\ wq' = "resched" /\ main' = main
            /\ main # "connecting"
    BY <1>2 DEF PublishSent, PublishFails, SessionInv, OwnerFollowsControl,
                mainVars
  <2>2. CASE PublishSent
    <3>1. phaseBar' = phaseBar
      BY <2>1, <2>2 DEF PublishSent, phaseBar, appVars
    <3>2. Session!Sent
      BY <2>1, <3>1 DEF Session!Sent
    <3>3. QED
      BY <3>2 DEF Session!Next
  <2>3. CASE PublishFails
    <3>1. phaseBar' = "none"
      BY <2>1, <2>3 DEF PublishFails, OnMqttDisconnect, phaseBar
    <3>2. Session!Fail
      BY <2>1, <3>1 DEF Session!Fail
    <3>3. QED
      BY <3>2 DEF Session!Next
  <2>4. QED
    BY <1>2, <2>2, <2>3
<1>3. QED
  BY <1>1, <1>2

(* Every step of the program is a step of the session, or none.            *)
LEMMA SessionMaps ==
    ASSUME SessionInv, SessionInv', [Next]_vars
    PROVE  [Session!Next]_Session!vars
<1>1. TypeOK'
  BY DEF SessionInv
<1>2. CASE UNCHANGED vars
  BY <1>2, SessionRests DEF vars
<1>3. QED
  BY <1>1, <1>2, QuietSteps, ConnectSteps, ServeSteps, CallbackSteps,
     PublishSteps
     DEF Next, MainStep, WqStep

(* With a sensor that does not suspend its reader, the application         *)
(* implements MqttSession: one session at a time, served only once it was  *)
(* accepted, published into only while it is served, ended by nobody else  *)
(* during a publish, and dialled again only after its loss was noticed.    *)
THEOREM SessionRefined == ASSUME ~SensorBlocks PROVE Spec => RefinesSession
<1>1. Init => Session!Init
  <2>1. Init => phaseBar = "none" /\ wq # "sending"
    BY DEF Init, phaseBar
  <2>2. QED
    BY <2>1 DEF Session!Init
<1>2. SessionInv /\ SessionInv' /\ [Next]_vars
          => [Session!Next]_Session!vars
  BY SessionMaps
<1>3. QED
  BY <1>1, <1>2, SessionCorrect, PTL DEF Spec, RefinesSession, Session!Spec
=============================================================================
