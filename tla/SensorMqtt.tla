------------------------------ MODULE SensorMqtt ------------------------------
(***************************************************************************)
(* The MQTT sensor/actuator application, wifi/sensor_mqtt.                 *)
(*                                                                         *)
(* Three contexts run the code:                                            *)
(*   - the main thread: waits for the network, then for ever connects      *)
(*     (app_mqtt_connect), arms the periodic publish and serves the        *)
(*     session (app_mqtt_run);                                             *)
(*   - the system work queue: publish_work_handler.  Its thread is         *)
(*     cooperative and of higher priority than main, so main only runs     *)
(*     while the work queue is idle or blocked (MainMayRun);               *)
(*   - the network manager's thread: net_l4_evt_handler.                   *)
(* The MQTT library, its socket and the broker are external: they are      *)
(* modelled by the calls and the events the application exchanges with     *)
(* them.  The library serialises its calls with a mutex (owner), keeps it  *)
(* while a call blocks in the socket, and releases it around the event     *)
(* callback, which runs in the context of the call that raised the event.  *)
(***************************************************************************)
EXTENDS Naturals

CONSTANTS
    SensorBlocks,  \* a sensor is fitted, and reading it suspends the caller
    MaxDrops       \* bound: how often the environment breaks the network

ASSUME SensorBlocksAssumption == SensorBlocks \in BOOLEAN
ASSUME MaxDropsAssumption == MaxDrops \in Nat

VARIABLES
    main,            \* where the main thread is
    evt,             \* library event whose callback main has yet to run
    wq,              \* where publish_work_handler is
    timer, queued,   \* mqtt_publish_work: delay running, in the queue
    mqtt_connected,  \* the application's connection flag
    led_net, led_user,
    nfds, revents,   \* the poll set, and what the last poll reported
    net_conn_sem,    \* count of the network semaphore, limit 1
    l4,              \* the network interface has connectivity
    lib,             \* state of the library's client
    owner,           \* who is inside the library
    link,            \* the TCP connection under the client
    txSincePoll,     \* something was sent since main began to poll
    drops

mainVars == <<main, evt>>
pubVars == <<wq, timer, queued>>
appVars == <<mqtt_connected, led_net, nfds>>
sessVars == <<lib, owner, link>>
netVars == <<net_conn_sem, l4, drops>>
pollVars == <<revents, txSincePoll>>
vars == <<main, evt, wq, timer, queued, mqtt_connected, led_net,
          led_user, nfds, revents, net_conn_sem, l4, lib, owner, link,
          txSincePoll, drops>>

ConnectStates == {"connect", "try", "connecting", "backoff"}
HandshakeStates == {"conn_prep", "conn_poll", "conn_input", "conn_check"}
RunStates == {"subscribe", "subscribing", "run", "run_prep", "run_poll",
              "run_ready", "run_after", "run_live", "living"}
MainStates == {"net_wait", "init", "exited", "arm", "disconnect",
               "disconnecting"} \cup ConnectStates \cup HandshakeStates
                                \cup RunStates
Events == {"none", "connack", "led_on", "disc", "publish"}
WqStates == {"idle", "sample", "publish", "sending", "resched"}
LinkStates == {"none", "good", "dead", "unacked", "reset"}

TypeOK ==
    /\ main \in MainStates
    /\ evt \in Events
    /\ wq \in WqStates
    /\ timer \in BOOLEAN /\ queued \in BOOLEAN
    /\ mqtt_connected \in BOOLEAN
    /\ led_net \in BOOLEAN /\ led_user \in BOOLEAN
    /\ nfds \in {0, 1} /\ revents \in SUBSET {"IN", "HUP"}
    /\ net_conn_sem \in {0, 1} /\ l4 \in BOOLEAN
    /\ lib \in {"idle", "connecting", "connected"}
    /\ owner \in {"none", "main", "wq"}
    /\ link \in LinkStates
    /\ txSincePoll \in BOOLEAN
    /\ drops \in 0 .. MaxDrops

Init ==
    /\ main = "net_wait" /\ evt = "none"
    /\ wq = "idle" /\ timer = FALSE /\ queued = FALSE
    /\ mqtt_connected = FALSE /\ led_net = FALSE /\ led_user = FALSE
    /\ nfds = 0 /\ revents = {}
    /\ net_conn_sem = 0 /\ l4 = FALSE
    /\ lib = "idle" /\ owner = "none" /\ link = "none"
    /\ txSincePoll = FALSE /\ drops = 0

-----------------------------------------------------------------------------
(* Scheduling                                                              *)

(* The work queue's thread is cooperative and outranks main: main runs     *)
(* only while the handler is not running, waits for the library's mutex,   *)
(* or is suspended in the socket (or in a sensor that suspends).           *)
MainMayRun ==
    \/ wq = "idle"
    \/ wq = "sample" /\ SensorBlocks
    \/ wq = "publish" /\ owner = "main"
    \/ wq = "sending"

(* main at control state s with no callback to run.                        *)
At(s) == main = s /\ evt = "none" /\ MainMayRun

(* main at s enters a library call: the mutex is free.                     *)
Calls(s) == At(s) /\ owner = "none"

(* main moves on to t, and nothing but main's control state changes.       *)
Goes(t) == /\ main' = t /\ evt' = "none"
           /\ UNCHANGED <<pubVars, appVars, led_user, sessVars, netVars,
                          pollVars>>

-----------------------------------------------------------------------------
(* Library calls                                                           *)

(* The client drops the connection; the DISCONNECT event is pending.       *)
ClientDisconnect(t) ==
    /\ lib' = "idle" /\ link' = "none" /\ owner' = "none"
    /\ main' = t /\ evt' = "disc"
    /\ UNCHANGED <<pubVars, appVars, led_user, netVars, pollVars>>

(* main keeps the mutex while the call blocks in the socket.               *)
Blocks(t) == /\ owner' = "main" /\ main' = t /\ evt' = "none"
             /\ UNCHANGED <<pubVars, appVars, led_user, lib, link, netVars,
                            pollVars>>

(* The socket accepts a write unless the stack knows that the peer is      *)
(* gone; data sent to a silent peer stays unacknowledged.                  *)
Writable == link \in {"good", "dead", "unacked"}
AfterWrite == IF link = "dead" THEN "unacked" ELSE link

(* A blocking call of main writes its packet, and returns to t.            *)
WriteSucceeds(t) ==
    /\ Writable /\ link' = AfterWrite /\ owner' = "none"
    /\ main' = t /\ evt' = "none"
    /\ UNCHANGED <<pubVars, appVars, led_user, lib, netVars, pollVars>>

-----------------------------------------------------------------------------
(* Network manager                                                         *)

(* NET_EVENT_L4_CONNECTED gives the semaphore, whose limit is 1.           *)
L4Connected ==
    /\ ~l4 /\ l4' = TRUE
    /\ net_conn_sem' = 1
    /\ UNCHANGED <<mainVars, pubVars, appVars, led_user, sessVars, pollVars,
                   drops>>

(* NET_EVENT_L4_DISCONNECTED is only logged: the session is not told.      *)
L4Disconnected ==
    /\ l4 /\ drops < MaxDrops
    /\ l4' = FALSE /\ drops' = drops + 1
    /\ link' = IF link = "good" THEN "dead" ELSE link
    /\ UNCHANGED <<mainVars, pubVars, appVars, led_user, lib, owner, pollVars,
                   net_conn_sem>>

(* The broker or the path to it fails, silently or with a reset.           *)
PeerFails ==
    /\ link = "good" /\ drops < MaxDrops
    /\ drops' = drops + 1
    /\ link' \in {"dead", "reset"}
    /\ UNCHANGED <<mainVars, pubVars, appVars, led_user, lib, owner, pollVars,
                   net_conn_sem, l4>>

(* TCP gives up retransmitting: from now on writes fail.                   *)
StackNotices ==
    /\ link = "unacked" /\ link' = "reset"
    /\ UNCHANGED <<mainVars, pubVars, appVars, led_user, lib, owner, netVars,
                   pollVars>>

-----------------------------------------------------------------------------
(* Main thread: start                                                      *)

(* Without a network interface main returns before it waits for one.       *)
NetWait ==
    \/ /\ At("net_wait") /\ net_conn_sem = 1
       /\ net_conn_sem' = 0 /\ main' = "init" /\ evt' = "none"
       /\ UNCHANGED <<pubVars, appVars, led_user, sessVars, l4, drops, pollVars>>
    \/ At("net_wait") /\ Goes("exited")

AppMqttInit == At("init") /\ (Goes("connect") \/ Goes("exited"))

-----------------------------------------------------------------------------
(* Main thread: app_mqtt_connect                                           *)

ConnectEnter ==
    /\ At("connect")
    /\ mqtt_connected' = FALSE
    /\ main' = "try" /\ evt' = "none"
    /\ UNCHANGED <<pubVars, led_net, nfds, led_user, sessVars, netVars,
                   pollVars>>

ConnectLoop ==
    \/ At("try") /\ mqtt_connected /\ Goes("arm")
    \/ Calls("try") /\ ~mqtt_connected /\ Blocks("connecting")

(* The TCP and TLS handshakes need the network.                            *)
MqttConnectOk ==
    /\ At("connecting") /\ l4
    /\ lib' = "connecting" /\ link' = "good" /\ owner' = "none"
    /\ main' = "conn_prep" /\ evt' = "none"
    /\ UNCHANGED <<pubVars, appVars, led_user, netVars, pollVars>>

(* A refused or timed out connection raises no event.                      *)
MqttConnectFails ==
    /\ At("connecting")
    /\ lib' = "idle" /\ link' = "none" /\ owner' = "none"
    /\ main' = "backoff" /\ evt' = "none"
    /\ UNCHANGED <<pubVars, appVars, led_user, netVars, pollVars>>

Backoff == At("backoff") /\ Goes("try")

PrepareFds(from, to) ==
    /\ At(from)
    /\ nfds' = 1 /\ main' = to /\ evt' = "none"
    /\ txSincePoll' = FALSE
    /\ UNCHANGED <<pubVars, mqtt_connected, led_net, led_user, sessVars,
                   netVars, revents>>

(* What the socket may report: data until the peer is known to be gone,    *)
(* then a hang-up or an error, with or without POLLIN.                     *)
Reports ==
    IF link \in {"good", "dead", "unacked"} THEN {{"IN"}}
    ELSE IF link = "reset" THEN {{"HUP"}, {"IN", "HUP"}}
    ELSE SUBSET {"IN", "HUP"}  \* closed: POLLNVAL is neither

(* poll_mqtt_socket returns a positive count.                              *)
PollReports(from, to) ==
    /\ At(from) /\ nfds > 0
    /\ revents' \in Reports
    /\ main' = to /\ evt' = "none"
    /\ UNCHANGED <<pubVars, appVars, led_user, sessVars, netVars, txSincePoll>>

(* poll_mqtt_socket returns 0; a socket known to be in error is reported   *)
(* at once, so the poll does not time out on it.                           *)
PollTimesOut(from, to) ==
    /\ At(from) /\ link # "reset"
    /\ revents' = {}
    /\ main' = to /\ evt' = "none"
    /\ UNCHANGED <<pubVars, appVars, led_user, sessVars, netVars, txSincePoll>>

(* poll_mqtt_socket returns a negative code and leaves revents alone: the  *)
(* work queue has emptied the poll set, or the socket is gone.             *)
PollFails(from, to) ==
    At(from) /\ (nfds = 0 \/ link = "none") /\ Goes(to)

ConnPoll ==
    \/ PrepareFds("conn_prep", "conn_poll")
    \/ PollReports("conn_poll", "conn_input")
    \/ PollTimesOut("conn_poll", "conn_check")
    \/ PollFails("conn_poll", "conn_check")

(* mqtt_input reads an accepting CONNACK.                                  *)
ConnInputAccepted ==
    /\ Calls("conn_input") /\ lib = "connecting" /\ "IN" \in revents
    /\ lib' = "connected"
    /\ main' = "conn_check" /\ evt' = "connack"
    /\ UNCHANGED <<pubVars, appVars, led_user, owner, link, netVars, pollVars>>

(* ... or part of a packet; or a refusal or a socket error: the client     *)
(* drops the connection.                                                   *)
ConnInput ==
    \/ ConnInputAccepted
    \/ Calls("conn_input") /\ Goes("conn_check")
    \/ Calls("conn_input") /\ lib # "idle" /\ ClientDisconnect("conn_check")

(* Variant: no mqtt_abort when the CONNACK did not come in time.           *)
ConnCheckNoAbort == At("conn_check") /\ Goes("try")

ConnCheck ==
    \/ At("conn_check") /\ mqtt_connected /\ Goes("try")
    \/ /\ Calls("conn_check") /\ ~mqtt_connected
       /\ IF lib = "idle" THEN Goes("try") ELSE ClientDisconnect("try")

-----------------------------------------------------------------------------
(* Main thread: publishing begins, app_mqtt_run                            *)

(* Variant: the publish work item is not scheduled for the new session.    *)
StartPublishingUnscheduled ==
    /\ At("arm") /\ main' = "subscribe" /\ evt' = "none"
    /\ UNCHANGED <<pubVars, appVars, led_user, sessVars, netVars, pollVars>>

StartPublishing ==
    /\ At("arm")
    /\ timer' = TRUE
    /\ main' = "subscribe" /\ evt' = "none"
    /\ UNCHANGED <<wq, queued, appVars, led_user, sessVars, netVars,
                   pollVars>>

(* The result of app_mqtt_subscribe is ignored.                            *)
Subscribe ==
    \/ Calls("subscribe") /\ lib = "connected" /\ Blocks("subscribing")
    \/ Calls("subscribe") /\ lib # "connected" /\ Goes("run")
    \/ At("subscribing") /\ WriteSucceeds("run")
    \/ At("subscribing") /\ ClientDisconnect("run")

(* Variant: the loop of app_mqtt_run does not look at the flag.            *)
RunLoopForEver == At("run") /\ Goes("run_prep")

RunLoop == At("run") /\ Goes(IF mqtt_connected THEN "run_prep"
                                              ELSE "disconnect")

RunPoll ==
    \/ PrepareFds("run_prep", "run_poll")
    \/ PollReports("run_poll", "run_ready")
    \/ PollTimesOut("run_poll", "run_live")
    \/ PollFails("run_poll", "run_ready")

(* mqtt_input delivers a PUBLISH on the command topic.                     *)
InputPublish ==
    /\ lib = "connected"
    /\ main' = "run_after" /\ evt' = "publish"
    /\ UNCHANGED <<pubVars, appVars, led_user, sessVars, netVars, pollVars>>

(* app_mqtt_process after the poll returned nonzero: without POLLIN the    *)
(* report is ignored, whatever it says.                                    *)
RunReady ==
    \/ At("run_ready") /\ "IN" \notin revents /\ Goes("run")
    \/ /\ Calls("run_ready") /\ "IN" \in revents
       /\ \/ InputPublish
          \/ lib = "connected" /\ link # "reset" /\ Goes("run_after")
          \/ lib = "connected" /\ ClientDisconnect("disconnect")
          \/ Goes("disconnect")  \* -ENOTCONN, -EBUSY: no event

(* The socket's error is looked at only after a successful mqtt_input.     *)
RunAfterInput ==
    At("run_after") /\ Goes(IF "HUP" \in revents THEN "disconnect" ELSE "run")

(* mqtt_live pings when nothing was sent for a keep-alive interval, which  *)
(* is when the poll that began after the last transmission timed out.      *)
(* Otherwise it returns -EAGAIN, and app_mqtt_process fails.               *)
RunLive ==
    \/ At("run_live") /\ owner = "none" /\ txSincePoll /\ Goes("disconnect")
    \/ /\ Calls("run_live") /\ ~txSincePoll
       /\ IF lib = "connected" THEN Blocks("living") ELSE Goes("disconnect")
    \/ At("living") /\ WriteSucceeds("run")
    \/ At("living") /\ ClientDisconnect("disconnect")

MqttDisconnect ==
    \/ Calls("disconnect") /\ lib = "connected" /\ Blocks("disconnecting")
    \/ Calls("disconnect") /\ lib # "connected" /\ Goes("connect")
    \/ At("disconnecting") /\ ClientDisconnect("connect")

-----------------------------------------------------------------------------
(* Main thread: mqtt_event_handler                                         *)

Handles(e) == evt = e /\ MainMayRun

(* on_mqtt_connect sets the flag, then lights the LED: the work queue may  *)
(* run in between.                                                         *)
OnConnackFlag ==
    /\ Handles("connack")
    /\ mqtt_connected' = TRUE
    /\ evt' = "led_on" /\ main' = main
    /\ UNCHANGED <<pubVars, led_net, nfds, led_user, sessVars, netVars,
                   pollVars>>

(* Variant: on_mqtt_connect forgets the LED.                               *)
OnConnackNoLed ==
    /\ Handles("led_on") /\ evt' = "none" /\ main' = main
    /\ UNCHANGED <<pubVars, appVars, led_user, sessVars, netVars, pollVars>>

OnConnackLed ==
    /\ Handles("led_on")
    /\ led_net' = TRUE
    /\ evt' = "none" /\ main' = main
    /\ UNCHANGED <<pubVars, mqtt_connected, nfds, led_user, sessVars, netVars,
                   pollVars>>

(* Variant: on_mqtt_disconnect leaves the flag set.                        *)
OnMqttDisconnectKeepsFlag ==
    mqtt_connected' = mqtt_connected /\ nfds' = 0 /\ led_net' = FALSE

OnMqttDisconnect == mqtt_connected' = FALSE /\ nfds' = 0 /\ led_net' = FALSE

OnDisconnect ==
    /\ Handles("disc")
    /\ OnMqttDisconnect
    /\ evt' = "none" /\ main' = main
    /\ UNCHANGED <<pubVars, led_user, sessVars, netVars, pollVars>>

(* A message of QoS 1 or 2 is acknowledged first, if the client has not    *)
(* been disconnected meanwhile; a failing write drops the connection.      *)
AckFails == /\ Handles("publish") /\ owner = "none" /\ lib = "connected"
            /\ ClientDisconnect(main)

AckSent == /\ owner = "none" /\ lib = "connected" /\ Writable
           /\ link' = AfterWrite /\ txSincePoll' = TRUE
           /\ UNCHANGED <<lib, owner, revents>>

(* The payload is led_on, led_off, unknown or unreadable.                  *)
OnPublish ==
    /\ Handles("publish")
    /\ AckSent \/ UNCHANGED <<sessVars, pollVars>>
    /\ led_user' \in BOOLEAN
    /\ evt' = "none" /\ main' = main
    /\ UNCHANGED <<pubVars, appVars, netVars>>

-----------------------------------------------------------------------------
(* System work queue: publish_work_handler                                 *)

TimerExpires ==
    /\ timer /\ timer' = FALSE /\ queued' = TRUE
    /\ UNCHANGED <<mainVars, wq, appVars, led_user, sessVars, netVars,
                   pollVars>>

(* The flag decides between a publish and cancelling the work item.        *)
HandlerStarts ==
    /\ wq = "idle" /\ queued
    /\ queued' = FALSE
    /\ IF mqtt_connected THEN wq' = "sample" /\ timer' = timer
                         ELSE wq' = "idle" /\ timer' = FALSE
    /\ UNCHANGED <<mainVars, appVars, led_user, sessVars, netVars,
                   pollVars>>

(* The publish goes ahead though the sensor read has failed.               *)
GetPayload ==
    /\ wq = "sample"
    /\ wq' = "publish"
    /\ UNCHANGED <<mainVars, timer, queued, appVars, led_user, sessVars,
                   netVars, pollVars>>

PublishCall ==
    /\ wq = "publish" /\ owner = "none"
    /\ IF lib = "connected" THEN wq' = "sending" /\ owner' = "wq"
                            ELSE wq' = "resched" /\ owner' = "none"
    /\ UNCHANGED <<mainVars, timer, queued, appVars, led_user, lib,
                   link, netVars, pollVars>>

PublishSent ==
    /\ wq = "sending" /\ Writable
    /\ link' = AfterWrite /\ txSincePoll' = TRUE
    /\ owner' = "none" /\ wq' = "resched"
    /\ UNCHANGED <<mainVars, timer, queued, appVars, led_user, lib,
                   netVars, revents>>

(* The client drops the connection, and its callback runs to the end       *)
(* before main can.                                                        *)
PublishFails ==
    /\ wq = "sending"
    /\ lib' = "idle" /\ link' = "none" /\ owner' = "none"
    /\ OnMqttDisconnect
    /\ wq' = "resched"
    /\ UNCHANGED <<mainVars, timer, queued, led_user, netVars,
                   pollVars>>

(* Variant: the handler does not schedule its next run.                    *)
RescheduleMissing ==
    /\ wq = "resched" /\ wq' = "idle"
    /\ UNCHANGED <<mainVars, timer, queued, appVars, led_user, sessVars,
                   netVars, pollVars>>

Reschedule ==
    /\ wq = "resched"
    /\ timer' = TRUE /\ wq' = "idle"
    /\ UNCHANGED <<mainVars, queued, appVars, led_user, sessVars, netVars,
                   pollVars>>

-----------------------------------------------------------------------------
MainStep ==
    \/ NetWait \/ AppMqttInit
    \/ ConnectEnter \/ ConnectLoop \/ MqttConnectOk \/ MqttConnectFails
    \/ Backoff \/ ConnPoll \/ ConnInput \/ ConnCheck
    \/ StartPublishing \/ Subscribe \/ RunLoop \/ RunPoll \/ RunReady
    \/ RunAfterInput \/ RunLive \/ MqttDisconnect
    \/ OnConnackFlag \/ OnConnackLed \/ OnDisconnect
    \/ AckFails \/ OnPublish

WqStep ==
    \/ HandlerStarts \/ GetPayload \/ PublishCall \/ PublishSent
    \/ PublishFails \/ Reschedule

EnvStep == L4Connected \/ L4Disconnected \/ PeerFails \/ StackNotices

(* main has returned: without a session nothing else ever runs.            *)
Exited == main = "exited" /\ UNCHANGED vars

Next == MainStep \/ TimerExpires \/ WqStep \/ EnvStep \/ Exited

Spec == Init /\ [][Next]_vars

(* Fairness.  Every context is scheduled, every blocking call returns (the *)
(* socket layer times out) and the delay of a work item expires.  Losses   *)
(* are finitely many (MaxDrops), connectivity returns, TCP notices         *)
(* unacknowledged data, and a broker that is tried again and again in the  *)
(* end accepts: strong fairness of the accepting outcomes only.  Main's    *)
(* fairness is strong because the handler pre-empts it: it runs between    *)
(* two publishes, which are an interval of seconds apart.                  *)
Fairness ==
    /\ SF_vars(MainStep) /\ WF_vars(WqStep) /\ WF_vars(TimerExpires)
    /\ WF_vars(L4Connected) /\ WF_vars(StackNotices)

BrokerFairness ==
    /\ SF_vars(MqttConnectOk)
    /\ SF_vars(PollReports("conn_poll", "conn_input"))
    /\ SF_vars(ConnInputAccepted)

FairSpec == Spec /\ Fairness
ReconnectSpec == FairSpec /\ BrokerFairness

-----------------------------------------------------------------------------
(* Safety                                                                  *)

(* The flag says what the library knows, except between the library's      *)
(* change of state and the callback that reports it: neither a session     *)
(* nobody serves, nor a dead one main keeps polling.                       *)
FlagAccurate ==
    evt \notin {"connack", "disc"} => (mqtt_connected <=> lib = "connected")

(* mqtt_connect is only called on an idle client, or the socket of the     *)
(* former connection would be lost.                                        *)
ConnectOnlyWhenIdle == main \in ConnectStates /\ lib # "idle" =>
                           main = "try" /\ mqtt_connected

(* While main serves a session its periodic publish is pending or under    *)
(* way: no late run of the handler has cancelled it.                       *)
PublisherArmed ==
    main \in RunStates /\ mqtt_connected => timer \/ queued \/ wq # "idle"

(* The network LED is lit once a session is being served, whatever a       *)
(* failing publish has done to it before.  That it is dark without one     *)
(* does not hold.                                                          *)
LedLitInSession ==
    main \in RunStates /\ mqtt_connected /\ evt # "led_on" => led_net

(* app_mqtt_process "keeps the connection alive": the keep-alive branch    *)
(* gives a session up only if the link has failed.                         *)
KeepsHealthySession ==
    [][(main = "run_live" /\ lib = "connected" /\ main' = "disconnect")
           => link # "good"]_vars

(* What makes FlagAccurate, ConnectOnlyWhenIdle and PublisherArmed         *)
(* inductive when no handler is suspended between reading the flag and     *)
(* publishing: who is inside the library follows from the control states,  *)
(* and the client's state from them and the pending event.                 *)
OwnerFollowsControl ==
    /\ owner = "wq" <=> wq = "sending"
    /\ owner = "main" <=>
           main \in {"connecting", "subscribing", "living", "disconnecting"}
    /\ owner = "main" => evt = "none"

LibFollowsControl ==
    /\ wq = "sending" => lib = "connected"
    /\ main \in {"subscribing", "living", "disconnecting"} => lib = "connected"
    /\ lib = "connecting" => main \in HandshakeStates
    /\ main \in {"net_wait", "init", "exited", "connect", "connecting",
                  "backoff"} => lib = "idle"
    /\ evt = "disc" => lib = "idle"
    /\ evt = "connack" => /\ main = "conn_check" /\ lib = "connected"
                          /\ ~mqtt_connected /\ wq = "idle"
    /\ evt = "led_on" => main = "conn_check"

SessionInv ==
    TypeOK /\ FlagAccurate /\ PublisherArmed
           /\ OwnerFollowsControl /\ LibFollowsControl

-----------------------------------------------------------------------------
(* The session that MqttSession speaks of: the library's client together   *)
(* with what the application's flag says of it.                            *)
phaseBar ==
    IF main = "connecting" THEN "dialing"
    ELSE IF lib = "connecting" THEN "opening"
    ELSE IF lib = "connected"
         THEN IF mqtt_connected THEN "served" ELSE "accepted"
    ELSE IF mqtt_connected THEN "lost" ELSE "none"

Session == INSTANCE MqttSession
               WITH phase <- phaseBar, publishing <- wq = "sending"

(* Main, work queue and callbacks together implement MqttSession: no       *)
(* connection is opened over another, the handler publishes only into a    *)
(* session that is served, main ends none under it, and every loss is      *)
(* noticed before app_mqtt_connect tries again.                            *)
RefinesSession == Session!Spec

-----------------------------------------------------------------------------
(* Liveness *)

(* A session whose link has failed is given up.                            *)
DeadLinkDetected ==
    lib = "connected" /\ link \in {"dead", "unacked", "reset"}
        ~> lib = "idle"

(* A served session goes on publishing until it ends.                      *)
SessionPublishes ==
    mqtt_connected /\ wq = "idle" ~> wq = "sending" \/ ~mqtt_connected

(* Without a session the client gets one again, unless it could not        *)
(* resolve the broker at start.                                            *)
Reconnects == lib = "idle" ~> lib = "connected" \/ main = "exited"

=============================================================================
