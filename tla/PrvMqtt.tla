------------------------------- MODULE PrvMqtt -------------------------------
(***************************************************************************)
(* The MQTT client of wifi/prv_mqtt.                                       *)
(*                                                                         *)
(* Three contexts run the code:                                            *)
(*   - main (priority 0): waits for Wi-Fi, connects, waits for CONNACK,    *)
(*     starts the MQTT thread and then publishes every 10 seconds;         *)
(*   - mqtt_thread (priority 7): mqtt_input and mqtt_live every second.    *)
(*     It runs only while main sleeps or is blocked (MainBlocked), and     *)
(*     main takes the processor back as soon as it can run;                *)
(*   - the network manager's thread: wifi_event_handler.                   *)
(* Both threads compose or receive a message in the one payload_buf.  The  *)
(* MQTT library is external: a mutex (owner) serialises its calls, is kept *)
(* while a call blocks in the socket, and is released around the event     *)
(* callback, which runs in the context of the call that raised the event.  *)
(***************************************************************************)
EXTENDS Naturals

CONSTANTS
    BufSize,     \* sizeof(payload_buf), 128 in the code
    HelloLen,    \* length of the text main composes
    MaxPayload,  \* bound: length of the longest inbound message
    Polls        \* how often main polls for CONNACK, 100 in the code

ASSUME BufSizeAssumption == BufSize \in Nat \ {0, 1}
ASSUME HelloLenAssumption == HelloLen \in Nat
ASSUME MaxPayloadAssumption == MaxPayload \in Nat
ASSUME PollsAssumption == Polls \in Nat

VARIABLES
    main,            \* where the main thread is
    thread,          \* where mqtt_thread is
    after,           \* where mqtt_thread goes on after a DISCONNECT callback
    tries,           \* CONNACK polls so far
    wifi_ready, mqtt_connected,
    buf,             \* payload_buf: who wrote each byte
    plen,            \* param.message.payload.len of the message of main
    rlen,            \* len of the PUBLISH callback
    lib,             \* state of the library's client
    remaining,       \* payload bytes of the inbound message not yet read
    owner            \* who is inside the library

flags == <<wifi_ready, mqtt_connected>>
bufVars == <<buf, plen, rlen>>
libVars == <<lib, remaining, owner>>
vars == <<main, thread, after, tries, wifi_ready, mqtt_connected, buf, plen,
          rlen, lib, remaining, owner>>

SetupStates == {"wifi", "resolve", "connect", "connack"}
LoopStates == {"awake", "publish", "sending", "sleep"}
ThreadStates == {"absent", "check", "input", "callback", "reading", "term",
                 "relock", "disc", "live", "pinging", "sleep"}

Least(a, b) == IF a <= b THEN a ELSE b

TypeOK ==
    /\ main \in SetupStates \cup LoopStates \cup {"returned"}
    /\ thread \in ThreadStates
    /\ after \in {"live", "sleep", "term"}
    /\ tries \in 0 .. Polls
    /\ wifi_ready \in BOOLEAN /\ mqtt_connected \in BOOLEAN
    /\ buf \in [0 .. BufSize - 1 -> {"nul", "hello", "rx"}]
    /\ plen \in 0 .. BufSize - 1
    /\ rlen \in 0 .. BufSize - 1
    /\ lib \in {"idle", "tcp", "connected"}
    /\ remaining \in 0 .. MaxPayload
    /\ owner \in {"none", "main", "thread"}

Init ==
    /\ main = "wifi" /\ thread = "absent" /\ after = "live" /\ tries = 0
    /\ wifi_ready = FALSE /\ mqtt_connected = FALSE
    /\ buf = [i \in 0 .. BufSize - 1 |-> "nul"]
    /\ plen = 0 /\ rlen = 0
    /\ lib = "idle" /\ remaining = 0 /\ owner = "none"

-----------------------------------------------------------------------------
(* Scheduling and the library's mutex                                      *)

(* mqtt_thread has the processor only while main sleeps, is suspended in   *)
(* the socket, or waits for the mutex that mqtt_thread holds.              *)
MainBlocked ==
    \/ main \in {"sleep", "sending"}
    \/ main = "publish" /\ owner = "thread"

ThreadAt(s) == thread = s /\ MainBlocked

(* mqtt_thread releases the mutex: it passes straight to a waiting main.   *)
Released == IF main = "publish" THEN "main" ELSE "none"

(* The client drops the connection and forgets what was left to read.      *)
ClientReset == lib' = "idle" /\ remaining' = 0

-----------------------------------------------------------------------------
(* Network manager                                                         *)

(* CONNECT_RESULT sets the flag whatever the result it carries.            *)
WifiEvent ==
    /\ wifi_ready' = ~wifi_ready
    /\ UNCHANGED <<main, thread, after, tries, mqtt_connected, bufVars,
                   libVars>>

-----------------------------------------------------------------------------
(* main: set-up                                                            *)

(* The wait loop; the result of connect_wifi is ignored, and wifi_ready is *)
(* not read again after it.                                                *)
WifiWait ==
    /\ main = "wifi" /\ wifi_ready /\ main' = "resolve"
    /\ UNCHANGED <<thread, after, tries, flags, bufVars, libVars>>

(* A failed look-up skips the session, not the publish loop.               *)
BrokerResolve ==
    /\ main = "resolve" /\ main' \in {"connect", "awake"}
    /\ UNCHANGED <<thread, after, tries, flags, bufVars, libVars>>

MqttConnect ==
    /\ main = "connect"
    /\ \/ main' = "connack" /\ lib' = "tcp"
       \/ main' = "returned" /\ lib' = lib
    /\ UNCHANGED <<thread, after, tries, flags, bufVars, remaining, owner>>

(* Variant: the flag is set once the subscription is sent, over the        *)
(* DISCONNECT callback of a subscription that failed.                      *)
OnConnackAfter(subscribed) == mqtt_connected' = TRUE

(* The CONNACK callback sets the flag and then subscribes; a subscription  *)
(* that cannot be sent runs the DISCONNECT callback, nested.               *)
OnConnack(subscribed) == mqtt_connected' = subscribed

(* mqtt_input of the wait for CONNACK, with the callbacks it runs: nothing *)
(* yet, accepted, or a connection that is refused, lost or already gone.   *)
ConnackInput ==
    \/ lib' = lib /\ UNCHANGED mqtt_connected
    \/ lib = "tcp" /\ lib' = "connected" /\ OnConnack(TRUE)
    \/ lib = "tcp" /\ lib' = "idle" /\ OnConnack(FALSE)
    \/ lib = "tcp" /\ lib' = "idle" /\ mqtt_connected' = FALSE

(* Up to Polls polls, then main starts mqtt_thread, or returns.            *)
WaitConnack ==
    /\ main = "connack"
    /\ IF tries < Polls
       THEN /\ tries' = tries + 1
            /\ ConnackInput
            /\ IF mqtt_connected'
               THEN main' = "awake" /\ thread' = "check"
               ELSE UNCHANGED <<main, thread>>
       ELSE /\ main' = "returned"
            /\ UNCHANGED <<thread, tries, lib, mqtt_connected>>
    /\ UNCHANGED <<after, wifi_ready, bufVars, remaining, owner>>

-----------------------------------------------------------------------------
(* main: the publish loop                                                  *)

(* Variant: the text is composed for the first message only.               *)
ComposeOnce ==
    /\ plen' = Least(HelloLen, BufSize - 1)
    /\ buf' = IF plen = 0
              THEN [i \in 0 .. BufSize - 1 |->
                      IF i < plen' THEN "hello" ELSE "nul"]
              ELSE buf

(* snprintf into payload_buf, and the strlen that measures the result.     *)
Compose ==
    /\ plen' = Least(HelloLen, BufSize - 1)
    /\ buf' = [i \in 0 .. BufSize - 1 |->
                 IF i < plen' THEN "hello"
                 ELSE IF i = plen' THEN "nul" ELSE buf[i]]

(* The loop body up to the call of mqtt_publish.                           *)
PublishMessage ==
    /\ main = "awake"
    /\ IF mqtt_connected
       THEN main' = "publish" /\ Compose
       ELSE main' = "sleep" /\ UNCHANGED <<buf, plen>>
    /\ UNCHANGED <<thread, after, tries, flags, rlen, libVars>>

(* mqtt_publish takes the mutex, and keeps it while the socket sends.      *)
PublishEnter ==
    /\ main = "publish" /\ owner # "thread"
    /\ IF lib = "connected"
       THEN main' = "sending" /\ owner' = "main"
       ELSE main' = "sleep" /\ owner' = "none"
    /\ UNCHANGED <<thread, after, tries, flags, bufVars, lib, remaining>>

(* The socket accepts the message, or it fails and the DISCONNECT callback *)
(* runs before mqtt_publish returns.                                       *)
Send ==
    /\ main = "sending" /\ main' = "sleep" /\ owner' = "none"
    /\ \/ UNCHANGED <<lib, remaining, mqtt_connected>>
       \/ ClientReset /\ mqtt_connected' = FALSE
    /\ UNCHANGED <<thread, after, tries, wifi_ready, bufVars>>

Wake ==
    /\ main = "sleep" /\ main' = "awake"
    /\ UNCHANGED <<thread, after, tries, flags, bufVars, libVars>>

-----------------------------------------------------------------------------
(* mqtt_thread                                                             *)

ThreadGoes(t) ==
    /\ thread' = t
    /\ UNCHANGED <<main, after, tries, flags, bufVars, libVars>>

(* The connection is gone: the library reports it by a callback, after     *)
(* which mqtt_thread goes on at t.                                         *)
ThreadLoses(t) ==
    /\ thread' = "disc" /\ after' = t
    /\ ClientReset /\ owner' = Released
    /\ UNCHANGED <<main, tries, flags, bufVars>>

ThreadCheck ==
    /\ ThreadAt("check")
    /\ ThreadGoes(IF mqtt_connected THEN "input" ELSE "sleep")

(* Variant: a failing mqtt_input skips mqtt_live.                          *)
InputReturnsSkip == IF remaining > 0 THEN "sleep" ELSE "live"

(* Errors of mqtt_input are only logged.                                   *)
InputReturns == "live"

(* mqtt_input without an event the application acts upon: nothing arrived, *)
(* a packet it only logs, no connection (-ENOTCONN), or a payload of which *)
(* bytes remain unread (-EBUSY, for every later call).                     *)
InputNothing ==
    /\ ThreadAt("input") /\ owner = "none"
    /\ ThreadGoes(InputReturns)

(* A connection that the peer closed, or that failed.                      *)
InputLoses ==
    /\ ThreadAt("input") /\ owner = "none"
    /\ lib = "connected" /\ remaining = 0
    /\ ThreadLoses("live")

(* Variant: the terminator is not accounted for.                           *)
ReadLenFull(n) == Least(n, BufSize)

(* The length the PUBLISH callback reads, one less than the buffer.        *)
ReadLen(n) == Least(n, BufSize - 1)

(* A message with a payload of n bytes: its callback starts.               *)
InputPublish(n) ==
    /\ ThreadAt("input") /\ owner = "none"
    /\ lib = "connected" /\ remaining = 0
    /\ thread' = "callback" /\ remaining' = n /\ rlen' = ReadLen(n)
    /\ UNCHANGED <<main, after, tries, flags, buf, plen, lib, owner>>

(* mqtt_read_publish_payload_blocking takes the mutex back; it returns at  *)
(* once when nothing remains, and else blocks in the socket.               *)
ReadEnter ==
    /\ ThreadAt("callback") /\ owner = "none"
    /\ IF remaining = 0
       THEN thread' = "term" /\ UNCHANGED owner
       ELSE thread' = "reading" /\ owner' = "thread"
    /\ UNCHANGED <<main, after, tries, flags, bufVars, lib, remaining>>

(* One read returns as many bytes as have arrived, not always all of them. *)
ReadChunk ==
    /\ ThreadAt("reading")
    /\ \E n \in 1 .. Least(rlen, remaining) :
          /\ buf' = [i \in 0 .. BufSize - 1 |->
                       IF i < n THEN "rx" ELSE buf[i]]
          /\ remaining' = remaining - n
    /\ thread' = "term" /\ owner' = Released
    /\ UNCHANGED <<main, after, tries, flags, plen, rlen, lib>>

ReadFails == ThreadAt("reading") /\ ThreadLoses("term")

(* payload_buf[len] = '\0', whatever the read returned, and without the    *)
(* mutex.                                                                  *)
Terminate ==
    /\ ThreadAt("term")
    /\ buf' = [buf EXCEPT ![rlen] = "nul"]
    /\ thread' = "relock"
    /\ UNCHANGED <<main, after, tries, flags, plen, rlen, libVars>>

(* The callback returns: mqtt_input takes the mutex again and returns.     *)
CallbackReturns ==
    /\ ThreadAt("relock") /\ owner = "none"
    /\ ThreadGoes(InputReturns)

OnDisconnect ==
    /\ ThreadAt("disc")
    /\ mqtt_connected' = FALSE /\ thread' = after
    /\ UNCHANGED <<main, after, tries, wifi_ready, bufVars, libVars>>

(* mqtt_live: nothing to send, or a PINGREQ that blocks in the socket.     *)
Live ==
    /\ ThreadAt("live") /\ owner = "none"
    /\ \/ ThreadGoes("sleep")
       \/ /\ lib = "connected" /\ thread' = "pinging" /\ owner' = "thread"
          /\ UNCHANGED <<main, after, tries, flags, bufVars, lib, remaining>>

PingSent ==
    /\ ThreadAt("pinging") /\ thread' = "sleep" /\ owner' = Released
    /\ UNCHANGED <<main, after, tries, flags, bufVars, lib, remaining>>

PingFails == ThreadAt("pinging") /\ ThreadLoses("sleep")

ThreadWakes == ThreadAt("sleep") /\ ThreadGoes("check")

-----------------------------------------------------------------------------
Setup == WifiWait \/ BrokerResolve \/ MqttConnect \/ WaitConnack
Loop == PublishMessage \/ PublishEnter \/ Send \/ Wake
Reads == ReadChunk \/ ReadFails
Pings == PingSent \/ PingFails
ThreadRuns ==
    \/ ThreadCheck \/ InputNothing \/ InputLoses
    \/ \E n \in 0 .. MaxPayload : InputPublish(n)
    \/ ReadEnter \/ Terminate \/ CallbackReturns \/ OnDisconnect
    \/ Live \/ ThreadWakes

Next == WifiEvent \/ Setup \/ Loop \/ ThreadRuns \/ Reads \/ Pings

(* main runs whenever it can, and the socket accepts or refuses what it    *)
(* sends (TCP gives up on data that stay unacknowledged).  The 10-second   *)
(* sleeps of main leave the processor to mqtt_thread again and again.      *)
(* Nothing is assumed of Reads: TCP does not detect a peer that falls      *)
(* silent in the middle of a message while nothing is sent to it.          *)
Spec == Init /\ [][Next]_vars
FairSpec == /\ Spec
            /\ WF_vars(Loop) /\ SF_vars(ThreadRuns) /\ SF_vars(Pings)

-----------------------------------------------------------------------------
(* Properties                                                              *)

(* In every interleaving of snprintf, the received bytes and the separate  *)
(* store of the terminator, payload_buf holds a terminated string:         *)
(* neither strlen nor the log's %s can run past its end.                   *)
BufTerminated == \E i \in 0 .. BufSize - 1 : buf[i] = "nul"

(* The flag both threads go by tells whether there is a session, except    *)
(* while the callback that reports the loss of one has yet to run.         *)
FlagAccurate ==
    IF thread = "disc" THEN lib = "idle"
    ELSE mqtt_connected <=> lib = "connected"

InCallback == \/ thread \in {"callback", "reading", "term", "relock"}
              \/ thread = "disc" /\ after = "term"

(* The text main composed is the text mqtt_publish sends, although both    *)
(* threads use one buffer, unless an inbound message is being received:    *)
(* priorities and the mutex confine the damage to that callback.           *)
ComposedIntact ==
    main \in {"publish", "sending"} /\ ~InCallback
        => \A i \in 0 .. plen - 1 : buf[i] = "hello"

(* The session that MqttSession speaks of: the library's client together   *)
(* with what the application's flag says of it.                            *)
phaseBar ==
    IF main = "connect" THEN "dialing"
    ELSE IF lib = "tcp" THEN "opening"
    ELSE IF lib = "connected"
         THEN IF mqtt_connected THEN "served" ELSE "accepted"
    ELSE IF mqtt_connected THEN "lost" ELSE "none"

Session == INSTANCE MqttSession
               WITH phase <- phaseBar, publishing <- main = "sending"

(* Main, mqtt_thread and the callbacks together implement MqttSession,     *)
(* which wifi/sensor_mqtt implements too: main publishes only into a       *)
(* session that is served, and mqtt_thread ends none under it.             *)
RefinesSession == Session!Spec

(* mqtt_thread comes back to mqtt_live again and again while connected, as *)
(* "must be < keepalive" asks, even once mqtt_input fails for ever.  One   *)
(* thing alone can keep it away: the read of a payload that never comes.   *)
KeepaliveServed ==
    \/ []<>(thread \in {"absent", "live"} \/ ~mqtt_connected)
    \/ <>[](thread = "reading")
==============================================================================
