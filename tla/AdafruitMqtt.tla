----------------------------- MODULE AdafruitMqtt -----------------------------
(***************************************************************************)
(* The Arduino-style MQTT adapter, modules/adafruit_mqtt_zephyr, as one    *)
(* thread uses it: init, and then connect, publish, subscribe, yield,      *)
(* disconnect and init again in any order, whatever connected() says.      *)
(*                                                                         *)
(* The MQTT library under it is external.  Everything it does happens      *)
(* inside a call of the adapter: mqtt_input reads one packet and runs      *)
(* mqtt_event_cb, and a failed call drops the connection, closes its       *)
(* socket and reports DISCONNECT.  mqtt_connect begins a connection        *)
(* without regard to one that there is; if it fails it resets the client   *)
(* and reports nothing.  A message's payload is left in the socket for the *)
(* callback to read, and until it is read mqtt_input returns -EBUSY.       *)
(***************************************************************************)
EXTENDS Naturals

CONSTANTS
    MaxSockets,  \* sockets the network stack can have open
    IdBound      \* 2^16 in the code, where msg_id is 16 bits wide

ASSUME MaxSocketsAssumption == MaxSockets \in Nat
ASSUME IdBoundAssumption == IdBound \in Nat \ {0}

VARIABLES
    pc,         \* the adapter's call under way, "idle" between calls
    ret,        \* the last call and what it returned
    connected,  \* zclient->connected
    msg_id,     \* subscribe's static message id
    lib,        \* the library's client
    unread,     \* the payload of a message that was announced is unread
    open,       \* sockets open
    peer,       \* what the broker's next packet is, or what became of it
    again       \* history: connect was called with connected set, and
                \* connected has been set ever since

vars == <<pc, ret, connected, msg_id, lib, unread, open, peer, again>>
flag == <<connected, again>>
zclient == <<flag, msg_id>>
libVars == <<lib, unread, open>>

CallNames == {"init", "connect", "publish", "subscribe", "yield", "disconnect"}
Results == {"ok", "error", "notconn", "timeout"}

TypeOK ==
    /\ pc \in {"off", "idle", "wait", "yield_input", "yield_live"}
    /\ ret \in [call : CallNames, rc : Results]
    /\ connected \in BOOLEAN /\ msg_id \in 0 .. IdBound - 1
    /\ lib \in {"idle", "connecting", "connected"} /\ unread \in BOOLEAN
    /\ open \in 0 .. MaxSockets
    /\ peer \in {"silent", "accepts", "refuses", "message", "reset"}
    /\ again \in BOOLEAN

Init ==
    /\ pc = "off" /\ ret = [call |-> "init", rc |-> "notconn"]
    /\ connected = FALSE /\ msg_id = 0 /\ again = FALSE
    /\ lib = "idle" /\ unread = FALSE /\ open = 0 /\ peer = "silent"

Returns(c, r) == pc' = "idle" /\ ret' = [call |-> c, rc |-> r]

-----------------------------------------------------------------------------
(* The broker and the library (external)                                   *)

Answers ==
    /\ lib # "idle" /\ peer = "silent"
    /\ peer' \in IF lib = "connecting" THEN {"accepts", "refuses"}
                                       ELSE {"message"}
    /\ UNCHANGED <<pc, ret, zclient, libVars>>

PeerFails ==
    /\ lib # "idle" /\ peer' = "reset"
    /\ UNCHANGED <<pc, ret, zclient, libVars>>

(* Variant: the DISCONNECT event leaves the flag set.                      *)
DropKeepsFlag == /\ lib' = "idle" /\ unread' = FALSE /\ open' = open - 1
                 /\ UNCHANGED flag /\ peer' = "silent"

(* The connection is dropped; mqtt_event_cb clears the flag.               *)
Drop == /\ lib' = "idle" /\ unread' = FALSE /\ open' = open - 1
        /\ connected' = FALSE /\ again' = FALSE /\ peer' = "silent"

(* mqtt_input, when there is nothing to read: no packet, no client, or an  *)
(* unread payload in front of it.                                          *)
NoInput == lib = "idle" \/ unread \/ peer = "silent"

InputFails == lib # "idle" /\ ~unread /\ peer \in {"refuses", "reset"} /\ Drop

(* mqtt_event_cb: CONNACK sets the flag, PUBLISH only logs the topic.      *)
InputConnack ==
    /\ lib = "connecting" /\ ~unread /\ peer = "accepts"
    /\ lib' = "connected" /\ connected' = TRUE /\ peer' = "silent"
    /\ UNCHANGED <<unread, open, again>>

InputMessage ==
    /\ lib = "connected" /\ ~unread /\ peer = "message"
    /\ unread' = TRUE /\ peer' = "silent"
    /\ UNCHANGED <<lib, flag, open>>

NoChange == UNCHANGED <<flag, libVars, peer>>

(* A packet is written; the write may fail, and does when the peer has     *)
(* reset the connection.  One that cannot be encoded is not written at all.*)
WriteOk == lib = "connected" /\ peer # "reset" /\ NoChange
WriteFails == lib = "connected" /\ Drop
NotEncoded == lib = "connected" /\ NoChange

-----------------------------------------------------------------------------
(* adafruit_mqtt_zephyr_init, connect and disconnect                       *)

(* Waiting for the interface and its address is not a step.  Everything    *)
(* kept in the client is zeroed first; its socket is left open.  An error  *)
(* leaves a client that only init may be called with.                      *)
InitCall ==
    /\ pc \in {"off", "idle"}
    /\ \/ Returns("init", "ok")
       \/ pc' = "off" /\ ret' = [call |-> "init", rc |-> "error"]
    /\ connected' = FALSE /\ again' = FALSE
    /\ lib' = "idle" /\ unread' = FALSE /\ peer' = "silent"
    /\ UNCHANGED <<msg_id, open>>

(* The flag is not looked at, and not touched: neither by a connection     *)
(* begun over a live one nor by an error that resets the client.           *)
ConnectEnter ==
    /\ pc = "idle"
    /\ \/ /\ open < MaxSockets /\ open' = open + 1
          /\ lib' = "connecting" /\ unread' = unread
          /\ pc' = "wait" /\ ret' = ret
       \/ /\ lib' = "idle" /\ unread' = FALSE /\ open' = open
          /\ Returns("connect", "error")
    /\ peer' = "silent" /\ again' = connected
    /\ UNCHANGED <<connected, msg_id>>

(* The wait loop ignores what mqtt_input and mqtt_live return.             *)
ConnectWait ==
    /\ pc = "wait" /\ ~connected
    /\ InputConnack \/ InputFails
    /\ UNCHANGED <<pc, ret, msg_id>>

(* Variant: connect returns 0 when its wait is over.                       *)
ConnectReturnOk ==
    /\ pc = "wait" /\ Returns("connect", "ok")
    /\ UNCHANGED <<zclient, libVars, peer>>

ConnectReturn ==
    /\ pc = "wait"
    /\ Returns("connect", IF connected THEN "ok" ELSE "timeout")
    /\ UNCHANGED <<zclient, libVars, peer>>

(* Variant: the flag is cleared without the library being told.            *)
DisconnectFlagOnly ==
    /\ pc = "idle" /\ Returns("disconnect", "ok")
    /\ connected' = FALSE /\ again' = FALSE
    /\ UNCHANGED <<msg_id, libVars, peer>>

(* Without the flag nothing is done.  With it, mqtt_disconnect ends a      *)
(* session, and returns an error of no consequence if there is none.       *)
Disconnect ==
    /\ pc = "idle" /\ Returns("disconnect", "ok")
    /\ IF connected /\ lib = "connected" THEN WriteFails
       ELSE connected' = FALSE /\ again' = FALSE /\ UNCHANGED <<libVars, peer>>
    /\ UNCHANGED msg_id

-----------------------------------------------------------------------------
(* Publish, subscribe, yield                                               *)

NotConnected(c) ==
    /\ pc = "idle" /\ ~connected /\ Returns(c, "notconn")
    /\ UNCHANGED msg_id /\ NoChange

(* The library says -ENOTCONN too, when it knows of no session.            *)
Sends(c) == \/ WriteOk /\ Returns(c, "ok")
            \/ (WriteFails \/ NotEncoded) /\ Returns(c, "error")
            \/ lib # "connected" /\ NoChange /\ Returns(c, "notconn")

Publish ==
    \/ NotConnected("publish")
    \/ pc = "idle" /\ connected /\ Sends("publish") /\ UNCHANGED msg_id

(* The library refuses the message id 0, which a wrapped counter gives.    *)
Subscribe ==
    \/ NotConnected("subscribe")
    \/ /\ pc = "idle" /\ connected
       /\ msg_id' = (msg_id + 1) % IdBound
       /\ IF msg_id' = 0 /\ lib = "connected"
          THEN NotEncoded /\ Returns("subscribe", "error")
          ELSE Sends("subscribe")

YieldEnter ==
    \/ NotConnected("yield")
    \/ /\ pc = "idle" /\ connected /\ pc' = "yield_input"
       /\ UNCHANGED <<ret, zclient, libVars, peer>>

(* -EAGAIN goes on to mqtt_live, as a packet does; any other error ends    *)
(* the call.                                                               *)
YieldInput ==
    /\ pc = "yield_input"
    /\ \/ (InputConnack \/ InputMessage) /\ pc' = "yield_live" /\ ret' = ret
       \/ InputFails /\ Returns("yield", "error")
       \/ /\ NoInput /\ NoChange
          /\ \/ lib = "idle" /\ Returns("yield", "notconn")
             \/ lib # "idle" /\ unread /\ Returns("yield", "error")
             \/ lib # "idle" /\ ~unread /\ pc' = "yield_live" /\ ret' = ret
    /\ UNCHANGED msg_id

(* mqtt_live, whose result is ignored, may send a ping; then the time is   *)
(* up or the loop goes on.                                                 *)
YieldLive ==
    /\ pc = "yield_live"
    /\ WriteFails \/ NoChange
    /\ Returns("yield", "ok") \/ (pc' = "yield_input" /\ ret' = ret)
    /\ UNCHANGED msg_id

-----------------------------------------------------------------------------
Adapter == \/ InitCall \/ ConnectEnter \/ ConnectWait \/ ConnectReturn
           \/ Disconnect \/ Publish \/ Subscribe
           \/ YieldEnter \/ YieldInput \/ YieldLive

Next == Adapter \/ Answers \/ PeerFails

Spec == Init /\ [][Next]_vars

-----------------------------------------------------------------------------
(* What connected() tells.  A session is never hidden from the caller,     *)
(* whatever was called before.  That a true connected() stands for a       *)
(* session is for the caller to see to: it must not have called connect    *)
(* while connected() was true.  Once connected() has been false it can be  *)
(* trusted again.                                                          *)
FlagTrusted ==
    /\ lib = "connected" => connected
    /\ connected /\ ~again => lib = "connected"

(* A failure that connect reports, a timeout too, means that there is no   *)
(* session; 0 means that the broker has accepted one, unless the caller    *)
(* called connect while connected() was true.                              *)
ConnectTellsOutcome ==
    pc = "idle" /\ ret.call = "connect" =>
        /\ lib = "connected" => ret.rc = "ok"
        /\ ret.rc = "ok" /\ ~again => lib = "connected"

=============================================================================
