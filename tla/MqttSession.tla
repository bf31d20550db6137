----------------------------- MODULE MqttSession -----------------------------
(***************************************************************************)
(* What an MQTT application here promises about its session, without       *)
(* threads, scheduling, mutex, poll set or buffers.  Sessions come one     *)
(* after the other: a connection is dialled only when there is no session, *)
(* is opened, accepted and then served, and in the end is lost, which is   *)
(* noticed before the next one is dialled.  A publish goes into a session  *)
(* that is being served, and as long as it lasts nobody else may end that  *)
(* session.  SensorMqtt and PrvMqtt implement it.                          *)
(***************************************************************************)
VARIABLES
    phase,       \* the session: what client and application make of it
    publishing   \* a publish is under way

vars == <<phase, publishing>>

Init == phase = "none" /\ publishing = FALSE

Moves(from, to) ==
    /\ phase = from /\ phase' = to
    /\ ~publishing /\ publishing' = FALSE

Dial == Moves("none", "dialing")

(* The transport is there; the broker has yet to accept the session.       *)
Open == Moves("dialing", "opening")

(* Refused, given up, or lost before it was served.                        *)
Refuse == Moves("dialing", "none") \/ Moves("opening", "none")

Accept == Moves("opening", "accepted")

(* The application takes note; it may do so in the step that accepts.      *)
Serve == Moves("accepted", "served") \/ Moves("opening", "served")

(* The connection is gone, and the application has yet to be told.         *)
Lose == Moves("served", "lost")

Notice == Moves("lost", "none")

Publish ==
    /\ phase = "served" /\ ~publishing /\ publishing' = TRUE
    /\ phase' = phase

Sent ==
    /\ publishing /\ publishing' = FALSE
    /\ phase' = phase

(* A publish that fails ends its session, and the application knows.       *)
Fail ==
    /\ publishing /\ publishing' = FALSE
    /\ phase' = "none"

Next == Dial \/ Open \/ Refuse \/ Accept \/ Serve \/ Lose \/ Notice
             \/ Publish \/ Sent \/ Fail

Spec == Init /\ [][Next]_vars
=============================================================================
