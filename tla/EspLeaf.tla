------------------------------ MODULE EspLeaf -------------------------------
(***************************************************************************)
(* The leaf firmware esp32/main with the coordinator it registers with.    *)
(*                                                                         *)
(* Two tasks share the leaf context without a lock: app_main, which ticks  *)
(* and samples, and the MQTT task, which runs echo_leaf_on_message.  Their *)
(* writes to the context are separate steps here.  Every registration goes *)
(* to coord-0, so an id is either empty or that one.  Time is abstracted:  *)
(* overdue says that the last contact is longer ago than the timeout.      *)
(***************************************************************************)
EXTENDS Integers, Sequences, FiniteSets

CONSTANTS
  None,
  Temperature,  \* what the DHT22 measures, in tenths of a degree
  Delta,        \* CONFIG_ECHO_DELTA_THRESHOLD, percent
  Protocol,     \* of the coordinator: "raft", "echo", "echod"
  Lossy,        \* whether MQTT (QoS 0) loses messages
  Timeouts,     \* whether coordinator_timeout_ms may pass without a contact
  MaxQueue      \* bound on the leaf's messages and their answers under way

VARIABLES
  state, coordinator_id, overdue,  \* the shared context
  main, last_sent,                 \* app_main: what it does next, last_sent_temp
  callback,                        \* the MQTT task: what it does next
  temperature,                     \* outside
  registered, reported,            \* the coordinator: leaf in _leaves, last value received
  up, down                         \* messages under way

context == <<state, coordinator_id, overdue>>
vars == <<context, main, last_sent, callback, temperature, registered, reported, up, down>>

LeafState == {"UNREGISTERED", "ACTIVE", "SEARCHING"}
ToCoordinator == [type : {"leaf_register"}] \cup [type : {"sensor_data"}, value : Temperature]
ToLeaf == [type : {"leaf_register_response", "liveness_ping"}]

Init ==
  /\ state = "UNREGISTERED" /\ coordinator_id = "" /\ overdue = FALSE
  /\ main = "tick" /\ last_sent = None
  /\ callback = "idle"
  /\ temperature \in Temperature
  /\ registered = FALSE /\ reported = None
  /\ up = <<>> /\ down = <<>>

-----------------------------------------------------------------------------
Pings(queue) == {k \in DOMAIN queue : queue[k].type = "liveness_ping"}

\* MaxQueue stops the leaf's own messages only, so that no answer has to wait.
Room == Len(up) + Len(down) - Cardinality(Pings(down)) < MaxQueue

(* app_main: echo_leaf_tick, then a reading *)

TickRegister ==
  /\ main = "tick" /\ state \in {"UNREGISTERED", "SEARCHING"} /\ Room
  /\ up' = Append(up, [type |-> "leaf_register"])
  /\ main' = "sense"
  /\ UNCHANGED <<context, last_sent, callback, temperature, registered, reported, down>>

TickActive ==
  /\ main = "tick" /\ state = "ACTIVE"
  /\ main' = IF overdue THEN "searching" ELSE "sense"
  /\ UNCHANGED <<context, last_sent, callback, temperature, registered, reported, up, down>>

EnterSearching ==
  /\ main = "searching"
  /\ state' = "SEARCHING"
  /\ main' = "clear"
  /\ UNCHANGED <<coordinator_id, overdue, last_sent, callback, temperature, registered,
                 reported, up, down>>

ClearCoordinator ==
  /\ main = "clear"
  /\ coordinator_id' = ""
  /\ main' = "sense"
  /\ UNCHANGED <<state, overdue, last_sent, callback, temperature, registered, reported,
                 up, down>>

Abs(x) == IF x < 0 THEN -x ELSE x

\* The delta filter, in tenths: a last value of zero counts as one degree.
Due(value) ==
  \/ last_sent = None
  \/ 100 * Abs(value - last_sent) >= Delta * (IF last_sent = 0 THEN 10 ELSE Abs(last_sent))

\* echo_leaf_send_sensor sends nothing unless the leaf is registered; app_main
\* takes the reading for sent all the same.
SenseValid ==
  LET sends == Due(temperature) /\ state = "ACTIVE" /\ coordinator_id # ""
  IN  /\ main = "sense" /\ (sends => Room)
      /\ last_sent' = IF Due(temperature) THEN temperature ELSE last_sent
      /\ up' = IF sends THEN Append(up, [type |-> "sensor_data", value |-> temperature]) ELSE up
      /\ main' = "tick"
      /\ UNCHANGED <<context, callback, temperature, registered, reported, down>>

SenseInvalid ==
  /\ main = "sense"
  /\ main' = "tick"
  /\ UNCHANGED <<context, last_sent, callback, temperature, registered, reported, up, down>>

Main ==
  \/ TickRegister \/ TickActive \/ EnterSearching \/ ClearCoordinator
  \/ SenseValid \/ SenseInvalid

-----------------------------------------------------------------------------
(* The MQTT task: echo_leaf_on_message *)

\* strncpy of the coordinator's id, the first of three writes.
HandleRegisterResponse ==
  /\ callback = "idle" /\ down # <<>> /\ Head(down).type = "leaf_register_response"
  /\ coordinator_id' = "coord-0"
  /\ callback' = "activate"
  /\ down' = Tail(down)
  /\ UNCHANGED <<state, overdue, main, last_sent, temperature, registered, reported, up>>

Activate ==
  /\ callback = "activate"
  /\ state' = "ACTIVE"
  /\ callback' = "touch"
  /\ UNCHANGED <<coordinator_id, overdue, main, last_sent, temperature, registered,
                 reported, up, down>>

Touch ==
  /\ callback = "touch"
  /\ overdue' = FALSE
  /\ callback' = "idle"
  /\ UNCHANGED <<state, coordinator_id, main, last_sent, temperature, registered,
                 reported, up, down>>

\* The sender of a ping is not looked at.
HandleLivenessPing ==
  /\ callback = "idle" /\ down # <<>> /\ Head(down).type = "liveness_ping"
  /\ overdue' = (overdue /\ state # "ACTIVE")
  /\ down' = Tail(down)
  /\ UNCHANGED <<state, coordinator_id, main, last_sent, callback, temperature,
                 registered, reported, up>>

Callback == HandleRegisterResponse \/ Activate \/ Touch \/ HandleLivenessPing

-----------------------------------------------------------------------------
(* coord-0, the network and the world *)

HandleLeafRegister ==
  /\ up # <<>> /\ Head(up).type = "leaf_register"
  /\ registered' = TRUE
  /\ down' = Append(down, [type |-> "leaf_register_response"])
  /\ up' = Tail(up)
  /\ UNCHANGED <<context, main, last_sent, callback, temperature, reported>>

HandleSensorData ==
  /\ up # <<>> /\ Head(up).type = "sensor_data"
  /\ reported' = Head(up).value
  /\ up' = Tail(up)
  /\ UNCHANGED <<context, main, last_sent, callback, temperature, registered, down>>

Coordinator == HandleLeafRegister \/ HandleSensorData

\* ECHO pings reach every leaf, whoever leads; echoD keeps its own leaves alive.
SendPing ==
  /\ \/ Protocol = "echo"
     \/ Protocol = "echod" /\ registered
  /\ Pings(down) = {}  \* one at a time
  /\ down' = Append(down, [type |-> "liveness_ping"])
  /\ UNCHANGED <<context, main, last_sent, callback, temperature, registered, reported, up>>

\* _leaves is in memory only.
RestartCoordinator ==
  /\ registered' = FALSE
  /\ UNCHANGED <<context, main, last_sent, callback, temperature, reported, up, down>>

Lose ==
  /\ Lossy
  /\ \/ up # <<>> /\ up' = Tail(up) /\ down' = down
     \/ down # <<>> /\ down' = Tail(down) /\ up' = up
  /\ UNCHANGED <<context, main, last_sent, callback, temperature, registered, reported>>

TimePasses ==
  /\ Timeouts
  /\ overdue' = TRUE
  /\ UNCHANGED <<state, coordinator_id, main, last_sent, callback, temperature, registered,
                 reported, up, down>>

Warm(value) ==
  /\ temperature' = value
  /\ UNCHANGED <<context, main, last_sent, callback, registered, reported, up, down>>

Next ==
  \/ Main \/ Callback \/ Coordinator
  \/ SendPing \/ RestartCoordinator \/ Lose \/ TimePasses
  \/ \E value \in Temperature : Warm(value)

\* FreeRTOS schedules both tasks, the coordinator reads its inbox, and the sensor
\* does not fail for ever.
Fairness == /\ WF_vars(Main) /\ WF_vars(Callback) /\ WF_vars(Coordinator)
            /\ SF_vars(SenseValid)

Spec == Init /\ [][Next]_vars /\ Fairness

-----------------------------------------------------------------------------

\* The type of the context, the tasks' positions and the messages.
TypeOK ==
  /\ state \in LeafState /\ coordinator_id \in {"", "coord-0"} /\ overdue \in BOOLEAN
  /\ main \in {"tick", "searching", "clear", "sense"}
  /\ last_sent \in Temperature \cup {None}
  /\ callback \in {"idle", "activate", "touch"}
  /\ temperature \in Temperature
  /\ registered \in BOOLEAN /\ reported \in Temperature \cup {None}
  /\ up \in Seq(ToCoordinator) /\ down \in Seq(ToLeaf)

\* The coordinator hears of the temperature at some time, at least where nothing is
\* lost and the leaf never times out: app_main forwards what it reads.
TemperatureIsReported == <>(reported # None)
=============================================================================
