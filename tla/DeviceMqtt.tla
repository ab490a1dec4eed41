----------------------------- MODULE DeviceMqtt -----------------------------
(***************************************************************************)
(* The way of a device to its broker: the MQTT client of drv_mqtt.c on top *)
(* of the Wi-Fi driver, joined by the functions of app_mqtt.c.  One thread *)
(* runs everything: drv_esp8266_reg_process, drv_mqtt_connect and the      *)
(* report of the status act once in a round of their timers, the handling  *)
(* of received bytes runs again and again between them.                    *)
(***************************************************************************)
EXTENDS Esp8266

CONSTANTS
  KeepTime,    \* MQTT_KEEP_TIME, in rounds
  PingTime,    \* MQTT_KEEP_TIME-10, in rounds
  RbSize,      \* packets for which the ring buffer has room
  MaxFaults,   \* bound: faults of the network, the module, the broker, the device
  MaxStalls    \* bound: rounds that begin before everything said is handled

ASSUME TimesAssumption ==
  /\ KeepTime \in Nat /\ PingTime \in 1..(KeepTime - 1)
  /\ RbSize \in Nat \ {0}
  /\ MaxFaults \in Nat /\ MaxStalls \in Nat

VARIABLES
  is_connected, keep_age,  \* the client: its flag, rounds since its keep_time
  curr_state, dst_state,   \* the topic of the device
  rb,                      \* the ring buffer
  broker,                  \* on this connection: "none", "session" or "subscribed"
  turn,                    \* whose timer is next
  lateAck,                 \* history: SUBACK or UNSUBACK handled while not connected
  orphan, stale,           \* history: rounds is_connected, or conn_state since it was
                           \* last set of a module that is set up, hold in vain
  faults, stalls           \* counters for the bounds

mqttVars == <<is_connected, keep_age, curr_state, lateAck>>
countVars == <<orphan, stale, faults, stalls>>
LinkEnds == stale' = IF conn_state' THEN stale ELSE 0  \* stale counts one link's rounds
vars == <<espVars, mqttVars, dst_state, rb, broker, turn, countVars>>

Packet == {"CONNACK", "REFUSED", "SUBACK", "UNSUBACK", "PINGRESP", "PUBACK", "PUBLISH"}

Init ==
  /\ EspInit
  /\ is_connected = FALSE /\ keep_age = 0
  /\ curr_state = "Idel" /\ dst_state = "Sub"
  /\ rb = <<>>
  /\ broker = "none"
  /\ turn = "reg"
  /\ lateAck = FALSE
  /\ orphan = 0 /\ stale = 0
  /\ faults = 0 /\ stalls = 0

(***************************************************************************)
(* A session lives on a connection.                                        *)
(***************************************************************************)
SameSession == broker' = IF sock = "open" /\ sock' = "open" THEN broker ELSE "none"
-----------------------------------------------------------------------------
(***************************************************************************)
(* drv_esp8266_send_data and what the broker makes of the packet.  A link  *)
(* the driver holds for closed is not used; a connection that is closed or *)
(* dead swallows the packet.  Sessions are clean; what needs a session     *)
(* and a second CONNECT make the broker close the connection.              *)
(***************************************************************************)
Answers(p, view) == broker' = view /\ down' = Append(down, p) /\ sock' = sock

BrokerCloses ==
  /\ broker' = "none"
  /\ sock' = "closed"
  /\ down' = Append(down, "CLOSED")

Obey(p) ==
  CASE p = "CONNECT" -> Answers("CONNACK", "session")
    [] p = "SUBSCRIBE" -> Answers("SUBACK", "subscribed")
    [] p = "UNSUBSCRIBE" -> Answers("UNSUBACK", "session")
    [] p = "PINGREQ" -> Answers("PINGRESP", broker)
    [] p = "PUBLISH" -> Answers("PUBACK", broker)

Unheard == ~conn_state \/ sock # "open"

Send(p) ==
  \/ Unheard /\ UNCHANGED <<broker, sock, down>>
  \/ ~Unheard /\ (p = "CONNECT") # (broker = "none") /\ BrokerCloses
  \/ ~Unheard /\ (p = "CONNECT") = (broker = "none") /\ Obey(p)

(***************************************************************************)
(* drv_mqtt_close: the topic is to be subscribed anew.                     *)
(***************************************************************************)
CloseKeepsTopic ==  \* mutant: curr_state survives the session
  /\ is_connected' = FALSE
  /\ keep_age' = 0
  /\ UNCHANGED <<curr_state, lateAck>>

drv_mqtt_close ==
  /\ is_connected' = FALSE
  /\ curr_state' = "Idel"
  /\ keep_age' = 0
  /\ lateAck' = FALSE

(***************************************************************************)
(* drv_mqtt_connect: CONNECT until it is answered; then the topic, one     *)
(* packet in a round until it is answered; then the age of the session.    *)
(* A round may send two packets: the subscription and the ping.            *)
(***************************************************************************)
Subscription ==
  IF curr_state = dst_state THEN {}
  ELSE IF dst_state = "Sub" THEN {"SUBSCRIBE"} ELSE {"UNSUBSCRIBE"}

NeverPing == {}  \* mutant: no ping

Ping == IF keep_age \in PingTime..(KeepTime - 1) THEN {"PINGREQ"} ELSE {}

SendTwo(s, p) ==  \* both packets meet the same broker, in this order
  \/ Unheard /\ UNCHANGED <<broker, sock, down>>
  \/ ~Unheard /\ broker = "none" /\ BrokerCloses
  \/ /\ ~Unheard /\ broker # "none"
     /\ broker' = IF s = "SUBSCRIBE" THEN "subscribed" ELSE "session"
     /\ down' = down \o <<IF s = "SUBSCRIBE" THEN "SUBACK" ELSE "UNSUBACK", "PINGRESP">>
     /\ sock' = sock

SendAll(packets) ==
  CASE packets = {} -> UNCHANGED <<broker, sock, down>>
    [] \E p \in packets : packets = {p} -> \E p \in packets : Send(p)
    [] OTHER -> \E s \in packets \ {"PINGREQ"} : SendTwo(s, "PINGREQ")

PingRefreshes ==  \* mutant: asking counts as an answer
  IF keep_age >= KeepTime THEN drv_mqtt_close
  ELSE /\ keep_age' = IF keep_age >= PingTime THEN 0 ELSE keep_age
       /\ UNCHANGED <<is_connected, curr_state, lateAck>>

CheckAge ==
  IF keep_age >= KeepTime THEN drv_mqtt_close ELSE UNCHANGED mqttVars

drv_mqtt_connect ==
  \/ ~is_connected /\ Send("CONNECT") /\ UNCHANGED mqttVars
  \/ is_connected /\ SendAll(Subscription \cup Ping) /\ CheckAge
-----------------------------------------------------------------------------
(***************************************************************************)
(* drv_mqtt_recv_check: one packet of the ring buffer.                     *)
(***************************************************************************)
Connack ==
  /\ Head(rb) = "CONNACK"
  /\ is_connected' = TRUE
  /\ keep_age' = 0
  /\ UNCHANGED <<curr_state, lateAck, broker, sock, down>>

Refused ==
  /\ Head(rb) = "REFUSED"
  /\ drv_mqtt_close
  /\ UNCHANGED <<broker, sock, down>>

Ack(p, s) ==
  /\ Head(rb) = p
  /\ curr_state' = s
  /\ lateAck' = (lateAck \/ ~is_connected)
  /\ UNCHANGED <<is_connected, keep_age, broker, sock, down>>

(***************************************************************************)
(* A message refreshes the session; some commands (app_ap01_recv_parse)    *)
(* have the device report its status at once.                              *)
(***************************************************************************)
Publish ==
  /\ Head(rb) = "PUBLISH"
  /\ keep_age' = 0
  /\ \/ UNCHANGED <<broker, sock, down>>
     \/ is_connected /\ Send("PUBLISH")
  /\ UNCHANGED <<is_connected, curr_state, lateAck>>

PingrespIgnored ==  \* mutant: keep_time is not set
  /\ Head(rb) = "PINGRESP"
  /\ UNCHANGED mqttVars /\ UNCHANGED <<broker, sock, down>>

Pingresp ==
  /\ Head(rb) = "PINGRESP"
  /\ keep_age' = 0
  /\ UNCHANGED <<is_connected, curr_state, lateAck, broker, sock, down>>

Puback ==
  /\ Head(rb) = "PUBACK"
  /\ UNCHANGED mqttVars /\ UNCHANGED <<broker, sock, down>>

drv_mqtt_recv_check ==
  /\ rb # <<>>
  /\ \/ Connack \/ Refused \/ Ack("SUBACK", "Sub") \/ Ack("UNSUBACK", "UnSub")
     \/ Publish \/ Pingresp \/ Puback
  /\ rb' = Tail(rb)
  /\ UNCHANGED <<state, conn_state, heart, uart, wifi, mux, dst_state, turn>>
  /\ UNCHANGED countVars

(***************************************************************************)
(* app_mqtt_put_data: what finds no room is dropped.                       *)
(***************************************************************************)
PutAll(q, ps) == q \o ps  \* mutant: no test for room

app_mqtt_put_data(q, ps) ==
  IF Len(q) + Len(ps) <= RbSize THEN q \o ps ELSE q \o SubSeq(ps, 1, RbSize - Len(q))

Receive ==
  /\ drv_esp8266_recv_process
  /\ rb' = app_mqtt_put_data(rb, uart.ipd)
  /\ SameSession
  /\ LinkEnds
  /\ UNCHANGED mqttVars /\ UNCHANGED <<dst_state, turn, orphan, faults, stalls>>
-----------------------------------------------------------------------------
(***************************************************************************)
(* The timers of a round, in the order of the thread's loop.  Rounds are   *)
(* seconds long, so that normally everything said is handled before the    *)
(* next begins; a bounded number of times it is not.                       *)
(***************************************************************************)
RegTurn ==
  /\ turn = "reg" /\ turn' = "mqtt"
  /\ drv_esp8266_reg_process
  /\ SameSession
  /\ LinkEnds
  /\ UNCHANGED mqttVars /\ UNCHANGED <<dst_state, rb, orphan, faults, stalls>>

MqttTurn ==
  /\ turn = "mqtt" /\ turn' = "status"
  /\ drv_mqtt_connect
  /\ UNCHANGED <<state, conn_state, heart, uart, wifi, mux, dst_state, rb>>
  /\ UNCHANGED countVars

StatusTurn ==
  /\ turn = "status" /\ turn' = "idle"
  /\ IF is_connected THEN Send("PUBLISH") ELSE UNCHANGED <<broker, sock, down>>
  /\ UNCHANGED <<state, conn_state, heart, uart, wifi, mux, dst_state, rb>>
  /\ UNCHANGED mqttVars /\ UNCHANGED countVars

Quiet == uart = Silence /\ down = <<>> /\ rb = <<>>
HasSession == sock = "open" /\ broker # "none"

Tick ==
  /\ turn = "idle" /\ turn' = "reg"
  /\ \/ Quiet /\ stalls' = stalls
     \/ ~Quiet /\ stalls < MaxStalls /\ stalls' = stalls + 1
  /\ keep_age' = IF is_connected THEN keep_age + 1 ELSE 0
  /\ orphan' = IF is_connected /\ ~HasSession THEN orphan + 1 ELSE 0
  /\ stale' = IF conn_state /\ sock # "open" /\ state = "OK" THEN stale + 1 ELSE 0
  /\ EspTick
  /\ UNCHANGED <<is_connected, curr_state, lateAck, dst_state, rb, broker, faults>>
-----------------------------------------------------------------------------
(***************************************************************************)
(* The world: the module, messages of the app, the debug command "unsub"   *)
(* and faults.                                                             *)
(***************************************************************************)
World(step) ==
  /\ step
  /\ SameSession
  /\ UNCHANGED mqttVars /\ UNCHANGED <<dst_state, rb, turn, orphan, stale, stalls>>

MessageOfApp ==
  /\ broker = "subscribed"
  /\ turn = "mqtt" /\ Quiet
  /\ down' = <<"PUBLISH">>
  /\ UNCHANGED <<state, conn_state, heart, uart, wifi, mux, sock, broker>>
  /\ UNCHANGED mqttVars /\ UNCHANGED <<dst_state, rb, turn>> /\ UNCHANGED countVars

Unsub ==  \* only drv_mqtt_connect reads what it sets
  /\ turn = "mqtt"
  /\ dst_state = "Sub" /\ dst_state' = "UnSub"
  /\ UNCHANGED espVars /\ UNCHANGED mqttVars
  /\ UNCHANGED <<rb, broker, turn>> /\ UNCHANGED countVars

Fault(step) == faults < MaxFaults /\ faults' = faults + 1 /\ step

BrokerDrops ==
  /\ sock = "open"
  /\ BrokerCloses
  /\ UNCHANGED <<state, conn_state, heart, uart, wifi, mux, dst_state, rb, turn>>
  /\ UNCHANGED mqttVars /\ UNCHANGED <<orphan, stale, stalls>>

BrokerRefuses ==  \* a CONNECT is answered by a return code and the end
  /\ sock = "open" /\ down # <<>> /\ down[Len(down)] = "CONNACK"
  /\ broker' = "none"
  /\ sock' = "closed"
  /\ down' = SubSeq(down, 1, Len(down) - 1) \o <<"REFUSED", "CLOSED">>
  /\ UNCHANGED <<state, conn_state, heart, uart, wifi, mux, dst_state, rb, turn>>
  /\ UNCHANGED mqttVars /\ UNCHANGED <<orphan, stale, stalls>>

Restart ==  \* reset of the device, by its watchdog, command or debug port
  /\ DeviceRestarts
  /\ is_connected' = FALSE /\ keep_age' = 0
  /\ curr_state' = "Idel" /\ dst_state' = "Sub"
  /\ rb' = <<>>
  /\ lateAck' = FALSE
  /\ turn' = "reg"
  /\ orphan' = 0 /\ stale' = 0
  /\ UNCHANGED <<broker, stalls>>

Device == RegTurn \/ MqttTurn \/ StatusTurn \/ Receive \/ drv_mqtt_recv_check
Faults ==
  \/ Fault(World(WifiDown)) \/ Fault(World(ModuleRestarts))
  \/ Fault(World(LinkDies)) \/ Fault(World(BufferLost))
  \/ Fault(BrokerDrops) \/ Fault(BrokerRefuses) \/ Fault(Restart)
Arrival == World(Arrive) /\ UNCHANGED faults
Joins == World(WifiUp) /\ UNCHANGED faults

Next == Device \/ Tick \/ Arrival \/ Joins \/ MessageOfApp \/ Unsub \/ Faults

(***************************************************************************)
(* The thread's loop runs for ever and its timers expire; the module hands *)
(* on what it received and joins the router again.                         *)
(***************************************************************************)
Fairness ==
  /\ WF_vars(RegTurn) /\ WF_vars(MqttTurn) /\ WF_vars(StatusTurn)
  /\ WF_vars(Receive) /\ WF_vars(drv_mqtt_recv_check) /\ WF_vars(Tick)
  /\ WF_vars(Arrival) /\ WF_vars(Joins)

Spec == Init /\ [][Next]_vars /\ Fairness
-----------------------------------------------------------------------------
(***************************************************************************)
(* Types.                                                                  *)
(***************************************************************************)
TypeOK ==
  /\ EspTypeOK(Packet)
  /\ is_connected \in BOOLEAN
  /\ keep_age \in 0..KeepTime
  /\ curr_state \in {"Idel", "Sub", "UnSub"}
  /\ dst_state \in {"Sub", "UnSub"}
  /\ rb \in Seq(Packet) /\ Len(rb) <= RbSize
  /\ broker \in {"none", "session", "subscribed"}
  /\ broker # "none" => sock = "open"
  /\ turn \in {"reg", "mqtt", "status", "idle"}
  /\ lateAck \in BOOLEAN
  /\ faults \in 0..MaxFaults /\ stalls \in 0..MaxStalls

(***************************************************************************)
(* A device that takes itself for connected although the broker holds no   *)
(* session of it, whatever was lost, finds out by the age of the session   *)
(* (drv_mqtt.c:180): its reports go to nobody for KeepTime rounds at most, *)
(* and one more for each round in which answers came late.                 *)
(***************************************************************************)
OrphanBound == orphan <= KeepTime + stalls

(***************************************************************************)
(* A link that the driver holds for open although it is gone (the ",CLOSED"*)
(* was lost in a buffer with other text, or never sent) is closed by the   *)
(* heart beat of drv_esp8266_connect_process.                              *)
(***************************************************************************)
StaleBound == stale <= HeartTime + 1 + stalls

(***************************************************************************)
(* A device at rest that holds its topic for subscribed and has a session  *)
(* gets its commands, except when an acknowledgement was handled after     *)
(* drv_mqtt_close: the topic is marked subscribed then (drv_mqtt.c:311),   *)
(* and the next session never asks for it.  (That is with one late round;  *)
(* with four in a row, acknowledgements can outlive a restart, too.)       *)
(***************************************************************************)
AtMostOneLate == MaxStalls <= 1

DeafHasReason ==
  (Quiet /\ is_connected /\ HasSession /\ dst_state = "Sub" /\ curr_state = "Sub")
    => (broker = "subscribed" \/ lateAck)

(***************************************************************************)
(* Nothing but a fault or a late answer ends a session: the ping keeps it  *)
(* although PUBACKs do not refresh keep_time, and the heart beat does not  *)
(* close a link that is in use.  The ring buffer must have room for two    *)
(* packets: a round may ask for two answers, SUBACK and PINGRESP, and      *)
(* app_mqtt_put_data drops the second where there is room for one only.    *)
(***************************************************************************)
RoomForTwo == RbSize >= 2

KeepsSession ==
  [][faults' = 0 /\ stalls' = 0 =>
       /\ is_connected => is_connected'
       /\ HasSession => HasSession']_vars

Online ==
  /\ state = "OK" /\ conn_state /\ is_connected /\ HasSession
  /\ \/ (broker = "subscribed") = (dst_state = "Sub")
     \/ lateAck

(***************************************************************************)
(* When faults end, the device is connected again for good, with its topic *)
(* as it wants it unless an acknowledgement came late; except that a       *)
(* module that restarted and was back at its router before the driver      *)
(* asked is never told CIPMUX again, and every CIPSTART fails.             *)
(***************************************************************************)
Recovers == <>[](Online \/ (state = "OK" /\ ~mux))
=============================================================================
