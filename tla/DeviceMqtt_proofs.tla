------------------------- MODULE DeviceMqtt_proofs -------------------------
(***************************************************************************)
(* How long a device can be wrong about its link and its session, that it  *)
(* keeps a good session, and why it hears its commands, for any times, any *)
(* ring buffer and any number of faults and late rounds but where a        *)
(* theorem names a hypothesis.                                             *)
(*                                                                         *)
(* The two bounds go by one argument.  A round that begins late may        *)
(* leave packets behind that make a lost session look young, so it is      *)
(* counted.  After the first round that begins with everything handled,    *)
(* nothing that refreshes the age can come: only a session makes packets,  *)
(* and only a CONNECT, which a connected client does not send, makes a     *)
(* session.  From then on the age grows with the rounds, to its limit.     *)
(***************************************************************************)
EXTENDS DeviceMqtt, SequenceTheorems, TLAPS

Item == Packet \cup Text

LEMMA Appended ==
  ASSUME NEW S, NEW s \in Seq(S), NEW e \in S
  PROVE  /\ Append(s, e) \in Seq(S)
         /\ Len(s) \in Nat
         /\ Len(Append(s, e)) = Len(s) + 1
         /\ Append(s, e)[Len(s) + 1] = e
         /\ \A j \in 1 .. Len(s) : Append(s, e)[j] = s[j]
OBVIOUS

LEMMA Tailed ==
  ASSUME NEW S, NEW s \in Seq(S), s # <<>>
  PROVE  /\ Tail(s) \in Seq(S)
         /\ Len(s) \in Nat \ {0}
         /\ Len(Tail(s)) = Len(s) - 1
         /\ Head(s) = s[1] /\ Head(s) \in S
         /\ \A j \in 1 .. Len(s) - 1 : Tail(s)[j] = s[j + 1]
OBVIOUS

-----------------------------------------------------------------------------
(* Types, in the parts that the actions leave alone or change *)

DriverType ==
  /\ state \in State
  /\ conn_state \in BOOLEAN
  /\ heart \in 0..(HeartTime + 1)
  /\ uart \in [ipd : Seq(Packet), said : SUBSET Text]
  /\ wifi \in BOOLEAN /\ mux \in BOOLEAN

NetType == sock \in {"closed", "open", "dead"} /\ down \in Seq(Item)

SessionType ==
  /\ broker \in {"none", "session", "subscribed"}
  /\ broker # "none" => sock = "open"

\* The age is looked at in every round before it grows.
AgeType ==
  /\ keep_age \in 0..KeepTime
  /\ turn \in {"status", "idle"} => keep_age < KeepTime

ClientType ==
  /\ is_connected \in BOOLEAN
  /\ ~is_connected => keep_age = 0
  /\ curr_state \in {"Idel", "Sub", "UnSub"}
  /\ lateAck \in BOOLEAN

RestType ==
  /\ dst_state \in {"Sub", "UnSub"}
  /\ turn \in {"reg", "mqtt", "status", "idle"}
  /\ faults \in 0..MaxFaults /\ stalls \in 0..MaxStalls

BufferType == rb \in Seq(Packet) /\ Len(rb) <= RbSize

TypeInv ==
  /\ DriverType /\ NetType /\ SessionType /\ AgeType /\ ClientType
  /\ RestType /\ BufferType

LEMMA TypeFacts ==
  /\ \A p \in Packet : p \in Item /\ p \notin Text
  /\ \A t \in Text : t \in Item
  /\ Silence \in [ipd : Seq(Packet), said : SUBSET Text]
  /\ KeepTime \in Nat /\ KeepTime >= 2 /\ HeartTime \in Nat
<1>1. \A p \in Packet : p \in Item /\ p \notin Text
  BY DEF Packet, Text, Item
<1>2. \A t \in Text : t \in Item
  BY DEF Item
<1>3. Silence \in [ipd : Seq(Packet), said : SUBSET Text]
  BY EmptySeq DEF Silence
<1>4. KeepTime \in Nat /\ KeepTime >= 2 /\ HeartTime \in Nat
  BY TimesAssumption, HeartAssumption
<1> QED BY <1>1, <1>2, <1>3, <1>4

LEMMA TypeInvImplies == TypeInv => TypeOK
BY DEF TypeInv, TypeOK, EspTypeOK, DriverType, NetType, SessionType, AgeType,
       ClientType, RestType, BufferType, Item

LEMMA TypeInit == Init => TypeInv
<1> SUFFICES ASSUME Init PROVE TypeInv
  OBVIOUS
<1>1. DriverType
  <2>1. heart \in 0..(HeartTime + 1)
    BY TypeFacts DEF Init, EspInit, drv_esp8266_init
  <2>2. state \in State
    BY DEF Init, EspInit, drv_esp8266_init, State
  <2>3. uart \in [ipd : Seq(Packet), said : SUBSET Text]
    BY TypeFacts, Zenon DEF Init, EspInit, drv_esp8266_init
  <2> QED BY <2>1, <2>2, <2>3, Zenon DEF Init, EspInit, drv_esp8266_init, DriverType
<1>2. NetType /\ SessionType
  BY EmptySeq DEF Init, EspInit, NetType, SessionType
<1>3. AgeType /\ ClientType
  <2>1. AgeType
    BY TypeFacts DEF Init, AgeType
  <2>2. ClientType
    BY Zenon DEF Init, ClientType
  <2> QED BY <2>1, <2>2
<1>4. RestType
  BY TimesAssumption DEF Init, RestType
<1>5. BufferType
  <2>1. Len(<<>>) = 0
    OBVIOUS
  <2> QED BY <2>1, EmptySeq, TimesAssumption DEF Init, BufferType
<1> QED BY <1>1, <1>2, <1>3, <1>4, <1>5 DEF TypeInv

\* What the module says is text.
LEMMA SaysType ==
  ASSUME NEW u \in [ipd : Seq(Packet), said : SUBSET Text], NEW T \in SUBSET Text
  PROVE  /\ [u EXCEPT !.said = @ \cup T] \in [ipd : Seq(Packet), said : SUBSET Text]
         /\ [u EXCEPT !.said = @ \cup T].ipd = u.ipd
         /\ [u EXCEPT !.said = @ \cup T].said = u.said \cup T
OBVIOUS

LEMMA CipStatusType ==
  ASSUME NEW u \in [ipd : Seq(Packet), said : SUBSET Text]
  PROVE  /\ CipStatus(u) \in [ipd : Seq(Packet), said : SUBSET Text]
         /\ CipStatus(u).ipd = u.ipd
         /\ "CONNECT" \notin u.said => "CONNECT" \notin CipStatus(u).said
<1> DEFINE T == {IF wifi THEN "STATUS3" ELSE "STATUS5"}
<1>1. T \in SUBSET Text /\ "CONNECT" \notin T
  BY DEF Text
<1>2. CipStatus(u) = [u EXCEPT !.said = @ \cup T]
  BY DEF CipStatus, Says
<1> HIDE DEF T
<1> QED BY <1>1, <1>2, SaysType

\* AT+CIPCLOSE leaves no packets behind.
LEMMA CipCloseType ==
  ASSUME NEW u \in [ipd : Seq(Packet), said : SUBSET Text], NetType, CipClose(u)
  PROVE  /\ NetType' /\ sock' = "closed"
         /\ down' = down \/ down' = <<>>
         /\ uart' \in [ipd : Seq(Packet), said : SUBSET Text]
         /\ uart'.ipd = u.ipd
         /\ "CONNECT" \in uart'.said => "CONNECT" \in u.said \cup TextsOf(down)
<1> DEFINE T == TextsOf(down) \cup {"CLOSED"}
<1>1. T \in SUBSET Text /\ ("CONNECT" \in T => "CONNECT" \in TextsOf(down))
  BY DEF TextsOf, Text
<1>2. sock' = "closed" /\ (down' = down \/ down' = <<>>)
  BY DEF CipClose
<1>3. NetType'
  BY <1>2, EmptySeq DEF NetType
<1>4. uart' = u \/ uart' = [u EXCEPT !.said = @ \cup T]
  <2>1. [u EXCEPT !.said = @ \cup T] = [u EXCEPT !.said = @ \cup TextsOf(down) \cup {"CLOSED"}]
    OBVIOUS
  <2> QED BY <2>1 DEF CipClose
<1> HIDE DEF T
<1> QED BY <1>1, <1>2, <1>3, <1>4, SaysType

-----------------------------------------------------------------------------
(* What is on its way *)

TextOnly(d) == \A i \in 1 .. Len(d) : d[i] \in Text
NoConnect(d) == \A i \in 1 .. Len(d) : d[i] # "CONNECT"

LEMMA EmptyIsText == TextOnly(<<>>) /\ NoConnect(<<>>)
<1>1. Len(<<>>) = 0
  OBVIOUS
<1> QED BY <1>1 DEF TextOnly, NoConnect

LEMMA TextAppended ==
  ASSUME NEW d \in Seq(Item), NEW t \in Text
  PROVE  /\ Append(d, t) \in Seq(Item)
         /\ TextOnly(d) => TextOnly(Append(d, t))
         /\ NoConnect(d) /\ t # "CONNECT" => NoConnect(Append(d, t))
<1>1. t \in Item
  BY TypeFacts
<1>2. /\ Append(d, t) \in Seq(Item) /\ Len(d) \in Nat /\ Len(Append(d, t)) = Len(d) + 1
      /\ Append(d, t)[Len(d) + 1] = t
      /\ \A j \in 1 .. Len(d) : Append(d, t)[j] = d[j]
  BY <1>1, Appended
<1>3. \A i \in 1 .. Len(Append(d, t)) : i = Len(d) + 1 \/ i \in 1 .. Len(d)
  BY <1>2
<1> QED BY <1>2, <1>3 DEF TextOnly, NoConnect

LEMMA TextTailed ==
  ASSUME NEW d \in Seq(Item), d # <<>>
  PROVE  /\ Tail(d) \in Seq(Item) /\ Head(d) \in Item
         /\ TextOnly(d) => TextOnly(Tail(d)) /\ Head(d) \in Text
         /\ NoConnect(d) => NoConnect(Tail(d)) /\ Head(d) # "CONNECT"
<1>1. /\ Tail(d) \in Seq(Item) /\ Len(d) \in Nat \ {0} /\ Len(Tail(d)) = Len(d) - 1
      /\ Head(d) = d[1] /\ Head(d) \in Item
      /\ \A j \in 1 .. Len(d) - 1 : Tail(d)[j] = d[j + 1]
  BY Tailed
<1>2. 1 \in 1 .. Len(d) /\ \A i \in 1 .. Len(Tail(d)) : i + 1 \in 1 .. Len(d) /\ Tail(d)[i] = d[i + 1]
  BY <1>1
<1> QED BY <1>1, <1>2 DEF TextOnly, NoConnect

LEMMA NoConnectTexts ==
  ASSUME NEW d, NoConnect(d)
  PROVE  "CONNECT" \notin TextsOf(d)
BY DEF NoConnect, TextsOf

-----------------------------------------------------------------------------
(* Packets that are sent: without a session they make no packet, and       *)
(* without a connection nothing at all.                                    *)

Harmless == ~HasSession' /\ (down' = down \/ down' = Append(down, "CLOSED"))

LEMMA ClosesType ==
  ASSUME NetType, BrokerCloses
  PROVE  NetType' /\ SessionType' /\ Harmless
<1>1. "CLOSED" \in Text
  BY DEF Text
<1>2. down' = Append(down, "CLOSED") /\ down' \in Seq(Item)
  BY <1>1, TextAppended DEF NetType, BrokerCloses
<1> QED BY <1>2 DEF BrokerCloses, NetType, SessionType, Harmless, HasSession

LEMMA SendType ==
  ASSUME NetType, SessionType,
         NEW p \in {"CONNECT", "SUBSCRIBE", "UNSUBSCRIBE", "PINGREQ", "PUBLISH"}, Send(p)
  PROVE  /\ NetType' /\ SessionType'
         /\ sock # "open" => UNCHANGED <<broker, sock, down>>
         /\ ~HasSession /\ p # "CONNECT" => Harmless
<1>1. CASE Unheard /\ UNCHANGED <<broker, sock, down>>
  BY <1>1 DEF NetType, SessionType, HasSession, Harmless
<1>2. CASE ~Unheard /\ BrokerCloses
  BY <1>2, ClosesType DEF Unheard
<1>3. CASE ~Unheard /\ (p = "CONNECT") = (broker = "none") /\ Obey(p)
  <2>1. PICK q \in Packet, v \in {"session", "subscribed", broker} : Answers(q, v)
    BY <1>3 DEF Obey, Packet
  <2>2. down' \in Seq(Item)
    BY <2>1, TypeFacts, Appended DEF Answers, NetType
  <2>3. sock = "open" /\ sock' = sock
    BY <1>3, <2>1 DEF Unheard, Answers
  <2>4. NetType' /\ SessionType'
    BY <2>1, <2>2, <2>3 DEF NetType, SessionType, Answers
  <2>5. ~HasSession => p = "CONNECT"
    BY <1>3, <2>3 DEF HasSession
  <2> QED BY <2>3, <2>4, <2>5
<1> QED BY <1>1, <1>2, <1>3 DEF Send

LEMMA SendTwoType ==
  ASSUME NetType, SessionType,
         NEW p \in {"SUBSCRIBE", "UNSUBSCRIBE"}, NEW q, SendTwo(p, q)
  PROVE  /\ NetType' /\ SessionType'
         /\ sock # "open" => UNCHANGED <<broker, sock, down>>
         /\ ~HasSession => Harmless
<1>1. CASE Unheard /\ UNCHANGED <<broker, sock, down>>
  BY <1>1 DEF NetType, SessionType, HasSession, Harmless
<1>2. CASE ~Unheard /\ BrokerCloses
  BY <1>2, ClosesType DEF Unheard
<1>3. CASE /\ ~Unheard /\ broker # "none"
           /\ broker' = IF p = "SUBSCRIBE" THEN "subscribed" ELSE "session"
           /\ down' = down \o <<IF p = "SUBSCRIBE" THEN "SUBACK" ELSE "UNSUBACK", "PINGRESP">>
           /\ sock' = sock
  <2>1. <<IF p = "SUBSCRIBE" THEN "SUBACK" ELSE "UNSUBACK", "PINGRESP">> \in Seq(Item)
    BY DEF Item, Packet
  <2>2. down' \in Seq(Item)
    BY <1>3, <2>1, ConcatProperties DEF NetType
  <2>3. sock = "open" /\ HasSession
    BY <1>3 DEF Unheard, HasSession
  <2> QED BY <1>3, <2>2, <2>3 DEF NetType, SessionType
<1> QED BY <1>1, <1>2, <1>3 DEF SendTwo

LEMMA SendAllType ==
  ASSUME NetType, SessionType, RestType, SendAll(Subscription \cup Ping)
  PROVE  /\ NetType' /\ SessionType'
         /\ sock # "open" => UNCHANGED <<broker, sock, down>>
         /\ ~HasSession => Harmless
<1> DEFINE all == Subscription \cup Ping
<1>1. Subscription \subseteq {"SUBSCRIBE", "UNSUBSCRIBE"} /\ Ping \subseteq {"PINGREQ"}
  BY DEF Subscription, Ping
<1>2. CASE all = {}
  <2>1. UNCHANGED <<broker, sock, down>>
    BY <1>2 DEF SendAll
  <2> QED BY <2>1 DEF NetType, SessionType, HasSession, Harmless
<1>3. CASE all # {} /\ \E p \in all : all = {p}
  <2>1. PICK p \in all : Send(p)
    BY <1>3 DEF SendAll
  <2>2. p \in {"SUBSCRIBE", "UNSUBSCRIBE", "PINGREQ"}
    BY <1>1
  <2> QED BY <2>1, <2>2, SendType
<1>4. CASE all # {} /\ ~\E p \in all : all = {p}
  <2>1. PICK p \in all \ {"PINGREQ"} : SendTwo(p, "PINGREQ")
    BY <1>4 DEF SendAll
  <2>2. p \in {"SUBSCRIBE", "UNSUBSCRIBE"}
    BY <1>1
  <2> QED BY <2>1, <2>2, SendTwoType
<1> QED BY <1>2, <1>3, <1>4

-----------------------------------------------------------------------------
(* The driver *)

\* What the module says next is no packet, and is no CONNECT for a link that
\* is believed open.
LinkQuiet ==
  /\ TextOnly(down) => TextOnly(down')
  /\ conn_state => /\ NoConnect(down) => NoConnect(down')
                   /\ "CONNECT" \in uart'.said => "CONNECT" \in uart.said \cup TextsOf(down)
                   /\ sock # "open" => sock' # "open"

DriverAct ==
  /\ DriverType' /\ NetType'
  /\ LinkQuiet
  /\ uart'.ipd = uart.ipd \/ uart'.ipd = <<>>

\* A link stays the same one with the same age, or is closed.
KeepsAge == conn_state /\ conn_state' => heart' = heart

LEMMA CloseType ==
  ASSUME DriverType, NetType, NEW u \in [ipd : Seq(Packet), said : SUBSET Text],
         u.ipd = uart.ipd \/ u.ipd = <<>>,
         "CONNECT" \in u.said => "CONNECT" \in uart.said,
         drv_esp8266_close(u), UNCHANGED <<wifi, mux>>, state' \in State
  PROVE  DriverAct /\ ~conn_state'
<1>1. /\ NetType' /\ sock' = "closed" /\ (down' = down \/ down' = <<>>)
      /\ uart' \in [ipd : Seq(Packet), said : SUBSET Text]
      /\ uart'.ipd = u.ipd
      /\ "CONNECT" \in uart'.said => "CONNECT" \in uart.said \cup TextsOf(down)
  BY CipCloseType DEF drv_esp8266_close
<1>2. conn_state' = FALSE /\ heart' = 0
  BY DEF drv_esp8266_close
<1>3. heart' \in 0..(HeartTime + 1)
  BY <1>2, TypeFacts
<1>4. DriverType'
  BY <1>1, <1>2, <1>3, Zenon DEF DriverType
<1>5. LinkQuiet
  BY <1>1, EmptyIsText DEF LinkQuiet
<1> QED BY <1>1, <1>2, <1>4, <1>5 DEF DriverAct

LEMMA ConnectType ==
  ASSUME DriverType, NetType, Connect, UNCHANGED <<state, wifi, mux>>
  PROVE  DriverAct /\ ~conn_state
<1> DEFINE heard(a, l) == IF l \/ a = "none" THEN uart ELSE Says(uart, a)
           opened(a, l) == Look(heard(a, l), "ALREADY") \/ Look(heard(a, l), "CONNECT")
           rest(a, l) == IF opened(a, l) \/ Look(heard(a, l), "CLOSED")
                         THEN Silence ELSE heard(a, l)
<1>1. PICK a \in Text \cup {"none"}, l \in BOOLEAN :
        /\ CipStart(a)
        /\ l => a \in {"CONNECT", "CLOSED"}
        /\ conn_state' = opened(a, l)
        /\ uart' = CipStatus(rest(a, l))
        /\ down' = IF l THEN Append(down, a) ELSE down
  BY DEF Connect
<1>2. /\ heard(a, l) \in [ipd : Seq(Packet), said : SUBSET Text]
      /\ heard(a, l).ipd = uart.ipd
  <2>1. CASE l \/ a = "none"
    BY <2>1 DEF DriverType
  <2>2. CASE ~(l \/ a = "none")
    <3>1. {a} \in SUBSET Text
      BY <2>2
    <3>2. heard(a, l) = [uart EXCEPT !.said = @ \cup {a}]
      BY <2>2 DEF Says
    <3> QED BY <3>1, <3>2, SaysType DEF DriverType
  <2> QED BY <2>1, <2>2
<1> HIDE DEF heard
<1>3. /\ rest(a, l) \in [ipd : Seq(Packet), said : SUBSET Text]
      /\ rest(a, l).ipd = uart.ipd \/ rest(a, l).ipd = <<>>
  BY <1>2, TypeFacts DEF Silence
<1>4. opened(a, l) \in BOOLEAN
  BY DEF Look
<1> HIDE DEF rest, opened
<1>5. /\ uart' \in [ipd : Seq(Packet), said : SUBSET Text]
      /\ uart'.ipd = uart.ipd \/ uart'.ipd = <<>>
  BY <1>1, <1>3, CipStatusType
<1>6. ~conn_state /\ heart' = heart
  BY DEF Connect
<1>7. l => a \in Text
  BY <1>1 DEF Text
<1>8. down' \in Seq(Item) /\ (TextOnly(down) => TextOnly(down'))
  BY <1>1, <1>7, TextAppended DEF NetType
<1>9. sock' \in {"closed", "open", "dead"}
  BY <1>1 DEF CipStart, NetType
<1>10. conn_state' \in BOOLEAN
  BY <1>1, <1>4, Zenon
<1>11. DriverType'
  BY <1>5, <1>6, <1>10, Zenon DEF DriverType
<1>12. NetType' /\ LinkQuiet
  BY <1>6, <1>8, <1>9 DEF NetType, LinkQuiet
<1> QED BY <1>5, <1>6, <1>11, <1>12, Zenon DEF DriverAct

LEMMA RegType ==
  ASSUME DriverType, NetType, drv_esp8266_reg_process
  PROVE  /\ DriverAct /\ KeepsAge
         /\ state = "OK" => state' = "OK"
         /\ state = "OK" /\ conn_state /\ conn_state' => heart <= HeartTime
<1> USE DEF moduleVars
<1>1. CASE RegStart
  <2>1. uart' = uart \/ uart' = Says(uart, "GOTIP")
    BY <1>1 DEF RegStart
  <2>2. /\ uart' \in [ipd : Seq(Packet), said : SUBSET Text] /\ uart'.ipd = uart.ipd
        /\ "CONNECT" \in uart'.said => "CONNECT" \in uart.said
    <3>1. {"GOTIP"} \in SUBSET Text /\ "CONNECT" \notin {"GOTIP"}
      BY DEF Text
    <3>2. Says(uart, "GOTIP") = [uart EXCEPT !.said = @ \cup {"GOTIP"}]
      BY DEF Says
    <3> QED BY <2>1, <3>1, <3>2, SaysType DEF DriverType
  <2>3. /\ state = "START" /\ state' = "INIT" /\ sock' = "closed" /\ down' = <<>>
        /\ mux' = FALSE /\ wifi' = wifi /\ conn_state' = conn_state /\ heart' = heart
    BY <1>1 DEF RegStart
  <2>4. state' \in State /\ state # "OK"
    BY <2>3 DEF State
  <2>5. DriverType'
    BY <2>2, <2>3, <2>4, Zenon DEF DriverType
  <2>6. NetType' /\ LinkQuiet
    BY <2>2, <2>3, EmptySeq, EmptyIsText DEF NetType, LinkQuiet
  <2> QED BY <2>2, <2>3, <2>4, <2>5, <2>6 DEF DriverAct, KeepsAge
<1>2. CASE RegInit
  <2>1. /\ state' \in State /\ state # "OK"
        /\ UNCHANGED <<conn_state, heart, uart, wifi, mux, sock, down>>
    BY <1>2 DEF RegInit, State
  <2>2. DriverType'
    BY <2>1, Zenon DEF DriverType
  <2> QED BY <2>1, <2>2 DEF DriverAct, KeepsAge, NetType, LinkQuiet
<1>3. CASE RegWifi
  <2>1. /\ uart' \in [ipd : Seq(Packet), said : SUBSET Text] /\ uart'.ipd = uart.ipd
        /\ "CONNECT" \notin uart.said => "CONNECT" \notin uart'.said
    BY <1>3, CipStatusType DEF RegWifi, DriverType
  <2>2. state # "OK" /\ UNCHANGED <<state, conn_state, heart, wifi, mux, sock, down>>
    BY <1>3 DEF RegWifi
  <2>3. DriverType'
    BY <2>1, <2>2, Zenon DEF DriverType
  <2> QED BY <2>1, <2>2, <2>3 DEF DriverAct, KeepsAge, NetType, LinkQuiet
<1>4. CASE RegNetCfg
  <2>1. /\ state' \in State /\ state # "OK" /\ mux' = TRUE
        /\ UNCHANGED <<conn_state, heart, uart, wifi, sock, down>>
    BY <1>4 DEF RegNetCfg, State
  <2>2. DriverType'
    BY <2>1, Zenon DEF DriverType
  <2> QED BY <2>1, <2>2 DEF DriverAct, KeepsAge, NetType, LinkQuiet
<1>5. CASE RegOk
  <2>1. state = "OK" /\ UNCHANGED <<state, wifi, mux>> /\ drv_esp8266_connect_process
    BY <1>5 DEF RegOk
  <2>2. CASE Connect
    BY <2>1, <2>2, ConnectType DEF KeepsAge
  <2>3. /\ CipStatus(uart) \in [ipd : Seq(Packet), said : SUBSET Text]
        /\ CipStatus(uart).ipd = uart.ipd
        /\ "CONNECT" \notin uart.said => "CONNECT" \notin CipStatus(uart).said
    BY CipStatusType DEF DriverType
  <2>4. CASE conn_state /\ heart > HeartTime /\ drv_esp8266_close(CipStatus(uart))
    <3>1. state' \in State
      BY <2>1 DEF DriverType
    <3>2. DriverAct /\ ~conn_state'
      BY <2>1, <2>3, <2>4, <3>1, CloseType
    <3> QED BY <2>1, <3>2 DEF KeepsAge
  <2>5. CASE /\ conn_state /\ heart <= HeartTime
             /\ uart' = CipStatus(uart)
             /\ UNCHANGED <<conn_state, heart, sock, down>>
    <3>1. DriverType'
      BY <2>1, <2>3, <2>5, Zenon DEF DriverType
    <3> QED BY <2>1, <2>3, <2>5, <3>1 DEF DriverAct, KeepsAge, NetType, LinkQuiet
  <2> QED BY <2>1, <2>2, <2>4, <2>5 DEF drv_esp8266_connect_process
<1> QED BY <1>1, <1>2, <1>3, <1>4, <1>5 DEF drv_esp8266_reg_process

LEMMA RecvType ==
  ASSUME DriverType, NetType, drv_esp8266_recv_process
  PROVE  /\ DriverAct
         /\ uart.ipd = <<>> /\ "CONNECT" \notin uart.said => KeepsAge
         /\ state = "OK" /\ conn_state' => state' = "OK"
         /\ heart' = heart \/ heart' = 0
<1> USE DEF moduleVars
<1>0. /\ Silence \in [ipd : Seq(Packet), said : SUBSET Text]
      /\ Silence.ipd = <<>> /\ Silence.said = {}
      /\ 0 \in 0..(HeartTime + 1)
  BY TypeFacts DEF Silence
<1>1. CASE RecvIpd
  <2>1. /\ uart.ipd # <<>> /\ heart' = 0 /\ uart' = Silence
        /\ UNCHANGED <<state, conn_state, wifi, mux, sock, down>>
    BY <1>1 DEF RecvIpd
  <2>2. DriverType'
    BY <1>0, <2>1, Zenon DEF DriverType
  <2> QED BY <1>0, <2>1, <2>2 DEF DriverAct, NetType, LinkQuiet
<1>2. CASE RecvGotIp \/ RecvOnline
  <2>1. /\ uart' = Silence /\ (state' = state \/ (state = "WIFI_CONNECT" /\ state' = "NET_CFG"))
        /\ UNCHANGED <<conn_state, heart, wifi, mux, sock, down>>
    BY <1>2 DEF RecvGotIp, RecvOnline, ToNetCfg
  <2>2. state' \in State
    BY <2>1 DEF DriverType, State
  <2>3. DriverType'
    BY <1>0, <2>1, <2>2, Zenon DEF DriverType
  <2> QED BY <1>0, <2>1, <2>3 DEF DriverAct, KeepsAge, NetType, LinkQuiet
<1>3. CASE RecvConnect
  <2>1. /\ "CONNECT" \in uart.said /\ conn_state' = TRUE /\ heart' = 0 /\ uart' = Silence
        /\ UNCHANGED <<state, wifi, mux, sock, down>>
    BY <1>3 DEF RecvConnect, Other
  <2>2. DriverType'
    BY <1>0, <2>1, Zenon DEF DriverType
  <2> QED BY <1>0, <2>1, <2>2 DEF DriverAct, NetType, LinkQuiet
<1>4. CASE RecvClosed \/ RecvOffline
  <2>1. drv_esp8266_close(Silence) /\ state' \in State /\ UNCHANGED <<wifi, mux>>
    BY <1>4 DEF RecvClosed, RecvOffline, State, DriverType
  <2>2. DriverAct /\ ~conn_state'
    BY <1>0, <2>1, CloseType
  <2>3. heart' = 0
    BY <2>1 DEF drv_esp8266_close
  <2> QED BY <2>2, <2>3 DEF KeepsAge
<1> QED BY <1>1, <1>2, <1>3, <1>4 DEF drv_esp8266_recv_process

-----------------------------------------------------------------------------
(* The module and the network *)

WorldAct ==
  /\ DriverType' /\ NetType' /\ UNCHANGED <<state, conn_state, heart>>
  /\ TextOnly(down) => TextOnly(down') /\ (uart'.ipd = uart.ipd \/ uart'.ipd = <<>>)
  /\ NoConnect(down) => /\ NoConnect(down')
                        /\ "CONNECT" \in uart'.said => "CONNECT" \in uart.said
  /\ sock # "open" => sock' # "open"

LEMMA ArriveType ==
  ASSUME DriverType, NetType, Arrive
  PROVE  WorldAct
<1>1. /\ down # <<>> /\ down' = Tail(down)
      /\ UNCHANGED <<state, conn_state, heart, wifi, mux, sock>>
  BY DEF Arrive
<1>2. /\ down' \in Seq(Item) /\ Head(down) \in Item
      /\ TextOnly(down) => TextOnly(down') /\ Head(down) \in Text
      /\ NoConnect(down) => NoConnect(down') /\ Head(down) # "CONNECT"
  BY <1>1, TextTailed DEF NetType
<1>3. CASE Head(down) \in Text
  <2>1. uart' = [uart EXCEPT !.said = @ \cup {Head(down)}]
    BY <1>3 DEF Arrive, Says
  <2>2. {Head(down)} \in SUBSET Text
    BY <1>3
  <2>3. /\ uart' \in [ipd : Seq(Packet), said : SUBSET Text] /\ uart'.ipd = uart.ipd
        /\ uart'.said = uart.said \cup {Head(down)}
    BY <2>1, <2>2, SaysType DEF DriverType
  <2>4. DriverType'
    BY <1>1, <2>3, Zenon DEF DriverType
  <2> QED BY <1>1, <1>2, <2>3, <2>4 DEF WorldAct, NetType
<1>4. CASE Head(down) \notin Text
  <2>1. Head(down) \in Packet /\ uart' = [uart EXCEPT !.ipd = Append(@, Head(down))]
    BY <1>2, <1>4 DEF Arrive, Item
  <2>2. uart.ipd \in Seq(Packet)
    BY DEF DriverType
  <2>3. Append(uart.ipd, Head(down)) \in Seq(Packet)
    BY <2>1, <2>2, Appended
  <2>4. uart' \in [ipd : Seq(Packet), said : SUBSET Text] /\ uart'.said = uart.said
    BY <2>1, <2>3 DEF DriverType
  <2>5. DriverType'
    BY <1>1, <2>4, Zenon DEF DriverType
  <2> QED BY <1>1, <1>2, <1>4, <2>4, <2>5 DEF WorldAct, NetType
<1> QED BY <1>3, <1>4

LEMMA WorldType ==
  ASSUME DriverType, NetType,
         Arrive \/ WifiUp \/ WifiDown \/ ModuleRestarts \/ LinkDies \/ BufferLost
  PROVE  WorldAct
<1> USE DEF moduleVars
<1>1. CASE Arrive
  BY <1>1, ArriveType
<1>2. CASE WifiUp
  <2>1. /\ wifi' = TRUE /\ uart' = [uart EXCEPT !.said = @ \cup {"GOTIP"}]
        /\ UNCHANGED <<state, conn_state, heart, mux, sock, down>>
    BY <1>2 DEF WifiUp, Says
  <2>2. {"GOTIP"} \in SUBSET Text
    BY DEF Text
  <2>3. /\ uart' \in [ipd : Seq(Packet), said : SUBSET Text] /\ uart'.ipd = uart.ipd
        /\ uart'.said = uart.said \cup {"GOTIP"}
    BY <2>1, <2>2, SaysType DEF DriverType
  <2>4. DriverType'
    BY <2>1, <2>3, Zenon DEF DriverType
  <2> QED BY <2>1, <2>3, <2>4 DEF WorldAct, NetType
<1>3. CASE WifiDown
  <2>1. wifi' = FALSE /\ CipClose(uart) /\ UNCHANGED <<state, conn_state, heart, mux>>
    BY <1>3 DEF WifiDown
  <2>2. /\ NetType' /\ sock' = "closed" /\ (down' = down \/ down' = <<>>)
        /\ uart' \in [ipd : Seq(Packet), said : SUBSET Text] /\ uart'.ipd = uart.ipd
        /\ "CONNECT" \in uart'.said => "CONNECT" \in uart.said \cup TextsOf(down)
    BY <2>1, CipCloseType DEF DriverType
  <2>3. NoConnect(down) => "CONNECT" \notin TextsOf(down)
    BY NoConnectTexts
  <2>4. DriverType'
    BY <2>1, <2>2, Zenon DEF DriverType
  <2> QED BY <2>1, <2>2, <2>3, <2>4, EmptyIsText DEF WorldAct
<1>4. CASE ModuleRestarts
  <2>1. /\ wifi' = FALSE /\ mux' = FALSE /\ sock' = "closed" /\ down' = <<>>
        /\ UNCHANGED <<state, conn_state, heart, uart>>
    BY <1>4 DEF ModuleRestarts
  <2>2. DriverType'
    BY <2>1, Zenon DEF DriverType
  <2> QED BY <2>1, <2>2, EmptySeq, EmptyIsText DEF WorldAct, NetType
<1>5. CASE LinkDies
  <2>1. /\ sock = "open" /\ sock' = "dead"
        /\ UNCHANGED <<state, conn_state, heart, uart, wifi, mux, down>>
    BY <1>5 DEF LinkDies
  <2>2. DriverType'
    BY <2>1, Zenon DEF DriverType
  <2> QED BY <2>1, <2>2 DEF WorldAct, NetType
<1>6. CASE BufferLost
  <2>1. uart' = Silence /\ UNCHANGED <<state, conn_state, heart, wifi, mux, sock, down>>
    BY <1>6 DEF BufferLost
  <2>2. /\ uart' \in [ipd : Seq(Packet), said : SUBSET Text]
        /\ uart'.ipd = <<>> /\ uart'.said = {}
    BY <2>1, TypeFacts DEF Silence
  <2>3. DriverType'
    BY <2>1, <2>2, Zenon DEF DriverType
  <2> QED BY <2>1, <2>2, <2>3 DEF WorldAct, NetType
<1> QED BY <1>1, <1>2, <1>3, <1>4, <1>5, <1>6

LEMMA SessionEnds ==
  ASSUME SessionType, SameSession
  PROVE  SessionType' /\ (~HasSession => ~HasSession')
BY DEF SessionType, SameSession, HasSession

LEMMA TickAge ==
  ASSUME NEW age \in 0..(HeartTime + 1)
  PROVE  /\ Older(age) \in 1..(HeartTime + 1)
         /\ age <= HeartTime => Older(age) = age + 1
BY TypeFacts DEF Older

LEMMA PutType ==
  ASSUME BufferType, NEW ps \in Seq(Packet), rb' = app_mqtt_put_data(rb, ps)
  PROVE  BufferType' /\ (ps = <<>> => rb' = rb)
<1>1. rb \in Seq(Packet) /\ Len(rb) \in Nat /\ Len(ps) \in Nat /\ RbSize \in Nat
  BY TimesAssumption, LenProperties DEF BufferType
<1>2. CASE Len(rb) + Len(ps) <= RbSize
  <2>1. rb' = rb \o ps
    BY <1>2 DEF app_mqtt_put_data
  <2>2. rb' \in Seq(Packet) /\ Len(rb') = Len(rb) + Len(ps)
    BY <1>1, <2>1, ConcatProperties
  <2>3. ps = <<>> => rb' = rb
    BY <1>1, <2>1, ConcatEmptySeq
  <2> QED BY <1>1, <1>2, <2>2, <2>3 DEF BufferType
<1>3. CASE ~(Len(rb) + Len(ps) <= RbSize)
  <2>1. rb' = rb \o SubSeq(ps, 1, RbSize - Len(rb))
    BY <1>3 DEF app_mqtt_put_data
  <2>2. RbSize - Len(rb) \in Nat /\ RbSize - Len(rb) <= Len(ps)
    BY <1>1, <1>3 DEF BufferType
  <2>3. /\ SubSeq(ps, 1, RbSize - Len(rb)) \in Seq(Packet)
        /\ Len(SubSeq(ps, 1, RbSize - Len(rb))) = RbSize - Len(rb)
    BY <1>1, <2>2
  <2>4. rb' \in Seq(Packet) /\ Len(rb') = Len(rb) + (RbSize - Len(rb))
    BY <1>1, <2>1, <2>3, ConcatProperties
  <2>5. ps # <<>>
    <3>1. Len(<<>>) = 0
      OBVIOUS
    <3> QED BY <1>1, <1>3, <3>1 DEF BufferType
  <2> QED BY <1>1, <2>4, <2>5 DEF BufferType
<1> QED BY <1>2, <1>3

-----------------------------------------------------------------------------
(* Every step keeps the types *)

LEMMA MqttTurnType ==
  ASSUME TypeInv, MqttTurn
  PROVE  TypeInv'
<1> USE DEF mqttVars, countVars
<1>1. /\ turn = "mqtt" /\ turn' = "status" /\ drv_mqtt_connect
      /\ UNCHANGED <<state, conn_state, heart, uart, wifi, mux, dst_state, rb>>
      /\ UNCHANGED <<orphan, stale, faults, stalls>>
  BY DEF MqttTurn
<1>2. DriverType' /\ RestType' /\ BufferType'
  BY <1>1, Zenon DEF TypeInv, DriverType, RestType, BufferType
<1>3. CASE ~is_connected /\ Send("CONNECT") /\ UNCHANGED mqttVars
  <2>1. NetType' /\ SessionType'
    BY <1>3, SendType DEF TypeInv
  <2>2. keep_age = 0 /\ keep_age' = 0
    BY <1>3, Zenon DEF TypeInv, ClientType
  <2>3. AgeType'
    BY <2>2, TypeFacts DEF AgeType
  <2>4. ClientType'
    BY <1>3, Zenon DEF TypeInv, ClientType
  <2> QED BY <1>2, <2>1, <2>3, <2>4 DEF TypeInv
<1>4. CASE is_connected /\ SendAll(Subscription \cup Ping) /\ CheckAge
  <2>1. NetType' /\ SessionType'
    BY <1>4, SendAllType DEF TypeInv
  <2>2. CASE keep_age >= KeepTime
    <3>1. is_connected' = FALSE /\ curr_state' = "Idel" /\ keep_age' = 0 /\ lateAck' = FALSE
      BY <1>4, <2>2 DEF CheckAge, drv_mqtt_close
    <3>2. AgeType'
      BY <3>1, TypeFacts DEF AgeType
    <3>3. ClientType'
      BY <3>1, Zenon DEF ClientType
    <3> QED BY <1>2, <2>1, <3>2, <3>3 DEF TypeInv
  <2>3. CASE ~(keep_age >= KeepTime)
    <3>1. UNCHANGED <<is_connected, keep_age, curr_state, lateAck>>
      BY <1>4, <2>3 DEF CheckAge
    <3>2. AgeType'
      BY <2>3, <3>1, TypeFacts DEF TypeInv, AgeType
    <3>3. ClientType'
      BY <3>1, Zenon DEF TypeInv, ClientType
    <3> QED BY <1>2, <2>1, <3>2, <3>3 DEF TypeInv
  <2> QED BY <2>2, <2>3
<1> QED BY <1>1, <1>3, <1>4 DEF drv_mqtt_connect

LEMMA RecvCheckType ==
  ASSUME TypeInv, drv_mqtt_recv_check
  PROVE  TypeInv'
<1> USE DEF mqttVars, countVars
<1>1. /\ rb # <<>> /\ rb' = Tail(rb)
      /\ UNCHANGED <<state, conn_state, heart, uart, wifi, mux, dst_state, turn>>
      /\ UNCHANGED <<orphan, stale, faults, stalls>>
  BY DEF drv_mqtt_recv_check
<1>2. DriverType' /\ RestType'
  BY <1>1, Zenon DEF TypeInv, DriverType, RestType
<1>3. BufferType'
  <2>1. /\ Tail(rb) \in Seq(Packet) /\ Len(rb) \in Nat \ {0} /\ Len(Tail(rb)) = Len(rb) - 1
    BY <1>1, Tailed DEF TypeInv, BufferType
  <2> QED BY <1>1, <2>1, TimesAssumption DEF TypeInv, BufferType
<1>4. ASSUME UNCHANGED <<broker, sock, down>> PROVE NetType' /\ SessionType'
  BY <1>4 DEF TypeInv, NetType, SessionType
<1>5. ASSUME keep_age' = 0 \/ keep_age' = keep_age PROVE AgeType'
  BY <1>1, <1>5, TypeFacts DEF TypeInv, AgeType
<1>6. CASE Connack
  <2>1. /\ is_connected' = TRUE /\ keep_age' = 0
        /\ UNCHANGED <<curr_state, lateAck, broker, sock, down>>
    BY <1>6 DEF Connack
  <2>2. ClientType'
    BY <2>1, Zenon DEF TypeInv, ClientType
  <2> QED BY <1>2, <1>3, <1>4, <1>5, <2>1, <2>2 DEF TypeInv
<1>7. CASE Refused
  <2>1. /\ is_connected' = FALSE /\ curr_state' = "Idel" /\ keep_age' = 0 /\ lateAck' = FALSE
        /\ UNCHANGED <<broker, sock, down>>
    BY <1>7 DEF Refused, drv_mqtt_close
  <2>2. ClientType'
    BY <2>1, Zenon DEF ClientType
  <2> QED BY <1>2, <1>3, <1>4, <1>5, <2>1, <2>2 DEF TypeInv
<1>8. CASE Ack("SUBACK", "Sub") \/ Ack("UNSUBACK", "UnSub")
  <2>1. /\ curr_state' \in {"Sub", "UnSub"} /\ lateAck' = (lateAck \/ ~is_connected)
        /\ UNCHANGED <<is_connected, keep_age, broker, sock, down>>
    BY <1>8 DEF Ack
  <2>2. lateAck' \in BOOLEAN
    BY <2>1, Zenon
  <2>3. ClientType'
    BY <2>1, <2>2, Zenon DEF TypeInv, ClientType
  <2> QED BY <1>2, <1>3, <1>4, <1>5, <2>1, <2>3 DEF TypeInv
<1>9. CASE Publish
  <2>1. keep_age' = 0 /\ UNCHANGED <<is_connected, curr_state, lateAck>>
    BY <1>9 DEF Publish
  <2>2. ClientType'
    BY <2>1, Zenon DEF TypeInv, ClientType
  <2>3. NetType' /\ SessionType'
    <3>1. UNCHANGED <<broker, sock, down>> \/ Send("PUBLISH")
      BY <1>9 DEF Publish
    <3> QED BY <1>4, <3>1, SendType DEF TypeInv
  <2> QED BY <1>2, <1>3, <1>5, <2>1, <2>2, <2>3 DEF TypeInv
<1>10. CASE Pingresp \/ Puback
  <2>1. /\ keep_age' = 0 \/ keep_age' = keep_age
        /\ UNCHANGED <<is_connected, curr_state, lateAck, broker, sock, down>>
    BY <1>10 DEF Pingresp, Puback
  <2>2. ClientType'
    BY <2>1, Zenon DEF TypeInv, ClientType
  <2> QED BY <1>2, <1>3, <1>4, <1>5, <2>1, <2>2 DEF TypeInv
<1> QED BY <1>6, <1>7, <1>8, <1>9, <1>10 DEF drv_mqtt_recv_check

LEMMA TickType ==
  ASSUME TypeInv, Tick
  PROVE  TypeInv'
<1> USE DEF mqttVars, moduleVars
<1>1. /\ turn = "idle" /\ turn' = "reg"
      /\ UNCHANGED <<state, conn_state, uart, wifi, mux, sock, down>>
      /\ UNCHANGED <<is_connected, curr_state, lateAck, dst_state, rb, broker, faults>>
  BY DEF Tick, EspTick
<1>2. DriverType'
  <2>1. heart' \in 0..(HeartTime + 1)
    BY TickAge, TypeFacts DEF Tick, EspTick, TypeInv, DriverType
  <2> QED BY <1>1, <2>1, Zenon DEF TypeInv, DriverType
<1>3. NetType' /\ SessionType' /\ BufferType'
  BY <1>1 DEF TypeInv, NetType, SessionType, BufferType
<1>4. AgeType'
  <2>1. keep_age' = keep_age + 1 \/ keep_age' = 0
    BY DEF Tick
  <2> QED BY <1>1, <2>1, TypeFacts DEF TypeInv, AgeType
<1>5. ClientType'
  <2>1. ~is_connected => keep_age' = 0
    BY DEF Tick
  <2> QED BY <1>1, <2>1, Zenon DEF TypeInv, ClientType
<1>6. RestType'
  <2>1. stalls' \in 0..MaxStalls
    BY TimesAssumption DEF Tick, TypeInv, RestType
  <2> QED BY <1>1, <2>1 DEF TypeInv, RestType
<1> QED BY <1>2, <1>3, <1>4, <1>5, <1>6 DEF TypeInv

LEMMA RestartType ==
  ASSUME TypeInv, Restart, faults' \in 0..MaxFaults
  PROVE  TypeInv'
<1> USE DEF moduleVars
<1>1. /\ state' = "START" /\ conn_state' = FALSE /\ heart' = 0 /\ uart' = Silence
      /\ is_connected' = FALSE /\ keep_age' = 0 /\ curr_state' = "Idel" /\ dst_state' = "Sub"
      /\ rb' = <<>> /\ lateAck' = FALSE /\ turn' = "reg"
      /\ UNCHANGED <<wifi, mux, sock, down, broker, stalls>>
  BY DEF Restart, DeviceRestarts
<1>2. DriverType'
  <2>1. heart' \in 0..(HeartTime + 1) /\ state' \in State
    BY <1>1, TypeFacts DEF State
  <2>2. uart' \in [ipd : Seq(Packet), said : SUBSET Text]
    BY <1>1, TypeFacts
  <2> QED BY <1>1, <2>1, <2>2, Zenon DEF TypeInv, DriverType
<1>3. NetType' /\ SessionType'
  BY <1>1 DEF TypeInv, NetType, SessionType
<1>4. AgeType'
  BY <1>1, TypeFacts DEF AgeType
<1>5. ClientType'
  BY <1>1, Zenon DEF ClientType
<1>6. RestType'
  BY <1>1 DEF TypeInv, RestType
<1>7. BufferType'
  <2>1. Len(<<>>) = 0
    OBVIOUS
  <2> QED BY <1>1, <2>1, EmptySeq, TimesAssumption DEF BufferType
<1> QED BY <1>2, <1>3, <1>4, <1>5, <1>6, <1>7 DEF TypeInv

\* What the broker does on its own.
LEMMA BrokerActs ==
  ASSUME TypeInv,
         \/ MessageOfApp
         \/ BrokerDrops
         \/ BrokerRefuses
  PROVE  /\ NetType' /\ SessionType' /\ sock = "open"
         /\ ~HasSession /\ TextOnly(down) => ~HasSession' /\ TextOnly(down')
<1>1. CASE MessageOfApp
  <2>1. broker = "subscribed" /\ down' = <<"PUBLISH">> /\ UNCHANGED <<sock, broker>>
    BY <1>1 DEF MessageOfApp
  <2>2. <<"PUBLISH">> \in Seq(Item)
    BY DEF Item, Packet
  <2> QED BY <2>1, <2>2 DEF TypeInv, NetType, SessionType, HasSession
<1>2. CASE BrokerDrops
  <2>1. sock = "open" /\ BrokerCloses
    BY <1>2 DEF BrokerDrops
  <2>2. NetType' /\ SessionType' /\ Harmless
    BY <2>1, ClosesType DEF TypeInv
  <2>3. "CLOSED" \in Text
    BY DEF Text
  <2> QED BY <2>1, <2>2, <2>3, TextAppended DEF Harmless, TypeInv, NetType
<1>3. CASE BrokerRefuses
  <2>1. /\ sock = "open" /\ down # <<>> /\ down[Len(down)] = "CONNACK"
        /\ broker' = "none" /\ sock' = "closed"
        /\ down' = SubSeq(down, 1, Len(down) - 1) \o <<"REFUSED", "CLOSED">>
    BY <1>3 DEF BrokerRefuses
  <2>2. down \in Seq(Item) /\ Len(down) \in Nat \ {0}
    BY <2>1 DEF TypeInv, NetType
  <2>3. SubSeq(down, 1, Len(down) - 1) \in Seq(Item)
    BY <2>2
  <2>4. <<"REFUSED", "CLOSED">> \in Seq(Item)
    BY DEF Item, Packet, Text
  <2>5. down' \in Seq(Item)
    BY <2>1, <2>3, <2>4, ConcatProperties
  <2>6. ~TextOnly(down)
    <3>1. Len(down) \in 1 .. Len(down)
      BY <2>2
    <3>2. "CONNACK" \notin Text
      BY DEF Text
    <3> QED BY <2>1, <3>1, <3>2 DEF TextOnly
  <2> QED BY <2>1, <2>5, <2>6 DEF NetType, SessionType
<1> QED BY <1>1, <1>2, <1>3

\* What the module and the network do on their own.
WorldStep == Arrive \/ WifiUp \/ WifiDown \/ ModuleRestarts \/ LinkDies \/ BufferLost

LEMMA NextCases ==
  ASSUME Next
  PROVE  \/ RegTurn \/ MqttTurn \/ StatusTurn \/ Receive \/ drv_mqtt_recv_check
         \/ Tick \/ Unsub
         \/ World(WorldStep) /\ faults' \in {faults, faults + 1} /\ (faults' # faults => faults < MaxFaults)
         \/ MessageOfApp
         \/ faults < MaxFaults /\ faults' = faults + 1 /\ (BrokerDrops \/ BrokerRefuses \/ Restart)
BY DEF Next, Device, Faults, Fault, Arrival, Joins, World, WorldStep

LEMMA TypeNext == TypeInv /\ [Next]_vars => TypeInv'
<1> SUFFICES ASSUME TypeInv, [Next]_vars PROVE TypeInv'
  OBVIOUS
<1> USE DEF mqttVars, countVars, espVars, moduleVars
<1>0. /\ DriverType /\ NetType /\ SessionType /\ AgeType /\ ClientType
      /\ RestType /\ BufferType
  BY DEF TypeInv
<1>a. /\ UNCHANGED <<is_connected, curr_state, lateAck, keep_age>> => ClientType'
      /\ UNCHANGED <<state, conn_state, heart, uart, wifi, mux>> => DriverType'
  BY <1>0, Zenon DEF ClientType, DriverType
<1>b. ASSUME UNCHANGED keep_age, turn' \in {"reg", "mqtt"} \/ turn' = turn \/ turn = "status"
      PROVE  AgeType'
  BY <1>0, <1>b DEF AgeType
<1>c. ASSUME UNCHANGED rb PROVE BufferType'
  BY <1>0, <1>c DEF BufferType
<1>d. ASSUME UNCHANGED <<dst_state, stalls>>, turn' \in {"reg", "mqtt", "status", "idle"},
             faults' \in 0..MaxFaults
      PROVE  RestType'
  BY <1>0, <1>d DEF RestType
<1>e. /\ turn \in {"reg", "mqtt", "status", "idle"}
      /\ faults \in 0..MaxFaults
      /\ faults < MaxFaults => faults + 1 \in 0..MaxFaults
  BY <1>0, TimesAssumption DEF RestType
<1>1. CASE RegTurn
  <2>1. /\ turn' = "mqtt" /\ drv_esp8266_reg_process /\ SameSession
        /\ UNCHANGED <<is_connected, keep_age, curr_state, lateAck, dst_state, rb, faults, stalls>>
    BY <1>1 DEF RegTurn
  <2>2. DriverType' /\ NetType'
    BY <1>0, <2>1, RegType DEF DriverAct
  <2> QED BY <1>0, <1>a, <1>b, <1>c, <1>d, <1>e, <2>1, <2>2, SessionEnds DEF TypeInv
<1>2. CASE MqttTurn
  BY <1>2, MqttTurnType
<1>3. CASE StatusTurn
  <2>1. /\ turn = "status" /\ turn' = "idle"
        /\ Send("PUBLISH") \/ UNCHANGED <<broker, sock, down>>
        /\ UNCHANGED <<state, conn_state, heart, uart, wifi, mux, dst_state, rb>>
        /\ UNCHANGED <<is_connected, keep_age, curr_state, lateAck, faults, stalls>>
    BY <1>3 DEF StatusTurn
  <2>2. NetType' /\ SessionType'
    <3>1. CASE Send("PUBLISH")
      BY <1>0, <3>1, SendType
    <3>2. CASE UNCHANGED <<broker, sock, down>>
      BY <1>0, <3>2 DEF NetType, SessionType
    <3> QED BY <2>1, <3>1, <3>2
  <2> QED BY <1>a, <1>b, <1>c, <1>d, <1>e, <2>1, <2>2 DEF TypeInv
<1>4. CASE Receive
  <2>1. /\ drv_esp8266_recv_process /\ rb' = app_mqtt_put_data(rb, uart.ipd) /\ SameSession
        /\ UNCHANGED <<is_connected, keep_age, curr_state, lateAck, dst_state, turn, faults, stalls>>
    BY <1>4 DEF Receive
  <2>2. DriverType' /\ NetType'
    BY <1>0, <2>1, RecvType DEF DriverAct
  <2>3. uart.ipd \in Seq(Packet)
    BY <1>0 DEF DriverType
  <2>4. BufferType'
    BY <1>0, <2>1, <2>3, PutType
  <2> QED BY <1>0, <1>a, <1>b, <1>d, <1>e, <2>1, <2>2, <2>4, SessionEnds DEF TypeInv
<1>5. CASE drv_mqtt_recv_check
  BY <1>5, RecvCheckType
<1>6. CASE Tick
  BY <1>6, TickType
<1>7. CASE Unsub
  <2>1. /\ dst_state' = "UnSub" /\ UNCHANGED <<state, conn_state, heart, uart, wifi, mux, sock, down>>
        /\ UNCHANGED <<is_connected, keep_age, curr_state, lateAck, rb, broker, turn, faults, stalls>>
    BY <1>7 DEF Unsub
  <2>2. RestType' /\ NetType' /\ SessionType'
    BY <1>0, <2>1 DEF RestType, NetType, SessionType
  <2> QED BY <1>a, <1>b, <1>c, <2>1, <2>2 DEF TypeInv
<1>8. CASE /\ World(WorldStep)
           /\ faults' \in {faults, faults + 1} /\ (faults' # faults => faults < MaxFaults)
  <2>1. /\ WorldStep /\ SameSession
        /\ UNCHANGED <<is_connected, keep_age, curr_state, lateAck, dst_state, rb, turn, stalls>>
    BY <1>8 DEF World
  <2>2. DriverType' /\ NetType'
    BY <1>0, <2>1, WorldType DEF WorldStep, WorldAct
  <2> QED BY <1>0, <1>8, <1>a, <1>b, <1>c, <1>d, <1>e, <2>1, <2>2, SessionEnds DEF TypeInv
<1>9. CASE MessageOfApp
  <2>1. /\ UNCHANGED <<state, conn_state, heart, uart, wifi, mux>>
        /\ UNCHANGED <<is_connected, keep_age, curr_state, lateAck, dst_state, rb, turn, faults, stalls>>
    BY <1>9 DEF MessageOfApp
  <2>2. NetType' /\ SessionType'
    BY <1>9, BrokerActs
  <2> QED BY <1>a, <1>b, <1>c, <1>d, <1>e, <2>1, <2>2 DEF TypeInv
<1>10. CASE faults < MaxFaults /\ faults' = faults + 1 /\ (BrokerDrops \/ BrokerRefuses)
  <2>1. /\ UNCHANGED <<state, conn_state, heart, uart, wifi, mux>>
        /\ UNCHANGED <<is_connected, keep_age, curr_state, lateAck, dst_state, rb, turn, stalls>>
    BY <1>10 DEF BrokerDrops, BrokerRefuses
  <2>2. NetType' /\ SessionType'
    BY <1>10, BrokerActs
  <2> QED BY <1>10, <1>a, <1>b, <1>c, <1>d, <1>e, <2>1, <2>2 DEF TypeInv
<1>11. CASE faults < MaxFaults /\ faults' = faults + 1 /\ Restart
  BY <1>11, <1>e, RestartType
<1>12. CASE UNCHANGED vars
  <2>1. /\ UNCHANGED <<state, conn_state, heart, uart, wifi, mux, sock, down>>
        /\ UNCHANGED <<is_connected, keep_age, curr_state, lateAck, dst_state, rb, broker, turn,
                       faults, stalls>>
    BY <1>12 DEF vars
  <2>2. NetType' /\ SessionType'
    BY <1>0, <2>1 DEF NetType, SessionType
  <2> QED BY <1>a, <1>b, <1>c, <1>d, <1>e, <2>1, <2>2 DEF TypeInv
<1> QED BY <1>1, <1>2, <1>3, <1>4, <1>5, <1>6, <1>7, <1>8, <1>9, <1>10, <1>11, <1>12, NextCases

(***************************************************************************)
(* The variables keep their types: the ring buffer never holds more than   *)
(* it has room for (app_mqtt.c:85), the broker has a session only on an    *)
(* open connection, and the age never passes its limit, because every      *)
(* round looks at it (drv_mqtt.c:180).                                     *)
(***************************************************************************)
THEOREM TypeCorrect == Spec => []TypeOK
<1>1. Init => TypeInv
  BY TypeInit
<1>2. TypeInv /\ [Next]_vars => TypeInv'
  BY TypeNext
<1>3. TypeInv => TypeOK
  BY TypeInvImplies
<1> QED BY <1>1, <1>2, <1>3, PTL DEF Spec

-----------------------------------------------------------------------------
(* The session *)

NoPackets == rb = <<>> /\ uart.ipd = <<>> /\ TextOnly(down)

OrphanInv ==
  /\ orphan \in Nat /\ orphan <= KeepTime + stalls
  /\ orphan > stalls =>
       /\ NoPackets /\ ~HasSession
       /\ is_connected \/ turn \in {"status", "idle"}
       /\ is_connected => orphan <= keep_age + stalls

\* No step but a tick lets orphan grow.
LEMMA OrphanKept ==
  ASSUME OrphanInv, UNCHANGED <<orphan, stalls>>,
         orphan > stalls => /\ NoPackets' /\ ~HasSession'
                            /\ is_connected' \/ turn' \in {"status", "idle"}
                            /\ is_connected' => is_connected /\ keep_age' = keep_age
  PROVE  OrphanInv'
<1>1. orphan' \in Nat /\ orphan' <= KeepTime + stalls'
  BY DEF OrphanInv
<1>2. ASSUME orphan' > stalls'
      PROVE  /\ NoPackets' /\ ~HasSession'
             /\ is_connected' \/ turn' \in {"status", "idle"}
             /\ is_connected' => orphan' <= keep_age' + stalls'
  <2>1. orphan > stalls
    BY <1>2
  <2> QED BY <2>1 DEF OrphanInv
<1> QED BY <1>1, <1>2 DEF OrphanInv

\* A packet sent without a session.
LEMMA HarmlessKept ==
  ASSUME NetType, TextOnly(down), Harmless
  PROVE  TextOnly(down') /\ ~HasSession'
<1>1. "CLOSED" \in Text
  BY DEF Text
<1> QED BY <1>1, TextAppended DEF Harmless, NetType

LEMMA OrphanTick ==
  ASSUME TypeInv, OrphanInv, Tick
  PROVE  OrphanInv'
<1> USE DEF moduleVars
<1>0. /\ keep_age \in 0..KeepTime /\ keep_age < KeepTime /\ KeepTime \in Nat
      /\ stalls \in Nat /\ turn = "idle"
  BY TypeFacts, TimesAssumption DEF Tick, TypeInv, AgeType, RestType
<1>1. /\ UNCHANGED <<uart, sock, down, rb, broker, is_connected>>
      /\ (Quiet /\ stalls' = stalls) \/ stalls' = stalls + 1
  BY DEF Tick, EspTick
<1>2. CASE ~(is_connected /\ ~HasSession)
  <2>1. orphan' = 0
    BY <1>2 DEF Tick
  <2> QED BY <1>0, <1>1, <2>1 DEF OrphanInv
<1>3. CASE is_connected /\ ~HasSession
  <2>1. orphan' = orphan + 1 /\ keep_age' = keep_age + 1 /\ is_connected' /\ ~HasSession'
    BY <1>1, <1>3 DEF Tick, HasSession
  <2>2. orphan \in Nat /\ (orphan <= keep_age + stalls \/ orphan <= stalls)
    BY <1>0, <1>3 DEF OrphanInv
  <2>3. orphan' \in Nat /\ orphan' <= keep_age' + stalls'
    BY <1>0, <1>1, <2>1, <2>2 DEF OrphanInv
  <2>4. orphan' <= KeepTime + stalls'
    BY <1>0, <1>1, <2>1, <2>3
  <2>5. ASSUME orphan' > stalls' PROVE NoPackets'
    <3>1. CASE orphan > stalls
      BY <1>1, <3>1 DEF OrphanInv, NoPackets
    <3>2. CASE ~(orphan > stalls)
      <4>1. Quiet
        BY <1>0, <1>1, <2>1, <2>5, <3>2 DEF OrphanInv
      <4> QED BY <1>1, <4>1, EmptyIsText DEF Quiet, Silence, NoPackets
    <3> QED BY <3>1, <3>2
  <2> QED BY <2>1, <2>3, <2>4, <2>5 DEF OrphanInv
<1> QED BY <1>2, <1>3

LEMMA OrphanNext == TypeInv /\ OrphanInv /\ [Next]_vars => OrphanInv'
<1> SUFFICES ASSUME TypeInv, OrphanInv, [Next]_vars PROVE OrphanInv'
  OBVIOUS
<1> USE DEF mqttVars, countVars, espVars, moduleVars
<1>0. DriverType /\ NetType /\ SessionType /\ AgeType /\ RestType /\ BufferType
  BY DEF TypeInv
<1>a. orphan > stalls => /\ rb = <<>> /\ uart.ipd = <<>> /\ TextOnly(down) /\ ~HasSession
                         /\ is_connected \/ turn \in {"status", "idle"}
  BY DEF OrphanInv, NoPackets
<1>1. CASE RegTurn
  <2>1. /\ turn = "reg" /\ drv_esp8266_reg_process /\ SameSession
        /\ UNCHANGED <<is_connected, keep_age, rb, orphan, stalls>>
    BY <1>1 DEF RegTurn
  <2>2. DriverAct
    BY <1>0, <2>1, RegType
  <2>3. orphan > stalls => NoPackets' /\ ~HasSession' /\ is_connected'
    BY <1>0, <1>a, <2>1, <2>2, SessionEnds DEF DriverAct, LinkQuiet, NoPackets
  <2> QED BY <2>1, <2>3, OrphanKept
<1>2. CASE MqttTurn
  <2>1. /\ turn = "mqtt" /\ turn' = "status" /\ drv_mqtt_connect
        /\ UNCHANGED <<uart, rb, orphan, stalls>>
    BY <1>2 DEF MqttTurn
  <2>2. ASSUME orphan > stalls
        PROVE  NoPackets' /\ ~HasSession' /\ (is_connected' => is_connected /\ keep_age' = keep_age)
    <3>1. is_connected
      BY <1>a, <2>1, <2>2
    <3>2. SendAll(Subscription \cup Ping) /\ CheckAge
      BY <2>1, <3>1 DEF drv_mqtt_connect
    <3>3. Harmless
      BY <1>0, <1>a, <2>2, <3>2, SendAllType
    <3>4. TextOnly(down') /\ ~HasSession'
      BY <1>0, <1>a, <2>2, <3>3, HarmlessKept
    <3>5. is_connected' => keep_age' = keep_age
      BY <3>2 DEF CheckAge, drv_mqtt_close
    <3> QED BY <1>a, <2>1, <2>2, <3>1, <3>4, <3>5 DEF NoPackets
  <2> QED BY <2>1, <2>2, OrphanKept
<1>3. CASE StatusTurn
  <2>1. /\ turn' = "idle" /\ (Send("PUBLISH") \/ UNCHANGED <<broker, sock, down>>)
        /\ UNCHANGED <<uart, rb, is_connected, keep_age, orphan, stalls>>
    BY <1>3 DEF StatusTurn
  <2>2. ASSUME orphan > stalls PROVE TextOnly(down') /\ ~HasSession'
    <3>1. CASE Send("PUBLISH")
      <4>1. Harmless
        BY <1>0, <1>a, <2>2, <3>1, SendType
      <4> QED BY <1>0, <1>a, <2>2, <4>1, HarmlessKept
    <3>2. CASE UNCHANGED <<broker, sock, down>>
      BY <1>a, <2>2, <3>2 DEF HasSession
    <3> QED BY <2>1, <3>1, <3>2
  <2>3. orphan > stalls => NoPackets'
    BY <1>a, <2>1, <2>2 DEF NoPackets
  <2>4. turn' = "idle" /\ UNCHANGED <<is_connected, keep_age, orphan, stalls>>
    BY <2>1, <1>3 DEF StatusTurn
  <2> QED BY <2>2, <2>3, <2>4, OrphanKept
<1>4. CASE Receive
  <2>1. /\ drv_esp8266_recv_process /\ rb' = app_mqtt_put_data(rb, uart.ipd) /\ SameSession
        /\ UNCHANGED <<is_connected, keep_age, turn, orphan, stalls>>
    BY <1>4 DEF Receive
  <2>2. DriverAct
    BY <1>0, <2>1, RecvType
  <2>3. uart.ipd \in Seq(Packet)
    BY <1>0 DEF DriverType
  <2>4. uart.ipd = <<>> => rb' = rb
    BY <1>0, <2>1, <2>3, PutType
  <2>5. orphan > stalls => NoPackets' /\ ~HasSession'
    BY <1>0, <1>a, <2>1, <2>2, <2>4, SessionEnds DEF DriverAct, LinkQuiet, NoPackets
  <2> QED BY <1>a, <2>1, <2>5, OrphanKept
<1>5. CASE drv_mqtt_recv_check
  <2>1. rb # <<>> /\ UNCHANGED <<orphan, stalls>>
    BY <1>5 DEF drv_mqtt_recv_check
  <2> QED BY <1>a, <2>1, OrphanKept
<1>6. CASE Tick
  BY <1>6, OrphanTick
<1>7. CASE World(WorldStep)
  <2>1. /\ WorldStep /\ SameSession
        /\ UNCHANGED <<is_connected, keep_age, rb, turn, orphan, stalls>>
    BY <1>7 DEF World
  <2>2. WorldAct
    BY <1>0, <2>1, WorldType DEF WorldStep
  <2>3. orphan > stalls => NoPackets' /\ ~HasSession'
    BY <1>0, <1>a, <2>1, <2>2, SessionEnds DEF WorldAct, NoPackets
  <2> QED BY <1>a, <2>1, <2>3, OrphanKept
<1>8. CASE MessageOfApp \/ BrokerDrops \/ BrokerRefuses
  <2>1. UNCHANGED <<uart, rb, turn, is_connected, keep_age, orphan, stalls>>
    BY <1>8 DEF MessageOfApp, BrokerDrops, BrokerRefuses
  <2>2. ~HasSession /\ TextOnly(down) => ~HasSession' /\ TextOnly(down')
    BY <1>8, BrokerActs
  <2>3. orphan > stalls => NoPackets' /\ ~HasSession'
    BY <1>a, <2>1, <2>2 DEF NoPackets
  <2> QED BY <1>a, <2>1, <2>3, OrphanKept
<1>9. CASE Restart
  <2>1. orphan' = 0 /\ stalls' = stalls
    BY <1>9 DEF Restart
  <2> QED BY <1>0, <2>1, TypeFacts DEF OrphanInv, RestType
<1>10. CASE Unsub \/ UNCHANGED vars
  <2>1. UNCHANGED <<uart, sock, down, broker, rb, turn, is_connected, keep_age, orphan, stalls>>
    BY <1>10 DEF Unsub, vars
  <2> QED BY <1>a, <2>1, OrphanKept DEF NoPackets, HasSession
<1> QED BY <1>1, <1>2, <1>3, <1>4, <1>5, <1>6, <1>7, <1>8, <1>9, <1>10, NextCases

(***************************************************************************)
(* A device that takes itself for connected without a session at the       *)
(* broker finds out after KeepTime rounds that began in time, for any      *)
(* times and buffers and however the session was lost (drv_mqtt.c:180).    *)
(***************************************************************************)
THEOREM OrphansAreBounded == Spec => []OrphanBound
<1>1. Init => TypeInv /\ OrphanInv
  <2>1. ASSUME Init PROVE OrphanInv
    BY <2>1, TypeFacts DEF Init, OrphanInv
  <2> QED BY <2>1, TypeInit
<1>2. TypeInv /\ OrphanInv /\ [Next]_vars => (TypeInv /\ OrphanInv)'
  BY TypeNext, OrphanNext
<1>3. OrphanInv => OrphanBound
  BY DEF OrphanInv, OrphanBound
<1> QED BY <1>1, <1>2, <1>3, PTL DEF Spec

-----------------------------------------------------------------------------
(* The link *)

NoNews ==
  /\ uart.ipd = <<>> /\ "CONNECT" \notin uart.said
  /\ TextOnly(down) /\ NoConnect(down)

StaleInv ==
  /\ stale \in Nat
  /\ stale > 0 => /\ conn_state /\ state = "OK"
                  /\ turn # "reg" => heart <= HeartTime
  /\ stale > stalls => NoNews /\ sock # "open" /\ stale <= heart + stalls

\* A step that is no tick and keeps the link.
LEMMA StaleKept ==
  ASSUME StaleInv, UNCHANGED <<stale, stalls>>, conn_state', state' = "OK",
         turn' # "reg" => heart' <= HeartTime,
         stale > stalls => NoNews' /\ sock' # "open" /\ heart' = heart
  PROVE  StaleInv'
<1>1. ASSUME stale' > stalls'
      PROVE  NoNews' /\ sock' # "open" /\ stale' <= heart' + stalls'
  <2>1. stale > stalls
    BY <1>1
  <2> QED BY <2>1 DEF StaleInv
<1>2. stale' \in Nat
  BY DEF StaleInv
<1> QED BY <1>1, <1>2 DEF StaleInv

\* A step that neither the driver nor the tick takes.
LEMMA StaleUntouched ==
  ASSUME StaleInv, UNCHANGED <<stale, stalls, turn, conn_state, state, heart>>,
         stale > stalls => NoNews' /\ sock' # "open"
  PROVE  StaleInv'
<1>1. stale' > stalls' => NoNews' /\ sock' # "open" /\ stale' <= heart' + stalls'
  BY DEF StaleInv
<1>2. stale' \in Nat /\ (stale' > 0 => /\ conn_state' /\ state' = "OK"
                                       /\ turn' # "reg" => heart' <= HeartTime)
  BY DEF StaleInv
<1> QED BY <1>1, <1>2 DEF StaleInv

LEMMA StaleZero ==
  ASSUME TypeInv, stale' = 0, stalls' \in Nat
  PROVE  StaleInv'
BY DEF StaleInv

LEMMA OneRoundMore ==
  ASSUME NEW s \in Nat, NEW h \in Nat, NEW n \in Nat, NEW m \in Nat,
         s <= h + n, n <= m
  PROVE  s + 1 <= (h + 1) + m
OBVIOUS

LEMMA StaleTick ==
  ASSUME TypeInv, StaleInv, Tick
  PROVE  StaleInv'
<1> USE DEF moduleVars
<1>0. stalls \in Nat /\ turn = "idle" /\ heart \in 0..(HeartTime + 1) /\ HeartTime \in Nat
  BY TypeFacts, TimesAssumption DEF Tick, TypeInv, DriverType, RestType
<1>1. /\ UNCHANGED <<uart, sock, down, conn_state, state>> /\ turn' = "reg"
      /\ (Quiet /\ stalls' = stalls) \/ stalls' = stalls + 1
  BY DEF Tick, EspTick
<1>2. CASE ~(conn_state /\ sock # "open" /\ state = "OK")
  <2>1. stale' = 0
    BY <1>2 DEF Tick
  <2> QED BY <1>0, <1>1, <2>1, StaleZero
<1>3. CASE conn_state /\ sock # "open" /\ state = "OK"
  <2>1. stale' = stale + 1 /\ heart' = Older(heart)
    BY <1>3 DEF Tick, EspTick
  <2>2. heart' \in 1..(HeartTime + 1) /\ (heart <= HeartTime => heart' = heart + 1)
    BY <1>0, <2>1, TickAge
  <2>3. stale \in Nat /\ stalls' \in Nat
    BY <1>0, <1>1 DEF StaleInv
  <2>4. ASSUME stale' > stalls' PROVE NoNews' /\ stale' <= heart' + stalls'
    <3>1. CASE stale > stalls
      <4>1. heart <= HeartTime /\ NoNews /\ stale <= heart + stalls
        BY <1>0, <2>3, <3>1 DEF StaleInv
      <4>2. NoNews'
        BY <1>1, <4>1 DEF NoNews
      <4>3. heart' = heart + 1
        BY <2>2, <4>1
      <4>4. stalls <= stalls' /\ stale <= heart + stalls
        BY <1>0, <1>1, <4>1
      <4>5. heart \in Nat /\ stalls \in Nat /\ stalls' \in Nat /\ stale \in Nat
        BY <1>0, <2>3
      <4>6. stale + 1 <= (heart + 1) + stalls'
        BY <4>4, <4>5, OneRoundMore
      <4>7. stale' = stale + 1
        BY <2>1
      <4>8. stale' <= heart' + stalls'
        BY <4>3, <4>6, <4>7
      <4> QED BY <4>2, <4>8
    <3>2. CASE ~(stale > stalls)
      <4>1. Quiet /\ stalls' = stalls
        BY <1>0, <1>1, <2>1, <2>3, <2>4, <3>2
      <4>2. NoNews'
        BY <1>1, <4>1, EmptyIsText DEF Quiet, Silence, NoNews
      <4> QED BY <1>0, <2>1, <2>2, <2>3, <3>2, <4>1, <4>2
    <3> QED BY <3>1, <3>2
  <2> QED BY <1>1, <1>3, <2>1, <2>3, <2>4 DEF StaleInv
<1> QED BY <1>2, <1>3

LEMMA StaleNext == TypeInv /\ StaleInv /\ [Next]_vars => StaleInv'
<1> SUFFICES ASSUME TypeInv, StaleInv, [Next]_vars PROVE StaleInv'
  OBVIOUS
<1> USE DEF mqttVars, countVars, espVars, moduleVars
<1>0. /\ DriverType /\ NetType /\ SessionType /\ RestType /\ BufferType
      /\ stale \in Nat /\ stalls \in Nat /\ heart \in 0..(HeartTime + 1) /\ HeartTime \in Nat
  BY TypeFacts, TimesAssumption DEF TypeInv, StaleInv, RestType, DriverType
<1>a. /\ stale > stalls => /\ uart.ipd = <<>> /\ "CONNECT" \notin uart.said
                           /\ TextOnly(down) /\ NoConnect(down) /\ "CONNECT" \notin TextsOf(down)
                           /\ sock # "open"
      /\ stale > stalls => stale > 0
      /\ stale > 0 => conn_state /\ state = "OK" /\ (turn # "reg" => heart <= HeartTime)
  BY <1>0, NoConnectTexts DEF StaleInv, NoNews
<1>1. CASE RegTurn
  <2>1. /\ turn = "reg" /\ turn' = "mqtt" /\ drv_esp8266_reg_process /\ UNCHANGED stalls
        /\ stale' = IF conn_state' THEN stale ELSE 0
    BY <1>1 DEF RegTurn, LinkEnds
  <2>2. /\ DriverAct /\ KeepsAge
        /\ state = "OK" => state' = "OK"
        /\ state = "OK" /\ conn_state /\ conn_state' => heart <= HeartTime
    BY <1>0, <2>1, RegType
  <2>3. CASE conn_state' /\ stale > 0
    <3>1. heart' = heart /\ heart <= HeartTime /\ state' = "OK" /\ stale' = stale
      BY <1>a, <2>1, <2>2, <2>3 DEF KeepsAge
    <3>2. stale > stalls => NoNews' /\ sock' # "open"
      BY <1>a, <2>2, <2>3 DEF DriverAct, LinkQuiet, NoNews
    <3> QED BY <2>1, <2>3, <3>1, <3>2, StaleKept
  <2>4. CASE ~(conn_state' /\ stale > 0)
    <3>1. stale' = 0 /\ stalls' \in Nat
      BY <1>0, <2>1, <2>4
    <3> QED BY <3>1, StaleZero
  <2> QED BY <2>3, <2>4
<1>2. CASE MqttTurn \/ StatusTurn
  <2>1. /\ turn \in {"mqtt", "status"} /\ turn' \in {"status", "idle"}
        /\ UNCHANGED <<state, conn_state, heart, uart, stale, stalls>>
    BY <1>2 DEF MqttTurn, StatusTurn
  <2>2. ASSUME sock # "open" PROVE UNCHANGED <<broker, sock, down>>
    <3>1. CASE SendAll(Subscription \cup Ping)
      BY <1>0, <2>2, <3>1, SendAllType
    <3>2. CASE \E p \in {"CONNECT", "PUBLISH"} : Send(p)
      BY <1>0, <2>2, <3>2, SendType
    <3>3. CASE UNCHANGED <<broker, sock, down>>
      BY <3>3
    <3> QED BY <1>2, <3>1, <3>2, <3>3 DEF MqttTurn, drv_mqtt_connect, StatusTurn
  <2>3. stale > stalls => NoNews' /\ sock' # "open"
    BY <1>a, <2>1, <2>2 DEF NoNews
  <2>4. CASE stale > 0
    BY <1>a, <2>1, <2>3, <2>4, StaleKept
  <2>5. CASE ~(stale > 0)
    BY <1>0, <2>1, <2>5, StaleZero
  <2> QED BY <2>4, <2>5
<1>3. CASE Receive
  <2>1. /\ drv_esp8266_recv_process /\ UNCHANGED <<turn, stalls>>
        /\ stale' = IF conn_state' THEN stale ELSE 0
    BY <1>3 DEF Receive, LinkEnds
  <2>2. /\ DriverAct
        /\ uart.ipd = <<>> /\ "CONNECT" \notin uart.said => KeepsAge
        /\ state = "OK" /\ conn_state' => state' = "OK"
        /\ heart' = heart \/ heart' = 0
    BY <1>0, <2>1, RecvType
  <2>3. CASE conn_state' /\ stale > 0
    <3>1. state' = "OK" /\ stale' = stale /\ (turn' # "reg" => heart' <= HeartTime)
      BY <1>0, <1>a, <2>1, <2>2, <2>3
    <3>2. stale > stalls => NoNews' /\ sock' # "open" /\ heart' = heart
      BY <1>a, <2>2, <2>3 DEF DriverAct, LinkQuiet, NoNews, KeepsAge
    <3> QED BY <2>1, <2>3, <3>1, <3>2, StaleKept
  <2>4. CASE ~(conn_state' /\ stale > 0)
    <3>1. stale' = 0 /\ stalls' \in Nat
      BY <1>0, <2>1, <2>4
    <3> QED BY <3>1, StaleZero
  <2> QED BY <2>3, <2>4
<1>4. CASE drv_mqtt_recv_check
  <2>1. UNCHANGED <<state, conn_state, heart, uart, turn, stale, stalls>>
    BY <1>4 DEF drv_mqtt_recv_check
  <2>2. UNCHANGED <<broker, sock, down>> \/ Send("PUBLISH")
    BY <1>4 DEF drv_mqtt_recv_check, Connack, Refused, Ack, Publish, Pingresp, Puback
  <2>3. sock # "open" => UNCHANGED <<sock, down>>
    BY <1>0, <2>2, SendType
  <2>4. stale > stalls => NoNews' /\ sock' # "open"
    BY <1>a, <2>1, <2>3 DEF NoNews
  <2> QED BY <2>1, <2>4, StaleUntouched
<1>5. CASE Tick
  BY <1>5, StaleTick
<1>6. CASE World(WorldStep)
  <2>1. WorldStep /\ UNCHANGED <<turn, stale, stalls>>
    BY <1>6 DEF World
  <2>2. WorldAct
    BY <1>0, <2>1, WorldType DEF WorldStep
  <2>3. stale > stalls => NoNews' /\ sock' # "open"
    BY <1>a, <2>2 DEF WorldAct, NoNews
  <2> QED BY <2>1, <2>2, <2>3, StaleUntouched DEF WorldAct
<1>7. CASE MessageOfApp \/ BrokerDrops \/ BrokerRefuses
  <2>1. sock = "open"
    BY <1>7, BrokerActs
  <2>2. UNCHANGED <<state, conn_state, heart, turn, stale, stalls>>
    BY <1>7 DEF MessageOfApp, BrokerDrops, BrokerRefuses
  <2> QED BY <1>a, <2>1, <2>2, StaleUntouched
<1>8. CASE Restart
  <2>1. stale' = 0 /\ stalls' = stalls
    BY <1>8 DEF Restart
  <2> QED BY <1>0, <2>1, StaleZero
<1>9. CASE Unsub \/ UNCHANGED vars
  <2>1. UNCHANGED <<state, conn_state, heart, uart, sock, down, turn, stale, stalls>>
    BY <1>9 DEF Unsub, vars
  <2> QED BY <1>a, <2>1, StaleUntouched DEF NoNews
<1> QED BY <1>1, <1>2, <1>3, <1>4, <1>5, <1>6, <1>7, <1>8, <1>9, NextCases

(***************************************************************************)
(* A link that the driver holds for open although it is gone is closed     *)
(* after HeartTime and one rounds that began in time, however its ",CLOSED"*)
(* was lost (drv_esp8266.c:253).                                           *)
(***************************************************************************)
THEOREM StaleLinksAreBounded == Spec => []StaleBound
<1>1. Init => TypeInv /\ StaleInv
  <2>1. ASSUME Init PROVE StaleInv
    <3>1. stale = 0 /\ stalls = 0
      BY <2>1 DEF Init
    <3> QED BY <3>1 DEF StaleInv
  <2> QED BY <2>1, TypeInit
<1>2. TypeInv /\ StaleInv /\ [Next]_vars => (TypeInv /\ StaleInv)'
  BY TypeNext, StaleNext
<1>3. TypeInv /\ StaleInv => StaleBound
  <2>1. ASSUME TypeInv, StaleInv PROVE StaleBound
    <3>1. heart \in 0..(HeartTime + 1) /\ HeartTime \in Nat /\ stalls \in Nat /\ stale \in Nat
      BY <2>1, TypeFacts, TimesAssumption DEF TypeInv, StaleInv, RestType, DriverType
    <3>2. stale <= stalls \/ stale <= heart + stalls
      BY <2>1, <3>1 DEF StaleInv
    <3> QED BY <3>1, <3>2 DEF StaleBound
  <2> QED BY <2>1
<1> QED BY <1>1, <1>2, <1>3, PTL DEF Spec

-----------------------------------------------------------------------------
(***************************************************************************)
(* The session is kept.  As long as there was no fault and no late round   *)
(* the device goes through six phases, and the last one is never left:     *)
(* what is due to it (received, in the module or on its way) are routine   *)
(* answers, one of the first two of which refreshes the session whenever   *)
(* its age has reached the time of the ping.                               *)
(***************************************************************************)
Due == rb \o uart.ipd \o down

Routine == {"SUBACK", "UNSUBACK", "PINGRESP", "PUBACK", "PUBLISH"}
Refreshing == {"PINGRESP", "PUBLISH"}

Only(d, S) == \A i \in 1 .. Len(d) : d[i] \in S
Refreshed(d, n) == \E i \in 1 .. Len(d) : i <= n /\ d[i] \in Refreshing

NotYet == broker = "none" /\ ~is_connected /\ rb = <<>> /\ uart.ipd = <<>>
NoSocket == sock = "closed" /\ down = <<>> /\ ~conn_state /\ heart = 0
InOrder == state = "OK" /\ wifi /\ mux

SettingUp ==
  /\ state # "OK" /\ NotYet /\ NoSocket
  /\ uart.said \subseteq {"GOTIP", "STATUS3", "STATUS5"}
  /\ "GOTIP" \in uart.said \/ "STATUS3" \in uart.said => wifi
  /\ state = "NET_CFG" => wifi /\ uart.said = {}

NoLink == InOrder /\ NotYet /\ NoSocket /\ uart.said = {}

LinkLate ==
  /\ InOrder /\ NotYet /\ sock = "open" /\ ~conn_state /\ heart = 0 /\ turn # "reg"
  /\ \/ down = <<"CONNECT">> /\ uart.said \subseteq {"STATUS3"}
     \/ down = <<>> /\ "CONNECT" \in uart.said /\ uart.said \subseteq {"CONNECT", "STATUS3"}

LinkOpen ==
  /\ InOrder /\ NotYet /\ sock = "open" /\ conn_state /\ down = <<>>
  /\ uart.said \subseteq {"STATUS3"}
  /\ heart \in 0 .. 1 /\ (turn \in {"status", "idle"} => heart = 0)

Opening ==
  /\ InOrder /\ HasSession /\ conn_state /\ ~is_connected /\ turn \in {"status", "idle"}
  /\ uart.said \subseteq {"STATUS3"} /\ heart \in 0 .. 1
  /\ Len(Due) = 1 /\ Only(Due, {"CONNACK"})
  /\ rb # <<>> => heart = 0

InUse ==
  /\ InOrder /\ HasSession /\ conn_state /\ is_connected
  /\ uart.said \subseteq {"STATUS3"} /\ heart \in 0 .. 1
  /\ turn = "idle" => heart = 0 \/ uart.ipd # <<>> \/ down # <<>>

Young ==
  /\ Only(Due, Routine) /\ keep_age <= PingTime
  /\ turn \in {"reg", "mqtt"} => keep_age = 0 \/ Refreshed(Due, 1) \/ Due = <<>>
  /\ turn \in {"status", "idle"} => keep_age < PingTime \/ Refreshed(Due, 2)

Kept == InUse /\ Young

Phases ==
  faults = 0 /\ stalls = 0 =>
    SettingUp \/ NoLink \/ LinkLate \/ LinkOpen \/ Opening \/ Kept

LEMMA Joined ==
  ASSUME NEW S, NEW a \in Seq(S), NEW b \in Seq(S)
  PROVE  /\ a \o b \in Seq(S)
         /\ Len(a) \in Nat /\ Len(b) \in Nat
         /\ Len(a \o b) = Len(a) + Len(b)
         /\ \A i \in 1 .. Len(a) : (a \o b)[i] = a[i]
         /\ \A i \in 1 .. Len(b) : (a \o b)[Len(a) + i] = b[i]
         /\ \A i \in 1 .. Len(a) + Len(b) :
              i \in 1 .. Len(a) \/ (i - Len(a) \in 1 .. Len(b) /\ (a \o b)[i] = b[i - Len(a)])
OBVIOUS

\* What is appended comes after what was due.
LEMMA JoinedLater ==
  ASSUME NEW S, NEW d \in Seq(S), NEW e \in Seq(S), NEW R, Only(d, R), Only(e, R)
  PROVE  /\ d \o e \in Seq(S) /\ Only(d \o e, R)
         /\ \A n \in Nat : Refreshed(d, n) => Refreshed(d \o e, n)
<1>1. /\ d \o e \in Seq(S) /\ Len(d) \in Nat /\ Len(e) \in Nat
      /\ Len(d \o e) = Len(d) + Len(e)
      /\ \A i \in 1 .. Len(d) : (d \o e)[i] = d[i]
      /\ \A i \in 1 .. Len(d) + Len(e) :
           i \in 1 .. Len(d) \/ (i - Len(d) \in 1 .. Len(e) /\ (d \o e)[i] = e[i - Len(d)])
  BY Joined
<1>2. Only(d \o e, R)
  BY <1>1 DEF Only
<1>3. 1 .. Len(d) \subseteq 1 .. Len(d \o e)
  BY <1>1
<1>4. ASSUME NEW n \in Nat, Refreshed(d, n) PROVE Refreshed(d \o e, n)
  BY <1>1, <1>3, <1>4 DEF Refreshed
<1> QED BY <1>1, <1>2, <1>4

\* What is taken from the front is the first of what is due.
LEMMA Taken ==
  ASSUME NEW S, NEW d \in Seq(S), d # <<>>, NEW R, Only(d, R)
  PROVE  /\ Tail(d) \in Seq(S) /\ Only(Tail(d), R) /\ d[1] \in R
         /\ \A n \in Nat : Refreshed(d, n + 1) /\ d[1] \notin Refreshing => Refreshed(Tail(d), n)
<1>1. /\ Tail(d) \in Seq(S) /\ Len(d) \in Nat \ {0} /\ Len(Tail(d)) = Len(d) - 1
      /\ \A j \in 1 .. Len(d) - 1 : Tail(d)[j] = d[j + 1]
  BY Tailed
<1>2. 1 \in 1 .. Len(d) /\ \A i \in 1 .. Len(Tail(d)) : i + 1 \in 1 .. Len(d) /\ Tail(d)[i] = d[i + 1]
  BY <1>1
<1>3. ASSUME NEW n \in Nat, Refreshed(d, n + 1), d[1] \notin Refreshing
      PROVE  Refreshed(Tail(d), n)
  <2>1. PICK i \in 1 .. Len(d) : i <= n + 1 /\ d[i] \in Refreshing
    BY <1>3 DEF Refreshed
  <2>2. i # 1
    BY <1>3, <2>1
  <2>3. i - 1 \in 1 .. Len(Tail(d)) /\ i - 1 <= n /\ (i - 1) + 1 = i
    BY <1>1, <2>1, <2>2
  <2>4. Tail(d)[i - 1] = d[i]
    BY <1>2, <2>3
  <2> QED BY <2>1, <2>3, <2>4 DEF Refreshed
<1> QED BY <1>1, <1>2, <1>3 DEF Only

\* The tail of a sequence followed by another is the tail of both.
LEMMA TailJoined ==
  ASSUME NEW S, NEW a \in Seq(S), NEW b \in Seq(S), a # <<>>
  PROVE  Tail(a) \o b = Tail(a \o b) /\ (a \o b)[1] = Head(a) /\ a \o b # <<>>
<1>1. /\ Tail(a) \in Seq(S) /\ Len(a) \in Nat \ {0} /\ Len(Tail(a)) = Len(a) - 1
      /\ Head(a) = a[1]
      /\ \A j \in 1 .. Len(a) - 1 : Tail(a)[j] = a[j + 1]
  BY Tailed
<1>2. /\ a \o b \in Seq(S) /\ Len(b) \in Nat /\ Len(a \o b) = Len(a) + Len(b)
      /\ \A i \in 1 .. Len(a) : (a \o b)[i] = a[i]
      /\ \A i \in 1 .. Len(b) : (a \o b)[Len(a) + i] = b[i]
  BY Joined
<1>3. a \o b # <<>>
  BY <1>1, <1>2
<1>4. /\ Tail(a \o b) \in Seq(S) /\ Len(Tail(a \o b)) = Len(a \o b) - 1
      /\ \A j \in 1 .. Len(a \o b) - 1 : Tail(a \o b)[j] = (a \o b)[j + 1]
  BY <1>2, <1>3, Tailed
<1>5. /\ Tail(a) \o b \in Seq(S) /\ Len(Tail(a) \o b) = Len(Tail(a)) + Len(b)
      /\ \A i \in 1 .. Len(Tail(a)) : (Tail(a) \o b)[i] = Tail(a)[i]
      /\ \A i \in 1 .. Len(b) : (Tail(a) \o b)[Len(Tail(a)) + i] = b[i]
  BY <1>1, Joined
<1>6. Len(Tail(a) \o b) = Len(Tail(a \o b))
  BY <1>1, <1>2, <1>4, <1>5
<1>7. ASSUME NEW i \in 1 .. Len(Tail(a) \o b)
      PROVE  (Tail(a) \o b)[i] = Tail(a \o b)[i]
  <2>1. Tail(a \o b)[i] = (a \o b)[i + 1]
    BY <1>4, <1>6
  <2>2. CASE i \in 1 .. Len(a) - 1
    <3>1. (Tail(a) \o b)[i] = a[i + 1]
      BY <1>1, <1>5, <2>2
    <3>2. i + 1 \in 1 .. Len(a)
      BY <1>1, <2>2
    <3> QED BY <1>2, <2>1, <3>1, <3>2
  <2>3. CASE i \notin 1 .. Len(a) - 1
    <3>1. PICK k \in 1 .. Len(b) : i = Len(Tail(a)) + k
      <4>1. i - Len(Tail(a)) \in 1 .. Len(b)
        BY <1>1, <1>2, <1>5, <2>3
      <4>2. i = Len(Tail(a)) + (i - Len(Tail(a)))
        BY <1>1
      <4> QED BY <4>1, <4>2
    <3>2. i + 1 = Len(a) + k
      BY <1>1, <1>2, <3>1
    <3> QED BY <1>2, <1>5, <2>1, <3>1, <3>2
  <2> QED BY <2>2, <2>3
<1> QED BY <1>1, <1>3, <1>2, <1>4, <1>5, <1>6, <1>7, SeqEqual, 1 \in 1 .. Len(a)

LEMMA Associated ==
  \A a, b, c \in Seq(Item) : (a \o b) \o c = a \o (b \o c)
BY ConcatAssociative

LEMMA DueTyped ==
  ASSUME TypeInv
  PROVE  /\ rb \in Seq(Item) /\ uart.ipd \in Seq(Item) /\ down \in Seq(Item)
         /\ uart.ipd \in Seq(Packet) /\ uart.said \subseteq Text
         /\ rb \o uart.ipd \in Seq(Item) /\ Due \in Seq(Item)
         /\ Due = <<>> <=> rb = <<>> /\ uart.ipd = <<>> /\ down = <<>>
<1>1. Seq(Packet) \subseteq Seq(Item)
  <2>1. Packet \subseteq Item
    BY TypeFacts
  <2> QED BY <2>1
<1>2. /\ rb \in Seq(Item) /\ uart.ipd \in Seq(Packet) /\ uart.said \subseteq Text
      /\ down \in Seq(Item)
  BY <1>1 DEF TypeInv, BufferType, DriverType, NetType
<1>3. uart.ipd \in Seq(Item)
  BY <1>1, <1>2
<1>4. /\ rb \o uart.ipd \in Seq(Item) /\ Len(rb \o uart.ipd) = Len(rb) + Len(uart.ipd)
      /\ Len(rb) \in Nat /\ Len(uart.ipd) \in Nat
  BY <1>2, <1>3, Joined
<1>5. Due \in Seq(Item) /\ Len(Due) = Len(rb \o uart.ipd) + Len(down) /\ Len(down) \in Nat
  BY <1>2, <1>4, Joined DEF Due
<1>6. \A s \in Seq(Item) : s = <<>> <=> Len(s) = 0
  OBVIOUS
<1>7. Len(Due) = 0 <=> Len(rb) = 0 /\ Len(uart.ipd) = 0 /\ Len(down) = 0
  BY <1>4, <1>5
<1> QED BY <1>2, <1>3, <1>4, <1>5, <1>6, <1>7

\* An item that goes over from the front of one to the end of another.
LEMMA MovedOver ==
  ASSUME NEW a \in Seq(Item), NEW b \in Seq(Item), NEW c \in Seq(Item), c # <<>>
  PROVE  a \o Append(b, Head(c)) \o Tail(c) = a \o b \o c
<1> DEFINE h == Head(c)
<1>1. h \in Item /\ Tail(c) \in Seq(Item)
  BY Tailed
<1>2. <<h>> \in Seq(Item) /\ Append(b, h) = b \o <<h>> /\ <<h>> \o Tail(c) = c
  <2>1. <<h>> \in Seq(Item) /\ Append(b, h) = b \o <<h>>
    BY <1>1
  <2>2. /\ <<h>> \o Tail(c) \in Seq(Item) /\ Len(<<h>> \o Tail(c)) = 1 + Len(Tail(c))
        /\ (<<h>> \o Tail(c))[1] = h
        /\ \A i \in 1 .. Len(Tail(c)) : (<<h>> \o Tail(c))[1 + i] = Tail(c)[i]
    <3>1. Len(<<h>>) = 1 /\ <<h>>[1] = h /\ 1 \in 1 .. 1
      OBVIOUS
    <3> QED BY <1>1, <2>1, <3>1, Joined
  <2>3. /\ Len(c) \in Nat \ {0} /\ Len(Tail(c)) = Len(c) - 1 /\ h = c[1]
        /\ \A j \in 1 .. Len(c) - 1 : Tail(c)[j] = c[j + 1]
    BY Tailed
  <2> HIDE DEF h
  <2>4. ASSUME NEW i \in 1 .. Len(c) PROVE (<<h>> \o Tail(c))[i] = c[i]
    <3>1. CASE i = 1
      BY <2>2, <2>3, <3>1
    <3>2. CASE i # 1
      <4>1. i - 1 \in 1 .. Len(Tail(c)) /\ i = 1 + (i - 1) /\ i = (i - 1) + 1
        BY <2>3, <3>2
      <4> QED BY <2>2, <2>3, <4>1
    <3> QED BY <3>1, <3>2
  <2>5. Len(<<h>> \o Tail(c)) = Len(c)
    BY <2>2, <2>3
  <2> QED BY <2>1, <2>2, <2>4, <2>5, SeqEqual
<1> HIDE DEF h
<1>3. a \o (b \o <<h>>) \o Tail(c) = a \o ((b \o <<h>>) \o Tail(c))
  <2>1. b \o <<h>> \in Seq(Item)
    BY <1>2, Joined
  <2> QED BY <1>1, <2>1, Associated, ZenonT(40)
<1>4. (b \o <<h>>) \o Tail(c) = b \o (<<h>> \o Tail(c))
  BY <1>1, <1>2, Associated
<1>5. a \o (b \o c) = a \o b \o c
  BY Associated
<1>6. a \o Append(b, h) \o Tail(c) = a \o b \o c
  BY <1>2, <1>3, <1>4, <1>5
<1> QED BY <1>6 DEF h

LEMMA ArriveDue ==
  ASSUME TypeInv, Arrive, UNCHANGED rb, Head(down) \notin Text
  PROVE  Due' = Due /\ uart'.said = uart.said /\ uart'.ipd # <<>>
<1>1. /\ rb \in Seq(Item) /\ uart.ipd \in Seq(Item) /\ down \in Seq(Item)
      /\ uart \in [ipd : Seq(Packet), said : SUBSET Text]
  BY DueTyped DEF TypeInv, DriverType
<1>2. /\ down # <<>> /\ down' = Tail(down)
      /\ uart' = [uart EXCEPT !.ipd = Append(@, Head(down))]
  BY DEF Arrive
<1>3. uart'.ipd = Append(uart.ipd, Head(down)) /\ uart'.said = uart.said
  BY <1>1, <1>2
<1>4. rb \o Append(uart.ipd, Head(down)) \o Tail(down) = rb \o uart.ipd \o down
  BY <1>1, <1>2, MovedOver
<1>5. Append(uart.ipd, Head(down)) # <<>>
  <2>1. Head(down) \in Item
    BY <1>1, <1>2, Tailed
  <2>2. Len(Append(uart.ipd, Head(down))) = Len(uart.ipd) + 1 /\ Len(uart.ipd) \in Nat
    BY <1>1, <2>1, Appended
  <2>3. Len(<<>>) = 0
    OBVIOUS
  <2> QED BY <2>2, <2>3
<1> QED BY <1>2, <1>3, <1>4, <1>5 DEF Due

LEMMA SentDue ==
  ASSUME TypeInv, UNCHANGED <<rb, uart>>, NEW e \in Seq(Item), down' = down \o e
  PROVE  Due' = Due \o e
<1>1. rb \o uart.ipd \in Seq(Item) /\ down \in Seq(Item)
  BY DueTyped
<1>2. (rb \o uart.ipd) \o (down \o e) = rb \o uart.ipd \o down \o e
  BY <1>1, Associated
<1> QED BY <1>2 DEF Due

\* A packet that is taken out of the ring buffer was the first that was due.
LEMMA FirstDue ==
  ASSUME TypeInv, rb # <<>>
  PROVE  /\ Due # <<>> /\ Due[1] = Head(rb)
         /\ \A e \in Seq(Item) : Tail(rb) \o uart.ipd \o (down \o e) = Tail(Due) \o e
         /\ Tail(rb) \o uart.ipd \o down = Tail(Due)
<1>1. /\ rb \in Seq(Item) /\ uart.ipd \in Seq(Item) /\ down \in Seq(Item)
      /\ uart.ipd \o down \in Seq(Item)
  BY DueTyped, Joined
<1>2. Tail(rb) \in Seq(Item)
  BY <1>1, Tailed
<1>3. Due = rb \o (uart.ipd \o down)
  BY <1>1, Associated DEF Due
<1>4. Tail(rb) \o uart.ipd \o down = Tail(rb) \o (uart.ipd \o down)
  BY <1>1, <1>2, Associated
<1>5. /\ Tail(rb) \o (uart.ipd \o down) = Tail(rb \o (uart.ipd \o down))
      /\ (rb \o (uart.ipd \o down))[1] = Head(rb) /\ rb \o (uart.ipd \o down) # <<>>
  BY <1>1, TailJoined
<1>6. ASSUME NEW e \in Seq(Item)
      PROVE  Tail(rb) \o uart.ipd \o (down \o e) = Tail(rb) \o uart.ipd \o down \o e
  <2>1. Tail(rb) \o uart.ipd \in Seq(Item)
    BY <1>1, <1>2, Joined
  <2> QED BY <1>1, <2>1, Associated, ZenonT(40)
<1> QED BY <1>3, <1>4, <1>5, <1>6

\* With room for two, the first two packets are never dropped.
LEMMA PutDue ==
  ASSUME TypeInv, RoomForTwo, rb' = app_mqtt_put_data(rb, uart.ipd), uart'.ipd = <<>>,
         UNCHANGED down
  PROVE  /\ Len(Due) = 1 => Due' = Due
         /\ \A R : Only(Due, R) => Only(Due', R)
         /\ \A n \in {1, 2} : Refreshed(Due, n) => Refreshed(Due', n)
<1>1. /\ rb \in Seq(Item) /\ uart.ipd \in Seq(Item) /\ down \in Seq(Item)
      /\ rb \o uart.ipd \in Seq(Item) /\ RbSize \in Nat /\ RbSize >= 2
      /\ Len(rb) <= RbSize
  BY DueTyped, TimesAssumption DEF RoomForTwo, TypeInv, BufferType
<1>2. /\ Len(rb) \in Nat /\ Len(uart.ipd) \in Nat /\ Len(down) \in Nat
      /\ Len(rb \o uart.ipd) = Len(rb) + Len(uart.ipd)
      /\ \A i \in 1 .. Len(rb) : (rb \o uart.ipd)[i] = rb[i]
      /\ \A i \in 1 .. Len(uart.ipd) : (rb \o uart.ipd)[Len(rb) + i] = uart.ipd[i]
  BY <1>1, Joined
<1>3. /\ Len(Due) = Len(rb) + Len(uart.ipd) + Len(down)
      /\ \A i \in 1 .. Len(rb) + Len(uart.ipd) : Due[i] = (rb \o uart.ipd)[i]
      /\ \A i \in 1 .. Len(down) : Due[Len(rb) + Len(uart.ipd) + i] = down[i]
  BY <1>1, <1>2, Joined DEF Due
<1>4. CASE Len(rb) + Len(uart.ipd) <= RbSize
  <2>1. rb' = rb \o uart.ipd
    BY <1>4 DEF app_mqtt_put_data
  <2>2. rb' \o <<>> = rb'
    BY <1>1, <2>1, ConcatEmptySeq
  <2>3. Due' = Due
    BY <2>1, <2>2 DEF Due
  <2> QED BY <2>3
<1>5. CASE ~(Len(rb) + Len(uart.ipd) <= RbSize)
  <2> DEFINE k == RbSize - Len(rb)
             e == SubSeq(uart.ipd, 1, k)
  <2>1. k \in Nat /\ k <= Len(uart.ipd) /\ Len(rb) + k = RbSize
    BY <1>1, <1>2, <1>5
  <2>2. e \in Seq(Item) /\ Len(e) = k /\ \A i \in 1 .. k : e[i] = uart.ipd[i]
    <3> HIDE DEF k
    <3> QED BY <1>1, <1>2, <2>1
  <2>3. rb' = rb \o e
    BY <1>5 DEF app_mqtt_put_data
  <2> HIDE DEF k, e
  <2>4. /\ rb' \in Seq(Item) /\ Len(rb') = RbSize
        /\ \A i \in 1 .. Len(rb) : rb'[i] = rb[i]
        /\ \A i \in 1 .. k : rb'[Len(rb) + i] = uart.ipd[i]
    <3>1. /\ rb \o e \in Seq(Item) /\ Len(rb \o e) = Len(rb) + Len(e)
          /\ \A i \in 1 .. Len(rb) : (rb \o e)[i] = rb[i]
          /\ \A i \in 1 .. Len(e) : (rb \o e)[Len(rb) + i] = e[i]
      BY <1>1, <2>2, Joined
    <3> QED BY <2>1, <2>2, <2>3, <3>1
  <2>5. ASSUME NEW i \in 1 .. RbSize PROVE rb'[i] = Due[i]
    <3>1. CASE i \in 1 .. Len(rb)
      <4>1. i \in 1 .. Len(rb) + Len(uart.ipd)
        BY <1>2, <3>1
      <4> QED BY <1>2, <1>3, <2>4, <3>1, <4>1
    <3>2. CASE i \notin 1 .. Len(rb)
      <4>1. PICK j \in 1 .. k : i = Len(rb) + j
        <5>1. i - Len(rb) \in 1 .. k /\ i = Len(rb) + (i - Len(rb))
          BY <1>1, <1>2, <2>1, <3>2
        <5> QED BY <5>1
      <4>2. j \in 1 .. Len(uart.ipd) /\ i \in 1 .. Len(rb) + Len(uart.ipd)
        BY <1>2, <2>1, <4>1
      <4> QED BY <1>2, <1>3, <2>4, <4>1, <4>2
    <3> QED BY <3>1, <3>2
  <2>6. /\ Len(Due') = RbSize + Len(down)
        /\ \A i \in 1 .. RbSize : Due'[i] = rb'[i]
        /\ \A i \in 1 .. Len(down) : Due'[RbSize + i] = down[i]
    <3>1. rb' \o <<>> = rb'
      BY <2>4, ConcatEmptySeq
    <3>2. Due' = rb' \o down
      BY <3>1 DEF Due
    <3>3. ASSUME NEW r \in Seq(Item)
          PROVE  /\ Len(r \o down) = Len(r) + Len(down)
                 /\ \A i \in 1 .. Len(r) : (r \o down)[i] = r[i]
                 /\ \A i \in 1 .. Len(down) : (r \o down)[Len(r) + i] = down[i]
      BY <1>1, Joined
    <3> QED BY <2>4, <3>2, <3>3
  <2>7. Len(Due) # 1
    BY <1>1, <1>2, <1>3, <1>5
  <2>8. ASSUME NEW R, Only(Due, R) PROVE Only(Due', R)
    <3>1. ASSUME NEW i \in 1 .. Len(Due') PROVE Due'[i] \in R
      <4>1. CASE i \in 1 .. RbSize
        <5>1. i \in 1 .. Len(Due)
          BY <1>1, <1>2, <1>3, <1>5, <4>1
        <5> QED BY <2>5, <2>6, <2>8, <4>1, <5>1 DEF Only
      <4>2. CASE i \notin 1 .. RbSize
        <5>1. PICK j \in 1 .. Len(down) : i = RbSize + j
          <6>1. i - RbSize \in 1 .. Len(down) /\ i = RbSize + (i - RbSize)
            BY <1>1, <1>2, <2>6, <4>2
          <6> QED BY <6>1
        <5>2. Due'[i] = Due[Len(rb) + Len(uart.ipd) + j]
          BY <1>3, <2>6, <5>1
        <5>3. Len(rb) + Len(uart.ipd) + j \in 1 .. Len(Due)
          BY <1>2, <1>3, <5>1
        <5> QED BY <2>8, <5>2, <5>3 DEF Only
      <4> QED BY <4>1, <4>2
    <3> QED BY <3>1 DEF Only
  <2>9. ASSUME NEW n \in {1, 2}, Refreshed(Due, n) PROVE Refreshed(Due', n)
    <3>1. PICK i \in 1 .. Len(Due) : i <= n /\ Due[i] \in Refreshing
      BY <2>9 DEF Refreshed
    <3>2. i \in 1 .. RbSize
      BY <1>1, <3>1
    <3>3. i \in 1 .. Len(Due') /\ Due'[i] = Due[i]
      BY <1>1, <1>2, <2>5, <2>6, <3>2
    <3> QED BY <3>1, <3>3 DEF Refreshed
  <2> QED BY <2>7, <2>8, <2>9
<1> QED BY <1>4, <1>5

-----------------------------------------------------------------------------
(* The steps that are no fault and no late round *)

CalmStep ==
  \/ RegTurn \/ MqttTurn \/ StatusTurn \/ Receive \/ drv_mqtt_recv_check
  \/ Tick /\ Quiet
  \/ World(Arrive) \/ World(WifiUp) \/ MessageOfApp \/ Unsub

LEMMA CalmCases ==
  ASSUME TypeInv, Next, faults' = 0, stalls' = 0
  PROVE  faults = 0 /\ stalls = 0 /\ CalmStep
<1>1. faults \in Nat /\ stalls \in Nat
  BY TimesAssumption DEF TypeInv, RestType
<1>2. CASE Device
  <2>1. UNCHANGED <<faults, stalls>> \/ UNCHANGED countVars
    BY <1>2 DEF Device, RegTurn, MqttTurn, StatusTurn, Receive, drv_mqtt_recv_check
  <2> QED BY <1>2, <2>1 DEF Device, CalmStep, countVars
<1>3. CASE Tick
  <2>1. faults' = faults /\ ((stalls' = stalls /\ Quiet) \/ stalls' = stalls + 1)
    BY <1>3 DEF Tick
  <2>2. Quiet /\ stalls = 0
    BY <1>1, <2>1
  <2> QED BY <1>3, <2>1, <2>2 DEF CalmStep
<1>4. CASE Arrival \/ Joins
  <2>1. UNCHANGED <<faults, stalls>> /\ (World(Arrive) \/ World(WifiUp))
    BY <1>4 DEF Arrival, Joins, World
  <2> QED BY <2>1 DEF CalmStep
<1>5. CASE MessageOfApp \/ Unsub
  <2>1. UNCHANGED countVars
    BY <1>5 DEF MessageOfApp, Unsub
  <2> QED BY <1>5, <2>1 DEF CalmStep, countVars
<1>6. CASE Faults
  <2>1. faults' = faults + 1
    BY <1>6 DEF Faults, Fault
  <2> QED BY <1>1, <2>1
<1> QED BY <1>2, <1>3, <1>4, <1>5, <1>6 DEF Next

LEMMA SaidMore ==
  ASSUME DriverType, NEW t
  PROVE  Says(uart, t).ipd = uart.ipd /\ Says(uart, t).said = uart.said \cup {t}
BY DEF DriverType, Says

LEMMA SilenceIs == Silence.ipd = <<>> /\ Silence.said = {}
BY DEF Silence

\* Without packets in the buffer of the module nothing is put into the ring.
LEMMA NothingPut ==
  ASSUME TypeInv, Receive, uart.ipd = <<>>
  PROVE  rb' = rb /\ ~RecvIpd
<1>1. rb' = app_mqtt_put_data(rb, uart.ipd) /\ uart.ipd \in Seq(Packet) /\ BufferType
  BY DueTyped DEF Receive, TypeInv
<1>2. rb' = rb
  BY <1>1, PutType
<1> QED BY <1>2 DEF RecvIpd

\* What the timers and the handling of received bytes leave alone.
LEMMA DeviceKeeps ==
  /\ RegTurn \/ Receive => UNCHANGED <<is_connected, keep_age>> /\ SameSession
  /\ RegTurn => turn = "reg" /\ turn' = "mqtt" /\ rb' = rb
  /\ MqttTurn => turn = "mqtt" /\ turn' = "status"
  /\ StatusTurn => turn = "status" /\ turn' = "idle" /\ UNCHANGED <<is_connected, keep_age>>
  /\ Receive \/ drv_mqtt_recv_check => turn' = turn
  /\ MqttTurn \/ StatusTurn => UNCHANGED <<state, conn_state, heart, uart, wifi, mux, rb>>
  /\ drv_mqtt_recv_check => UNCHANGED <<state, conn_state, heart, uart, wifi, mux>>
BY DEF RegTurn, MqttTurn, StatusTurn, Receive, drv_mqtt_recv_check, mqttVars

LEMMA NotYetKept ==
  ASSUME NotYet, SameSession, UNCHANGED <<rb, is_connected>>, uart'.ipd = <<>>
  PROVE  NotYet'
BY DEF NotYet, SameSession

\* The client that is not connected sends CONNECT only.
LEMMA TimersUnconnected ==
  ASSUME ~is_connected, MqttTurn \/ StatusTurn
  PROVE  /\ UNCHANGED <<is_connected, keep_age>>
         /\ \/ MqttTurn /\ Send("CONNECT")
            \/ StatusTurn /\ UNCHANGED <<broker, sock, down>>
BY DEF MqttTurn, drv_mqtt_connect, StatusTurn, mqttVars

\* A device without an open link sends nothing.
LEMMA TimersUnheard ==
  ASSUME NotYet, ~conn_state, MqttTurn \/ StatusTurn
  PROVE  NotYet' /\ UNCHANGED <<sock, down, state, conn_state, heart, uart, wifi, mux>>
<1>1. /\ UNCHANGED <<is_connected, keep_age>>
      /\ Send("CONNECT") \/ UNCHANGED <<broker, sock, down>>
  BY TimersUnconnected DEF NotYet
<1>2. UNCHANGED <<broker, sock, down>>
  BY <1>1 DEF Send, Unheard
<1> QED BY <1>1, <1>2, DeviceKeeps DEF NotYet

\* Ticks, messages of the app and the debug command, as the phases see them.
LEMMA OthersKeep ==
  ASSUME (Tick /\ Quiet) \/ MessageOfApp \/ Unsub
  PROVE  /\ UNCHANGED <<state, conn_state, uart, wifi, mux, sock, broker, rb, is_connected>>
         /\ Tick => /\ turn = "idle" /\ turn' = "reg" /\ down' = down
                    /\ heart' = (IF conn_state THEN Older(heart) ELSE 0)
                    /\ keep_age' = (IF is_connected THEN keep_age + 1 ELSE 0)
         /\ MessageOfApp \/ Unsub => UNCHANGED <<heart, keep_age, turn>> /\ turn = "mqtt"
         /\ MessageOfApp => /\ broker = "subscribed" /\ Quiet /\ down' = <<"PUBLISH">>
         /\ Unsub => down' = down
BY DEF Tick, EspTick, MessageOfApp, Unsub, mqttVars, espVars, moduleVars

-----------------------------------------------------------------------------
(* The first phases *)

LEMMA SettingUpNext ==
  ASSUME TypeInv, SettingUp, CalmStep
  PROVE  SettingUp' \/ NoLink'
<1> USE DEF moduleVars
<1>0. /\ state # "OK" /\ NotYet /\ NoSocket /\ DriverType /\ state \in State
      /\ uart.said \subseteq {"GOTIP", "STATUS3", "STATUS5"} /\ uart.ipd = <<>>
      /\ "GOTIP" \in uart.said \/ "STATUS3" \in uart.said => wifi
      /\ state = "NET_CFG" => wifi /\ uart.said = {}
      /\ sock = "closed" /\ down = <<>> /\ ~conn_state /\ heart = 0
      /\ broker = "none" /\ ~is_connected /\ rb = <<>>
  BY DEF SettingUp, NotYet, NoSocket, TypeInv, DriverType
<1>1. CASE RegTurn
  <2>1. drv_esp8266_reg_process /\ SameSession /\ UNCHANGED <<rb, is_connected>>
    BY <1>1, DeviceKeeps DEF RegTurn
  <2>2. CASE RegStart
    <3>1. /\ state' = "INIT" /\ sock' = "closed" /\ down' = <<>> /\ UNCHANGED <<conn_state, heart, wifi>>
          /\ uart' = IF wifi THEN Says(uart, "GOTIP") ELSE uart
      BY <2>2 DEF RegStart
    <3>2. uart'.ipd = <<>> /\ uart'.said = (IF wifi THEN uart.said \cup {"GOTIP"} ELSE uart.said)
      BY <1>0, <3>1, SaidMore
    <3>3. NotYet'
      BY <1>0, <2>1, <3>2, NotYetKept
    <3> QED BY <1>0, <3>1, <3>2, <3>3 DEF SettingUp, NoSocket
  <2>3. CASE RegInit
    <3>1. /\ state' = "WIFI_CONNECT" /\ UNCHANGED <<conn_state, heart, uart, wifi, mux, sock, down>>
      BY <2>3 DEF RegInit
    <3>3. NotYet'
      BY <1>0, <2>1, <3>1, NotYetKept
    <3> QED BY <1>0, <3>1, <3>3 DEF SettingUp, NoSocket
  <2>4. CASE RegWifi
    <3>1. /\ state = "WIFI_CONNECT" /\ UNCHANGED <<state, conn_state, heart, wifi, mux, sock, down>>
          /\ uart' = Says(uart, IF wifi THEN "STATUS3" ELSE "STATUS5")
      BY <2>4 DEF RegWifi, CipStatus
    <3>2. uart'.ipd = <<>> /\ uart'.said = uart.said \cup {IF wifi THEN "STATUS3" ELSE "STATUS5"}
      BY <1>0, <3>1, SaidMore
    <3>3. NotYet'
      BY <1>0, <2>1, <3>2, NotYetKept
    <3> QED BY <1>0, <3>1, <3>2, <3>3 DEF SettingUp, NoSocket
  <2>5. CASE RegNetCfg
    <3>1. /\ state = "NET_CFG" /\ state' = "OK" /\ mux' = TRUE
          /\ UNCHANGED <<conn_state, heart, uart, wifi, sock, down>>
      BY <2>5 DEF RegNetCfg
    <3>3. NotYet'
      BY <1>0, <2>1, <3>1, NotYetKept
    <3> QED BY <1>0, <3>1, <3>3 DEF NoLink, NoSocket, InOrder
  <2>6. ~RegOk
    BY <1>0 DEF RegOk
  <2> QED BY <2>1, <2>2, <2>3, <2>4, <2>5, <2>6 DEF drv_esp8266_reg_process
<1>2. CASE MqttTurn \/ StatusTurn
  <2>1. NotYet' /\ UNCHANGED <<sock, down, state, conn_state, heart, uart, wifi, mux>>
    BY <1>0, <1>2, TimersUnheard
  <2> QED BY <1>0, <2>1 DEF SettingUp, NoSocket
<1>3. CASE Receive
  <2>1. /\ drv_esp8266_recv_process /\ SameSession /\ UNCHANGED <<rb, is_connected>> /\ ~RecvIpd
    BY <1>0, <1>3, DeviceKeeps, NothingPut DEF Receive
  <2>2. ~RecvConnect /\ ~RecvClosed
    BY <1>0 DEF RecvConnect, RecvClosed, Other
  <2>3. CASE RecvGotIp \/ RecvOnline
    <3>1. /\ uart' = Silence /\ UNCHANGED <<conn_state, heart, wifi, mux, sock, down>>
          /\ state' = (IF state = "WIFI_CONNECT" THEN "NET_CFG" ELSE state)
          /\ "GOTIP" \in uart.said \/ "STATUS3" \in uart.said
      BY <2>3 DEF RecvGotIp, RecvOnline, ToNetCfg, Other
    <3>2. wifi /\ state' # "OK"
      BY <1>0, <3>1
    <3>3. NotYet'
      BY <1>0, <2>1, <3>1, SilenceIs, NotYetKept
    <3> QED BY <1>0, <3>1, <3>2, <3>3, SilenceIs DEF SettingUp, NoSocket
  <2>4. CASE RecvOffline
    <3>1. /\ sock' = "closed" /\ down' = <<>> /\ uart' = Silence /\ conn_state' = FALSE /\ heart' = 0
          /\ state' = "WIFI_CONNECT" /\ UNCHANGED <<wifi, mux>>
      BY <1>0, <2>4 DEF RecvOffline, drv_esp8266_close, CipClose
    <3>2. NotYet'
      BY <1>0, <2>1, <3>1, SilenceIs, NotYetKept
    <3> QED BY <1>0, <3>1, <3>2, SilenceIs DEF SettingUp, NoSocket
  <2> QED BY <2>1, <2>2, <2>3, <2>4 DEF drv_esp8266_recv_process
<1>4. CASE drv_mqtt_recv_check
  BY <1>0, <1>4 DEF drv_mqtt_recv_check
<1>5. CASE (Tick /\ Quiet) \/ MessageOfApp \/ Unsub
  <2>1. /\ UNCHANGED <<state, conn_state, uart, wifi, mux, sock, broker, rb, is_connected, down>>
        /\ heart' = 0
    BY <1>0, <1>5, OthersKeep
  <2> QED BY <1>0, <2>1 DEF SettingUp, NoSocket, NotYet
<1>6. CASE World(Arrive)
  BY <1>0, <1>6 DEF World, Arrive
<1>7. CASE World(WifiUp)
  <2>1. /\ ~wifi /\ wifi' = TRUE /\ uart' = Says(uart, "GOTIP") /\ SameSession
        /\ UNCHANGED <<state, conn_state, heart, mux, sock, down, rb, is_connected>>
    BY <1>7 DEF World, WifiUp, mqttVars
  <2>2. uart'.ipd = <<>> /\ uart'.said = uart.said \cup {"GOTIP"}
    BY <1>0, <2>1, SaidMore
  <2>3. NotYet'
    BY <1>0, <2>1, <2>2, NotYetKept
  <2> QED BY <1>0, <2>1, <2>2, <2>3 DEF SettingUp, NoSocket
<1> QED BY <1>1, <1>2, <1>3, <1>4, <1>5, <1>6, <1>7 DEF CalmStep

\* A module that is set up and without a link opens one, heard at once or late.
LEMMA LinkOpens ==
  ASSUME TypeInv, NoLink, Connect
  PROVE  /\ sock' = "open" /\ heart' = 0
         /\ uart'.ipd = <<>> /\ uart'.said = {"STATUS3"}
         /\ \/ ~conn_state' /\ down' = <<"CONNECT">>
            \/ conn_state' /\ down' = <<>>
<1>0. /\ wifi /\ mux /\ sock = "closed" /\ down = <<>> /\ ~conn_state /\ heart = 0
      /\ uart.said = {} /\ uart.ipd = <<>> /\ DriverType
  BY DEF NoLink, InOrder, NoSocket, NotYet, TypeInv
<1> DEFINE heard(a, l) == IF l \/ a = "none" THEN uart ELSE Says(uart, a)
           opened(a, l) == Look(heard(a, l), "ALREADY") \/ Look(heard(a, l), "CONNECT")
           rest(a, l) == IF opened(a, l) \/ Look(heard(a, l), "CLOSED")
                         THEN Silence ELSE heard(a, l)
<1>1. PICK a \in Text \cup {"none"}, l \in BOOLEAN :
        /\ CipStart(a)
        /\ conn_state' = opened(a, l)
        /\ uart' = CipStatus(rest(a, l))
        /\ down' = IF l THEN Append(down, a) ELSE down
  BY DEF Connect
<1>2. a = "CONNECT" /\ sock' = "open"
  BY <1>0, <1>1 DEF CipStart
<1>3. heart' = 0
  BY <1>0 DEF Connect
<1>4. CASE l
  <2>1. heard(a, l) = uart
    BY <1>4
  <2>2. ~opened(a, l)
    BY <1>0, <2>1 DEF Look
  <2>3. rest(a, l) = uart
    BY <1>0, <2>1, <2>2 DEF Look
  <2>4. ~conn_state'
    BY <1>1, <2>2
  <2>5. uart' = Says(uart, "STATUS3")
    BY <1>0, <1>1, <2>3 DEF CipStatus
  <2>6. down' = <<"CONNECT">>
    BY <1>0, <1>1, <1>2, <1>4
  <2>7. uart'.ipd = <<>> /\ uart'.said = {"STATUS3"}
    BY <1>0, <2>5, SaidMore
  <2> QED BY <1>2, <1>3, <2>4, <2>6, <2>7
<1>5. CASE ~l
  <2>1. heard(a, l) = Says(uart, "CONNECT")
    BY <1>2, <1>5
  <2>2. opened(a, l)
    BY <1>0, <2>1, SaidMore DEF Look
  <2>3. rest(a, l) = Silence
    BY <2>2
  <2>4. conn_state'
    BY <1>1, <2>2
  <2>5. uart' = Says(Silence, "STATUS3")
    BY <1>0, <1>1, <2>3 DEF CipStatus
  <2>6. down' = <<>>
    BY <1>0, <1>1, <1>5
  <2>7. uart'.ipd = <<>> /\ uart'.said = {"STATUS3"}
    BY <2>5 DEF Says, Silence
  <2> QED BY <1>2, <1>3, <2>4, <2>6, <2>7
<1> QED BY <1>4, <1>5

LEMMA NoLinkNext ==
  ASSUME TypeInv, NoLink, CalmStep
  PROVE  (NoLink \/ LinkLate \/ LinkOpen)'
<1> USE DEF moduleVars
<1>0. /\ InOrder /\ NotYet /\ NoSocket /\ uart.said = {} /\ uart.ipd = <<>> /\ state = "OK"
      /\ sock = "closed" /\ down = <<>> /\ ~conn_state /\ heart = 0
      /\ broker = "none" /\ ~is_connected /\ rb = <<>> /\ wifi
  BY DEF NoLink, NotYet, NoSocket, InOrder
<1>1. CASE RegTurn
  <2>1. /\ drv_esp8266_reg_process /\ SameSession /\ UNCHANGED <<rb, is_connected>> /\ turn' = "mqtt"
    BY <1>1, DeviceKeeps DEF RegTurn
  <2>2. Connect /\ UNCHANGED <<state, wifi, mux>>
    BY <1>0, <2>1 DEF drv_esp8266_reg_process, RegStart, RegInit, RegWifi, RegNetCfg, RegOk,
                      drv_esp8266_connect_process
  <2>3. /\ sock' = "open" /\ heart' = 0 /\ uart'.ipd = <<>> /\ uart'.said = {"STATUS3"}
        /\ \/ ~conn_state' /\ down' = <<"CONNECT">>
           \/ conn_state' /\ down' = <<>>
    BY <2>2, LinkOpens
  <2>4. NotYet' /\ InOrder'
    BY <1>0, <2>1, <2>2, <2>3, NotYetKept DEF InOrder
  <2> QED BY <2>1, <2>3, <2>4 DEF LinkLate, LinkOpen
<1>2. CASE MqttTurn \/ StatusTurn
  <2>1. NotYet' /\ UNCHANGED <<sock, down, state, conn_state, heart, uart, wifi, mux>>
    BY <1>0, <1>2, TimersUnheard
  <2> QED BY <1>0, <2>1 DEF NoLink, NoSocket, InOrder
<1>3. CASE Receive
  <2>1. drv_esp8266_recv_process /\ ~RecvIpd
    BY <1>0, <1>3, NothingPut DEF Receive
  <2> QED BY <1>0, <2>1 DEF drv_esp8266_recv_process, RecvGotIp, RecvConnect, RecvClosed,
                            RecvOnline, RecvOffline, Other
<1>4. CASE drv_mqtt_recv_check
  BY <1>0, <1>4 DEF drv_mqtt_recv_check
<1>5. CASE (Tick /\ Quiet) \/ MessageOfApp \/ Unsub
  <2>1. /\ UNCHANGED <<state, conn_state, uart, wifi, mux, sock, broker, rb, is_connected, down>>
        /\ heart' = 0
    BY <1>0, <1>5, OthersKeep
  <2> QED BY <1>0, <2>1 DEF NoLink, NoSocket, NotYet, InOrder
<1>6. CASE World(Arrive) \/ World(WifiUp)
  BY <1>0, <1>6 DEF World, Arrive, WifiUp
<1> QED BY <1>1, <1>2, <1>3, <1>4, <1>5, <1>6 DEF CalmStep

LEMMA LinkLateNext ==
  ASSUME TypeInv, LinkLate, CalmStep
  PROVE  (LinkLate \/ LinkOpen)'
<1> USE DEF moduleVars
<1>0. /\ InOrder /\ NotYet /\ sock = "open" /\ ~conn_state /\ heart = 0 /\ turn # "reg"
      /\ uart.ipd = <<>> /\ broker = "none" /\ ~is_connected /\ rb = <<>> /\ wifi /\ state = "OK"
      /\ DriverType
      /\ \/ down = <<"CONNECT">> /\ uart.said \subseteq {"STATUS3"}
         \/ /\ down = <<>> /\ "CONNECT" \in uart.said
            /\ uart.said \subseteq {"CONNECT", "STATUS3"}
      /\ uart.said \subseteq {"CONNECT", "STATUS3"}
  BY DEF LinkLate, NotYet, InOrder, TypeInv
<1>1. ~RegTurn
  BY <1>0, DeviceKeeps
<1>2. CASE MqttTurn \/ StatusTurn
  <2>1. /\ NotYet' /\ UNCHANGED <<sock, down, state, conn_state, heart, uart, wifi, mux>>
        /\ turn' # "reg"
    BY <1>0, <1>2, TimersUnheard, DeviceKeeps
  <2> QED BY <1>0, <2>1 DEF LinkLate, InOrder
<1>3. CASE Receive
  <2>1. /\ drv_esp8266_recv_process /\ SameSession /\ UNCHANGED <<rb, is_connected, turn>> /\ ~RecvIpd
    BY <1>0, <1>3, DeviceKeeps, NothingPut DEF Receive
  <2>2. ~RecvGotIp /\ ~RecvClosed /\ ~RecvOffline
    BY <1>0 DEF RecvGotIp, RecvClosed, RecvOffline, Other
  <2>3. CASE RecvOnline
    <3>1. /\ "CONNECT" \notin uart.said /\ uart' = Silence
          /\ UNCHANGED <<conn_state, heart, wifi, mux, sock, down>> /\ state' = "OK"
      BY <1>0, <2>3 DEF RecvOnline, Other, ToNetCfg
    <3>2. NotYet'
      BY <1>0, <2>1, <3>1, SilenceIs, NotYetKept
    <3> QED BY <1>0, <2>1, <3>1, <3>2, SilenceIs DEF LinkLate, InOrder
  <2>4. CASE RecvConnect
    <3>1. /\ "CONNECT" \in uart.said /\ uart' = Silence /\ conn_state' = TRUE /\ heart' = 0
          /\ UNCHANGED <<state, wifi, mux, sock, down>>
      BY <2>4 DEF RecvConnect, Other
    <3>2. NotYet'
      BY <1>0, <2>1, <3>1, SilenceIs, NotYetKept
    <3>3. down = <<>>
      BY <1>0, <3>1
    <3> QED BY <1>0, <2>1, <3>1, <3>2, <3>3, SilenceIs DEF LinkOpen, InOrder
  <2> QED BY <2>1, <2>2, <2>3, <2>4 DEF drv_esp8266_recv_process
<1>4. CASE drv_mqtt_recv_check
  BY <1>0, <1>4 DEF drv_mqtt_recv_check
<1>5. ~Quiet
  <2>1. <<"CONNECT">> # <<>>
    OBVIOUS
  <2> QED BY <1>0, <2>1, SilenceIs DEF Quiet
<1>6. CASE (Tick /\ Quiet) \/ MessageOfApp \/ Unsub
  <2>1. Unsub
    BY <1>5, <1>6 DEF MessageOfApp
  <2>2. UNCHANGED <<state, conn_state, uart, wifi, mux, sock, broker, rb, is_connected, down, heart, turn>>
    BY <2>1, OthersKeep
  <2> QED BY <1>0, <2>2 DEF LinkLate, NotYet, InOrder
<1>7. CASE World(Arrive)
  <2>1. /\ down # <<>> /\ down' = Tail(down) /\ SameSession
        /\ uart' = (IF Head(down) \in Text THEN Says(uart, Head(down))
                    ELSE [uart EXCEPT !.ipd = Append(@, Head(down))])
        /\ UNCHANGED <<state, conn_state, heart, wifi, mux, sock, rb, is_connected, turn>>
    BY <1>7 DEF World, Arrive, mqttVars
  <2>2. down = <<"CONNECT">> /\ uart.said \subseteq {"STATUS3"}
    BY <1>0, <2>1
  <2>3. Head(down) = "CONNECT" /\ Tail(down) = <<>> /\ "CONNECT" \in Text
    BY <2>2 DEF Text
  <2>4. uart'.ipd = <<>> /\ uart'.said = uart.said \cup {"CONNECT"} /\ down' = <<>>
    BY <1>0, <2>1, <2>3, SaidMore
  <2>5. NotYet'
    BY <1>0, <2>1, <2>4, NotYetKept
  <2> QED BY <1>0, <2>1, <2>2, <2>4, <2>5 DEF LinkLate, InOrder
<1>8. CASE World(WifiUp)
  BY <1>0, <1>8 DEF World, WifiUp
<1> QED BY <1>1, <1>2, <1>3, <1>4, <1>6, <1>7, <1>8 DEF CalmStep

-----------------------------------------------------------------------------
(* A link that is open *)

\* The heart beat leaves a link in use alone.
LEMMA RegOnLink ==
  ASSUME TypeInv, RegTurn, InOrder, conn_state, heart \in 0 .. 1
  PROVE  /\ UNCHANGED <<state, wifi, mux, conn_state, heart, sock, down>>
         /\ uart'.ipd = uart.ipd /\ uart'.said = uart.said \cup {"STATUS3"}
         /\ broker' = broker
<1>0. DriverType /\ SessionType /\ state = "OK" /\ wifi /\ HeartTime \in Nat \ {0}
  BY HeartAssumption DEF InOrder, TypeInv
<1>1. drv_esp8266_reg_process /\ SameSession
  BY DEF RegTurn
<1>2. drv_esp8266_connect_process /\ UNCHANGED <<state, wifi, mux>>
  BY <1>0, <1>1 DEF drv_esp8266_reg_process, RegStart, RegInit, RegWifi, RegNetCfg, RegOk
<1>3. heart <= HeartTime
  BY <1>0
<1>4. uart' = CipStatus(uart) /\ UNCHANGED <<conn_state, heart, sock, down>>
  <2>1. ~Connect
    BY DEF Connect
  <2>2. ~(heart > HeartTime)
    BY <1>0, <1>3
  <2> QED BY <1>2, <2>1, <2>2 DEF drv_esp8266_connect_process
<1>5. uart'.ipd = uart.ipd /\ uart'.said = uart.said \cup {"STATUS3"}
  BY <1>0, <1>4, SaidMore DEF CipStatus
<1>6. broker' = broker
  BY <1>0, <1>1, <1>4 DEF SameSession, SessionType
<1> QED BY <1>2, <1>4, <1>5, <1>6

\* Nothing received closes it.
LEMMA RecvOnLink ==
  ASSUME TypeInv, Receive, InOrder, uart.said \subseteq {"STATUS3"}
  PROVE  /\ UNCHANGED <<state, wifi, mux, conn_state, sock, down, broker>>
         /\ uart'.ipd = <<>> /\ uart'.said = {}
         /\ RecvIpd => heart' = 0 /\ uart.ipd # <<>>
         /\ ~RecvIpd => heart' = heart /\ uart.ipd = <<>> /\ rb' = rb
<1> USE DEF moduleVars
<1>0. state = "OK" /\ SessionType
  BY DEF InOrder, TypeInv
<1>1. drv_esp8266_recv_process /\ SameSession
  BY DEF Receive
<1>2. RecvIpd \/ (RecvOnline /\ uart.ipd = <<>>)
  BY <1>1 DEF drv_esp8266_recv_process, RecvGotIp, RecvConnect, RecvClosed, RecvOffline,
              RecvOnline, Other
<1>3. UNCHANGED <<state, wifi, mux, conn_state, sock, down>> /\ uart' = Silence
  BY <1>0, <1>2 DEF RecvIpd, RecvOnline, ToNetCfg
<1>4. broker' = broker
  BY <1>0, <1>1, <1>3 DEF SameSession, SessionType
<1>5. RecvIpd => heart' = 0 /\ uart.ipd # <<>>
  BY DEF RecvIpd
<1>6. ~RecvIpd => heart' = heart /\ uart.ipd = <<>> /\ rb' = rb
  BY <1>2, NothingPut DEF RecvOnline
<1> QED BY <1>3, <1>4, <1>5, <1>6, SilenceIs

LEMMA LinkOpenNext ==
  ASSUME TypeInv, LinkOpen, CalmStep
  PROVE  (LinkOpen \/ Opening)'
<1> USE DEF moduleVars
<1>0. /\ InOrder /\ NotYet /\ sock = "open" /\ conn_state /\ down = <<>>
      /\ uart.said \subseteq {"STATUS3"} /\ heart \in 0 .. 1
      /\ turn \in {"status", "idle"} => heart = 0
      /\ uart.ipd = <<>> /\ broker = "none" /\ ~is_connected /\ rb = <<>> /\ wifi
      /\ HeartTime \in Nat \ {0}
  BY HeartAssumption DEF LinkOpen, NotYet, InOrder
<1>1. CASE RegTurn
  <2>1. /\ UNCHANGED <<rb, is_connected>> /\ turn' = "mqtt" /\ SameSession
        /\ UNCHANGED <<state, wifi, mux, conn_state, heart, sock, down>>
        /\ uart'.ipd = <<>> /\ uart'.said = uart.said \cup {"STATUS3"}
    BY <1>0, <1>1, RegOnLink, DeviceKeeps
  <2>2. NotYet'
    BY <1>0, <2>1, NotYetKept
  <2> QED BY <1>0, <2>1, <2>2 DEF LinkOpen, InOrder
<1>2. CASE MqttTurn
  <2>1. /\ Send("CONNECT") /\ UNCHANGED is_connected /\ turn' = "status"
        /\ UNCHANGED <<state, conn_state, heart, uart, wifi, mux, rb>>
    BY <1>0, <1>2, TimersUnconnected, DeviceKeeps DEF StatusTurn, MqttTurn
  <2>2. broker' = "session" /\ down' = Append(down, "CONNACK") /\ sock' = "open"
    BY <1>0, <2>1 DEF Send, Unheard, Obey, Answers
  <2>3. down' = <<"CONNACK">>
    BY <1>0, <2>2
  <2>4. Due' = <<"CONNACK">>
    <3>1. <<>> \o <<>> \o <<"CONNACK">> = <<"CONNACK">>
      <4>1. <<>> \o <<>> = <<>>
        OBVIOUS
      <4>2. <<>> \o <<"CONNACK">> = <<"CONNACK">>
        OBVIOUS
      <4> QED BY <4>1, <4>2
    <3> QED BY <1>0, <2>1, <2>3, <3>1 DEF Due
  <2>5. Len(Due') = 1 /\ Only(Due', {"CONNACK"})
    BY <2>4 DEF Only
  <2> QED BY <1>0, <2>1, <2>2, <2>5 DEF Opening, InOrder, HasSession
<1>3. CASE StatusTurn
  <2>1. /\ UNCHANGED <<is_connected, broker, sock, down>> /\ turn = "status"
        /\ UNCHANGED <<state, conn_state, heart, uart, wifi, mux, rb>>
    BY <1>0, <1>3, TimersUnconnected, DeviceKeeps DEF StatusTurn, MqttTurn
  <2> QED BY <1>0, <2>1 DEF LinkOpen, InOrder, NotYet
<1>4. CASE Receive
  <2>1. /\ UNCHANGED <<state, wifi, mux, conn_state, sock, down, broker, rb, turn, is_connected>>
        /\ uart'.ipd = <<>> /\ uart'.said = {} /\ heart' = heart
    BY <1>0, <1>4, RecvOnLink, DeviceKeeps
  <2> QED BY <1>0, <2>1 DEF LinkOpen, InOrder, NotYet
<1>5. CASE drv_mqtt_recv_check
  BY <1>0, <1>5 DEF drv_mqtt_recv_check
<1>6. CASE Tick /\ Quiet
  <2>1. /\ UNCHANGED <<state, conn_state, uart, wifi, mux, sock, broker, rb, is_connected, down>>
        /\ heart' = Older(heart) /\ heart = 0 /\ turn' = "reg"
    BY <1>0, <1>6, OthersKeep
  <2>2. heart' = 1
    BY <1>0, <2>1 DEF Older
  <2> QED BY <1>0, <2>1, <2>2 DEF LinkOpen, InOrder, NotYet
<1>7. CASE MessageOfApp \/ Unsub
  <2>1. UNCHANGED <<state, conn_state, uart, wifi, mux, sock, broker, rb, is_connected, down, heart, turn>>
    BY <1>0, <1>7, OthersKeep
  <2> QED BY <1>0, <2>1 DEF LinkOpen, InOrder, NotYet
<1>8. CASE World(Arrive) \/ World(WifiUp)
  BY <1>0, <1>8 DEF World, Arrive, WifiUp
<1> QED BY <1>1, <1>2, <1>3, <1>4, <1>5, <1>6, <1>7, <1>8 DEF CalmStep

LEMMA DownIsDue ==
  ASSUME TypeInv, down # <<>>, NEW R, Only(Due, R)
  PROVE  Head(down) \in R
<1>1. rb \o uart.ipd \in Seq(Item) /\ down \in Seq(Item)
  BY DueTyped
<1>2. /\ Len(rb \o uart.ipd) \in Nat /\ Len(down) \in Nat \ {0}
      /\ Len(Due) = Len(rb \o uart.ipd) + Len(down)
      /\ \A i \in 1 .. Len(down) : Due[Len(rb \o uart.ipd) + i] = down[i]
      /\ Head(down) = down[1]
  BY <1>1, Joined, Tailed DEF Due
<1>3. 1 \in 1 .. Len(down) /\ Len(rb \o uart.ipd) + 1 \in 1 .. Len(Due)
  BY <1>2
<1> QED BY <1>2, <1>3 DEF Only

LEMMA ArriveOnLink ==
  ASSUME TypeInv, World(Arrive), NEW R, Only(Due, R), \A t \in Text : t \notin R
  PROVE  /\ Due' = Due /\ uart'.said = uart.said /\ uart'.ipd # <<>>
         /\ UNCHANGED <<state, conn_state, heart, wifi, mux, sock, broker, rb, is_connected>>
         /\ UNCHANGED <<keep_age, turn>>
<1>1. Arrive /\ SameSession /\ UNCHANGED <<rb, is_connected, keep_age, turn>>
  BY DEF World, mqttVars
<1>2. down # <<>> /\ UNCHANGED <<state, conn_state, heart, wifi, mux, sock>>
  BY <1>1 DEF Arrive
<1>3. Head(down) \notin Text
  BY <1>2, DownIsDue
<1>4. broker' = broker
  BY <1>1, <1>2 DEF SameSession, TypeInv, SessionType
<1> QED BY <1>1, <1>2, <1>3, <1>4, ArriveDue

\* The broker answers what is sent in a session, and goes on with it.
LEMMA SendInSession ==
  ASSUME TypeInv, HasSession, conn_state,
         NEW p \in {"SUBSCRIBE", "UNSUBSCRIBE", "PINGREQ", "PUBLISH"}, Send(p)
  PROVE  /\ HasSession' /\ sock' = sock
         /\ \E a \in Routine : /\ down' = down \o <<a>>
                               /\ p = "PINGREQ" => a = "PINGRESP"
<1>1. sock = "open" /\ broker # "none" /\ down \in Seq(Item)
  BY DueTyped DEF HasSession
<1>2. Obey(p)
  BY <1>1 DEF Send, Unheard
<1>3. PICK a \in Routine, v \in {"session", "subscribed", broker} :
        Answers(a, v) /\ (p = "PINGREQ" => a = "PINGRESP")
  BY <1>2 DEF Obey, Routine
<1>4. a \in Item
  BY DEF Item, Routine, Packet
<1>5. Append(down, a) = down \o <<a>>
  BY <1>1, <1>4
<1>6. HasSession' /\ sock' = sock
  BY <1>1, <1>3 DEF Answers, HasSession
<1> QED BY <1>3, <1>5, <1>6 DEF Answers

\* A round of the client in a session; where the age has reached the time of
\* the ping, one of the first two answers is that to the ping.
LEMMA MqttInSession ==
  ASSUME TypeInv, HasSession, conn_state, is_connected, keep_age <= PingTime, MqttTurn
  PROVE  /\ HasSession' /\ sock' = sock /\ UNCHANGED <<is_connected, keep_age>>
         /\ \E e \in Seq(Item) : /\ down' = down \o e /\ Only(e, Routine)
                                 /\ keep_age = PingTime => Refreshed(e, 2)
<1> DEFINE all == Subscription \cup Ping
<1>0. /\ keep_age \in Nat /\ KeepTime \in Nat /\ PingTime \in Nat /\ PingTime < KeepTime
      /\ PingTime >= 1 /\ down \in Seq(Item) /\ broker # "none" /\ sock = "open"
  BY TimesAssumption, DueTyped DEF TypeInv, AgeType, HasSession
<1>1. SendAll(all) /\ CheckAge
  BY DEF MqttTurn, drv_mqtt_connect
<1>2. UNCHANGED <<is_connected, keep_age>>
  <2>1. ~(keep_age >= KeepTime)
    BY <1>0
  <2> QED BY <1>1, <2>1 DEF CheckAge, mqttVars
<1>3. /\ Subscription \subseteq {"SUBSCRIBE", "UNSUBSCRIBE"} /\ Ping \subseteq {"PINGREQ"}
      /\ keep_age = PingTime => "PINGREQ" \in all
  BY <1>0 DEF Subscription, Ping
<1>4. ASSUME NEW a \in Routine PROVE <<a>> \in Seq(Item) /\ Only(<<a>>, Routine)
  <2>1. a \in Item
    BY DEF Routine, Item, Packet
  <2> QED BY <2>1 DEF Only
<1>5. Refreshed(<<"PINGRESP">>, 2)
  <2>1. 1 \in 1 .. Len(<<"PINGRESP">>) /\ <<"PINGRESP">>[1] = "PINGRESP" /\ 1 <= 2
    OBVIOUS
  <2> QED BY <2>1 DEF Refreshed, Refreshing
<1> HIDE DEF all
<1>6. CASE all = {}
  <2>1. UNCHANGED <<broker, sock, down>>
    BY <1>1, <1>6 DEF SendAll
  <2>2. <<>> \in Seq(Item) /\ down \o <<>> = down /\ Len(<<>>) = 0
    BY <1>0, ConcatEmptySeq
  <2>3. Only(<<>>, Routine)
    BY <2>2 DEF Only
  <2>4. keep_age # PingTime
    BY <1>3, <1>6
  <2> QED BY <1>0, <1>2, <2>1, <2>2, <2>3, <2>4 DEF HasSession
<1>7. CASE all # {} /\ \E p \in all : all = {p}
  <2>1. PICK p \in all : Send(p) /\ all = {p}
    BY <1>1, <1>7 DEF SendAll
  <2>2. p \in {"SUBSCRIBE", "UNSUBSCRIBE", "PINGREQ", "PUBLISH"}
    BY <1>3 DEF all
  <2>3. /\ HasSession' /\ sock' = sock
        /\ \E a \in Routine : down' = down \o <<a>> /\ (p = "PINGREQ" => a = "PINGRESP")
    BY <2>1, <2>2, SendInSession
  <2>4. PICK a \in Routine : down' = down \o <<a>> /\ (p = "PINGREQ" => a = "PINGRESP")
    BY <2>3
  <2>5. keep_age = PingTime => Refreshed(<<a>>, 2)
    BY <1>3, <1>5, <2>1, <2>4
  <2>6. <<a>> \in Seq(Item) /\ Only(<<a>>, Routine)
    BY <1>4
  <2> QED BY <1>2, <2>3, <2>4, <2>5, <2>6
<1>8. CASE all # {} /\ ~\E p \in all : all = {p}
  <2>1. PICK s \in all \ {"PINGREQ"} : SendTwo(s, "PINGREQ")
    BY <1>1, <1>8 DEF SendAll
  <2>2. PICK a \in {"SUBACK", "UNSUBACK"} :
          down' = down \o <<a, "PINGRESP">> /\ sock' = sock /\ broker' \in {"subscribed", "session"}
    BY <1>0, <2>1 DEF SendTwo, Unheard
  <2>3. <<a, "PINGRESP">> \in Seq(Item)
    BY DEF Item, Packet
  <2>4. /\ Len(<<a, "PINGRESP">>) = 2
        /\ <<a, "PINGRESP">>[1] = a /\ <<a, "PINGRESP">>[2] = "PINGRESP"
    OBVIOUS
  <2>5. Only(<<a, "PINGRESP">>, Routine)
    <3>1. \A i \in 1 .. 2 : i = 1 \/ i = 2
      OBVIOUS
    <3> QED BY <2>4, <3>1 DEF Only, Routine
  <2>6. Refreshed(<<a, "PINGRESP">>, 2)
    <3>1. 2 \in 1 .. 2 /\ 2 <= 2
      OBVIOUS
    <3> QED BY <2>4, <3>1 DEF Refreshed, Refreshing
  <2>7. HasSession'
    BY <1>0, <2>2 DEF HasSession
  <2> QED BY <1>2, <2>2, <2>3, <2>5, <2>6, <2>7
<1> QED BY <1>6, <1>7, <1>8

-----------------------------------------------------------------------------
(* The last phases *)

LEMMA OpeningNext ==
  ASSUME TypeInv, RoomForTwo, Opening, CalmStep
  PROVE  (Opening \/ Kept)'
<1> USE DEF moduleVars
<1>0. /\ InOrder /\ HasSession /\ conn_state /\ ~is_connected /\ turn \in {"status", "idle"}
      /\ uart.said \subseteq {"STATUS3"} /\ heart \in 0 .. 1
      /\ Len(Due) = 1 /\ Only(Due, {"CONNACK"})
      /\ rb # <<>> => heart = 0
      /\ wifi /\ sock = "open" /\ broker # "none"
      /\ PingTime \in Nat /\ PingTime >= 1
  BY TimesAssumption DEF Opening, InOrder, HasSession
<1>1. ~RegTurn /\ ~MqttTurn /\ ~MessageOfApp /\ ~Unsub
  BY <1>0, DeviceKeeps, OthersKeep
<1>2. CASE StatusTurn
  <2>1. /\ UNCHANGED <<is_connected, broker, sock, down>> /\ turn' = "idle"
        /\ UNCHANGED <<state, conn_state, heart, uart, wifi, mux, rb>>
    BY <1>0, <1>2, TimersUnconnected, DeviceKeeps DEF StatusTurn, MqttTurn
  <2>2. Due' = Due
    BY <2>1 DEF Due
  <2> QED BY <1>0, <2>1, <2>2 DEF Opening, InOrder, HasSession
<1>3. CASE Receive
  <2>1. /\ UNCHANGED <<state, wifi, mux, conn_state, sock, down, broker>>
        /\ uart'.ipd = <<>> /\ uart'.said = {}
        /\ RecvIpd => heart' = 0
        /\ ~RecvIpd => heart' = heart /\ uart.ipd = <<>> /\ rb' = rb
        /\ UNCHANGED <<is_connected, turn>>
    BY <1>0, <1>3, RecvOnLink, DeviceKeeps
  <2>2. rb' = app_mqtt_put_data(rb, uart.ipd)
    BY <1>3 DEF Receive
  <2>3. Due' = Due
    BY <1>0, <2>1, <2>2, PutDue
  <2>4. heart' \in 0 .. 1 /\ (rb' # <<>> => heart' = 0)
    BY <1>0, <2>1
  <2> QED BY <1>0, <2>1, <2>3, <2>4 DEF Opening, InOrder, HasSession
<1>4. CASE drv_mqtt_recv_check
  <2>1. /\ rb # <<>> /\ rb' = Tail(rb)
        /\ UNCHANGED <<state, conn_state, heart, uart, wifi, mux, turn>>
    BY <1>4 DEF drv_mqtt_recv_check
  <2>2. Head(rb) = "CONNACK"
    <3>1. Head(rb) = Due[1] /\ 1 \in 1 .. Len(Due)
      BY <1>0, <2>1, FirstDue
    <3> QED BY <1>0, <3>1 DEF Only
  <2>3. Connack
    BY <1>4, <2>2 DEF drv_mqtt_recv_check, Refused, Ack, Publish, Pingresp, Puback
  <2>4. is_connected' = TRUE /\ keep_age' = 0 /\ UNCHANGED <<broker, sock, down>>
    BY <2>3 DEF Connack
  <2>5. Due' = <<>>
    <3>1. Due' = Tail(Due) /\ Due # <<>> /\ Due \in Seq(Item)
      <4>1. Due' = Tail(rb) \o uart.ipd \o down
        BY <2>1, <2>4 DEF Due
      <4> QED BY <2>1, <4>1, FirstDue, DueTyped
    <3>2. Tail(Due) \in Seq(Item) /\ Len(Tail(Due)) = 0
      BY <1>0, <3>1, Tailed
    <3> QED BY <3>1, <3>2
  <2>6. Only(Due', Routine)
    <3>1. Len(<<>>) = 0
      OBVIOUS
    <3> QED BY <2>5, <3>1 DEF Only
  <2>7. InUse'
    BY <1>0, <2>1, <2>4 DEF InUse, InOrder, HasSession
  <2>8. Young'
    BY <1>0, <2>4, <2>6 DEF Young
  <2> QED BY <2>7, <2>8 DEF Kept
<1>5. ~(Tick /\ Quiet)
  <2>1. ASSUME Quiet PROVE Len(Due) = 0
    <3>1. Due = <<>>
      BY <2>1, SilenceIs, DueTyped DEF Quiet
    <3> QED BY <3>1
  <2> QED BY <1>0, <2>1
<1>6. CASE World(Arrive)
  <2>1. \A t \in Text : t \notin {"CONNACK"}
    BY DEF Text
  <2>2. /\ Due' = Due /\ uart'.said = uart.said
        /\ UNCHANGED <<state, conn_state, heart, wifi, mux, sock, broker, rb, is_connected, turn>>
    BY <1>0, <1>6, <2>1, ArriveOnLink
  <2> QED BY <1>0, <2>2 DEF Opening, InOrder, HasSession
<1>7. CASE World(WifiUp)
  BY <1>0, <1>7 DEF World, WifiUp
<1> QED BY <1>1, <1>2, <1>3, <1>4, <1>5, <1>6, <1>7 DEF CalmStep

\* A packet sent in a session makes a routine answer more.
LEMMA MoreDue ==
  ASSUME TypeInv, UNCHANGED <<rb, uart, keep_age>>, NEW e \in Seq(Item), Only(e, Routine),
         down' = down \o e, Only(Due, Routine)
  PROVE  /\ Only(Due', Routine)
         /\ \A n \in Nat : Refreshed(Due, n) => Refreshed(Due', n)
         /\ Due = <<>> => Due' = e
<1>1. Due' = Due \o e /\ Due \in Seq(Item)
  BY SentDue, DueTyped
<1>2. /\ Only(Due \o e, Routine)
      /\ \A n \in Nat : Refreshed(Due, n) => Refreshed(Due \o e, n)
  BY <1>1, JoinedLater
<1>3. <<>> \o e = e
  BY ConcatEmptySeq
<1> QED BY <1>1, <1>2, <1>3

LEMMA KeptCheck ==
  ASSUME TypeInv, Kept, drv_mqtt_recv_check
  PROVE  Kept'
<1>0. /\ InOrder /\ HasSession /\ conn_state /\ is_connected
      /\ uart.said \subseteq {"STATUS3"} /\ heart \in 0 .. 1 /\ Only(Due, Routine)
      /\ turn = "idle" => heart = 0 \/ uart.ipd # <<>> \/ down # <<>>
      /\ keep_age <= PingTime /\ PingTime \in Nat /\ PingTime >= 1 /\ keep_age \in Nat
      /\ turn \in {"reg", "mqtt"} => keep_age = 0 \/ Refreshed(Due, 1) \/ Due = <<>>
      /\ turn \in {"status", "idle"} => keep_age < PingTime \/ Refreshed(Due, 2)
  BY TimesAssumption DEF Kept, InUse, Young, TypeInv, AgeType
<1>1. /\ rb # <<>> /\ rb' = Tail(rb) /\ UNCHANGED <<state, conn_state, heart, uart, wifi, mux, turn>>
  BY DEF drv_mqtt_recv_check
<1>2. /\ Due # <<>> /\ Due[1] = Head(rb) /\ Due \in Seq(Item)
      /\ \A e \in Seq(Item) : Tail(rb) \o uart.ipd \o (down \o e) = Tail(Due) \o e
      /\ Tail(rb) \o uart.ipd \o down = Tail(Due)
  BY <1>1, FirstDue, DueTyped
<1>3. /\ Tail(Due) \in Seq(Item) /\ Only(Tail(Due), Routine) /\ Head(rb) \in Routine
      /\ \A n \in Nat : Refreshed(Due, n + 1) /\ Head(rb) \notin Refreshing => Refreshed(Tail(Due), n)
  BY <1>0, <1>2, Taken
<1>4. CASE Head(rb) \in Refreshing
  <2>1. Publish \/ Pingresp
    BY <1>4 DEF drv_mqtt_recv_check, Refreshing, Connack, Refused, Ack, Puback
  <2>2. /\ keep_age' = 0 /\ is_connected' = is_connected
        /\ UNCHANGED <<broker, sock, down>> \/ Send("PUBLISH")
    BY <2>1 DEF Publish, Pingresp
  <2>3. HasSession' /\ (down' = down \/ \E a \in Routine : down' = down \o <<a>>)
    <3>1. CASE UNCHANGED <<broker, sock, down>>
      BY <1>0, <3>1 DEF HasSession
    <3>2. CASE Send("PUBLISH")
      BY <1>0, <3>2, SendInSession
    <3> QED BY <2>2, <3>1, <3>2
  <2>4. Only(Due', Routine) /\ (down # <<>> => down' # <<>>)
    <3>1. CASE down' = down
      <4>1. Due' = Tail(Due)
        BY <1>1, <1>2, <3>1 DEF Due
      <4> QED BY <1>3, <3>1, <4>1
    <3>2. CASE \E a \in Routine : down' = down \o <<a>>
      <4>1. PICK a \in Routine : down' = down \o <<a>>
        BY <3>2
      <4>2. <<a>> \in Seq(Item) /\ Only(<<a>>, Routine) /\ Len(<<a>>) = 1
        <5>1. a \in Item
          BY DEF Routine, Item, Packet
        <5> QED BY <5>1 DEF Only
      <4>3. Due' = Tail(Due) \o <<a>>
        BY <1>1, <1>2, <4>1, <4>2 DEF Due
      <4>4. Only(Tail(Due) \o <<a>>, Routine)
        BY <1>3, <4>2, JoinedLater
      <4>5. down \o <<a>> # <<>>
        <5>1. down \in Seq(Item)
          BY DueTyped
        <5>2. Len(down \o <<a>>) = Len(down) + 1 /\ Len(down) \in Nat
          BY <4>2, <5>1, Joined
        <5>3. Len(<<>>) = 0
          OBVIOUS
        <5> QED BY <5>2, <5>3
      <4> QED BY <4>1, <4>3, <4>4, <4>5
    <3> QED BY <2>3, <3>1, <3>2
  <2>5. InUse'
    BY <1>0, <1>1, <2>2, <2>3, <2>4 DEF InUse, InOrder
  <2>6. Young'
    BY <1>0, <2>2, <2>4 DEF Young
  <2> QED BY <2>5, <2>6 DEF Kept
<1>5. CASE Head(rb) \notin Refreshing
  <2>1. Ack("SUBACK", "Sub") \/ Ack("UNSUBACK", "UnSub") \/ Puback
    BY <1>3, <1>5 DEF drv_mqtt_recv_check, Routine, Refreshing, Connack, Refused, Publish, Pingresp
  <2>2. UNCHANGED <<is_connected, keep_age, broker, sock, down>>
    BY <2>1 DEF Ack, Puback, mqttVars
  <2>3. Due' = Tail(Due)
    BY <1>1, <1>2, <2>2 DEF Due
  <2>4. InUse'
    BY <1>0, <1>1, <2>2 DEF InUse, InOrder, HasSession
  <2>5. ~Refreshed(Due, 1)
    <3>1. ASSUME NEW i \in 1 .. Len(Due), i <= 1, Due[i] \in Refreshing PROVE FALSE
      <4>1. i = 1
        BY <3>1
      <4> QED BY <1>2, <1>5, <3>1, <4>1
    <3> QED BY <3>1 DEF Refreshed
  <2>6. Refreshed(Due, 2) => Refreshed(Tail(Due), 1)
    BY <1>3, <1>5, 2 = 1 + 1
  <2>7. Refreshed(Tail(Due), 1) => Refreshed(Tail(Due), 2)
    <3>1. \A i \in Nat : i <= 1 => i <= 2
      OBVIOUS
    <3> QED BY <3>1 DEF Refreshed
  <2>8. Young'
    BY <1>0, <1>1, <1>2, <1>3, <2>2, <2>3, <2>5, <2>6, <2>7 DEF Young
  <2> QED BY <2>4, <2>8 DEF Kept
<1> QED BY <1>4, <1>5

LEMMA KeptNext ==
  ASSUME TypeInv, RoomForTwo, Kept, CalmStep
  PROVE  Kept'
<1> USE DEF moduleVars
<1>0. /\ InOrder /\ HasSession /\ conn_state /\ is_connected
      /\ uart.said \subseteq {"STATUS3"} /\ heart \in 0 .. 1 /\ Only(Due, Routine)
      /\ turn = "idle" => heart = 0 \/ uart.ipd # <<>> \/ down # <<>>
      /\ keep_age <= PingTime /\ PingTime \in Nat /\ PingTime >= 1 /\ keep_age \in Nat
      /\ turn \in {"reg", "mqtt"} => keep_age = 0 \/ Refreshed(Due, 1) \/ Due = <<>>
      /\ turn \in {"status", "idle"} => keep_age < PingTime \/ Refreshed(Due, 2)
      /\ wifi /\ sock = "open" /\ broker # "none"
  BY TimesAssumption DEF Kept, InUse, Young, TypeInv, AgeType, InOrder, HasSession
<1>1. CASE RegTurn
  <2>1. /\ UNCHANGED <<rb, is_connected, keep_age>> /\ turn = "reg" /\ turn' = "mqtt"
        /\ UNCHANGED <<state, wifi, mux, conn_state, heart, sock, down, broker>>
        /\ uart'.ipd = uart.ipd /\ uart'.said = uart.said \cup {"STATUS3"}
    BY <1>0, <1>1, RegOnLink, DeviceKeeps
  <2>2. Due' = Due
    BY <2>1 DEF Due
  <2>3. InUse' /\ Young'
    BY <1>0, <2>1, <2>2 DEF InUse, Young, InOrder, HasSession
  <2> QED BY <2>3 DEF Kept
<1>2. CASE MqttTurn
  <2>1. /\ turn = "mqtt" /\ turn' = "status"
        /\ UNCHANGED <<state, conn_state, heart, uart, wifi, mux, rb>>
    BY <1>2, DeviceKeeps
  <2>2. /\ HasSession' /\ UNCHANGED <<is_connected, keep_age>>
        /\ \E e \in Seq(Item) : /\ down' = down \o e /\ Only(e, Routine)
                                /\ keep_age = PingTime => Refreshed(e, 2)
    BY <1>0, <1>2, MqttInSession
  <2>3. PICK e \in Seq(Item) : /\ down' = down \o e /\ Only(e, Routine)
                               /\ keep_age = PingTime => Refreshed(e, 2)
    BY <2>2
  <2>4. /\ Only(Due', Routine) /\ (Due = <<>> => Due' = e)
        /\ Refreshed(Due, 1) => Refreshed(Due', 1)
    BY <1>0, <2>1, <2>2, <2>3, MoreDue
  <2>5. keep_age' < PingTime \/ Refreshed(Due', 2)
    <3>1. Refreshed(Due', 1) => Refreshed(Due', 2)
      <4>1. \A i \in Nat : i <= 1 => i <= 2
        OBVIOUS
      <4> QED BY <4>1 DEF Refreshed
    <3>2. CASE keep_age = PingTime
      BY <1>0, <2>1, <2>3, <2>4, <3>1, <3>2
    <3>3. CASE keep_age # PingTime
      BY <1>0, <2>2, <3>3
    <3> QED BY <3>2, <3>3
  <2>6. InUse'
    BY <1>0, <2>1, <2>2 DEF InUse, InOrder
  <2>7. Young'
    BY <1>0, <2>1, <2>2, <2>4, <2>5 DEF Young
  <2> QED BY <2>6, <2>7 DEF Kept
<1>3. CASE StatusTurn
  <2>1. /\ turn = "status" /\ turn' = "idle" /\ UNCHANGED <<is_connected, keep_age>>
        /\ UNCHANGED <<state, conn_state, heart, uart, wifi, mux, rb>> /\ Send("PUBLISH")
    BY <1>0, <1>3, DeviceKeeps DEF StatusTurn
  <2>2. HasSession' /\ \E a \in Routine : down' = down \o <<a>>
    BY <1>0, <2>1, SendInSession
  <2>3. PICK a \in Routine : down' = down \o <<a>>
    BY <2>2
  <2>4. <<a>> \in Seq(Item) /\ Only(<<a>>, Routine) /\ Len(<<a>>) = 1
    <3>1. a \in Item
      BY DEF Routine, Item, Packet
    <3> QED BY <3>1 DEF Only
  <2>5. Only(Due', Routine) /\ (Refreshed(Due, 2) => Refreshed(Due', 2))
    BY <1>0, <2>1, <2>3, <2>4, MoreDue
  <2>6. down' # <<>>
    <3>1. down \in Seq(Item)
      BY DueTyped
    <3>2. Len(down \o <<a>>) = Len(down) + 1 /\ Len(down) \in Nat
      BY <2>4, <3>1, Joined
    <3>3. Len(<<>>) = 0
      OBVIOUS
    <3> QED BY <2>3, <3>2, <3>3
  <2>7. InUse' /\ Young'
    BY <1>0, <2>1, <2>2, <2>5, <2>6 DEF InUse, Young, InOrder
  <2> QED BY <2>7 DEF Kept
<1>4. CASE Receive
  <2>1. /\ UNCHANGED <<state, wifi, mux, conn_state, sock, down, broker>>
        /\ uart'.ipd = <<>> /\ uart'.said = {}
        /\ RecvIpd => heart' = 0 /\ uart.ipd # <<>>
        /\ ~RecvIpd => heart' = heart /\ uart.ipd = <<>> /\ rb' = rb
        /\ UNCHANGED <<is_connected, keep_age, turn>>
    BY <1>0, <1>4, RecvOnLink, DeviceKeeps
  <2>2. rb' = app_mqtt_put_data(rb, uart.ipd)
    BY <1>4 DEF Receive
  <2>3. /\ Only(Due', Routine)
        /\ Refreshed(Due, 1) => Refreshed(Due', 1)
        /\ Refreshed(Due, 2) => Refreshed(Due', 2)
    BY <1>0, <2>1, <2>2, PutDue
  <2>4. Due = <<>> => Due' = <<>>
    <3>1. ASSUME Due = <<>> PROVE Due' = <<>>
      <4>1. rb = <<>> /\ uart.ipd = <<>> /\ down = <<>>
        BY <3>1, DueTyped
      <4>2. Due' = Due
        BY <2>1, <4>1 DEF Due
      <4> QED BY <3>1, <4>2
    <3> QED BY <3>1
  <2>5. /\ heart' \in 0 .. 1
        /\ turn' = "idle" => heart' = 0 \/ uart'.ipd # <<>> \/ down' # <<>>
    BY <1>0, <2>1
  <2>6. InUse' /\ Young'
    BY <1>0, <2>1, <2>3, <2>4, <2>5 DEF InUse, Young, InOrder, HasSession
  <2> QED BY <2>6 DEF Kept
<1>5. CASE drv_mqtt_recv_check
  BY <1>5, KeptCheck
<1>6. CASE Tick /\ Quiet
  <2>1. /\ UNCHANGED <<state, conn_state, uart, wifi, mux, sock, broker, rb, is_connected, down>>
        /\ turn = "idle" /\ turn' = "reg" /\ heart' = Older(heart) /\ keep_age' = keep_age + 1
    BY <1>0, <1>6, OthersKeep
  <2>2. rb = <<>> /\ uart.ipd = <<>> /\ down = <<>> /\ Due = <<>>
    BY <1>6, SilenceIs, DueTyped DEF Quiet
  <2>3. Due' = Due
    BY <2>1 DEF Due
  <2>4. ~Refreshed(Due, 2)
    <3>1. Len(<<>>) = 0
      OBVIOUS
    <3> QED BY <2>2, <3>1 DEF Refreshed
  <2>5. keep_age' <= PingTime
    BY <1>0, <2>1, <2>4
  <2>6. heart' = 1
    <3>1. HeartTime \in Nat \ {0}
      BY HeartAssumption
    <3> QED BY <1>0, <2>1, <2>2, <3>1 DEF Older
  <2>7. InUse' /\ Young'
    BY <1>0, <2>1, <2>2, <2>3, <2>5, <2>6 DEF InUse, Young, InOrder, HasSession
  <2> QED BY <2>7 DEF Kept
<1>7. CASE World(Arrive)
  <2>1. \A t \in Text : t \notin Routine
    BY DEF Text, Routine
  <2>2. /\ Due' = Due /\ uart'.said = uart.said /\ uart'.ipd # <<>>
        /\ UNCHANGED <<state, conn_state, heart, wifi, mux, sock, broker, rb, is_connected>>
        /\ UNCHANGED <<keep_age, turn>>
    BY <1>0, <1>7, <2>1, ArriveOnLink
  <2>3. InUse' /\ Young'
    BY <1>0, <2>2 DEF InUse, Young, InOrder, HasSession
  <2> QED BY <2>3 DEF Kept
<1>8. CASE World(WifiUp)
  BY <1>0, <1>8 DEF World, WifiUp
<1>9. CASE MessageOfApp
  <2>1. /\ UNCHANGED <<state, conn_state, uart, wifi, mux, sock, broker, rb, is_connected>>
        /\ UNCHANGED <<heart, keep_age, turn>> /\ turn = "mqtt"
        /\ Quiet /\ down' = <<"PUBLISH">>
    BY <1>9, OthersKeep
  <2>2. rb = <<>> /\ uart.ipd = <<>> /\ down = <<>> /\ Due = <<>>
    BY <2>1, SilenceIs, DueTyped DEF Quiet
  <2>3. Due' = <<"PUBLISH">>
    <3>1. <<>> \o <<>> \o <<"PUBLISH">> = <<"PUBLISH">>
      <4>1. <<>> \o <<>> = <<>>
        OBVIOUS
      <4>2. <<>> \o <<"PUBLISH">> = <<"PUBLISH">>
        OBVIOUS
      <4> QED BY <4>1, <4>2
    <3> QED BY <2>1, <2>2, <3>1 DEF Due
  <2>4. Len(<<"PUBLISH">>) = 1 /\ <<"PUBLISH">>[1] = "PUBLISH" /\ 1 \in 1 .. 1 /\ 1 <= 1
    OBVIOUS
  <2>5. Only(Due', Routine) /\ Refreshed(Due', 1)
    <3>1. Only(Due', Routine)
      BY <2>3, <2>4 DEF Only, Routine
    <3>2. Refreshed(Due', 1)
      BY <2>3, <2>4 DEF Refreshed, Refreshing
    <3> QED BY <3>1, <3>2
  <2>6. InUse' /\ Young'
    BY <1>0, <2>1, <2>5 DEF InUse, Young, InOrder, HasSession
  <2> QED BY <2>6 DEF Kept
<1>10. CASE Unsub
  <2>1. /\ UNCHANGED <<state, conn_state, uart, wifi, mux, sock, broker, rb, is_connected, down>>
        /\ UNCHANGED <<heart, keep_age, turn>>
    BY <1>10, OthersKeep
  <2>2. Due' = Due
    BY <2>1 DEF Due
  <2>3. InUse' /\ Young'
    BY <1>0, <2>1, <2>2 DEF InUse, Young, InOrder, HasSession
  <2> QED BY <2>3 DEF Kept
<1> QED BY <1>1, <1>2, <1>3, <1>4, <1>5, <1>6, <1>7, <1>8, <1>9, <1>10 DEF CalmStep

LEMMA PhasesInit == Init => Phases
<1> SUFFICES ASSUME Init PROVE SettingUp
  BY DEF Phases
<1>1. /\ state = "START" /\ conn_state = FALSE /\ heart = 0 /\ uart = Silence
      /\ sock = "closed" /\ down = <<>> /\ is_connected = FALSE /\ rb = <<>> /\ broker = "none"
  BY DEF Init, EspInit, drv_esp8266_init
<1> QED BY <1>1, SilenceIs DEF SettingUp, NotYet, NoSocket

LEMMA PhasesNext ==
  ASSUME RoomForTwo, TypeInv, Phases, [Next]_vars
  PROVE  /\ Phases'
         /\ faults' = 0 /\ stalls' = 0 =>
              /\ is_connected => is_connected'
              /\ HasSession => HasSession'
<1> USE DEF vars, espVars, mqttVars, countVars
<1>1. CASE UNCHANGED vars
  <2>1. Due' = Due
    BY <1>1 DEF Due
  <2> QED BY <1>1, <2>1 DEF Phases, SettingUp, NoLink, LinkLate, LinkOpen, Opening, Kept, InUse,
              Young, InOrder, NotYet, NoSocket, HasSession
<1>2. CASE Next
  <2> SUFFICES ASSUME faults' = 0, stalls' = 0
               PROVE  /\ (SettingUp \/ NoLink \/ LinkLate \/ LinkOpen \/ Opening \/ Kept)'
                      /\ is_connected => is_connected'
                      /\ HasSession => HasSession'
    BY DEF Phases
  <2>1. faults = 0 /\ stalls = 0 /\ CalmStep
    BY <1>2, CalmCases
  <2>2. SettingUp \/ NoLink \/ LinkLate \/ LinkOpen \/ Opening \/ Kept
    BY <2>1 DEF Phases
  <2>3. CASE SettingUp \/ NoLink \/ LinkLate \/ LinkOpen
    <3>1. ~is_connected /\ ~HasSession
      BY <2>3 DEF SettingUp, NoLink, LinkLate, LinkOpen, NotYet, HasSession
    <3> QED BY <2>1, <2>3, <3>1, SettingUpNext, NoLinkNext, LinkLateNext, LinkOpenNext
  <2>4. CASE Opening
    <3>1. ~is_connected /\ (Opening \/ Kept)'
      BY <2>1, <2>4, OpeningNext DEF Opening
    <3> QED BY <3>1 DEF Opening, Kept, InUse
  <2>5. CASE Kept
    <3>1. Kept'
      BY <2>1, <2>5, KeptNext
    <3> QED BY <3>1 DEF Kept, InUse
  <2> QED BY <2>2, <2>3, <2>4, <2>5
<1> QED BY <1>1, <1>2

(***************************************************************************)
(* Nothing but a fault or a late round ends a session, for any times with  *)
(* PingTime < KeepTime and any ring buffer with room for two packets: the  *)
(* answer to the ping is among the first two that are handled, and what    *)
(* the status report brings back keeps the heart beat from closing the     *)
(* link (drv_mqtt.c:180, drv_esp8266.c:253).                               *)
(***************************************************************************)
THEOREM SessionsAreKept ==
  ASSUME RoomForTwo
  PROVE  Spec => KeepsSession
<1>1. Init => TypeInv /\ Phases
  BY TypeInit, PhasesInit
<1>2. TypeInv /\ Phases /\ [Next]_vars =>
        /\ (TypeInv /\ Phases)'
        /\ [faults' = 0 /\ stalls' = 0 => /\ is_connected => is_connected'
                                          /\ HasSession => HasSession']_vars
  BY TypeNext, PhasesNext
<1> QED BY <1>1, <1>2, PTL DEF Spec, KeepsSession

-----------------------------------------------------------------------------
(***************************************************************************)
(* Why a device at rest hears its commands.  A SUBACK that is handled by a *)
(* connected client tells of a session that is still there, because no     *)
(* CONNACK is ever due before a SUBACK: a client that has answers to       *)
(* expect from before and connects anew has them behind it at the CONNACK. *)
(* That in turn needs a second late round to go wrong: a CONNACK that a    *)
(* late round leaves behind is the only one, of a client that is not       *)
(* connected, and what a restart leaves behind is gone before the module   *)
(* is set up again.                                                        *)
(***************************************************************************)
No(d, p) == \A i \in 1 .. Len(d) : d[i] # p
Once(d, p) == \A i, j \in 1 .. Len(d) : d[i] = p /\ d[j] = p => i = j
NotBefore(d, p, q) == \A i, j \in 1 .. Len(d) : d[i] = p /\ d[j] = q => j <= i

\* Only CIPSTATUS makes the module report its state, and at once.
Unasked ==
  /\ state \in {"START", "INIT"} => "STATUS5" \notin uart.said
  /\ No(down, "STATUS5")

\* After a restart, until a round begins with everything handled.
Booting ==
  \/ state = "START" /\ turn = "reg"
  \/ state = "INIT" /\ sock = "closed" /\ (turn # "reg" \/ stalls = 1)
  \/ state \in {"WIFI_CONNECT", "NET_CFG"} /\ sock = "closed" /\ turn # "reg" /\ stalls = 1

Answered ==
  /\ turn \in {"reg", "mqtt"} /\ stalls = 0 => No(Due, "CONNACK")
  /\ turn \in {"reg", "mqtt"} \/ stalls = 0 =>
       Once(Due, "CONNACK") /\ (is_connected => No(Due, "CONNACK"))

AcksFirst == NotBefore(Due, "CONNACK", "SUBACK")

Known == ~is_connected => curr_state = "Idel" \/ lateAck

AsSubscribed ==
  HasSession /\ dst_state = "Sub" =>
    /\ curr_state = "Sub" /\ ~lateAck => broker = "subscribed"
    /\ is_connected /\ ~No(Due, "SUBACK") => broker = "subscribed"

DeafInv ==
  /\ state = "START" => turn = "reg"
  /\ Unasked /\ (Booting \/ Answered) /\ AcksFirst /\ Known /\ AsSubscribed

-----------------------------------------------------------------------------
(* What is left of a sequence when items are lost *)

Thin(t, d) ==
  \E f \in [1 .. Len(t) -> 1 .. Len(d)] :
    /\ \A i \in 1 .. Len(t) : t[i] = d[f[i]]
    /\ \A i, j \in 1 .. Len(t) : i < j => f[i] < f[j]

LEMMA ThinFront ==
  ASSUME NEW d \in Seq(Item), NEW k \in 0 .. Len(d)
  PROVE  SubSeq(d, 1, k) \in Seq(Item) /\ Thin(SubSeq(d, 1, k), d)
<1>1. /\ SubSeq(d, 1, k) \in Seq(Item) /\ Len(SubSeq(d, 1, k)) = k /\ Len(d) \in Nat
      /\ \A i \in 1 .. k : SubSeq(d, 1, k)[i] = d[i]
  OBVIOUS
<1>2. PICK f : f = [i \in 1 .. k |-> i]
  OBVIOUS
<1>3. f \in [1 .. k -> 1 .. Len(d)] /\ \A i \in 1 .. k : f[i] = i
  BY <1>1, <1>2
<1> QED BY <1>1, <1>3 DEF Thin

LEMMA ThinSelf ==
  ASSUME NEW d \in Seq(Item)
  PROVE  Thin(d, d) /\ Thin(<<>>, d)
<1>1. Len(d) \in Nat /\ Len(<<>>) = 0
  OBVIOUS
<1>2. PICK f : f = [i \in 1 .. Len(d) |-> i]
  OBVIOUS
<1>3. f \in [1 .. Len(d) -> 1 .. Len(d)] /\ \A i \in 1 .. Len(d) : f[i] = i
  BY <1>2
<1>4. Thin(d, d)
  BY <1>3 DEF Thin
<1>5. PICK g : g = [i \in 1 .. Len(<<>>) |-> i]
  OBVIOUS
<1>6. g \in [1 .. Len(<<>>) -> 1 .. Len(d)] /\ \A i \in 1 .. Len(<<>>) : FALSE
  BY <1>1, <1>5
<1>7. Thin(<<>>, d)
  BY <1>6 DEF Thin
<1> QED BY <1>4, <1>7

LEMMA ThinTail ==
  ASSUME NEW d \in Seq(Item), d # <<>>
  PROVE  Tail(d) \in Seq(Item) /\ Thin(Tail(d), d)
<1>1. /\ Tail(d) \in Seq(Item) /\ Len(d) \in Nat \ {0} /\ Len(Tail(d)) = Len(d) - 1
      /\ \A j \in 1 .. Len(d) - 1 : Tail(d)[j] = d[j + 1]
  BY Tailed
<1>2. PICK f : f = [i \in 1 .. Len(d) - 1 |-> i + 1]
  OBVIOUS
<1>3. f \in [1 .. Len(d) - 1 -> 1 .. Len(d)] /\ \A i \in 1 .. Len(d) - 1 : f[i] = i + 1
  BY <1>1, <1>2
<1> QED BY <1>1, <1>3 DEF Thin

LEMMA ThinJoined ==
  ASSUME NEW a \in Seq(Item), NEW b \in Seq(Item), NEW c \in Seq(Item), NEW d \in Seq(Item),
         Thin(a, b), Thin(c, d)
  PROVE  a \o c \in Seq(Item) /\ Thin(a \o c, b \o d)
<1>1. /\ a \o c \in Seq(Item) /\ Len(a) \in Nat /\ Len(c) \in Nat
      /\ Len(a \o c) = Len(a) + Len(c)
      /\ \A i \in 1 .. Len(a) : (a \o c)[i] = a[i]
      /\ \A i \in 1 .. Len(a) + Len(c) :
           i \in 1 .. Len(a) \/ (i - Len(a) \in 1 .. Len(c) /\ (a \o c)[i] = c[i - Len(a)])
  BY Joined
<1>2. /\ Len(b) \in Nat /\ Len(d) \in Nat /\ Len(b \o d) = Len(b) + Len(d)
      /\ \A i \in 1 .. Len(b) : (b \o d)[i] = b[i]
      /\ \A i \in 1 .. Len(d) : (b \o d)[Len(b) + i] = d[i]
  BY Joined
<1>3. PICK g \in [1 .. Len(a) -> 1 .. Len(b)] :
        /\ \A i \in 1 .. Len(a) : a[i] = b[g[i]]
        /\ \A i, j \in 1 .. Len(a) : i < j => g[i] < g[j]
  BY DEF Thin
<1>4. PICK h \in [1 .. Len(c) -> 1 .. Len(d)] :
        /\ \A i \in 1 .. Len(c) : c[i] = d[h[i]]
        /\ \A i, j \in 1 .. Len(c) : i < j => h[i] < h[j]
  BY DEF Thin
<1>5. PICK f : f = [i \in 1 .. Len(a) + Len(c) |->
                      IF i \in 1 .. Len(a) THEN g[i] ELSE Len(b) + h[i - Len(a)]]
  OBVIOUS
<1>6. \A i \in 1 .. Len(a) + Len(c) :
        f[i] = IF i \in 1 .. Len(a) THEN g[i] ELSE Len(b) + h[i - Len(a)]
  BY <1>5
<1>7. ASSUME NEW i \in 1 .. Len(a) + Len(c)
      PROVE  f[i] \in 1 .. Len(b) + Len(d) /\ (a \o c)[i] = (b \o d)[f[i]]
  <2>1. CASE i \in 1 .. Len(a)
    <3>1. f[i] = g[i] /\ g[i] \in 1 .. Len(b)
      BY <1>6, <2>1
    <3>2. f[i] \in 1 .. Len(b) + Len(d)
      BY <1>2, <3>1
    <3> QED BY <1>1, <1>2, <1>3, <2>1, <3>1, <3>2
  <2>2. CASE i \notin 1 .. Len(a)
    <3>1. PICK k \in 1 .. Len(c) : k = i - Len(a) /\ (a \o c)[i] = c[k]
      BY <1>1, <2>2
    <3>2. f[i] = Len(b) + h[k] /\ h[k] \in 1 .. Len(d)
      BY <1>6, <2>2, <3>1
    <3>3. f[i] \in 1 .. Len(b) + Len(d)
      BY <1>2, <3>2
    <3>4. (b \o d)[Len(b) + h[k]] = d[h[k]]
      BY <1>2, <3>2
    <3> QED BY <1>4, <3>1, <3>2, <3>3, <3>4
  <2> QED BY <2>1, <2>2
<1>8. ASSUME NEW i \in 1 .. Len(a) + Len(c), NEW j \in 1 .. Len(a) + Len(c), i < j
      PROVE  f[i] < f[j]
  <2>1. CASE j \in 1 .. Len(a)
    <3>1. i \in 1 .. Len(a)
      BY <1>1, <1>8, <2>1
    <3> QED BY <1>3, <1>6, <1>8, <2>1, <3>1
  <2>2. CASE j \notin 1 .. Len(a)
    <3>1. PICK m \in 1 .. Len(c) : m = j - Len(a)
      BY <1>1, <2>2
    <3>2. f[j] = Len(b) + h[m] /\ h[m] \in 1 .. Len(d)
      BY <1>6, <2>2, <3>1
    <3>3. CASE i \in 1 .. Len(a)
      <4>1. f[i] = g[i] /\ g[i] \in 1 .. Len(b)
        BY <1>6, <3>3
      <4> QED BY <1>2, <3>2, <4>1
    <3>4. CASE i \notin 1 .. Len(a)
      <4>1. PICK k \in 1 .. Len(c) : k = i - Len(a)
        BY <1>1, <3>4
      <4>2. f[i] = Len(b) + h[k] /\ h[k] \in 1 .. Len(d)
        BY <1>6, <3>4, <4>1
      <4>3. k < m
        BY <1>1, <1>8, <3>1, <4>1
      <4>4. h[k] < h[m]
        BY <1>4, <4>3
      <4> QED BY <1>2, <3>2, <4>2, <4>4
    <3> QED BY <3>3, <3>4
  <2> QED BY <2>1, <2>2
<1>9. f \in [1 .. Len(a) + Len(c) -> 1 .. Len(b) + Len(d)]
  BY <1>5, <1>7
<1> QED BY <1>1, <1>2, <1>7, <1>8, <1>9, ZenonT(40) DEF Thin

LEMMA ThinKeeps ==
  ASSUME NEW t \in Seq(Item), NEW d \in Seq(Item), Thin(t, d), NEW p, NEW q
  PROVE  /\ No(d, p) => No(t, p)
         /\ Once(d, p) => Once(t, p)
         /\ NotBefore(d, p, q) => NotBefore(t, p, q)
<1>1. PICK f \in [1 .. Len(t) -> 1 .. Len(d)] :
        /\ \A i \in 1 .. Len(t) : t[i] = d[f[i]]
        /\ \A i, j \in 1 .. Len(t) : i < j => f[i] < f[j]
  BY DEF Thin
<1>2. Len(t) \in Nat /\ Len(d) \in Nat
  OBVIOUS
<1>3. \A i, j \in 1 .. Len(t) : i < j \/ j < i \/ i = j
  BY <1>2
<1>4. \A i \in 1 .. Len(t) : f[i] \in 1 .. Len(d)
  BY <1>1
<1>5. No(d, p) => No(t, p)
  BY <1>1, <1>4 DEF No
<1>6. ASSUME Once(d, p) PROVE Once(t, p)
  <2>1. ASSUME NEW i \in 1 .. Len(t), NEW j \in 1 .. Len(t), t[i] = p, t[j] = p
        PROVE  i = j
    <3>1. f[i] = f[j] /\ f[i] \in 1 .. Len(d)
      BY <1>1, <1>4, <1>6, <2>1 DEF Once
    <3>2. ~(f[i] < f[j]) /\ ~(f[j] < f[i])
      BY <1>2, <3>1
    <3> QED BY <1>1, <1>3, <3>2
  <2> QED BY <2>1 DEF Once
<1>7. ASSUME NotBefore(d, p, q) PROVE NotBefore(t, p, q)
  <2>1. ASSUME NEW i \in 1 .. Len(t), NEW j \in 1 .. Len(t), t[i] = p, t[j] = q
        PROVE  j <= i
    <3>1. f[j] <= f[i] /\ f[i] \in 1 .. Len(d) /\ f[j] \in 1 .. Len(d)
      BY <1>1, <1>4, <1>7, <2>1 DEF NotBefore
    <3>2. ~(f[i] < f[j])
      BY <1>2, <3>1
    <3>3. ~(i < j)
      BY <1>1, <3>2
    <3> QED BY <1>2, <3>3
  <2> QED BY <2>1 DEF NotBefore
<1> QED BY <1>5, <1>6, <1>7

LEMMA MoreKeeps ==
  ASSUME NEW d \in Seq(Item), NEW e \in Seq(Item), NEW p, NEW q
  PROVE  /\ No(d, p) /\ No(e, p) => No(d \o e, p)
         /\ Once(d, p) /\ No(e, p) => Once(d \o e, p)
         /\ No(d, p) /\ Len(e) = 1 => Once(d \o e, p)
         /\ NotBefore(d, p, q) /\ No(e, q) => NotBefore(d \o e, p, q)
<1>1. /\ d \o e \in Seq(Item) /\ Len(d) \in Nat /\ Len(e) \in Nat
      /\ Len(d \o e) = Len(d) + Len(e)
      /\ \A i \in 1 .. Len(d) : (d \o e)[i] = d[i]
      /\ \A i \in 1 .. Len(d) + Len(e) :
           i \in 1 .. Len(d) \/ (i - Len(d) \in 1 .. Len(e) /\ (d \o e)[i] = e[i - Len(d)])
  BY Joined
<1>2. No(d, p) /\ No(e, p) => No(d \o e, p)
  BY <1>1 DEF No
<1>3. Once(d, p) /\ No(e, p) => Once(d \o e, p)
  BY <1>1 DEF No, Once
<1>4. ASSUME No(d, p), Len(e) = 1 PROVE Once(d \o e, p)
  <2>1. ASSUME NEW i \in 1 .. Len(d \o e), (d \o e)[i] = p PROVE i = Len(d) + 1
    <3>1. i \notin 1 .. Len(d)
      BY <1>1, <1>4, <2>1 DEF No
    <3> QED BY <1>1, <1>4, <3>1
  <2> QED BY <2>1 DEF Once
<1>5. NotBefore(d, p, q) /\ No(e, q) => NotBefore(d \o e, p, q)
  <2>1. ASSUME NotBefore(d, p, q), No(e, q),
               NEW i \in 1 .. Len(d \o e), NEW j \in 1 .. Len(d \o e),
               (d \o e)[i] = p, (d \o e)[j] = q
        PROVE  j <= i
    <3>1. j \in 1 .. Len(d)
      BY <1>1, <2>1 DEF No
    <3>2. CASE i \in 1 .. Len(d)
      BY <1>1, <2>1, <3>1, <3>2 DEF NotBefore
    <3>3. CASE i \notin 1 .. Len(d)
      BY <1>1, <3>1, <3>3
    <3> QED BY <3>2, <3>3
  <2> QED BY <2>1 DEF NotBefore
<1> QED BY <1>2, <1>3, <1>4, <1>5

-----------------------------------------------------------------------------
(* Steps after which what is due has lost items and got others, among them *)
(* neither CONNACK nor SUBACK                                              *)

Unrelated(e) == No(e, "CONNACK") /\ No(e, "SUBACK")

DownPlain == \E w, e \in Seq(Item) : Thin(w, down) /\ down' = w \o e /\ Unrelated(e)

Plain == \E t, e \in Seq(Item) : Thin(t, Due) /\ Due' = t \o e /\ Unrelated(e)

LEMMA PlainKeeps ==
  ASSUME TypeInv, Plain
  PROVE  /\ \A p \in {"CONNACK", "SUBACK"} : No(Due, p) => No(Due', p)
         /\ Once(Due, "CONNACK") => Once(Due', "CONNACK")
         /\ AcksFirst => AcksFirst'
<1>1. PICK t \in Seq(Item), e \in Seq(Item) : Thin(t, Due) /\ Due' = t \o e /\ Unrelated(e)
  BY DEF Plain
<1>2. Due \in Seq(Item)
  BY DueTyped
<1>3. ASSUME NEW p \in {"CONNACK", "SUBACK"}, No(Due, p) PROVE No(Due', p)
  BY <1>1, <1>2, <1>3, ThinKeeps, MoreKeeps, ZenonT(40) DEF Unrelated
<1>4. ASSUME Once(Due, "CONNACK") PROVE Once(Due', "CONNACK")
  BY <1>1, <1>2, <1>4, ThinKeeps, MoreKeeps DEF Unrelated
<1>5. ASSUME AcksFirst PROVE AcksFirst'
  <2>1. NotBefore(t \o e, "CONNACK", "SUBACK")
    BY <1>1, <1>2, <1>5, ThinKeeps, MoreKeeps DEF Unrelated, AcksFirst
  <2> QED BY <1>1, <2>1 DEF AcksFirst
<1> QED BY <1>3, <1>4, <1>5

LEMMA OneItem ==
  ASSUME NEW a \in Item
  PROVE  /\ <<a>> \in Seq(Item) /\ Len(<<a>>) = 1 /\ <<a>>[1] = a
         /\ \A d \in Seq(Item) : Append(d, a) = d \o <<a>>
         /\ \A p : p # a => No(<<a>>, p)
<1>1. <<a>> \in Seq(Item) /\ Len(<<a>>) = 1 /\ <<a>>[1] = a
  OBVIOUS
<1>2. \A i \in 1 .. 1 : i = 1
  OBVIOUS
<1>3. \A d \in Seq(Item) : Append(d, a) = d \o <<a>>
  OBVIOUS
<1>4. \A p : p # a => No(<<a>>, p)
  BY <1>1, <1>2 DEF No
<1> QED BY <1>1, <1>3, <1>4

LEMMA EmptyIsNo == \A p : No(<<>>, p)
<1>1. Len(<<>>) = 0
  OBVIOUS
<1> QED BY <1>1 DEF No

LEMMA PlainParts ==
  ASSUME TypeInv, DownPlain, NEW m \in Seq(Item), Thin(m, rb \o uart.ipd), rb' \o uart'.ipd = m
  PROVE  Plain
<1>1. PICK w \in Seq(Item), e \in Seq(Item) : Thin(w, down) /\ down' = w \o e /\ Unrelated(e)
  BY DEF DownPlain
<1>2. rb \o uart.ipd \in Seq(Item) /\ down \in Seq(Item)
  BY DueTyped
<1>3. m \o w \in Seq(Item) /\ Thin(m \o w, Due)
  BY <1>1, <1>2, ThinJoined DEF Due
<1>4. m \o (w \o e) = (m \o w) \o e
  BY <1>1, Associated
<1>5. Due' = (m \o w) \o e
  BY <1>1, <1>4 DEF Due
<1> QED BY <1>1, <1>3, <1>5 DEF Plain

LEMMA PlainBuffer ==
  ASSUME TypeInv, DownPlain, rb' = rb, uart'.ipd = uart.ipd \/ uart'.ipd = <<>>
  PROVE  Plain
<1>1. rb \in Seq(Item) /\ uart.ipd \in Seq(Item) /\ rb \o uart.ipd \in Seq(Item)
  BY DueTyped
<1>2. CASE uart'.ipd = uart.ipd
  BY <1>1, <1>2, ThinSelf, PlainParts
<1>3. CASE uart'.ipd = <<>>
  <2>1. Thin(rb, rb) /\ Thin(<<>>, uart.ipd) /\ <<>> \in Seq(Item)
    BY <1>1, ThinSelf, EmptySeq
  <2>2. rb \o <<>> \in Seq(Item) /\ Thin(rb \o <<>>, rb \o uart.ipd)
    BY <1>1, <2>1, ThinJoined
  <2>3. rb' \o uart'.ipd = rb \o <<>>
    BY <1>3
  <2> QED BY <2>2, <2>3, PlainParts
<1> QED BY <1>2, <1>3

LEMMA DownCases ==
  ASSUME TypeInv,
         \/ down' = down \/ down' = <<>>
         \/ down # <<>> /\ down' = Tail(down)
         \/ \E a \in Item \ {"CONNACK", "SUBACK"} : down' = down \o <<a>>
  PROVE  DownPlain
<1>1. down \in Seq(Item) /\ <<>> \in Seq(Item) /\ Unrelated(<<>>) /\ \A s \in Seq(Item) : s \o <<>> = s
  BY DueTyped, EmptySeq, ConcatEmptySeq, EmptyIsNo DEF Unrelated
<1>2. CASE down' = down
  <2>1. Thin(down, down) /\ down' = down \o <<>>
    BY <1>1, <1>2, ThinSelf
  <2> QED BY <1>1, <2>1 DEF DownPlain
<1>3. CASE down' = <<>>
  <2>1. Thin(<<>>, down) /\ down' = <<>> \o <<>>
    BY <1>1, <1>3, ThinSelf
  <2> QED BY <1>1, <2>1 DEF DownPlain
<1>4. CASE down # <<>> /\ down' = Tail(down)
  <2>1. Tail(down) \in Seq(Item) /\ Thin(Tail(down), down)
    BY <1>1, <1>4, ThinTail
  <2>2. down' = Tail(down) \o <<>>
    BY <1>1, <1>4, <2>1
  <2> QED BY <1>1, <2>1, <2>2 DEF DownPlain
<1>5. CASE \E a \in Item \ {"CONNACK", "SUBACK"} : down' = down \o <<a>>
  <2>1. PICK a \in Item \ {"CONNACK", "SUBACK"} : down' = down \o <<a>>
    BY <1>5
  <2>2. <<a>> \in Seq(Item) /\ Unrelated(<<a>>)
    BY <2>1, OneItem DEF Unrelated
  <2>3. Thin(down, down)
    BY <1>1, ThinSelf
  <2> QED BY <1>1, <2>1, <2>2, <2>3 DEF DownPlain
<1> QED BY <1>2, <1>3, <1>4, <1>5

\* Closing a link adds the texts that were on their way.
LEMMA CloseDown ==
  ASSUME NEW u, CipClose(u)
  PROVE  sock' = "closed" /\ (down' = down \/ down' = <<>>)
BY DEF CipClose

LEMMA RegDown ==
  ASSUME TypeInv, drv_esp8266_reg_process
  PROVE  /\ \/ down' = down \/ down' = <<>>
            \/ \E a \in {"CONNECT", "CLOSED"} : down' = down \o <<a>>
         /\ uart'.ipd = uart.ipd \/ uart'.ipd = <<>>
<1>1. uart'.ipd = uart.ipd \/ uart'.ipd = <<>>
  BY RegType DEF TypeInv, DriverAct
<1>2. CASE RegStart \/ RegInit \/ RegWifi \/ RegNetCfg
  BY <1>1, <1>2 DEF RegStart, RegInit, RegWifi, RegNetCfg, moduleVars
<1>3. CASE RegOk
  <2>1. CASE Connect
    <3>1. PICK a \in Text \cup {"none"}, l \in BOOLEAN :
            /\ l => a \in {"CONNECT", "CLOSED"}
            /\ down' = IF l THEN Append(down, a) ELSE down
      BY <2>1 DEF Connect
    <3>2. CASE l
      <4>1. a \in {"CONNECT", "CLOSED"} /\ a \in Item /\ down' = Append(down, a) /\ down \in Seq(Item)
        BY <3>1, <3>2, DueTyped DEF Item, Text
      <4> QED BY <1>1, <4>1, OneItem
    <3>3. CASE ~l
      BY <1>1, <3>1, <3>3
    <3> QED BY <3>2, <3>3
  <2>2. CASE ~Connect
    <3>1. down' = down \/ drv_esp8266_close(CipStatus(uart))
      BY <1>3, <2>2 DEF RegOk, drv_esp8266_connect_process
    <3> QED BY <1>1, <3>1, CloseDown DEF drv_esp8266_close
  <2> QED BY <2>1, <2>2
<1> QED BY <1>2, <1>3 DEF drv_esp8266_reg_process

LEMMA RecvDown ==
  ASSUME drv_esp8266_recv_process
  PROVE  /\ down' = down \/ down' = <<>>
         /\ RecvIpd \/ uart.ipd = <<>>
         /\ sock' = sock \/ sock' = "closed"
<1> USE DEF moduleVars
<1>1. CASE RecvIpd \/ RecvGotIp \/ RecvConnect \/ RecvOnline
  BY <1>1 DEF RecvIpd, RecvGotIp, RecvConnect, RecvOnline, Other
<1>2. CASE RecvClosed \/ RecvOffline
  BY <1>2, CloseDown DEF RecvClosed, RecvOffline, Other, drv_esp8266_close
<1> QED BY <1>1, <1>2 DEF drv_esp8266_recv_process

LEMMA ReceivePlain ==
  ASSUME TypeInv, Receive
  PROVE  Plain
<1>0. /\ rb \in Seq(Item) /\ uart.ipd \in Seq(Item) /\ rb \o uart.ipd \in Seq(Item)
      /\ Len(rb) \in Nat /\ Len(uart.ipd) \in Nat /\ RbSize \in Nat /\ Len(rb) <= RbSize
  BY DueTyped, TimesAssumption DEF TypeInv, BufferType
<1>1. drv_esp8266_recv_process /\ rb' = app_mqtt_put_data(rb, uart.ipd)
  BY DEF Receive
<1>2. down' = down \/ down' = <<>>
  BY <1>1, RecvDown
<1>3. DownPlain
  BY <1>2, DownCases
<1>4. CASE uart.ipd = <<>>
  <2>1. rb' = rb
    BY <1>4, NothingPut
  <2>2. uart'.ipd = uart.ipd \/ uart'.ipd = <<>>
    BY <1>1, RecvType DEF TypeInv, DriverAct
  <2> QED BY <1>3, <2>1, <2>2, PlainBuffer
<1>5. CASE uart.ipd # <<>>
  <2>1. uart'.ipd = <<>>
    BY <1>1, <1>5, RecvDown, SilenceIs DEF RecvIpd
  <2>2. CASE Len(rb) + Len(uart.ipd) <= RbSize
    <3>1. rb' \o uart'.ipd = rb \o uart.ipd
      <4>1. rb' = rb \o uart.ipd
        BY <1>1, <2>2 DEF app_mqtt_put_data
      <4> QED BY <1>0, <2>1, <4>1, ConcatEmptySeq
    <3> QED BY <1>0, <1>3, <3>1, ThinSelf, PlainParts
  <2>3. CASE ~(Len(rb) + Len(uart.ipd) <= RbSize)
    <3>1. PICK k : k = RbSize - Len(rb)
      OBVIOUS
    <3>2. k \in 0 .. Len(uart.ipd)
      BY <1>0, <2>3, <3>1
    <3>3. PICK s : s = SubSeq(uart.ipd, 1, k)
      OBVIOUS
    <3>4. s \in Seq(Item) /\ Thin(s, uart.ipd)
      BY <1>0, <3>2, <3>3, ThinFront
    <3>5. rb \o s \in Seq(Item) /\ Thin(rb \o s, rb \o uart.ipd)
      BY <1>0, <3>4, ThinSelf, ThinJoined
    <3>6. rb' = rb \o s
      BY <1>1, <2>3, <3>1, <3>3 DEF app_mqtt_put_data
    <3>7. rb' \o uart'.ipd = rb \o s
      BY <2>1, <3>5, <3>6, ConcatEmptySeq
    <3> QED BY <1>3, <3>5, <3>7, PlainParts
  <2> QED BY <2>2, <2>3
<1> QED BY <1>4, <1>5

-----------------------------------------------------------------------------
(* What the steps do to sessions and to what is due *)

SameKind == HasSession' => HasSession /\ broker' = broker

LEMMA SameSessionKind ==
  ASSUME SessionType, SameSession
  PROVE  SameKind
BY DEF SessionType, SameSession, SameKind, HasSession

LEMMA SendCases ==
  ASSUME TypeInv,
         NEW p \in {"CONNECT", "SUBSCRIBE", "UNSUBSCRIBE", "PINGREQ", "PUBLISH"}, Send(p)
  PROVE  \/ /\ DownPlain
            /\ HasSession' => HasSession /\ (broker' = broker \/ p = "UNSUBSCRIBE")
         \/ p = "CONNECT" /\ sock = "open" /\ down' = down \o <<"CONNACK">>
         \/ /\ p = "SUBSCRIBE" /\ sock = "open" /\ broker' = "subscribed"
            /\ down' = down \o <<"SUBACK">>
<1>0. down \in Seq(Item)
  BY DueTyped
<1>1. CASE Unheard /\ UNCHANGED <<broker, sock, down>>
  BY <1>1, DownCases DEF HasSession
<1>2. CASE BrokerCloses
  <2>1. "CLOSED" \in Item \ {"CONNACK", "SUBACK"} /\ down' = Append(down, "CLOSED") /\ ~HasSession'
    BY <1>2 DEF BrokerCloses, Item, Text, HasSession
  <2>2. down' = down \o <<"CLOSED">>
    BY <1>0, <2>1, OneItem
  <2> QED BY <2>1, <2>2, DownCases
<1>3. CASE ~Unheard /\ (p = "CONNECT") = (broker = "none") /\ Obey(p)
  <2>1. sock = "open" /\ (HasSession \/ p = "CONNECT")
    BY <1>3 DEF Unheard, HasSession
  <2>2. CASE p \in {"CONNECT", "SUBSCRIBE"}
    <3>1. /\ p = "CONNECT" => down' = Append(down, "CONNACK")
          /\ p = "SUBSCRIBE" => down' = Append(down, "SUBACK") /\ broker' = "subscribed"
      BY <1>3, <2>2 DEF Obey, Answers
    <3>2. "CONNACK" \in Item /\ "SUBACK" \in Item
      BY DEF Item, Packet
    <3> QED BY <1>0, <2>1, <2>2, <3>1, <3>2, OneItem
  <2>3. CASE p \notin {"CONNECT", "SUBSCRIBE"}
    <3>1. PICK a \in {"UNSUBACK", "PINGRESP", "PUBACK"} :
            down' = Append(down, a) /\ (broker' = broker \/ p = "UNSUBSCRIBE")
      BY <1>3, <2>3 DEF Obey, Answers
    <3>2. a \in Item \ {"CONNACK", "SUBACK"}
      BY DEF Item, Packet
    <3>3. down' = down \o <<a>>
      BY <1>0, <3>1, <3>2, OneItem
    <3> QED BY <2>1, <2>3, <3>1, <3>2, <3>3, DownCases
  <2> QED BY <2>2, <2>3
<1> QED BY <1>1, <1>2, <1>3 DEF Send

LEMMA SendPublish ==
  ASSUME TypeInv, Send("PUBLISH") \/ UNCHANGED <<broker, sock, down>>
  PROVE  DownPlain /\ SameKind
<1>1. CASE UNCHANGED <<broker, sock, down>>
  BY <1>1, DownCases DEF SameKind, HasSession
<1>2. CASE Send("PUBLISH")
  BY <1>2, SendCases DEF SameKind
<1> QED BY <1>1, <1>2

\* A round of the client: nothing new, a CONNECT, or a SUBSCRIBE.
MqttPlain ==
  /\ Plain
  /\ HasSession' => HasSession /\ (broker' = broker \/ dst_state = "UnSub")

MqttConnects ==
  ~is_connected /\ UNCHANGED mqttVars /\ sock = "open" /\ Due' = Due \o <<"CONNACK">>

MqttSubscribes ==
  /\ is_connected /\ sock = "open" /\ broker' = "subscribed"
  /\ \E e \in Seq(Item) : Due' = Due \o e /\ No(e, "CONNACK")

LEMMA MqttCases ==
  ASSUME TypeInv, MqttTurn
  PROVE  /\ MqttPlain \/ MqttConnects \/ MqttSubscribes
         /\ UNCHANGED <<is_connected, curr_state, lateAck>> \/ (~is_connected' /\ curr_state' = "Idel")
         /\ ~is_connected => UNCHANGED <<is_connected, curr_state, lateAck>>
         /\ sock # "open" => sock' = sock
         /\ UNCHANGED <<dst_state, stalls, state, uart>>
<1> USE DEF mqttVars, countVars
<1>0. /\ UNCHANGED <<rb, uart, dst_state, stalls, state>> /\ drv_mqtt_connect
      /\ NetType /\ SessionType /\ RestType
  BY DEF MqttTurn, TypeInv
<1>1. CASE ~is_connected
  <2>1. Send("CONNECT") /\ UNCHANGED mqttVars
    BY <1>0, <1>1 DEF drv_mqtt_connect
  <2>2. sock # "open" => sock' = sock
    BY <1>0, <2>1, SendType
  <2>3. CASE DownPlain /\ SameKind
    <3>1. Plain
      BY <1>0, <2>3, PlainBuffer
    <3> QED BY <1>0, <2>1, <2>2, <2>3, <3>1 DEF MqttPlain, SameKind
  <2>4. CASE sock = "open" /\ down' = down \o <<"CONNACK">>
    <3>1. "CONNACK" \in Item
      BY DEF Item, Packet
    <3>2. Due' = Due \o <<"CONNACK">>
      BY <1>0, <2>4, <3>1, OneItem, SentDue
    <3> QED BY <1>0, <1>1, <2>1, <2>2, <2>4, <3>2 DEF MqttConnects
  <2>5. (DownPlain /\ SameKind) \/ (sock = "open" /\ down' = down \o <<"CONNACK">>)
    BY <2>1, SendCases DEF SameKind
  <2> QED BY <2>3, <2>4, <2>5
<1>2. CASE is_connected
  <2> DEFINE all == Subscription \cup Ping
  <2>1. SendAll(all) /\ CheckAge
    BY <1>0, <1>2 DEF drv_mqtt_connect
  <2>2. UNCHANGED <<is_connected, curr_state, lateAck>> \/ (~is_connected' /\ curr_state' = "Idel")
    BY <2>1 DEF CheckAge, drv_mqtt_close
  <2>3. sock # "open" => sock' = sock
    BY <1>0, <2>1, SendAllType
  <2>4. /\ Subscription \subseteq {"SUBSCRIBE", "UNSUBSCRIBE"} /\ Ping \subseteq {"PINGREQ"}
        /\ "UNSUBSCRIBE" \in all => dst_state = "UnSub"
    BY <1>0 DEF Subscription, Ping, RestType
  <2> HIDE DEF all
  <2>5. ASSUME DownPlain, HasSession' => HasSession /\ (broker' = broker \/ dst_state = "UnSub")
        PROVE  MqttPlain
    BY <1>0, <2>5, PlainBuffer DEF MqttPlain
  <2>6. CASE all = {}
    <3>1. UNCHANGED <<broker, sock, down>>
      BY <2>1, <2>6 DEF SendAll
    <3>2. MqttPlain
      BY <2>5, <3>1, DownCases DEF HasSession
    <3> QED BY <1>0, <1>2, <2>2, <2>3, <3>2
  <2>7. CASE all # {} /\ \E p \in all : all = {p}
    <3>1. PICK p \in all : Send(p)
      BY <2>1, <2>7 DEF SendAll
    <3>2. p \in {"SUBSCRIBE", "UNSUBSCRIBE", "PINGREQ"}
      BY <2>4 DEF all
    <3>3. CASE /\ DownPlain
               /\ HasSession' => HasSession /\ (broker' = broker \/ p = "UNSUBSCRIBE")
      <4>1. MqttPlain
        BY <2>4, <2>5, <3>1, <3>3
      <4> QED BY <1>0, <1>2, <2>2, <2>3, <4>1
    <3>4. CASE sock = "open" /\ broker' = "subscribed" /\ down' = down \o <<"SUBACK">>
      <4>1. "SUBACK" \in Item
        BY DEF Item, Packet
      <4>2. <<"SUBACK">> \in Seq(Item) /\ No(<<"SUBACK">>, "CONNACK")
        BY <4>1, OneItem
      <4>3. Due' = Due \o <<"SUBACK">>
        BY <1>0, <3>4, <4>2, SentDue
      <4>4. MqttSubscribes
        BY <1>2, <3>4, <4>2, <4>3 DEF MqttSubscribes
      <4> QED BY <1>0, <1>2, <2>2, <2>3, <4>4
    <3> QED BY <3>1, <3>2, <3>3, <3>4, SendCases
  <2>8. CASE all # {} /\ ~\E p \in all : all = {p}
    <3>1. PICK s \in all \ {"PINGREQ"} : SendTwo(s, "PINGREQ")
      BY <2>1, <2>8 DEF SendAll
    <3>2. s \in {"SUBSCRIBE", "UNSUBSCRIBE"}
      BY <2>4 DEF all
    <3>3. CASE UNCHANGED <<broker, sock, down>>
      <4>1. MqttPlain
        BY <2>5, <3>3, DownCases DEF HasSession
      <4> QED BY <1>0, <1>2, <2>2, <2>3, <4>1
    <3>4. CASE BrokerCloses
      <4>1. "CLOSED" \in Item \ {"CONNACK", "SUBACK"} /\ down' = Append(down, "CLOSED") /\ ~HasSession'
        BY <3>4 DEF BrokerCloses, Item, Text, HasSession
      <4>2. down' = down \o <<"CLOSED">>
        BY <4>1, OneItem, DueTyped
      <4>3. MqttPlain
        BY <2>5, <4>1, <4>2, DownCases
      <4> QED BY <1>0, <1>2, <2>2, <2>3, <4>3
    <3>5. CASE /\ ~Unheard /\ broker # "none"
               /\ broker' = IF s = "SUBSCRIBE" THEN "subscribed" ELSE "session"
               /\ down' = down \o <<IF s = "SUBSCRIBE" THEN "SUBACK" ELSE "UNSUBACK", "PINGRESP">>
               /\ sock' = sock
      <4>1. sock = "open" /\ HasSession /\ HasSession'
        BY <3>5 DEF Unheard, HasSession
      <4>2. PICK a \in {"SUBACK", "UNSUBACK"} :
              /\ down' = down \o <<a, "PINGRESP">>
              /\ a = "SUBACK" <=> s = "SUBSCRIBE"
        BY <3>2, <3>5
      <4>3. /\ <<a, "PINGRESP">> \in Seq(Item) /\ Len(<<a, "PINGRESP">>) = 2
            /\ <<a, "PINGRESP">>[1] = a /\ <<a, "PINGRESP">>[2] = "PINGRESP"
        BY DEF Item, Packet
      <4>4. \A i \in 1 .. 2 : i = 1 \/ i = 2
        OBVIOUS
      <4>5. No(<<a, "PINGRESP">>, "CONNACK") /\ (a # "SUBACK" => No(<<a, "PINGRESP">>, "SUBACK"))
        BY <4>3, <4>4 DEF No
      <4>6. CASE s = "SUBSCRIBE"
        <5>1. Due' = Due \o <<a, "PINGRESP">>
          BY <1>0, <4>2, <4>3, SentDue
        <5>2. MqttSubscribes
          BY <1>2, <3>5, <4>1, <4>3, <4>5, <4>6, <5>1 DEF MqttSubscribes
        <5> QED BY <1>0, <1>2, <2>2, <2>3, <5>2
      <4>7. CASE s # "SUBSCRIBE"
        <5>1. dst_state = "UnSub"
          BY <2>4, <3>2, <4>7
        <5>2. Thin(down, down) /\ down \in Seq(Item)
          BY DueTyped, ThinSelf
        <5>3. DownPlain
          BY <4>2, <4>3, <4>5, <4>7, <5>2 DEF DownPlain, Unrelated
        <5>4. MqttPlain
          BY <2>5, <4>1, <5>1, <5>3
        <5> QED BY <1>0, <1>2, <2>2, <2>3, <5>4
      <4> QED BY <4>6, <4>7
    <3> QED BY <3>1, <3>3, <3>4, <3>5 DEF SendTwo
  <2> QED BY <2>6, <2>7, <2>8
<1> QED BY <1>1, <1>2

LEMMA WorldPlain ==
  ASSUME TypeInv, World(WorldStep)
  PROVE  /\ Plain /\ SameKind
         /\ UNCHANGED <<is_connected, curr_state, lateAck, dst_state, turn, stalls, state>>
         /\ sock' = sock \/ sock' = "closed" \/ sock = "open"
<1> USE DEF moduleVars, mqttVars
<1>1. /\ WorldStep /\ SameSession /\ rb' = rb
      /\ UNCHANGED <<is_connected, curr_state, lateAck, dst_state, turn, stalls>>
  BY DEF World
<1>2. SameKind
  BY <1>1, SameSessionKind DEF TypeInv
<1>3. WorldAct
  BY <1>1, WorldType DEF TypeInv, WorldStep
<1>4. state' = state
  BY <1>3 DEF WorldAct
<1>5. sock' = sock \/ sock' = "closed" \/ sock = "open"
  BY <1>1 DEF WorldStep, Arrive, WifiUp, WifiDown, CipClose, ModuleRestarts, LinkDies, BufferLost
<1>6. CASE Arrive /\ Head(down) \notin Text
  <2>1. Due' = Due \o <<>>
    <3>1. Due' = Due
      BY <1>1, <1>6, ArriveDue
    <3> QED BY <3>1, DueTyped, ConcatEmptySeq
  <2>2. Thin(Due, Due) /\ Due \in Seq(Item) /\ <<>> \in Seq(Item) /\ Unrelated(<<>>)
    BY DueTyped, ThinSelf, EmptySeq, EmptyIsNo DEF Unrelated
  <2>3. Plain
    BY <2>1, <2>2 DEF Plain
  <2> QED BY <1>1, <1>2, <1>4, <1>5, <2>3
<1>7. CASE ~(Arrive /\ Head(down) \notin Text)
  <2>1. uart'.ipd = uart.ipd \/ uart'.ipd = <<>>
    <3>1. CASE Arrive
      <4>1. uart' = Says(uart, Head(down))
        BY <1>7, <3>1 DEF Arrive
      <4> QED BY <4>1, SaidMore DEF TypeInv
    <3>2. CASE WifiUp
      BY <3>2, SaidMore DEF WifiUp, TypeInv
    <3>3. CASE WifiDown
      <4>1. CipClose(uart)
        BY <3>3 DEF WifiDown
      <4> QED BY <4>1, CipCloseType DEF TypeInv, DriverType
    <3>4. CASE ModuleRestarts \/ LinkDies \/ BufferLost
      BY <3>4, SilenceIs DEF ModuleRestarts, LinkDies, BufferLost
    <3> QED BY <1>1, <3>1, <3>2, <3>3, <3>4 DEF WorldStep
  <2>2. down' = down \/ down' = <<>> \/ (down # <<>> /\ down' = Tail(down))
    BY <1>1, CloseDown DEF WorldStep, Arrive, WifiUp, WifiDown, ModuleRestarts, LinkDies, BufferLost
  <2>3. Plain
    BY <1>1, <2>1, <2>2, DownCases, PlainBuffer
  <2> QED BY <1>1, <1>2, <1>4, <1>5, <2>3
<1> QED BY <1>6, <1>7

-----------------------------------------------------------------------------
(* Steps that leave the client and the session as they are, or close one *)

Ordinary ==
  /\ Plain
  /\ dst_state' = dst_state \/ dst_state' = "UnSub"
  /\ HasSession' => HasSession /\ (broker' = broker \/ dst_state = "UnSub")
  /\ \/ UNCHANGED <<is_connected, curr_state, lateAck>>
     \/ ~is_connected' /\ curr_state' = "Idel"

LEMMA OrdinaryKeeps ==
  ASSUME TypeInv, Ordinary
  PROVE  /\ AcksFirst => AcksFirst'
         /\ Known => Known'
         /\ AsSubscribed => AsSubscribed'
<1>1. /\ No(Due, "SUBACK") => No(Due', "SUBACK")
      /\ AcksFirst => AcksFirst'
  BY PlainKeeps DEF Ordinary
<1>2. Known => Known'
  BY DEF Ordinary, Known
<1>3. ASSUME AsSubscribed, HasSession', dst_state' = "Sub"
      PROVE  /\ curr_state' = "Sub" /\ ~lateAck' => broker' = "subscribed"
             /\ is_connected' /\ ~No(Due', "SUBACK") => broker' = "subscribed"
  <2>1. HasSession /\ dst_state = "Sub" /\ broker' = broker
    BY <1>3 DEF Ordinary
  <2>2. CASE UNCHANGED <<is_connected, curr_state, lateAck>>
    BY <1>1, <1>3, <2>1, <2>2 DEF AsSubscribed
  <2>3. CASE ~is_connected' /\ curr_state' = "Idel"
    BY <2>3
  <2> QED BY <2>2, <2>3 DEF Ordinary
<1>4. AsSubscribed => AsSubscribed'
  BY <1>3 DEF AsSubscribed
<1> QED BY <1>1, <1>2, <1>4

TimerStep == turn' = turn \/ (turn = "reg" /\ turn' = "mqtt") \/ turn' \in {"status", "idle"}

LEMMA PlainAnswered ==
  ASSUME TypeInv, Plain, Answered, stalls' = stalls, TimerStep, is_connected' => is_connected
  PROVE  Answered'
<1>1. /\ No(Due, "CONNACK") => No(Due', "CONNACK")
      /\ Once(Due, "CONNACK") => Once(Due', "CONNACK")
  BY PlainKeeps
<1> QED BY <1>1 DEF Answered, TimerStep

LEMMA OrdinarySteps ==
  ASSUME TypeInv,
         \/ RegTurn \/ StatusTurn \/ Receive \/ Unsub \/ MessageOfApp
         \/ World(WorldStep) \/ BrokerDrops \/ BrokerRefuses
         \/ UNCHANGED vars
  PROVE  Ordinary /\ stalls' = stalls /\ TimerStep /\ (is_connected' => is_connected)
<1> USE DEF mqttVars, countVars, espVars, moduleVars
<1>0. down \in Seq(Item) /\ SessionType
  BY DueTyped DEF TypeInv
<1>1. CASE RegTurn
  <2>1. /\ drv_esp8266_reg_process /\ SameSession /\ rb' = rb /\ turn = "reg" /\ turn' = "mqtt"
        /\ UNCHANGED <<is_connected, curr_state, lateAck, dst_state, stalls>>
    BY <1>1 DEF RegTurn
  <2>2. "CONNECT" \in Item \ {"CONNACK", "SUBACK"} /\ "CLOSED" \in Item \ {"CONNACK", "SUBACK"}
    BY DEF Item, Text
  <2>3. DownPlain
    BY <2>1, <2>2, RegDown, DownCases
  <2>4. Plain
    BY <2>1, <2>3, RegDown, PlainBuffer
  <2>5. SameKind
    BY <1>0, <2>1, SameSessionKind
  <2> QED BY <2>1, <2>4, <2>5 DEF Ordinary, TimerStep, SameKind
<1>2. CASE StatusTurn
  <2>1. /\ Send("PUBLISH") \/ UNCHANGED <<broker, sock, down>>
        /\ turn' = "idle" /\ UNCHANGED <<rb, uart>>
        /\ UNCHANGED <<is_connected, curr_state, lateAck, dst_state, stalls>>
    BY <1>2 DEF StatusTurn
  <2>2. DownPlain /\ SameKind
    BY <2>1, SendPublish
  <2>3. Plain
    BY <2>1, <2>2, PlainBuffer
  <2> QED BY <2>1, <2>2, <2>3 DEF Ordinary, TimerStep, SameKind
<1>3. CASE Receive
  <2>1. /\ SameSession /\ turn' = turn
        /\ UNCHANGED <<is_connected, curr_state, lateAck, dst_state, stalls>>
    BY <1>3 DEF Receive
  <2>2. Plain /\ SameKind
    BY <1>0, <1>3, <2>1, ReceivePlain, SameSessionKind
  <2> QED BY <2>1, <2>2 DEF Ordinary, TimerStep, SameKind
<1>4. CASE Unsub
  <2>1. /\ UNCHANGED <<rb, uart, down, sock, broker, turn>> /\ dst_state' = "UnSub"
        /\ UNCHANGED <<is_connected, curr_state, lateAck, stalls>>
    BY <1>4 DEF Unsub
  <2>2. Plain
    BY <2>1, DownCases, PlainBuffer
  <2> QED BY <2>1, <2>2 DEF Ordinary, TimerStep, HasSession
<1>5. CASE MessageOfApp
  <2>1. /\ down' = <<"PUBLISH">> /\ UNCHANGED <<sock, broker, rb, uart, turn>>
        /\ UNCHANGED <<is_connected, curr_state, lateAck, dst_state, stalls>>
        /\ down = <<>>
    BY <1>5 DEF MessageOfApp, Quiet
  <2>2. "PUBLISH" \in Item \ {"CONNACK", "SUBACK"}
    BY DEF Item, Packet
  <2>3. down' = down \o <<"PUBLISH">>
    <3>1. <<"PUBLISH">> \in Seq(Item)
      BY <2>2, OneItem
    <3> QED BY <2>1, <3>1, ConcatEmptySeq
  <2>4. DownPlain
    BY <2>2, <2>3, DownCases
  <2>5. Plain
    BY <2>1, <2>4, PlainBuffer
  <2> QED BY <2>1, <2>5 DEF Ordinary, TimerStep, HasSession
<1>6. CASE World(WorldStep)
  BY <1>6, WorldPlain DEF Ordinary, TimerStep, SameKind
<1>7. CASE BrokerDrops
  <2>1. /\ BrokerCloses /\ UNCHANGED <<rb, uart, turn>>
        /\ UNCHANGED <<is_connected, curr_state, lateAck, dst_state, stalls>>
    BY <1>7 DEF BrokerDrops
  <2>2. "CLOSED" \in Item \ {"CONNACK", "SUBACK"} /\ down' = Append(down, "CLOSED") /\ ~HasSession'
    BY <2>1 DEF BrokerCloses, Item, Text, HasSession
  <2>3. down' = down \o <<"CLOSED">>
    BY <1>0, <2>2, OneItem
  <2>4. DownPlain
    BY <2>2, <2>3, DownCases
  <2>5. Plain
    BY <2>1, <2>4, PlainBuffer
  <2> QED BY <2>1, <2>2, <2>5 DEF Ordinary, TimerStep
<1>8. CASE BrokerRefuses
  <2>1. /\ down # <<>> /\ down' = SubSeq(down, 1, Len(down) - 1) \o <<"REFUSED", "CLOSED">>
        /\ broker' = "none" /\ UNCHANGED <<rb, uart, turn>>
        /\ UNCHANGED <<is_connected, curr_state, lateAck, dst_state, stalls>>
    BY <1>8 DEF BrokerRefuses
  <2>2. Len(down) - 1 \in 0 .. Len(down)
    BY <1>0, <2>1
  <2>3. PICK w : w = SubSeq(down, 1, Len(down) - 1)
    OBVIOUS
  <2>4. w \in Seq(Item) /\ Thin(w, down)
    BY <1>0, <2>2, <2>3, ThinFront
  <2>5. /\ <<"REFUSED", "CLOSED">> \in Seq(Item) /\ Len(<<"REFUSED", "CLOSED">>) = 2
        /\ <<"REFUSED", "CLOSED">>[1] = "REFUSED" /\ <<"REFUSED", "CLOSED">>[2] = "CLOSED"
    BY DEF Item, Packet, Text
  <2>6. \A i \in 1 .. 2 : i = 1 \/ i = 2
    OBVIOUS
  <2>7. Unrelated(<<"REFUSED", "CLOSED">>)
    BY <2>5, <2>6 DEF Unrelated, No
  <2>8. DownPlain
    BY <2>1, <2>3, <2>4, <2>5, <2>7 DEF DownPlain
  <2>9. Plain
    BY <2>1, <2>8, PlainBuffer
  <2> QED BY <2>1, <2>9 DEF Ordinary, TimerStep, HasSession
<1>9. CASE UNCHANGED vars
  <2>1. /\ UNCHANGED <<sock, broker, rb, uart, down, turn>>
        /\ UNCHANGED <<is_connected, curr_state, lateAck, dst_state, stalls>>
    BY <1>9 DEF vars
  <2>2. Plain
    BY <2>1, DownCases, PlainBuffer
  <2> QED BY <2>1, <2>2 DEF Ordinary, TimerStep, HasSession
<1> QED BY <1>1, <1>2, <1>3, <1>4, <1>5, <1>6, <1>7, <1>8, <1>9

-----------------------------------------------------------------------------
(* The steps that change what the client knows *)

LEMMA HeadGone ==
  ASSUME NEW d \in Seq(Item), d # <<>>, NEW q
  PROVE  /\ Once(d, d[1]) => No(Tail(d), d[1])
         /\ NotBefore(d, d[1], q) => No(Tail(d), q)
<1>1. /\ Len(d) \in Nat \ {0} /\ Len(Tail(d)) = Len(d) - 1
      /\ \A j \in 1 .. Len(d) - 1 : Tail(d)[j] = d[j + 1]
  BY Tailed
<1>2. 1 \in 1 .. Len(d) /\ \A j \in 1 .. Len(Tail(d)) :
        j + 1 \in 1 .. Len(d) /\ j + 1 > 1 /\ j + 1 # 1 /\ ~(j + 1 <= 1) /\ Tail(d)[j] = d[j + 1]
  BY <1>1
<1>3. Once(d, d[1]) => No(Tail(d), d[1])
  BY <1>2 DEF Once, No
<1>4. NotBefore(d, d[1], q) => No(Tail(d), q)
  BY <1>2 DEF NotBefore, No
<1> QED BY <1>3, <1>4

LEMMA CheckPlain ==
  ASSUME TypeInv, drv_mqtt_recv_check
  PROVE  /\ Plain /\ SameKind
         /\ UNCHANGED <<state, conn_state, uart, dst_state, turn, stalls>>
         /\ sock # "open" => sock' = sock
<1> USE DEF mqttVars, countVars
<1>1. /\ rb # <<>> /\ rb' = Tail(rb)
      /\ UNCHANGED <<state, conn_state, uart, dst_state, turn, stalls>>
      /\ Connack \/ Refused \/ Ack("SUBACK", "Sub") \/ Ack("UNSUBACK", "UnSub")
         \/ Publish \/ Pingresp \/ Puback
  BY DEF drv_mqtt_recv_check
<1>2. Send("PUBLISH") \/ UNCHANGED <<broker, sock, down>>
  BY <1>1 DEF Connack, Refused, Ack, Publish, Pingresp, Puback
<1>3. DownPlain /\ SameKind
  BY <1>2, SendPublish
<1>4. sock # "open" => sock' = sock
  BY <1>2, SendType DEF TypeInv
<1>5. rb \in Seq(Item) /\ uart.ipd \in Seq(Item)
  BY DueTyped
<1>6. Tail(rb) \in Seq(Item) /\ Thin(Tail(rb), rb)
  BY <1>1, <1>5, ThinTail
<1>7. Tail(rb) \o uart.ipd \in Seq(Item) /\ Thin(Tail(rb) \o uart.ipd, rb \o uart.ipd)
  BY <1>5, <1>6, ThinSelf, ThinJoined
<1>8. Plain
  BY <1>1, <1>3, <1>7, PlainParts
<1> QED BY <1>1, <1>3, <1>4, <1>8

LEMMA CheckKeeps ==
  ASSUME TypeInv, AcksFirst, Known, AsSubscribed, drv_mqtt_recv_check
  PROVE  AcksFirst' /\ Known' /\ AsSubscribed' /\ (Answered => Answered')
<1> USE DEF mqttVars
<1>0. Plain /\ SameKind /\ UNCHANGED <<dst_state, turn, stalls>>
  BY CheckPlain
<1>1. /\ rb # <<>> /\ rb' = Tail(rb) /\ uart' = uart
      /\ Connack \/ Refused \/ Ack("SUBACK", "Sub") \/ Ack("UNSUBACK", "UnSub")
         \/ Publish \/ Pingresp \/ Puback
  BY DEF drv_mqtt_recv_check
<1>2. Due \in Seq(Item) /\ Due # <<>> /\ Due[1] = Head(rb) /\ Tail(rb) \o uart.ipd \o down = Tail(Due)
  BY <1>1, DueTyped, FirstDue
<1>3. /\ \A p \in {"CONNACK", "SUBACK"} : No(Due, p) => No(Due', p)
      /\ AcksFirst'
  BY <1>0, PlainKeeps
<1>4. CASE UNCHANGED <<is_connected, curr_state, lateAck>> \/ (~is_connected' /\ curr_state' = "Idel")
  <2>1. CASE is_connected' => is_connected
    <3>1. Ordinary
      BY <1>0, <1>4 DEF Ordinary, SameKind
    <3> QED BY <1>0, <2>1, <3>1, OrdinaryKeeps, PlainAnswered DEF TimerStep
  <2>2. CASE ~(is_connected' => is_connected)
    BY <1>4, <2>2
  <2> QED BY <2>1, <2>2
<1>5. CASE Connack
  <2>1. /\ Due[1] = "CONNACK" /\ is_connected' = TRUE
        /\ UNCHANGED <<curr_state, lateAck, broker, sock, down>>
    BY <1>2, <1>5 DEF Connack
  <2>2. Due' = Tail(Due)
    BY <1>1, <1>2, <2>1 DEF Due
  <2>3. No(Due', "SUBACK") /\ (Once(Due, "CONNACK") => No(Due', "CONNACK"))
    BY <1>2, <2>1, <2>2, HeadGone DEF AcksFirst
  <2>4. Known' /\ AsSubscribed'
    BY <1>0, <2>1, <2>3 DEF Known, AsSubscribed, HasSession
  <2>5. Once(Due, "CONNACK") => Once(Due', "CONNACK")
    BY <1>0, PlainKeeps
  <2>6. Answered => Answered'
    BY <1>0, <1>3, <2>3, <2>5 DEF Answered
  <2> QED BY <1>3, <2>4, <2>6
<1>6. CASE Ack("SUBACK", "Sub")
  <2>1. /\ Due[1] = "SUBACK" /\ lateAck' = (lateAck \/ ~is_connected)
        /\ UNCHANGED <<is_connected, broker, sock>>
    BY <1>2, <1>6 DEF Ack
  <2>2. ~No(Due, "SUBACK")
    <3>1. 1 \in 1 .. Len(Due)
      BY <1>2
    <3> QED BY <2>1, <3>1 DEF No
  <2>3. Known'
    BY <2>1 DEF Known
  <2>4. AsSubscribed'
    BY <1>0, <2>1, <2>2 DEF AsSubscribed, HasSession
  <2>5. Answered => Answered'
    BY <1>0, <2>1, PlainAnswered DEF TimerStep
  <2> QED BY <1>3, <2>3, <2>4, <2>5
<1>7. CASE Ack("UNSUBACK", "UnSub")
  <2>1. /\ curr_state' = "UnSub" /\ lateAck' = (lateAck \/ ~is_connected)
        /\ UNCHANGED <<is_connected, broker, sock>>
    BY <1>7 DEF Ack
  <2>2. Known'
    BY <2>1 DEF Known
  <2>3. AsSubscribed'
    BY <1>0, <1>3, <2>1 DEF AsSubscribed, HasSession
  <2>4. Answered => Answered'
    BY <1>0, <2>1, PlainAnswered DEF TimerStep
  <2> QED BY <1>3, <2>2, <2>3, <2>4
<1>8. CASE Refused \/ Publish \/ Pingresp \/ Puback
  <2>1. Refused => ~is_connected' /\ curr_state' = "Idel"
    BY DEF Refused, drv_mqtt_close
  <2>2. Publish \/ Pingresp \/ Puback => UNCHANGED <<is_connected, curr_state, lateAck>>
    BY DEF Publish, Pingresp, Puback
  <2> QED BY <1>4, <1>8, <2>1, <2>2
<1> QED BY <1>1, <1>5, <1>6, <1>7, <1>8

LEMMA MqttKeeps ==
  ASSUME TypeInv, AcksFirst, Known, AsSubscribed, MqttTurn, sock = "open" => Answered
  PROVE  AcksFirst' /\ Known' /\ AsSubscribed' /\ (Answered => Answered')
<1>1. /\ MqttPlain \/ MqttConnects \/ MqttSubscribes
      /\ UNCHANGED <<is_connected, curr_state, lateAck>> \/ (~is_connected' /\ curr_state' = "Idel")
      /\ UNCHANGED <<dst_state, stalls>>
      /\ turn = "mqtt" /\ turn' = "status"
      /\ Due \in Seq(Item)
  BY MqttCases, DeviceKeeps, DueTyped
<1>2. Known'
  BY <1>1 DEF Known
<1>3. CASE MqttPlain
  <2>1. Ordinary /\ (is_connected' => is_connected)
    BY <1>1, <1>3 DEF MqttPlain, Ordinary
  <2> QED BY <1>1, <2>1, OrdinaryKeeps, PlainAnswered DEF TimerStep, Ordinary
<1>4. CASE MqttConnects
  <2>1. /\ ~is_connected /\ UNCHANGED <<is_connected, curr_state, lateAck>> /\ Answered
        /\ Due' = Due \o <<"CONNACK">>
    BY <1>4 DEF MqttConnects, mqttVars
  <2>2. <<"CONNACK">> \in Seq(Item) /\ Len(<<"CONNACK">>) = 1 /\ No(<<"CONNACK">>, "SUBACK")
    <3>1. "CONNACK" \in Item
      BY DEF Item, Packet
    <3> QED BY <3>1, OneItem
  <2>3. /\ NotBefore(Due \o <<"CONNACK">>, "CONNACK", "SUBACK")
        /\ No(Due, "CONNACK") => Once(Due \o <<"CONNACK">>, "CONNACK")
    BY <1>1, <2>2, MoreKeeps DEF AcksFirst
  <2>4. AcksFirst'
    BY <2>1, <2>3 DEF AcksFirst
  <2>5. Answered'
    BY <1>1, <2>1, <2>3 DEF Answered
  <2>6. AsSubscribed'
    BY <2>1 DEF Known, AsSubscribed
  <2> QED BY <1>2, <2>4, <2>5, <2>6
<1>5. CASE MqttSubscribes
  <2>1. PICK e \in Seq(Item) : Due' = Due \o e /\ No(e, "CONNACK")
    BY <1>5 DEF MqttSubscribes
  <2>2. is_connected /\ Answered /\ broker' = "subscribed"
    BY <1>5 DEF MqttSubscribes
  <2>3. No(Due, "CONNACK")
    BY <1>1, <2>2 DEF Answered
  <2>4. No(Due \o e, "CONNACK")
    BY <1>1, <2>1, <2>3, MoreKeeps
  <2>5. No(Due', "CONNACK")
    BY <2>1, <2>4
  <2>6. AcksFirst' /\ Answered'
    BY <1>1, <2>5 DEF AcksFirst, NotBefore, Answered, No, Once
  <2>7. AsSubscribed'
    BY <2>2 DEF AsSubscribed
  <2> QED BY <1>2, <2>6, <2>7
<1> QED BY <1>1, <1>3, <1>4, <1>5

LEMMA TickKeeps ==
  ASSUME TypeInv, AtMostOneLate, AcksFirst, Known, AsSubscribed, Tick,
         state = "START" => turn = "reg"
  PROVE  /\ AcksFirst' /\ Known' /\ AsSubscribed'
         /\ Booting \/ Answered => Booting' \/ Answered'
<1> USE DEF mqttVars, espVars, moduleVars
<1>1. /\ turn = "idle" /\ turn' = "reg" /\ EspTick
      /\ UNCHANGED <<is_connected, curr_state, lateAck, dst_state, rb, broker>>
      /\ \/ Quiet /\ stalls' = stalls
         \/ ~Quiet /\ stalls < MaxStalls /\ stalls' = stalls + 1
  BY DEF Tick
<1>2. UNCHANGED <<state, uart, sock, down>>
  BY <1>1 DEF EspTick
<1>3. Plain /\ Due' = Due
  BY <1>1, <1>2, DownCases, PlainBuffer DEF Due
<1>4. Ordinary
  BY <1>1, <1>2, <1>3 DEF Ordinary, HasSession
<1>5. AcksFirst' /\ Known' /\ AsSubscribed'
  BY <1>4, OrdinaryKeeps
<1>6. CASE Quiet
  <2>1. Due = <<>>
    BY <1>6, SilenceIs, DueTyped DEF Quiet
  <2>2. No(Due', "CONNACK")
    BY <1>3, <2>1, EmptyIsNo
  <2>3. Answered'
    BY <2>2 DEF Answered, No, Once
  <2> QED BY <1>5, <2>3
<1>7. CASE stalls < MaxStalls /\ stalls' = stalls + 1
  <2>1. stalls = 0 /\ stalls' = 1
    <3>1. MaxStalls \in Nat /\ stalls \in Nat /\ MaxStalls <= 1
      BY TimesAssumption DEF TypeInv, RestType, AtMostOneLate
    <3> QED BY <1>7, <3>1
  <2>2. CASE Booting
    <3>1. state = "INIT" /\ sock = "closed"
      BY <1>1, <2>1, <2>2 DEF Booting
    <3>2. Booting'
      BY <1>2, <2>1, <3>1 DEF Booting
    <3> QED BY <1>5, <3>2
  <2>3. CASE Answered
    <3>1. Once(Due, "CONNACK") /\ (is_connected => No(Due, "CONNACK"))
      BY <2>1, <2>3 DEF Answered
    <3>2. Answered'
      BY <1>1, <1>3, <2>1, <3>1 DEF Answered
    <3> QED BY <1>5, <3>2
  <2> QED BY <1>5, <2>2, <2>3
<1> QED BY <1>1, <1>6, <1>7

LEMMA RestartForgets ==
  ASSUME TypeInv, AcksFirst, Unasked, Restart
  PROVE  /\ state' = "START" /\ turn' = "reg"
         /\ Unasked' /\ Booting' /\ AcksFirst' /\ Known' /\ AsSubscribed'
<1> USE DEF moduleVars
<1>1. /\ state' = "START" /\ uart' = Silence /\ UNCHANGED down /\ turn' = "reg"
      /\ is_connected' = FALSE /\ curr_state' = "Idel" /\ rb' = <<>>
  BY DEF Restart, DeviceRestarts
<1>2. rb \o uart.ipd \in Seq(Item) /\ <<>> \in Seq(Item)
  BY DueTyped, EmptySeq
<1>3. Thin(<<>>, rb \o uart.ipd)
  BY <1>2, ThinSelf
<1>4. rb' \o uart'.ipd = <<>>
  BY <1>1, <1>2, SilenceIs, ConcatEmptySeq
<1>5. Plain
  BY <1>1, <1>2, <1>3, <1>4, DownCases, PlainParts
<1>6. AcksFirst'
  BY <1>5, PlainKeeps
<1>7. Unasked'
  BY <1>1, SilenceIs DEF Unasked
<1> QED BY <1>1, <1>6, <1>7 DEF Booting, Known, AsSubscribed

-----------------------------------------------------------------------------
(* The module does not report its state before it is asked *)

Quietly == No(down, "STATUS5") => No(down', "STATUS5")

LEMMA QuietCases ==
  ASSUME NetType,
         \/ UNCHANGED down \/ down' = <<>>
         \/ down # <<>> /\ down' = Tail(down)
         \/ \E e \in Seq(Item) : down' = down \o e /\ No(e, "STATUS5")
  PROVE  Quietly
<1>0. down \in Seq(Item)
  BY DEF NetType
<1>1. CASE UNCHANGED down \/ down' = <<>>
  BY <1>1, EmptyIsNo DEF Quietly
<1>2. CASE down # <<>> /\ down' = Tail(down)
  <2>1. Tail(down) \in Seq(Item) /\ Thin(Tail(down), down)
    BY <1>0, <1>2, ThinTail
  <2>2. No(down, "STATUS5") => No(Tail(down), "STATUS5")
    BY <1>0, <2>1, ThinKeeps
  <2> QED BY <1>2, <2>2 DEF Quietly
<1>3. CASE \E e \in Seq(Item) : down' = down \o e /\ No(e, "STATUS5")
  <2>1. PICK e \in Seq(Item) : down' = down \o e /\ No(e, "STATUS5")
    BY <1>3
  <2>2. No(down, "STATUS5") => No(down \o e, "STATUS5")
    BY <1>0, <2>1, MoreKeeps
  <2> QED BY <2>1, <2>2 DEF Quietly
<1> QED BY <1>1, <1>2, <1>3

LEMMA QuietOne ==
  ASSUME NetType, NEW a \in Item \ {"STATUS5"}, down' = Append(down, a)
  PROVE  Quietly
<1>1. /\ <<a>> \in Seq(Item) /\ No(<<a>>, "STATUS5")
      /\ \A d \in Seq(Item) : Append(d, a) = d \o <<a>>
  BY OneItem
<1> QED BY <1>1, QuietCases DEF NetType

LEMMA SendQuietly ==
  ASSUME NetType,
         NEW p \in {"CONNECT", "SUBSCRIBE", "UNSUBSCRIBE", "PINGREQ", "PUBLISH"}, Send(p)
  PROVE  Quietly
<1>1. CASE UNCHANGED <<broker, sock, down>>
  BY <1>1, QuietCases
<1>2. CASE BrokerCloses
  <2>1. "CLOSED" \in Item \ {"STATUS5"} /\ down' = Append(down, "CLOSED")
    BY <1>2 DEF BrokerCloses, Item, Text
  <2> QED BY <2>1, QuietOne
<1>3. CASE Obey(p)
  <2>1. PICK q \in Packet : down' = Append(down, q)
    BY <1>3 DEF Obey, Answers, Packet
  <2>2. q \in Item \ {"STATUS5"}
    BY DEF Item, Packet
  <2> QED BY <2>1, <2>2, QuietOne
<1> QED BY <1>1, <1>2, <1>3 DEF Send

LEMMA SendAllQuietly ==
  ASSUME NetType, SendAll(Subscription \cup Ping)
  PROVE  Quietly
<1> DEFINE all == Subscription \cup Ping
<1>1. Subscription \subseteq {"SUBSCRIBE", "UNSUBSCRIBE"} /\ Ping \subseteq {"PINGREQ"}
  BY DEF Subscription, Ping
<1>2. CASE all = {}
  <2>1. UNCHANGED <<broker, sock, down>>
    BY <1>2 DEF SendAll
  <2> QED BY <2>1, QuietCases
<1>3. CASE all # {} /\ \E p \in all : all = {p}
  <2>1. PICK p \in all : Send(p)
    BY <1>3 DEF SendAll
  <2>2. p \in {"SUBSCRIBE", "UNSUBSCRIBE", "PINGREQ"}
    BY <1>1
  <2> QED BY <2>1, <2>2, SendQuietly
<1>4. CASE all # {} /\ ~\E p \in all : all = {p}
  <2>1. PICK s \in all \ {"PINGREQ"} : SendTwo(s, "PINGREQ")
    BY <1>4 DEF SendAll
  <2>2. CASE UNCHANGED <<broker, sock, down>>
    BY <2>2, QuietCases
  <2>3. CASE BrokerCloses
    <3>1. "CLOSED" \in Item \ {"STATUS5"} /\ down' = Append(down, "CLOSED")
      BY <2>3 DEF BrokerCloses, Item, Text
    <3> QED BY <3>1, QuietOne
  <2>4. CASE \E a \in {"SUBACK", "UNSUBACK"} : down' = down \o <<a, "PINGRESP">>
    <3>1. PICK a \in {"SUBACK", "UNSUBACK"} : down' = down \o <<a, "PINGRESP">>
      BY <2>4
    <3>2. /\ <<a, "PINGRESP">> \in Seq(Item) /\ Len(<<a, "PINGRESP">>) = 2
          /\ <<a, "PINGRESP">>[1] = a /\ <<a, "PINGRESP">>[2] = "PINGRESP"
      BY DEF Item, Packet
    <3>3. \A i \in 1 .. 2 : i = 1 \/ i = 2
      OBVIOUS
    <3>4. No(<<a, "PINGRESP">>, "STATUS5")
      BY <3>2, <3>3 DEF No
    <3> QED BY <3>1, <3>2, <3>4, QuietCases
  <2> QED BY <2>1, <2>2, <2>3, <2>4 DEF SendTwo
<1> QED BY <1>2, <1>3, <1>4

LEMMA DeviceQuietly ==
  ASSUME TypeInv,
         RegTurn \/ MqttTurn \/ StatusTurn \/ Receive \/ drv_mqtt_recv_check
  PROVE  Quietly
<1> USE DEF mqttVars
<1>1. CASE RegTurn
  <2>1. CASE down' = down \/ down' = <<>>
    BY <2>1, QuietCases DEF TypeInv
  <2>2. CASE \E a \in {"CONNECT", "CLOSED"} : down' = down \o <<a>>
    <3>1. PICK a \in {"CONNECT", "CLOSED"} : down' = down \o <<a>>
      BY <2>2
    <3>2. a \in Item /\ a # "STATUS5"
      BY DEF Item, Text
    <3>3. <<a>> \in Seq(Item) /\ No(<<a>>, "STATUS5")
      BY <3>2, OneItem
    <3> QED BY <3>1, <3>3, QuietCases DEF TypeInv
  <2>3. drv_esp8266_reg_process
    BY <1>1 DEF RegTurn
  <2> QED BY <2>1, <2>2, <2>3, RegDown
<1>2. CASE MqttTurn
  BY <1>2, SendQuietly, SendAllQuietly DEF MqttTurn, drv_mqtt_connect, TypeInv
<1>3. CASE StatusTurn \/ drv_mqtt_recv_check
  <2>1. Send("PUBLISH") \/ UNCHANGED <<broker, sock, down>>
    <3>1. CASE StatusTurn
      BY <3>1 DEF StatusTurn
    <3>2. CASE drv_mqtt_recv_check
      BY <3>2 DEF drv_mqtt_recv_check, Connack, Refused, Ack, Publish, Pingresp, Puback
    <3> QED BY <1>3, <3>1, <3>2
  <2> QED BY <2>1, SendQuietly, QuietCases DEF TypeInv
<1>4. CASE Receive
  <2>1. down' = down \/ down' = <<>>
    BY <1>4, RecvDown DEF Receive
  <2> QED BY <2>1, QuietCases DEF TypeInv
<1> QED BY <1>1, <1>2, <1>3, <1>4

\* What drv_esp8266_close hears is what was on its way.
LEMMA CloseHears ==
  ASSUME NEW u \in [ipd : Seq(Packet), said : SUBSET Text], NEW v, CipClose(u), uart' = v,
         No(down, "STATUS5"), "STATUS5" \notin u.said
  PROVE  "STATUS5" \notin v.said
<1>1. "STATUS5" \notin TextsOf(down)
  BY DEF TextsOf, No
<1>2. CASE sock = "closed"
  BY <1>2 DEF CipClose
<1>3. CASE sock # "closed"
  <2>1. v = [u EXCEPT !.said = @ \cup TextsOf(down) \cup {"CLOSED"}]
    BY <1>3 DEF CipClose
  <2>2. v.said = u.said \cup TextsOf(down) \cup {"CLOSED"}
    BY <2>1
  <2> QED BY <1>1, <2>2
<1> QED BY <1>2, <1>3

LEMMA UnaskedNext ==
  ASSUME TypeInv, Unasked, [Next]_vars, AcksFirst
  PROVE  Unasked'
<1> USE DEF moduleVars, mqttVars, espVars
<1>0. /\ DriverType /\ NetType /\ uart \in [ipd : Seq(Packet), said : SUBSET Text]
      /\ No(down, "STATUS5")
  BY DEF TypeInv, DriverType, Unasked
<1>1. CASE RegTurn
  <2>1. drv_esp8266_reg_process
    BY <1>1 DEF RegTurn
  <2>2. Quietly
    BY <1>1, DeviceQuietly
  <2>3. CASE RegStart
    <3>1. "STATUS5" \notin uart'.said
      BY <1>0, <2>3, SaidMore DEF RegStart, Unasked
    <3> QED BY <1>0, <2>2, <3>1 DEF Quietly, Unasked
  <2>4. CASE ~RegStart
    <3>1. state' \notin {"START", "INIT"}
      BY <2>1, <2>4 DEF drv_esp8266_reg_process, RegInit, RegWifi, RegNetCfg, RegOk
    <3> QED BY <1>0, <2>2, <3>1 DEF Quietly, Unasked
  <2> QED BY <2>3, <2>4
<1>2. CASE MqttTurn \/ StatusTurn \/ drv_mqtt_recv_check
  <2>1. UNCHANGED <<state, uart>>
    BY <1>2, DeviceKeeps
  <2>2. Quietly
    BY <1>2, DeviceQuietly
  <2> QED BY <2>1, <2>2 DEF Quietly, Unasked
<1>3. CASE Receive
  <2>1. drv_esp8266_recv_process
    BY <1>3 DEF Receive
  <2>2. Quietly
    BY <1>3, DeviceQuietly
  <2>3. CASE RecvIpd \/ RecvGotIp \/ RecvConnect \/ RecvOnline
    <3>1. "STATUS5" \notin uart'.said
      BY <2>3, SilenceIs DEF RecvIpd, RecvGotIp, RecvConnect, RecvOnline
    <3> QED BY <1>0, <2>2, <3>1 DEF Quietly, Unasked
  <2>4. CASE RecvClosed
    <3>1. CipClose(Silence) /\ Silence \in [ipd : Seq(Packet), said : SUBSET Text]
      BY <2>4, EmptySeq DEF RecvClosed, drv_esp8266_close, Silence
    <3>2. "STATUS5" \notin uart'.said
      BY <1>0, <3>1, SilenceIs, CloseHears
    <3> QED BY <1>0, <2>2, <3>2 DEF Quietly, Unasked
  <2>5. CASE RecvOffline
    <3>1. state' = "WIFI_CONNECT"
      BY <2>5 DEF RecvOffline
    <3> QED BY <1>0, <2>2, <3>1 DEF Quietly, Unasked
  <2> QED BY <2>1, <2>3, <2>4, <2>5 DEF drv_esp8266_recv_process
<1>4. CASE Tick \/ Unsub \/ UNCHANGED vars
  <2>1. UNCHANGED <<state, uart, down>>
    BY <1>4 DEF Tick, EspTick, Unsub, vars
  <2> QED BY <2>1 DEF Unasked
<1>5. CASE World(WorldStep)
  <2>1. WorldStep
    BY <1>5 DEF World
  <2>2. state' = state
    BY <2>1 DEF WorldStep, Arrive, WifiUp, WifiDown, ModuleRestarts, LinkDies, BufferLost
  <2>3. CASE Arrive
    <3>1. down # <<>> /\ down' = Tail(down) /\ Head(down) = down[1] /\ 1 \in 1 .. Len(down)
      BY <1>0, <2>3, Tailed DEF Arrive, NetType
    <3>2. Quietly
      BY <1>0, <3>1, QuietCases
    <3>3. Head(down) # "STATUS5"
      BY <1>0, <3>1 DEF No
    <3>4. "STATUS5" \in uart'.said => "STATUS5" \in uart.said
      <4>1. CASE Head(down) \in Text
        BY <1>0, <2>3, <3>3, <4>1, SaidMore DEF Arrive
      <4>2. CASE Head(down) \notin Text
        BY <1>0, <2>3, <4>2 DEF Arrive
      <4> QED BY <4>1, <4>2
    <3> QED BY <1>0, <2>2, <3>2, <3>4 DEF Quietly, Unasked
  <2>4. CASE WifiUp
    <3>1. uart' = Says(uart, "GOTIP") /\ down' = down
      BY <2>4 DEF WifiUp
    <3> QED BY <1>0, <2>2, <3>1, SaidMore DEF Unasked
  <2>5. CASE WifiDown
    <3>1. CipClose(uart)
      BY <2>5 DEF WifiDown
    <3>2. No(down', "STATUS5")
      BY <1>0, <3>1, CloseDown, EmptyIsNo
    <3>3. "STATUS5" \notin uart.said => "STATUS5" \notin uart'.said
      BY <1>0, <3>1, CloseHears
    <3> QED BY <2>2, <3>2, <3>3 DEF Unasked
  <2>6. CASE ModuleRestarts \/ LinkDies \/ BufferLost
    <3>1. (down' = down \/ down' = <<>>) /\ (uart' = uart \/ uart'.said = {})
      BY <2>6, SilenceIs DEF ModuleRestarts, LinkDies, BufferLost
    <3>2. No(down', "STATUS5")
      BY <1>0, <3>1, EmptyIsNo
    <3> QED BY <2>2, <3>1, <3>2 DEF Unasked
  <2> QED BY <2>1, <2>3, <2>4, <2>5, <2>6 DEF WorldStep
<1>6. CASE MessageOfApp
  <2>1. down = <<>> /\ down' = <<"PUBLISH">> /\ UNCHANGED <<state, uart>>
    BY <1>6 DEF MessageOfApp, Quiet
  <2>2. No(<<"PUBLISH">>, "STATUS5")
    <3>1. "PUBLISH" \in Item
      BY DEF Item, Packet
    <3> QED BY <3>1, OneItem
  <2> QED BY <2>1, <2>2 DEF Unasked
<1>7. CASE BrokerDrops
  <2>1. down' = Append(down, "CLOSED") /\ UNCHANGED <<state, uart>> /\ "CLOSED" \in Item \ {"STATUS5"}
    BY <1>7 DEF BrokerDrops, BrokerCloses, Item, Text
  <2>2. Quietly
    BY <1>0, <2>1, QuietOne
  <2> QED BY <2>1, <2>2 DEF Quietly, Unasked
<1>8. CASE BrokerRefuses
  <2>1. /\ down # <<>> /\ down' = SubSeq(down, 1, Len(down) - 1) \o <<"REFUSED", "CLOSED">>
        /\ UNCHANGED <<state, uart>>
    BY <1>8 DEF BrokerRefuses
  <2>2. PICK w : w = SubSeq(down, 1, Len(down) - 1)
    OBVIOUS
  <2>3. Len(down) - 1 \in 0 .. Len(down) /\ down \in Seq(Item)
    BY <1>0, <2>1 DEF NetType
  <2>4. w \in Seq(Item) /\ Thin(w, down)
    BY <2>2, <2>3, ThinFront
  <2>5. /\ <<"REFUSED", "CLOSED">> \in Seq(Item) /\ Len(<<"REFUSED", "CLOSED">>) = 2
        /\ <<"REFUSED", "CLOSED">>[1] = "REFUSED" /\ <<"REFUSED", "CLOSED">>[2] = "CLOSED"
    BY DEF Item, Packet, Text
  <2>6. \A i \in 1 .. 2 : i = 1 \/ i = 2
    OBVIOUS
  <2>7. No(<<"REFUSED", "CLOSED">>, "STATUS5")
    BY <2>5, <2>6 DEF No
  <2>8. No(w, "STATUS5")
    BY <1>0, <2>3, <2>4, ThinKeeps
  <2>9. No(w \o <<"REFUSED", "CLOSED">>, "STATUS5")
    BY <2>4, <2>5, <2>7, <2>8, MoreKeeps
  <2> QED BY <2>1, <2>2, <2>9 DEF Unasked
<1>9. CASE Restart
  BY <1>9, RestartForgets
<1> QED BY <1>1, <1>2, <1>3, <1>4, <1>5, <1>6, <1>7, <1>8, <1>9, NextCases

-----------------------------------------------------------------------------
(* Booting, and the theorem *)

LEMMA BootingStays ==
  ASSUME Booting, stalls' = stalls,
         turn' = turn \/ (state # "START" /\ turn' # "reg"),
         state' = state \/ {state, state'} \subseteq {"WIFI_CONNECT", "NET_CFG"},
         sock = "closed" => sock' = "closed"
  PROVE  Booting'
BY DEF Booting

LEMMA BootingNext ==
  ASSUME TypeInv, Unasked, state = "START" => turn = "reg", Booting,
         \/ RegTurn \/ MqttTurn \/ StatusTurn \/ Receive \/ drv_mqtt_recv_check
         \/ Unsub \/ MessageOfApp \/ World(WorldStep) \/ BrokerDrops \/ BrokerRefuses
         \/ UNCHANGED vars
  PROVE  Booting'
<1> USE DEF moduleVars, mqttVars, espVars, countVars
<1>0. /\ state \in {"START", "INIT", "WIFI_CONNECT", "NET_CFG"}
      /\ SessionType /\ NetType
  BY DEF Booting, TypeInv
<1>1. CASE RegTurn
  <2>1. turn = "reg" /\ turn' = "mqtt" /\ drv_esp8266_reg_process /\ stalls' = stalls
    BY <1>1 DEF RegTurn
  <2>2. state = "START" \/ (state = "INIT" /\ sock = "closed" /\ stalls = 1)
    BY <2>1 DEF Booting
  <2>3. \/ state' = "INIT" /\ sock' = "closed"
        \/ state' = "WIFI_CONNECT" /\ sock' = "closed" /\ stalls = 1
    BY <2>1, <2>2 DEF drv_esp8266_reg_process, RegStart, RegInit, RegWifi, RegNetCfg, RegOk
  <2> QED BY <2>1, <2>3 DEF Booting
<1>2. CASE MqttTurn
  <2>1. turn = "mqtt" /\ turn' = "status" /\ UNCHANGED <<state, stalls>>
        /\ (sock # "open" => sock' = sock)
    BY <1>2, DeviceKeeps, MqttCases
  <2> QED BY <2>1, BootingStays
<1>3. CASE StatusTurn
  <2>1. /\ turn = "status" /\ turn' = "idle" /\ UNCHANGED <<state, stalls>>
        /\ Send("PUBLISH") \/ UNCHANGED <<broker, sock, down>>
    BY <1>3 DEF StatusTurn
  <2>2. sock # "open" => sock' = sock
    BY <1>0, <2>1, SendType
  <2> QED BY <2>1, <2>2, BootingStays
<1>4. CASE Receive
  <2>1. drv_esp8266_recv_process /\ UNCHANGED <<turn, stalls>>
    BY <1>4 DEF Receive
  <2>2. sock = "closed" => sock' = "closed"
    BY <2>1, RecvDown
  <2>3. CASE RecvOffline
    <3>1. "STATUS5" \in uart.said /\ state' = "WIFI_CONNECT"
      BY <2>3 DEF RecvOffline, Other
    <3>2. state \in {"WIFI_CONNECT", "NET_CFG"}
      BY <1>0, <3>1 DEF Unasked
    <3> QED BY <2>1, <2>2, <3>1, <3>2, BootingStays
  <2>4. CASE ~RecvOffline
    <3>1. state' = state \/ {state, state'} \subseteq {"WIFI_CONNECT", "NET_CFG"}
      BY <2>1, <2>4 DEF drv_esp8266_recv_process, RecvIpd, RecvGotIp, RecvConnect, RecvClosed,
                        RecvOnline, ToNetCfg
    <3> QED BY <2>1, <2>2, <3>1, BootingStays
  <2> QED BY <2>3, <2>4
<1>5. CASE drv_mqtt_recv_check
  BY <1>5, CheckPlain, BootingStays
<1>6. CASE Unsub \/ UNCHANGED vars
  <2>1. UNCHANGED <<state, turn, stalls, sock>>
    BY <1>6 DEF Unsub, vars
  <2> QED BY <2>1, BootingStays
<1>7. CASE MessageOfApp
  <2>1. UNCHANGED <<state, turn, stalls, sock>>
    BY <1>7 DEF MessageOfApp
  <2> QED BY <2>1, BootingStays
<1>8. CASE World(WorldStep)
  BY <1>8, WorldPlain, BootingStays
<1>9. CASE BrokerDrops \/ BrokerRefuses
  <2>1. UNCHANGED <<state, turn, stalls>> /\ sock' = "closed"
    BY <1>9 DEF BrokerDrops, BrokerCloses, BrokerRefuses
  <2> QED BY <2>1, BootingStays
<1> QED BY <1>1, <1>2, <1>3, <1>4, <1>5, <1>6, <1>7, <1>8, <1>9

LEMMA StartsAnew ==
  ASSUME state = "START" => turn = "reg", [Next]_vars
  PROVE  state' = "START" => turn' = "reg"
<1> USE DEF espVars, moduleVars
<1>1. CASE RegTurn
  <2>1. state' # "START" \/ (state' = state /\ state # "START")
    BY <1>1 DEF RegTurn, drv_esp8266_reg_process, RegStart, RegInit, RegWifi, RegNetCfg, RegOk
  <2> QED BY <2>1
<1>2. CASE MqttTurn \/ StatusTurn \/ drv_mqtt_recv_check
  <2>1. UNCHANGED state /\ (UNCHANGED turn \/ turn # "reg")
    BY <1>2, DeviceKeeps
  <2> QED BY <2>1
<1>3. CASE Receive
  <2>1. drv_esp8266_recv_process /\ UNCHANGED turn
    BY <1>3 DEF Receive
  <2>2. state' = state \/ state' \in {"NET_CFG", "WIFI_CONNECT"}
    BY <2>1 DEF drv_esp8266_recv_process, RecvIpd, RecvGotIp, RecvConnect, RecvClosed,
                RecvOnline, RecvOffline, ToNetCfg
  <2> QED BY <2>1, <2>2
<1>4. CASE Tick
  BY <1>4 DEF Tick
<1>5. CASE World(WorldStep)
  <2>1. UNCHANGED <<state, turn>>
    BY <1>5 DEF World, WorldStep, Arrive, WifiUp, WifiDown, ModuleRestarts, LinkDies, BufferLost
  <2> QED BY <2>1
<1>6. CASE Unsub \/ MessageOfApp \/ BrokerDrops \/ BrokerRefuses \/ UNCHANGED vars
  <2>1. UNCHANGED <<state, turn>>
    BY <1>6 DEF Unsub, MessageOfApp, BrokerDrops, BrokerRefuses, vars
  <2> QED BY <2>1
<1>7. CASE Restart
  BY <1>7 DEF Restart
<1> QED BY <1>1, <1>2, <1>3, <1>4, <1>5, <1>6, <1>7, NextCases

LEMMA DeafInit == Init => DeafInv
<1> SUFFICES ASSUME Init PROVE DeafInv
  OBVIOUS
<1>1. /\ state = "START" /\ turn = "reg" /\ uart = Silence /\ down = <<>> /\ rb = <<>>
      /\ is_connected = FALSE /\ curr_state = "Idel"
  BY DEF Init, EspInit, drv_esp8266_init
<1>2. Due = <<>>
  BY <1>1, TypeInit, DueTyped, SilenceIs
<1>3. AcksFirst
  BY <1>2, EmptyIsNo DEF AcksFirst, NotBefore, No
<1>4. Unasked
  BY <1>1, EmptyIsNo, SilenceIs DEF Unasked
<1> QED BY <1>1, <1>3, <1>4 DEF DeafInv, Booting, Known, AsSubscribed

LEMMA DeafNext ==
  ASSUME AtMostOneLate
  PROVE  TypeInv /\ DeafInv /\ [Next]_vars => DeafInv'
<1> SUFFICES ASSUME TypeInv, DeafInv, [Next]_vars PROVE DeafInv'
  OBVIOUS
<1>0. /\ state = "START" => turn = "reg"
      /\ Unasked /\ AcksFirst /\ Known /\ AsSubscribed
      /\ Booting \/ Answered
  BY DEF DeafInv
<1>1. Unasked' /\ (state' = "START" => turn' = "reg")
  BY <1>0, UnaskedNext, StartsAnew
<1>2. CASE \/ RegTurn \/ StatusTurn \/ Receive \/ Unsub \/ MessageOfApp
           \/ World(WorldStep) \/ BrokerDrops \/ BrokerRefuses
           \/ UNCHANGED vars
  <2>1. Ordinary /\ stalls' = stalls /\ TimerStep /\ (is_connected' => is_connected)
    BY <1>2, OrdinarySteps
  <2>2. AcksFirst' /\ Known' /\ AsSubscribed'
    BY <1>0, <2>1, OrdinaryKeeps
  <2>3. Booting' \/ Answered'
    BY <1>0, <1>2, <2>1, BootingNext, PlainAnswered DEF Ordinary
  <2> QED BY <1>1, <2>2, <2>3 DEF DeafInv
<1>3. CASE MqttTurn
  <2>1. sock = "open" => Answered
    <3>1. turn = "mqtt"
      BY <1>3, DeviceKeeps
    <3> QED BY <1>0, <3>1 DEF Booting
  <2>2. AcksFirst' /\ Known' /\ AsSubscribed' /\ (Answered => Answered')
    BY <1>0, <1>3, <2>1, MqttKeeps
  <2>3. Booting => Booting'
    BY <1>0, <1>3, BootingNext
  <2> QED BY <1>0, <1>1, <2>2, <2>3 DEF DeafInv
<1>4. CASE drv_mqtt_recv_check
  <2>1. AcksFirst' /\ Known' /\ AsSubscribed' /\ (Answered => Answered')
    BY <1>0, <1>4, CheckKeeps
  <2>2. Booting => Booting'
    BY <1>0, <1>4, BootingNext
  <2> QED BY <1>0, <1>1, <2>1, <2>2 DEF DeafInv
<1>5. CASE Tick
  <2>1. AcksFirst' /\ Known' /\ AsSubscribed' /\ (Booting' \/ Answered')
    BY <1>0, <1>5, TickKeeps
  <2> QED BY <1>1, <2>1 DEF DeafInv
<1>6. CASE Restart
  BY <1>0, <1>1, <1>6, RestartForgets DEF DeafInv
<1> QED BY <1>2, <1>3, <1>4, <1>5, <1>6, NextCases

(***************************************************************************)
(* While at most one round begins before everything said is handled, a     *)
(* device at rest that holds its topic for subscribed gets its commands,   *)
(* except after an acknowledgement that drv_mqtt_recv_check (drv_mqtt.c:   *)
(* 311) handled when the client was not connected: for any number of       *)
(* faults, any times and any ring buffer.                                  *)
(***************************************************************************)
THEOREM DeafOnlyByLateAck ==
  ASSUME AtMostOneLate
  PROVE  Spec => []DeafHasReason
<1>1. Init => TypeInv /\ DeafInv
  BY TypeInit, DeafInit
<1>2. TypeInv /\ DeafInv /\ [Next]_vars => (TypeInv /\ DeafInv)'
  BY TypeNext, DeafNext
<1>3. TypeInv /\ DeafInv => DeafHasReason
  BY DEF DeafInv, AsSubscribed, DeafHasReason
<1> QED BY <1>1, <1>2, <1>3, PTL DEF Spec
=============================================================================
