------------------------------ MODULE Esp8266 -------------------------------
(***************************************************************************)
(* The driver of the ESP8266 Wi-Fi module (drv_esp8266.c) and, as far as   *)
(* the driver can see it, the module itself.  Everything the module says   *)
(* collects in one UART buffer; drv_esp8266_recv_process searches it for   *)
(* one kind of text after the other, obeys the first kind it finds and     *)
(* clears the buffer, so that what else was in it is lost.  The buffer is  *)
(* therefore a sequence of received packets and a set of other texts.      *)
(* One link is used; time is counted in rounds of its timers.              *)
(***************************************************************************)
EXTENDS Naturals, Sequences

CONSTANTS
  HeartTime     \* rounds without a packet after which the link is closed

ASSUME HeartAssumption == HeartTime \in Nat \ {0}

VARIABLES
  state,        \* how far the module is set up
  conn_state,   \* the driver believes the link is open
  heart,        \* rounds since its keep_time, while conn_state holds
  uart,         \* what the module has said since the buffer was cleared
  wifi, mux,    \* the module: joined to a router, several links enabled
  sock,         \* the TCP connection: "closed", "open", or "dead" without notice
  down          \* what the module will say: packets of the peer and late texts

espVars == <<state, conn_state, heart, uart, wifi, mux, sock, down>>
moduleVars == <<wifi, mux, sock, down>>

State == {"START", "INIT", "WIFI_CONNECT", "NET_CFG", "OK"}
Text == {"GOTIP", "ALREADY", "CONNECT", "CLOSED", "STATUS3", "STATUS5"}

Silence == [ipd |-> <<>>, said |-> {}]
Says(u, t) == [u EXCEPT !.said = @ \cup {t}]

drv_esp8266_init ==
  /\ state = "START"
  /\ conn_state = FALSE
  /\ heart = 0
  /\ uart = Silence

EspInit ==
  /\ drv_esp8266_init
  /\ wifi = FALSE
  /\ mux = FALSE
  /\ sock = "closed"
  /\ down = <<>>
-----------------------------------------------------------------------------
(***************************************************************************)
(* drv_esp8266_close, on top of a buffer u: the module answers CIPCLOSE    *)
(* with ",CLOSED" if there was a connection, whose packets are lost then;  *)
(* what it was about to say itself comes before.                           *)
(***************************************************************************)
TextsOf(d) == {t \in Text : \E i \in 1..Len(d) : d[i] = t}

CipClose(u) ==
  /\ sock' = "closed"
  /\ down' = IF sock = "closed" THEN down ELSE <<>>
  /\ uart' = IF sock = "closed" THEN u
             ELSE [u EXCEPT !.said = @ \cup TextsOf(down) \cup {"CLOSED"}]

drv_esp8266_close(u) ==
  /\ CipClose(u)
  /\ conn_state' = FALSE
  /\ heart' = 0

(***************************************************************************)
(* CIPSTATUS: 5 without a router.                                          *)
(***************************************************************************)
CipStatus(u) == Says(u, IF wifi THEN "STATUS3" ELSE "STATUS5")

(***************************************************************************)
(* CIPSTART: the answer of the module and what becomes of the socket.      *)
(***************************************************************************)
CipStart(answer) ==
  CASE ~mux -> answer = "none" /\ sock' = sock
    [] mux /\ sock # "closed" -> answer = "ALREADY" /\ sock' = sock
    [] mux /\ sock = "closed" /\ wifi -> answer = "CONNECT" /\ sock' = "open"
    [] OTHER -> answer = "CLOSED" /\ sock' = sock

(***************************************************************************)
(* drv_esp8266_connect_process with conn_state 0: CIPSTART, then one look  *)
(* at the whole buffer a second later; the answer may come after it.       *)
(***************************************************************************)
Look(u, t) == t \in u.said

Connect ==
  /\ ~conn_state
  /\ \E answer \in Text \cup {"none"}, late \in BOOLEAN :
       LET heard == IF late \/ answer = "none" THEN uart ELSE Says(uart, answer)
           opened == Look(heard, "ALREADY") \/ Look(heard, "CONNECT")
           rest == IF opened \/ Look(heard, "CLOSED") THEN Silence ELSE heard
       IN /\ CipStart(answer)
          /\ late => answer \in {"CONNECT", "CLOSED"}
          /\ conn_state' = opened
          /\ uart' = CipStatus(rest)
          /\ down' = IF late THEN Append(down, answer) ELSE down
  /\ UNCHANGED heart

NoHeartTimeOut ==  \* mutant: the time since the last packet is not looked at
  \/ Connect
  \/ /\ conn_state
     /\ uart' = CipStatus(uart)
     /\ UNCHANGED <<conn_state, heart, sock, down>>

drv_esp8266_connect_process ==
  \/ Connect
  \/ /\ conn_state /\ heart > HeartTime
     /\ drv_esp8266_close(CipStatus(uart))
  \/ /\ conn_state /\ heart <= HeartTime
     /\ uart' = CipStatus(uart)
     /\ UNCHANGED <<conn_state, heart, sock, down>>
-----------------------------------------------------------------------------
(***************************************************************************)
(* drv_esp8266_reg_process: one step of setting the module up, or, when it *)
(* is, the care of the link and a question for the module's status.        *)
(***************************************************************************)
RegStart ==
  /\ state = "START"
  /\ state' = "INIT"
  /\ mux' = FALSE
  /\ sock' = "closed"
  /\ down' = <<>>
  /\ uart' = IF wifi THEN Says(uart, "GOTIP") ELSE uart
  /\ UNCHANGED <<conn_state, heart, wifi>>

RegInit ==
  /\ state = "INIT"
  /\ state' = "WIFI_CONNECT"
  /\ UNCHANGED <<conn_state, heart, uart>> /\ UNCHANGED moduleVars

RegWifi ==
  /\ state = "WIFI_CONNECT"
  /\ uart' = CipStatus(uart)
  /\ UNCHANGED <<state, conn_state, heart>> /\ UNCHANGED moduleVars

RegNetCfg ==
  /\ state = "NET_CFG"
  /\ state' = "OK"
  /\ mux' = TRUE
  /\ UNCHANGED <<conn_state, heart, uart, wifi, sock, down>>

RegOk ==
  /\ state = "OK"
  /\ drv_esp8266_connect_process
  /\ UNCHANGED <<state, wifi, mux>>

drv_esp8266_reg_process == RegStart \/ RegInit \/ RegWifi \/ RegNetCfg \/ RegOk
-----------------------------------------------------------------------------
(***************************************************************************)
(* drv_esp8266_recv_process: the branches exclude each other in the order  *)
(* of the code.  The packets of the first go to app_esp8266_recv, which    *)
(* the module that composes driver and MQTT client adds.                   *)
(***************************************************************************)
ToNetCfg == state' = IF state = "WIFI_CONNECT" THEN "NET_CFG" ELSE state

RecvIpd ==
  /\ uart.ipd # <<>>
  /\ heart' = 0
  /\ uart' = Silence
  /\ UNCHANGED <<state, conn_state>> /\ UNCHANGED moduleVars

Other(t) ==  \* the text t decides, for lack of anything the code looks for before
  /\ uart.ipd = <<>>
  /\ t \in uart.said
  /\ t # "GOTIP" => "GOTIP" \notin uart.said
  /\ t \notin {"GOTIP", "CONNECT"} => "CONNECT" \notin uart.said
  /\ t \notin {"GOTIP", "CONNECT", "CLOSED"} => "CLOSED" \notin uart.said

RecvGotIp ==
  /\ Other("GOTIP")
  /\ ToNetCfg
  /\ uart' = Silence
  /\ UNCHANGED <<conn_state, heart>> /\ UNCHANGED moduleVars

RecvConnect ==
  /\ Other("CONNECT")
  /\ conn_state' = TRUE
  /\ heart' = 0
  /\ uart' = Silence
  /\ UNCHANGED state /\ UNCHANGED moduleVars

(***************************************************************************)
(* ",CLOSED": the link is closed once more; the answer to that comes after *)
(* the buffer is cleared.                                                  *)
(***************************************************************************)
RecvClosed ==
  /\ Other("CLOSED")
  /\ drv_esp8266_close(Silence)
  /\ UNCHANGED <<state, wifi, mux>>

RecvOnline ==
  /\ Other("STATUS3")
  /\ ToNetCfg
  /\ uart' = Silence
  /\ UNCHANGED <<conn_state, heart>> /\ UNCHANGED moduleVars

RecvOffline ==
  /\ Other("STATUS5")
  /\ drv_esp8266_close(Silence)
  /\ state' = "WIFI_CONNECT"
  /\ UNCHANGED <<wifi, mux>>

drv_esp8266_recv_process ==
  \/ RecvIpd \/ RecvGotIp \/ RecvConnect \/ RecvClosed
  \/ RecvOnline \/ RecvOffline
-----------------------------------------------------------------------------
(***************************************************************************)
(* The module: it passes on what the peer sent, joins and leaves the       *)
(* router, and may restart on its own, which forgets CIPMUX.               *)
(***************************************************************************)
Arrive ==
  /\ down # <<>>
  /\ down' = Tail(down)
  /\ uart' = IF Head(down) \in Text THEN Says(uart, Head(down))
             ELSE [uart EXCEPT !.ipd = Append(@, Head(down))]
  /\ UNCHANGED <<state, conn_state, heart, wifi, mux, sock>>

WifiUp ==
  /\ ~wifi
  /\ wifi' = TRUE
  /\ uart' = Says(uart, "GOTIP")
  /\ UNCHANGED <<state, conn_state, heart, mux, sock, down>>

WifiDown ==
  /\ wifi
  /\ wifi' = FALSE
  /\ CipClose(uart)
  /\ UNCHANGED <<state, conn_state, heart, mux>>

ModuleRestarts ==
  /\ wifi' = FALSE
  /\ mux' = FALSE
  /\ sock' = "closed"
  /\ down' = <<>>
  /\ UNCHANGED <<state, conn_state, heart, uart>>

LinkDies ==  \* the peer is gone, nothing says so; what it sent before arrives
  /\ sock = "open"
  /\ sock' = "dead"
  /\ UNCHANGED <<state, conn_state, heart, uart, wifi, mux, down>>

BufferLost ==  \* UART_Clear takes what came in after the last look
  /\ uart # Silence
  /\ uart' = Silence
  /\ UNCHANGED <<state, conn_state, heart>> /\ UNCHANGED moduleVars

DeviceRestarts ==  \* the module keeps running until it is told RST
  /\ state' = "START"
  /\ conn_state' = FALSE
  /\ heart' = 0
  /\ uart' = Silence
  /\ UNCHANGED moduleVars

Older(age) == IF age > HeartTime THEN age ELSE age + 1  \* what is too old stays so

EspTick ==
  /\ heart' = IF conn_state THEN Older(heart) ELSE 0
  /\ UNCHANGED <<state, conn_state, uart>> /\ UNCHANGED moduleVars
-----------------------------------------------------------------------------
EspTypeOK(Packet) ==
  /\ state \in State
  /\ conn_state \in BOOLEAN
  /\ heart \in 0..(HeartTime + 1)
  /\ uart \in [ipd : Seq(Packet), said : SUBSET Text]
  /\ wifi \in BOOLEAN /\ mux \in BOOLEAN
  /\ sock \in {"closed", "open", "dead"}
  /\ down \in Seq(Packet \cup Text)
=============================================================================
