----------------------------- MODULE DevServer ------------------------------
(***************************************************************************)
(* The identity of a device (drv_server.c): the application it belongs to  *)
(* and its serial number, kept in an EEPROM, and the filter for received   *)
(* commands.  A command SET_APP_ID gives the device to an application, or  *)
(* back to none.  The identity is written and the device restarts, because *)
(* only app_mqtt_init takes the topic that carries the application; but    *)
(* the reset comes some 58 ms after drv_system_reset has returned, and the *)
(* connection of the WiFi module, with its subscription, lasts until the   *)
(* restarted device resets the module, seconds later.                      *)
(***************************************************************************)
EXTENDS Integers, Sequences

CONSTANTS
  App,          \* applications
  Nobody,       \* APP_ID_MIN, the application of a device that has none
  NumLast       \* packet numbers are 0..NumLast, 255 in the code

ASSUME IdentityAssumption ==
  /\ Nobody \notin App
  /\ "torn" \notin App \cup {Nobody}
  /\ NumLast \in Nat \ {0}

Owner == App \cup {Nobody}
Num == 0..NumLast
FirstNum == NumLast  \* recv_pack_num when the device starts, 109 in the code

AtStart == <<Nobody, 0>>   \* where a number comes from: the start of the device,
ByChance == <<Nobody, 1>>  \* chance, or (<<a, k>>) the k-th counter of application a

VARIABLES
  run,          \* "off", "on", or taking a SET_APP_ID: "writing", "waiting" 100 ms
  armed,        \* the window watchdog runs: a reset follows
  eeprom,       \* the application as stored, "torn" while its checksum is wrong
  app_id,       \* g_sServerSave.app_id
  sn,           \* "own", or "blank": the number drv_server_read falls back to
  link,         \* the connection: "none", "open", "joined" once it is subscribed, or
                \* "old", which the module keeps from before a restart
  topic,        \* the application of the topic that is subscribed over it, if any
  recv_num,     \* recv_pack_num
  last          \* history: where recv_num comes from

idVars == <<eeprom, app_id, sn>>
numVars == <<recv_num, last>>
devVars == <<run, armed, idVars, link, topic, numVars>>

DevInit ==
  /\ run = "on" /\ armed = FALSE
  /\ eeprom = Nobody
  /\ app_id = Nobody
  /\ sn = "own"
  /\ link = "joined" /\ topic = Nobody
  /\ recv_num = FirstNum
  /\ last = AtStart

(***************************************************************************)
(* Start: drv_server_read replaces an identity whose checksum is wrong by  *)
(* that of a new device.  The module, which did not restart, still hands   *)
(* the device what it receives (drv_esp8266_main looks at every +IPD), but *)
(* sends nothing for it until drv_esp8266_reg_process has reset it and a   *)
(* new connection is made; the subscription is to the identity then read.  *)
(***************************************************************************)
Read == IF eeprom = "torn" THEN Nobody ELSE eeprom

Start ==
  /\ run = "off"
  /\ run' = "on"
  /\ app_id' = Read
  /\ eeprom' = Read
  /\ sn' = IF eeprom = "torn" THEN "blank" ELSE sn
  /\ recv_num' = FirstNum
  /\ last' = AtStart
  /\ UNCHANGED <<armed, link, topic>>

ModuleReset ==
  /\ run = "on" /\ link = "old"
  /\ link' = "none" /\ topic' = Nobody
  /\ UNCHANGED <<run, armed, idVars, numVars>>

Connect ==
  /\ run = "on" /\ ~armed /\ link = "none"
  /\ link' = "open"
  /\ UNCHANGED <<run, armed, idVars, topic, numVars>>

Subscribe ==
  /\ run = "on" /\ ~armed /\ link = "open"
  /\ link' = "joined" /\ topic' = app_id
  /\ UNCHANGED <<run, armed, idVars, numVars>>

(***************************************************************************)
(* drv_server_recv_parse.  A message says for which topic it is, what it   *)
(* wants, its number and (for the history) the counter the number is of.   *)
(***************************************************************************)
Hears(m) == run = "on" /\ sn = "own" /\ link \in {"old", "joined"} /\ topic = m.to

Repeated(m) == recv_num = m.num

SetAppIdStays(m) ==  \* mutant: the device does not restart
  /\ m.cmd = "set_app_id"
  /\ app_id' = m.app
  /\ eeprom' = m.app
  /\ UNCHANGED <<run, armed, sn, link, topic>>

SetAppId(m) ==
  /\ m.cmd = "set_app_id"
  /\ app_id' = m.app
  /\ eeprom' = "torn"
  /\ run' = "writing"
  /\ UNCHANGED <<armed, sn, link, topic>>

CmdParse(m) ==
  /\ m.cmd = "command"
  /\ UNCHANGED <<run, armed, idVars, link, topic>>

drv_server_recv_parse(m) ==
  \/ ~Hears(m) /\ UNCHANGED devVars
  \/ Hears(m) /\ Repeated(m) /\ UNCHANGED devVars
  \/ /\ Hears(m) /\ ~Repeated(m)
     /\ recv_num' = m.num
     /\ last' = m.of
     /\ SetAppId(m) \/ CmdParse(m)

Obeys(m) == Hears(m) /\ ~Repeated(m)

(***************************************************************************)
(* drv_server_write ends; 100 ms later drv_system_reset starts the window  *)
(* watchdog and returns, and the loop goes on until the watchdog resets    *)
(* the device, in whatever it is doing: a further SET_APP_ID may be being  *)
(* written.  It is over by the time that command has waited its 100 ms.    *)
(* The power may fail at any time, and the module's with it.               *)
(***************************************************************************)
WriteEnds ==
  /\ run = "writing"
  /\ run' = "waiting"
  /\ eeprom' = app_id
  /\ UNCHANGED <<armed, app_id, sn, link, topic, numVars>>

ResetEarly ==  \* mutant: the reset does not wait for the write
  /\ run \in {"writing", "waiting"} /\ ~armed
  /\ run' = "off"
  /\ link' = "old"
  /\ UNCHANGED <<armed, idVars, topic, numVars>>

drv_system_reset ==
  /\ run = "waiting" /\ ~armed
  /\ run' = "on" /\ armed' = TRUE
  /\ UNCHANGED <<idVars, link, topic, numVars>>

Watchdog ==
  /\ armed
  /\ run' = "off" /\ armed' = FALSE
  /\ link' = IF link = "joined" THEN "old" ELSE link
  /\ UNCHANGED <<idVars, topic, numVars>>

PowerFails ==
  /\ run # "off"
  /\ run' = "off" /\ armed' = FALSE
  /\ link' = "none" /\ topic' = Nobody
  /\ UNCHANGED <<idVars, numVars>>

Lives == \/ Start \/ ModuleReset \/ Connect \/ Subscribe
         \/ WriteEnds \/ drv_system_reset \/ Watchdog
=============================================================================
