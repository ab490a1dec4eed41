------------------------- MODULE Membership_proofs -------------------------
(***************************************************************************)
(* The identity of a device, for any number of applications, of messages   *)
(* on their way and of faults.                                             *)
(*                                                                         *)
(* The EEPROM holds the application the device believes in, or nothing     *)
(* valid; every SET_APP_ID on its way either is for a device without an    *)
(* application or takes one away; and who has subscribed the topic of an   *)
(* application belongs to it or to none.  From the first follows what a    *)
(* device is after a restart, from all that only over a connection which   *)
(* has outlived the change of its application it is handed from one        *)
(* application to another.                                                 *)
(***************************************************************************)
EXTENDS Membership, SequenceTheorems, TLAPS

LEMMA Appended ==
  ASSUME NEW S, NEW s \in Seq(S), NEW e \in S
  PROVE  /\ Append(s, e) \in Seq(S)
         /\ Len(s) \in Nat
         /\ Len(Append(s, e)) = Len(s) + 1
         /\ Append(s, e)[Len(s) + 1] = e
         /\ \A j \in 1 .. Len(s) : Append(s, e)[j] = s[j]
OBVIOUS

LEMMA Tailed ==
  ASSUME NEW S, NEW s \in Seq(S), s # <<>>
  PROVE  /\ Tail(s) \in Seq(S)
         /\ Len(s) \in Nat \ {0}
         /\ Len(Tail(s)) = Len(s) - 1
         /\ Head(s) = s[1] /\ Head(s) \in S
         /\ \A j \in 1 .. Len(s) - 1 : Tail(s)[j] = s[j + 1]
OBVIOUS

-----------------------------------------------------------------------------
(* Types, in the parts that the actions leave alone or change *)

DevType ==
  /\ run \in {"off", "on", "writing", "waiting"} /\ armed \in BOOLEAN
  /\ eeprom \in Owner \cup {"torn"}
  /\ app_id \in Owner
  /\ link \in {"old", "none", "open", "joined"} /\ topic \in Owner
  /\ sn \in {"own", "blank"}
  /\ recv_num \in Num /\ last \in Source

LinkType == down \in Seq(Message) /\ up \subseteq App

ServerType ==
  /\ stored \subseteq App
  /\ toServer \in [App -> Seq(Request)] /\ toApp \in [App -> Seq(Answer)]

PhoneType == listed \subseteq App /\ down_num \in [App -> Num] /\ models \in [App -> Nat]

HistType ==
  /\ stale \subseteq App /\ untaken \subseteq App /\ seized \subseteq App
  /\ rushed \in BOOLEAN

CountType ==
  /\ user \in 0..MaxUser
  /\ reloads \in Nat /\ lost \in Nat /\ fails \in Nat
  /\ reloads + lost + fails <= MaxOdd

LEMMA TypeParts ==
  TypeOK <=> DevType /\ LinkType /\ ServerType /\ PhoneType /\ HistType /\ CountType
BY DEF TypeOK, DevType, LinkType, ServerType, PhoneType, HistType, CountType

\* Messages to the device are of the type Message.
LEMMA MessageTypes ==
  /\ \A a, b \in Owner, n \in Num : SetMsg(a, b, n) \in Message
  /\ \A a \in App, n \in Num, k \in Nat : CmdMsg(a, n, <<a, k>>) \in Message
<1>1. ByChance \in Source
  BY DEF ByChance, Source
<1>2. \A a \in App, k \in Nat : <<a, k>> \in Source
  BY DEF Source
<1> QED BY <1>1, <1>2 DEF SetMsg, CmdMsg, Message, Owner

\* A phone's request.
LEMMA AskType ==
  ASSUME ServerType, NEW a \in App, NEW r \in Request, Asks(a, r)
  PROVE  toServer' \in [App -> Seq(Request)]
BY Appended DEF ServerType, Asks

\* What the identity of a device rests on.
Solid ==
  /\ eeprom \in {"torn", app_id}
  /\ run \in {"on", "waiting"} => eeprom = app_id
  /\ run = "off" => link # "joined"
  /\ run = "on" /\ ~armed /\ link = "joined" => topic = app_id
  /\ topic \in App => app_id \in {topic, Nobody}

Powered ==
  /\ armed /\ run = "writing" => rushed
  /\ fails = 0 /\ ~rushed => sn = "own" /\ (eeprom = "torn" => run = "writing")

\* A SET_APP_ID gives a device of nobody, or takes one away.
Gives(m) == m.cmd = "set_app_id" => (m.to = Nobody <=> m.app # Nobody)
AllGive == \A i \in 1 .. Len(down) : Gives(down[i])

MInv == TypeOK /\ Solid /\ Powered /\ AllGive
-----------------------------------------------------------------------------
(* The device *)

LEMMA OwnerFacts == Nobody \in Owner /\ "torn" \notin Owner /\ App \subseteq Owner
BY IdentityAssumption DEF Owner

\* The device alone: every step of it keeps its type and its identity.
LEMMA DeviceSteps ==
  ASSUME DevType, Solid, Lives
  PROVE  DevType' /\ Solid' /\ (UNCHANGED <<fails, rushed>> /\ Powered => Powered')
<1>1. CASE Start
  <2>1. Read \in {app_id, Nobody} /\ Read \in Owner /\ Read # "torn"
    BY OwnerFacts DEF Read, DevType, Solid
  <2>2. FirstNum \in Num /\ AtStart \in Source
    BY IdentityAssumption DEF FirstNum, Num, AtStart, Source
  <2>3. DevType'
    BY <1>1, <2>1, <2>2 DEF Start, DevType
  <2>4. Solid'
    BY <1>1, <2>1 DEF Start, Solid
  <2>5. UNCHANGED <<fails, rushed>> /\ Powered => Powered'
    BY <1>1, <2>1 DEF Start, Powered
  <2> QED BY <2>3, <2>4, <2>5
<1>2. CASE WriteEnds
  <2>1. eeprom' \in Owner /\ eeprom' # "torn"
    BY <1>2, OwnerFacts DEF WriteEnds, DevType
  <2> QED BY <1>2, <2>1 DEF WriteEnds, numVars, DevType, Solid, Powered
<1>3. CASE drv_system_reset
  <2>1. eeprom # "torn"
    BY <1>3, OwnerFacts DEF drv_system_reset, Solid, DevType
  <2> QED BY <1>3, <2>1 DEF drv_system_reset, idVars, numVars, DevType, Solid, Powered
<1>4. CASE Watchdog
  <2>1. DevType' /\ Solid'
    BY <1>4 DEF Watchdog, idVars, numVars, DevType, Solid
  <2>2. UNCHANGED <<fails, rushed>> /\ Powered => Powered'
    BY <1>4 DEF Watchdog, idVars, Powered
  <2> QED BY <2>1, <2>2
<1>5. CASE ModuleReset \/ Connect \/ Subscribe
  <2>1. DevType'
    BY <1>5, OwnerFacts DEF ModuleReset, Connect, Subscribe, idVars, numVars, DevType
  <2>2. Solid'
    BY <1>5, IdentityAssumption DEF ModuleReset, Connect, Subscribe, idVars, Solid
  <2>3. UNCHANGED <<fails, rushed>> /\ Powered => Powered'
    BY <1>5 DEF ModuleReset, Connect, Subscribe, idVars, Powered
  <2> QED BY <2>1, <2>2, <2>3
<1> QED BY <1>1, <1>2, <1>3, <1>4, <1>5 DEF Lives

LEMMA DeviceHears ==
  ASSUME DevType, Solid, NEW m \in Message, Gives(m), drv_server_recv_parse(m)
  PROVE  /\ DevType' /\ Solid'
         /\ /\ UNCHANGED fails /\ rushed' = (rushed \/ (armed /\ run' = "writing"))
            /\ Powered
            => Powered'
<1>1. m.num \in Num /\ m.of \in Source /\ m.app \in Owner /\ m.to \in Owner
  BY DEF Message
<1>2. CASE UNCHANGED devVars
  BY <1>2 DEF devVars, idVars, numVars, DevType, Solid, Powered
<1>3. CASE Hears(m) /\ recv_num' = m.num /\ last' = m.of /\ SetAppId(m)
  <2>1. DevType'
    BY <1>1, <1>3 DEF SetAppId, DevType
  <2>2. topic' \in App => app_id' = Nobody
    BY <1>3, IdentityAssumption DEF SetAppId, Hears, Gives
  <2>3. Solid'
    BY <1>3, <2>2 DEF SetAppId, Hears, Solid
  <2> QED BY <1>3, <2>1, <2>3 DEF SetAppId, Powered
<1>4. CASE Hears(m) /\ recv_num' = m.num /\ last' = m.of /\ CmdParse(m)
  BY <1>1, <1>4 DEF CmdParse, idVars, DevType, Solid, Powered
<1> QED BY <1>2, <1>3, <1>4 DEF drv_server_recv_parse

-----------------------------------------------------------------------------
(* The invariant *)

LEMMA MembershipInit == Init => MInv
<1> SUFFICES ASSUME Init PROVE MInv
  OBVIOUS
<1>1. FirstNum \in Num /\ AtStart \in Source /\ 0 \in Num
  BY IdentityAssumption DEF FirstNum, Num, AtStart, Source
<1>2. DevType /\ Solid
  BY <1>1, OwnerFacts, IdentityAssumption DEF Init, DevInit, DevType, Solid
<1>3. LinkType
  BY EmptySeq DEF Init, LinkType
<1>4. ServerType
  BY EmptySeq DEF Init, ServerType
<1>5. PhoneType /\ HistType
  BY <1>1 DEF Init, PhoneType, HistType
<1>6. CountType
  BY MembershipAssumption DEF Init, CountType
<1>7. Powered
  BY OwnerFacts DEF Init, DevInit, Powered
<1>8. AllGive
  <2>1. Len(down) = 0
    BY DEF Init
  <2> QED BY <2>1 DEF AllGive
<1> QED BY <1>2, <1>3, <1>4, <1>5, <1>6, <1>7, <1>8, TypeParts DEF MInv

\* A message is put behind those on their way.
LEMMA Sends ==
  ASSUME LinkType, AllGive, NEW m \in Message, Gives(m), down' = Append(down, m),
         UNCHANGED up
  PROVE  LinkType' /\ AllGive'
<1>1. /\ down' \in Seq(Message) /\ Len(down) \in Nat /\ Len(down') = Len(down) + 1
      /\ down'[Len(down) + 1] = m /\ \A j \in 1 .. Len(down) : down'[j] = down[j]
  BY Appended DEF LinkType
<1>2. ASSUME NEW i \in 1 .. Len(down) + 1 PROVE Gives(down'[i])
  <2>1. i = Len(down) + 1 \/ i \in 1 .. Len(down)
    BY <1>1
  <2>2. CASE i = Len(down) + 1
    BY <1>1, <2>2
  <2>3. CASE i \in 1 .. Len(down)
    BY <1>1, <2>3 DEF AllGive
  <2> QED BY <2>1, <2>2, <2>3
<1> QED BY <1>1, <1>2 DEF LinkType, AllGive

\* The first message is gone.
LEMMA Sheds ==
  ASSUME LinkType, AllGive, down # <<>>, down' = Tail(down), UNCHANGED up
  PROVE  LinkType' /\ AllGive'
<1>1. /\ down' \in Seq(Message) /\ Len(down) \in Nat \ {0} /\ Len(down') = Len(down) - 1
      /\ \A j \in 1 .. Len(down) - 1 : down'[j] = down[j + 1]
  BY Tailed DEF LinkType
<1>2. \A i \in 1 .. Len(down') : i + 1 \in 1 .. Len(down) /\ down'[i] = down[i + 1]
  BY <1>1
<1> QED BY <1>1, <1>2 DEF LinkType, AllGive

LEMMA MembershipNext == MInv /\ [Next]_vars => MInv'
<1> SUFFICES ASSUME MInv, [Next]_vars PROVE MInv'
  OBVIOUS
<1> USE DEF serverVars, phoneVars, histVars, countVars
<1>0. /\ DevType /\ LinkType /\ ServerType /\ PhoneType /\ HistType /\ CountType
      /\ Solid /\ Powered /\ AllGive
  BY TypeParts DEF MInv
<1>a. /\ UNCHANGED devVars => DevType' /\ Solid' /\ (fails' = fails /\ rushed' = rushed => Powered')
      /\ UNCHANGED <<down, up>> => LinkType' /\ AllGive'
      /\ UNCHANGED serverVars => ServerType'
      /\ UNCHANGED phoneVars => PhoneType'
      /\ UNCHANGED histVars => HistType'
      /\ UNCHANGED countVars => CountType'
  <2>1. UNCHANGED devVars => DevType' /\ Solid' /\ (fails' = fails /\ rushed' = rushed => Powered')
    BY <1>0 DEF devVars, idVars, numVars, DevType, Solid, Powered
  <2>2. UNCHANGED <<down, up>> => LinkType' /\ AllGive'
    BY <1>0 DEF LinkType, AllGive
  <2>3. UNCHANGED serverVars => ServerType'
    BY <1>0 DEF ServerType
  <2>4. UNCHANGED phoneVars => PhoneType'
    BY <1>0 DEF PhoneType
  <2>5. UNCHANGED histVars => HistType'
    BY <1>0 DEF HistType
  <2>6. UNCHANGED countVars => CountType'
    BY <1>0 DEF CountType
  <2> QED BY <2>1, <2>2, <2>3, <2>4, <2>5, <2>6
<1>b. /\ UserActs => CountType' /\ fails' = fails
      /\ \A a, b \in Owner, n \in Num : SetMsg(a, b, n) \in Message
  BY <1>0, MembershipAssumption, MessageTypes DEF UserActs, CountType
<1> DEFINE Kept == DevType' /\ LinkType' /\ ServerType' /\ PhoneType' /\ HistType'
                   /\ CountType' /\ Solid' /\ Powered' /\ AllGive'
<1>c. SUFFICES Kept
  BY TypeParts, PTL DEF MInv
<1>1. ASSUME NEW a \in App, requestAddDeviceQml(a) PROVE Kept
  <2>1. PICK n \in Num : down' = Append(down, SetMsg(Nobody, a, n))
    BY <1>1 DEF requestAddDeviceQml
  <2>2. SetMsg(Nobody, a, n) \in Message /\ Gives(SetMsg(Nobody, a, n))
    BY <1>b, OwnerFacts, IdentityAssumption DEF SetMsg, Gives
  <2>3. LinkType' /\ AllGive'
    BY <1>0, <1>1, <2>1, <2>2, Sends DEF requestAddDeviceQml
  <2>4. ServerType'
    BY <1>0, <1>1, AskType DEF requestAddDeviceQml, ServerType, Request
  <2>5. HistType'
    BY <1>0, <1>1 DEF requestAddDeviceQml, HistType
  <2>6. DevType' /\ Solid' /\ PhoneType' /\ CountType' /\ Powered'
    BY <1>1, <1>a, <1>b DEF requestAddDeviceQml
  <2> QED BY <2>3, <2>4, <2>5, <2>6
<1>2. ASSUME NEW a \in App, requestDelDevice(a) PROVE Kept
  <2>1. PICK n \in Num : down' = Append(down, SetMsg(a, Nobody, n))
    BY <1>2 DEF requestDelDevice
  <2>2. SetMsg(a, Nobody, n) \in Message /\ Gives(SetMsg(a, Nobody, n))
    BY <1>b, OwnerFacts, IdentityAssumption DEF SetMsg, Gives
  <2>3. LinkType' /\ AllGive'
    BY <1>0, <1>2, <2>1, <2>2, Sends DEF requestDelDevice
  <2>4. ServerType'
    BY <1>0, <1>2, AskType DEF requestDelDevice, ServerType, Request
  <2>5. DevType' /\ Solid' /\ PhoneType' /\ HistType' /\ CountType' /\ Powered'
    BY <1>2, <1>a, <1>b DEF requestDelDevice
  <2> QED BY <2>3, <2>4, <2>5
<1>3. ASSUME NEW a \in App, slotSendDownMsg(a) PROVE Kept
  <2> DEFINE m == CmdMsg(a, down_num[a], <<a, models[a]>>)
  <2>1. down_num[a] \in Num /\ models[a] \in Nat
    BY <1>0 DEF PhoneType
  <2>2. m \in Message /\ Gives(m)
    BY <2>1, MessageTypes DEF CmdMsg, Gives
  <2>3. down' = Append(down, m)
    BY <1>3 DEF slotSendDownMsg
  <2> HIDE DEF m
  <2>4. LinkType' /\ AllGive'
    BY <1>0, <1>3, <2>2, <2>3, Sends DEF slotSendDownMsg
  <2>5. NextNum(down_num[a]) \in Num
    BY <2>1, IdentityAssumption DEF NextNum, Num
  <2>6. PhoneType'
    BY <1>0, <1>3, <2>5 DEF slotSendDownMsg, PhoneType
  <2>7. DevType' /\ Solid' /\ ServerType' /\ HistType' /\ CountType' /\ Powered'
    BY <1>3, <1>a, <1>b DEF slotSendDownMsg
  <2> QED BY <2>4, <2>6, <2>7
<1>4. ASSUME NEW a \in App, requestDevList(a) PROVE Kept
  <2>1. ServerType'
    BY <1>0, <1>4, AskType DEF requestDevList, ServerType, Request
  <2>2. CountType'
    BY <1>0, <1>4, MembershipAssumption DEF requestDevList, CountType, Odd
  <2>3. DevType' /\ Solid' /\ LinkType' /\ AllGive' /\ PhoneType' /\ HistType' /\ Powered'
    BY <1>4, <1>a DEF requestDevList
  <2> QED BY <2>1, <2>2, <2>3
<1>5. ASSUME NEW a \in App, parseDeciceRecv(a) PROVE Kept
  <2>1. ServerType' /\ HistType'
    <3>1. CASE UNCHANGED <<toServer, stale>>
      BY <1>0, <1>5, <3>1 DEF parseDeciceRecv, ServerType, HistType
    <3>2. CASE Asks(a, "add_dev") /\ stale' = IF Leaving(a) THEN stale \cup {a} ELSE stale
      <4>1. toServer' \in [App -> Seq(Request)]
        BY <1>0, <3>2, AskType DEF Request
      <4> QED BY <1>0, <1>5, <3>2, <4>1 DEF parseDeciceRecv, ServerType, HistType
    <3> QED BY <1>5, <3>1, <3>2 DEF parseDeciceRecv, AddsByItself
  <2>2. LinkType' /\ AllGive'
    BY <1>0, <1>5 DEF parseDeciceRecv, LinkType, AllGive
  <2>3. DevType' /\ Solid' /\ PhoneType' /\ CountType' /\ Powered'
    BY <1>5, <1>a DEF parseDeciceRecv
  <2> QED BY <2>1, <2>2, <2>3
<1>6. ASSUME NEW a \in App, parseCenterRecv(a) PROVE Kept
  <2>1. ServerType'
    <3>1. Tail(toApp[a]) \in Seq(Answer)
      BY <1>0, <1>6, Tailed DEF parseCenterRecv, Answered, ServerType
    <3> QED BY <1>0, <1>6, <3>1 DEF parseCenterRecv, ServerType
  <2>2. NewModel(a) => down_num' \in [App -> Num] /\ models' \in [App -> Nat]
    BY <1>0 DEF NewModel, PhoneType
  <2>3. PhoneType'
    BY <1>0, <1>6, <2>2 DEF parseCenterRecv, Lists, Unlists, PhoneType
  <2>4. DevType' /\ Solid' /\ LinkType' /\ AllGive' /\ HistType' /\ CountType' /\ Powered'
    BY <1>6, <1>a DEF parseCenterRecv
  <2> QED BY <2>1, <2>3, <2>4
<1>7. ASSUME NEW a \in App, NEW cmd \in Request, NEW answer \in Answer,
             Serves(a, cmd, answer), stored' \subseteq App
      PROVE  Kept
  <2>1. ServerType'
    <3>1. Tail(toServer[a]) \in Seq(Request)
      BY <1>0, <1>7, Tailed DEF Serves, ServerType
    <3>2. Append(toApp[a], answer) \in Seq(Answer)
      BY <1>0, <1>7, Appended DEF ServerType
    <3> QED BY <1>0, <1>7, <3>1, <3>2 DEF Serves, ServerType
  <2>2. /\ DevType' /\ Solid' /\ LinkType' /\ AllGive' /\ PhoneType' /\ HistType'
        /\ CountType' /\ Powered'
    BY <1>7, <1>a DEF Serves
  <2> QED BY <2>1, <2>2
<1>8. ASSUME NEW a \in App, Server(a) PROVE Kept
  <2>1. stored' \subseteq App
    BY <1>0, <1>8 DEF Server, add_dev, del_dev, dev_list, ServerType
  <2> QED BY <1>7, <1>8, <2>1 DEF Server, add_dev, del_dev, dev_list, Request, Answer
<1>9. CASE app_ap01_send_status
  <2>1. LinkType' /\ AllGive'
    BY <1>0, <1>9 DEF app_ap01_send_status, LinkType, AllGive
  <2>2. /\ DevType' /\ Solid' /\ ServerType' /\ PhoneType' /\ HistType'
        /\ CountType' /\ Powered'
    BY <1>9, <1>a DEF app_ap01_send_status
  <2> QED BY <2>1, <2>2
<1>10. CASE Deliver
  <2>1. Head(down) \in Message /\ Gives(Head(down))
    <3>1. Head(down) \in Message /\ Head(down) = down[1] /\ 1 \in 1 .. Len(down)
      BY <1>0, <1>10, Tailed DEF Deliver, LinkType
    <3> QED BY <1>0, <3>1 DEF AllGive
  <2>2. DevType' /\ Solid' /\ Powered'
    BY <1>0, <1>10, <2>1, DeviceHears DEF Deliver
  <2>3. LinkType' /\ AllGive'
    BY <1>0, <1>10, Sheds DEF Deliver
  <2>4. HistType'
    <3>2. untaken' \subseteq App /\ seized' \subseteq App /\ stale' \subseteq App
      BY <1>0, <1>10 DEF Deliver, Untaken, Seized, HistType
    <3>3. rushed' \in BOOLEAN
      BY <1>10, Zenon DEF Deliver
    <3> QED BY <3>2, <3>3 DEF HistType
  <2>5. ServerType' /\ PhoneType' /\ CountType'
    BY <1>10, <1>a DEF Deliver
  <2> QED BY <2>2, <2>3, <2>4, <2>5
<1>11. CASE DeviceLives
  <2>1. DevType' /\ Solid' /\ Powered'
    BY <1>0, <1>11, DeviceSteps DEF DeviceLives
  <2>2. LinkType' /\ AllGive' /\ ServerType' /\ PhoneType' /\ HistType' /\ CountType'
    BY <1>11, <1>a DEF DeviceLives
  <2> QED BY <2>1, <2>2
<1>12. CASE PowerFailure
  <2>1. DevType' /\ Solid'
    BY <1>0, <1>12, OwnerFacts, IdentityAssumption
    DEF PowerFailure, PowerFails, idVars, numVars, DevType, Solid
  <2>2. CountType' /\ fails' # 0
    BY <1>0, <1>12, MembershipAssumption DEF PowerFailure, CountType, Odd
  <2>3. Powered'
    BY <1>12, <2>2 DEF PowerFailure, PowerFails, Powered
  <2>4. LinkType' /\ AllGive' /\ ServerType' /\ PhoneType' /\ HistType'
    BY <1>12, <1>a DEF PowerFailure
  <2> QED BY <2>1, <2>2, <2>3, <2>4
<1>13. CASE Loss
  <2>1. CountType' /\ fails' = fails
    BY <1>0, <1>13, MembershipAssumption DEF Loss, CountType, Odd
  <2>2. DevType' /\ Solid' /\ Powered' /\ PhoneType' /\ HistType'
    BY <1>13, <1>a, <2>1 DEF Loss
  <2>3. UNCHANGED <<up, stored>>
    BY <1>13 DEF Loss
  <2>4. CASE down # <<>> /\ down' = Tail(down) /\ UNCHANGED <<toServer, toApp>>
    <3>1. LinkType' /\ AllGive'
      BY <1>0, <2>3, <2>4, Sheds
    <3> QED BY <1>a, <2>1, <2>2, <2>3, <2>4, <3>1
  <2>5. ASSUME NEW a \in App, toServer[a] # <<>>,
               toServer' = [toServer EXCEPT ![a] = Tail(@)], UNCHANGED <<down, toApp>>
        PROVE  Kept
    <3>1. Tail(toServer[a]) \in Seq(Request)
      BY <1>0, <2>5, Tailed DEF ServerType
    <3>2. ServerType'
      BY <1>0, <2>3, <2>5, <3>1 DEF ServerType
    <3> QED BY <1>a, <2>1, <2>2, <2>3, <2>5, <3>2
  <2>6. ASSUME NEW a \in App, toApp[a] # <<>>,
               toApp' = [toApp EXCEPT ![a] = Tail(@)], UNCHANGED <<down, toServer>>
        PROVE  Kept
    <3>1. Tail(toApp[a]) \in Seq(Answer)
      BY <1>0, <2>6, Tailed DEF ServerType
    <3>2. ServerType'
      BY <1>0, <2>3, <2>6, <3>1 DEF ServerType
    <3> QED BY <1>a, <2>1, <2>2, <2>3, <2>6, <3>2
  <2> QED BY <1>13, <2>4, <2>5, <2>6 DEF Loss
<1>14. CASE UNCHANGED vars
  BY <1>14, <1>a DEF vars, devVars
<1> HIDE DEF Kept
<1> QED
  BY <1>1, <1>2, <1>3, <1>4, <1>5, <1>6, <1>8, <1>9, <1>10, <1>11, <1>12, <1>13, <1>14
  DEF Next, User, Phone

\* Every variable of the membership of a device keeps its type.
THEOREM TypeCorrect == Spec => []TypeOK
<1>1. MInv => TypeOK
  BY DEF MInv
<1> QED BY <1>1, MembershipInit, MembershipNext, PTL DEF Spec

\* What a running device believes is stored, and subscribed over a connection of
\* its own; only a failure of the power, or a SET_APP_ID obeyed while its reset is
\* due, makes it lose what it is.
THEOREM IdentityIsKept == Spec => []IdentityKept
<1>1. MInv => IdentityKept
  <2>1. MInv => fails \in Nat /\ Powered /\ Solid
    BY TypeParts DEF MInv, CountType
  <2>2. Powered /\ Lost => fails # 0 \/ rushed
    BY DEF Powered, Lost
  <2>3. Solid => Rooted
    BY DEF Solid, Rooted
  <2> QED BY <2>1, <2>2, <2>3 DEF IdentityKept
<1> QED BY <1>1, MembershipInit, MembershipNext, PTL DEF Spec

LEMMA FirstGives ==
  ASSUME MInv, down # <<>>
  PROVE  Head(down) \in Message /\ Gives(Head(down))
<1>1. Head(down) \in Message /\ Head(down) = down[1] /\ 1 \in 1 .. Len(down)
  BY Tailed DEF MInv, TypeOK
<1> QED BY <1>1 DEF MInv, AllGive

\* Who leaves the application alone.
LEMMA OthersLeave ==
  ASSUME [Next]_vars, ~Deliver, ~DeviceLives
  PROVE  UNCHANGED <<app_id, eeprom, sn>> /\ (run' = run \/ run' = "off")
<1> USE DEF devVars, idVars
<1>1. ASSUME NEW a \in App, User(a) \/ Phone(a) \/ Server(a) PROVE UNCHANGED devVars
  BY <1>1 DEF User, Phone, Server, requestAddDeviceQml, requestDelDevice, slotSendDownMsg,
              requestDevList, parseDeciceRecv, parseCenterRecv, add_dev, del_dev, dev_list,
              Serves
<1>2. CASE app_ap01_send_status \/ Loss \/ UNCHANGED vars
  BY <1>2 DEF app_ap01_send_status, Loss, vars
<1>3. CASE PowerFailure
  BY <1>3 DEF PowerFailure, PowerFails
<1> QED BY <1>1, <1>2, <1>3 DEF Next

LEMMA HandsOver ==
  ASSUME MInv, [Next]_vars, app_id' # app_id, link = "joined", ~armed
  PROVE  Nobody \in {app_id, app_id'}
<1>1. DevType /\ Solid
  BY TypeParts DEF MInv
<1>2. CASE Deliver
  <2> DEFINE m == Head(down)
  <2>1. Gives(m) /\ drv_server_recv_parse(m)
    BY <1>2, FirstGives DEF Deliver
  <2> HIDE DEF m
  <2>2. Hears(m) /\ SetAppId(m)
    BY <2>1 DEF drv_server_recv_parse, CmdParse, devVars, idVars
  <2>3. app_id = m.to /\ app_id' = m.app
    BY <1>1, <2>2 DEF Hears, SetAppId, Solid
  <2> QED BY <2>1, <2>2, <2>3 DEF Gives, SetAppId
<1>3. CASE DeviceLives
  <2>1. CASE Start
    BY <1>1, <2>1 DEF Start, Read, Solid
  <2>2. CASE ~Start
    BY <1>3, <2>2 DEF DeviceLives, Lives, WriteEnds, drv_system_reset, Watchdog, ModuleReset,
                      Connect, Subscribe, idVars
  <2> QED BY <2>1, <2>2
<1>4. CASE ~Deliver /\ ~DeviceLives
  BY <1>4, OthersLeave
<1> QED BY <1>2, <1>3, <1>4

\* Over a connection of its own, and until its reset is due, a device never goes
\* from one application to another but through none.
THEOREM HandedOver == Spec => HandOver
<1>1. MInv /\ [Next]_vars =>
        [app_id' # app_id /\ link = "joined" /\ ~armed => Nobody \in {app_id, app_id'}]_vars
  BY HandsOver
<1> QED BY <1>1, MembershipInit, MembershipNext, PTL DEF Spec, HandOver

-----------------------------------------------------------------------------
(***************************************************************************)
(* Ghosts.  A queue whose elements put x into a set X or take it out, the  *)
(* last one of either kind deciding: whether x is in the set when all of   *)
(* them have been handled.                                                 *)
(***************************************************************************)
Final(s, on, off, x, X) ==
  \/ \E i \in 1 .. Len(s) : s[i] \in on /\ \A j \in 1 .. Len(s) : i < j => s[j] \notin off
  \/ x \in X /\ \A j \in 1 .. Len(s) : s[j] \notin off

LEMMA FinalAppended ==
  ASSUME NEW S, NEW s \in Seq(S), NEW e \in S, NEW on, NEW off, NEW x, NEW X
  PROVE  Final(Append(s, e), on, off, x, X)
           <=> e \in on \/ (e \notin off /\ Final(s, on, off, x, X))
<1> DEFINE n == Len(s)
           l == Append(s, e)
<1>1. /\ n \in Nat /\ Len(l) = n + 1 /\ l[n + 1] = e
      /\ \A j \in 1 .. n : l[j] = s[j]
  BY Appended
<1>2. \A j \in 1 .. n + 1 : j \in 1 .. n \/ j = n + 1
  BY <1>1
<1>3. n + 1 \in 1 .. n + 1 /\ \A j \in 1 .. n : j \in 1 .. n + 1 /\ j < n + 1
  BY <1>1
<1>4. ASSUME e \in on PROVE Final(l, on, off, x, X)
  <2>1. \A j \in 1 .. n + 1 : ~(n + 1 < j)
    BY <1>1
  <2> QED BY <1>1, <1>3, <1>4, <2>1 DEF Final
<1> HIDE DEF n, l
<1>5. ASSUME e \notin off, Final(s, on, off, x, X) PROVE Final(l, on, off, x, X)
  <2>1. CASE x \in X /\ \A j \in 1 .. n : s[j] \notin off
    <3>1. \A j \in 1 .. n + 1 : l[j] \notin off
      BY <1>1, <1>2, <1>5, <2>1
    <3> QED BY <1>1, <2>1, <3>1 DEF Final
  <2>2. ASSUME NEW i \in 1 .. n, s[i] \in on, \A j \in 1 .. n : i < j => s[j] \notin off
        PROVE  Final(l, on, off, x, X)
    <3>1. \A j \in 1 .. n + 1 : i < j => l[j] \notin off
      BY <1>1, <1>2, <1>5, <2>2
    <3>2. i \in 1 .. n + 1 /\ l[i] \in on
      BY <1>1, <1>3, <2>2
    <3> QED BY <1>1, <3>1, <3>2 DEF Final
  <2> QED BY <1>5, <2>1, <2>2 DEF Final, n
<1>6. ASSUME Final(l, on, off, x, X), e \notin on PROVE e \notin off /\ Final(s, on, off, x, X)
  <2>1. CASE x \in X /\ \A j \in 1 .. n + 1 : l[j] \notin off
    <3>1. \A j \in 1 .. n : s[j] \notin off
      BY <1>1, <1>3, <2>1
    <3> QED BY <1>1, <1>3, <2>1, <3>1 DEF Final, n
  <2>2. ASSUME NEW i \in 1 .. n + 1, l[i] \in on,
               \A j \in 1 .. n + 1 : i < j => l[j] \notin off
        PROVE  e \notin off /\ Final(s, on, off, x, X)
    <3>1. i \in 1 .. n
      BY <1>1, <1>2, <1>6, <2>2
    <3>2. e \notin off /\ s[i] \in on /\ \A j \in 1 .. n : i < j => s[j] \notin off
      BY <1>1, <1>3, <2>2, <3>1
    <3> QED BY <3>1, <3>2 DEF Final, n
  <2> QED BY <1>1, <1>6, <2>1, <2>2 DEF Final
<1> QED BY <1>4, <1>5, <1>6 DEF l

LEMMA FinalTaken ==
  ASSUME NEW S, NEW s \in Seq(S), s # <<>>, NEW on, NEW off, NEW x, NEW X, NEW Y,
         x \in Y <=> Head(s) \in on \/ (Head(s) \notin off /\ x \in X)
  PROVE  Final(s, on, off, x, X) <=> Final(Tail(s), on, off, x, Y)
<1> DEFINE n == Len(s)
           l == Tail(s)
           e == Head(s)
<1>1. /\ n \in Nat \ {0} /\ Len(l) = n - 1 /\ e = s[1]
      /\ \A j \in 1 .. n - 1 : l[j] = s[j + 1]
  BY Tailed
<1>2. \A j \in 1 .. n - 1 : j + 1 \in 1 .. n /\ j < j + 1
  BY <1>1
<1>3. \A j \in 1 .. n : j = 1 \/ (j - 1 \in 1 .. n - 1 /\ (j - 1) + 1 = j)
  BY <1>1
<1>4. 1 \in 1 .. n /\ (x \in Y <=> e \in on \/ (e \notin off /\ x \in X))
  BY <1>1
<1> HIDE DEF n, l, e
<1>5. \A j \in 1 .. n : j # 1 => j - 1 \in 1 .. n - 1 /\ s[j] = l[j - 1]
  BY <1>1, <1>3
<1>6. ASSUME Final(s, on, off, x, X)
      PROVE  Final(l, on, off, x, Y)
  <2>1. CASE x \in X /\ \A j \in 1 .. n : s[j] \notin off
    <3>1. e \notin off /\ \A j \in 1 .. n - 1 : l[j] \notin off
      BY <1>1, <1>2, <1>4, <2>1
    <3> QED BY <1>1, <1>4, <2>1, <3>1 DEF Final
  <2>2. ASSUME NEW i \in 1 .. n, s[i] \in on, \A j \in 1 .. n : i < j => s[j] \notin off
        PROVE  Final(l, on, off, x, Y)
    <3>1. CASE i = 1
      <4>1. e \in on
        BY <1>1, <2>2, <3>1
      <4>2. \A j \in 1 .. n - 1 : 1 < j + 1
        BY <1>1
      <4>3. \A j \in 1 .. n - 1 : l[j] \notin off
        BY <1>1, <1>2, <2>2, <3>1, <4>2
      <4> QED BY <1>1, <1>4, <4>1, <4>3 DEF Final
    <3>2. CASE i # 1
      <4>1. i - 1 \in 1 .. n - 1 /\ l[i - 1] \in on
        BY <1>5, <2>2, <3>2
      <4>2. \A j \in 1 .. n - 1 : i - 1 < j => i < j + 1
        BY <1>1
      <4>3. \A j \in 1 .. n - 1 : i - 1 < j => l[j] \notin off
        BY <1>1, <1>2, <2>2, <4>2
      <4> QED BY <1>1, <4>1, <4>3 DEF Final
    <3> QED BY <3>1, <3>2
  <2> QED BY <1>6, <2>1, <2>2 DEF Final, n
<1>7. ASSUME Final(l, on, off, x, Y) PROVE Final(s, on, off, x, X)
  <2>1. ASSUME NEW i \in 1 .. n - 1, l[i] \in on,
               \A j \in 1 .. n - 1 : i < j => l[j] \notin off
        PROVE  Final(s, on, off, x, X)
    <3>1. i + 1 \in 1 .. n /\ s[i + 1] \in on
      BY <1>1, <1>2, <2>1
    <3>2. \A j \in 1 .. n : i + 1 < j => j # 1 /\ i < j - 1
      BY <1>1
    <3>3. \A j \in 1 .. n : i + 1 < j => s[j] \notin off
      BY <1>5, <2>1, <3>2
    <3> QED BY <3>1, <3>3 DEF Final, n
  <2>2. CASE \A j \in 1 .. n - 1 : l[j] \notin off
    <3>1. \A j \in 1 .. n : j # 1 => s[j] \notin off
      BY <1>5, <2>2
    <3>2. CASE e \in on
      <4>1. \A j \in 1 .. n : 1 < j => j # 1
        BY <1>1
      <4>2. \A j \in 1 .. n : 1 < j => s[j] \notin off
        BY <3>1, <4>1
      <4> QED BY <1>1, <1>4, <3>2, <4>2 DEF Final, n
    <3>3. CASE e \notin off /\ x \in X
      <4>1. \A j \in 1 .. n : s[j] \notin off
        BY <1>1, <3>1, <3>3
      <4> QED BY <3>3, <4>1 DEF Final, n
    <3>4. CASE ~(e \in on \/ (e \notin off /\ x \in X))
      BY <1>1, <1>4, <1>7, <2>1, <3>4 DEF Final
    <3> QED BY <3>2, <3>3, <3>4
  <2> QED BY <1>1, <1>7, <2>1, <2>2 DEF Final
<1> QED BY <1>6, <1>7 DEF l, e

\* The server will have the device, and the phone will list it.
Ends(a) == Final(toServer[a], {"add_dev"}, {"del_dev"}, a, stored)
Shows(a) == Final(toApp[a], {"added", "list_with"}, {"deleted", "list_without"}, a, listed)

\* SET_APP_IDs that give the device to application a, and those that take it away.
Given(a) == {m \in Message : m.cmd = "set_app_id" /\ m.app = a}
Taken(a) == {m \in Message : m.cmd = "set_app_id" /\ m.to = a}
Settles(a) == Final(down, Given(a), Taken(a), a, {app_id})

\* Without losses the phone comes to list what the server has stored.
Mirrored == lost = 0 => \A a \in App : Shows(a) <=> a \in stored

\* What the server will store is, but for the reasons, what the device will be.
Explained ==
  lost = 0 /\ ~Lost =>
    \A a \in App : Ends(a) => a \in stale \cup untaken \cup seized \/ Settles(a)

\* A device that lost what it is does not find it again.
LEMMA LostForGood ==
  ASSUME MInv, [Next]_vars, Lost
  PROVE  Lost'
<1>1. sn \in {"own", "blank"}
  BY DEF MInv, TypeOK
<1>2. CASE Deliver
  <2>1. UNCHANGED devVars \/ (Hears(Head(down)) /\ sn' = sn)
    BY <1>2 DEF Deliver, drv_server_recv_parse, SetAppId, CmdParse, idVars
  <2> QED BY <2>1 DEF Hears, Lost, devVars, idVars
<1>3. CASE DeviceLives
  <2>1. CASE Start
    BY <1>1, <2>1 DEF Start, Lost
  <2>2. CASE ~Start
    BY <1>3, <2>2 DEF DeviceLives, Lives, WriteEnds, drv_system_reset, Watchdog, ModuleReset,
                      Connect, Subscribe, idVars, Lost
  <2> QED BY <2>1, <2>2
<1>4. CASE ~Deliver /\ ~DeviceLives
  BY <1>4, OthersLeave DEF Lost
<1> QED BY <1>2, <1>3, <1>4

LEMMA Asked ==
  ASSUME ServerType, NEW a \in App, NEW r \in Request, Asks(a, r), UNCHANGED stored
  PROVE  /\ Ends(a)' <=> r = "add_dev" \/ (r # "del_dev" /\ Ends(a))
         /\ \A b \in App \ {a} : Ends(b)' <=> Ends(b)
<1>1. toServer[a] \in Seq(Request) /\ toServer'[a] = Append(toServer[a], r)
      /\ \A b \in App \ {a} : toServer'[b] = toServer[b]
  BY DEF ServerType, Asks
<1>2. Final(Append(toServer[a], r), {"add_dev"}, {"del_dev"}, a, stored)
        <=> r \in {"add_dev"} \/ (r \notin {"del_dev"} /\ Ends(a))
  BY <1>1, FinalAppended DEF Ends
<1> QED BY <1>1, <1>2 DEF Ends

LEMMA ServedFinal ==
  ASSUME ServerType, NEW a \in App, NEW cmd \in Request, NEW answer \in Answer,
         Serves(a, cmd, answer),
         stored' = IF cmd = "add_dev" THEN stored \cup {a}
                   ELSE IF cmd = "del_dev" THEN stored \ {a} ELSE stored,
         answer \in {"added", "list_with"} => a \in stored',
         answer \in {"deleted", "list_without"} => a \notin stored',
         answer = "there_already" => a \in stored /\ a \in stored'
  PROVE  /\ \A b \in App : Ends(b)' <=> Ends(b)
         /\ (\A b \in App : Shows(b) <=> b \in stored)
              => \A b \in App : Shows(b)' <=> b \in stored'
<1>1. /\ toServer[a] \in Seq(Request) /\ toApp[a] \in Seq(Answer) /\ listed' = listed
      /\ toServer[a] # <<>> /\ Head(toServer[a]) = cmd
      /\ toServer'[a] = Tail(toServer[a]) /\ toApp'[a] = Append(toApp[a], answer)
      /\ \A b \in App \ {a} : toServer'[b] = toServer[b] /\ toApp'[b] = toApp[b]
  BY DEF ServerType, Serves, phoneVars
<1>2. \A b \in App \ {a} : b \in stored' <=> b \in stored
  OBVIOUS
<1>3. a \in stored' <=> Head(toServer[a]) \in {"add_dev"}
                        \/ (Head(toServer[a]) \notin {"del_dev"} /\ a \in stored)
  BY <1>1
<1>4. Final(toServer[a], {"add_dev"}, {"del_dev"}, a, stored)
        <=> Final(Tail(toServer[a]), {"add_dev"}, {"del_dev"}, a, stored')
  BY <1>1, <1>3, FinalTaken
<1>5. Ends(a)' <=> Ends(a)
  BY <1>1, <1>4 DEF Ends
<1>6. \A b \in App : Ends(b)' <=> Ends(b)
  BY <1>1, <1>2, <1>5, ZenonT(40) DEF Ends, Final
<1>7. Final(Append(toApp[a], answer), {"added", "list_with"}, {"deleted", "list_without"},
            a, listed)
        <=> \/ answer \in {"added", "list_with"}
            \/ answer \notin {"deleted", "list_without"} /\ Shows(a)
  BY <1>1, FinalAppended DEF Shows
<1>8. Shows(a)' <=> \/ answer \in {"added", "list_with"}
                    \/ answer \notin {"deleted", "list_without"} /\ Shows(a)
  BY <1>1, <1>7 DEF Shows
<1>9. ASSUME \A b \in App : Shows(b) <=> b \in stored
      PROVE  \A b \in App : Shows(b)' <=> b \in stored'
  <2>1. Shows(a)' <=> a \in stored'
    BY <1>8, <1>9 DEF Answer
  <2>2. \A b \in App \ {a} : Shows(b)' <=> b \in stored'
    BY <1>1, <1>2, <1>9 DEF Shows
  <2> QED BY <2>1, <2>2
<1> QED BY <1>6, <1>9

LEMMA ServerFinal ==
  ASSUME ServerType, NEW a \in App, Server(a)
  PROVE  /\ \A b \in App : Ends(b)' <=> Ends(b)
         /\ (\A b \in App : Shows(b) <=> b \in stored)
              => \A b \in App : Shows(b)' <=> b \in stored'
<1>1. CASE add_dev(a)
  BY <1>1, ServedFinal DEF add_dev, Request, Answer
<1>2. CASE del_dev(a)
  BY <1>2, ServedFinal DEF del_dev, Request, Answer
<1>3. CASE dev_list(a)
  BY <1>3, ServedFinal DEF dev_list, Request, Answer
<1> QED BY <1>1, <1>2, <1>3 DEF Server

LEMMA HandledFinal ==
  ASSUME ServerType, PhoneType, NEW a \in App, parseCenterRecv(a),
         \A b \in App : Shows(b) <=> b \in stored
  PROVE  \A b \in App : Shows(b)' <=> b \in stored'
<1>1. /\ toApp[a] \in Seq(Answer) /\ toApp[a] # <<>> /\ stored' = stored
      /\ toApp'[a] = Tail(toApp[a]) /\ \A b \in App \ {a} : toApp'[b] = toApp[b]
  BY DEF parseCenterRecv, ServerType, Answered
<1>2. \A b \in App \ {a} : b \in listed' <=> b \in listed
  BY DEF parseCenterRecv, Lists, Unlists, phoneVars
<1>3. a \in listed' <=> \/ Head(toApp[a]) \in {"added", "list_with"}
                        \/ Head(toApp[a]) \notin {"deleted", "list_without"} /\ a \in listed
  BY DEF parseCenterRecv, Answered, Lists, Unlists, phoneVars
<1>4. Final(toApp[a], {"added", "list_with"}, {"deleted", "list_without"}, a, listed)
        <=> Final(Tail(toApp[a]), {"added", "list_with"}, {"deleted", "list_without"},
                  a, listed')
  BY <1>1, <1>3, FinalTaken
<1>5. Shows(a)' <=> Shows(a)
  BY <1>1, <1>4 DEF Shows
<1>6. \A b \in App \ {a} : Shows(b)' <=> Shows(b)
  BY <1>1, <1>2 DEF Shows, Final
<1> QED BY <1>1, <1>5, <1>6

\* A SET_APP_ID that arrives has its effect, or its application is told apart as
\* untaken; and so is, as seized, the one that loses the device to another.
LEMMA DeliveredFinal ==
  ASSUME MInv, Deliver, NEW a \in App, Settles(a)
  PROVE  a \in untaken' \cup seized' \/ Settles(a)'
<1>1. down \in Seq(Message) /\ down # <<>> /\ Head(down) \in Message /\ down' = Tail(down)
  BY Tailed DEF MInv, TypeOK, Deliver
<1>2. PICK m \in Message : m = Head(down)
  BY <1>1
<1>3. Gives(m) /\ Solid /\ m.to \in Owner /\ m.app \in Owner
  BY <1>1, <1>2, FirstGives DEF MInv, Message
<1>4. drv_server_recv_parse(m) /\ untaken' = Untaken(m) /\ seized' = Seized
  BY <1>2 DEF Deliver
<1>5. CASE a \in untaken' \cup seized'
  BY <1>5
<1>6. CASE a \notin untaken' \cup seized'
  <2>1. m \in Given(a) => app_id' = a
    <3> SUFFICES ASSUME m.cmd = "set_app_id", m.app = a PROVE app_id' = a
      BY DEF Given
    <3>1. CASE Obeys(m)
      BY <1>4, <3>1 DEF drv_server_recv_parse, Obeys, SetAppId, CmdParse
    <3>2. CASE ~Obeys(m)
      <4>1. app_id = a
        BY <1>4, <1>6, <3>2 DEF Untaken
      <4> QED BY <1>4, <3>2, <4>1 DEF drv_server_recv_parse, Obeys, devVars, idVars
    <3> QED BY <3>1, <3>2
  <2>2. m \notin Taken(a) /\ app_id = a => app_id' = a
    <3> SUFFICES ASSUME m \notin Taken(a), app_id = a PROVE app_id' = a
      OBVIOUS
    <3>1. CASE Hears(m) /\ SetAppId(m)
      <4>1. m.cmd = "set_app_id" /\ topic = m.to /\ app_id' = m.app
        BY <3>1 DEF Hears, SetAppId
      <4>2. m.to # a
        BY <4>1 DEF Taken
      <4>3. m.to = Nobody
        BY <1>3, <4>1, <4>2, IdentityAssumption DEF Solid, Owner
      <4>4. m.app \in App
        BY <1>3, <4>1, <4>3 DEF Gives, Owner
      <4> QED BY <1>4, <1>6, <4>1, <4>4 DEF Seized
    <3>2. CASE app_id' = app_id
      BY <3>2
    <3> QED BY <1>4, <3>1, <3>2 DEF drv_server_recv_parse, CmdParse, devVars, idVars
  <2>3. PICK X : X = IF m \in Given(a) \/ (m \notin Taken(a) /\ app_id = a) THEN {a} ELSE {}
    OBVIOUS
  <2>4. a \in X <=> \/ Head(down) \in Given(a)
                    \/ Head(down) \notin Taken(a) /\ a \in {app_id}
    BY <1>2, <2>3
  <2>5. Final(Tail(down), Given(a), Taken(a), a, X)
    BY <1>1, <2>4, FinalTaken DEF Settles
  <2>6. a \in X => a \in {app_id'}
    BY <2>1, <2>2, <2>3
  <2>7. Final(Tail(down), Given(a), Taken(a), a, {app_id'})
    BY <2>5, <2>6 DEF Final
  <2> QED BY <1>1, <2>7 DEF Settles, Given, Taken
<1> QED BY <1>5, <1>6

\* A message is sent: who gets the device, or nobody does.
LEMMA SentFinal ==
  ASSUME LinkType, NEW m \in Message, down' = Append(down, m), UNCHANGED app_id, NEW a \in App
  PROVE  Settles(a)' <=> m \in Given(a) \/ (m \notin Taken(a) /\ Settles(a))
<1>1. Final(Append(down, m), Given(a), Taken(a), a, {app_id})
        <=> m \in Given(a) \/ (m \notin Taken(a) /\ Settles(a))
  BY FinalAppended DEF LinkType, Settles
<1> QED BY <1>1 DEF Settles, Given, Taken

\* A report of a device that stays makes the phone add it rightly.
LEMMA StaysFinal ==
  ASSUME MInv, NEW a \in App, ~Leaving(a)
  PROVE  Settles(a)
<1>1. \A i \in 1 .. Len(down) : ~(down[i].cmd = "set_app_id" /\ down[i].to = a)
  BY DEF Leaving
<1>2. \A i \in 1 .. Len(down) : down[i] \notin Taken(a)
  BY <1>1 DEF Taken
<1>3. a \in {app_id}
  BY DEF Leaving
<1> QED BY <1>2, <1>3 DEF Settles, Final

LEMMA GhostNext ==
  ASSUME MInv, MInv', Mirrored, Explained, [Next]_vars
  PROVE  Mirrored' /\ Explained'
<1>1. LinkType /\ ServerType /\ PhoneType /\ HistType /\ CountType /\ Solid /\ Powered
  BY TypeParts DEF MInv
<1> DEFINE Why(a) == a \in stale \cup untaken \cup seized \/ Settles(a)
<1>2. /\ UNCHANGED <<toServer, stored>> => \A a \in App : Ends(a)' <=> Ends(a)
      /\ UNCHANGED <<toApp, listed>> => \A a \in App : Shows(a)' <=> Shows(a)
      /\ UNCHANGED <<down, app_id>> => \A a \in App : Settles(a)' <=> Settles(a)
  BY DEF Ends, Shows, Settles, Final, Given, Taken
<1> HIDE DEF Why
\* Steps that leave the answers and what is stored and listed alone.
<1>3. ASSUME UNCHANGED <<toApp, listed, stored, lost>> PROVE Mirrored'
  BY <1>2, <1>3 DEF Mirrored
<1>4. ASSUME UNCHANGED lost,
             ~Lost' => \A a \in App : Ends(a)' /\ (Ends(a) => Why(a)) => Why(a)'
      PROVE  Explained'
  BY <1>4, LostForGood DEF Explained, Why
<1>5. ASSUME UNCHANGED <<toServer, stored, untaken, stale, seized, down, app_id, lost>>
      PROVE  Explained'
  BY <1>2, <1>4, <1>5 DEF Why
<1>6. ASSUME NEW a \in App, requestAddDeviceQml(a) PROVE Mirrored' /\ Explained'
  <2>1. PICK n \in Num : down' = Append(down, SetMsg(Nobody, a, n))
    BY <1>6 DEF requestAddDeviceQml
  <2>2. PICK m \in Message : m = SetMsg(Nobody, a, n)
    BY MessageTypes, OwnerFacts
  <2>3. /\ UNCHANGED <<toApp, listed, stored, lost, app_id>>
        /\ stale' = stale \ {a} /\ untaken' = untaken \ {a} /\ seized' = seized \ {a}
    BY <1>6 DEF requestAddDeviceQml, UserActs, phoneVars, devVars, idVars
  <2>4. m \in Given(a) /\ \A b \in App : m \notin Taken(b)
    BY <2>2, IdentityAssumption DEF SetMsg, Given, Taken
  <2>5. \A b \in App : Settles(b)' <=> m \in Given(b) \/ Settles(b)
    BY <1>1, <2>1, <2>2, <2>3, <2>4, SentFinal
  <2>6. \A b \in App \ {a} : Ends(b)' <=> Ends(b)
    BY <1>1, <1>6, <2>3, Asked DEF requestAddDeviceQml, Request
  <2>7. \A b \in App : Ends(b)' /\ (Ends(b) => Why(b)) => Why(b)'
    BY <2>3, <2>4, <2>5, <2>6 DEF Why
  <2> QED BY <1>3, <1>4, <2>3, <2>7
<1>7. ASSUME NEW a \in App, requestDelDevice(a) PROVE Mirrored' /\ Explained'
  <2>1. PICK n \in Num : down' = Append(down, SetMsg(a, Nobody, n))
    BY <1>7 DEF requestDelDevice
  <2>2. PICK m \in Message : m = SetMsg(a, Nobody, n)
    BY MessageTypes, OwnerFacts
  <2>3. UNCHANGED <<toApp, listed, stored, lost, app_id, stale, untaken, seized>>
    BY <1>7 DEF requestDelDevice, UserActs, phoneVars, devVars, idVars, histVars
  <2>4. \A b \in App \ {a} : m \notin Taken(b)
    BY <2>2 DEF SetMsg, Taken
  <2>5. \A b \in App \ {a} : Settles(b) => Settles(b)'
    BY <1>1, <2>1, <2>2, <2>3, <2>4, SentFinal
  <2>6. ~Ends(a)' /\ \A b \in App \ {a} : Ends(b)' <=> Ends(b)
    BY <1>1, <1>7, <2>3, Asked DEF requestDelDevice, Request
  <2>7. \A b \in App : Ends(b)' /\ (Ends(b) => Why(b)) => Why(b)'
    BY <2>3, <2>5, <2>6 DEF Why
  <2> QED BY <1>3, <1>4, <2>3, <2>7
<1>8. ASSUME NEW a \in App, slotSendDownMsg(a) PROVE Mirrored' /\ Explained'
  <2>1. down_num[a] \in Num /\ models[a] \in Nat
    BY <1>1 DEF PhoneType
  <2>2. PICK m \in Message : m = CmdMsg(a, down_num[a], <<a, models[a]>>)
    BY <2>1, MessageTypes
  <2>3. /\ UNCHANGED <<toApp, listed, stored, lost, app_id, stale, untaken, seized, toServer>>
        /\ down' = Append(down, m)
    BY <1>8, <2>2 DEF slotSendDownMsg, UserActs, serverVars, devVars, idVars, histVars
  <2>4. \A b \in App : m \notin Taken(b)
    BY <2>2 DEF CmdMsg, Taken
  <2>5. \A b \in App : Settles(b) => Settles(b)'
    BY <1>1, <2>3, <2>4, SentFinal
  <2>6. \A b \in App : Ends(b)' /\ (Ends(b) => Why(b)) => Why(b)'
    BY <1>2, <2>3, <2>5 DEF Why
  <2> QED BY <1>3, <1>4, <2>3, <2>6
<1>9. ASSUME NEW a \in App, requestDevList(a) PROVE Mirrored' /\ Explained'
  <2>1. UNCHANGED <<toApp, listed, stored, lost, app_id, stale, untaken, seized, down>>
    BY <1>9 DEF requestDevList, phoneVars, devVars, idVars, histVars
  <2>2. \A b \in App : Ends(b)' <=> Ends(b)
    BY <1>1, <1>9, <2>1, Asked DEF requestDevList, Request
  <2>3. \A b \in App : Ends(b)' /\ (Ends(b) => Why(b)) => Why(b)'
    BY <1>2, <2>1, <2>2 DEF Why
  <2> QED BY <1>3, <1>4, <2>1, <2>3
<1>10. ASSUME NEW a \in App, parseDeciceRecv(a) PROVE Mirrored' /\ Explained'
  <2>1. UNCHANGED <<toApp, listed, stored, lost, app_id, untaken, seized, down>>
    BY <1>10 DEF parseDeciceRecv, phoneVars, devVars, idVars, countVars
  <2>2. CASE a \in listed
    <3>1. UNCHANGED <<toServer, stale>>
      BY <1>10, <2>2 DEF parseDeciceRecv, AddsByItself
    <3> QED BY <1>3, <1>5, <2>1, <3>1
  <2>3. CASE a \notin listed
    <3>1. Asks(a, "add_dev") /\ stale' = IF Leaving(a) THEN stale \cup {a} ELSE stale
      BY <1>10, <2>3 DEF parseDeciceRecv, AddsByItself
    <3>2. \A b \in App \ {a} : Ends(b)' <=> Ends(b)
      BY <1>1, <2>1, <3>1, Asked DEF Request
    <3>3. a \in stale' \/ Settles(a)
      BY <3>1, StaysFinal
    <3>4. \A b \in App : Ends(b)' /\ (Ends(b) => Why(b)) => Why(b)'
      BY <1>2, <2>1, <3>1, <3>2, <3>3 DEF Why
    <3> QED BY <1>3, <1>4, <2>1, <3>4
  <2> QED BY <2>2, <2>3
<1>11. ASSUME NEW a \in App, parseCenterRecv(a) PROVE Mirrored' /\ Explained'
  <2>1. UNCHANGED <<toServer, stored, untaken, stale, seized, down, app_id, lost>>
    BY <1>11 DEF parseCenterRecv, devVars, idVars, histVars, countVars
  <2>2. Mirrored'
    BY <1>1, <1>11, <2>1, HandledFinal DEF Mirrored
  <2> QED BY <1>5, <2>1, <2>2
<1>12. ASSUME NEW a \in App, Server(a) PROVE Mirrored' /\ Explained'
  <2>1. UNCHANGED <<untaken, stale, seized, down, app_id, lost>>
    BY <1>12 DEF Server, add_dev, del_dev, dev_list, Serves, devVars, idVars, histVars, countVars
  <2>2. \A b \in App : Ends(b)' <=> Ends(b)
    BY <1>1, <1>12, ServerFinal
  <2>3. Mirrored'
    BY <1>1, <1>12, <2>1, ServerFinal DEF Mirrored
  <2>4. \A b \in App : Ends(b)' /\ (Ends(b) => Why(b)) => Why(b)'
    BY <1>2, <2>1, <2>2 DEF Why
  <2> QED BY <1>4, <2>1, <2>3, <2>4
<1>13. CASE app_ap01_send_status
  <2>1. UNCHANGED <<toServer, toApp, listed, stored, untaken, stale, seized, down, app_id, lost>>
    BY <1>13 DEF app_ap01_send_status, devVars, idVars, serverVars, phoneVars, histVars, countVars
  <2> QED BY <1>3, <1>5, <2>1
<1>14. CASE Deliver
  <2>1. UNCHANGED <<toServer, toApp, listed, stored, stale, lost>>
    BY <1>14 DEF Deliver, serverVars, phoneVars, countVars
  <2>2. \A a \in App : a \in untaken \cup seized => a \in untaken' \cup seized'
    BY <1>14 DEF Deliver, Untaken, Seized
  <2>3. \A a \in App : Settles(a) => a \in untaken' \cup seized' \/ Settles(a)'
    BY <1>14, DeliveredFinal
  <2>4. \A b \in App : Ends(b)' /\ (Ends(b) => Why(b)) => Why(b)'
    BY <1>2, <2>1, <2>2, <2>3 DEF Why
  <2> QED BY <1>3, <1>4, <2>1, <2>4
<1>15. CASE DeviceLives
  <2>1. UNCHANGED <<toServer, toApp, listed, stored, untaken, stale, seized, down, lost>>
    BY <1>15 DEF DeviceLives, serverVars, phoneVars, histVars, countVars
  <2>2. ~Lost' => app_id' = app_id
    <3>1. CASE Start
      BY <1>1, <3>1 DEF Start, Read, Solid, Lost
    <3>2. CASE ~Start
      BY <1>15, <3>2 DEF DeviceLives, Lives, WriteEnds, drv_system_reset, Watchdog, ModuleReset,
                         Connect, Subscribe, idVars
    <3> QED BY <3>1, <3>2
  <2>3. ~Lost' => \A b \in App : Ends(b)' /\ (Ends(b) => Why(b)) => Why(b)'
    BY <1>2, <2>1, <2>2 DEF Why
  <2> QED BY <1>3, <1>4, <2>1, <2>3
<1>16. CASE PowerFailure
  <2>1. UNCHANGED <<toServer, toApp, listed, stored, untaken, stale, seized, down, app_id, lost>>
    BY <1>16 DEF PowerFailure, PowerFails, idVars, serverVars, phoneVars, histVars
  <2> QED BY <1>3, <1>5, <2>1
<1>17. CASE Loss
  <2>1. lost' # 0
    BY <1>1, <1>17 DEF Loss, CountType
  <2> QED BY <2>1 DEF Mirrored, Explained
<1>18. CASE UNCHANGED vars
  <2>1. UNCHANGED <<toServer, toApp, listed, stored, untaken, stale, seized, down, app_id, lost>>
    BY <1>18 DEF vars, devVars, idVars, serverVars, phoneVars, histVars, countVars
  <2> QED BY <1>3, <1>5, <2>1
<1> QED BY <1>6, <1>7, <1>8, <1>9, <1>10, <1>11, <1>12, <1>13, <1>14, <1>15, <1>16, <1>17,
          <1>18 DEF Next, User, Phone

LEMMA GhostInit == Init => Mirrored /\ Explained
<1> SUFFICES ASSUME Init, NEW a \in App PROVE (Shows(a) <=> a \in stored) /\ ~Ends(a)
  BY DEF Mirrored, Explained
<1>1. Len(toServer[a]) = 0 /\ Len(toApp[a]) = 0 /\ a \notin stored /\ a \notin listed
  BY DEF Init
<1> QED BY <1>1 DEF Shows, Ends, Final

LEMMA GhostsExplained == MInv /\ Mirrored /\ Explained => GhostHasReason
<1> SUFFICES ASSUME Mirrored, Explained, lost = 0, sn = "own", NEW a \in App, Rest(a),
                    a \in listed, app_id # a
             PROVE  a \in stale \cup untaken \cup seized
  BY DEF GhostHasReason
<1>1. Len(toServer[a]) = 0 /\ Len(toApp[a]) = 0 /\ Len(down) = 0
  BY DEF Rest
<1>2. Shows(a)
  BY <1>1 DEF Shows, Final
<1>3. Ends(a)
  BY <1>1, <1>2 DEF Mirrored, Ends, Final
<1>4. ~Settles(a)
  BY <1>1 DEF Settles, Final
<1>5. ~Lost
  BY DEF Rest, Lost
<1> QED BY <1>3, <1>4, <1>5 DEF Explained

\* Without losses, a phone at rest lists a device that still is what it was but not
\* its application's only if the device did not take a SET_APP_ID of it, took that
\* of another phone over the same connection or in the moments before its reset, or
\* was leaving when a report of it made the phone add it again.
THEOREM GhostsHaveReason == Spec => []GhostHasReason
<1>1. Init => MInv /\ Mirrored /\ Explained
  BY MembershipInit, GhostInit
<1>2. MInv /\ Mirrored /\ Explained /\ [Next]_vars => (MInv /\ Mirrored /\ Explained)'
  BY MembershipNext, GhostNext
<1>3. MInv /\ Mirrored /\ Explained => GhostHasReason
  BY GhostsExplained
<1> QED BY <1>1, <1>2, <1>3, PTL DEF Spec

-----------------------------------------------------------------------------
(* A command that the device drops: its number against the device's last one *)

\* Before the first user nobody knows the device.
Unused ==
  user = 0 =>
    /\ app_id = Nobody /\ stored = {} /\ listed = {} /\ up = {} /\ down = <<>>
    /\ \A a \in App : /\ \A i \in 1 .. Len(toServer[a]) : toServer[a][i] = "dev_list"
                      /\ \A i \in 1 .. Len(toApp[a]) : toApp[a][i] = "list_without"

\* A number is of a model that its phone has made.
Drawn(o) == \A a \in App, k \in Nat : o = <<a, k>> => k <= models[a]
Commands == {m \in Message : m.cmd = "command"}

Sourced ==
  /\ Drawn(last)
  /\ \A i \in 1 .. Len(down) : /\ Drawn(down[i].of)
                               /\ down[i].of[1] \in App <=> down[i] \in Commands

\* Commands under one model's numbers differ in their numbers ...
Distinct ==
  \A i, j \in 1 .. Len(down) :
    i < j /\ down[i] \in Commands /\ down[j].of = down[i].of => down[i].num # down[j].num

\* ... among them from the last one the device took ...
Newer == \A i \in 1 .. Len(down) : down[i] \in Commands /\ down[i].of = last => recv_num # down[i].num

\* ... because each is behind the model's counter, by fewer steps than there are numbers.
Behind(n, c, u) == \E d \in 1 .. u - 1 : n + d = c \/ n + d = c + NumLast + 1

Counted ==
  \A a \in App :
    /\ last = <<a, models[a]>> => Behind(recv_num, down_num[a], user)
    /\ \A i \in 1 .. Len(down) :
         down[i].of = <<a, models[a]>> => Behind(down[i].num, down_num[a], user)

Drops == Sourced /\ Distinct /\ Newer /\ Counted

LEMMA NextNumber ==
  ASSUME NEW n \in Num PROVE NextNum(n) = IF n = NumLast THEN 0 ELSE n + 1
BY IdentityAssumption DEF NextNum, Num

\* A command's number is none of those behind it, and behind the next number itself.
LEMMA BehindNext ==
  ASSUME FewCommands, NEW n \in Num, NEW c \in Num, NEW u \in 1 .. MaxUser - 1
  PROVE  /\ Behind(n, c, u) => n # c /\ Behind(n, NextNum(c), u + 1)
         /\ Behind(c, NextNum(c), u + 1)
         /\ Behind(n, c, u) => Behind(n, c, u + 1)
<1>1. /\ NumLast \in Nat /\ MaxUser \in Nat /\ n \in Nat /\ c \in Nat /\ u \in Nat
      /\ n <= NumLast /\ c <= NumLast /\ u >= 1 /\ u - 1 <= NumLast
  BY IdentityAssumption, MembershipAssumption DEF Num, FewCommands
<1>2. NextNum(c) = IF c = NumLast THEN 0 ELSE c + 1
  BY NextNumber
<1>3. ASSUME NEW d \in 1 .. u - 1, n + d = c \/ n + d = c + NumLast + 1
      PROVE  n # c /\ Behind(n, NextNum(c), u + 1) /\ Behind(n, c, u + 1)
  <2>1. d \in Nat /\ d >= 1 /\ d <= NumLast /\ d \in 1 .. (u + 1) - 1 /\ d + 1 \in 1 .. (u + 1) - 1
    BY <1>1
  <2>2. n # c
    BY <1>1, <1>3, <2>1
  <2>3. n + (d + 1) = NextNum(c) \/ n + (d + 1) = NextNum(c) + NumLast + 1
    BY <1>1, <1>2, <1>3, <2>1
  <2> QED BY <1>3, <2>1, <2>2, <2>3 DEF Behind
<1>4. Behind(c, NextNum(c), u + 1)
  <2>1. 1 \in 1 .. (u + 1) - 1 /\ (c + 1 = NextNum(c) \/ c + 1 = NextNum(c) + NumLast + 1)
    BY <1>1, <1>2
  <2> QED BY <2>1 DEF Behind
<1> QED BY <1>3, <1>4 DEF Behind

\* What the numbers are about is left alone.
LEMMA DropsSame ==
  ASSUME Drops, UNCHANGED <<last, recv_num, down, down_num, models, user>>
  PROVE  Drops'
BY DEF Drops, Sourced, Drawn, Distinct, Newer, Counted, Commands

\* What a message puts behind the others: a command draws the model's number.
LEMMA DropsSent ==
  ASSUME FewCommands, MInv, Drops, NEW m \in Message, down' = Append(down, m),
         UNCHANGED <<last, recv_num, models>>, user \in 1 .. MaxUser - 1 \/ m \notin Commands,
         user < MaxUser, user' = user + 1,
         IF m \in Commands
         THEN \E a \in App : /\ m.of = <<a, models[a]>> /\ m.num = down_num[a]
                             /\ down_num' = [down_num EXCEPT ![a] = NextNum(@)]
         ELSE m.of = ByChance /\ UNCHANGED down_num
  PROVE  Drops'
<1>1. /\ LinkType /\ PhoneType /\ DevType /\ user \in Nat /\ MaxUser \in Nat
  BY TypeParts, MembershipAssumption DEF MInv, CountType
<1>2. /\ Len(down) \in Nat /\ Len(down') = Len(down) + 1
      /\ down'[Len(down) + 1] = m /\ \A j \in 1 .. Len(down) : down'[j] = down[j]
      /\ \A j \in 1 .. Len(down) : down[j] \in Message
  BY <1>1, Appended DEF LinkType
<1>3. \A i \in 1 .. Len(down') : i \in 1 .. Len(down) \/ i = Len(down) + 1
  BY <1>2
<1>4. \A a \in App : models[a] \in Nat /\ down_num[a] \in Num
  BY <1>1 DEF PhoneType
<1>5. ByChance[1] \notin App /\ \A a \in App, k \in Nat : ByChance # <<a, k>>
  BY IdentityAssumption DEF ByChance
<1>6. Drawn(m.of) /\ (m.of[1] \in App <=> m \in Commands)
  <2>1. CASE m \in Commands
    <3>1. PICK a \in App : m.of = <<a, models[a]>>
      BY <2>1
    <3>2. m.of[1] = a
      BY <3>1
    <3> QED BY <2>1, <1>4, <3>1, <3>2 DEF Drawn
  <2>2. CASE m \notin Commands
    BY <2>2, <1>5 DEF Drawn
  <2> QED BY <2>1, <2>2
<1>7. Sourced'
  <2>1. Drawn(last)
    BY DEF Drops, Sourced
  <2>2. ASSUME NEW i \in 1 .. Len(down')
        PROVE  Drawn(down'[i].of) /\ (down'[i].of[1] \in App <=> down'[i] \in Commands)
    BY <1>2, <1>3, <1>6 DEF Drops, Sourced
  <2> QED BY <2>1, <2>2 DEF Sourced, Drawn, Commands
\* The new number is none of those of the same model.
<1>8. ASSUME NEW n \in Num, NEW a \in App, m \in Commands, m.of = <<a, models[a]>>,
             Behind(n, down_num[a], user)
      PROVE  n # m.num
  <2>1. m.num = down_num[a]
    BY <1>8
  <2> QED BY <1>1, <1>4, <1>8, <2>1, BehindNext
<1>9. Distinct'
  <2> SUFFICES ASSUME NEW i \in 1 .. Len(down'), NEW j \in 1 .. Len(down'), i < j,
                      down'[i] \in Commands, down'[j].of = down'[i].of
               PROVE  down'[i].num # down'[j].num
    BY DEF Distinct, Commands
  <2>1. i \in 1 .. Len(down) /\ down'[i] = down[i]
    BY <1>2, <1>3
  <2>2. CASE j \in 1 .. Len(down)
    BY <1>2, <2>1, <2>2 DEF Drops, Distinct
  <2>3. CASE j = Len(down) + 1
    <3>1. down'[j] = m /\ m.of = down[i].of /\ down[i] \in Commands
      BY <1>2, <2>1, <2>3
    <3>2. down[i].of[1] \in App
      BY <2>1, <3>1 DEF Drops, Sourced
    <3>3. m \in Commands
      BY <1>6, <3>1, <3>2
    <3>4. PICK a \in App : m.of = <<a, models[a]>>
      BY <3>3
    <3>5. Behind(down[i].num, down_num[a], user) /\ down[i].num \in Num
      BY <1>2, <2>1, <3>1, <3>4 DEF Drops, Counted, Message
    <3> QED BY <1>8, <2>1, <3>1, <3>3, <3>4, <3>5
  <2> QED BY <1>3, <2>2, <2>3
<1>10. Newer'
  <2> SUFFICES ASSUME NEW i \in 1 .. Len(down'), down'[i] \in Commands, down'[i].of = last
               PROVE  recv_num # down'[i].num
    BY DEF Newer, Commands
  <2>1. CASE i \in 1 .. Len(down)
    BY <1>2, <2>1 DEF Drops, Newer
  <2>2. CASE i = Len(down) + 1
    <3>1. down'[i] = m /\ m \in Commands /\ m.of = last
      BY <1>2, <2>2
    <3>2. PICK a \in App : m.of = <<a, models[a]>>
      BY <3>1
    <3>3. Behind(recv_num, down_num[a], user) /\ recv_num \in Num
      BY <1>1, <3>1, <3>2 DEF Drops, Counted, DevType
    <3> QED BY <1>8, <3>1, <3>2, <3>3
  <2> QED BY <1>3, <2>1, <2>2
\* Each number is one step further behind at most.
<1>11. user = 0 \/ user \in 1 .. MaxUser - 1
  BY <1>1
<1>12. ASSUME NEW n \in Num, NEW a \in App, Behind(n, down_num[a], user)
       PROVE  Behind(n, down_num'[a], user')
  <2>1. user \in 1 .. MaxUser - 1
    BY <1>11, <1>12 DEF Behind
  <2>2. down_num'[a] \in {down_num[a], NextNum(down_num[a])}
    BY <1>1, <1>4 DEF PhoneType
  <2> QED BY <1>4, <1>12, <2>1, <2>2, BehindNext
<1>13. Counted'
  <2> SUFFICES ASSUME NEW a \in App
               PROVE  /\ last = <<a, models[a]>> => Behind(recv_num, down_num'[a], user')
                      /\ \A i \in 1 .. Len(down') : down'[i].of = <<a, models[a]>>
                                                      => Behind(down'[i].num, down_num'[a], user')
    BY DEF Counted, Behind
  <2>1. last = <<a, models[a]>> => Behind(recv_num, down_num'[a], user')
    BY <1>1, <1>12 DEF Drops, Counted, DevType
  <2>2. ASSUME NEW i \in 1 .. Len(down), down[i].of = <<a, models[a]>>
        PROVE  Behind(down[i].num, down_num'[a], user')
    BY <1>2, <1>12, <2>2 DEF Drops, Counted, Message
  <2>3. ASSUME m.of = <<a, models[a]>> PROVE Behind(m.num, down_num'[a], user')
    <3>1. m \in Commands
      BY <1>5, <1>4, <2>3
    <3>2. PICK b \in App : /\ m.of = <<b, models[b]>> /\ m.num = down_num[b]
                           /\ down_num' = [down_num EXCEPT ![b] = NextNum(@)]
      BY <3>1
    <3>3. a = b
      BY <2>3, <3>2
    <3>4. m.num = down_num[a] /\ down_num'[a] = NextNum(down_num[a]) /\ user \in 1 .. MaxUser - 1
      BY <1>1, <3>1, <3>2, <3>3 DEF PhoneType
    <3> QED BY <1>4, <3>4, BehindNext
  <2> QED BY <1>2, <1>3, <2>1, <2>2, <2>3
<1> QED BY <1>7, <1>9, <1>10, <1>13 DEF Drops

\* The first message is gone; the device took its number, or kept its last one.
LEMMA DropsTaken ==
  ASSUME MInv, Drops, down # <<>>, down' = Tail(down), UNCHANGED <<models, down_num, user>>,
         \/ UNCHANGED <<last, recv_num>>
         \/ last' = Head(down).of /\ recv_num' = Head(down).num
  PROVE  Drops'
<1>1. /\ Len(down) \in Nat \ {0} /\ Len(down') = Len(down) - 1 /\ Head(down) = down[1]
      /\ \A j \in 1 .. Len(down) - 1 : down'[j] = down[j + 1]
  BY Tailed DEF MInv, TypeOK
<1>2. \A i \in 1 .. Len(down') : i + 1 \in 1 .. Len(down) /\ down'[i] = down[i + 1]
  BY <1>1
<1>3. 1 \in 1 .. Len(down)
  BY <1>1
<1>4. Sourced'
  BY <1>1, <1>2, <1>3 DEF Drops, Sourced, Drawn, Commands
<1>5. Distinct'
  <2> SUFFICES ASSUME NEW i \in 1 .. Len(down'), NEW j \in 1 .. Len(down'), i < j,
                      down'[i] \in Commands, down'[j].of = down'[i].of
               PROVE  down'[i].num # down'[j].num
    BY DEF Distinct, Commands
  <2>1. i + 1 < j + 1
    OBVIOUS
  <2> QED BY <1>2, <2>1 DEF Drops, Distinct
<1>6. Newer'
  <2> SUFFICES ASSUME NEW i \in 1 .. Len(down'), down'[i] \in Commands, down'[i].of = last'
               PROVE  recv_num' # down'[i].num
    BY DEF Newer, Commands
  <2>1. i + 1 \in 1 .. Len(down) /\ down'[i] = down[i + 1] /\ 1 < i + 1
    BY <1>2
  <2>2. CASE UNCHANGED <<last, recv_num>>
    BY <2>1, <2>2 DEF Drops, Newer
  <2>3. CASE last' = down[1].of /\ recv_num' = down[1].num
    <3>1. down[i + 1] \in Commands /\ down[i + 1].of = down[1].of
      BY <2>1, <2>3
    <3>2. down[1] \in Commands
      BY <1>3, <2>1, <3>1 DEF Drops, Sourced
    <3> QED BY <1>3, <2>1, <2>3, <3>1, <3>2 DEF Drops, Distinct
  <2> QED BY <1>1, <2>2, <2>3
<1>7. Counted'
  <2> SUFFICES ASSUME NEW a \in App
               PROVE  /\ last' = <<a, models[a]>> => Behind(recv_num', down_num[a], user)
                      /\ \A i \in 1 .. Len(down') : down'[i].of = <<a, models[a]>>
                                                      => Behind(down'[i].num, down_num[a], user)
    BY DEF Counted, Behind
  <2> QED BY <1>1, <1>2, <1>3 DEF Drops, Counted
<1> QED BY <1>4, <1>5, <1>6, <1>7 DEF Drops

\* A device that starts expects no model's number.
LEMMA DropsStarted ==
  ASSUME Drops, last' = AtStart, UNCHANGED <<down, models, down_num, user>>
  PROVE  Drops'
<1>1. last'[1] \notin App /\ \A a \in App, k \in Nat : last' # <<a, k>>
  BY IdentityAssumption DEF AtStart
<1>3. Sourced'
  BY <1>1 DEF Drops, Sourced, Drawn, Commands
<1>4. Distinct'
  BY DEF Drops, Distinct, Commands
<1>5. Newer'
  BY <1>1 DEF Drops, Sourced, Newer, Commands
<1>6. Counted'
  <2>1. \A a \in App : last' # <<a, models[a]>>
    BY IdentityAssumption DEF AtStart
  <2> QED BY <2>1 DEF Drops, Counted, Behind
<1> QED BY <1>3, <1>4, <1>5, <1>6 DEF Drops

\* A new model's numbers are nobody's yet.
LEMMA DropsModelled ==
  ASSUME MInv, Drops, NEW a \in App, NewModel(a), UNCHANGED <<last, recv_num, down, user>>
  PROVE  Drops'
<1>0. PhoneType
  BY TypeParts DEF MInv
<1>1. /\ models[a] \in Nat /\ models'[a] = models[a] + 1
      /\ \A b \in App \ {a} : models'[b] = models[b] /\ down_num'[b] = down_num[b]
  BY <1>0 DEF NewModel, PhoneType
<1>2. \A b \in App : models[b] \in Nat /\ models'[b] >= models[b] /\ models'[b] \in Nat
  <2>1. \A b \in App : models[b] \in Nat
    BY <1>0 DEF PhoneType
  <2> QED BY <1>1, <2>1
<1>3. ASSUME NEW o, Drawn(o)
      PROVE  /\ \A b \in App, k \in Nat : o = <<b, k>> => k <= models'[b]
             /\ o # <<a, models'[a]>>
  BY <1>1, <1>2, <1>3 DEF Drawn
<1>4. Sourced'
  BY <1>3 DEF Drops, Sourced, Drawn, Commands
<1>5. Distinct' /\ Newer'
  BY DEF Drops, Distinct, Newer, Commands
<1>6. Counted'
  <2> SUFFICES ASSUME NEW b \in App
               PROVE  /\ last = <<b, models'[b]>> => Behind(recv_num, down_num'[b], user)
                      /\ \A i \in 1 .. Len(down) : down[i].of = <<b, models'[b]>>
                                                      => Behind(down[i].num, down_num'[b], user)
    BY DEF Counted, Behind
  <2>1. CASE b = a
    BY <1>3, <2>1 DEF Drops, Sourced
  <2>2. CASE b # a
    BY <1>1, <2>2 DEF Drops, Counted
  <2> QED BY <2>1, <2>2
<1> QED BY <1>4, <1>5, <1>6 DEF Drops

LEMMA UnusedNext == MInv /\ MInv' /\ Unused /\ [Next]_vars => Unused'
<1> SUFFICES ASSUME MInv, MInv', Unused, [Next]_vars, user' = 0 PROVE Unused'
  BY DEF Unused
<1>1. /\ user \in Nat /\ Solid /\ toServer \in [App -> Seq(Request)] /\ toApp \in [App -> Seq(Answer)]
      /\ toServer' \in [App -> Seq(Request)] /\ toApp' \in [App -> Seq(Answer)]
      /\ app_id' \in Owner
  BY SMTT(20) DEF MInv, TypeOK
<1>2. ~UserActs
  BY <1>1 DEF UserActs
<1>3. user = 0
  BY <1>1, <1>2 DEF Next, User, Phone, Server, requestAddDeviceQml, requestDelDevice,
     slotSendDownMsg, requestDevList, parseDeciceRecv, parseCenterRecv, add_dev, del_dev, dev_list,
     Serves, app_ap01_send_status, Deliver, DeviceLives, PowerFailure, Loss, countVars, vars
<1>4. /\ app_id = Nobody /\ stored = {} /\ listed = {} /\ up = {} /\ down = <<>>
      /\ \A a \in App : /\ \A i \in 1 .. Len(toServer[a]) : toServer[a][i] = "dev_list"
                        /\ \A i \in 1 .. Len(toApp[a]) : toApp[a][i] = "list_without"
  BY <1>3 DEF Unused
<1> DEFINE Calm == UNCHANGED <<app_id, stored, listed, up, down>>
<1>5. ASSUME Calm, UNCHANGED <<toServer, toApp>> PROVE Unused'
  BY <1>4, <1>5 DEF Unused
\* One request or answer is put behind, or taken from, the others of its phone.
<1>6. ASSUME NEW a \in App, toServer' = [toServer EXCEPT ![a] = Tail(@)], toServer[a] # <<>>
      PROVE  \A b \in App : \A i \in 1 .. Len(toServer'[b]) : toServer'[b][i] = "dev_list"
  <2>1. /\ Len(toServer[a]) \in Nat \ {0} /\ Len(toServer'[a]) = Len(toServer[a]) - 1
        /\ \A j \in 1 .. Len(toServer[a]) - 1 : toServer'[a][j] = toServer[a][j + 1]
    BY <1>1, <1>6, Tailed
  <2>2. \A i \in 1 .. Len(toServer'[a]) : toServer'[a][i] = "dev_list"
    BY <1>4, <2>1
  <2>3. \A b \in App \ {a} : toServer'[b] = toServer[b]
    BY <1>1, <1>6
  <2> QED BY <1>4, <2>2, <2>3
<1>7. ASSUME NEW a \in App, toApp' = [toApp EXCEPT ![a] = Tail(@)], toApp[a] # <<>>
      PROVE  \A b \in App : \A i \in 1 .. Len(toApp'[b]) : toApp'[b][i] = "list_without"
  <2>1. /\ Len(toApp[a]) \in Nat \ {0} /\ Len(toApp'[a]) = Len(toApp[a]) - 1
        /\ \A j \in 1 .. Len(toApp[a]) - 1 : toApp'[a][j] = toApp[a][j + 1]
    BY <1>1, <1>7, Tailed
  <2>2. \A i \in 1 .. Len(toApp'[a]) : toApp'[a][i] = "list_without"
    BY <1>4, <2>1
  <2>3. \A b \in App \ {a} : toApp'[b] = toApp[b]
    BY <1>1, <1>7
  <2> QED BY <1>4, <2>2, <2>3
<1>8. ASSUME NEW a \in App, toServer' = [toServer EXCEPT ![a] = Append(@, "dev_list")]
      PROVE  \A b \in App : \A i \in 1 .. Len(toServer'[b]) : toServer'[b][i] = "dev_list"
  <2>1. /\ Len(toServer[a]) \in Nat /\ Len(toServer'[a]) = Len(toServer[a]) + 1
        /\ toServer'[a][Len(toServer[a]) + 1] = "dev_list"
        /\ \A j \in 1 .. Len(toServer[a]) : toServer'[a][j] = toServer[a][j]
    BY <1>1, <1>8, Appended DEF Request
  <2>2. \A i \in 1 .. Len(toServer'[a]) : i \in 1 .. Len(toServer[a]) \/ i = Len(toServer[a]) + 1
    BY <2>1
  <2>3. \A b \in App \ {a} : toServer'[b] = toServer[b]
    BY <1>1, <1>8
  <2> QED BY <1>4, <2>1, <2>2, <2>3
<1>9. ASSUME NEW a \in App, toApp' = [toApp EXCEPT ![a] = Append(@, "list_without")]
      PROVE  \A b \in App : \A i \in 1 .. Len(toApp'[b]) : toApp'[b][i] = "list_without"
  <2>1. /\ Len(toApp[a]) \in Nat /\ Len(toApp'[a]) = Len(toApp[a]) + 1
        /\ toApp'[a][Len(toApp[a]) + 1] = "list_without"
        /\ \A j \in 1 .. Len(toApp[a]) : toApp'[a][j] = toApp[a][j]
    BY <1>1, <1>9, Appended DEF Answer
  <2>2. \A i \in 1 .. Len(toApp'[a]) : i \in 1 .. Len(toApp[a]) \/ i = Len(toApp[a]) + 1
    BY <2>1
  <2>3. \A b \in App \ {a} : toApp'[b] = toApp[b]
    BY <1>1, <1>9
  <2> QED BY <1>4, <2>1, <2>2, <2>3
<1>10. ASSUME NEW a \in App, requestDevList(a) PROVE Unused'
  BY <1>4, <1>8, <1>10 DEF requestDevList, Asks, Unused, devVars, idVars, numVars, phoneVars
<1>11. ASSUME NEW a \in App, parseCenterRecv(a) PROVE Unused'
  <2>1. toApp[a] # <<>> /\ toApp' = [toApp EXCEPT ![a] = Tail(@)]
    BY <1>11 DEF parseCenterRecv, Answered
  <2>2. Head(toApp[a]) = "list_without"
    <3>1. 1 \in 1 .. Len(toApp[a]) /\ Head(toApp[a]) = toApp[a][1]
      BY <1>1, <2>1, Tailed
    <3> QED BY <1>4, <3>1
  <2>3. listed' = {}
    BY <1>4, <1>11, <2>2 DEF parseCenterRecv, Answered, Unlists
  <2> QED BY <1>4, <1>7, <1>11, <2>1, <2>3 DEF parseCenterRecv, Unused, devVars, idVars, numVars
<1>12. ASSUME NEW a \in App, Server(a) PROVE Unused'
  <2>1. toServer[a] # <<>> /\ toServer' = [toServer EXCEPT ![a] = Tail(@)]
    BY <1>12 DEF Server, add_dev, del_dev, dev_list, Serves
  <2>2. Head(toServer[a]) = "dev_list"
    <3>1. 1 \in 1 .. Len(toServer[a]) /\ Head(toServer[a]) = toServer[a][1]
      BY <1>1, <2>1, Tailed
    <3> QED BY <1>4, <3>1
  <2>3. dev_list(a)
    BY <1>12, <2>2 DEF Server, add_dev, del_dev, dev_list, Serves
  <2>4. toApp' = [toApp EXCEPT ![a] = Append(@, "list_without")] /\ Calm
    BY <1>4, <2>3 DEF dev_list, Serves, devVars, idVars, numVars, phoneVars
  <2> QED BY <1>4, <1>6, <1>9, <2>1, <2>4 DEF Unused
<1>13. CASE DeviceLives
  <2>1. app_id' = Nobody
    <3>1. CASE Start
      BY <1>1, <1>4, <3>1 DEF Start, Read, Solid
    <3>2. CASE ~Start
      BY <1>4, <1>13, <3>2 DEF DeviceLives, Lives, WriteEnds, drv_system_reset, Watchdog,
                               ModuleReset, Connect, Subscribe, idVars
    <3> QED BY <3>1, <3>2
  <2> QED BY <1>4, <1>13, <2>1 DEF DeviceLives, Unused, serverVars, phoneVars
<1>14. CASE PowerFailure
  BY <1>5, <1>14 DEF PowerFailure, PowerFails, idVars, numVars, serverVars, phoneVars
<1>15. CASE Loss
  <2>1. Calm
    BY <1>4, <1>15 DEF Loss, devVars, idVars, numVars, phoneVars
  <2>2. ASSUME NEW a \in App, toServer[a] # <<>>, toServer' = [toServer EXCEPT ![a] = Tail(@)],
               toApp' = toApp
        PROVE  Unused'
    BY <1>4, <1>6, <2>1, <2>2 DEF Unused
  <2>3. ASSUME NEW a \in App, toApp[a] # <<>>, toApp' = [toApp EXCEPT ![a] = Tail(@)],
               toServer' = toServer
        PROVE  Unused'
    BY <1>4, <1>7, <2>1, <2>3 DEF Unused
  <2> QED BY <1>4, <1>15, <2>2, <2>3 DEF Loss
<1>16. CASE UNCHANGED vars
  BY <1>5, <1>16 DEF vars, devVars, idVars, numVars, serverVars, phoneVars
<1>17. /\ ~app_ap01_send_status /\ ~Deliver
       /\ \A a \in App : ~parseDeciceRecv(a) /\ ~requestAddDeviceQml(a) /\ ~requestDelDevice(a)
                         /\ ~slotSendDownMsg(a)
  BY <1>2, <1>4, IdentityAssumption DEF app_ap01_send_status, Deliver, parseDeciceRecv,
     requestAddDeviceQml, requestDelDevice, slotSendDownMsg
<1> QED BY <1>10, <1>11, <1>12, <1>13, <1>14, <1>15, <1>16, <1>17 DEF Next, User, Phone

LEMMA DropsNext ==
  ASSUME FewCommands, MInv, Unused, Drops, [Next]_vars
  PROVE  Drops'
<1>1. user \in 0 .. MaxUser /\ MaxUser \in Nat /\ down \in Seq(Message) /\ PhoneType
  BY TypeParts, MembershipAssumption DEF MInv, TypeOK
<1>2. ASSUME NEW a \in App, requestAddDeviceQml(a) \/ requestDelDevice(a) PROVE Drops'
  <2>1. PICK b \in Owner, c \in Owner, n \in Num : down' = Append(down, SetMsg(b, c, n))
    BY <1>2, OwnerFacts DEF requestAddDeviceQml, requestDelDevice
  <2>2. PICK m \in Message : m = SetMsg(b, c, n)
    BY MessageTypes
  <2>3. m \notin Commands /\ m.of = ByChance
    BY <2>2 DEF SetMsg, Commands
  <2>4. user' = user + 1 /\ user < MaxUser
    BY <1>2 DEF requestAddDeviceQml, requestDelDevice, UserActs
  <2>5. UNCHANGED <<last, recv_num, models, down_num>>
    BY <1>2 DEF requestAddDeviceQml, requestDelDevice, devVars, idVars, numVars, phoneVars
  <2> QED BY <2>1, <2>2, <2>3, <2>4, <2>5, DropsSent
<1>3. ASSUME NEW a \in App, slotSendDownMsg(a) PROVE Drops'
  <2>1. down_num[a] \in Num /\ models[a] \in Nat
    BY <1>1 DEF PhoneType
  <2>2. PICK m \in Message : m = CmdMsg(a, down_num[a], <<a, models[a]>>)
    BY <2>1, MessageTypes
  <2>3. m \in Commands /\ m.of = <<a, models[a]>> /\ m.num = down_num[a]
    BY <2>2 DEF CmdMsg, Commands
  <2>4. user # 0
    BY <1>3 DEF slotSendDownMsg, Unused
  <2>5. user' = user + 1 /\ user < MaxUser /\ user \in 1 .. MaxUser - 1
    BY <1>1, <1>3, <2>4 DEF slotSendDownMsg, UserActs
  <2>6. /\ UNCHANGED <<last, recv_num, models>> /\ down' = Append(down, m)
        /\ down_num' = [down_num EXCEPT ![a] = NextNum(@)]
    BY <1>3, <2>2 DEF slotSendDownMsg, devVars, idVars, numVars
  <2> QED BY <2>3, <2>5, <2>6, DropsSent
<1>4. ASSUME NEW a \in App, requestDevList(a) \/ parseDeciceRecv(a) \/ Server(a) PROVE Drops'
  BY <1>4, DropsSame DEF requestDevList, parseDeciceRecv, Server, add_dev, del_dev, dev_list,
     Serves, devVars, idVars, numVars, phoneVars, countVars
<1>5. ASSUME NEW a \in App, parseCenterRecv(a) PROVE Drops'
  <2>1. UNCHANGED <<last, recv_num, down, user>>
    BY <1>5 DEF parseCenterRecv, devVars, idVars, numVars, countVars
  <2>2. NewModel(a) \/ UNCHANGED <<models, down_num>>
    BY <1>5 DEF parseCenterRecv, Lists, Unlists, phoneVars
  <2> QED BY <2>1, <2>2, DropsModelled, DropsSame
<1>6. CASE Deliver
  BY <1>6, DropsTaken DEF Deliver, drv_server_recv_parse, devVars, idVars, numVars, phoneVars,
     countVars
<1>7. CASE DeviceLives
  <2>1. UNCHANGED <<down, models, down_num, user>>
    BY <1>7 DEF DeviceLives, phoneVars, countVars
  <2>2. last' = AtStart \/ UNCHANGED <<last, recv_num>>
    BY <1>7 DEF DeviceLives, Lives, Start, WriteEnds, drv_system_reset, Watchdog, ModuleReset,
                Connect, Subscribe, numVars
  <2> QED BY <2>1, <2>2, DropsStarted, DropsSame
<1>8. CASE PowerFailure \/ app_ap01_send_status \/ UNCHANGED vars
  BY <1>8, DropsSame DEF PowerFailure, PowerFails, app_ap01_send_status, vars, devVars, idVars,
     numVars, phoneVars, countVars
<1>9. CASE Loss
  <2>1. UNCHANGED <<last, recv_num, models, down_num, user>>
    BY <1>9 DEF Loss, devVars, idVars, numVars, phoneVars
  <2>2. down' = down \/ (down # <<>> /\ down' = Tail(down))
    BY <1>9 DEF Loss
  <2> QED BY <2>1, <2>2, DropsSame, DropsTaken
<1> QED BY <1>2, <1>3, <1>4, <1>5, <1>6, <1>7, <1>8, <1>9 DEF Next, User, Phone

LEMMA DropsInit == Init => Unused /\ Drops
<1> SUFFICES ASSUME Init PROVE Unused /\ Drops
  OBVIOUS
<1>1. Len(down) = 0 /\ \A a \in App : Len(toServer[a]) = 0 /\ Len(toApp[a]) = 0
  BY DEF Init
<1>2. Unused
  BY <1>1 DEF Init, DevInit, Unused
<1>3. \A a \in App, k \in Nat : last # <<a, k>>
  BY IdentityAssumption DEF Init, DevInit, AtStart
<1>4. \A a \in App : last # <<a, models[a]>>
  BY <1>3 DEF Init
<1> QED BY <1>1, <1>2, <1>3, <1>4 DEF Drops, Sourced, Drawn, Distinct, Newer, Counted

LEMMA DropsExplained == MInv /\ Drops => DropHasReason
<1> SUFFICES ASSUME MInv, Drops, down # <<>>, Head(down).cmd = "command",
                    Repeated(Head(down)), last = Head(down).of
             PROVE  FALSE
  BY DEF DropHasReason
<1>1. 1 \in 1 .. Len(down) /\ Head(down) = down[1] /\ down[1] \in Message
  BY Tailed DEF MInv, TypeOK
<1> QED BY <1>1 DEF Drops, Newer, Commands, Repeated

\* Where commands do not use up the numbers, the device takes a command for a
\* repetition only if the number it compares with was drawn by another counter.
THEOREM DropsHaveReason ==
  ASSUME FewCommands
  PROVE  Spec => []DropHasReason
<1>1. Init => MInv /\ Unused /\ Drops
  BY MembershipInit, DropsInit
<1>2. MInv /\ Unused /\ Drops /\ [Next]_vars => (MInv /\ Unused /\ Drops)'
  BY MembershipNext, UnusedNext, DropsNext
<1>3. MInv /\ Drops => DropHasReason
  BY DropsExplained
<1> QED BY <1>1, <1>2, <1>3, PTL DEF Spec
=============================================================================
