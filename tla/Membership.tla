----------------------------- MODULE Membership -----------------------------
(***************************************************************************)
(* How a device comes to an application and leaves it: the device, for     *)
(* each application a phone that shows it (CenterMan.cpp), and the         *)
(* server's device table (CenterThread.cpp).  Adding and deleting are each *)
(* two messages that nothing ties together: one to the server, and one,    *)
(* sent once, to the device; and a report of a device that the phone does  *)
(* not list makes it add the device by itself.                             *)
(***************************************************************************)
EXTENDS DevServer

CONSTANTS
  MaxUser,      \* bound: devices added or deleted and commands given by users
  MaxOdd,       \* bound: lists asked for again, messages lost and power failures
  MaxEvents,    \* bound: both together
  MaxAsked      \* bound: requests and answers of a phone under way when it gets a report

ASSUME MembershipAssumption ==
  /\ MaxUser \in Nat /\ MaxOdd \in Nat /\ MaxEvents \in Nat
  /\ MaxAsked \in Nat \ {0}

VARIABLES
  down,         \* messages to the device, in the order in which they were sent
  up,           \* applications that a report of the device is on its way to
  stored,       \* applications whose device table on the server has the device
  toServer, toApp,  \* requests of each phone, and their answers
  listed,       \* applications whose phone lists the device
  down_num,     \* m_downPackNum of the phone's model of the device
  models,       \* how many models of the device each phone has made
  stale,        \* history: phones that added a device leaving them for its last report
  untaken,      \* history: phones whose SET_APP_ID the device did not take
  seized,       \* history: phones whose device took the SET_APP_ID of another one
  rushed,       \* history: a SET_APP_ID was obeyed while the device's reset was due
  user, reloads, lost, fails   \* counters for the bounds

phoneVars == <<listed, down_num, models>>
serverVars == <<stored, toServer, toApp>>
histVars == <<stale, untaken, seized, rushed>>
countVars == <<user, reloads, lost, fails>>
vars == <<devVars, down, up, serverVars, phoneVars, histVars, countVars>>

Init ==
  /\ DevInit
  /\ down = <<>> /\ up = {}
  /\ stored = {}
  /\ toServer = [a \in App |-> <<>>] /\ toApp = [a \in App |-> <<>>]
  /\ listed = {}
  /\ down_num = [a \in App |-> 0]
  /\ models = [a \in App |-> 0]
  /\ reloads = 0
  /\ stale = {} /\ untaken = {} /\ seized = {} /\ rushed = FALSE
  /\ user = 0 /\ lost = 0 /\ fails = 0

SetMsg(to, app, n) == [to |-> to, cmd |-> "set_app_id", app |-> app, num |-> n,
                       of |-> ByChance]
CmdMsg(a, n, start) == [to |-> a, cmd |-> "command", app |-> a, num |-> n, of |-> start]

Asks(a, r) == toServer' = [toServer EXCEPT ![a] = Append(@, r)]
-----------------------------------------------------------------------------
(***************************************************************************)
(* The phone.  requestAddDeviceQml asks the server and gives the device    *)
(* the application; requestDelDevice takes it away and tells the server.   *)
(* Their numbers are drawn by chance.                                      *)
(***************************************************************************)
Room == user + reloads + lost + fails < MaxEvents
Odd == reloads + lost + fails < MaxOdd /\ Room
UserActs == /\ user < MaxUser /\ Room
            /\ user' = user + 1 /\ UNCHANGED <<reloads, lost, fails>>

requestAddDeviceQml(a) ==
  /\ UserActs
  /\ Asks(a, "add_dev")
  /\ \E n \in Num : down' = Append(down, SetMsg(Nobody, a, n))
  /\ untaken' = untaken \ {a}
  /\ stale' = stale \ {a}
  /\ seized' = seized \ {a}
  /\ UNCHANGED devVars /\ UNCHANGED phoneVars
  /\ UNCHANGED <<up, stored, toApp, rushed>>

requestDelDevice(a) ==
  /\ UserActs
  /\ a \in listed
  /\ \E n \in Num : down' = Append(down, SetMsg(a, Nobody, n))
  /\ Asks(a, "del_dev")
  /\ UNCHANGED devVars /\ UNCHANGED phoneVars /\ UNCHANGED histVars
  /\ UNCHANGED <<up, stored, toApp>>

NextNumSame(n) == n  \* mutant: the number is not counted up

NextNum(n) == (n + 1) % (NumLast + 1)

slotSendDownMsg(a) ==
  /\ UserActs
  /\ a \in listed
  /\ down' = Append(down, CmdMsg(a, down_num[a], <<a, models[a]>>))
  /\ down_num' = [down_num EXCEPT ![a] = NextNum(@)]
  /\ UNCHANGED devVars /\ UNCHANGED serverVars /\ UNCHANGED histVars
  /\ UNCHANGED <<up, listed, models>>

requestDevList(a) ==
  /\ Odd /\ reloads' = reloads + 1
  /\ Asks(a, "dev_list")
  /\ UNCHANGED devVars /\ UNCHANGED phoneVars /\ UNCHANGED histVars
  /\ UNCHANGED <<down, up, stored, toApp, user, lost, fails>>

(***************************************************************************)
(* parseDeciceRecv: a report of a device that is not listed.               *)
(***************************************************************************)
Leaving(a) ==
  app_id # a \/ \E i \in 1..Len(down) : down[i].cmd = "set_app_id" /\ down[i].to = a

NeverAdds(a) == UNCHANGED <<toServer, stale>>  \* mutant: the report is not used

AddsByItself(a) ==
  IF a \in listed THEN UNCHANGED <<toServer, stale>>
  ELSE /\ Asks(a, "add_dev")
       /\ stale' = IF Leaving(a) THEN stale \cup {a} ELSE stale

parseDeciceRecv(a) ==
  /\ a \in up
  /\ up' = up \ {a}
  /\ AddsByItself(a)
  /\ UNCHANGED devVars /\ UNCHANGED phoneVars /\ UNCHANGED countVars
  /\ UNCHANGED <<down, stored, toApp, untaken, seized, rushed>>

(***************************************************************************)
(* parseCenterRecv, the answers about devices.  A new model draws the      *)
(* number it starts with.                                                  *)
(***************************************************************************)
NewModel(a) ==
  /\ \E n \in Num : down_num' = [down_num EXCEPT ![a] = n]
  /\ models' = [models EXCEPT ![a] = @ + 1]

Lists(a) ==  \* addWorkDevice
  IF a \in listed THEN UNCHANGED phoneVars
  ELSE listed' = listed \cup {a} /\ NewModel(a)

UnlistsNot(a) == UNCHANGED phoneVars  \* mutant: delWorkDevice is forgotten

Unlists(a) == listed' = listed \ {a} /\ UNCHANGED <<down_num, models>>

Answered(a, k) == toApp[a] # <<>> /\ Head(toApp[a]) = k

parseCenterRecv(a) ==
  /\ \/ Answered(a, "added") /\ Lists(a)
     \/ Answered(a, "there_already") /\ UNCHANGED phoneVars
     \/ Answered(a, "deleted") /\ Unlists(a)
     \/ Answered(a, "list_without") /\ Unlists(a)
     \/ Answered(a, "list_with") /\ listed' = listed \cup {a} /\ NewModel(a)
  /\ toApp' = [toApp EXCEPT ![a] = Tail(@)]
  /\ UNCHANGED devVars /\ UNCHANGED histVars /\ UNCHANGED countVars
  /\ UNCHANGED <<down, up, stored, toServer>>
-----------------------------------------------------------------------------
(***************************************************************************)
(* The server (CenterThread::parseCenterRecv): a device that is stored is  *)
(* not added again, and the answer says so.                                *)
(***************************************************************************)
Serves(a, cmd, answer) ==
  /\ toServer[a] # <<>> /\ Head(toServer[a]) = cmd
  /\ toServer' = [toServer EXCEPT ![a] = Tail(@)]
  /\ toApp' = [toApp EXCEPT ![a] = Append(@, answer)]
  /\ UNCHANGED devVars /\ UNCHANGED phoneVars /\ UNCHANGED histVars
  /\ UNCHANGED countVars /\ UNCHANGED <<down, up>>

add_dev(a) ==
  /\ Serves(a, "add_dev", IF a \in stored THEN "there_already" ELSE "added")
  /\ stored' = stored \cup {a}

del_dev(a) ==
  /\ Serves(a, "del_dev", "deleted")
  /\ stored' = stored \ {a}

dev_list(a) ==
  /\ Serves(a, "dev_list", IF a \in stored THEN "list_with" ELSE "list_without")
  /\ UNCHANGED stored
-----------------------------------------------------------------------------
(***************************************************************************)
(* The device reports to the application it believes to have, over a       *)
(* connection it made itself.  A report of the last 58 ms before a reset   *)
(* carries the application of before (drv_server_send_msg keeps it) and    *)
(* the phone passes it over.  What arrives for the device and finds nobody *)
(* listening is gone, and so is what comes while it writes and waits, if   *)
(* it is not still there when the device looks.                            *)
(***************************************************************************)
app_ap01_send_status ==
  /\ run = "on" /\ ~armed /\ link \in {"open", "joined"}
  /\ sn = "own" /\ app_id \in App \ up
  /\ Len(toServer[app_id]) + Len(toApp[app_id]) < MaxAsked
  /\ up' = up \cup {app_id}
  /\ UNCHANGED devVars /\ UNCHANGED serverVars /\ UNCHANGED phoneVars
  /\ UNCHANGED histVars /\ UNCHANGED countVars /\ UNCHANGED down

Untaken(m) ==
  IF m.cmd = "set_app_id" /\ m.app \in App /\ ~Obeys(m) /\ app_id # m.app
  THEN untaken \cup {m.app} ELSE untaken

Seized ==
  IF {app_id, app_id'} \subseteq App /\ app_id' # app_id
  THEN seized \cup {app_id} ELSE seized

Deliver ==
  /\ down # <<>>
  /\ drv_server_recv_parse(Head(down))
  /\ untaken' = Untaken(Head(down))
  /\ seized' = Seized
  /\ rushed' = (rushed \/ (armed /\ run' = "writing"))
  /\ down' = Tail(down)
  /\ UNCHANGED serverVars /\ UNCHANGED phoneVars /\ UNCHANGED countVars
  /\ UNCHANGED <<up, stale>>

DeviceLives ==
  /\ Lives
  /\ UNCHANGED serverVars /\ UNCHANGED phoneVars /\ UNCHANGED histVars
  /\ UNCHANGED countVars /\ UNCHANGED <<down, up>>

PowerFailure ==
  /\ Odd /\ fails' = fails + 1
  /\ PowerFails
  /\ UNCHANGED serverVars /\ UNCHANGED phoneVars /\ UNCHANGED histVars
  /\ UNCHANGED <<down, up, user, reloads, lost>>

Loss ==
  /\ Odd /\ lost' = lost + 1
  /\ \/ down # <<>> /\ down' = Tail(down) /\ UNCHANGED <<toServer, toApp>>
     \/ \E a \in App : /\ toServer[a] # <<>>
                       /\ toServer' = [toServer EXCEPT ![a] = Tail(@)]
                       /\ UNCHANGED <<down, toApp>>
     \/ \E a \in App : /\ toApp[a] # <<>>
                       /\ toApp' = [toApp EXCEPT ![a] = Tail(@)]
                       /\ UNCHANGED <<down, toServer>>
  /\ UNCHANGED devVars /\ UNCHANGED phoneVars /\ UNCHANGED histVars
  /\ UNCHANGED <<up, stored, user, reloads, fails>>

Phone(a) == parseDeciceRecv(a) \/ parseCenterRecv(a)
Server(a) == add_dev(a) \/ del_dev(a) \/ dev_list(a)
User(a) == requestAddDeviceQml(a) \/ requestDelDevice(a) \/ slotSendDownMsg(a)
           \/ requestDevList(a)

Next ==
  \/ \E a \in App : User(a) \/ Phone(a) \/ Server(a)
  \/ app_ap01_send_status \/ Deliver \/ DeviceLives \/ PowerFailure \/ Loss

(***************************************************************************)
(* The device starts again and reports every four seconds; messages that   *)
(* are not lost arrive, and phones and server handle them.                 *)
(***************************************************************************)
Fairness ==
  /\ WF_vars(app_ap01_send_status) /\ WF_vars(Deliver) /\ WF_vars(DeviceLives)
  /\ \A a \in App : WF_vars(parseDeciceRecv(a)) /\ WF_vars(parseCenterRecv(a))
                    /\ WF_vars(Server(a))

Spec == Init /\ [][Next]_vars /\ Fairness
-----------------------------------------------------------------------------
(***************************************************************************)
(* Types.                                                                  *)
(***************************************************************************)
Source == (App \cup {Nobody}) \X Nat
Message == [to : Owner, cmd : {"set_app_id", "command"}, app : Owner, num : Num,
            of : Source]
Request == {"add_dev", "del_dev", "dev_list"}
Answer == {"added", "there_already", "deleted", "list_with", "list_without"}

TypeOK ==
  /\ run \in {"off", "on", "writing", "waiting"} /\ armed \in BOOLEAN
  /\ eeprom \in Owner \cup {"torn"}
  /\ app_id \in Owner
  /\ link \in {"old", "none", "open", "joined"} /\ topic \in Owner
  /\ sn \in {"own", "blank"}
  /\ recv_num \in Num /\ last \in Source
  /\ down \in Seq(Message) /\ up \subseteq App
  /\ stored \subseteq App /\ listed \subseteq App
  /\ toServer \in [App -> Seq(Request)] /\ toApp \in [App -> Seq(Answer)]
  /\ down_num \in [App -> Num] /\ models \in [App -> Nat]
  /\ stale \subseteq App /\ untaken \subseteq App /\ seized \subseteq App
  /\ rushed \in BOOLEAN
  /\ user \in 0..MaxUser
  /\ reloads \in Nat /\ lost \in Nat /\ fails \in Nat
  /\ reloads + lost + fails <= MaxOdd

\* What a running device believes is what it stored, and what it has subscribed
\* over a connection of its own is what it believes.
Rooted ==
  /\ run \in {"on", "waiting"} => eeprom = app_id
  /\ run = "on" /\ ~armed /\ link = "joined" => topic = app_id
  /\ run = "off" => eeprom \in {app_id, "torn"}

Lost == sn = "blank" \/ (run = "off" /\ eeprom = "torn")

(***************************************************************************)
(* What the device is, it is for good: whatever commands, resets and power *)
(* failures come, the application it reports to and the topic it has       *)
(* subscribed are what its EEPROM holds, and an application it was given   *)
(* outlives the restart that follows.  Only two things cost it application *)
(* and serial number: a failure of the power in the middle of              *)
(* drv_server_write, and its own reset in the middle of a further one, of  *)
(* a SET_APP_ID obeyed in the 58 ms of drv_system_reset.                   *)
(***************************************************************************)
IdentityKept == Rooted /\ (Lost => fails > 0 \/ rushed)

(***************************************************************************)
(* Over a connection that the device made itself, and as long as its reset *)
(* is not due, no application takes it from another one: whatever requests *)
(* of several phones are on their way, it passes through "no application". *)
(* Only the 58 ms of the reset and the connection the WiFi module keeps    *)
(* over the restart let two SET_APP_IDs to the same topic both be obeyed.  *)
(* CenterMan.cpp:345 and :380 say that an addition always needs a device   *)
(* that has been reset to no application.                                  *)
(***************************************************************************)
HandOver ==
  [][app_id' # app_id /\ link = "joined" /\ ~armed => Nobody \in {app_id, app_id'}]_vars

(***************************************************************************)
(* The filter of drv_server.c:322 meets a command only by chance: a number *)
(* the device takes for a repetition was drawn by another counter than the *)
(* last one, after a start of the phone's model or the device, or by a     *)
(* SET_APP_ID.  The bound on users keeps a counter from coming round: one  *)
(* of them adds the device, the others at most use up its numbers.         *)
(***************************************************************************)
FewCommands == MaxUser <= NumLast + 2

DropHasReason ==
  down # <<>> =>
    LET m == Head(down) IN
      m.cmd = "command" /\ Hears(m) /\ Repeated(m) => last # m.of

Rest(a) ==
  run = "on" /\ down = <<>> /\ a \notin up /\ toServer[a] = <<>> /\ toApp[a] = <<>>

(***************************************************************************)
(* At rest and without losses, a phone lists a device that is not in its   *)
(* application only if the device did not take the phone's SET_APP_ID (it  *)
(* was not reset, as CenterMan.cpp:380 warns, restarting, or dropped it    *)
(* for its number), if it took that of another phone right after it, or if *)
(* a report the device had sent before it left made the phone add it again *)
(* (CenterMan.cpp:1125); or the device has lost what it is.                *)
(***************************************************************************)
GhostHasReason ==
  lost = 0 /\ sn = "own" =>
    \A a \in App :
      Rest(a) /\ a \in listed /\ app_id # a => a \in stale \cup untaken \cup seized

Shown ==
  \A a \in App :
    run = "on" /\ sn = "own" /\ app_id = a =>
      /\ a \in stored \cup listed
      /\ lost = 0 => a \in stored \cap listed

(***************************************************************************)
(* Once users and faults are done, an application that has a device shows  *)
(* it: the device's reports have the phone add it however its addition     *)
(* went.  After a loss only one of phone and server may know it: a phone   *)
(* whose answer is lost is told "there already" for ever, and a phone      *)
(* whose deletion is answered by nobody never adds the device again.       *)
(***************************************************************************)
EventuallyShown == <>[]Shown
=============================================================================
