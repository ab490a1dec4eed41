# Verification of M2M-IOT

M2M-IOT is an IoT kit in three parts: an **app server** (`AppServer/AppServerPro`,
Qt), an **app** (`M2MClient/M2MClientPro`, Qt and QML) and **device firmware**
(`STM32F103C8T6_物联网工作空间-RT_Thread`, C on RT-Thread). The three talk through a
public MQTT broker, with QoS 0 everywhere. This directory holds TLA+ models of the
parts that keep state, the TLC runs that check them on small instances and the
TLAPS proofs that hold for every instance.

It covers all three: on the server the accounts, verification codes, applications and
the lists of groups and devices; in the app the log in, the list of applications, the
copies of those lists and the connection to the broker; of the firmware the MQTT client
over its ESP8266 module and the identity of a device. Section 6 says what is left out.

## 1. Inventory

| Part | State | Operations | Hard about it | What makes it correct |
|---|---|---|---|---|
| `thread/AccountThread.cpp` (server) | list of verification codes; rows of `account_list_tb` | `req_vercode`, `req_reg`, `login_pwd`, `login_code`, `reset_pwd`, `change_pwd`, the check every 500 ms | one expired code per check, two clocks, statements that fail, restarts | codes lapse, in time; names and phones unique; a confirmed password works; no account without a code |
| `thread/CenterThread.cpp`, applications | rows of `app_id_list`, column `app_list` | `new_app`, `rename`, `app_list` | a second thread writes the same tables, no transactions | ids unique; lists name one's own applications; limit; nothing acknowledged is lost |
| `thread/CenterThread.cpp`, groups and devices | `group_tb`, `device_tb` of each application | list, add, delete, order, rename | results of statements ignored; what the app sends is stored unchecked | rows agree with the app that edits them |
| `mqtt/BaseMqtt.cpp` (server and app) | list of topics, each with `isSubed` | add, delete, the check every 100 ms, connection events | acknowledgements in flight, connections that die unnoticed | a set flag is true; every topic gets subscribed; deleted topics get unsubscribed |
| `MainInterface.cpp` (app) | topic of the current application | the check every 500 ms | the application changes between two checks | only the current application is listened to |
| `center/CenterMan.cpp` (app) | current application, copy of its devices and groups, a list per view | requests, answers, moving and sorting | answers about the former application, lost answers, optimistic updates | the copy is the table; lists stay within their application |
| `center/AccountMan.cpp`, applications of `CenterMan.cpp` (app) | the account logged in, its list of applications, the current one; `account.txt`, `app.txt` | log in and out, `app_list`, `new_app`, selection, the check every second | two objects with one account each, late answers, a list that is asked for again only while empty | both objects mean the same account; no application of another account stays; an account with applications is shown some |
| `Drivers/drv_mqtt.c`, `app_mqtt.c` (device) | connection and topic states, age of the session, ring buffer | connect, subscribe, ping, receive, publish, close | acknowledgements after a close, packets dropped by a full buffer, sessions that end unnoticed | a good session is kept; a lost one is noticed in time; the device comes back and hears its commands |
| `Drivers/drv_esp8266.c` (device) | state of the set-up, of the link, its heart beat | set up Wi-Fi, open, close and look at the link, sort what the module says | texts that share a buffer hide each other; the module restarts by itself | a link that is gone is not believed in for ever |
| `Drivers/drv_server.c` (device) | identity in EEPROM, last packet number | report, command, `SET_APP_ID` | power failures in the middle of a write, a reset that comes late, a connection that outlives it, commands taken for repetitions | the identity survives; a device changes hands only through none, save around its reset |
| the other modems (`drv_air780e.c`, `drv_bc260.c`) | state of an AT dialogue | send, wait for an answer | lost and late answers | |

How they interact:

- `MainInterface` of the server owns the MQTT client and two worker threads. A message
  from the broker is passed to `AccountThread` or `CenterThread` by a queued signal,
  according to its topic; each thread serves its queue one message at a time and
  answers through another queued signal. So a handler is never interleaved with
  another handler *of the same thread*, and messages of one kind keep their order.
- The two threads share the file `account_list.db`, each over a connection of its own
  (`AccountSqlite`). There is no transaction anywhere: statements of the two threads
  interleave. The tables of groups and devices are used by `CenterThread` only.
- The app is one thread (Qt's event loop; QML runs in it). It asks, and changes its
  copy when the answer arrives, except when devices are moved between groups.
- Almost nothing is retried: a request or an answer that is published without a
  connection is dropped (`slotMqttPushMessage`), and QoS 0 may lose others. The exceptions
  are `app_list`, while the list of applications is empty, and the subscriptions.
- Adding a device to an application is two messages of the app, a request to the server
  and a `SET_APP_ID` to the device, and so is deleting it. Nothing ties the two together;
  a report of a device that the app does not list makes the app add it.
- On the device one thread does everything in a loop: several times a second it handles
  what the module said, once in a round of its timers it looks after the link, the
  session and its report.

## 2. Modules

| Module | Models | Built on |
|---|---|---|
| `AppRegistry` | what `app_id_list` promises: ids one after the other, each to one creator | |
| `AppCenter` | creation of applications by both worker threads, statement by statement | refines `AppRegistry` |
| `VerCodeList` | the list of verification codes and its check | |
| `VerCodeResend` | the views of the app that ask for a code, each with its own button and clock | `VerCodeList` |
| `AccountThread` | registration, log in by code, passwords | `VerCodeList` |
| `BaseMqtt` | topics, acknowledgements, connections, the broker | |
| `ClientTopics` | the app's check that replaces the topic of the current application | `BaseMqtt` |
| `GroupTables` | the server's handlers for groups and devices | |
| `CenterMan` | the app's copy of groups and devices, and the two channels | `GroupTables` |
| `AppSession` | who is logged in, which applications the app lists and which one it works with | |
| `Esp8266` | the driver of the Wi-Fi module and the module as the driver sees it | |
| `DeviceMqtt` | the device's MQTT client, its thread's rounds, the broker, faults | `Esp8266` |
| `DevServer` | identity of a device, `SET_APP_ID`, the filter of packet numbers | |
| `Membership` | device, phones and server: how a device comes to an application and leaves it | `DevServer` |

The modules of the server's accounts and applications are composed by their
interface: `AppCenter` takes a registration as one step, and `AccountThread` shows under
which conditions it happens. `X_proofs` proves theorems about `X`
(`ClientTopics_proofs` also about `BaseMqtt`, `VerCodeList_proofs` about `VerCodeResend`); `MCX` and the `.cfg` files of that name are its
instances for TLC.

Conventions. Actions carry the name of the function, slot or command they model.
A definition with a comment `mutant: ...` is a wrong variant of the definition of the
same parameters that follows it, with one plausible mistake; it is used by no module
and shows, put in place of the right one, that the property it was written for can
fail. **History variables** record what happened so that a property can say it; no
guard reads them: `damaged` (AppCenter), `asked` (VerCodeResend), `told`, `unsure`,
`turnedAway` (AccountThread), `deletedEarly` (BaseMqtt), `hasty`, `renamed`, `stock`,
`ownLists`, `mixed`, `dialog.of` (CenterMan), `untold`, `newFirst`, `overtaken` (AppSession),
`lateAck`, `orphan`, `stale` (DeviceMqtt), `last` (DevServer), `stale`, `untaken`,
`seized`, `rushed` (Membership). **Bounds** are constants named `Max...`; they limit
failures, losses and the user, never what the program does in answer to them, except
`MaxInFlight` of `BaseMqtt` and `MaxFlight` of `AppSession`, see below.

### AppCenter

`AccountThread` inserts the account row, answers the registration, and only then
reads the greatest id, takes the next one and calls `addAppIDToList`, whose result it
ignores. `CenterThread` serves `new_app`: it counts the account's rows, refuses at the
limit, reads the greatest id, calls `addAppIDToList` and answers. `addAppIDToList`
inserts a row (the column is UNIQUE), reads the account's `app_list` and writes the
whole list back. Each of these statements is a step: `Register`, `NewApp`,
`CountApps`, `ReadMax`, `InsertApp`, `ReadList`, `WriteList`, `AckNewApp`. `job[t]`
holds what a thread's running handler has in its locals: where it stands, the
account, the id and the list it has read. Any statement but the first of a request
may fail, in the way the code sees it (a failed count reads as 0, a failed select
as 0 or as an empty row). `Crash` ends both handlers and keeps the tables.

### VerCodeList, VerCodeResend

`m_reqVerCodeList` is a sequence; an entry carries its age in checks instead of
`reqTime`, because only the difference to `m_secCounts` is ever used. `Tick` is
`slotCheckTimeout`: everything gets older, and the *first* expired entry is dropped;
the loop returns after one. `ReqVerCode` is the command `req_vercode`. A code is not
consumed by its use.

`VerCodeResend` adds the button of `VerCodeView.qml`, locked for 30 seconds by a timer of
the view. The application has three of these views (`PhoneLogin.qml:69`, `RegView.qml:114`,
`ForgetView.qml:112`), each with a `timeValue` of its own, which is not tied to the number
typed above it and is gone with the process; `View` is the set of all the views of all the
phones. `Press(v, p)` asks for a code for any number `p`; `ShowAnew(v)` starts a view anew.
`ahead[v]` is the number of checks minus twice the seconds of view `v`, kept within
-1 .. 2: the clocks run at the same rate and are read at different moments. The history
`asked[v][p]` counts what view `v` was answered about the code that `p` was given last.
A user who changes views, or starts the application again, is refused as often as there
are views and starts; what the code promises, and the run checks, is that *one view* asks
no third time for the same code.

### AccountThread

One step per command, since this thread alone writes names, phones and passwords;
`fail` is the set of the handler's statements that fail. What `reset_pwd` and
`change_pwd` do at their end, updating, reading back and comparing, is `SetPassword`:
a failed reading leaves in `tag_account` what was there, which is nothing in the one
command and the *old* password in the other. `Generated[p]` is the name `"Y"+phone` that
`login_code` gives to a phone it does not know. `Restart` empties the list of codes.

### BaseMqtt, ClientTopics

The two copies of `BaseMqtt.cpp` differ in one line, so one module stands for both.
`slotCheckTimeout` sends SUBSCRIBE for the first topic without `isSubed` at every
check until SUBACK arrives, so several may be in flight; `mqttDelTopic` sends
UNSUBSCRIBE only for a topic with the flag. `conn = "dead"` is a connection the client
still believes in: what it sends is lost. The broker obeys packets in order and
acknowledges each; sessions are clean. The broker and QMQTT are outside the
repository and modelled by the events that `BaseMqtt.cpp` connects to.

`MaxInFlight` keeps the check from repeating SUBSCRIBE for ever while the broker is
silent. The theorems do not depend on its value.

`ClientTopics` adds `MainInterface`'s check: when `CenterMan` has another current
application than `m_currWorkAppID`, the old topic is deleted and the new one added, in
one step.

### GroupTables, CenterMan

`tables[a]` is `device_tb` and `group_tb` of application `a`; each server handler is
one step (`dev_list`, `group_list`, `add_group`, `del_group`, `rename_group`,
`sort_dev`, `add_dev`, `del_dev`) that takes the first request, of which at most one
statement fails, and answers. The answers are as optimistic as the code's: `sort_dev`,
`add_dev` and `del_dev` confirm what failed. `add_dev` compares the number it is given
with a struct that the search leaves unset when it finds nothing; the outcome is left
open.

`CenterMan` keeps `m_currAppWork`, `m_workDevList` and `m_groupList`. Each group also
has a view (`DevGridView.qml`) with a list of its own, `shown`, which is what the user
picks from and what is sent after a deletion. A device that is dragged moves in its view at
each drop (`DragDevice`), and only "完成" sends the order (`SortDevices`); until then the
view is `dragged` and shows what is not stored. The dialog that moves devices,
`dialog`, keeps the group and the devices it was opened with (`OpenMoveDialog`), whatever
answers arrive and whichever application is selected before a group is chosen in it
(`MoveDevices`) or it is closed (`CloseMoveDialog`). `onX` handles the answer to `X`, with the
requests it sends in turn; `User` selects applications, adds, deletes, drags and moves
devices and edits groups; dragging and the dialog's opening send nothing and are not
counted by `MaxActions`. Requests carry the *current* application, answers the one
they are about, and the handlers do not compare the two. The two channels keep the
order; `LoseRequest` and `LoseReply` take the first message away.

### AppSession

`AccountMan` has the account the user sees (`account`, `login_state`) and `account.txt`
(`saved`); `CenterMan` has the account its requests carry (`loginAccount`), the list
`appWorkList` and `currApp`, which `app.txt` keeps. A log in of the user or of the
restarted app (`readConfig`) is answered by `AccountThread`; the answer
(`parseAccountRecv`) makes `slotUpdateLoginAccount` of `CenterMan` ask for the list.
`LogOut` clears `AccountMan` only, as in the code. `slotCheckTimeout` asks again while the
list is empty; the user creates (`requestNewApp`) and selects (`selectCurrApp`);
`parseCenterRecv` takes the first answer. On the server `AnswerAppList` and
`AnswerNewApp` are `CenterThread`'s handlers; `FirstApp` is the application that
`AccountThread` creates *after* it has answered a registration. An answer is addressed to
one run of the app, so `Restart` makes those under way worthless. Creation is one step
here; `AppCenter` has its statements. Names are left out, so `rename` is.

### Esp8266, DeviceMqtt

`uart` is the buffer in which the module's output collects: the packets of `+IPD` in
order, and the set of texts next to them, of which `drv_esp8266_recv_process` obeys the
first one in the order of its branches before it clears the buffer. `down` is what the
module is about to say. `wifi`, `mux` and `sock` are the module's own state, `state`,
`conn_state` and `heart` what the driver believes. One link and one topic are modelled; the
device uses no more.

Time is counted in **rounds**: in each, `RegTurn` (`drv_esp8266_reg_process`), `MqttTurn`
(`drv_mqtt_connect`) and `StatusTurn` (the report of the status) act once, and `Tick` ends
it; between them `Receive` moves packets into the ring buffer and `drv_mqtt_recv_check`
handles the first of them, any number of times. A round is seconds, handling is
milliseconds: normally a round begins with everything handled (`Quiet`). It need not:
`MaxStalls` rounds begin late. `Send` is answered by the broker at once into `down`,
from where it arrives when it likes. A second CONNECT on a connection ends it, a refused
one too, sessions are clean.

A `+IPD` carries one packet, and packets are of one size: packets split over two segments,
and a ring buffer that drops part of a packet, are not modelled.

Faults, `MaxFaults` of them: the router goes, the module restarts, the peer disappears
without notice, a buffer is lost, the broker closes or refuses, the device restarts.

### DevServer, Membership

`drv_server_set_app_id` writes the identity (`run = "writing"`, `eeprom = "torn"` until
it is done), waits 100 ms (`"waiting"`) and calls `drv_system_reset`, which resets
nothing: it starts the window watchdog and returns. For the 58 ms until `Watchdog` the
device is `armed` and its loop goes on, so that it may obey a further `SET_APP_ID` and be
reset while it writes. `Start` reads the identity back, and takes a torn one for that
of a new device.

The Wi-Fi module is not reset with the device. Its connection and subscription stay
(`link = "old"`) until the restarted device sends AT+RST (`ModuleReset`), seconds later, as
`DeviceRestarts` of `DeviceMqtt` says in more detail; until then the device hears the topic
of its *former* identity, and `drv_server_recv_parse` does not compare the application of a
`SET_APP_ID` with its own. `Connect` and `Subscribe` then make the new connection. A report
needs a connection of the device's own, and one sent while `armed` carries the application
of before, so that no phone uses it. Messages that come while the device writes or waits
are still in the buffer afterwards or are not: both happen. `last` remembers where the number of the last command came from, so
that a property can tell a repetition from a coincidence.

In `Membership` each application has a phone. `requestAddDeviceQml` and `requestDelDevice`
send their two messages; `parseCenterRecv` handles the server's answers and
`parseDeciceRecv` (the code's name) the device's reports, one of which adds a device by
itself. `Server` is `CenterThread` for `add_dev`, `del_dev` and `dev_list`. Messages to the
device are in order and met only by the topic it listens to. `MaxOdd` bounds together the
lists asked for again, the messages lost and the power failures. `MaxAsked` says how many
requests and answers a phone may wait for when a report comes in: the device reports every
four seconds, so a phone that has one answer to wait for is the usual case.

## 3. Runs

| Run | Distinct states | What it shows |
|---|---|---|
| `app_center` | 247,069 | two threads, failing statements and crashes: ids, owners, acknowledgements and the limit stay right; a missing list entry has a cause; the registry is implemented |
| `app_center_first_app` | violation | the race that leaves a new account without an application |
| `ver_codes` | 1,993 | a phone has one code; codes lapse at most one check per phone late, and always |
| `resend` | 560,579 | no view asks a third time for the same code, whatever numbers are typed |
| `accounts` | 42,435 | unique names and phones, confirmed passwords, codes that open accounts, accounts only by code |
| `accounts_sms` | violation | a registered name `"Y"+phone` shuts that phone out |
| `base_mqtt` | 12,277 | true flags, explained leftovers, eventual subscription |
| `client_topics` | 8,414 | one application listed; the current one is heard in the end |
| `center_man` | 458,424 | copy and tables agree; lists stay in order for a patient user; lists stay within their application unless they, or the devices moved, were taken from another's; the exchange ends, with a group of all devices |
| `app_session` | 263,166 | the app's two objects mean one account; no application listed twice; what is listed wrongly, missing or not selected has a reason; an account with applications is shown some |
| `device_mqtt` | 836,240 | a lost session or link is noticed in bounded time; a good session is kept; a device that believes itself subscribed is, unless an acknowledgement came late; after faults it comes back |
| `membership` | 149,650 | the identity of a device survives; over a connection of its own it changes hands only through none; a dropped command and a wrong entry have a reason; in the end it is listed where it is |

A type invariant that is proved for all constants is not checked again by a run; those of
`CenterMan` and `DeviceMqtt` are.

### Bounds

- `app_center`: two accounts, so that the threads meet on one account or on two. Three
  would add threads' jobs, not meetings: only two threads exist. The limit is 2 (8 in
  the code), so that an account can stand below, at and above it. One failing
  statement, any number of crashes. The proofs cover every number of all of these.
- `ver_codes`: four phones and Timeout 2 (60 in the code): four codes can expire at the
  same check, so the backlog is longer than the timeout. Proved for all values, save
  `CodeLapses`.
- `resend`: the code's ratio of 60 checks to 30 seconds, 6 to 3, and three phones, the
  most that `FewPhones` allows; with a fourth one TLC finds a view that asks a third time. For
  the values of the code the assumption says: 57 phones. With more users than that at
  once the server may refuse a third request. Two views, so that a code given to one is
  asked for by the other; a third would only add requests between theirs.
- `accounts`: two phones, their two generated names and a third, two codes, two passwords
  and one too long to be stored. Two failing statements let a search and an insert, or an
  update and its reading back, fail in one request.
- `base_mqtt`: two topics, so that one precedes the other in the list, five changes
  (add, delete, add again, of one topic or both), one lost connection and three packets
  in flight. `client_topics`: the app's two fixed topics and two applications, four
  selections.
- `center_man`: two applications, each new or in use at the start, two devices, three
  groups; two actions of the user at any time, or one and a failure or loss (`MaxEvents`
  bounds them together). Two actions are the smallest number by which requests cross, and
  enough for a dialog that was opened on one application's group and is used on another's.
  The safety properties were also checked with two actions *and* a failure (970,587 states
  when the two applications may be exchanged): nothing else was found.
- `app_session`: two accounts, two applications, two messages of `CenterMan` on their way,
  one of them lost, one restart. With three messages on their way (931,834 states) nothing
  else was found.
- `device_mqtt`: the session may be two rounds old, the ping is sent after one, the heart
  beat looks after two; room for three packets, so that the ring buffer overflows. Two
  faults, so that one can hit the recovery from the other, and one late round. The two
  bounds are proved for all of these values, `KeepsSession` for every ring buffer that has
  room for two packets. `DeafHasReason` is a statement about one late round, and proved for
  it: with four in a row, SUBACK and UNSUBACK can outlive a restart of the device, and
  TLC finds a deaf device without a `lateAck`.
- `membership`: two applications; numbers 0 and 1 (256 in the code), so that they
  coincide; three actions of users (add, delete, and one more by the other), or two and one
  odd event. With three actions and an odd event (`MaxEvents` = 4; 1,319,136 states) it
  takes over five minutes and shows the same.

### Fairness

- `VerCodeList`: `WF(Tick)`. `checkTimer` is a periodic `QTimer` in the event loop of a
  thread whose handlers all return.
- `BaseMqtt`: weak fairness of the check (the same reason), of connecting (QMQTT is set to
  reconnect by itself), of noticing a dead connection (its ping timer), of the
  acknowledgements and of the broker. Losing a live connection is *not* fair: it may
  happen or not. `ClientTopics` adds `WF(SwitchTopic)`, a periodic timer.
- `CenterMan`: `WF(CenterRecv)` and `WF(Server)`: both programs take what is in their
  queues. No fairness for the user, losses or failures.
- `AppSession`: `WF(parseCenterRecv)` and `WF(Serve)`, as for `CenterMan`;
  `SF(slotCheckTimeout)`, a periodic timer: it is strong only because `MaxFlight` disables
  the step in the model now and then, where the code's timer is never disabled.
- `DeviceMqtt`: weak fairness of the parts of the thread's loop, which runs for ever, of
  `Tick`, its timers, of what the module has received being handed on, and of the module
  joining its router again. Not of faults, of messages of the app or of lost texts.
- `Membership`: weak fairness of the device's report (every four seconds) and of its steps
  from a `SET_APP_ID` to a new subscription, one after the other (writing, the watchdog,
  start, reset of the module, connection, subscription: its loop and its timers), of the delivery of messages that are not lost, and of phones and server.
- No fairness is needed, or assumed, in `AppCenter`, `AccountThread` and
  `VerCodeResend`, whose properties are safety properties.

Deadlock is checked except for `BaseMqtt`, `ClientTopics`, `CenterMan` and
`Membership`: when the bounds
on changes or actions are used up, everything is answered and nothing is left to do,
they rightly stop.

## 4. Proofs

Assumptions are the named `ASSUME`s of the modules; nothing else is taken on trust. Four
theorems hold under a hypothesis of their own, which they name, the model states as an
operator and the `MC` module of the run evaluates: `FewPhones` (`NeverAskedThrice`; 57
phones with the values of the code), `FewCommands` (`DropsHaveReason`; 257 actions of
users with 256 numbers, so that no counter comes round), `RoomForTwo` (`SessionsAreKept`)
and `AtMostOneLate` (`DeafOnlyByLateAck`). Every other theorem holds for all values of the
constants.

Every safety property and action property that a run checks is stated by a theorem; only
liveness is model-checked alone.

**AppCenter_proofs.** Typing is not inductive by itself: `AppRegistry` needs the ids to
be contiguous. `TypeIdInv` says that the rows have the ids `AppIdMin+1 .. AppIdMin+n`,
one each, and that an id a thread is about to insert is no more than one past the end;
a stale id is thus in the table, and UNIQUE refuses it. `OwnInv` adds that what the
threads hold between two statements (the id being added, the list read) belongs to the
account they work for. From these: `TypeCorrect`, `ListsAreOwned`, `AcksAreTrue`.
`MissingHasReason` is inductive over them. `LimitInv` counts, per account, the rows
inserted by `CenterThread` (bounded by the limit and the failed counts) and by
`AccountThread` (one, and only once its account row exists): `LimitHolds`.
`RegistryImplemented` shows that an insert is a `Create` of the registry and every
other step a stutter.

**VerCodeList_proofs.** `AgeBound` follows from `Backlog`: an entry at place i has an
age of at most Timeout + N - i with N phones. It is preserved because the entry in front
is never younger than those behind it (`OldestInFront`) and is the one a check drops;
a new entry finds room because, phones being unique in the list, it has at most N entries
(pigeonhole, `LenBound`). `LapseInOrder` uses the same order.

The same module proves the theorems about `VerCodeResend`. While the button of a view is
locked, `age - ahead + 2 * timeValue` of a code and the view does not change; every press of
the button adds a countdown, a restart clears the view's count. So a code about which a view
was answered twice is two countdowns old at the next press (`AgedEnough`), which `AgeBound`
and `FewPhones` rule out: `NeverAskedThrice`.

**AccountThread_proofs.** `AccountInv` strengthens `ConfirmedPasswordWorks` by: a
confirmed password has a row, and the row has it. Uniqueness of names and phones is what
makes the first row of a select the right one. `RegisteredWithLiveCode` combines the age
bound above with the guards on the code.

**ClientTopics_proofs**, about `BaseMqtt`. `FlagInv`: without a connection there is
nothing in flight and
no flag, and every acknowledgement in flight is still true at the broker or a later one
in flight takes it back. `LeftoverInv`: a topic the broker has or will have is listed,
deleted early, or will be unsubscribed; and a flag that an old UNSUBACK is about to clear
is set again by the check. Both hold for any topics and any number of packets.

About `ClientTopics`: the list holds no topic twice, so that removing the first entry of a
topic removes the topic, and the current application is never again none:
`OneApplication`.

**CenterMan_proofs.** `KInv` adds to the types where lists come from: every list in the
tables, on the channels and in the copy of the current application is *known* for its
application, that is, made of devices it has or had, unless it was sent a foreign one
(`CopyTyped`, `ForeignExplained`). The devices that the dialog keeps are known for the
applications whose lists they were chosen from, which need not be the current one any more
(`dialog.of`).

`CopyIsReplica` goes by a **chain** of tables (`Chain`): the table of the current
application as it was when each of the answers now under way was sent. From one to the next
leads what the answer confirms (`Served`), the last is the present table, and the copy is
the first, as to `devList` and, where nothing was `dragged`, as to the view; except for groups that have a list of devices under way (`Pending`), because
dragging and moving change the copy before the server. Taking an answer advances the copy
by one link, serving a request adds one. A `dev_list` on its way cuts the chain, so it is
needed only behind the last one; that makes `selectCurrApp`, after which the old answers mean
nothing, start a new chain. The invariant needs that requests behind the last `dev_list` are
about the current application (`AboutCurrent`) and that no list of a group was sent after
a request to rename it (`RenamedLast`): `renamed` is the exception the property names.

For `PatienceKeepsOrder` the exchange of a user who waits for every answer is in one of three
phases: one request is on its way (`Asking`), its answer is (`Answered`), or only lists are
(`Sorting`), each of which the table can take. What the lists lack between the server's
`add_dev` or `del_dev` and the app's lists is `JoinedBy` and `LeftBy`. It uses the chain: the
lists the app sends are right because its copy is.

What the app's loops do to a list, taking devices out and putting them at its end, is defined
by the places that stay (`Picked`) rather than by a fold over the devices: the result
is the same, and what it contains follows from the ranks of the places, without induction.

**AppSession_proofs.** The types are inductive only together with what is known of the
accounts (`LoginsAgreed`), as a request takes its account from `CenterMan`. `NoDoublesListed`
needs that the ids of all accounts are distinct, that none is beyond the last one issued,
and that an answer to `new_app` under way is newer than whatever the app lists or will be
told before it. `ForeignOnlyUntold` and `CurrentListed` are about order: an answer for a
former account is overtaken by the list asked for at the log in, which is behind it, or one
of them was lost (`untold`). `MissingHaveReason` is the converse, that nothing is left out:
a list on its way is the account's but for what was created after it, which is behind it in
an answer of its own (`Whole`), and what the app's list lacks is coming in the same way
(`Complete`). A restarted app has received nothing before the requests of its former run
are served (`Former`).

**Membership_proofs.** `MInv` holds together the types, `Solid` (outside the write the
EEPROM holds what the device believes, and the topic it has subscribed over a connection of
its own is the one it belongs to), `Powered` (only a power failure, or a `SET_APP_ID` obeyed
with the reset due, tears it) and `AllGive` (a `SET_APP_ID` to the topic of an application
takes the device away, one to the topic of devices without one gives it). From it `IdentityIsKept` and `HandedOver`, for any number of
applications, users, losses and power failures.

`GhostsHaveReason` compares what three queues come to when they have been handled, the last
element about an application deciding (`Final`): what the server will store (`Ends`), what
the phone will list (`Shows`) and what the device will be (`Settles`). Without losses the
phone comes to list what the server stores (`Mirrored`), and what the server will store is
what the device will be, but for the reasons (`Explained`);
a device that has lost its identity is left out. `DropsHaveReason` follows the
numbers: each is drawn by a model of a phone (`Sourced`), the numbers of one model that are
on their way or last differ (`Distinct`, `Newer`), because each is behind the model's counter
by fewer steps than there are numbers (`Counted`), which is where `FewCommands` comes in.

**DeviceMqtt_proofs.** `OrphansAreBounded` and `StaleLinksAreBounded`. A late round may
leave packets behind that make a lost session look young; it is counted. After the first
round that begins with everything handled, nothing that refreshes the age can come any
more: only a session makes packets, and only a CONNECT, which a client that takes itself
for connected does not send, makes a session (`OrphanInv`, with `NoPackets`). From there
on the age grows with the rounds, and its limit closes the session. `StaleInv` says the
same of a link that is gone and the heart beat, with `NoNews` (nothing under way says
that the link opened) for `NoPackets`.

`SessionsAreKept` and `DeafOnlyByLateAck` look at what is **due** to the client, in its ring
buffer, in the module's buffer and on its way, as one sequence (`Due`): arrival and receipt
move items along in it, the client takes the first. Without faults and late rounds the
device goes through phases (`SettingUp`, `NoLink`, `LinkLate`, `LinkOpen`, `Opening`, `Kept`;
together `Phases`) and never leaves the last one, in which one of the first two due packets
refreshes the session whenever its age has come to the ping. Two, because a round can ask
for SUBACK and PINGRESP: hence `RoomForTwo`, without which TLC finds a session that ends by
itself.

`DeafInv` says why a SUBACK that a connected client handles tells of a session that is still
there: no CONNACK is ever due before a SUBACK (`AcksFirst`), so a client that connects anew
has the answers of its former session behind it. A CONNECT is sent with no CONNACK due, or
after a late round with one, of a client that is not connected (`Answered`); after a restart,
until a round begins with everything handled, nothing it sends gets through (`Booting`). Faults, full buffers and
cleared ones only take items out of `Due` and add others that do not matter: `Thin` and
`Plain` say that once for all such steps.

Model-checked only: all liveness (`CodeLapses`, `EventuallySubscribed`, `HearsCurrentApp`,
`EventuallyHasAll`, `EventuallyListed`, `EventuallyShown`, `Recovers`), which is beyond the
prover. `DeafHasReason` is proved for one late round; TLC finds it true with two as well.

## 5. What the checks found

Two runs end in a violation of something a comment in the code says.

1. **First application lost** (`app_center_first_app`). `AccountThread` and
   `CenterThread` derive the same id from the same maximum; the second insert fails on
   UNIQUE. `CenterThread` reports that; `AccountThread` ignores it
   (`AccountThread.cpp:310`), so the registration, which was acknowledged, has no
   application.
2. **Phone shut out** (`accounts_sms`). `login_code` inserts `"Y"+phone`
   (`AccountThread.cpp:513`); if that name was registered with another phone, the right
   code is answered with a database error, for ever.

Some properties hold with an exception they name, a history variable or a disjunct; each
exception is something TLC found the code to do:

- `MissingOnlyIfDamaged`: `addAppIDToList` reads and writes back a whole list
  (`AccountSqlite.cpp:478`). When both threads do so for one account, one id disappears;
  the application exists, counts against the limit and is never shown.
- `LeftoverHasReason`: `mqttDelTopic` unsubscribes only a topic whose SUBACK has arrived
  (`BaseMqtt.cpp:217`); the broker goes on serving one that was deleted before.
- `ForeignOnlyIfMixed`: `selectCurrApp` changes the application without clearing the groups
  (`CenterMan.cpp:1293`); until two answers have arrived the user sees groups of the former
  application, and what is edited then is stored in the new one. A dialog that was opened
  before keeps its devices even after the answers (`DevMoveGroupDialog.qml:64`), and moves
  them into a group of the new one.
- `IdentityKept`: a power failure while the identity is written makes the device a new one,
  without application and serial number; so does its own reset, if it obeys a second
  `SET_APP_ID` while the first one's reset is due (`rushed`).
- `HandOver`: a device must have been reset before it is added, or the addition does
  nothing (`CenterMan.cpp:345`, `:380`). But the device does not look at its own
  application when it obeys a `SET_APP_ID` (`drv_server.c:342`): the topic it listens to is
  what protects it, and that stays the topic of devices without an application for the 58 ms
  of `drv_system_reset` (`drv_common.c:410`), and then until the restarted device resets the
  module (`drv_esp8266.c:298`). Two phones that add the same device within these seconds
  both succeed, and the second one has it.
- `DropHasReason`: a command is dropped as a repetition when its number, drawn by chance or
  started from a fixed value, happens to be that of the last one.
- `GhostHasReason`: the comment at `CenterMan.cpp:380` asks for a device that was reset, but
  the server's addition stands whether or not the device took its `SET_APP_ID` (`untaken`);
  and a report that the device sent before it was deleted makes the app add it again
  (`CenterMan.cpp:1125`, `stale`). And the phone from which another one took the device
  right away goes on listing it (`seized`).
- `EventuallyShown` speaks of phone *or* server after a loss: a phone whose `add_dev` answer
  is lost is told "there already" at every further report and never lists the device.
- `DeafHasReason`: a SUBACK handled after `drv_mqtt_close` marks the topic subscribed
  (`drv_mqtt.c:311`); the next session does not ask for it, and the device hears nothing
  until it next reconnects.
- `Recovers`: a module that restarts and is back at its router before the driver asks leaves
  the driver in its state OK; CIPMUX is never set again, every CIPSTART fails.
- `StaleBound` is what is left of a ",CLOSED" that shared the buffer with another text: the
  branches of `drv_esp8266_recv_process` exclude each other, and only the heart beat finds out.
- `MissingHasReason` and `CurrentHasReason`: `new_app` answered into an empty list selects
  nothing and stops the asking (`newFirst`); log in by code is answered before the first
  application exists (`AccountThread.cpp:498`, `overtaken`); an `app_list` that is lost after a
  change of accounts is never repeated, as the list is not empty (`untold`); and with an empty
  list the application of the former account stays current.

Also met while modelling, without a run of their own:

- The limit on applications can be exceeded by one through the application that comes
  with the registration, and by one for each failed count (`CreationLimit`).
- `m_timerCounts` in `AccountThread` is never incremented, so the check runs every
  500 ms and a code lives about 30 s, as long as the button stays locked: hence the
  refusal at the boundary that `AskedTwiceAtMost` allows.
- A password change may be reported as failed when only its reading back failed; the new
  password is then in force (`unsure`).
- A lost answer to `dev_list` or `group_list` is never asked for again, and the view stays
  empty or old until the user selects the application again.
- `del_dev` deletes from `device_tb`; the groups of the table are corrected by the lists
  the app sends afterwards. A crash of the app in between leaves them listed.
- Two apps with one account write whole lists: the last writer wins.
- `CenterMan` is never told of a log out and goes on asking for the former account.

## 6. Not modelled

- **Most lines of the repository are third-party code** and stay out: CMSIS, the
  peripheral library, RT-Thread, mbedtls in three copies, QZXing, QMQTT. Together they are
  the larger part by far; modelling them would say nothing of this program.
- **Views of the app** (QML) beyond the two whose state matters (the lists of `DevGridView`,
  the timer of `VerCodeView`), **QR codes**, sensors, clock, storage drivers, ciphers,
  checksums, JSON and the layout of frames: no state of their own, or pure input and output.
- **`drv_air780e.c`, `drv_bc260.c`**: dialogues of their own with other modems, of the shape of
  `Esp8266`; the two projects of devices use the ESP8266.
- **`drv_iap.c`** has no callers; **`drv_modbus.c`** is one request and one answer.
- **Bytes**: a packet that is split over two `+IPD`, a ring buffer that keeps half a packet, and
  the interrupt that fills the UART buffer while the thread reads it.
- **Application of the thermostat** (`app_th01.c`), sampling and motor of the purifier: values,
  not protocol. Forwarding to nodes behind a gateway.
- **Two phones with one account**, each with a copy of the same lists; **failing statements of
  the device tables** seen from the second phone; **a SUBACK that refuses** (`BaseMqtt.cpp:272`
  does not look at its code): it is the broker's decision, and no broker of this project refuses.
- **`AccountThread` before its first timeout**: it uses a database pointer that the first timeout
  of its timer sets, 500 ms after the start; the models start with it set.
- **Names** of applications and devices, parents of devices and the order of groups: no handler
  reads what they change.

What could follow: the second phone of an account in `CenterMan`; bytes instead of packets in
`DeviceMqtt`; and the proof that the flags of `BaseMqtt` stay true under the steps of
`ClientTopics`, which replace a topic at once.
