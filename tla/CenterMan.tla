----------------------------- MODULE CenterMan -----------------------------
(***************************************************************************)
(* CenterMan, the app's copy of an application's devices and groups,       *)
(* against the tables of the server.                                       *)
(*                                                                         *)
(* The app asks and the server answers over two channels that keep the     *)
(* order and may lose a message (QoS 0).  A handler of the app changes the *)
(* copy when the answer arrives; moving devices changes it before.  Every  *)
(* group has a view, DevGridView, with a list of its own, from which the   *)
(* user's choices and the lists sent after a deletion are taken: it shows  *)
(* a new order as soon as a device is dragged, and sends it when the user  *)
(* is done.  The dialog that moves devices to another group keeps what was *)
(* chosen when it was opened, whatever becomes of the views.               *)
(*                                                                         *)
(* Every request names the current application, every answer the           *)
(* application it is about; the handlers do not compare the two.           *)
(***************************************************************************)
EXTENDS GroupTables

CONSTANTS
  InitialTables,  \* what an application may hold when the app starts
  MaxActions,     \* bound: the user's actions that send something
  MaxEvents       \* bound: these actions, failures and losses together

\* Lists of an application as one app, used without haste, leaves them.
Orderly(t) ==
  /\ \A g \in DOMAIN t.groups : /\ IsInjective(t.groups[g])
                                /\ Range(t.groups[g]) \subseteq t.devices
  /\ t.devices # {} => All \in DOMAIN t.groups /\ Range(t.groups[All]) = t.devices

ASSUME TablesAssumption == \A t \in InitialTables : IsTable(t) /\ Orderly(t)
ASSUME ActionsAssumption == MaxActions \in Nat /\ MaxEvents \in Nat

VARIABLES
  currApp,    \* m_currAppWork
  workDevs,   \* m_workDevList
  groupList,  \* m_groupList: name and devList of each group; its view's list and
              \* sortFlag, whether it was dragged into an order not sent yet
  dialog,     \* DevMoveGroupDialog: srcGroupName and moveDevList, or Closed
  actions,    \* counter for the bound
  hasty,      \* history: the user acted while something was in flight, or the
              \* application changed under an open dialog
  renamed,    \* history: a list was sent for a group that was being renamed
  stock,      \* history: devices an application had or is said to have had
  ownLists,   \* history: all of groupList was loaded from currApp
              \* (dialog.of: whose the lists were that the devices come from)
  mixed       \* history: applications that were sent lists of another one

clientVars == <<currApp, workDevs, groupList, dialog>>
history == <<hasty, renamed, stock, ownLists, mixed>>
vars == <<serverVars, clientVars, actions, history>>

Settled == requests = <<>> /\ replies = <<>>

Room == actions + faults < MaxEvents

Closed == [src |-> All, devs |-> <<>>, of |-> {}]

Init ==
  /\ tables \in [App -> InitialTables]
  /\ currApp \in App
  /\ requests = <<[cmd |-> "dev_list", app |-> currApp]>>
  /\ replies = <<>>
  /\ workDevs = {}
  /\ groupList = <<>>
  /\ dialog = Closed
  /\ faults = 0
  /\ actions = 0
  /\ hasty = FALSE
  /\ renamed = FALSE
  /\ stock = [a \in App |-> tables[a].devices]
  /\ ownLists = FALSE
  /\ mixed = {}

-----------------------------------------------------------------------------
(* Requests *)

requestDevList == [cmd |-> "dev_list", app |-> currApp]
requestGroupList == [cmd |-> "group_list", app |-> currApp]
requestOrderGroup == [cmd |-> "order_group", app |-> currApp]
requestAddGroup(g) == [cmd |-> "add_group", app |-> currApp, group |-> g]
requestDelGroup(g) == [cmd |-> "del_group", app |-> currApp, group |-> g]
requestRenameGroup(g, h) ==
  [cmd |-> "rename_group", app |-> currApp, group |-> g, to |-> h]
requestSortDevice(g, l) ==
  [cmd |-> "sort_dev", app |-> currApp, group |-> g, devs |-> l]
requestAddDevice(d) == [cmd |-> "add_dev", app |-> currApp, dev |-> d]
requestDelDevice(D) == [cmd |-> "del_dev", app |-> currApp, devs |-> D]

\* A rename of g is not acknowledged yet.
BeingRenamed(g) ==
  \/ \E q \in Range(requests) : q.cmd = "rename_group" /\ q.group = g
  \/ \E r \in Range(replies) : r.cmd = "rename_group" /\ r.request.group = g

\* Messages are published in order.  What a list does to the server depends on
\* whether all that is in it is the current application's own and on whether its
\* group still has the name.
PublishFrom(own, msgs) ==
  LET lists == {q \in Range(msgs) : q.cmd = "sort_dev"}
  IN /\ requests' = requests \o msgs
     /\ mixed' = IF lists # {} /\ ~own THEN mixed \cup {currApp} ELSE mixed
     /\ renamed' = (renamed \/ \E q \in lists : BeingRenamed(q.group))
Publish(msgs) == PublishFrom(ownLists', msgs)

(***************************************************************************)
(* The list of groups.  Searches find the first group of a name.           *)
(***************************************************************************)
Node(g, l) == [name |-> g, devs |-> l, shown |-> l, dragged |-> FALSE]
Names == {groupList[i].name : i \in DOMAIN groupList}
IsFirst(i, g) ==
  groupList[i].name = g /\ \A j \in 1..(i - 1) : groupList[j].name # g
searchGroupNode(g) == CHOOSE i \in DOMAIN groupList : IsFirst(i, g)

(***************************************************************************)
(* The elements of s at the places I, in their order.  A device leaves a   *)
(* list from its first place, and enters one that lacks it at the end.     *)
(***************************************************************************)
Picked(s, I) ==
  [k \in 1..Cardinality(I) |->
     s[CHOOSE i \in I : Cardinality({j \in I : j <= i}) = k]]
RepeatedAt(s, i) == \E j \in 1..(i - 1) : s[j] = s[i]
RemoveAll(s, D) == Picked(s, {i \in DOMAIN s : s[i] \in D => RepeatedAt(s, i)})
AppendNew(s, l) ==
  s \o Picked(l, {i \in DOMAIN l : l[i] \notin Range(s) /\ ~RepeatedAt(l, i)})
Chosen(s, D) == Picked(s, {i \in DOMAIN s : s[i] \in D /\ ~RepeatedAt(s, i)})

\* The element at place j is moved to place k, those between make room.
Moved(s, j, k) ==
  [i \in DOMAIN s |->
     IF i = k THEN s[j]
     ELSE IF j <= i /\ i < k THEN s[i + 1]
     ELSE IF k < i /\ i <= j THEN s[i - 1]
     ELSE s[i]]

-----------------------------------------------------------------------------
(* parseCenterRecv *)

Receiving(cmd) == replies # <<>> /\ Head(replies).cmd = cmd
Reply == Head(replies)
Unhandled == <<tables, faults, actions, currApp, dialog, hasty, stock>>

WorkListOnly ==  \* mutant: onDevList does not go on to the groups
  /\ Receiving("dev_list")
  /\ replies' = Tail(replies)
  /\ workDevs' = Reply.devs
  /\ UNCHANGED <<requests, groupList, ownLists, mixed, renamed, Unhandled>>

onDevList ==
  /\ Receiving("dev_list")
  /\ replies' = Tail(replies)
  /\ workDevs' = Reply.devs
  /\ UNCHANGED <<groupList, ownLists>>
  /\ Publish(<<requestGroupList>>)
  /\ UNCHANGED Unhandled

AddToGroups ==  \* mutant: onGroupList without clearGroup
  /\ Receiving("group_list")
  /\ replies' = Tail(replies)
  /\ LET names == SetToSeq(DOMAIN Reply.groups)
     IN groupList' = groupList \o
                       [i \in DOMAIN names |-> Node(names[i], Reply.groups[names[i]])]
  /\ ownLists' = (Reply.app = currApp)
  /\ Publish(IF All \in DOMAIN Reply.groups THEN <<>> ELSE <<requestAddGroup(All)>>)
  /\ UNCHANGED <<workDevs, Unhandled>>

onGroupList ==
  /\ Receiving("group_list")
  /\ replies' = Tail(replies)
  /\ LET names == SetToSeq(DOMAIN Reply.groups)
     IN groupList' = [i \in DOMAIN names |-> Node(names[i], Reply.groups[names[i]])]
  /\ ownLists' = (Reply.app = currApp)
  /\ Publish(IF All \in DOMAIN Reply.groups THEN <<>> ELSE <<requestAddGroup(All)>>)
  /\ UNCHANGED <<workDevs, Unhandled>>

onAddGroup ==
  /\ Receiving("add_group")
  /\ replies' = Tail(replies)
  /\ groupList' = IF Reply.ok THEN Append(groupList, Node(Reply.request.group, <<>>))
                  ELSE groupList
  /\ UNCHANGED <<requests, workDevs, ownLists, mixed, renamed, Unhandled>>

onRenameGroup ==
  /\ Receiving("rename_group")
  /\ replies' = Tail(replies)
  /\ groupList' = [i \in DOMAIN groupList |->
                     IF Reply.ok /\ IsFirst(i, Reply.request.group)
                     THEN [groupList[i] EXCEPT !.name = Reply.request.to]
                     ELSE groupList[i]]
  /\ UNCHANGED <<requests, workDevs, ownLists, mixed, renamed, Unhandled>>

onDelGroup ==
  /\ Receiving("del_group")
  /\ replies' = Tail(replies)
  /\ groupList' = IF Reply.ok /\ Reply.request.group \in Names
                  THEN RemoveAt(groupList, searchGroupNode(Reply.request.group))
                  ELSE groupList
  /\ UNCHANGED <<requests, workDevs, ownLists, mixed, renamed, Unhandled>>

(***************************************************************************)
(* A new device enters the view and the list of the group of all devices,  *)
(* which is sent to the server.                                            *)
(***************************************************************************)
Extended(d) ==
  [i \in DOMAIN groupList |->
     LET n == groupList[i] IN
       [n EXCEPT !.shown = IF n.name = All THEN Append(@, d) ELSE @,
                 !.devs = IF IsFirst(i, All) THEN Append(@, d) ELSE @]]

onAddDev ==
  /\ Receiving("add_dev")
  /\ replies' = Tail(replies)
  /\ ownLists' = (ownLists /\ (Reply.ok => Reply.request.app = currApp))
  /\ workDevs' = IF Reply.ok THEN workDevs \cup {Reply.request.dev} ELSE workDevs
  /\ groupList' = IF Reply.ok THEN Extended(Reply.request.dev) ELSE groupList
  /\ Publish(IF Reply.ok /\ All \in Names
             THEN <<requestSortDevice(All, groupList'[searchGroupNode(All)].devs)>>
             ELSE <<>>)
  /\ UNCHANGED Unhandled

DelFromViews ==  \* mutant: onDelDev sends no list
  /\ Receiving("del_dev")
  /\ replies' = Tail(replies)
  /\ workDevs' = workDevs \ Reply.request.devs
  /\ groupList' = [i \in DOMAIN groupList |->
                     [groupList[i] EXCEPT !.shown = RemoveAll(@, Reply.request.devs)]]
  /\ UNCHANGED <<requests, ownLists, mixed, renamed, Unhandled>>

(***************************************************************************)
(* Deleted devices leave the views, and every view sends what it has left. *)
(***************************************************************************)
onDelDev ==
  /\ Receiving("del_dev")
  /\ replies' = Tail(replies)
  /\ workDevs' = workDevs \ Reply.request.devs
  /\ groupList' = [i \in DOMAIN groupList |->
                     [groupList[i] EXCEPT !.shown = RemoveAll(@, Reply.request.devs)]]
  /\ UNCHANGED ownLists
  /\ Publish([i \in DOMAIN groupList |->
                requestSortDevice(groupList[i].name, groupList'[i].shown)])
  /\ UNCHANGED Unhandled

SortViews ==  \* mutant: onSortDev leaves devList as it is
  /\ Receiving("sort_dev")
  /\ replies' = Tail(replies)
  /\ ownLists' = (ownLists /\ Reply.request.app = currApp)
  /\ groupList' =
       [i \in DOMAIN groupList |->
          LET n == groupList[i] IN
            [n EXCEPT !.shown = IF n.name = Reply.request.group
                                THEN Reply.request.devs ELSE @]]
  /\ UNCHANGED <<requests, workDevs, mixed, renamed, Unhandled>>

onSortDev ==
  /\ Receiving("sort_dev")
  /\ replies' = Tail(replies)
  /\ ownLists' = (ownLists /\ Reply.request.app = currApp)
  /\ groupList' =
       [i \in DOMAIN groupList |->
          LET n == groupList[i] IN
            [n EXCEPT !.shown = IF n.name = Reply.request.group
                                THEN Reply.request.devs ELSE @,
                      !.devs = IF IsFirst(i, Reply.request.group)
                               THEN Reply.request.devs ELSE @]]
  /\ UNCHANGED <<requests, workDevs, mixed, renamed, Unhandled>>

CenterRecv ==
  \/ onDevList \/ onGroupList \/ onAddGroup \/ onRenameGroup \/ onDelGroup
  \/ onAddDev \/ onDelDev \/ onSortDev

-----------------------------------------------------------------------------
(* The user *)

\* selectCurrApp, or an app_list without the current application: the copy and
\* an open dialog still are the former application's.
SelectApp(a) ==
  /\ a # currApp
  /\ currApp' = a
  /\ ownLists' = FALSE
  /\ requests' = Append(requests, [cmd |-> "dev_list", app |-> a])
  /\ UNCHANGED <<groupList, dialog, renamed, mixed>>

\* requestAddDeviceQml, and parseDeciceRecv for a device that is not known.
AddDevice(d) ==
  /\ UNCHANGED <<currApp, groupList, dialog, ownLists>>
  /\ Publish(<<requestAddDevice(d)>>)

DelDevices(i, D) ==
  /\ UNCHANGED <<currApp, groupList, dialog, ownLists>>
  /\ Publish(<<requestDelDevice(D)>>)

\* A device of a view is dropped at another place: the view alone changes.
DragDevice(i) ==
  /\ \E j, k \in DOMAIN groupList[i].shown :
        /\ j # k
        /\ groupList' = [groupList EXCEPT ![i].shown = Moved(@, j, k), ![i].dragged = TRUE]
  /\ UNCHANGED <<requests, currApp, dialog, ownLists, renamed, mixed>>

\* The user is done with dragging: the list that the view has by now is sent.
SortDevices(i) ==
  /\ groupList[i].dragged
  /\ groupList' = [groupList EXCEPT ![i].dragged = FALSE]
  /\ UNCHANGED <<currApp, dialog, ownLists>>
  /\ Publish(<<requestSortDevice(groupList[i].name, groupList[i].shown)>>)

\* The dialog keeps the name of the group and the devices in their order.
OpenMoveDialog(i, D) ==
  /\ dialog' = [src |-> groupList[i].name,
                devs |-> Chosen(groupList[i].shown, D),
                of |-> IF ownLists THEN {currApp} ELSE {}]
  /\ UNCHANGED <<requests, currApp, groupList, ownLists, renamed, mixed>>

CloseMoveDialog ==
  /\ dialog' = Closed
  /\ UNCHANGED <<requests, currApp, groupList, ownLists, renamed, mixed>>

(***************************************************************************)
(* requestMoveDevice, for the group h that the dialog shows: both lists    *)
(* change at once, the views when the answers arrive.  The group of all    *)
(* devices keeps what is moved out of it and takes nothing.                *)
(***************************************************************************)
MoveDevices(h) ==
  LET g == dialog.src
      src == searchGroupNode(g)
      dst == searchGroupNode(h)
      left == IF g = All THEN groupList[src].devs
                         ELSE RemoveAll(groupList[src].devs, Range(dialog.devs))
      gained == IF h = All THEN groupList[dst].devs
                           ELSE AppendNew(groupList[dst].devs, dialog.devs)
  IN /\ g \in Names
     /\ h \in Names \ {g}
     /\ groupList' = [groupList EXCEPT ![src].devs = left, ![dst].devs = gained]
     /\ dialog' = Closed
     /\ UNCHANGED <<currApp, ownLists>>
     /\ PublishFrom(ownLists /\ currApp \in dialog.of,
                    (IF g = All THEN <<>> ELSE <<requestSortDevice(g, left)>>)
                      \o (IF h = All THEN <<>> ELSE <<requestSortDevice(h, gained)>>))

\* The names are those the dialogs took when they were opened.
EditGroups ==
  /\ \/ requests' = Append(requests, requestOrderGroup)
     \/ \E g \in Group \ {All} :
          \/ requests' = Append(requests, requestAddGroup(g))
          \/ requests' = Append(requests, requestDelGroup(g))
          \/ \E h \in Group \ {All} : requests' = Append(requests, requestRenameGroup(g, h))
  /\ UNCHANGED <<currApp, groupList, dialog, renamed, ownLists, mixed>>

\* While the dialog is open nothing else can be touched, but a device may report
\* and an app_list may arrive.
Sending ==
  /\ actions < MaxActions /\ Room
  /\ actions' = actions + 1
  /\ \/ \E a \in App : SelectApp(a)
     \/ \E d \in Dev : AddDevice(d)
     \/ \E h \in Group : dialog # Closed /\ MoveDevices(h)
     \/ /\ dialog = Closed
        /\ \/ EditGroups
           \/ \E i \in DOMAIN groupList :
                \/ SortDevices(i)
                \/ \E D \in SUBSET Range(groupList[i].shown) \ {{}} : DelDevices(i, D)

Looking ==
  /\ UNCHANGED actions
  /\ \/ dialog # Closed /\ CloseMoveDialog
     \/ /\ dialog = Closed
        /\ \E i \in DOMAIN groupList :
             \/ DragDevice(i)
             \/ \E D \in SUBSET Range(groupList[i].shown) \ {{}} : OpenMoveDialog(i, D)

User ==
  /\ Sending \/ Looking
  /\ hasty' = (hasty \/ ~Settled \/ (dialog # Closed /\ currApp' # currApp))
  /\ UNCHANGED <<tables, replies, faults, workDevs, stock>>

-----------------------------------------------------------------------------
(***************************************************************************)
(* QoS 0: whoever is not connected loses what it publishes or would get.   *)
(***************************************************************************)
LoseRequest ==
  /\ requests # <<>>
  /\ Fail /\ Room
  /\ requests' = Tail(requests)
  /\ UNCHANGED <<tables, replies, clientVars, actions, history>>

LoseReply ==
  /\ replies # <<>>
  /\ Fail /\ Room
  /\ replies' = Tail(replies)
  /\ UNCHANGED <<tables, requests, clientVars, actions, history>>

\* The server says that it has added the device, which it may have failed to.
Confirmed(a) ==
  {r.request.dev : r \in {s \in Range(replies') : /\ s.cmd = "add_dev" /\ s.ok
                                                 /\ s.request.app = a}}

Server ==
  /\ CenterThread
  /\ faults' = faults \/ Room
  /\ stock' = [a \in App |-> stock[a] \cup Confirmed(a)]
  /\ UNCHANGED <<clientVars, actions, hasty, renamed, ownLists, mixed>>

Next == User \/ CenterRecv \/ Server \/ LoseRequest \/ LoseReply

\* Both programs run their event loops.
Fairness == WF_vars(CenterRecv) /\ WF_vars(Server)
Spec == Init /\ [][Next]_vars /\ Fairness

-----------------------------------------------------------------------------
(* Properties *)

Lists(t) == UNION {Range(t.groups[g]) : g \in DOMAIN t.groups}

(***************************************************************************)
(* Types; the server's rows and the app's lists hold nothing but devices.  *)
(***************************************************************************)
TypeOK ==
  /\ DOMAIN tables = App /\ \A a \in App : IsTable(tables[a])
  /\ currApp \in App
  /\ workDevs \subseteq Dev
  /\ groupList \in Seq([name : Group, devs : Seq(Dev), shown : Seq(Dev), dragged : BOOLEAN])
  /\ dialog \in [src : Group, devs : Seq(Dev), of : SUBSET App]
  /\ faults \in 0..MaxFaults /\ actions \in 0..MaxActions
  /\ mixed \subseteq App /\ stock \in [App -> SUBSET Dev]

(***************************************************************************)
(* The app's copy is a replica: once nothing is in flight it is what the   *)
(* server stores for the current application, in whatever order and        *)
(* however fast the user acted, switching between applications included,   *)
(* unless something failed or a group's list changed while the group was   *)
(* being renamed.  The views show it, too; one that was dragged and not    *)
(* sent may show another order of the same devices.                        *)
(***************************************************************************)
CopyIsStored ==
  Settled /\ faults = 0 /\ ~renamed =>
    /\ workDevs = tables[currApp].devices
    /\ Names = DOMAIN tables[currApp].groups
    /\ Cardinality(Names) = Len(groupList)
    /\ \A i \in DOMAIN groupList :
         /\ groupList[i].devs = tables[currApp].groups[groupList[i].name]
         /\ Range(groupList[i].shown) = Range(groupList[i].devs)
         /\ groupList[i].dragged \/ groupList[i].shown = groupList[i].devs

(***************************************************************************)
(* A user who waits for each answer keeps the lists in order: no group     *)
(* lists a device that was deleted or lists one twice, and the group of    *)
(* all devices has them all, although the server checks none of it.        *)
(***************************************************************************)
PatientKeepsOrder ==
  Settled /\ faults = 0 /\ ~hasty => \A a \in App : Orderly(tables[a])

(***************************************************************************)
(* An application's groups list only devices it has or had, unless a list  *)
(* was sent while the app held lists of another application, or devices    *)
(* were moved that had been chosen from such lists.                        *)
(***************************************************************************)
ForeignOnlyIfMixed ==
  \A a \in App : Lists(tables[a]) \subseteq stock[a] \/ a \in mixed

(***************************************************************************)
(* The exchange comes to an end, and then the app has the group of all     *)
(* devices, which it creates where the server has none.                    *)
(***************************************************************************)
EventuallyHasAll ==
  <>[](Settled /\ (faults = 0 => All \in Names))
=============================================================================
