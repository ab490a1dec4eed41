---------------------------- MODULE GroupTables ----------------------------
(***************************************************************************)
(* The tables group_tb and device_tb of each application, and the handlers *)
(* of CenterThread that serve requests about them, one at a time and in    *)
(* the order in which they arrive.  A handler runs its statements and      *)
(* answers; most of them do not look at what a statement returned.         *)
(*                                                                         *)
(* Left out: names and parents of devices and the order of the groups,     *)
(* which no other handler reads.                                           *)
(***************************************************************************)
EXTENDS Naturals, SequencesExt, FiniteSets

CONSTANTS
  App,        \* applications
  Dev,        \* serial numbers of devices
  Group,      \* names of groups
  All,        \* the name of the group of all devices
  MaxFaults   \* bound: statements that fail and messages that are lost

ASSUME GroupAssumption == All \in Group
ASSUME FaultsAssumption == MaxFaults \in Nat

VARIABLES
  tables,     \* device_tb and group_tb of each application
  requests,   \* messages on their way to the server
  replies,    \* messages on their way to the app
  faults      \* counter for the bound

serverVars == <<tables, requests, replies, faults>>

(***************************************************************************)
(* group_tb is a function from the names of the groups that exist to their *)
(* column devList, a new row's being empty.                                *)
(***************************************************************************)
IsRows(r) ==
  /\ DOMAIN r \subseteq Group /\ IsFiniteSet(DOMAIN r)
  /\ r \in [DOMAIN r -> Seq(Dev)]
IsTable(t) ==
  /\ t = [devices |-> t.devices, groups |-> t.groups]
  /\ t.devices \subseteq Dev /\ IsRows(t.groups)
NewTable == [devices |-> {}, groups |-> <<>>]

Row(t, g, l) ==
  [t EXCEPT !.groups = [h \in DOMAIN t.groups \cup {g} |->
                          IF h = g THEN l ELSE t.groups[h]]]
WithoutRow(t, g) ==
  [t EXCEPT !.groups = [h \in DOMAIN t.groups \ {g} |-> t.groups[h]]]

InsertDefault(t, g) == Row(t, g, <<0>>)  \* mutant: the column's default taken as a list

insertGroup(t, g) == Row(t, g, <<>>)
delGroupNode(t, g) == WithoutRow(t, g)
updateGroupName(t, g, h) == Row(WithoutRow(t, g), h, t.groups[g])
updateDevList(t, g, l) == IF g \in DOMAIN t.groups THEN Row(t, g, l) ELSE t

(***************************************************************************)
(* A request carries the application it is about.                          *)
(***************************************************************************)
Serving(cmd) == requests # <<>> /\ Head(requests).cmd = cmd
Request == Head(requests)
Stored == tables[Request.app]

\* The statements of a handler succeed, or one of them fails (no more than one).
Succeed == UNCHANGED faults
Fail == faults < MaxFaults /\ faults' = faults + 1

Answer(t, reply) ==
  /\ tables' = [tables EXCEPT ![Request.app] = t]
  /\ requests' = Tail(requests)
  /\ replies' = Append(replies, reply)

\* The answer to most commands repeats the request and says how it went.
Ack(ok) == [cmd |-> Request.cmd, request |-> Request, ok |-> ok]
DevListAck(l) == [cmd |-> "dev_list", app |-> Request.app, devs |-> l]
GroupListAck(r) == [cmd |-> "group_list", app |-> Request.app, groups |-> r]

dev_list ==
  /\ Serving("dev_list")
  /\ \/ Succeed /\ Answer(Stored, DevListAck(Stored.devices))
     \/ Fail /\ Answer(Stored, DevListAck({}))

\* order_group is answered with the list of the groups, too.
group_list ==
  /\ Serving("group_list") \/ Serving("order_group")
  /\ \/ Succeed /\ Answer(Stored, GroupListAck(Stored.groups))
     \/ Fail /\ Answer(Stored, GroupListAck(<<>>))

add_group ==
  /\ Serving("add_group")
  /\ \/ /\ Request.group \in DOMAIN Stored.groups
        /\ Succeed
        /\ Answer(Stored, Ack(FALSE))
     \/ /\ Request.group \notin DOMAIN Stored.groups
        /\ \/ Succeed /\ Answer(insertGroup(Stored, Request.group), Ack(TRUE))
           \/ Fail /\ Answer(Stored, Ack(FALSE))

del_group ==
  /\ Serving("del_group")
  /\ \/ /\ Request.group \in DOMAIN Stored.groups
        /\ Succeed
        /\ Answer(delGroupNode(Stored, Request.group), Ack(TRUE))
     \/ /\ \/ Request.group \notin DOMAIN Stored.groups /\ Succeed
           \/ Fail
        /\ Answer(Stored, Ack(FALSE))

(***************************************************************************)
(* rename_group looks for the old name, for the new name, updates and      *)
(* looks for the new name again; each of the four may fail.                *)
(***************************************************************************)
rename_group ==
  /\ Serving("rename_group")
  /\ LET old == Request.group
         new == Request.to
         renamable == old \in DOMAIN Stored.groups /\ new \notin DOMAIN Stored.groups
     IN \/ renamable /\ Succeed /\ Answer(updateGroupName(Stored, old, new), Ack(TRUE))
        \/ ~renamable /\ Succeed /\ Answer(Stored, Ack(FALSE))
        \/ renamable /\ Fail /\ Answer(updateGroupName(Stored, old, new), Ack(FALSE))
        \/ Fail /\ Answer(Stored, Ack(FALSE))
        \/ /\ {old, new} \subseteq DOMAIN Stored.groups
           /\ Fail
           /\ Answer(Stored, Ack(TRUE))

\* sort_dev is acknowledged whether or not a row was updated.
sort_dev ==
  /\ Serving("sort_dev")
  /\ \/ Succeed /\ Answer(updateDevList(Stored, Request.group, Request.devs), Ack(TRUE))
     \/ Fail /\ Answer(Stored, Ack(TRUE))

(***************************************************************************)
(* add_dev compares the new serial number with one that the search has not *)
(* set when it finds no row: it may take any device for a known one.       *)
(***************************************************************************)
add_dev ==
  /\ Serving("add_dev")
  /\ \/ Succeed /\ Answer(Stored, Ack(FALSE))
     \/ /\ Request.dev \notin Stored.devices
        /\ Succeed
        /\ Answer([Stored EXCEPT !.devices = @ \cup {Request.dev}], Ack(TRUE))
     \/ Fail /\ Answer(Stored, Ack(TRUE))

del_dev ==
  /\ Serving("del_dev")
  /\ \/ Succeed /\ Answer([Stored EXCEPT !.devices = @ \ Request.devs], Ack(TRUE))
     \/ /\ Fail
        /\ \E d \in Request.devs :
             Answer([Stored EXCEPT !.devices = @ \ (Request.devs \ {d})], Ack(TRUE))

CenterThread ==
  \/ dev_list \/ group_list \/ add_group \/ del_group \/ rename_group
  \/ sort_dev \/ add_dev \/ del_dev
=============================================================================
