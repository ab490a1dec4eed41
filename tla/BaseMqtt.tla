------------------------------ MODULE BaseMqtt ------------------------------
(***************************************************************************)
(* BaseMqtt, the class through which the server and the app reach the      *)
(* broker (the two copies of BaseMqtt.cpp differ in one line that makes    *)
(* the client's name).  It keeps a list of topics, each with a flag        *)
(* isSubed; a check every 100 ms subscribes the first topic of the list    *)
(* that lacks the flag, and acknowledgements and disconnections set and    *)
(* clear the flags.  Sessions are clean: the broker keeps nothing across   *)
(* connections.                                                            *)
(***************************************************************************)
EXTENDS Naturals, SequencesExt

CONSTANTS
  Topic,        \* the topics the program may add
  MaxChanges,   \* bound: calls of mqttAddTopic and mqttDelTopic
  MaxDrops,     \* bound: connections lost
  MaxInFlight   \* bound: packets and acknowledgements in flight when the check runs

ASSUME BoundsAssumption ==
  MaxChanges \in Nat /\ MaxDrops \in Nat /\ MaxInFlight \in Nat \ {0}

VARIABLES
  m_subTopicList,  \* the topics, in the order in which they were added
  isSubed,         \* those whose entry has isSubed set
  conn,            \* "down", "up", or "dead": gone, but slotMqttDisconnected has not run
  broker,          \* the subscriptions of the current session at the broker
  toBroker,        \* SUBSCRIBE and UNSUBSCRIBE packets on their way
  toClient,        \* SUBACK and UNSUBACK packets on their way
  deletedEarly,    \* history: topics deleted with a SUBSCRIBE in flight and no flag
  changes, drops   \* counters for the bounds

topicVars == <<m_subTopicList, isSubed>>
vars == <<m_subTopicList, isSubed, conn, broker, toBroker, toClient,
          deletedEarly, changes, drops>>

Packet == [kind : {"sub", "unsub"}, topic : Topic]
Sub(t) == [kind |-> "sub", topic |-> t]
Unsub(t) == [kind |-> "unsub", topic |-> t]

Listed == {m_subTopicList[i] : i \in 1..Len(m_subTopicList)}
mqttIsConnected == conn # "down"

InitWith(list) ==
  /\ m_subTopicList = list
  /\ isSubed = {}
  /\ conn = "down"
  /\ broker = {}
  /\ toBroker = <<>>
  /\ toClient = <<>>
  /\ deletedEarly = {}
  /\ changes = 0
  /\ drops = 0

Init == InitWith(<<>>)

(***************************************************************************)
(* The client hands packets to a socket: a dead connection swallows them.  *)
(***************************************************************************)
Sent(q, p) == IF conn = "up" THEN Append(q, p) ELSE q

WithTopic(list, t) ==
  IF Contains(list, t) THEN list ELSE Append(list, t)

WithoutTopic(list, t) ==
  IF Contains(list, t)
  THEN RemoveAt(list, CHOOSE i \in 1..Len(list) : list[i] = t)
  ELSE list

(***************************************************************************)
(* mqttDelTopic unsubscribes only a topic that has its flag.               *)
(***************************************************************************)
PacketsOfDelSilent(t) == toBroker  \* mutant: no UNSUBSCRIBE

PacketsOfDel(t) == IF t \in isSubed THEN Sent(toBroker, Unsub(t)) ELSE toBroker

EarlyOfDel(t) ==
  IF t \in isSubed THEN deletedEarly \ {t}
  ELSE IF Contains(toBroker, Sub(t)) \/ Contains(toClient, Sub(t))
       THEN deletedEarly \cup {t}
       ELSE deletedEarly

mqttAddTopic(t) ==
  /\ m_subTopicList' = WithTopic(m_subTopicList, t)
  /\ UNCHANGED <<isSubed, conn, broker, toBroker, toClient, deletedEarly, drops>>

mqttDelTopic(t) ==
  /\ t \in Listed
  /\ toBroker' = PacketsOfDel(t)
  /\ deletedEarly' = EarlyOfDel(t)
  /\ m_subTopicList' = WithoutTopic(m_subTopicList, t)
  /\ isSubed' = isSubed \ {t}
  /\ UNCHANGED <<conn, broker, toClient, drops>>

(***************************************************************************)
(* slotCheckTimeout with a connection: only the first topic without a flag *)
(* is subscribed, again at every check until its acknowledgement arrives.  *)
(***************************************************************************)
FirstPendingBreak(i) ==  \* mutant: the break stands outside the if
  i = 1 /\ Len(m_subTopicList) > 0 /\ m_subTopicList[i] \notin isSubed

FirstPending(i) ==
  /\ i \in 1..Len(m_subTopicList)
  /\ m_subTopicList[i] \notin isSubed
  /\ \A j \in 1..(i - 1) : m_subTopicList[j] \in isSubed

slotCheckTimeout ==
  /\ mqttIsConnected
  /\ Len(toBroker) + Len(toClient) < MaxInFlight
  /\ \E i \in 1..Len(m_subTopicList) :
        /\ FirstPending(i)
        /\ toBroker' = Sent(toBroker, Sub(m_subTopicList[i]))
  /\ UNCHANGED <<m_subTopicList, isSubed, conn, broker, toClient,
                 deletedEarly, changes, drops>>

slotMqttConnected ==
  /\ conn = "down"
  /\ conn' = "up"
  /\ UNCHANGED <<m_subTopicList, isSubed, broker, toBroker, toClient,
                 deletedEarly, changes, drops>>

FlagsKept ==  \* mutant: the flags survive the connection
  /\ conn # "down"
  /\ conn = "up" => drops < MaxDrops /\ drops' = drops + 1
  /\ conn = "dead" => drops' = drops
  /\ conn' = "down"
  /\ broker' = {}
  /\ toBroker' = <<>>
  /\ toClient' = <<>>
  /\ deletedEarly' = {}
  /\ UNCHANGED <<m_subTopicList, isSubed, changes>>

slotMqttDisconnected ==
  /\ conn # "down"
  /\ conn = "up" => drops < MaxDrops /\ drops' = drops + 1
  /\ conn = "dead" => drops' = drops
  /\ conn' = "down"
  /\ isSubed' = {}
  /\ broker' = {}
  /\ toBroker' = <<>>
  /\ toClient' = <<>>
  /\ deletedEarly' = {}
  /\ UNCHANGED <<m_subTopicList, changes>>
-----------------------------------------------------------------------------
(***************************************************************************)
(* The flags follow the acknowledgements; a topic that is no longer listed *)
(* has no flag to set.                                                     *)
(***************************************************************************)
slotMqttSubscribed ==
  /\ toClient # <<>> /\ Head(toClient).kind = "sub"
  /\ isSubed' = isSubed \cup (Listed \cap {Head(toClient).topic})
  /\ toClient' = Tail(toClient)
  /\ UNCHANGED <<m_subTopicList, conn, broker, toBroker, deletedEarly,
                 changes, drops>>

slotMqttUnsubscribed ==
  /\ toClient # <<>> /\ Head(toClient).kind = "unsub"
  /\ isSubed' = isSubed \ {Head(toClient).topic}
  /\ toClient' = Tail(toClient)
  /\ UNCHANGED <<m_subTopicList, conn, broker, toBroker, deletedEarly,
                 changes, drops>>

(***************************************************************************)
(* The broker: it obeys packets in order, acknowledges each, and may end a *)
(* session, which the client notices later by a missing ping response.     *)
(***************************************************************************)
BrokerObeys ==
  /\ toBroker # <<>>
  /\ LET p == Head(toBroker) IN
       /\ broker' = IF p.kind = "sub" THEN broker \cup {p.topic}
                                      ELSE broker \ {p.topic}
       /\ toClient' = Append(toClient, p)
  /\ toBroker' = Tail(toBroker)
  /\ UNCHANGED <<m_subTopicList, isSubed, conn, deletedEarly, changes, drops>>

SessionEnds ==
  /\ conn = "up" /\ drops < MaxDrops
  /\ conn' = "dead"
  /\ broker' = {}
  /\ toBroker' = <<>>
  /\ drops' = drops + 1
  /\ UNCHANGED <<m_subTopicList, isSubed, toClient, deletedEarly, changes>>

Change ==
  /\ changes < MaxChanges
  /\ changes' = changes + 1
  /\ \E t \in Topic : mqttAddTopic(t) \/ mqttDelTopic(t)

Client == slotCheckTimeout \/ slotMqttConnected \/ slotMqttDisconnected
          \/ slotMqttSubscribed \/ slotMqttUnsubscribed
Broker == BrokerObeys \/ SessionEnds
Next == Change \/ Client \/ Broker

(***************************************************************************)
(* The timer fires, packets of a live connection arrive, QMQTT reconnects  *)
(* by itself and detects a dead connection by its ping timer.              *)
(***************************************************************************)
Fairness ==
  /\ WF_vars(slotCheckTimeout)
  /\ WF_vars(slotMqttConnected)
  /\ WF_vars(conn = "dead" /\ slotMqttDisconnected)
  /\ WF_vars(slotMqttSubscribed)
  /\ WF_vars(slotMqttUnsubscribed)
  /\ WF_vars(BrokerObeys)

Spec == Init /\ [][Next]_vars /\ Fairness
-----------------------------------------------------------------------------
(***************************************************************************)
(* Types; no topic is listed twice and only listed topics carry the flag.  *)
(***************************************************************************)
TypeOK ==
  /\ m_subTopicList \in Seq(Topic)
  /\ \A i, j \in 1..Len(m_subTopicList) :
        m_subTopicList[i] = m_subTopicList[j] => i = j
  /\ isSubed \subseteq Listed
  /\ conn \in {"down", "up", "dead"}
  /\ broker \subseteq Topic
  /\ toBroker \in Seq(Packet)
  /\ toClient \in Seq(Packet)
  /\ deletedEarly \subseteq Topic
  /\ changes \in 0..MaxChanges
  /\ drops \in 0..MaxDrops

(***************************************************************************)
(* A topic the program believes subscribed is subscribed, unless the       *)
(* acknowledgement that will correct the flag is on its way: messages of   *)
(* a topic added by mqttAddTopic cannot be missed for good, whatever stale *)
(* acknowledgements deletions and repeated subscriptions leave behind.     *)
(***************************************************************************)
FlagIsTrue ==
  conn = "up" =>
    \A t \in isSubed : t \in broker \/ Contains(toClient, Unsub(t))

(***************************************************************************)
(* The broker keeps, or is about to take, a subscription to a topic that   *)
(* is not listed only if the packet that removes it follows, or if the     *)
(* topic was deleted while its SUBSCRIBE was in flight (mqttDelTopic sends *)
(* no UNSUBSCRIBE then).                                                   *)
(***************************************************************************)
WillBe(t) ==  \* the broker's view of t once it has obeyed every packet in flight
  \/ t \in broker /\ ~Contains(toBroker, Unsub(t))
  \/ \E i \in 1..Len(toBroker) :
        /\ toBroker[i] = Sub(t)
        /\ \A j \in (i + 1)..Len(toBroker) : toBroker[j] # Unsub(t)

LeftoverHasReason ==
  \A t \in Topic \ Listed : WillBe(t) => t \in deletedEarly

(***************************************************************************)
(* A flag that is missing is only ever repaired by the check: while a      *)
(* listed topic lacks it and nothing about it is in flight, the next check *)
(* subscribes it or one that precedes it, so the list is worked off.  Once *)
(* the program stops changing the list and the connection holds, every     *)
(* topic is subscribed, at the broker too, and stays so.                   *)
(***************************************************************************)
EventuallySubscribed ==
  <>[](\A t \in Listed : t \in isSubed /\ t \in broker)
=============================================================================
