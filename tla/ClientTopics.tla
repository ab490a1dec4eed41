---------------------------- MODULE ClientTopics ----------------------------
(***************************************************************************)
(* The topics of the app: MainInterface adds the topics of its account and *)
(* of its control centre once, and its own check, every 500 ms, replaces   *)
(* the topic of the application whose devices it listens to whenever       *)
(* CenterMan has made another application the current one.  An             *)
(* application's topic has the application's name here.                    *)
(***************************************************************************)
EXTENDS BaseMqtt

CONSTANTS
  FixedTopics,  \* a sequence: the topics of account and control centre
  App,          \* the applications of the account
  NoApp         \* id 0, before CenterMan knows an application

ASSUME AppAssumption ==
  /\ App \subseteq Topic
  /\ NoApp \in Topic \ App
  /\ FixedTopics \in Seq(Topic \ (App \cup {NoApp}))
  /\ \A i, j \in 1..Len(FixedTopics) : FixedTopics[i] = FixedTopics[j] => i = j

VARIABLES
  currApp,         \* m_currAppWork.appID of CenterMan
  m_currWorkAppID  \* the application whose topic is in the list

clientVars == <<vars, currApp, m_currWorkAppID>>

ClientInit ==
  /\ InitWith(FixedTopics)
  /\ currApp = NoApp
  /\ m_currWorkAppID = NoApp

(***************************************************************************)
(* CenterMan: the user selects an application, or the first one of the     *)
(* list becomes current.                                                   *)
(***************************************************************************)
SelectApp ==
  /\ changes < MaxChanges
  /\ changes' = changes + 1
  /\ \E a \in App \ {currApp} : currApp' = a
  /\ UNCHANGED <<m_subTopicList, isSubed, conn, broker, toBroker, toClient,
                 deletedEarly, drops, m_currWorkAppID>>

KeepOldTopic ==  \* mutant: the old topic stays in the list
  /\ currApp # m_currWorkAppID
  /\ m_subTopicList' = WithTopic(m_subTopicList, currApp)
  /\ m_currWorkAppID' = currApp
  /\ UNCHANGED <<isSubed, conn, broker, toBroker, toClient, deletedEarly,
                 changes, drops, currApp>>

KeepWorkApp ==  \* mutant: the check forgets which topic it has added
  /\ currApp # m_currWorkAppID
  /\ m_subTopicList' =
       WithTopic(WithoutTopic(m_subTopicList, m_currWorkAppID), currApp)
  /\ isSubed' = isSubed \ {m_currWorkAppID}
  /\ toBroker' = PacketsOfDel(m_currWorkAppID)
  /\ deletedEarly' = EarlyOfDel(m_currWorkAppID)
  /\ m_currWorkAppID' = IF m_currWorkAppID = NoApp THEN currApp
                                                   ELSE m_currWorkAppID
  /\ UNCHANGED <<conn, broker, toClient, changes, drops, currApp>>

(***************************************************************************)
(* The check of MainInterface: delete the old topic, add the new one.      *)
(***************************************************************************)
SwitchTopic ==
  /\ currApp # m_currWorkAppID
  /\ m_subTopicList' =
       WithTopic(WithoutTopic(m_subTopicList, m_currWorkAppID), currApp)
  /\ isSubed' = isSubed \ {m_currWorkAppID}
  /\ toBroker' = PacketsOfDel(m_currWorkAppID)
  /\ deletedEarly' = EarlyOfDel(m_currWorkAppID)
  /\ m_currWorkAppID' = currApp
  /\ UNCHANGED <<conn, broker, toClient, changes, drops, currApp>>

Mqtt == (Client \/ Broker) /\ UNCHANGED <<currApp, m_currWorkAppID>>
ClientNext == SelectApp \/ SwitchTopic \/ Mqtt

(***************************************************************************)
(* Both timers of the app fire; the rest as in BaseMqtt.                   *)
(***************************************************************************)
ClientFairness == Fairness /\ WF_clientVars(SwitchTopic)
ClientSpec == ClientInit /\ [][ClientNext]_clientVars /\ ClientFairness
-----------------------------------------------------------------------------
(***************************************************************************)
(* The list holds the fixed topics and at most the topic of the            *)
(* application the check added last, however often the application changes *)
(* between two checks: uplinks of no other application are asked for after *)
(* a reconnection.                                                         *)
(***************************************************************************)
OneApplicationListed ==
  Listed \cap (App \cup {NoApp}) =
    IF m_currWorkAppID = NoApp THEN {} ELSE {m_currWorkAppID}

(***************************************************************************)
(* When the user has settled on an application and the connection holds,   *)
(* the app is subscribed for good to that application's topic and to its   *)
(* fixed topics.                                                           *)
(***************************************************************************)
HearsCurrentApp ==
  <>[](currApp # NoApp =>
         /\ m_currWorkAppID = currApp
         /\ currApp \in broker
         /\ \A i \in 1..Len(FixedTopics) : FixedTopics[i] \in broker)
=============================================================================
