------------------------ MODULE ClientTopics_proofs ------------------------
(***************************************************************************)
(* What BaseMqtt keeps for every set of topics and every bound, and the    *)
(* list of the app's topics, for any number of applications, of selections *)
(* between two checks and of lost connections.                             *)
(*                                                                         *)
(* BaseMqtt: that a flag is true is not inductive by itself: an            *)
(* acknowledgement in flight is a flag to come, so it must be true in the  *)
(* same sense.  That a leftover has a reason rests, for the topics that    *)
(* are listed, on what the acknowledgements in flight will do to their     *)
(* flags.                                                                  *)
(*                                                                         *)
(* ClientTopics: the list holds no topic twice, so that deleting the first *)
(* entry of a topic deletes the topic; and an application that is current  *)
(* never becomes none again, so that the check always adds a topic of an   *)
(* application.                                                            *)
(***************************************************************************)
EXTENDS ClientTopics, SequenceTheorems, TLAPS


\* Nothing is in flight to a broker that has no session.
NoSession ==
  /\ conn # "up" => broker = {} /\ toBroker = <<>>
  /\ conn = "down" => isSubed = {} /\ toClient = <<>>

\* A SUBACK announces a subscription, or an UNSUBACK follows it.
AcksAreTrue ==
  conn = "up" =>
    \A i \in 1 .. Len(toClient), t \in Topic :
      toClient[i] = Sub(t) =>
        t \in broker \/ \E j \in (i + 1) .. Len(toClient) : toClient[j] = Unsub(t)

FlagInv == TypeOK /\ NoSession /\ AcksAreTrue /\ FlagIsTrue

\* A listed topic without a flag that the broker serves, or will serve, is
\* acknowledged later or was deleted too early once.
ListedHasReason ==
  \A t \in Listed \ isSubed :
    WillBe(t) => Contains(toBroker, Sub(t)) \/ Contains(toClient, Sub(t))
                 \/ t \in deletedEarly

\* What an UNSUBACK clears, a later SUBACK sets again if the broker serves it.
ClearedIsSetAgain ==
  \A i \in 1 .. Len(toClient), t \in Topic :
    toClient[i] = Unsub(t) /\ WillBe(t) =>
      Contains(toBroker, Sub(t))
      \/ \E j \in (i + 1) .. Len(toClient) : toClient[j] = Sub(t)

LeftoverInv == LeftoverHasReason /\ ListedHasReason /\ ClearedIsSetAgain

LEMMA Appended ==
  ASSUME NEW S, NEW s \in Seq(S), NEW e \in S
  PROVE  /\ Append(s, e) \in Seq(S)
         /\ Len(Append(s, e)) = Len(s) + 1
         /\ Append(s, e)[Len(s) + 1] = e
         /\ \A j \in 1 .. Len(s) : Append(s, e)[j] = s[j]
OBVIOUS

LEMMA Tailed ==
  ASSUME NEW S, NEW s \in Seq(S), s # <<>>
  PROVE  /\ Tail(s) \in Seq(S)
         /\ Len(s) \in Nat \ {0}
         /\ Len(Tail(s)) = Len(s) - 1
         /\ Head(s) = s[1] /\ Head(s) \in S
         /\ \A j \in 1 .. Len(s) - 1 : Tail(s)[j] = s[j + 1]
OBVIOUS

LEMMA Removed ==
  ASSUME NEW S, NEW s \in Seq(S), NEW i \in 1 .. Len(s)
  PROVE  /\ RemoveAt(s, i) \in Seq(S)
         /\ Len(RemoveAt(s, i)) = Len(s) - 1
         /\ \A j \in 1 .. Len(s) - 1 :
              RemoveAt(s, i)[j] = IF j < i THEN s[j] ELSE s[j + 1]
<1> DEFINE a == SubSeq(s, 1, i - 1)
           b == SubSeq(s, i + 1, Len(s))
<1>1. Len(s) \in Nat /\ i \in Nat
  OBVIOUS
<1>2. a \in Seq(S) /\ Len(a) = i - 1 /\ \A j \in 1 .. i - 1 : a[j] = s[j]
  BY <1>1
<1>3. /\ b \in Seq(S) /\ Len(b) = Len(s) - i
      /\ \A j \in 1 .. Len(s) - i : b[j] = s[i + j]
  BY <1>1
<1>4. RemoveAt(s, i) = a \o b
  BY DEF RemoveAt
<1> HIDE DEF a, b
<1>5. /\ a \o b \in Seq(S) /\ Len(a \o b) = Len(a) + Len(b)
      /\ \A j \in 1 .. Len(a) + Len(b) :
           (a \o b)[j] = IF j <= Len(a) THEN a[j] ELSE b[j - Len(a)]
  BY <1>2, <1>3, ConcatProperties
<1>6. Len(a \o b) = Len(s) - 1
  BY <1>1, <1>2, <1>3, <1>5
<1>7. \A j \in 1 .. Len(s) - 1 : (a \o b)[j] = IF j < i THEN s[j] ELSE s[j + 1]
  BY <1>1, <1>2, <1>3, <1>5
<1> QED BY <1>4, <1>5, <1>6, <1>7

LEMMA PacketTypes ==
  ASSUME NEW t \in Topic
  PROVE  /\ Sub(t) \in Packet /\ Unsub(t) \in Packet
         /\ Sub(t).kind = "sub" /\ Unsub(t).kind = "unsub"
         /\ Sub(t).topic = t /\ Unsub(t).topic = t
         /\ \A u \in Topic :
              /\ Sub(t) # Unsub(u)
              /\ Sub(t) = Sub(u) => t = u
              /\ Unsub(t) = Unsub(u) => t = u
BY DEF Sub, Unsub, Packet

\* Every packet is one of the two.
LEMMA PacketCases ==
  ASSUME NEW p \in Packet
  PROVE  /\ p.topic \in Topic
         /\ p.kind = "sub" => p = Sub(p.topic)
         /\ p.kind = "unsub" => p = Unsub(p.topic)
         /\ p.kind \in {"sub", "unsub"}
BY DEF Sub, Unsub, Packet

LEMMA InitInv == Init => FlagInv /\ LeftoverInv
<1> SUFFICES ASSUME Init PROVE FlagInv /\ LeftoverInv
  OBVIOUS
<1>1. /\ m_subTopicList = <<>> /\ isSubed = {} /\ conn = "down" /\ broker = {}
      /\ toBroker = <<>> /\ toClient = <<>> /\ deletedEarly = {}
      /\ changes = 0 /\ drops = 0
  BY DEF Init, InitWith
<1>2. TypeOK
  BY <1>1, BoundsAssumption DEF TypeOK, Listed
<1>3. NoSession /\ AcksAreTrue /\ FlagIsTrue
  BY <1>1 DEF NoSession, AcksAreTrue, FlagIsTrue
<1>4. \A t \in Topic : ~WillBe(t)
  BY <1>1 DEF WillBe
<1>5. Listed = {}
  BY <1>1 DEF Listed
<1>6. LeftoverInv
  BY <1>1, <1>4, <1>5 DEF LeftoverInv, LeftoverHasReason, ListedHasReason, ClearedIsSetAgain
<1> QED BY <1>2, <1>3, <1>6 DEF FlagInv

(***************************************************************************)
(* The list, after an addition and after a deletion.                       *)
(***************************************************************************)
LEMMA AddType ==
  ASSUME TypeOK, NEW t \in Topic, mqttAddTopic(t)
  PROVE  /\ m_subTopicList' \in Seq(Topic)
         /\ \A i, j \in 1 .. Len(m_subTopicList') :
              m_subTopicList'[i] = m_subTopicList'[j] => i = j
         /\ Listed' = Listed \cup {t}
<1> DEFINE l == m_subTopicList
<1>1. l \in Seq(Topic) /\ Len(l) \in Nat
  BY DEF TypeOK
<1>2. \A i, j \in 1 .. Len(l) : l[i] = l[j] => i = j
  BY DEF TypeOK
<1>3. CASE Contains(l, t)
  <2>1. l' = l
    BY <1>3 DEF mqttAddTopic, WithTopic
  <2>2. t \in Listed
    BY <1>3 DEF Contains, Listed
  <2> QED BY <1>1, <1>2, <2>1, <2>2 DEF Listed
<1>4. CASE ~Contains(l, t)
  <2>1. l' = Append(l, t)
    BY <1>4 DEF mqttAddTopic, WithTopic
  <2>2. /\ l' \in Seq(Topic) /\ Len(l') = Len(l) + 1 /\ l'[Len(l) + 1] = t
        /\ \A j \in 1 .. Len(l) : l'[j] = l[j]
    BY <1>1, <2>1, Appended
  <2>3. \A j \in 1 .. Len(l) : l[j] # t
    BY <1>4 DEF Contains
  <2>4. Listed' = {l'[i] : i \in 1 .. Len(l')} /\ Listed = {l[i] : i \in 1 .. Len(l)}
    BY DEF Listed
  <2> HIDE DEF l
  <2>5. \A i, j \in 1 .. Len(l') : l'[i] = l'[j] => i = j
    BY <1>1, <1>2, <2>2, <2>3
  <2>6. {l'[i] : i \in 1 .. Len(l')} = {l[i] : i \in 1 .. Len(l)} \cup {t}
    BY <1>1, <2>2
  <2> QED BY <2>2, <2>4, <2>5, <2>6 DEF l
<1> QED BY <1>3, <1>4

LEMMA DelType ==
  ASSUME TypeOK, NEW t \in Topic, mqttDelTopic(t)
  PROVE  /\ m_subTopicList' \in Seq(Topic)
         /\ \A i, j \in 1 .. Len(m_subTopicList') :
              m_subTopicList'[i] = m_subTopicList'[j] => i = j
         /\ Listed' = Listed \ {t}
<1> DEFINE l == m_subTopicList
           k == CHOOSE i \in 1 .. Len(l) : l[i] = t
<1>1. l \in Seq(Topic) /\ Len(l) \in Nat
  BY DEF TypeOK
<1>2. \A i, j \in 1 .. Len(l) : l[i] = l[j] => i = j
  BY DEF TypeOK
<1>3. \E i \in 1 .. Len(l) : l[i] = t
  BY DEF mqttDelTopic, Listed
<1>4. k \in 1 .. Len(l) /\ l[k] = t
  BY <1>3
<1>5. l' = RemoveAt(l, k)
  BY <1>3 DEF mqttDelTopic, WithoutTopic, Contains
<1>6. Listed' = {l'[i] : i \in 1 .. Len(l')} /\ Listed = {l[i] : i \in 1 .. Len(l)}
  BY DEF Listed
<1> HIDE DEF l, k
<1>7. /\ l' \in Seq(Topic) /\ Len(l') = Len(l) - 1
      /\ \A j \in 1 .. Len(l) - 1 : l'[j] = IF j < k THEN l[j] ELSE l[j + 1]
  BY <1>1, <1>4, <1>5, Removed
<1>8. \A i, j \in 1 .. Len(l') : l'[i] = l'[j] => i = j
  BY <1>1, <1>2, <1>4, <1>7
<1>9. ASSUME NEW u \in {l[i] : i \in 1 .. Len(l)}, u # t
      PROVE  u \in {l'[i] : i \in 1 .. Len(l')}
  <2> PICK i \in 1 .. Len(l) : u = l[i]
    BY <1>9
  <2>1. CASE i < k
    BY <1>1, <1>4, <1>7, <2>1
  <2>2. CASE i > k
    <3>1. i - 1 \in 1 .. Len(l') /\ l'[i - 1] = l[(i - 1) + 1]
      BY <1>1, <1>4, <1>7, <2>2
    <3> QED BY <1>1, <3>1
  <2> QED BY <1>1, <1>4, <1>9, <2>1, <2>2
<1>10. ASSUME NEW u \in {l'[i] : i \in 1 .. Len(l')}
       PROVE  u \in {l[i] : i \in 1 .. Len(l)} /\ u # t
  <2> PICK i \in 1 .. Len(l') : u = l'[i]
    BY <1>10
  <2>1. CASE i < k
    BY <1>1, <1>2, <1>4, <1>7, <2>1
  <2>2. CASE i >= k
    BY <1>1, <1>2, <1>4, <1>7, <2>2
  <2> QED BY <1>1, <1>4, <2>1, <2>2
<1>11. Listed' = Listed \ {t}
  BY <1>6, <1>9, <1>10
<1> QED BY <1>7, <1>8, <1>11 DEF l

(***************************************************************************)
(* The first invariant, action by action.                                  *)
(***************************************************************************)
LEMMA AddFlags ==
  ASSUME FlagInv, NEW t \in Topic, mqttAddTopic(t),
         changes < MaxChanges, changes' = changes + 1
  PROVE  FlagInv'
<1>1. /\ TypeOK /\ NoSession /\ AcksAreTrue /\ FlagIsTrue
      /\ UNCHANGED <<isSubed, conn, broker, toBroker, toClient, deletedEarly, drops>>
  BY DEF FlagInv, mqttAddTopic
<1>2. TypeOK'
  <2>1. changes' \in 0 .. MaxChanges
    BY <1>1, BoundsAssumption DEF TypeOK
  <2> QED BY <1>1, <2>1, AddType DEF TypeOK
<1> QED BY <1>1, <1>2 DEF FlagInv, NoSession, AcksAreTrue, FlagIsTrue

LEMMA DelFlags ==
  ASSUME FlagInv, NEW t \in Topic, mqttDelTopic(t),
         changes < MaxChanges, changes' = changes + 1
  PROVE  FlagInv'
<1>1. /\ TypeOK /\ NoSession /\ AcksAreTrue /\ FlagIsTrue
      /\ UNCHANGED <<conn, broker, toClient, drops>>
      /\ isSubed' = isSubed \ {t}
      /\ toBroker' = PacketsOfDel(t) /\ deletedEarly' = EarlyOfDel(t)
  BY DEF FlagInv, mqttDelTopic
<1>2. toBroker' \in Seq(Packet) /\ (conn # "up" => toBroker' = toBroker)
  BY <1>1, PacketTypes, Appended DEF PacketsOfDel, Sent, TypeOK
<1>3. TypeOK'
  <2>1. changes' \in 0 .. MaxChanges
    BY <1>1, BoundsAssumption DEF TypeOK
  <2>2. deletedEarly' \subseteq Topic
    BY <1>1 DEF EarlyOfDel, TypeOK
  <2> QED BY <1>1, <1>2, <2>1, <2>2, DelType DEF TypeOK
<1>4. NoSession'
  BY <1>1, <1>2 DEF NoSession
<1> QED BY <1>1, <1>3, <1>4 DEF FlagInv, AcksAreTrue, FlagIsTrue

LEMMA CheckFlags ==
  ASSUME FlagInv, slotCheckTimeout
  PROVE  FlagInv'
<1>1. /\ TypeOK /\ NoSession /\ AcksAreTrue /\ FlagIsTrue
      /\ UNCHANGED <<m_subTopicList, isSubed, conn, broker, toClient,
                     deletedEarly, changes, drops>>
  BY DEF FlagInv, slotCheckTimeout
<1>2. PICK i \in 1 .. Len(m_subTopicList) :
        toBroker' = Sent(toBroker, Sub(m_subTopicList[i]))
  BY DEF slotCheckTimeout
<1>3. m_subTopicList[i] \in Topic
  BY <1>1 DEF TypeOK
<1>4. toBroker' \in Seq(Packet) /\ (conn # "up" => toBroker' = toBroker)
  BY <1>1, <1>2, <1>3, PacketTypes, Appended DEF Sent, TypeOK
<1>5. Listed' = Listed
  BY <1>1 DEF Listed
<1>6. TypeOK'
  BY <1>1, <1>4, <1>5 DEF TypeOK
<1>7. NoSession'
  BY <1>1, <1>4 DEF NoSession
<1> QED BY <1>1, <1>6, <1>7 DEF FlagInv, AcksAreTrue, FlagIsTrue

LEMMA ConnectionFlags ==
  ASSUME FlagInv, slotMqttConnected \/ slotMqttDisconnected \/ SessionEnds
  PROVE  FlagInv'
<1>1. /\ TypeOK /\ NoSession /\ AcksAreTrue /\ FlagIsTrue
      /\ UNCHANGED <<m_subTopicList, changes>>
      /\ drops' \in 0 .. MaxDrops
      /\ conn' \in {"down", "up", "dead"}
  BY BoundsAssumption
     DEF FlagInv, TypeOK, slotMqttConnected, slotMqttDisconnected, SessionEnds
<1>2. Listed' = Listed
  BY <1>1 DEF Listed
<1>3. CASE slotMqttConnected
  <2>1. /\ conn = "down" /\ conn' = "up"
        /\ UNCHANGED <<isSubed, broker, toBroker, toClient, deletedEarly>>
    BY <1>3 DEF slotMqttConnected
  <2>2. isSubed' = {} /\ toClient' = <<>>
    BY <1>1, <2>1 DEF NoSession
  <2>3. TypeOK'
    BY <1>1, <1>2, <2>1 DEF TypeOK
  <2> QED BY <2>1, <2>2, <2>3 DEF FlagInv, NoSession, AcksAreTrue, FlagIsTrue
<1>4. CASE slotMqttDisconnected
  <2>1. /\ conn' = "down" /\ isSubed' = {} /\ broker' = {} /\ toBroker' = <<>>
        /\ toClient' = <<>> /\ deletedEarly' = {}
    BY <1>4 DEF slotMqttDisconnected
  <2>2. TypeOK'
    BY <1>1, <1>2, <2>1 DEF TypeOK
  <2> QED BY <2>1, <2>2 DEF FlagInv, NoSession, AcksAreTrue, FlagIsTrue
<1>5. CASE SessionEnds
  <2>1. /\ conn' = "dead" /\ broker' = {} /\ toBroker' = <<>>
        /\ UNCHANGED <<isSubed, toClient, deletedEarly>>
    BY <1>5 DEF SessionEnds
  <2>2. TypeOK'
    BY <1>1, <1>2, <2>1 DEF TypeOK
  <2> QED BY <2>1, <2>2 DEF FlagInv, NoSession, AcksAreTrue, FlagIsTrue
<1> QED BY <1>3, <1>4, <1>5

\* What the client does with an acknowledgement.
LEMMA AckShape ==
  ASSUME TypeOK, slotMqttSubscribed \/ slotMqttUnsubscribed
  PROVE  /\ UNCHANGED <<m_subTopicList, conn, broker, toBroker, deletedEarly,
                        changes, drops>>
         /\ Listed' = Listed
         /\ toClient' \in Seq(Packet)
         /\ Len(toClient) \in Nat \ {0} /\ Len(toClient') = Len(toClient) - 1
         /\ \A j \in 1 .. Len(toClient') : toClient'[j] = toClient[j + 1]
         /\ \E t \in Topic :
              \/ toClient[1] = Sub(t) /\ isSubed' = isSubed \cup (Listed \cap {t})
              \/ toClient[1] = Unsub(t) /\ isSubed' = isSubed \ {t}
<1>1. /\ toClient # <<>> /\ toClient' = Tail(toClient)
      /\ UNCHANGED <<m_subTopicList, conn, broker, toBroker, deletedEarly,
                     changes, drops>>
      /\ \/ /\ Head(toClient).kind = "sub"
            /\ isSubed' = isSubed \cup (Listed \cap {Head(toClient).topic})
         \/ /\ Head(toClient).kind = "unsub"
            /\ isSubed' = isSubed \ {Head(toClient).topic}
  BY DEF slotMqttSubscribed, slotMqttUnsubscribed
<1>2. toClient \in Seq(Packet)
  BY DEF TypeOK
<1>3. Listed' = Listed
  BY <1>1 DEF Listed
<1>4. /\ toClient' \in Seq(Packet) /\ Len(toClient) \in Nat \ {0}
      /\ Len(toClient') = Len(toClient) - 1
      /\ Head(toClient) = toClient[1] /\ Head(toClient) \in Packet
      /\ \A j \in 1 .. Len(toClient) - 1 : toClient'[j] = toClient[j + 1]
  BY <1>1, <1>2, Tailed
<1>5. \E t \in Topic :
        \/ toClient[1] = Sub(t) /\ isSubed' = isSubed \cup (Listed \cap {t})
        \/ toClient[1] = Unsub(t) /\ isSubed' = isSubed \ {t}
  BY <1>1, <1>4, PacketCases
<1> QED BY <1>1, <1>3, <1>4, <1>5

LEMMA AckFlags ==
  ASSUME FlagInv, slotMqttSubscribed \/ slotMqttUnsubscribed
  PROVE  FlagInv'
<1>1. TypeOK /\ NoSession /\ AcksAreTrue /\ FlagIsTrue
  BY DEF FlagInv
<1>2. /\ UNCHANGED <<m_subTopicList, conn, broker, toBroker, deletedEarly,
                     changes, drops>>
      /\ Listed' = Listed
      /\ toClient' \in Seq(Packet)
      /\ Len(toClient) \in Nat \ {0} /\ Len(toClient') = Len(toClient) - 1
      /\ \A j \in 1 .. Len(toClient') : toClient'[j] = toClient[j + 1]
  BY <1>1, AckShape
<1>3. PICK t \in Topic :
        \/ toClient[1] = Sub(t) /\ isSubed' = isSubed \cup (Listed \cap {t})
        \/ toClient[1] = Unsub(t) /\ isSubed' = isSubed \ {t}
  BY <1>1, AckShape
<1>4. isSubed' \subseteq Listed
  BY <1>1, <1>3 DEF TypeOK
<1>5. TypeOK'
  BY <1>1, <1>2, <1>4 DEF TypeOK
<1>6. NoSession'
  <2>1. conn # "down"
    BY <1>1, <1>2 DEF NoSession
  <2> QED BY <1>1, <1>2, <2>1 DEF NoSession
<1>7. \A u \in Topic, i \in 1 .. Len(toClient) :
        i > 1 /\ toClient[i] = Unsub(u) => toClient'[i - 1] = Unsub(u)
  BY <1>2
<1>8. AcksAreTrue'
  <2> SUFFICES ASSUME conn' = "up", NEW i \in 1 .. Len(toClient'), NEW u \in Topic,
                      toClient'[i] = Sub(u), u \notin broker'
               PROVE  \E j \in (i + 1) .. Len(toClient') : toClient'[j] = Unsub(u)
    BY DEF AcksAreTrue
  <2>1. i + 1 \in 1 .. Len(toClient) /\ toClient[i + 1] = Sub(u)
    BY <1>2
  <2>2. PICK j \in (i + 1) + 1 .. Len(toClient) : toClient[j] = Unsub(u)
    BY <1>1, <1>2, <2>1 DEF AcksAreTrue
  <2>3. j - 1 \in (i + 1) .. Len(toClient') /\ toClient'[j - 1] = Unsub(u)
    BY <1>2, <1>7, <2>2
  <2> QED BY <2>3
<1>9. FlagIsTrue'
  <2> SUFFICES ASSUME conn' = "up", NEW u \in isSubed', u \notin broker'
               PROVE  Contains(toClient', Unsub(u))
    BY DEF FlagIsTrue
  <2>0. u \in Topic
    <3>1. m_subTopicList \in Seq(Topic)
      BY <1>1 DEF TypeOK
    <3>2. Listed \subseteq Topic
      BY <3>1 DEF Listed
    <3> QED BY <1>4, <3>2
  <2>1. \E j \in 2 .. Len(toClient) : toClient[j] = Unsub(u)
    <3>1. CASE toClient[1] = Sub(t)
      <4>1. CASE u = t
        BY <1>1, <1>2, <3>1, <4>1 DEF AcksAreTrue
      <4>2. CASE u # t
        <5>1. u \in isSubed
          BY <1>3, <3>1, <4>2, PacketTypes
        <5>2. PICK j \in 1 .. Len(toClient) : toClient[j] = Unsub(u)
          BY <1>1, <1>2, <5>1 DEF FlagIsTrue, Contains
        <5>3. j # 1
          BY <3>1, <5>2, <2>0, PacketTypes
        <5> QED BY <5>2, <5>3
      <4> QED BY <4>1, <4>2
    <3>2. CASE toClient[1] = Unsub(t)
      <4>1. u \in isSubed /\ u # t
        BY <1>3, <3>2, PacketTypes
      <4>2. PICK j \in 1 .. Len(toClient) : toClient[j] = Unsub(u)
        BY <1>1, <1>2, <4>1 DEF FlagIsTrue, Contains
      <4>3. j # 1
        BY <3>2, <4>1, <4>2, <2>0, PacketTypes
      <4> QED BY <4>2, <4>3
    <3> QED BY <1>3, <3>1, <3>2
  <2>2. PICK j \in 2 .. Len(toClient) : toClient[j] = Unsub(u)
    BY <2>1
  <2>3. j - 1 \in 1 .. Len(toClient') /\ toClient'[j - 1] = Unsub(u)
    BY <1>2, <1>7, <2>0, <2>2
  <2> QED BY <2>3 DEF Contains
<1> QED BY <1>5, <1>6, <1>8, <1>9 DEF FlagInv

\* What the broker does with a packet.
LEMMA BrokerShape ==
  ASSUME TypeOK, BrokerObeys
  PROVE  /\ UNCHANGED <<m_subTopicList, isSubed, conn, deletedEarly, changes, drops>>
         /\ Listed' = Listed
         /\ toBroker # <<>> /\ toBroker' \in Seq(Packet) /\ toClient' \in Seq(Packet)
         /\ Len(toBroker) \in Nat \ {0} /\ Len(toBroker') = Len(toBroker) - 1
         /\ \A j \in 1 .. Len(toBroker') : toBroker'[j] = toBroker[j + 1]
         /\ Len(toClient) \in Nat /\ Len(toClient') = Len(toClient) + 1
         /\ toClient'[Len(toClient) + 1] = toBroker[1]
         /\ \A j \in 1 .. Len(toClient) : toClient'[j] = toClient[j]
         /\ \E t \in Topic :
              \/ toBroker[1] = Sub(t) /\ broker' = broker \cup {t}
              \/ toBroker[1] = Unsub(t) /\ broker' = broker \ {t}
<1>1. /\ toBroker # <<>> /\ toBroker' = Tail(toBroker)
      /\ toClient' = Append(toClient, Head(toBroker))
      /\ broker' = IF Head(toBroker).kind = "sub"
                   THEN broker \cup {Head(toBroker).topic}
                   ELSE broker \ {Head(toBroker).topic}
      /\ UNCHANGED <<m_subTopicList, isSubed, conn, deletedEarly, changes, drops>>
  BY DEF BrokerObeys
<1>2. toClient \in Seq(Packet) /\ toBroker \in Seq(Packet)
  BY DEF TypeOK
<1>3. Listed' = Listed
  BY <1>1 DEF Listed
<1>4. /\ toBroker' \in Seq(Packet) /\ Len(toBroker) \in Nat \ {0}
      /\ Len(toBroker') = Len(toBroker) - 1
      /\ Head(toBroker) = toBroker[1] /\ Head(toBroker) \in Packet
      /\ \A j \in 1 .. Len(toBroker) - 1 : toBroker'[j] = toBroker[j + 1]
  BY <1>1, <1>2, Tailed
<1>5. /\ toClient' \in Seq(Packet) /\ Len(toClient') = Len(toClient) + 1
      /\ toClient'[Len(toClient) + 1] = Head(toBroker)
      /\ \A j \in 1 .. Len(toClient) : toClient'[j] = toClient[j]
  BY <1>1, <1>2, <1>4, Appended
<1>6. Len(toClient) \in Nat
  BY <1>2
<1>7. \E t \in Topic :
        \/ toBroker[1] = Sub(t) /\ broker' = broker \cup {t}
        \/ toBroker[1] = Unsub(t) /\ broker' = broker \ {t}
  BY <1>1, <1>4, PacketCases
<1> QED BY <1>1, <1>3, <1>4, <1>5, <1>6, <1>7

LEMMA BrokerFlags ==
  ASSUME FlagInv, BrokerObeys
  PROVE  FlagInv'
<1>1. TypeOK /\ NoSession /\ AcksAreTrue /\ FlagIsTrue
  BY DEF FlagInv
<1>2. /\ UNCHANGED <<m_subTopicList, isSubed, conn, deletedEarly, changes, drops>>
      /\ Listed' = Listed
      /\ toBroker # <<>> /\ toBroker' \in Seq(Packet) /\ toClient' \in Seq(Packet)
      /\ Len(toClient) \in Nat /\ Len(toClient') = Len(toClient) + 1
      /\ toClient'[Len(toClient) + 1] = toBroker[1]
      /\ \A j \in 1 .. Len(toClient) : toClient'[j] = toClient[j]
  BY <1>1, BrokerShape
<1>3. PICK t \in Topic :
        \/ toBroker[1] = Sub(t) /\ broker' = broker \cup {t}
        \/ toBroker[1] = Unsub(t) /\ broker' = broker \ {t}
  BY <1>1, BrokerShape
<1>4. conn = "up"
  BY <1>1, <1>2 DEF NoSession
<1>5. TypeOK'
  <2>1. broker' \subseteq Topic
    BY <1>1, <1>3 DEF TypeOK
  <2> QED BY <1>1, <1>2, <2>1 DEF TypeOK
<1>6. NoSession'
  BY <1>2, <1>4 DEF NoSession
\* What the broker drops is announced at the end of the acknowledgements.
<1>7. ASSUME NEW u \in Topic, u \in broker, u \notin broker'
      PROVE  toClient'[Len(toClient) + 1] = Unsub(u)
  BY <1>2, <1>3, <1>7
<1>8. AcksAreTrue'
  <2> SUFFICES ASSUME NEW i \in 1 .. Len(toClient'), NEW u \in Topic,
                      toClient'[i] = Sub(u), u \notin broker'
               PROVE  \E j \in (i + 1) .. Len(toClient') : toClient'[j] = Unsub(u)
    BY DEF AcksAreTrue
  <2>1. CASE i = Len(toClient) + 1
    <3>1. toBroker[1] = Sub(u)
      BY <1>2, <2>1
    <3>2. broker' = broker \cup {u}
      BY <1>3, <3>1, PacketTypes
    <3> QED BY <3>2
  <2>2. CASE i \in 1 .. Len(toClient) /\ u \in broker
    <3>1. toClient'[Len(toClient) + 1] = Unsub(u)
      BY <1>7, <2>2
    <3>2. Len(toClient) + 1 \in (i + 1) .. Len(toClient')
      BY <1>2, <2>2
    <3> QED BY <3>1, <3>2
  <2>3. CASE i \in 1 .. Len(toClient) /\ u \notin broker
    <3>1. toClient[i] = Sub(u)
      BY <1>2, <2>3
    <3>2. PICK j \in (i + 1) .. Len(toClient) : toClient[j] = Unsub(u)
      BY <1>1, <1>4, <2>3, <3>1 DEF AcksAreTrue
    <3>3. j \in 1 .. Len(toClient) /\ j \in (i + 1) .. Len(toClient')
      BY <1>2, <2>3
    <3> QED BY <1>2, <3>2, <3>3
  <2> QED BY <1>2, <2>1, <2>2, <2>3
<1>9. FlagIsTrue'
  <2> SUFFICES ASSUME NEW u \in isSubed', u \notin broker'
               PROVE  Contains(toClient', Unsub(u))
    BY DEF FlagIsTrue
  <2>0. u \in isSubed /\ u \in Topic
    <3>1. m_subTopicList \in Seq(Topic) /\ isSubed \subseteq Listed
      BY <1>1 DEF TypeOK
    <3>2. Listed \subseteq Topic
      BY <3>1 DEF Listed
    <3> QED BY <1>2, <3>1, <3>2
  <2>1. CASE u \in broker
    <3>1. toClient'[Len(toClient) + 1] = Unsub(u)
      BY <1>7, <2>0, <2>1
    <3>2. Len(toClient) + 1 \in 1 .. Len(toClient')
      BY <1>2
    <3> QED BY <3>1, <3>2 DEF Contains
  <2>2. CASE u \notin broker
    <3>1. PICK j \in 1 .. Len(toClient) : toClient[j] = Unsub(u)
      BY <1>1, <1>4, <2>0, <2>2 DEF FlagIsTrue, Contains
    <3>2. j \in 1 .. Len(toClient')
      BY <1>2
    <3> QED BY <1>2, <3>1, <3>2 DEF Contains
  <2> QED BY <2>1, <2>2
<1> QED BY <1>5, <1>6, <1>8, <1>9 DEF FlagInv

LEMMA StutterInv ==
  ASSUME UNCHANGED vars
  PROVE  (FlagInv => FlagInv') /\ (LeftoverInv => LeftoverInv')
<1>1. /\ UNCHANGED <<m_subTopicList, isSubed, conn, broker, toBroker, toClient>>
      /\ UNCHANGED <<deletedEarly, changes, drops>>
  BY DEF vars
<1>2. Listed' = Listed /\ \A t \in Topic : WillBe(t)' = WillBe(t)
  BY <1>1 DEF Listed, WillBe
<1>3. FlagInv => FlagInv'
  BY <1>1, <1>2 DEF FlagInv, TypeOK, NoSession, AcksAreTrue, FlagIsTrue
<1>4. LeftoverHasReason => LeftoverHasReason'
  BY <1>1 DEF LeftoverHasReason, WillBe, Listed
<1>5. ListedHasReason => ListedHasReason'
  BY <1>1 DEF ListedHasReason, WillBe, Listed
<1>6. ClearedIsSetAgain => ClearedIsSetAgain'
  BY <1>1 DEF ClearedIsSetAgain, WillBe
<1> QED BY <1>3, <1>4, <1>5, <1>6 DEF LeftoverInv

LEMMA FlagStep == FlagInv /\ [Next]_vars => FlagInv'
<1> SUFFICES ASSUME FlagInv, [Next]_vars PROVE FlagInv'
  OBVIOUS
<1>1. CASE Change
  <2>1. PICK t \in Topic : mqttAddTopic(t) \/ mqttDelTopic(t)
    BY <1>1 DEF Change
  <2>2. changes < MaxChanges /\ changes' = changes + 1
    BY <1>1 DEF Change
  <2> QED BY <2>1, <2>2, AddFlags, DelFlags
<1>2. CASE Client
  BY <1>2, CheckFlags, ConnectionFlags, AckFlags DEF Client
<1>3. CASE Broker
  BY <1>3, BrokerFlags, ConnectionFlags DEF Broker
<1>4. CASE UNCHANGED vars
  BY <1>4, StutterInv
<1> QED BY <1>1, <1>2, <1>3, <1>4 DEF Next

(***************************************************************************)
(* Types; no topic is listed twice, only listed topics carry the flag.     *)
(***************************************************************************)
THEOREM TypeCorrect == Spec => []TypeOK
<1>1. FlagInv => TypeOK
  BY DEF FlagInv
<1> QED BY InitInv, FlagStep, <1>1, PTL DEF Spec

(***************************************************************************)
(* A topic the program believes subscribed is subscribed, or the           *)
(* acknowledgement that corrects the flag is on its way.                   *)
(***************************************************************************)
THEOREM FlagsAreTrue == Spec => []FlagIsTrue
<1>1. FlagInv => FlagIsTrue
  BY DEF FlagInv
<1> QED BY InitInv, FlagStep, <1>1, PTL DEF Spec

(***************************************************************************)
(* The second invariant: what the broker is going to serve.                *)
(***************************************************************************)
\* A packet sent changes what the broker will serve for its own topic only.
LEMMA SentWillBe ==
  ASSUME toBroker \in Seq(Packet), NEW p \in Packet,
         toBroker' = Sent(toBroker, p), broker' = broker, NEW u \in Topic
  PROVE  /\ WillBe(u)' => WillBe(u) \/ (conn = "up" /\ p = Sub(u))
         /\ Contains(toBroker, Sub(u)) => Contains(toBroker', Sub(u))
         /\ conn = "up" /\ p = Unsub(u) => ~WillBe(u)'
         /\ conn = "up" /\ p = Sub(u) => Contains(toBroker', Sub(u))
<1> DEFINE q == toBroker
<1>1. CASE conn # "up"
  <2>1. toBroker' = toBroker
    BY <1>1 DEF Sent
  <2> QED BY <1>1, <2>1 DEF WillBe
<1>2. CASE conn = "up"
  <2>1. q' = Append(q, p)
    BY <1>2 DEF Sent
  <2>2. /\ Len(q) \in Nat /\ Len(q') = Len(q) + 1 /\ q'[Len(q) + 1] = p
        /\ \A j \in 1 .. Len(q) : q'[j] = q[j]
    BY <2>1, Appended
  <2>3. ASSUME NEW e, Contains(q, e) PROVE Contains(q', e)
    <3>1. PICK j \in 1 .. Len(q) : q[j] = e
      BY <2>3 DEF Contains
    <3>2. j \in 1 .. Len(q') /\ q'[j] = e
      BY <2>2, <3>1
    <3> QED BY <3>2 DEF Contains
  <2>4. Contains(q', p)
    <3>1. Len(q) + 1 \in 1 .. Len(q')
      BY <2>2
    <3> QED BY <2>2, <3>1 DEF Contains
  <2>5. ASSUME p = Unsub(u) PROVE ~WillBe(u)'
    <3>1. Contains(q', Unsub(u))
      BY <2>4, <2>5
    <3>2. \A i \in 1 .. Len(q') : q'[i] = Sub(u) => Len(q) + 1 \in (i + 1) .. Len(q')
      <4> SUFFICES ASSUME NEW i \in 1 .. Len(q'), q'[i] = Sub(u)
                   PROVE  Len(q) + 1 \in (i + 1) .. Len(q')
        OBVIOUS
      <4>1. i # Len(q) + 1
        BY <2>2, <2>5, PacketTypes
      <4> QED BY <2>2, <4>1
    <3> QED BY <2>2, <2>5, <3>1, <3>2 DEF WillBe
  <2>6. ASSUME WillBe(u)', p # Sub(u) PROVE WillBe(u)
    <3>1. CASE u \in broker /\ ~Contains(q', Unsub(u))
      BY <2>3, <3>1 DEF WillBe
    <3>2. CASE \E i \in 1 .. Len(q') :
                 /\ q'[i] = Sub(u)
                 /\ \A j \in (i + 1) .. Len(q') : q'[j] # Unsub(u)
      <4>1. PICK i \in 1 .. Len(q') :
              /\ q'[i] = Sub(u)
              /\ \A j \in (i + 1) .. Len(q') : q'[j] # Unsub(u)
        BY <3>2
      <4>2. i \in 1 .. Len(q) /\ q[i] = Sub(u)
        BY <2>2, <2>6, <4>1
      <4>3. \A j \in (i + 1) .. Len(q) : q[j] # Unsub(u)
        BY <2>2, <4>1, <4>2
      <4> QED BY <4>2, <4>3 DEF WillBe
    <3> QED BY <2>6, <3>1, <3>2 DEF WillBe
  <2> QED BY <1>2, <2>3, <2>4, <2>5, <2>6
<1> QED BY <1>1, <1>2

\* Obeying a packet does not change what the broker will serve in the end.
LEMMA ObeyedWillBe ==
  ASSUME TypeOK, BrokerObeys, NEW u \in Topic, WillBe(u)'
  PROVE  WillBe(u)
<1>1. /\ Len(toBroker) \in Nat \ {0} /\ Len(toBroker') = Len(toBroker) - 1
      /\ \A j \in 1 .. Len(toBroker') : toBroker'[j] = toBroker[j + 1]
  BY BrokerShape
<1>2. PICK t \in Topic :
        \/ toBroker[1] = Sub(t) /\ broker' = broker \cup {t}
        \/ toBroker[1] = Unsub(t) /\ broker' = broker \ {t}
  BY BrokerShape
<1>3. \A j \in 2 .. Len(toBroker) :
        j - 1 \in 1 .. Len(toBroker') /\ toBroker'[j - 1] = toBroker[j]
  BY <1>1
<1>4. CASE u \in broker' /\ ~Contains(toBroker', Unsub(u))
  <2>1. \A j \in 2 .. Len(toBroker) : toBroker[j] # Unsub(u)
    BY <1>3, <1>4 DEF Contains
  <2>2. CASE toBroker[1] = Sub(u)
    BY <1>1, <2>1, <2>2 DEF WillBe
  <2>3. CASE toBroker[1] # Sub(u)
    <3>1. u \in broker /\ toBroker[1] # Unsub(u)
      BY <1>2, <1>4, <2>3, PacketTypes
    <3>2. \A j \in 1 .. Len(toBroker) : toBroker[j] # Unsub(u)
      BY <1>1, <2>1, <3>1
    <3> QED BY <3>1, <3>2 DEF WillBe, Contains
  <2> QED BY <2>2, <2>3
<1>5. CASE \E i \in 1 .. Len(toBroker') :
             /\ toBroker'[i] = Sub(u)
             /\ \A j \in (i + 1) .. Len(toBroker') : toBroker'[j] # Unsub(u)
  <2>1. PICK i \in 1 .. Len(toBroker') :
          /\ toBroker'[i] = Sub(u)
          /\ \A j \in (i + 1) .. Len(toBroker') : toBroker'[j] # Unsub(u)
    BY <1>5
  <2>2. i + 1 \in 1 .. Len(toBroker) /\ toBroker[i + 1] = Sub(u)
    BY <1>1, <2>1
  <2>3. \A j \in (i + 1) + 1 .. Len(toBroker) : toBroker[j] # Unsub(u)
    <3> SUFFICES ASSUME NEW j \in (i + 1) + 1 .. Len(toBroker)
                 PROVE  toBroker[j] # Unsub(u)
      OBVIOUS
    <3>1. j \in 2 .. Len(toBroker) /\ j - 1 \in (i + 1) .. Len(toBroker')
      BY <1>1, <2>1
    <3> QED BY <1>3, <2>1, <3>1
  <2> QED BY <2>2, <2>3 DEF WillBe
<1> QED BY <1>4, <1>5 DEF WillBe

\* Without a session there is nothing to serve.
LEMMA NoneWillBe ==
  ASSUME TypeOK', \A u \in Topic : ~WillBe(u)'
  PROVE  LeftoverInv'
<1>1. Listed' \subseteq Topic
  <2>1. m_subTopicList' \in Seq(Topic)
    BY DEF TypeOK
  <2> QED BY <2>1 DEF Listed
<1>2. LeftoverHasReason'
  BY DEF LeftoverHasReason
<1>3. ClearedIsSetAgain'
  BY DEF ClearedIsSetAgain
<1>4. ListedHasReason'
  BY <1>1 DEF ListedHasReason
<1> QED BY <1>2, <1>3, <1>4 DEF LeftoverInv

LEMMA ListedTopics == ASSUME TypeOK PROVE Listed \subseteq Topic
<1>1. m_subTopicList \in Seq(Topic)
  BY DEF TypeOK
<1> QED BY <1>1 DEF Listed

LEMMA AddLeftover ==
  ASSUME TypeOK, LeftoverInv, NEW t \in Topic, mqttAddTopic(t)
  PROVE  LeftoverInv'
<1>1. /\ UNCHANGED <<isSubed, conn, broker, toBroker, toClient, deletedEarly>>
      /\ Listed' = Listed \cup {t} /\ Listed \subseteq Topic
      /\ LeftoverHasReason /\ ListedHasReason /\ ClearedIsSetAgain
  BY AddType, ListedTopics DEF mqttAddTopic, LeftoverInv
<1>2. \A u \in Topic : WillBe(u)' <=> WillBe(u)
  BY <1>1 DEF WillBe
<1>3. LeftoverHasReason'
  BY <1>1, <1>2 DEF LeftoverHasReason
<1>4. ListedHasReason'
  BY <1>1, <1>2 DEF ListedHasReason, LeftoverHasReason
<1>5. ClearedIsSetAgain'
  BY <1>1, <1>2 DEF ClearedIsSetAgain
<1> QED BY <1>3, <1>4, <1>5 DEF LeftoverInv

LEMMA DelLeftover ==
  ASSUME TypeOK, NoSession', LeftoverInv, NEW t \in Topic, mqttDelTopic(t)
  PROVE  LeftoverInv'
<1>1. /\ UNCHANGED <<conn, broker, toClient>>
      /\ isSubed' = isSubed \ {t} /\ t \in Listed
      /\ toBroker' = PacketsOfDel(t) /\ deletedEarly' = EarlyOfDel(t)
      /\ Listed' = Listed \ {t} /\ Listed \subseteq Topic
      /\ LeftoverHasReason /\ ListedHasReason /\ ClearedIsSetAgain
      /\ toBroker \in Seq(Packet)
  BY DelType, ListedTopics DEF mqttDelTopic, LeftoverInv, TypeOK
<1>2. \A u \in Topic : /\ WillBe(u)' => WillBe(u)
                       /\ Contains(toBroker, Sub(u)) => Contains(toBroker', Sub(u))
  <2> SUFFICES ASSUME NEW u \in Topic
               PROVE  /\ WillBe(u)' => WillBe(u)
                      /\ Contains(toBroker, Sub(u)) => Contains(toBroker', Sub(u))
    OBVIOUS
  <2>1. CASE t \in isSubed
    <3>1. toBroker' = Sent(toBroker, Unsub(t)) /\ Unsub(t) \in Packet
      BY <1>1, <2>1, PacketTypes DEF PacketsOfDel
    <3>2. Unsub(t) # Sub(u)
      BY PacketTypes
    <3> QED BY <1>1, <3>1, <3>2, SentWillBe
  <2>2. CASE t \notin isSubed
    BY <1>1, <2>2 DEF PacketsOfDel, WillBe
  <2> QED BY <2>1, <2>2
<1>3. WillBe(t)' => t \in deletedEarly'
  <2>1. CASE t \in isSubed
    <3>1. toBroker' = Sent(toBroker, Unsub(t)) /\ Unsub(t) \in Packet
      BY <1>1, <2>1, PacketTypes DEF PacketsOfDel
    <3>2. CASE conn = "up"
      BY <1>1, <3>1, <3>2, SentWillBe
    <3>3. CASE conn # "up"
      <4>1. broker' = {} /\ toBroker' = <<>>
        BY <1>1, <3>3 DEF NoSession
      <4> QED BY <4>1 DEF WillBe
    <3> QED BY <3>2, <3>3
  <2>2. CASE t \notin isSubed
    BY <1>1, <1>2, <2>2 DEF EarlyOfDel, ListedHasReason
  <2> QED BY <2>1, <2>2
<1>4. \A u \in Topic \ {t} : u \in deletedEarly => u \in deletedEarly'
  BY <1>1 DEF EarlyOfDel
<1>5. LeftoverHasReason'
  BY <1>1, <1>2, <1>3, <1>4 DEF LeftoverHasReason
<1>6. ListedHasReason'
  BY <1>1, <1>2, <1>4 DEF ListedHasReason
<1>7. ClearedIsSetAgain'
  BY <1>1, <1>2 DEF ClearedIsSetAgain
<1> QED BY <1>5, <1>6, <1>7 DEF LeftoverInv

LEMMA CheckLeftover ==
  ASSUME TypeOK, LeftoverInv, slotCheckTimeout
  PROVE  LeftoverInv'
<1>1. /\ UNCHANGED <<m_subTopicList, isSubed, conn, broker, toClient, deletedEarly>>
      /\ Listed \subseteq Topic
      /\ LeftoverHasReason /\ ListedHasReason /\ ClearedIsSetAgain
      /\ toBroker \in Seq(Packet)
  BY ListedTopics DEF slotCheckTimeout, LeftoverInv, TypeOK
<1>2. Listed' = Listed
  BY <1>1 DEF Listed
<1>3. PICK i \in 1 .. Len(m_subTopicList) :
        toBroker' = Sent(toBroker, Sub(m_subTopicList[i]))
  BY DEF slotCheckTimeout
<1> DEFINE v == m_subTopicList[i]
<1>4. v \in Listed
  BY DEF Listed
<1> HIDE DEF v
<1>5. \A u \in Topic :
        /\ WillBe(u)' => WillBe(u) \/ (u = v /\ Contains(toBroker', Sub(u)))
        /\ Contains(toBroker, Sub(u)) => Contains(toBroker', Sub(u))
  <2> SUFFICES ASSUME NEW u \in Topic
               PROVE  /\ WillBe(u)' => WillBe(u) \/ (u = v /\ Contains(toBroker', Sub(u)))
                      /\ Contains(toBroker, Sub(u)) => Contains(toBroker', Sub(u))
    OBVIOUS
  <2>1. toBroker' = Sent(toBroker, Sub(v)) /\ v \in Topic /\ Sub(v) \in Packet
    BY <1>1, <1>3, <1>4, PacketTypes DEF v
  <2>2. Sub(v) = Sub(u) => u = v
    BY <2>1, PacketTypes
  <2> QED BY <1>1, <2>1, <2>2, SentWillBe
<1>6. LeftoverHasReason'
  BY <1>1, <1>2, <1>4, <1>5 DEF LeftoverHasReason
<1>7. ListedHasReason'
  BY <1>1, <1>2, <1>5 DEF ListedHasReason
<1>8. ClearedIsSetAgain'
  BY <1>1, <1>5 DEF ClearedIsSetAgain
<1> QED BY <1>6, <1>7, <1>8 DEF LeftoverInv

LEMMA ConnectionLeftover ==
  ASSUME FlagInv, FlagInv', slotMqttConnected \/ slotMqttDisconnected \/ SessionEnds
  PROVE  LeftoverInv'
<1>1. broker' = {} /\ toBroker' = <<>>
  BY DEF FlagInv, NoSession, slotMqttConnected, slotMqttDisconnected, SessionEnds
<1>2. \A u \in Topic : ~WillBe(u)'
  BY <1>1 DEF WillBe
<1> QED BY <1>2, NoneWillBe DEF FlagInv

LEMMA AckLeftover ==
  ASSUME TypeOK, LeftoverInv, slotMqttSubscribed \/ slotMqttUnsubscribed
  PROVE  LeftoverInv'
<1>1. LeftoverHasReason /\ ListedHasReason /\ ClearedIsSetAgain /\ Listed \subseteq Topic
  BY ListedTopics DEF LeftoverInv
<1>2. /\ UNCHANGED <<m_subTopicList, conn, broker, toBroker, deletedEarly>>
      /\ Listed' = Listed
      /\ Len(toClient) \in Nat \ {0} /\ Len(toClient') = Len(toClient) - 1
      /\ \A j \in 1 .. Len(toClient') : toClient'[j] = toClient[j + 1]
  BY AckShape
<1>3. PICK t \in Topic :
        \/ toClient[1] = Sub(t) /\ isSubed' = isSubed \cup (Listed \cap {t})
        \/ toClient[1] = Unsub(t) /\ isSubed' = isSubed \ {t}
  BY AckShape
<1>4. \A u \in Topic : WillBe(u)' <=> WillBe(u)
  BY <1>2 DEF WillBe
<1>5. \A j \in 2 .. Len(toClient) :
        j - 1 \in 1 .. Len(toClient') /\ toClient'[j - 1] = toClient[j]
  BY <1>2
<1>6. LeftoverHasReason'
  BY <1>1, <1>2, <1>4 DEF LeftoverHasReason
<1>7. ListedHasReason'
  <2> SUFFICES ASSUME NEW u \in Listed, u \notin isSubed', WillBe(u),
                      ~Contains(toBroker, Sub(u)), u \notin deletedEarly
               PROVE  Contains(toClient', Sub(u))
    BY <1>1, <1>2, <1>4 DEF ListedHasReason
  <2>0. u \in Topic
    BY <1>1
  <2>1. \E j \in 2 .. Len(toClient) : toClient[j] = Sub(u)
    <3>1. CASE toClient[1] = Unsub(u)
      BY <1>1, <1>2, <2>0, <3>1 DEF ClearedIsSetAgain
    <3>2. CASE toClient[1] # Unsub(u)
      <4>1. u \notin isSubed /\ toClient[1] # Sub(u)
        BY <1>3, <2>0, <3>2, PacketTypes
      <4>2. PICK j \in 1 .. Len(toClient) : toClient[j] = Sub(u)
        BY <1>1, <4>1 DEF ListedHasReason, Contains
      <4> QED BY <1>2, <4>1, <4>2
    <3> QED BY <3>1, <3>2
  <2> QED BY <1>5, <2>1 DEF Contains
<1>8. ClearedIsSetAgain'
  <2> SUFFICES ASSUME NEW i \in 1 .. Len(toClient'), NEW u \in Topic,
                      toClient'[i] = Unsub(u), WillBe(u), ~Contains(toBroker, Sub(u))
               PROVE  \E j \in (i + 1) .. Len(toClient') : toClient'[j] = Sub(u)
    BY <1>2, <1>4 DEF ClearedIsSetAgain
  <2>1. i + 1 \in 1 .. Len(toClient) /\ toClient[i + 1] = Unsub(u)
    BY <1>2
  <2>2. PICK j \in (i + 1) + 1 .. Len(toClient) : toClient[j] = Sub(u)
    BY <1>1, <2>1 DEF ClearedIsSetAgain
  <2>3. j \in 2 .. Len(toClient) /\ j - 1 \in (i + 1) .. Len(toClient')
    BY <1>2, <2>2
  <2> QED BY <1>5, <2>2, <2>3
<1> QED BY <1>6, <1>7, <1>8 DEF LeftoverInv

LEMMA BrokerLeftover ==
  ASSUME TypeOK, LeftoverInv, BrokerObeys
  PROVE  LeftoverInv'
<1>1. LeftoverHasReason /\ ListedHasReason /\ ClearedIsSetAgain /\ Listed \subseteq Topic
  BY ListedTopics DEF LeftoverInv
<1>2. /\ UNCHANGED <<isSubed, deletedEarly>> /\ Listed' = Listed
      /\ Len(toBroker) \in Nat \ {0} /\ Len(toBroker') = Len(toBroker) - 1
      /\ \A j \in 1 .. Len(toBroker') : toBroker'[j] = toBroker[j + 1]
      /\ Len(toClient) \in Nat /\ Len(toClient') = Len(toClient) + 1
      /\ toClient'[Len(toClient) + 1] = toBroker[1]
      /\ \A j \in 1 .. Len(toClient) : toClient'[j] = toClient[j]
  BY BrokerShape
<1>3. \A u \in Topic : WillBe(u)' => WillBe(u)
  BY ObeyedWillBe
\* A SUBSCRIBE in flight is still there, or is the newest acknowledgement.
<1>4. ASSUME NEW u \in Topic, Contains(toBroker, Sub(u))
      PROVE  Contains(toBroker', Sub(u)) \/ toClient'[Len(toClient) + 1] = Sub(u)
  <2>1. PICK i \in 1 .. Len(toBroker) : toBroker[i] = Sub(u)
    BY <1>4 DEF Contains
  <2>2. CASE i = 1
    BY <1>2, <2>1, <2>2
  <2>3. CASE i # 1
    <3>1. i - 1 \in 1 .. Len(toBroker') /\ toBroker'[i - 1] = Sub(u)
      BY <1>2, <2>1, <2>3
    <3> QED BY <3>1 DEF Contains
  <2> QED BY <2>2, <2>3
<1>5. LeftoverHasReason'
  BY <1>1, <1>2, <1>3 DEF LeftoverHasReason
<1>6. ListedHasReason'
  <2> SUFFICES ASSUME NEW u \in Listed \ isSubed, WillBe(u), u \notin deletedEarly,
                      ~Contains(toBroker', Sub(u))
               PROVE  Contains(toClient', Sub(u))
    BY <1>1, <1>2, <1>3 DEF ListedHasReason
  <2>1. CASE Contains(toBroker, Sub(u))
    <3>1. toClient'[Len(toClient) + 1] = Sub(u)
      BY <1>1, <1>4, <2>1
    <3>2. Len(toClient) + 1 \in 1 .. Len(toClient')
      BY <1>2
    <3> QED BY <3>1, <3>2 DEF Contains
  <2>2. CASE ~Contains(toBroker, Sub(u))
    <3>1. PICK j \in 1 .. Len(toClient) : toClient[j] = Sub(u)
      BY <1>1, <2>2 DEF ListedHasReason, Contains
    <3>2. j \in 1 .. Len(toClient')
      BY <1>2
    <3> QED BY <1>2, <3>1, <3>2 DEF Contains
  <2> QED BY <2>1, <2>2
<1>7. ClearedIsSetAgain'
  <2> SUFFICES ASSUME NEW i \in 1 .. Len(toClient'), NEW u \in Topic,
                      toClient'[i] = Unsub(u), WillBe(u)', ~Contains(toBroker', Sub(u))
               PROVE  \E j \in (i + 1) .. Len(toClient') : toClient'[j] = Sub(u)
    BY DEF ClearedIsSetAgain
  <2>1. CASE i = Len(toClient) + 1
    <3>1. toBroker[1] = Unsub(u)
      BY <1>2, <2>1
    <3>2. u \notin broker'
      BY <3>1, BrokerShape, PacketTypes
    <3>3. PICK k \in 1 .. Len(toBroker') : toBroker'[k] = Sub(u)
      BY <3>2 DEF WillBe
    <3> QED BY <3>3 DEF Contains
  <2>2. CASE i \in 1 .. Len(toClient)
    <3>1. toClient[i] = Unsub(u) /\ WillBe(u)
      BY <1>2, <1>3, <2>2
    <3>2. CASE Contains(toBroker, Sub(u))
      <4>1. toClient'[Len(toClient) + 1] = Sub(u)
        BY <1>4, <3>2
      <4>2. Len(toClient) + 1 \in (i + 1) .. Len(toClient')
        BY <1>2, <2>2
      <4> QED BY <4>1, <4>2
    <3>3. CASE ~Contains(toBroker, Sub(u))
      <4>1. PICK j \in (i + 1) .. Len(toClient) : toClient[j] = Sub(u)
        BY <1>1, <2>2, <3>1, <3>3 DEF ClearedIsSetAgain
      <4>2. j \in 1 .. Len(toClient) /\ j \in (i + 1) .. Len(toClient')
        BY <1>2, <2>2
      <4> QED BY <1>2, <4>1, <4>2
    <3> QED BY <3>2, <3>3
  <2> QED BY <1>2, <2>1, <2>2
<1> QED BY <1>5, <1>6, <1>7 DEF LeftoverInv

LEMMA LeftoverStep == FlagInv /\ LeftoverInv /\ [Next]_vars => LeftoverInv'
<1> SUFFICES ASSUME FlagInv, LeftoverInv, [Next]_vars PROVE LeftoverInv'
  OBVIOUS
<1>1. TypeOK /\ FlagInv' /\ NoSession'
  BY FlagStep DEF FlagInv
<1>2. CASE Change
  <2>1. PICK t \in Topic : mqttAddTopic(t) \/ mqttDelTopic(t)
    BY <1>2 DEF Change
  <2> QED BY <1>1, <2>1, AddLeftover, DelLeftover
<1>3. CASE Client
  BY <1>1, <1>3, CheckLeftover, ConnectionLeftover, AckLeftover DEF Client
<1>4. CASE Broker
  BY <1>1, <1>4, BrokerLeftover, ConnectionLeftover DEF Broker
<1>5. CASE UNCHANGED vars
  BY <1>5, StutterInv
<1> QED BY <1>2, <1>3, <1>4, <1>5 DEF Next

(***************************************************************************)
(* The broker keeps a subscription to a topic the program deleted only if  *)
(* the UNSUBSCRIBE is on its way, or if the topic was deleted while its    *)
(* SUBSCRIBE was in flight.                                                *)
(***************************************************************************)
THEOREM LeftoversHaveReason == Spec => []LeftoverHasReason
<1>1. LeftoverInv => LeftoverHasReason
  BY DEF LeftoverInv
<1> QED BY InitInv, FlagStep, LeftoverStep, <1>1, PTL DEF Spec

-----------------------------------------------------------------------------
(* The topics of the app *)


Elements(l) == {l[i] : i \in 1 .. Len(l)}
Distinct(l) == \A i, j \in 1 .. Len(l) : l[i] = l[j] => i = j

TopicsInv ==
  /\ m_subTopicList \in Seq(Topic) /\ Distinct(m_subTopicList)
  /\ currApp \in App \cup {NoApp}
  /\ m_currWorkAppID \in App \cup {NoApp}
  /\ currApp = NoApp => m_currWorkAppID = NoApp
  /\ OneApplicationListed

\* What mqttAddTopic makes of a list without doubles.
LEMMA ListWith ==
  ASSUME NEW l \in Seq(Topic), Distinct(l), NEW t \in Topic
  PROVE  /\ WithTopic(l, t) \in Seq(Topic)
         /\ Distinct(WithTopic(l, t))
         /\ Elements(WithTopic(l, t)) = Elements(l) \cup {t}
<1>1. Len(l) \in Nat
  OBVIOUS
<1>2. CASE Contains(l, t)
  <2>1. WithTopic(l, t) = l /\ t \in Elements(l)
    BY <1>2 DEF WithTopic, Contains, Elements
  <2> QED BY <2>1
<1>3. CASE ~Contains(l, t)
  <2> DEFINE m == Append(l, t)
  <2>1. WithTopic(l, t) = m /\ \A j \in 1 .. Len(l) : l[j] # t
    BY <1>3 DEF WithTopic, Contains
  <2>2. /\ m \in Seq(Topic) /\ Len(m) = Len(l) + 1 /\ m[Len(l) + 1] = t
        /\ \A j \in 1 .. Len(l) : m[j] = l[j]
    BY Appended
  <2> HIDE DEF m
  <2>3. Distinct(m)
    BY <1>1, <2>1, <2>2 DEF Distinct
  <2>4. Elements(m) = Elements(l) \cup {t}
    BY <1>1, <2>2 DEF Elements
  <2> QED BY <2>1, <2>2, <2>3, <2>4
<1> QED BY <1>2, <1>3

\* What mqttDelTopic makes of it.
LEMMA ListWithout ==
  ASSUME NEW l \in Seq(Topic), Distinct(l), NEW t \in Topic
  PROVE  /\ WithoutTopic(l, t) \in Seq(Topic)
         /\ Distinct(WithoutTopic(l, t))
         /\ Elements(WithoutTopic(l, t)) = Elements(l) \ {t}
<1>1. Len(l) \in Nat
  OBVIOUS
<1>2. CASE ~Contains(l, t)
  <2>1. WithoutTopic(l, t) = l /\ t \notin Elements(l)
    BY <1>2 DEF WithoutTopic, Contains, Elements
  <2> QED BY <2>1
<1>3. CASE Contains(l, t)
  <2> DEFINE k == CHOOSE i \in 1 .. Len(l) : l[i] = t
             m == RemoveAt(l, k)
  <2>1. k \in 1 .. Len(l) /\ l[k] = t
    BY <1>3 DEF Contains
  <2>2. WithoutTopic(l, t) = m
    BY <1>3 DEF WithoutTopic
  <2> HIDE DEF k
  <2>3. /\ m \in Seq(Topic) /\ Len(m) = Len(l) - 1
        /\ \A j \in 1 .. Len(l) - 1 : m[j] = IF j < k THEN l[j] ELSE l[j + 1]
    BY <2>1, Removed
  <2> HIDE DEF m
  <2>4. Distinct(m)
    BY <1>1, <2>1, <2>3 DEF Distinct
  <2>5. ASSUME NEW u \in Elements(l), u # t
        PROVE  u \in Elements(m)
    <3> PICK i \in 1 .. Len(l) : u = l[i]
      BY DEF Elements
    <3>1. CASE i < k
      BY <1>1, <2>1, <2>3, <3>1 DEF Elements
    <3>2. CASE i > k
      <4>1. i - 1 \in 1 .. Len(m) /\ m[i - 1] = l[(i - 1) + 1]
        BY <1>1, <2>1, <2>3, <3>2
      <4> QED BY <1>1, <4>1 DEF Elements
    <3> QED BY <1>1, <2>1, <2>5, <3>1, <3>2
  <2>6. ASSUME NEW u \in Elements(m)
        PROVE  u \in Elements(l) /\ u # t
    <3> PICK i \in 1 .. Len(m) : u = m[i]
      BY DEF Elements
    <3>1. CASE i < k
      BY <1>1, <2>1, <2>3, <3>1 DEF Elements, Distinct
    <3>2. CASE i >= k
      <4>1. i + 1 \in 1 .. Len(l) /\ u = l[i + 1] /\ i + 1 # k
        BY <1>1, <2>1, <2>3, <3>2
      <4> QED BY <2>1, <4>1 DEF Elements, Distinct
    <3> QED BY <1>1, <2>1, <3>1, <3>2
  <2> QED BY <2>2, <2>3, <2>4, <2>5, <2>6
<1> QED BY <1>2, <1>3

LEMMA TopicsInit == ClientInit => TopicsInv
<1> SUFFICES ASSUME ClientInit PROVE TopicsInv
  OBVIOUS
<1>1. m_subTopicList = FixedTopics /\ currApp = NoApp /\ m_currWorkAppID = NoApp
  BY DEF ClientInit, InitWith
<1>2. FixedTopics \in Seq(Topic \ (App \cup {NoApp})) /\ Distinct(FixedTopics)
  BY AppAssumption DEF Distinct
<1>3. \A i \in 1 .. Len(FixedTopics) : FixedTopics[i] \in Topic \ (App \cup {NoApp})
  BY <1>2
<1>4. FixedTopics \in Seq(Topic)
  BY <1>2
<1>5. OneApplicationListed
  BY <1>1, <1>3 DEF OneApplicationListed, Listed
<1> QED BY <1>1, <1>2, <1>4, <1>5 DEF TopicsInv

\* The check replaces the one topic of an application by another.
LEMMA SwitchKeeps ==
  ASSUME TopicsInv, SwitchTopic
  PROVE  TopicsInv'
<1> DEFINE old == m_currWorkAppID
           l == m_subTopicList
           mid == WithoutTopic(l, old)
<1>1. /\ currApp # old /\ currApp' = currApp /\ m_currWorkAppID' = currApp
      /\ l' = WithTopic(mid, currApp)
  BY DEF SwitchTopic
<1>2. old \in Topic /\ currApp \in App /\ currApp \in Topic /\ currApp # NoApp
  BY <1>1, AppAssumption DEF TopicsInv
<1>3. mid \in Seq(Topic) /\ Distinct(mid) /\ Elements(mid) = Elements(l) \ {old}
  BY <1>2, ListWithout DEF TopicsInv
<1>4. l' \in Seq(Topic) /\ Distinct(l') /\ Elements(l') = Elements(mid) \cup {currApp}
  <2> HIDE DEF mid
  <2> QED BY <1>1, <1>2, <1>3, ListWith
<1>5. Listed = Elements(l) /\ Listed' = Elements(l')
  BY DEF Listed, Elements
<1>6. Listed \cap (App \cup {NoApp}) \subseteq {old}
  BY DEF TopicsInv, OneApplicationListed
<1> HIDE DEF mid, l
<1>7. Listed' \cap (App \cup {NoApp}) = {currApp}
  BY <1>2, <1>3, <1>4, <1>5, <1>6
<1>8. OneApplicationListed'
  BY <1>1, <1>2, <1>7 DEF OneApplicationListed
<1>9. currApp' \in App /\ m_currWorkAppID' \in App
  BY <1>1, <1>2
<1> QED BY <1>1, <1>2, <1>4, <1>8, <1>9 DEF TopicsInv, l

\* Everything else leaves the list alone.
LEMMA TopicsStep == TopicsInv /\ [ClientNext]_clientVars => TopicsInv'
<1> SUFFICES ASSUME TopicsInv, [ClientNext]_clientVars PROVE TopicsInv'
  OBVIOUS
<1>1. ASSUME UNCHANGED <<m_subTopicList, m_currWorkAppID>>,
             currApp' = currApp \/ currApp' \in App
      PROVE  TopicsInv'
  <2>1. Listed' = Listed
    BY <1>1 DEF Listed
  <2>2. OneApplicationListed'
    BY <1>1, <2>1 DEF TopicsInv, OneApplicationListed
  <2>3. currApp' = NoApp => currApp = NoApp
    BY <1>1, AppAssumption
  <2> QED BY <1>1, <2>2, <2>3 DEF TopicsInv, Distinct
<1>2. CASE UNCHANGED clientVars
  BY <1>1, <1>2 DEF clientVars, vars
<1>3. CASE SelectApp
  BY <1>1, <1>3 DEF SelectApp
<1>4. CASE SwitchTopic
  BY <1>4, SwitchKeeps
<1>5. CASE Mqtt
  <2>1. UNCHANGED m_subTopicList
    BY <1>5 DEF Mqtt, Client, Broker, slotCheckTimeout, slotMqttConnected,
                slotMqttDisconnected, slotMqttSubscribed, slotMqttUnsubscribed,
                BrokerObeys, SessionEnds
  <2> QED BY <1>1, <1>5, <2>1 DEF Mqtt
<1> QED BY <1>2, <1>3, <1>4, <1>5 DEF ClientNext

\* MainInterface's check keeps one application's topic in the list at most,
\* the one it remembers, whatever the user selects and the connection does.
THEOREM OneApplication == ClientSpec => []OneApplicationListed
<1>1. TopicsInv => OneApplicationListed
  BY DEF TopicsInv
<1> QED BY <1>1, TopicsInit, TopicsStep, PTL DEF ClientSpec
=============================================================================
