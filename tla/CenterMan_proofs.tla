-------------------------- MODULE CenterMan_proofs --------------------------
(***************************************************************************)
(* The app's copy of devices and groups, for any applications, devices,    *)
(* groups and tables, any number of actions of the user and of faults.     *)
(***************************************************************************)
EXTENDS CenterMan, FiniteSetTheorems, SequenceTheorems, WellFoundedInduction, TLAPS

(* Sequences *)

LEMMA Appended ==
  ASSUME NEW S, NEW s \in Seq(S), NEW e \in S
  PROVE  /\ Append(s, e) \in Seq(S)
         /\ Len(s) \in Nat
         /\ Len(Append(s, e)) = Len(s) + 1
         /\ Append(s, e)[Len(s) + 1] = e
         /\ \A j \in 1 .. Len(s) : Append(s, e)[j] = s[j]
OBVIOUS

LEMMA Tailed ==
  ASSUME NEW S, NEW s \in Seq(S), s # <<>>
  PROVE  /\ Tail(s) \in Seq(S)
         /\ Len(s) \in Nat \ {0}
         /\ Len(Tail(s)) = Len(s) - 1
         /\ Head(s) = s[1] /\ Head(s) \in S
         /\ \A j \in 1 .. Len(s) - 1 : Tail(s)[j] = s[j + 1]
OBVIOUS

LEMMA Joined ==
  ASSUME NEW S, NEW s \in Seq(S), NEW t \in Seq(S)
  PROVE  /\ s \o t \in Seq(S)
         /\ Len(s) \in Nat /\ Len(t) \in Nat
         /\ Len(s \o t) = Len(s) + Len(t)
         /\ \A j \in 1 .. Len(s) : (s \o t)[j] = s[j]
         /\ \A j \in 1 .. Len(t) : (s \o t)[Len(s) + j] = t[j]
OBVIOUS

LEMMA Short ==
  ASSUME NEW S
  PROVE  /\ <<>> \in Seq(S) /\ Len(<<>>) = 0 /\ Range(<<>>) = {}
         /\ \A e \in S : <<e>> \in Seq(S) /\ Len(<<e>>) = 1 /\ <<e>>[1] = e
         /\ \A e, f \in S : /\ <<e, f>> \in Seq(S) /\ Len(<<e, f>>) = 2
                            /\ <<e, f>>[1] = e /\ <<e, f>>[2] = f
BY DEF Range

LEMMA Ranged ==
  ASSUME NEW S, NEW s \in Seq(S)
  PROVE  /\ DOMAIN s = 1 .. Len(s) /\ Len(s) \in Nat
         /\ Range(s) \subseteq S
         /\ \A i \in 1 .. Len(s) : s[i] \in S /\ s[i] \in Range(s)
         /\ \A e \in Range(s) : \E i \in 1 .. Len(s) : e = s[i]
BY DEF Range

-----------------------------------------------------------------------------
(* The elements of a list at some of its places *)

Rank(I, i) == Cardinality({j \in I : j <= i})
Place(I, k) == CHOOSE i \in I : Rank(I, i) = k

LEMMA RankType ==
  ASSUME NEW I \in SUBSET Nat, IsFiniteSet(I), NEW i \in I
  PROVE  Rank(I, i) \in 1 .. Cardinality(I)
<1> DEFINE J == {j \in I : j <= i}
<1>1. J \in SUBSET I /\ i \in J
  OBVIOUS
<1>2. IsFiniteSet(J) /\ Cardinality(J) <= Cardinality(I)
  BY <1>1, FS_Subset
<1>3. Cardinality(J) \in Nat /\ Cardinality(I) \in Nat
  BY <1>2, FS_CardinalityType
<1>4. Cardinality(J) # 0
  BY <1>1, <1>2, FS_EmptySet
<1> QED BY <1>2, <1>3, <1>4 DEF Rank

LEMMA RankRises ==
  ASSUME NEW I \in SUBSET Nat, IsFiniteSet(I), NEW i \in I, NEW j \in I, i < j
  PROVE  Rank(I, i) < Rank(I, j)
<1> DEFINE Ji == {n \in I : n <= i}
           Jj == {n \in I : n <= j}
<1>1. Ji \in SUBSET Jj /\ j \in Jj /\ j \notin Ji
  <2>1. i \in Nat /\ j \in Nat /\ \A n \in I : n \in Nat
    OBVIOUS
  <2>2. \A n \in I : n <= i => n <= j
    BY <2>1
  <2>3. j <= j /\ ~(j <= i)
    BY <2>1
  <2> QED BY <2>2, <2>3
<1>2. Jj \in SUBSET I
  OBVIOUS
<1>3. IsFiniteSet(Jj)
  BY <1>2, FS_Subset
<1>4. Cardinality(Ji) <= Cardinality(Jj) /\ Cardinality(Ji) # Cardinality(Jj)
  BY <1>1, <1>3, FS_Subset
<1>5. Cardinality(Ji) \in Nat /\ Cardinality(Jj) \in Nat
  BY <1>1, <1>3, FS_Subset, FS_CardinalityType
<1> QED BY <1>4, <1>5 DEF Rank

LEMMA RankIsPlace ==
  ASSUME NEW I \in SUBSET Nat, IsFiniteSet(I)
  PROVE  /\ Cardinality(I) \in Nat
         /\ \A k \in 1 .. Cardinality(I) : Place(I, k) \in I /\ Rank(I, Place(I, k)) = k
         /\ \A i \in I : Rank(I, i) \in 1 .. Cardinality(I) /\ Place(I, Rank(I, i)) = i
<1> DEFINE n == Cardinality(I)
           f == [i \in I |-> Rank(I, i)]
<1>1. n \in Nat
  BY FS_CardinalityType
<1>2. f \in [I -> 1 .. n]
  BY RankType
<1>3. \A i, j \in I : Rank(I, i) = Rank(I, j) => i = j
  <2> SUFFICES ASSUME NEW i \in I, NEW j \in I, i # j PROVE Rank(I, i) # Rank(I, j)
    OBVIOUS
  <2>1. Rank(I, i) \in Nat /\ Rank(I, j) \in Nat
    BY RankType, <1>1
  <2>2. i \in Nat /\ j \in Nat
    OBVIOUS
  <2>3. CASE i < j
    BY <2>1, <2>3, RankRises
  <2>4. CASE j < i
    BY <2>1, <2>4, RankRises
  <2> QED BY <2>2, <2>3, <2>4
<1>4. f \in Injection(I, 1 .. n)
  BY <1>2, <1>3 DEF Injection, IsInjective
<1>5. IsFiniteSet(1 .. n) /\ Cardinality(1 .. n) = n
  <2>1. 1 \in Int /\ n \in Int
    BY <1>1
  <2>2. IsFiniteSet(1 .. n) /\ Cardinality(1 .. n) = IF 1 > n THEN 0 ELSE n - 1 + 1
    BY <2>1, FS_Interval
  <2> QED BY <1>1, <2>2
<1>6. f \in Surjection(I, 1 .. n)
  BY <1>4, <1>5, FS_Injection
<1>7. \A k \in 1 .. n : \E i \in I : Rank(I, i) = k
  BY <1>6 DEF Surjection
<1>8. \A k \in 1 .. n : Place(I, k) \in I /\ Rank(I, Place(I, k)) = k
  BY <1>7 DEF Place
<1>9. \A i \in I : Rank(I, i) \in 1 .. n /\ Place(I, Rank(I, i)) = i
  BY <1>3, <1>8, RankType
<1> QED BY <1>1, <1>8, <1>9

LEMMA PickedFacts ==
  ASSUME NEW S, NEW s \in Seq(S), NEW I \in SUBSET (1 .. Len(s))
  PROVE  /\ Picked(s, I) \in Seq(S)
         /\ Len(Picked(s, I)) = Cardinality(I) /\ Cardinality(I) \in Nat
         /\ \A k \in 1 .. Cardinality(I) :
              Place(I, k) \in I /\ Rank(I, Place(I, k)) = k /\ Picked(s, I)[k] = s[Place(I, k)]
         /\ \A i \in I : \E k \in 1 .. Cardinality(I) : Place(I, k) = i
         /\ Range(Picked(s, I)) = {s[i] : i \in I}
<1>1. Len(s) \in Nat /\ \A i \in 1 .. Len(s) : s[i] \in S
  OBVIOUS
<1>2. IsFiniteSet(1 .. Len(s))
  BY <1>1, FS_Interval
<1>3. IsFiniteSet(I) /\ I \in SUBSET Nat
  <2>1. I \in SUBSET Nat
    BY <1>1
  <2> QED BY <1>2, <2>1, FS_Subset
<1>4. Picked(s, I) = [k \in 1 .. Cardinality(I) |-> s[Place(I, k)]]
  BY DEF Picked, Place, Rank
<1>5. /\ Cardinality(I) \in Nat
      /\ \A k \in 1 .. Cardinality(I) : Place(I, k) \in I /\ Rank(I, Place(I, k)) = k
      /\ \A i \in I : \E k \in 1 .. Cardinality(I) : Place(I, k) = i
  BY <1>3, RankIsPlace
<1>6. Picked(s, I) \in [1 .. Cardinality(I) -> S]
  BY <1>1, <1>4, <1>5
<1>7. Picked(s, I) \in Seq(S) /\ Len(Picked(s, I)) = Cardinality(I)
  BY <1>5, <1>6
<1>8. Range(Picked(s, I)) = {s[i] : i \in I}
  <2>1. Range(Picked(s, I)) = {Picked(s, I)[k] : k \in 1 .. Cardinality(I)}
    BY <1>4 DEF Range
  <2>2. \A k \in 1 .. Cardinality(I) : Picked(s, I)[k] = s[Place(I, k)] /\ Place(I, k) \in I
    BY <1>4, <1>5
  <2>3. ASSUME NEW k \in 1 .. Cardinality(I) PROVE Picked(s, I)[k] \in {s[i] : i \in I}
    BY <2>2
  <2>4. ASSUME NEW i \in I PROVE s[i] \in {Picked(s, I)[k] : k \in 1 .. Cardinality(I)}
    <3>1. PICK k \in 1 .. Cardinality(I) : Place(I, k) = i
      BY <1>5
    <3>2. s[i] = Picked(s, I)[k]
      BY <2>2, <3>1
    <3> QED BY <3>2
  <2> QED BY <2>1, <2>3, <2>4
<1> QED BY <1>4, <1>5, <1>7, <1>8

LEMMA RemoveAllType ==
  ASSUME NEW S, NEW s \in Seq(S), NEW D
  PROVE  RemoveAll(s, D) \in Seq(S) /\ Range(RemoveAll(s, D)) \subseteq Range(s)
<1> DEFINE I == {i \in DOMAIN s : s[i] \in D => RepeatedAt(s, i)}
<1>1. I \in SUBSET (1 .. Len(s))
  OBVIOUS
<1>2. RemoveAll(s, D) = Picked(s, I)
  BY DEF RemoveAll
<1>3. {s[i] : i \in I} \subseteq Range(s)
  BY DEF Range
<1> HIDE DEF I
<1>4. Picked(s, I) \in Seq(S) /\ Range(Picked(s, I)) = {s[i] : i \in I}
  BY <1>1, PickedFacts
<1> QED BY <1>2, <1>3, <1>4

LEMMA AppendNewType ==
  ASSUME NEW S, NEW s \in Seq(S), NEW l \in Seq(S)
  PROVE  /\ AppendNew(s, l) \in Seq(S)
         /\ Range(AppendNew(s, l)) \subseteq Range(s) \cup Range(l)
<1> DEFINE I == {i \in DOMAIN l : l[i] \notin Range(s) /\ ~RepeatedAt(l, i)}
           p == Picked(l, I)
<1>1. I \in SUBSET (1 .. Len(l))
  OBVIOUS
<1>2. AppendNew(s, l) = s \o p
  BY DEF AppendNew
<1>3. {l[i] : i \in I} \subseteq Range(l)
  BY DEF Range
<1> HIDE DEF I
<1>4. p \in Seq(S) /\ Range(p) \subseteq Range(l)
  BY <1>1, <1>3, PickedFacts
<1> HIDE DEF p
<1>5. s \o p \in Seq(S) /\ Range(s \o p) \subseteq Range(s) \cup Range(p)
  BY <1>4 DEF Range
<1> QED BY <1>2, <1>4, <1>5

LEMMA ChosenType ==
  ASSUME NEW S, NEW s \in Seq(S), NEW D
  PROVE  Chosen(s, D) \in Seq(S) /\ Range(Chosen(s, D)) \subseteq Range(s) \cap D
<1> DEFINE I == {i \in DOMAIN s : s[i] \in D /\ ~RepeatedAt(s, i)}
<1>1. I \in SUBSET (1 .. Len(s))
  OBVIOUS
<1>2. Chosen(s, D) = Picked(s, I)
  BY DEF Chosen
<1>3. {s[i] : i \in I} \subseteq Range(s) \cap D
  BY DEF Range
<1> HIDE DEF I
<1>4. Picked(s, I) \in Seq(S) /\ Range(Picked(s, I)) = {s[i] : i \in I}
  BY <1>1, PickedFacts
<1> QED BY <1>2, <1>3, <1>4

\* The place of s from which the element at place i of Moved(s, j, k) comes.
From(j, k, i) ==
  IF i = k THEN j ELSE IF j <= i /\ i < k THEN i + 1 ELSE IF k < i /\ i <= j THEN i - 1 ELSE i

LEMMA FromFacts ==
  ASSUME NEW n \in Nat, NEW j \in 1 .. n, NEW k \in 1 .. n
  PROVE  /\ \A i \in 1 .. n : From(j, k, i) \in 1 .. n
         /\ \A h, i \in 1 .. n : From(j, k, h) = From(j, k, i) => h = i
         /\ \A m \in 1 .. n : \E i \in 1 .. n : From(j, k, i) = m
<1>1. \A i \in 1 .. n : From(j, k, i) \in 1 .. n
  BY DEF From
<1>2. \A h, i \in 1 .. n : From(j, k, h) = From(j, k, i) => h = i
  BY DEF From
<1>3. ASSUME NEW m \in 1 .. n PROVE \E i \in 1 .. n : From(j, k, i) = m
  <2>1. CASE m = j
    BY <2>1 DEF From
  <2>2. CASE j < m /\ m <= k
    <3>1. m - 1 \in 1 .. n /\ From(j, k, m - 1) = m
      BY <2>2 DEF From
    <3> QED BY <3>1
  <2>3. CASE k <= m /\ m < j
    <3>1. m + 1 \in 1 .. n /\ From(j, k, m + 1) = m
      BY <2>3 DEF From
    <3> QED BY <3>1
  <2>4. CASE (m < j /\ m < k) \/ (m > j /\ m > k)
    <3>1. From(j, k, m) = m
      BY <2>4 DEF From
    <3> QED BY <3>1
  <2> QED BY <2>1, <2>2, <2>3, <2>4
<1> QED BY <1>1, <1>2, <1>3

LEMMA MovedFacts ==
  ASSUME NEW S, NEW s \in Seq(S), NEW j \in DOMAIN s, NEW k \in DOMAIN s
  PROVE  /\ Moved(s, j, k) \in Seq(S) /\ Range(Moved(s, j, k)) = Range(s)
         /\ IsInjective(s) => IsInjective(Moved(s, j, k))
<1> DEFINE m == Moved(s, j, k)
<1>0. PICK n \in Nat : n = Len(s)
  OBVIOUS
<1>1. /\ DOMAIN s = 1 .. n /\ j \in 1 .. n /\ k \in 1 .. n
      /\ \A i \in 1 .. n : s[i] \in S
  BY <1>0
<1>2. /\ \A i \in 1 .. n : From(j, k, i) \in 1 .. n
      /\ \A h, i \in 1 .. n : From(j, k, h) = From(j, k, i) => h = i
      /\ \A p \in 1 .. n : \E i \in 1 .. n : From(j, k, i) = p
  <2>1. n \in Nat /\ j \in 1 .. n /\ k \in 1 .. n
    BY <1>0, <1>1
  <2> QED BY <2>1, FromFacts
<1>3. m = [i \in 1 .. n |-> s[From(j, k, i)]]
  <2>1. \A i \in 1 .. n : (IF i = k THEN s[j]
                           ELSE IF j <= i /\ i < k THEN s[i + 1]
                           ELSE IF k < i /\ i <= j THEN s[i - 1]
                           ELSE s[i]) = s[From(j, k, i)]
    BY DEF From
  <2> QED BY <1>1, <2>1 DEF Moved
<1> HIDE DEF m
<1>4. DOMAIN m = 1 .. n /\ \A i \in 1 .. n : m[i] = s[From(j, k, i)] /\ m[i] \in S
  BY <1>1, <1>2, <1>3
<1>5. m \in Seq(S)
  <2>1. m \in [1 .. n -> S]
    BY <1>1, <1>2, <1>3
  <2> QED BY <1>1, <2>1
<1>6. Range(m) = Range(s)
  <2>1. \A i \in 1 .. n : m[i] \in Range(s)
    BY <1>1, <1>2, <1>4 DEF Range
  <2>2. ASSUME NEW p \in 1 .. n PROVE s[p] \in Range(m)
    <3>1. PICK i \in 1 .. n : From(j, k, i) = p
      BY <1>2
    <3>2. m[i] = s[p] /\ i \in DOMAIN m
      BY <1>4, <3>1
    <3> QED BY <3>2 DEF Range
  <2>3. Range(m) = {m[i] : i \in 1 .. n} /\ Range(s) = {s[i] : i \in 1 .. n}
    BY <1>1, <1>4 DEF Range
  <2> QED BY <2>1, <2>2, <2>3
<1>7. ASSUME IsInjective(s) PROVE IsInjective(m)
  <2>1. \A h, i \in 1 .. n : s[h] = s[i] => h = i
    BY <1>1, <1>7 DEF IsInjective
  <2>2. \A h, i \in 1 .. n : m[h] = m[i] => h = i
    BY <1>2, <1>4, <2>1
  <2> QED BY <1>4, <2>2 DEF IsInjective
<1> QED BY <1>5, <1>6, <1>7 DEF m

-----------------------------------------------------------------------------
(* Types of tables and messages *)

Rows == {r \in UNION {[G -> Seq(Dev)] : G \in SUBSET Group} : IsFiniteSet(DOMAIN r)}
Table == [devices : SUBSET Dev, groups : Rows]

Ask ==
  [cmd : {"dev_list", "group_list", "order_group"}, app : App]
    \cup [cmd : {"add_group", "del_group"}, app : App, group : Group]
    \cup [cmd : {"rename_group"}, app : App, group : Group, to : Group]
    \cup [cmd : {"sort_dev"}, app : App, group : Group, devs : Seq(Dev)]
    \cup [cmd : {"add_dev"}, app : App, dev : Dev]
    \cup [cmd : {"del_dev"}, app : App, devs : SUBSET Dev]

ListCmd == {"dev_list", "group_list"}
AckCmd == {"add_group", "del_group", "rename_group", "sort_dev", "add_dev", "del_dev"}

Acks == {r \in [cmd : AckCmd, request : Ask, ok : BOOLEAN] : r.request.cmd = r.cmd}

Rep ==
  [cmd : {"dev_list"}, app : App, devs : SUBSET Dev]
    \cup [cmd : {"group_list"}, app : App, groups : Rows]
    \cup Acks

GroupNode == [name : Group, devs : Seq(Dev), shown : Seq(Dev), dragged : BOOLEAN]
Dialog == [src : Group, devs : Seq(Dev), of : SUBSET App]

LEMMA RowsFacts ==
  ASSUME NEW r
  PROVE  r \in Rows <=> IsRows(r)
<1>1. ASSUME r \in Rows PROVE IsRows(r)
  <2>1. PICK G \in SUBSET Group : r \in [G -> Seq(Dev)]
    BY <1>1 DEF Rows
  <2>2. DOMAIN r = G /\ IsFiniteSet(DOMAIN r)
    BY <1>1, <2>1 DEF Rows
  <2> QED BY <2>1, <2>2 DEF IsRows
<1>2. ASSUME IsRows(r) PROVE r \in Rows
  BY <1>2 DEF Rows, IsRows
<1> QED BY <1>1, <1>2

LEMMA TableFacts ==
  ASSUME NEW t
  PROVE  t \in Table <=> IsTable(t)
<1>1. ASSUME t \in Table PROVE IsTable(t)
  <2>1. t.devices \in SUBSET Dev /\ t.groups \in Rows
        /\ t = [devices |-> t.devices, groups |-> t.groups]
    BY <1>1 DEF Table
  <2> QED BY <2>1, RowsFacts DEF IsTable
<1>2. ASSUME IsTable(t) PROVE t \in Table
  <2>1. t = [devices |-> t.devices, groups |-> t.groups]
    BY <1>2 DEF IsTable
  <2>2. t.devices \in SUBSET Dev /\ t.groups \in Rows
    BY <1>2, RowsFacts DEF IsTable
  <2> QED BY <2>1, <2>2 DEF Table
<1> QED BY <1>1, <1>2

LEMMA AskFacts ==
  ASSUME NEW q \in Ask
  PROVE  /\ q.app \in App
         /\ q.cmd \in ListCmd \cup {"order_group"} \cup AckCmd
         /\ q.cmd \in {"add_group", "del_group", "rename_group", "sort_dev"} => q.group \in Group
         /\ q.cmd = "rename_group" => q.to \in Group
         /\ q.cmd = "sort_dev" => q.devs \in Seq(Dev)
         /\ q.cmd = "add_dev" => q.dev \in Dev
         /\ q.cmd = "del_dev" => q.devs \subseteq Dev
BY DEF Ask, ListCmd, AckCmd

LEMMA RepFacts ==
  ASSUME NEW r \in Rep
  PROVE  /\ r.cmd \in ListCmd \cup AckCmd
         /\ r.cmd \in ListCmd => r.app \in App
         /\ r.cmd = "dev_list" => r.devs \subseteq Dev
         /\ r.cmd = "group_list" => r.groups \in Rows
         /\ r.cmd \in AckCmd => /\ r.ok \in BOOLEAN
                                /\ r.request \in Ask /\ r.request.cmd = r.cmd
BY DEF Rep, Acks, ListCmd, AckCmd

LEMMA ListAsks ==
  ASSUME NEW a \in App
  PROVE  /\ [cmd |-> "dev_list", app |-> a] \in Ask
         /\ [cmd |-> "group_list", app |-> a] \in Ask
         /\ [cmd |-> "order_group", app |-> a] \in Ask
BY DEF Ask

LEMMA GroupAsks ==
  ASSUME currApp \in App, NEW g \in Group, NEW h \in Group
  PROVE  /\ requestAddGroup(g) \in Ask
         /\ requestDelGroup(g) \in Ask
         /\ requestRenameGroup(g, h) \in Ask
BY DEF Ask, requestAddGroup, requestDelGroup, requestRenameGroup

LEMMA SortAsk ==
  ASSUME currApp \in App, NEW g \in Group, NEW l \in Seq(Dev)
  PROVE  requestSortDevice(g, l) \in Ask
BY DEF Ask, requestSortDevice

LEMMA DevAsks ==
  ASSUME currApp \in App, NEW d \in Dev, NEW D \in SUBSET Dev
  PROVE  requestAddDevice(d) \in Ask /\ requestDelDevice(D) \in Ask
BY DEF Ask, requestAddDevice, requestDelDevice

LEMMA NewRows ==
  ASSUME NEW t \in Table, NEW g \in Group, NEW l \in Seq(Dev)
  PROVE  /\ Row(t, g, l) \in Table /\ WithoutRow(t, g) \in Table
         /\ Row(t, g, l).devices = t.devices /\ WithoutRow(t, g).devices = t.devices
         /\ DOMAIN Row(t, g, l).groups = DOMAIN t.groups \cup {g}
         /\ Row(t, g, l).groups[g] = l
         /\ \A h \in DOMAIN t.groups \ {g} : Row(t, g, l).groups[h] = t.groups[h]
         /\ DOMAIN WithoutRow(t, g).groups = DOMAIN t.groups \ {g}
         /\ \A h \in DOMAIN t.groups \ {g} : WithoutRow(t, g).groups[h] = t.groups[h]
<1>1. t.devices \in SUBSET Dev /\ t.groups \in Rows
      /\ t = [devices |-> t.devices, groups |-> t.groups]
  BY DEF Table
<1>2. IsRows(t.groups)
  BY <1>1, RowsFacts
<1>3. IsFiniteSet(DOMAIN t.groups \cup {g}) /\ IsFiniteSet(DOMAIN t.groups \ {g})
  BY <1>2, FS_AddElement, FS_RemoveElement DEF IsRows
<1>4. PICK r : r = [h \in DOMAIN t.groups \cup {g} |-> IF h = g THEN l ELSE t.groups[h]]
  OBVIOUS
<1>5. IsRows(r)
  BY <1>2, <1>3, <1>4 DEF IsRows
<1>6. PICK w : w = [h \in DOMAIN t.groups \ {g} |-> t.groups[h]]
  OBVIOUS
<1>7. IsRows(w)
  BY <1>2, <1>3, <1>6 DEF IsRows
<1>8. Row(t, g, l) = [devices |-> t.devices, groups |-> r]
  BY <1>1, <1>4 DEF Row
<1>9. WithoutRow(t, g) = [devices |-> t.devices, groups |-> w]
  BY <1>1, <1>6 DEF WithoutRow
<1>10. Row(t, g, l) \in Table /\ WithoutRow(t, g) \in Table
  BY <1>1, <1>5, <1>7, <1>8, <1>9, RowsFacts DEF Table
<1> QED BY <1>4, <1>6, <1>8, <1>9, <1>10

LEMMA NewDevices ==
  ASSUME NEW t \in Table, NEW D \in SUBSET Dev
  PROVE  /\ [t EXCEPT !.devices = D] \in Table
         /\ [t EXCEPT !.devices = D].devices = D
         /\ [t EXCEPT !.devices = D].groups = t.groups
BY DEF Table

LEMMA NewMember ==
  ASSUME currApp \in App, NEW g \in Group, NEW l \in Seq(Dev)
  PROVE  Node(g, l) \in GroupNode
BY DEF Node, GroupNode

-----------------------------------------------------------------------------
(***************************************************************************)
(* Where the lists come from: a list is known for an application if the    *)
(* application has or had all its devices or was sent a foreign list.      *)
(* Lists of the tables, on the channels and, while the copy is the current *)
(* application's, in the copy are known, as are the devices of the dialog  *)
(* for the application they were chosen from, and what the server confirms *)
(* is in stock.                                                            *)
(***************************************************************************)
Known(a, l) == Range(l) \subseteq stock[a] \/ a \in mixed

KnownAsk == {q \in Ask : q.cmd = "sort_dev" => Known(q.app, q.devs)}

KnownRep ==
  {r \in Rep :
     /\ r.cmd = "group_list" => \A g \in DOMAIN r.groups : Known(r.app, r.groups[g])
     /\ r.cmd = "sort_dev" => Known(r.request.app, r.request.devs)
     /\ r.cmd = "add_dev" /\ r.ok => r.request.dev \in stock[r.request.app]}

KnownTables ==
  \A a \in App : \A g \in DOMAIN tables[a].groups : Known(a, tables[a].groups[g])

KnownCopy ==
  ownLists => \A i \in DOMAIN groupList : /\ Known(currApp, groupList[i].devs)
                                          /\ Known(currApp, groupList[i].shown)

KnownDialog == \A a \in dialog.of : Known(a, dialog.devs)

Typed ==
  /\ tables \in [App -> Table]
  /\ currApp \in App /\ workDevs \subseteq Dev /\ groupList \in Seq(GroupNode)
  /\ dialog \in Dialog
  /\ faults \in 0..MaxFaults /\ actions \in 0..MaxActions
  /\ mixed \subseteq App /\ stock \in [App -> SUBSET Dev]
  /\ renamed \in BOOLEAN /\ hasty \in BOOLEAN /\ ownLists \in BOOLEAN

KInv ==
  /\ Typed
  /\ requests \in Seq(KnownAsk) /\ replies \in Seq(KnownRep)
  /\ KnownTables /\ KnownCopy /\ KnownDialog

LEMMA TypedIsTypeOK == Typed => TypeOK
<1> SUFFICES ASSUME Typed PROVE TypeOK
  OBVIOUS
<1>1. DOMAIN tables = App /\ \A a \in App : IsTable(tables[a])
  BY TableFacts DEF Typed
<1> QED BY <1>1 DEF Typed, TypeOK, GroupNode, Dialog

LEMMA KnownIsForeign == Typed /\ KnownTables => ForeignOnlyIfMixed
<1> SUFFICES ASSUME Typed, KnownTables, NEW a \in App
             PROVE  Lists(tables[a]) \subseteq stock[a] \/ a \in mixed
  BY DEF ForeignOnlyIfMixed
<1> QED BY DEF Lists, Known, KnownTables

\* What is known stays known while stock and mixed grow.
LEMMA StaysKnown ==
  ASSUME \A a \in App : stock[a] \subseteq stock'[a], mixed \subseteq mixed'
  PROVE  /\ \A a \in App : \A l : Known(a, l) => Known(a, l)'
         /\ Seq(KnownAsk) \subseteq Seq(KnownAsk') /\ Seq(KnownRep) \subseteq Seq(KnownRep')
         /\ KnownRep \subseteq KnownRep'
<1>1. \A a \in App : \A l : Known(a, l) => Known(a, l)'
  BY DEF Known
<1>2. KnownAsk \subseteq KnownAsk'
  <2> SUFFICES ASSUME NEW q \in KnownAsk PROVE q \in KnownAsk'
    OBVIOUS
  <2>1. q \in Ask /\ q.app \in App
    BY AskFacts DEF KnownAsk
  <2> QED BY <1>1, <2>1 DEF KnownAsk
<1>3. KnownRep \subseteq KnownRep'
  <2> SUFFICES ASSUME NEW r \in KnownRep PROVE r \in KnownRep'
    OBVIOUS
  <2>1. r \in Rep
    BY DEF KnownRep
  <2>2. r.cmd = "group_list" => r.app \in App
    BY <2>1, RepFacts DEF ListCmd
  <2>3. r.cmd \in {"sort_dev", "add_dev"} => r.request.app \in App
    BY <2>1, RepFacts, AskFacts DEF AckCmd
  <2> QED BY <1>1, <2>1, <2>2, <2>3 DEF KnownRep
<1> QED BY <1>1, <1>2, <1>3, SeqMonotonic

LEMMA PublishKnown ==
  ASSUME Typed, currApp' \in App, requests \in Seq(KnownAsk), stock' = stock,
         NEW own \in BOOLEAN, NEW msgs \in Seq(Ask), PublishFrom(own, msgs),
         \A i \in 1 .. Len(msgs) : msgs[i].cmd = "sort_dev" =>
           msgs[i].app = currApp /\ (own => Known(currApp, msgs[i].devs))
  PROVE  /\ requests' \in Seq(KnownAsk')
         /\ mixed \subseteq mixed' /\ mixed' \subseteq App /\ renamed' \in BOOLEAN
<1> DEFINE lists == {q \in Range(msgs) : q.cmd = "sort_dev"}
<1>1. /\ requests' = requests \o msgs
      /\ mixed' = IF lists # {} /\ ~own THEN mixed \cup {currApp} ELSE mixed
      /\ renamed' \in BOOLEAN
  BY DEF PublishFrom, Typed
<1>2. mixed \subseteq mixed' /\ mixed' \subseteq App
  BY <1>1 DEF Typed
<1>3. Len(msgs) \in Nat /\ \A i \in 1 .. Len(msgs) : msgs[i] \in Ask /\ msgs[i] \in Range(msgs)
  BY Ranged
<1>4. \A i \in 1 .. Len(msgs) : msgs[i] \in KnownAsk'
  <2> SUFFICES ASSUME NEW i \in 1 .. Len(msgs), msgs[i].cmd = "sort_dev"
               PROVE  Known(msgs[i].app, msgs[i].devs)'
    BY <1>3 DEF KnownAsk
  <2>1. msgs[i] \in lists
    BY <1>3
  <2>2. CASE own
    BY <1>2, <2>2 DEF Known
  <2>3. CASE ~own
    BY <1>1, <2>1, <2>3 DEF Known
  <2> QED BY <2>2, <2>3
<1>5. msgs \in Seq(KnownAsk')
  BY <1>3, <1>4, SeqDef
<1>6. requests \in Seq(KnownAsk')
  BY <1>2, StaysKnown
<1> QED BY <1>1, <1>2, <1>5, <1>6

-----------------------------------------------------------------------------
(* The server *)

LEMMA AnswerKnown ==
  ASSUME KInv, requests # <<>>, faults' \in 0..MaxFaults,
         NEW t \in Table, NEW r \in Rep, Answer(t, r),
         \A g \in DOMAIN t.groups : Known(Request.app, t.groups[g]),
         r.cmd = "group_list" => \A g \in DOMAIN r.groups : Known(r.app, r.groups[g]),
         r.cmd \in AckCmd => r.request = Request,
         stock' = [a \in App |-> stock[a] \cup Confirmed(a)],
         UNCHANGED <<clientVars, actions, hasty, renamed, ownLists, mixed>>
  PROVE  KInv'
<1>1. Typed /\ requests \in Seq(KnownAsk) /\ replies \in Seq(KnownRep)
  BY DEF KInv
<1>2. Request \in KnownAsk /\ Tail(requests) \in Seq(KnownAsk)
  BY <1>1, Tailed DEF Request
<1>3. Request \in Ask /\ Request.app \in App
  BY <1>2, AskFacts DEF KnownAsk
<1>4. /\ tables' = [tables EXCEPT ![Request.app] = t]
      /\ requests' = Tail(requests)
      /\ replies' = Append(replies, r)
  BY DEF Answer
<1>5. tables' \in [App -> Table]
  BY <1>1, <1>3, <1>4 DEF Typed
<1>6. replies \in Seq(Rep)
  BY <1>1, SeqMonotonic DEF KnownRep
<1>7. replies' \in Seq(Rep) /\ r \in Range(replies')
  <2>1. /\ Append(replies, r) \in Seq(Rep) /\ Len(replies) \in Nat
        /\ Len(Append(replies, r)) = Len(replies) + 1
        /\ Append(replies, r)[Len(replies) + 1] = r
    BY <1>6, Appended
  <2>2. /\ replies' \in Seq(Rep)
        /\ Len(replies) + 1 \in 1 .. Len(replies')
        /\ replies'[Len(replies) + 1] = r
    BY <1>4, <2>1
  <2>3. \A i \in 1 .. Len(replies') : replies'[i] \in Range(replies')
    BY <2>2, Ranged
  <2> QED BY <2>2, <2>3
<1>8. \A a \in App : Confirmed(a) \subseteq Dev
  <2> SUFFICES ASSUME NEW a \in App, NEW s \in Range(replies'), s.cmd = "add_dev"
               PROVE  s.request.dev \in Dev
    BY DEF Confirmed
  <2>1. s \in Rep
    BY <1>7, Ranged
  <2> QED BY <2>1, RepFacts, AskFacts DEF AckCmd
<1>9. stock' \in [App -> SUBSET Dev] /\ \A a \in App : stock[a] \subseteq stock'[a]
  BY <1>1, <1>8 DEF Typed
<1>10. mixed' = mixed
  OBVIOUS
<1>11. /\ \A a \in App : \A l : Known(a, l) => Known(a, l)'
       /\ Seq(KnownAsk) \subseteq Seq(KnownAsk') /\ Seq(KnownRep) \subseteq Seq(KnownRep')
  BY <1>9, <1>10, StaysKnown
<1>12. Typed'
  BY <1>1, <1>5, <1>9 DEF Typed, clientVars
<1>13. r \in KnownRep'
  <2>1. r.cmd = "group_list" => \A g \in DOMAIN r.groups : Known(r.app, r.groups[g])'
    BY <1>11, RepFacts DEF ListCmd
  <2>2. r.cmd = "sort_dev" => Known(r.request.app, r.request.devs)'
    <3> SUFFICES ASSUME r.cmd = "sort_dev" PROVE Known(r.request.app, r.request.devs)'
      OBVIOUS
    <3>1. r.request = Request /\ r.request.cmd = "sort_dev"
      BY RepFacts DEF AckCmd
    <3> QED BY <1>2, <1>3, <1>11, <3>1 DEF KnownAsk
  <2>3. r.cmd = "add_dev" /\ r.ok => r.request.dev \in stock'[r.request.app]
    <3> SUFFICES ASSUME r.cmd = "add_dev", r.ok PROVE r.request.dev \in stock'[r.request.app]
      OBVIOUS
    <3>1. r.request.app \in App
      BY <1>3 DEF AckCmd
    <3>2. r.request.dev \in Confirmed(r.request.app)
      BY <1>7 DEF Confirmed
    <3> QED BY <3>1, <3>2
  <2> QED BY <2>1, <2>2, <2>3 DEF KnownRep
<1>14. replies' \in Seq(KnownRep')
  BY <1>1, <1>4, <1>11, <1>13, Appended
<1>15. requests' \in Seq(KnownAsk')
  BY <1>2, <1>4, <1>11
<1>16. KnownTables'
  BY <1>1, <1>3, <1>4, <1>11 DEF KnownTables, KInv, Typed
<1>17. KnownCopy'
  <2>1. ownLists' = ownLists /\ groupList' = groupList /\ currApp' = currApp
    BY DEF clientVars
  <2> QED BY <1>1, <1>11, <2>1 DEF KnownCopy, KInv, Typed
<1>18. KnownDialog'
  <2>1. dialog' = dialog /\ dialog.of \subseteq App
    BY <1>1 DEF clientVars, Typed, Dialog
  <2> QED BY <1>11, <2>1 DEF KnownDialog, KInv
<1> QED BY <1>12, <1>14, <1>15, <1>16, <1>17, <1>18 DEF KInv

LEMMA RequestKnown ==
  ASSUME KInv, requests # <<>>
  PROVE  /\ Request \in Ask /\ Request \in KnownAsk /\ Request.app \in App
         /\ Stored \in Table /\ Stored.devices \subseteq Dev
         /\ \A g \in DOMAIN Stored.groups : Stored.groups[g] \in Seq(Dev)
         /\ \A g \in DOMAIN Stored.groups : Known(Request.app, Stored.groups[g])
         /\ \A ok \in BOOLEAN : Request.cmd \in AckCmd => Ack(ok) \in Rep
<1>1. Request \in KnownAsk
  BY Tailed DEF Request, KInv
<1>2. Request \in Ask /\ Request.app \in App
  BY <1>1, AskFacts DEF KnownAsk
<1>3. Stored \in Table
  BY <1>2 DEF Stored, KInv, Typed
<1>4. IsTable(Stored)
  BY <1>3, TableFacts
<1>5. \A g \in DOMAIN Stored.groups : Known(Request.app, Stored.groups[g])
  BY <1>2 DEF Stored, KInv, KnownTables
<1>6. \A ok \in BOOLEAN : Request.cmd \in AckCmd => Ack(ok) \in Rep
  BY <1>2 DEF Ack, Rep, Acks
<1> QED BY <1>1, <1>2, <1>3, <1>4, <1>5, <1>6 DEF IsTable, IsRows

LEMMA FaultsCounted ==
  ASSUME Typed, Succeed \/ Fail
  PROVE  faults' \in 0..MaxFaults
BY FaultsAssumption DEF Typed, Succeed, Fail

\* What a handler of the server stores and answers.
LEMMA ServerAnswers ==
  ASSUME KInv, CenterThread
  PROVE  \E t \in Table, r \in Rep :
           /\ requests # <<>> /\ faults' \in 0..MaxFaults /\ Answer(t, r)
           /\ \A g \in DOMAIN t.groups : Known(Request.app, t.groups[g])
           /\ r.cmd = "group_list" => \A g \in DOMAIN r.groups : Known(r.app, r.groups[g])
           /\ r.cmd \in AckCmd => r.request = Request
<1> DEFINE Good(t) == /\ t \in Table
                      /\ \A g \in DOMAIN t.groups : Known(Request.app, t.groups[g])
           Goal == \E t \in Table, r \in Rep :
                     /\ requests # <<>> /\ faults' \in 0..MaxFaults /\ Answer(t, r)
                     /\ \A g \in DOMAIN t.groups : Known(Request.app, t.groups[g])
                     /\ r.cmd = "group_list" =>
                          \A g \in DOMAIN r.groups : Known(r.app, r.groups[g])
                     /\ r.cmd \in AckCmd => r.request = Request
<1>1. requests # <<>>
  BY DEF CenterThread, Serving, dev_list, group_list, add_group, del_group, rename_group,
         sort_dev, add_dev, del_dev
<1>2. /\ Request \in Ask /\ Request \in KnownAsk /\ Request.app \in App
      /\ Good(Stored) /\ Stored.devices \subseteq Dev
      /\ \A g \in DOMAIN Stored.groups : Stored.groups[g] \in Seq(Dev)
      /\ \A ok \in BOOLEAN : Request.cmd \in AckCmd => Ack(ok) \in Rep
  BY <1>1, RequestKnown
<1>3. Succeed \/ Fail => faults' \in 0..MaxFaults
  BY FaultsCounted DEF KInv
<1>4. ASSUME NEW t, Good(t), NEW ok \in BOOLEAN, Request.cmd \in AckCmd, Succeed \/ Fail,
             Answer(t, Ack(ok))
      PROVE  Goal
  <2>1. Ack(ok) \in Rep /\ Ack(ok).cmd # "group_list" /\ Ack(ok).request = Request
    BY <1>2, <1>4 DEF Ack, AckCmd
  <2> QED BY <1>1, <1>3, <1>4, <2>1
<1>5. CASE dev_list
  <2>1. ASSUME NEW l \in SUBSET Dev PROVE DevListAck(l) \in Rep /\ DevListAck(l).cmd = "dev_list"
    BY <1>2 DEF DevListAck, Rep
  <2>2. PICK l \in SUBSET Dev : Answer(Stored, DevListAck(l)) /\ (Succeed \/ Fail)
    BY <1>2, <1>5 DEF dev_list
  <2> QED BY <1>1, <1>2, <1>3, <2>1, <2>2 DEF AckCmd
<1>6. CASE group_list
  <2>1. Stored.groups \in Rows
    BY <1>2 DEF Table
  <2>2. <<>> \in Rows
    <3>1. DOMAIN <<>> = {} /\ <<>> \in [{} -> Seq(Dev)]
      OBVIOUS
    <3> QED BY <3>1, FS_EmptySet DEF Rows
  <2>3. ASSUME NEW l \in Rows PROVE GroupListAck(l) \in Rep /\ GroupListAck(l).cmd = "group_list"
                                    /\ GroupListAck(l).app = Request.app /\ GroupListAck(l).groups = l
    BY <1>2 DEF GroupListAck, Rep
  <2>4. PICK l \in {Stored.groups, <<>>} : Answer(Stored, GroupListAck(l)) /\ (Succeed \/ Fail)
    BY <1>6 DEF group_list
  <2>5. l \in Rows /\ \A g \in DOMAIN l : Known(Request.app, l[g])
    <3>1. DOMAIN <<>> = {}
      OBVIOUS
    <3> QED BY <1>2, <2>1, <2>2, <2>4, <3>1
  <2> QED BY <1>1, <1>2, <1>3, <2>3, <2>4, <2>5 DEF AckCmd
<1>7. CASE add_group
  <2>1. Request.cmd = "add_group" /\ Request.group \in Group
    BY <1>2, <1>7, AskFacts DEF add_group, Serving, Request
  <2>2. Good(insertGroup(Stored, Request.group))
    <3>0. <<>> \in Seq(Dev) /\ Range(<<>>) = {}
      BY DEF Range
    <3>1. PICK l \in Seq(Dev) : l = <<>> /\ Range(l) = {}
      BY <3>0
    <3>a. Stored \in Table /\ Request.group \in Group
      BY <1>2, <2>1
    <3> DEFINE t == Row(Stored, Request.group, l)
    <3>2. /\ t \in Table /\ DOMAIN t.groups = DOMAIN Stored.groups \cup {Request.group}
          /\ t.groups[Request.group] = l
          /\ \A h \in DOMAIN Stored.groups \ {Request.group} : t.groups[h] = Stored.groups[h]
      BY <3>a, NewRows
    <3>3. Known(Request.app, l)
      BY <3>1 DEF Known
    <3> HIDE DEF t
    <3>4. Good(t)
      BY <1>2, <3>2, <3>3
    <3> QED BY <3>1, <3>4 DEF insertGroup, t
  <2> QED BY <1>2, <1>4, <1>7, <2>1, <2>2 DEF add_group, AckCmd
<1>8. CASE del_group
  <2>1. Request.cmd = "del_group" /\ Request.group \in Group
    BY <1>2, <1>8, AskFacts DEF del_group, Serving, Request
  <2>2. Good(delGroupNode(Stored, Request.group))
    <3> DEFINE t == WithoutRow(Stored, Request.group)
    <3>1. <<>> \in Seq(Dev)
      OBVIOUS
    <3>2. /\ t \in Table /\ DOMAIN t.groups = DOMAIN Stored.groups \ {Request.group}
          /\ \A h \in DOMAIN Stored.groups \ {Request.group} : t.groups[h] = Stored.groups[h]
      BY <1>2, <2>1, <3>1, NewRows
    <3> HIDE DEF t
    <3>3. Good(t)
      BY <1>2, <3>2
    <3> QED BY <3>3 DEF delGroupNode, t
  <2> QED BY <1>2, <1>4, <1>8, <2>1, <2>2 DEF del_group, AckCmd
<1>9. CASE rename_group
  <2>1. Request.cmd = "rename_group" /\ Request.group \in Group /\ Request.to \in Group
    BY <1>2, <1>9, AskFacts DEF rename_group, Serving, Request
  <2>2. Request.group \in DOMAIN Stored.groups =>
          Good(updateGroupName(Stored, Request.group, Request.to))
    <3> SUFFICES ASSUME Request.group \in DOMAIN Stored.groups
                 PROVE  Good(updateGroupName(Stored, Request.group, Request.to))
      OBVIOUS
    <3>1. <<>> \in Seq(Dev)
      OBVIOUS
    <3>2. Good(WithoutRow(Stored, Request.group))
      BY <1>2, <2>1, <3>1, NewRows
    <3>3. Stored.groups[Request.group] \in Seq(Dev)
          /\ Known(Request.app, Stored.groups[Request.group])
      BY <1>2
    <3>4. ASSUME NEW w, Good(w), NEW l \in Seq(Dev), Known(Request.app, l)
          PROVE  Good(Row(w, Request.to, l))
      <4>1. /\ Row(w, Request.to, l) \in Table
            /\ DOMAIN Row(w, Request.to, l).groups = DOMAIN w.groups \cup {Request.to}
            /\ Row(w, Request.to, l).groups[Request.to] = l
            /\ \A h \in DOMAIN w.groups \ {Request.to} :
                 Row(w, Request.to, l).groups[h] = w.groups[h]
        BY <2>1, <3>4, NewRows
      <4> QED BY <3>4, <4>1
    <3> QED BY <3>2, <3>3, <3>4 DEF updateGroupName
  <2> QED BY <1>2, <1>4, <1>9, <2>1, <2>2 DEF rename_group, AckCmd
<1>10. CASE sort_dev
  <2>1. Request.cmd = "sort_dev" /\ Request.group \in Group /\ Request.devs \in Seq(Dev)
    BY <1>2, <1>10, AskFacts DEF sort_dev, Serving, Request
  <2>2. Known(Request.app, Request.devs)
    BY <1>2, <2>1 DEF KnownAsk
  <2>3. Good(updateDevList(Stored, Request.group, Request.devs))
    BY <1>2, <2>1, <2>2, NewRows, SMTT(20) DEF updateDevList
  <2> QED BY <1>2, <1>4, <1>10, <2>1, <2>3 DEF sort_dev, AckCmd
<1>11. CASE add_dev
  <2>1. Request.cmd = "add_dev" /\ Request.dev \in Dev
    BY <1>2, <1>11, AskFacts DEF add_dev, Serving, Request
  <2>2. Good([Stored EXCEPT !.devices = @ \cup {Request.dev}])
    BY <1>2, <2>1, NewDevices
  <2> QED BY <1>2, <1>4, <1>11, <2>1, <2>2 DEF add_dev, AckCmd
<1>12. CASE del_dev
  <2>1. Request.cmd = "del_dev"
    BY <1>2, <1>12, AskFacts DEF del_dev, Serving, Request
  <2>2. ASSUME NEW D PROVE Good([Stored EXCEPT !.devices = @ \ D])
    BY <1>2, NewDevices
  <2> QED BY <1>2, <1>4, <1>12, <2>1, <2>2 DEF del_dev, AckCmd
<1> QED BY <1>5, <1>6, <1>7, <1>8, <1>9, <1>10, <1>11, <1>12 DEF CenterThread

LEMMA ServerKnown ==
  ASSUME KInv, Server
  PROVE  KInv'
<1>1. PICK t \in Table, r \in Rep :
           /\ requests # <<>> /\ faults' \in 0..MaxFaults /\ Answer(t, r)
           /\ \A g \in DOMAIN t.groups : Known(Request.app, t.groups[g])
           /\ r.cmd = "group_list" => \A g \in DOMAIN r.groups : Known(r.app, r.groups[g])
           /\ r.cmd \in AckCmd => r.request = Request
  BY ServerAnswers DEF Server
<1> QED BY <1>1, AnswerKnown DEF Server

-----------------------------------------------------------------------------
(* The list of groups *)

LEMMA LeastOf ==
  ASSUME NEW T \in SUBSET Nat, T # {}
  PROVE  \E m \in T : \A k \in T : m <= k
<1>1. PICK m \in T : \A k \in T : ~ (<<k, m>> \in OpToRel(<, Nat))
  BY WFMin, NatLessThanWellFounded
<1>2. \A k \in T : k \in Nat /\ m \in Nat /\ ~(k < m)
  BY <1>1 DEF OpToRel
<1>3. \A k \in T : m <= k
  BY <1>2
<1> QED BY <1>3

LEMMA CopyFacts ==
  ASSUME Typed
  PROVE  /\ DOMAIN groupList = 1 .. Len(groupList) /\ Len(groupList) \in Nat
         /\ \A i \in 1 .. Len(groupList) :
              /\ groupList[i] \in GroupNode /\ groupList[i].name \in Group
              /\ groupList[i].devs \in Seq(Dev) /\ groupList[i].shown \in Seq(Dev)
         /\ Names \subseteq Group
<1>1. DOMAIN groupList = 1 .. Len(groupList) /\ Len(groupList) \in Nat
      /\ \A i \in 1 .. Len(groupList) : groupList[i] \in GroupNode
  BY DEF Typed
<1> QED BY <1>1 DEF GroupNode, Names

LEMMA SearchFacts ==
  ASSUME Typed, NEW g \in Names
  PROVE  /\ searchGroupNode(g) \in 1 .. Len(groupList)
         /\ IsFirst(searchGroupNode(g), g)
         /\ groupList[searchGroupNode(g)].name = g
<1> DEFINE T == {i \in 1 .. Len(groupList) : groupList[i].name = g}
<1>1. DOMAIN groupList = 1 .. Len(groupList) /\ Len(groupList) \in Nat
  BY CopyFacts
<1>2. T \in SUBSET Nat /\ T # {}
  BY <1>1 DEF Names
<1>3. PICK m \in T : \A k \in T : m <= k
  BY <1>2, LeastOf
<1>4. \A j \in 1 .. (m - 1) : j \in 1 .. Len(groupList) /\ ~(m <= j)
  BY <1>1
<1>5. IsFirst(m, g) /\ m \in 1 .. Len(groupList)
  BY <1>3, <1>4 DEF IsFirst
<1>6. \E i \in DOMAIN groupList : IsFirst(i, g)
  BY <1>1, <1>5
<1>7. searchGroupNode(g) \in DOMAIN groupList /\ IsFirst(searchGroupNode(g), g)
  BY <1>6 DEF searchGroupNode
<1> QED BY <1>1, <1>7 DEF IsFirst

LEMMA ListedFacts ==
  ASSUME NEW S, IsFiniteSet(S)
  PROVE  /\ SetToSeq(S) \in Seq(S) /\ Len(SetToSeq(S)) = Cardinality(S)
         /\ Cardinality(S) \in Nat
         /\ \A i, j \in 1 .. Cardinality(S) : SetToSeq(S)[i] = SetToSeq(S)[j] => i = j
         /\ \A e \in S : \E i \in 1 .. Cardinality(S) : SetToSeq(S)[i] = e
<1> DEFINE n == Cardinality(S)
           f == SetToSeq(S)
<1>1. n \in Nat /\ \E g : g \in Bijection(1 .. n, S)
  BY FS_CardinalityType DEF ExistsBijection
<1>2. \E g \in [1 .. n -> S] : IsInjective(g)
  BY <1>1 DEF Bijection, Injection, IsInjective
<1>3. f \in [1 .. n -> S] /\ IsInjective(f)
  BY <1>2 DEF SetToSeq
<1>4. f \in Injection(1 .. n, S)
  BY <1>3 DEF Injection, IsInjective
<1>5. IsFiniteSet(1 .. n) /\ Cardinality(1 .. n) = n
  <2>1. IsFiniteSet(1 .. n) /\ Cardinality(1 .. n) = IF 1 > n THEN 0 ELSE n - 1 + 1
    BY <1>1, FS_Interval
  <2> QED BY <1>1, <2>1
<1>6. f \in Surjection(1 .. n, S)
  BY <1>4, <1>5, FS_Injection
<1>7. f \in Seq(S) /\ Len(f) = n
  BY <1>1, <1>3
<1>8. \A e \in S : \E i \in 1 .. n : f[i] = e
  BY <1>6 DEF Surjection
<1> QED BY <1>1, <1>3, <1>7, <1>8 DEF IsInjective

LEMMA RemovedAt ==
  ASSUME NEW S, NEW s \in Seq(S), NEW i \in 1 .. Len(s)
  PROVE  /\ RemoveAt(s, i) \in Seq(S) /\ Len(s) \in Nat
         /\ Len(RemoveAt(s, i)) = Len(s) - 1
         /\ \A j \in 1 .. Len(s) - 1 : RemoveAt(s, i)[j] = IF j < i THEN s[j] ELSE s[j + 1]
<1> DEFINE a == SubSeq(s, 1, i - 1)
           b == SubSeq(s, i + 1, Len(s))
<1>1. Len(s) \in Nat /\ i \in Nat
  OBVIOUS
<1>2. a \in Seq(S) /\ Len(a) = i - 1 /\ \A j \in 1 .. i - 1 : a[j] = s[j]
  OBVIOUS
<1>3. b \in Seq(S) /\ Len(b) = Len(s) - i /\ \A j \in 1 .. Len(s) - i : b[j] = s[i + j]
  <2>1. \A j \in i + 1 .. Len(s) : s[j] \in S
    BY <1>1
  <2>2. /\ b \in Seq(S)
        /\ Len(b) = IF i + 1 <= Len(s) THEN Len(s) - (i + 1) + 1 ELSE 0
        /\ \A j \in 1 .. Len(s) - (i + 1) + 1 : b[j] = s[(i + 1) + j - 1]
    BY <1>1, <2>1, SubSeqProperties
  <2> QED BY <1>1, <2>2
<1> HIDE DEF a, b
<1>4. /\ a \o b \in Seq(S) /\ Len(a \o b) = Len(s) - 1
      /\ \A j \in 1 .. i - 1 : (a \o b)[j] = s[j]
      /\ \A j \in 1 .. Len(s) - i : (a \o b)[i - 1 + j] = s[i + j]
  <2>1. /\ a \o b \in Seq(S) /\ Len(a \o b) = Len(a) + Len(b)
        /\ \A j \in 1 .. Len(a) : (a \o b)[j] = a[j]
        /\ \A j \in 1 .. Len(b) : (a \o b)[Len(a) + j] = b[j]
    <3>1. a \in Seq(S) /\ b \in Seq(S)
      BY <1>2, <1>3
    <3> QED BY <3>1
  <2>2. Len(a \o b) = Len(s) - 1
    BY <1>1, <1>2, <1>3, <2>1
  <2>3. \A j \in 1 .. i - 1 : (a \o b)[j] = s[j]
    BY <1>2, <2>1
  <2>4. \A j \in 1 .. Len(s) - i : (a \o b)[i - 1 + j] = s[i + j]
    BY <1>2, <1>3, <2>1
  <2> QED BY <2>1, <2>2, <2>3, <2>4
<1>5. \A j \in i .. Len(s) - 1 : j + 1 - i \in 1 .. Len(s) - i
                                 /\ i - 1 + (j + 1 - i) = j /\ i + (j + 1 - i) = j + 1
  BY <1>1
<1>6. \A j \in i .. Len(s) - 1 : (a \o b)[j] = s[j + 1]
  BY <1>4, <1>5
<1>7. RemoveAt(s, i) = a \o b
  BY DEF RemoveAt, a, b
<1>8. \A j \in 1 .. Len(s) - 1 : IF j < i THEN j \in 1 .. i - 1 ELSE j \in i .. Len(s) - 1
  BY <1>1
<1> QED BY <1>1, <1>4, <1>6, <1>7, <1>8

-----------------------------------------------------------------------------
(* The app *)

\* What a step of the app leaves of the channel and of the history.
Sent ==
  /\ requests' \in Seq(KnownAsk')
  /\ mixed \subseteq mixed' /\ mixed' \subseteq App /\ renamed' \in BOOLEAN

LEMMA DialogKnown ==
  ASSUME KInv, UNCHANGED <<tables, stock>>, Sent,
         faults' \in 0..MaxFaults, actions' \in 0..MaxActions,
         hasty' \in BOOLEAN, ownLists' \in BOOLEAN,
         currApp' \in App, workDevs' \subseteq Dev, groupList' \in Seq(GroupNode),
         ownLists' => /\ currApp' = currApp
                      /\ \/ currApp \in mixed'
                         \/ \A i \in 1 .. Len(groupList') :
                              Known(currApp, groupList'[i].devs) /\ Known(currApp, groupList'[i].shown),
         dialog' \in Dialog, \A a \in dialog'.of : Known(a, dialog'.devs),
         replies' = replies \/ (replies # <<>> /\ replies' = Tail(replies))
  PROVE  KInv'
<1>1. Typed /\ replies \in Seq(KnownRep) /\ KnownTables
  BY DEF KInv
<1>2. mixed \subseteq mixed' /\ stock' = stock
  BY DEF Sent
<1>3. /\ \A a \in App : \A l : Known(a, l) => Known(a, l)'
      /\ Seq(KnownRep) \subseteq Seq(KnownRep')
  BY <1>2, StaysKnown
<1>4. Typed'
  BY <1>1 DEF Typed, Sent
<1>5. replies' \in Seq(KnownRep')
  BY <1>1, <1>3, Tailed
<1>6. KnownTables'
  BY <1>1, <1>3 DEF KnownTables
<1>7. KnownCopy'
  <2>1. DOMAIN groupList' = 1 .. Len(groupList')
    OBVIOUS
  <2>2. CASE currApp \in mixed'
    BY <2>2 DEF KnownCopy, Known
  <2>3. CASE currApp \notin mixed'
    BY <1>1, <1>3, <2>1, <2>3 DEF KnownCopy, Typed
  <2> QED BY <2>2, <2>3
<1>8. KnownDialog'
  <2>1. dialog'.of \subseteq App
    BY DEF Dialog
  <2> QED BY <1>3, <2>1 DEF KnownDialog
<1> QED BY <1>4, <1>5, <1>6, <1>7, <1>8 DEF KInv, Sent

LEMMA DialogFacts ==
  ASSUME KInv
  PROVE  /\ dialog \in Dialog /\ dialog.src \in Group /\ dialog.devs \in Seq(Dev)
         /\ dialog.of \subseteq App /\ \A a \in dialog.of : Known(a, dialog.devs)
BY DEF KInv, Typed, Dialog, KnownDialog

LEMMA ClientKnown ==
  ASSUME KInv, UNCHANGED <<tables, stock, dialog>>, Sent,
         faults' \in 0..MaxFaults, actions' \in 0..MaxActions,
         hasty' \in BOOLEAN, ownLists' \in BOOLEAN,
         currApp' \in App, workDevs' \subseteq Dev, groupList' \in Seq(GroupNode),
         ownLists' => /\ currApp' = currApp
                      /\ \A i \in 1 .. Len(groupList') : /\ Known(currApp, groupList'[i].devs)
                                                         /\ Known(currApp, groupList'[i].shown),
         replies' = replies \/ (replies # <<>> /\ replies' = Tail(replies))
  PROVE  KInv'
<1>1. dialog' \in Dialog /\ \A a \in dialog'.of : Known(a, dialog'.devs)
  BY DialogFacts
<1> QED BY <1>1, DialogKnown

\* The hypotheses of the former two, for an answer and the request it repeats.
LEMMA ReplyKnown ==
  ASSUME KInv, replies # <<>>
  PROVE  /\ Reply \in Rep /\ Reply \in KnownRep
         /\ Reply.cmd = "dev_list" => Reply.devs \subseteq Dev
         /\ Reply.cmd = "group_list" =>
              /\ Reply.app \in App /\ Reply.groups \in Rows
              /\ \A g \in DOMAIN Reply.groups : Known(Reply.app, Reply.groups[g])
         /\ Reply.cmd \in AckCmd => /\ Reply.ok \in BOOLEAN
                                    /\ Reply.request \in Ask /\ Reply.request.cmd = Reply.cmd
<1>1. Reply \in KnownRep
  BY Tailed DEF Reply, KInv
<1>2. Reply \in Rep
  BY <1>1 DEF KnownRep
<1> QED BY <1>1, <1>2, RepFacts DEF KnownRep, ListCmd

LEMMA QuietlySent ==
  ASSUME KInv, UNCHANGED <<stock, mixed, renamed>>,
         requests' = requests \/ \E q \in Ask : q.cmd # "sort_dev" /\ requests' = Append(requests, q)
  PROVE  Sent
<1>1. requests \in Seq(KnownAsk) /\ Typed
  BY DEF KInv
<1>2. Seq(KnownAsk) \subseteq Seq(KnownAsk')
  BY StaysKnown
<1>3. ASSUME NEW q \in Ask, q.cmd # "sort_dev" PROVE Append(requests, q) \in Seq(KnownAsk)
  BY <1>1, <1>3, Appended DEF KnownAsk
<1> QED BY <1>1, <1>2, <1>3 DEF Sent, Typed

LEMMA SentFrom ==
  ASSUME KInv, UNCHANGED <<stock, currApp>>,
         NEW own \in BOOLEAN, NEW msgs \in Seq(Ask), PublishFrom(own, msgs),
         \A i \in 1 .. Len(msgs) : msgs[i].cmd = "sort_dev" =>
           msgs[i].app = currApp /\ (own => Known(currApp, msgs[i].devs))
  PROVE  Sent
<1>1. Typed /\ requests \in Seq(KnownAsk) /\ currApp' \in App
  BY DEF KInv, Typed
<1> QED BY <1>1, PublishKnown DEF Sent

LEMMA LoudlySent ==
  ASSUME KInv, UNCHANGED <<stock, currApp>>, ownLists' \in BOOLEAN,
         NEW msgs \in Seq(Ask), Publish(msgs),
         \A i \in 1 .. Len(msgs) : msgs[i].cmd = "sort_dev" =>
           msgs[i].app = currApp /\ (ownLists' => Known(currApp, msgs[i].devs))
  PROVE  Sent
<1>1. PICK own \in BOOLEAN : own = ownLists'
  OBVIOUS
<1>2. PublishFrom(own, msgs)
  BY <1>1 DEF Publish
<1> QED BY <1>1, <1>2, SentFrom

\* The copy of the current application's lists, as ClientKnown needs it.
LEMMA CopyKnown ==
  ASSUME KInv, ownLists, NEW i \in 1 .. Len(groupList)
  PROVE  Known(currApp, groupList[i].devs) /\ Known(currApp, groupList[i].shown)
<1>1. i \in DOMAIN groupList
  BY CopyFacts DEF KInv
<1> QED BY <1>1 DEF KInv, KnownCopy

LEMMA SmallerKnown ==
  ASSUME NEW a, NEW l, NEW m, Known(a, l), Range(m) \subseteq Range(l)
  PROVE  Known(a, m)
BY DEF Known

LEMMA DevListStep ==
  ASSUME KInv, onDevList
  PROVE  KInv'
<1>1. Typed /\ replies # <<>> /\ replies' = Tail(replies) /\ Reply.cmd = "dev_list"
  BY DEF KInv, onDevList, Receiving, Reply
<1>2. workDevs' \subseteq Dev
  BY <1>1, ReplyKnown DEF onDevList
<1>3. requestGroupList \in Ask /\ requestGroupList.cmd # "sort_dev"
  BY <1>1, ListAsks DEF requestGroupList, Typed
<1>4. Sent
  <2> DEFINE msgs == <<requestGroupList>>
  <2>1. Publish(msgs) /\ UNCHANGED <<stock, currApp>> /\ ownLists' \in BOOLEAN
    BY <1>1 DEF onDevList, Unhandled, Typed
  <2>2. msgs \in Seq(Ask) /\ \A i \in 1 .. Len(msgs) : msgs[i].cmd # "sort_dev"
    BY <1>3, Short
  <2> HIDE DEF msgs
  <2> QED BY <2>1, <2>2, LoudlySent
<1>5. UNCHANGED <<tables, stock, faults, actions, hasty, dialog, currApp, ownLists, groupList>>
  BY DEF onDevList, Unhandled
<1> QED BY <1>1, <1>2, <1>4, <1>5, ClientKnown, CopyKnown DEF Typed

LEMMA GroupListStep ==
  ASSUME KInv, onGroupList
  PROVE  KInv'
<1>1. Typed /\ replies # <<>> /\ replies' = Tail(replies) /\ Reply.cmd = "group_list"
  BY DEF KInv, onGroupList, Receiving, Reply
<1>2. /\ Reply.app \in App /\ Reply.groups \in Rows
      /\ \A g \in DOMAIN Reply.groups : Known(Reply.app, Reply.groups[g])
  BY <1>1, ReplyKnown
<1> DEFINE names == SetToSeq(DOMAIN Reply.groups)
<1>3. IsRows(Reply.groups)
  BY <1>2, RowsFacts
<1>4. names \in Seq(DOMAIN Reply.groups) /\ Len(names) \in Nat
  BY <1>3, ListedFacts DEF IsRows
<1>5. /\ DOMAIN names = 1 .. Len(names)
      /\ \A i \in 1 .. Len(names) : names[i] \in DOMAIN Reply.groups
  BY <1>4
<1>6. /\ groupList' = [i \in DOMAIN names |-> Node(names[i], Reply.groups[names[i]])]
      /\ ownLists' = (Reply.app = currApp)
      /\ Publish(IF All \in DOMAIN Reply.groups THEN <<>> ELSE <<requestAddGroup(All)>>)
      /\ UNCHANGED <<workDevs, Unhandled>>
  BY DEF onGroupList
<1> HIDE DEF names
<1>7. \A i \in 1 .. Len(names) :
        /\ groupList'[i] = Node(names[i], Reply.groups[names[i]])
        /\ groupList'[i] \in GroupNode
        /\ groupList'[i].devs = Reply.groups[names[i]]
        /\ groupList'[i].shown = Reply.groups[names[i]]
  <2> SUFFICES ASSUME NEW i \in 1 .. Len(names)
               PROVE  /\ groupList'[i] = Node(names[i], Reply.groups[names[i]])
                      /\ groupList'[i] \in GroupNode
                      /\ groupList'[i].devs = Reply.groups[names[i]]
                      /\ groupList'[i].shown = Reply.groups[names[i]]
    OBVIOUS
  <2>1. names[i] \in Group /\ Reply.groups[names[i]] \in Seq(Dev)
    BY <1>3, <1>5 DEF IsRows
  <2>2. groupList'[i] = Node(names[i], Reply.groups[names[i]])
    BY <1>5, <1>6
  <2> QED BY <2>1, <2>2 DEF Node, GroupNode
<1>8. groupList' \in Seq(GroupNode) /\ Len(groupList') = Len(names)
  BY <1>4, <1>5, <1>6, <1>7
<1>9. ownLists' => \A i \in 1 .. Len(groupList') : /\ Known(currApp, groupList'[i].devs)
                                                   /\ Known(currApp, groupList'[i].shown)
  BY <1>2, <1>5, <1>6, <1>7, <1>8
<1> DEFINE msgs == IF All \in DOMAIN Reply.groups THEN <<>> ELSE <<requestAddGroup(All)>>
<1>10. msgs \in Seq(Ask) /\ \A i \in 1 .. Len(msgs) : msgs[i].cmd # "sort_dev"
  <2>1. requestAddGroup(All) \in Ask /\ requestAddGroup(All).cmd # "sort_dev"
    BY <1>1, GroupAsks, GroupAssumption DEF requestAddGroup, Typed
  <2>2. CASE All \in DOMAIN Reply.groups
    BY <2>2, Short
  <2>3. CASE All \notin DOMAIN Reply.groups
    BY <2>1, <2>3, Short
  <2> QED BY <2>2, <2>3
<1>11. UNCHANGED <<tables, stock, faults, actions, hasty, dialog, currApp>>
  BY <1>6 DEF Unhandled
<1>12. Sent
  <2>1. Publish(msgs) /\ ownLists' \in BOOLEAN
    BY <1>6
  <2> HIDE DEF msgs
  <2> QED BY <2>1, <1>10, <1>11, LoudlySent
<1> QED BY <1>1, <1>6, <1>8, <1>9, <1>11, <1>12, ClientKnown DEF Typed

LEMMA AddGroupStep ==
  ASSUME KInv, onAddGroup
  PROVE  KInv'
<1>1. Typed /\ replies # <<>> /\ replies' = Tail(replies) /\ Reply.cmd = "add_group"
  BY DEF KInv, onAddGroup, Receiving, Reply
<1>2. Reply.request.group \in Group
  BY <1>1, ReplyKnown, AskFacts DEF AckCmd
<1> DEFINE n == Node(Reply.request.group, <<>>)
<1>3. n \in GroupNode /\ n.devs = <<>> /\ n.shown = <<>>
  BY <1>2, Short DEF Node, GroupNode
<1>4. groupList' = IF Reply.ok THEN Append(groupList, n) ELSE groupList
  BY DEF onAddGroup
<1> HIDE DEF n
<1>5. groupList \in Seq(GroupNode)
  BY <1>1 DEF Typed
<1>6. UNCHANGED <<requests, workDevs, ownLists, mixed, renamed, tables, faults, actions,
                  currApp, hasty, dialog, stock>>
  BY DEF onAddGroup, Unhandled
<1>7. Sent
  BY <1>6, QuietlySent
<1>8. Known(currApp, n.devs) /\ Known(currApp, n.shown)
  <2>1. Range(<<>>) = {}
    BY DEF Range
  <2> QED BY <1>3, <2>1 DEF Known
<1>9. groupList' \in Seq(GroupNode)
  BY <1>3, <1>4, <1>5, Appended
<1>10. ownLists => \A i \in 1 .. Len(groupList') : /\ Known(currApp, groupList'[i].devs)
                                                   /\ Known(currApp, groupList'[i].shown)
  <2>1. ASSUME ownLists, NEW i \in 1 .. Len(groupList')
        PROVE  groupList'[i] = n \/ (i \in 1 .. Len(groupList) /\ groupList'[i] = groupList[i])
    <3>1. CASE Reply.ok
      <4>1. /\ groupList' = Append(groupList, n) /\ Len(groupList) \in Nat
            /\ Len(groupList') = Len(groupList) + 1
            /\ groupList'[Len(groupList) + 1] = n
            /\ \A j \in 1 .. Len(groupList) : groupList'[j] = groupList[j]
        BY <1>4, <1>5, <3>1, Appended
      <4>2. i = Len(groupList) + 1 \/ i \in 1 .. Len(groupList)
        BY <4>1
      <4> QED BY <4>1, <4>2
    <3>2. CASE ~Reply.ok
      BY <1>4, <3>2
    <3> QED BY <3>1, <3>2
  <2> QED BY <1>8, <2>1, CopyKnown
<1> QED BY <1>1, <1>6, <1>7, <1>9, <1>10, ClientKnown DEF Typed

LEMMA RenameGroupStep ==
  ASSUME KInv, onRenameGroup
  PROVE  KInv'
<1>1. Typed /\ replies # <<>> /\ replies' = Tail(replies) /\ Reply.cmd = "rename_group"
  BY DEF KInv, onRenameGroup, Receiving, Reply
<1>2. Reply.request.to \in Group
  BY <1>1, ReplyKnown, AskFacts DEF AckCmd
<1>3. UNCHANGED <<requests, workDevs, ownLists, mixed, renamed, tables, faults, actions,
                  currApp, hasty, dialog, stock>>
  BY DEF onRenameGroup, Unhandled
<1>4. Sent
  BY <1>3, QuietlySent
<1>5. DOMAIN groupList = 1 .. Len(groupList) /\ Len(groupList) \in Nat
      /\ \A i \in 1 .. Len(groupList) : groupList[i] \in GroupNode
  BY <1>1, CopyFacts
<1>6. /\ groupList' = [i \in 1 .. Len(groupList) |-> groupList'[i]]
      /\ \A i \in 1 .. Len(groupList) :
           /\ groupList'[i] \in GroupNode
           /\ groupList'[i].devs = groupList[i].devs /\ groupList'[i].shown = groupList[i].shown
  BY <1>2, <1>5 DEF onRenameGroup, GroupNode
<1>7. groupList' \in Seq(GroupNode) /\ Len(groupList') = Len(groupList)
  BY <1>5, <1>6
<1> QED BY <1>1, <1>3, <1>4, <1>6, <1>7, ClientKnown, CopyKnown DEF Typed

LEMMA DelGroupStep ==
  ASSUME KInv, onDelGroup
  PROVE  KInv'
<1>1. Typed /\ replies # <<>> /\ replies' = Tail(replies) /\ groupList \in Seq(GroupNode)
  BY DEF KInv, onDelGroup, Receiving, Typed
<1>2. UNCHANGED <<requests, workDevs, ownLists, mixed, renamed, tables, faults, actions,
                  currApp, hasty, dialog, stock>>
  BY DEF onDelGroup, Unhandled
<1>3. Sent
  BY <1>2, QuietlySent
<1>4. CASE groupList' = groupList
  BY <1>1, <1>2, <1>3, <1>4, ClientKnown, CopyKnown DEF Typed
<1>5. CASE /\ Reply.request.group \in Names
           /\ groupList' = RemoveAt(groupList, searchGroupNode(Reply.request.group))
  <2>1. searchGroupNode(Reply.request.group) \in 1 .. Len(groupList)
    BY <1>1, <1>5, SearchFacts
  <2>2. PICK k \in 1 .. Len(groupList) : groupList' = RemoveAt(groupList, k)
    BY <1>5, <2>1
  <2>3. /\ groupList' \in Seq(GroupNode) /\ Len(groupList') = Len(groupList) - 1
        /\ Len(groupList) \in Nat
        /\ \A i \in 1 .. Len(groupList) - 1 :
             groupList'[i] = IF i < k THEN groupList[i] ELSE groupList[i + 1]
    BY <1>1, <2>2, RemovedAt
  <2>4. \A i \in 1 .. Len(groupList') : \E j \in 1 .. Len(groupList) : groupList'[i] = groupList[j]
    BY <2>3
  <2>5. ownLists => \A i \in 1 .. Len(groupList') : /\ Known(currApp, groupList'[i].devs)
                                                    /\ Known(currApp, groupList'[i].shown)
    BY <2>4, CopyKnown
  <2> QED BY <1>1, <1>2, <1>3, <2>3, <2>5, ClientKnown DEF Typed
<1> QED BY <1>4, <1>5 DEF onDelGroup

LEMMA SortDevStep ==
  ASSUME KInv, onSortDev
  PROVE  KInv'
<1>1. Typed /\ replies # <<>> /\ replies' = Tail(replies) /\ Reply.cmd = "sort_dev"
  BY DEF KInv, onSortDev, Receiving, Reply
<1> DEFINE l == Reply.request.devs
<1>2. l \in Seq(Dev)
  BY <1>1, ReplyKnown, AskFacts DEF AckCmd
<1>3. ownLists' => Known(currApp, l)
  BY <1>1, ReplyKnown DEF KnownRep, onSortDev
<1>4. UNCHANGED <<requests, workDevs, mixed, renamed, tables, faults, actions, currApp,
                  hasty, dialog, stock>>
  BY DEF onSortDev, Unhandled
<1>5. Sent
  BY <1>4, QuietlySent
<1>6. /\ DOMAIN groupList = 1 .. Len(groupList) /\ Len(groupList) \in Nat
      /\ \A i \in 1 .. Len(groupList) : /\ groupList[i] \in GroupNode
                                        /\ groupList[i].devs \in Seq(Dev)
                                        /\ groupList[i].shown \in Seq(Dev)
  BY <1>1, CopyFacts
<1>7. ownLists' = (ownLists /\ Reply.request.app = currApp)
      /\ groupList' =
           [i \in DOMAIN groupList |->
              LET n == groupList[i] IN
                [n EXCEPT !.shown = IF n.name = Reply.request.group THEN l ELSE @,
                          !.devs = IF IsFirst(i, Reply.request.group) THEN l ELSE @]]
  BY DEF onSortDev
<1> HIDE DEF l
<1>8. /\ DOMAIN groupList' = 1 .. Len(groupList)
      /\ \A i \in 1 .. Len(groupList) :
           /\ groupList'[i] \in GroupNode
           /\ groupList'[i].devs \in {groupList[i].devs, l}
           /\ groupList'[i].shown \in {groupList[i].shown, l}
  BY <1>2, <1>6, <1>7 DEF GroupNode
<1>9. groupList' \in Seq(GroupNode) /\ Len(groupList') = Len(groupList)
  <2>1. groupList' = [i \in 1 .. Len(groupList) |-> groupList'[i]]
    BY <1>6, <1>7
  <2> QED BY <1>6, <1>8, <2>1
<1>10. ownLists' => \A i \in 1 .. Len(groupList') : /\ Known(currApp, groupList'[i].devs)
                                                    /\ Known(currApp, groupList'[i].shown)
  BY <1>3, <1>7, <1>8, <1>9, CopyKnown
<1>11. ownLists' \in BOOLEAN
  BY <1>7
<1> QED BY <1>1, <1>4, <1>5, <1>9, <1>10, <1>11, ClientKnown DEF Typed

LEMMA AddDevStep ==
  ASSUME KInv, onAddDev
  PROVE  KInv'
<1>1. Typed /\ replies # <<>> /\ replies' = Tail(replies) /\ Reply.cmd = "add_dev"
  BY DEF KInv, onAddDev, Receiving, Reply
<1> DEFINE d == Reply.request.dev
<1>2. d \in Dev /\ Reply.ok \in BOOLEAN
  BY <1>1, ReplyKnown, AskFacts DEF AckCmd
<1>3. ownLists' /\ Reply.ok => d \in stock[currApp]
  BY <1>1, ReplyKnown DEF KnownRep, onAddDev
<1>4. UNCHANGED <<tables, faults, actions, currApp, hasty, dialog, stock>>
  BY DEF onAddDev, Unhandled
<1>5. /\ DOMAIN groupList = 1 .. Len(groupList) /\ Len(groupList) \in Nat
      /\ \A i \in 1 .. Len(groupList) : /\ groupList[i] \in GroupNode
                                        /\ groupList[i].devs \in Seq(Dev)
                                        /\ groupList[i].shown \in Seq(Dev)
  BY <1>1, CopyFacts
<1>6. /\ ownLists' = (ownLists /\ (Reply.ok => Reply.request.app = currApp))
      /\ workDevs' = IF Reply.ok THEN workDevs \cup {d} ELSE workDevs
      /\ groupList' = IF Reply.ok THEN Extended(d) ELSE groupList
      /\ Publish(IF Reply.ok /\ All \in Names
                 THEN <<requestSortDevice(All, groupList'[searchGroupNode(All)].devs)>>
                 ELSE <<>>)
  BY DEF onAddDev
<1> HIDE DEF d
<1>7. ASSUME NEW s \in Seq(Dev)
      PROVE  /\ Append(s, d) \in Seq(Dev)
             /\ Known(currApp, s) /\ d \in stock[currApp] => Known(currApp, Append(s, d))
  <2>1. Append(s, d) \in Seq(Dev) /\ Range(Append(s, d)) \subseteq Range(s) \cup {d}
    BY <1>2 DEF Range
  <2> QED BY <2>1 DEF Known
<1>8. ASSUME NEW i \in 1 .. Len(groupList), Reply.ok
      PROVE  /\ groupList'[i] \in GroupNode
             /\ groupList'[i].devs \in {groupList[i].devs, Append(groupList[i].devs, d)}
             /\ groupList'[i].shown \in {groupList[i].shown, Append(groupList[i].shown, d)}
  BY <1>5, <1>6, <1>7, <1>8 DEF Extended, GroupNode
<1>9. groupList' \in Seq(GroupNode) /\ Len(groupList') = Len(groupList)
  <2>1. CASE Reply.ok
    <3>1. groupList' = [i \in 1 .. Len(groupList) |-> groupList'[i]]
      BY <1>5, <1>6, <2>1 DEF Extended
    <3> QED BY <1>5, <1>8, <2>1, <3>1
  <2>2. CASE ~Reply.ok
    BY <1>1, <1>6, <2>2 DEF Typed
  <2> QED BY <2>1, <2>2
<1>10. ownLists' => \A i \in 1 .. Len(groupList') : /\ Known(currApp, groupList'[i].devs)
                                                    /\ Known(currApp, groupList'[i].shown)
  <2> SUFFICES ASSUME ownLists', NEW i \in 1 .. Len(groupList)
               PROVE  Known(currApp, groupList'[i].devs) /\ Known(currApp, groupList'[i].shown)
    BY <1>9
  <2>1. Known(currApp, groupList[i].devs) /\ Known(currApp, groupList[i].shown)
    BY <1>6, CopyKnown
  <2>2. CASE Reply.ok
    BY <1>3, <1>5, <1>7, <1>8, <2>1, <2>2
  <2>3. CASE ~Reply.ok
    BY <1>6, <2>1, <2>3
  <2> QED BY <2>2, <2>3
<1> DEFINE q == requestSortDevice(All, groupList'[searchGroupNode(All)].devs)
           msgs == IF Reply.ok /\ All \in Names THEN <<q>> ELSE <<>>
<1>11. All \in Names => /\ q \in Ask /\ q.app = currApp
                        /\ ownLists' => Known(currApp, q.devs)
  <2> SUFFICES ASSUME All \in Names
               PROVE  q \in Ask /\ q.app = currApp /\ (ownLists' => Known(currApp, q.devs))
    OBVIOUS
  <2>1. PICK k \in 1 .. Len(groupList') : k = searchGroupNode(All)
    BY <1>1, <1>9, SearchFacts
  <2>2. groupList'[k] \in GroupNode
    BY <1>9
  <2>3. groupList'[k].devs \in Seq(Dev)
    BY <2>2 DEF GroupNode
  <2>4. q = requestSortDevice(All, groupList'[k].devs)
    BY <2>1
  <2> HIDE DEF q
  <2>5. q \in Ask
    BY <1>1, <2>3, <2>4, SortAsk, GroupAssumption DEF Typed
  <2>6. q.app = currApp /\ q.devs = groupList'[k].devs
    BY <2>4 DEF requestSortDevice
  <2> QED BY <1>10, <2>5, <2>6
<1>12. Publish(msgs)
  BY <1>6
<1> HIDE DEF q
<1>13. msgs \in Seq(Ask) /\ \A i \in 1 .. Len(msgs) : All \in Names /\ msgs[i] = q
  <2>1. CASE Reply.ok /\ All \in Names
    BY <1>11, <2>1, Short
  <2>2. CASE ~(Reply.ok /\ All \in Names)
    BY <2>2, Short
  <2> QED BY <2>1, <2>2
<1> HIDE DEF msgs
<1>14. ownLists' \in BOOLEAN /\ workDevs' \subseteq Dev
  BY <1>1, <1>2, <1>6 DEF Typed
<1>15. Sent
  BY <1>4, <1>11, <1>12, <1>13, <1>14, LoudlySent
<1>16. ownLists' => currApp' = currApp
  BY <1>4
<1> QED BY <1>1, <1>4, <1>9, <1>10, <1>14, <1>15, ClientKnown DEF Typed

LEMMA DelDevStep ==
  ASSUME KInv, onDelDev
  PROVE  KInv'
<1>1. Typed /\ replies # <<>> /\ replies' = Tail(replies)
  BY DEF KInv, onDelDev, Receiving
<1> DEFINE D == Reply.request.devs
<1>2. UNCHANGED <<tables, faults, actions, currApp, hasty, dialog, stock, ownLists>>
  BY DEF onDelDev, Unhandled
<1>3. /\ DOMAIN groupList = 1 .. Len(groupList) /\ Len(groupList) \in Nat
      /\ \A i \in 1 .. Len(groupList) : /\ groupList[i] \in GroupNode
                                        /\ groupList[i].name \in Group
                                        /\ groupList[i].devs \in Seq(Dev)
                                        /\ groupList[i].shown \in Seq(Dev)
  BY <1>1, CopyFacts
<1> DEFINE msgs == [i \in DOMAIN groupList |->
                      requestSortDevice(groupList[i].name, groupList'[i].shown)]
<1>4. /\ workDevs' = workDevs \ D
      /\ groupList' = [i \in DOMAIN groupList |->
                         [groupList[i] EXCEPT !.shown = RemoveAll(@, D)]]
      /\ Publish(msgs)
  BY DEF onDelDev
<1> HIDE DEF D
<1>5. \A i \in 1 .. Len(groupList) :
        /\ RemoveAll(groupList[i].shown, D) \in Seq(Dev)
        /\ Range(RemoveAll(groupList[i].shown, D)) \subseteq Range(groupList[i].shown)
  BY <1>3, RemoveAllType
<1>6. \A i \in 1 .. Len(groupList) :
        /\ groupList'[i] \in GroupNode
        /\ groupList'[i].devs = groupList[i].devs
        /\ groupList'[i].shown = RemoveAll(groupList[i].shown, D)
  BY <1>3, <1>4, <1>5 DEF GroupNode
<1>7. groupList' \in Seq(GroupNode) /\ Len(groupList') = Len(groupList)
  <2>1. groupList' = [i \in 1 .. Len(groupList) |-> groupList'[i]]
    BY <1>3, <1>4
  <2> QED BY <1>3, <1>6, <2>1
<1>8. ownLists => \A i \in 1 .. Len(groupList) : /\ Known(currApp, groupList'[i].devs)
                                                 /\ Known(currApp, groupList'[i].shown)
  <2> SUFFICES ASSUME ownLists, NEW i \in 1 .. Len(groupList)
               PROVE  Known(currApp, groupList'[i].devs) /\ Known(currApp, groupList'[i].shown)
    OBVIOUS
  <2>1. Known(currApp, groupList[i].devs) /\ Known(currApp, groupList[i].shown)
    BY CopyKnown
  <2> QED BY <1>5, <1>6, <2>1, SmallerKnown
<1>9. \A i \in 1 .. Len(groupList) :
        /\ msgs[i] \in Ask /\ msgs[i].app = currApp
        /\ msgs[i].devs = groupList'[i].shown
  <2> SUFFICES ASSUME NEW i \in 1 .. Len(groupList)
               PROVE  /\ msgs[i] \in Ask /\ msgs[i].app = currApp
                      /\ msgs[i].devs = groupList'[i].shown
    OBVIOUS
  <2>1. groupList[i].name \in Group /\ groupList'[i].shown \in Seq(Dev)
    BY <1>3, <1>5, <1>6
  <2>2. msgs[i] = requestSortDevice(groupList[i].name, groupList'[i].shown)
    BY <1>3
  <2> HIDE DEF msgs
  <2>3. msgs[i] \in Ask
    BY <1>1, <2>1, <2>2, SortAsk DEF Typed
  <2> QED BY <2>2, <2>3 DEF requestSortDevice
<1>10. msgs = [i \in 1 .. Len(groupList) |-> msgs[i]]
  BY <1>3
<1> HIDE DEF msgs
<1>11. msgs \in Seq(Ask) /\ Len(msgs) = Len(groupList)
  BY <1>3, <1>9, <1>10
<1>12. Sent
  <2>1. \A i \in 1 .. Len(msgs) : msgs[i].app = currApp /\ (ownLists' => Known(currApp, msgs[i].devs))
    BY <1>2, <1>8, <1>9, <1>11
  <2>2. ownLists' \in BOOLEAN
    BY <1>1, <1>2 DEF Typed
  <2> QED BY <1>2, <1>4, <1>11, <2>1, <2>2, LoudlySent
<1>13. workDevs' \subseteq Dev
  BY <1>1, <1>4 DEF Typed
<1> QED BY <1>1, <1>2, <1>7, <1>8, <1>12, <1>13, ClientKnown DEF Typed

-----------------------------------------------------------------------------
(* The user *)

\* What all the steps of the user leave alone, but for the order of haste and bounds.
Aside ==
  /\ actions' \in 0..MaxActions /\ hasty' \in BOOLEAN
  /\ UNCHANGED <<tables, replies, faults, workDevs, stock>>

LEMMA UserIsAside ==
  ASSUME KInv, User
  PROVE  Aside
BY ActionsAssumption DEF KInv, Typed, User, Sending, Looking, Aside

LEMMA QuietUser ==
  ASSUME KInv, Aside, UNCHANGED <<groupList, dialog, renamed, mixed>>,
         \E q \in Ask : q.cmd # "sort_dev" /\ requests' = Append(requests, q),
         currApp' \in App, ownLists' \in BOOLEAN, ownLists' => ownLists /\ currApp' = currApp
  PROVE  KInv'
<1>1. Typed
  BY DEF KInv
<1>2. Sent
  BY QuietlySent DEF Aside
<1>3. ownLists' => \A i \in 1 .. Len(groupList') : /\ Known(currApp, groupList'[i].devs)
                                                   /\ Known(currApp, groupList'[i].shown)
  BY CopyKnown
<1> QED BY <1>1, <1>2, <1>3, ClientKnown DEF Typed, Aside

\* Only lists and the dialog change, and they hold what the copy held.
LEMMA SilentUser ==
  ASSUME KInv, Aside, UNCHANGED <<requests, currApp, ownLists, renamed, mixed>>,
         groupList' \in Seq(GroupNode),
         ownLists => \A i \in 1 .. Len(groupList') : /\ Known(currApp, groupList'[i].devs)
                                                     /\ Known(currApp, groupList'[i].shown),
         dialog' \in Dialog, \A a \in dialog'.of : Known(a, dialog'.devs)
  PROVE  KInv'
<1>1. Typed
  BY DEF KInv
<1>2. Sent
  BY QuietlySent DEF Aside
<1> QED BY <1>1, <1>2, DialogKnown DEF Typed, Aside

LEMMA LoudUser ==
  ASSUME KInv, Aside, UNCHANGED <<currApp, ownLists>>,
         NEW own \in BOOLEAN, NEW msgs \in Seq(Ask), PublishFrom(own, msgs),
         \A i \in 1 .. Len(msgs) : msgs[i].cmd = "sort_dev" =>
           msgs[i].app = currApp /\ (own => Known(currApp, msgs[i].devs)),
         groupList' \in Seq(GroupNode),
         ownLists => \/ currApp \in mixed'
                     \/ \A i \in 1 .. Len(groupList') :
                          Known(currApp, groupList'[i].devs) /\ Known(currApp, groupList'[i].shown),
         dialog' \in {dialog, Closed}
  PROVE  KInv'
<1>1. Typed
  BY DEF KInv
<1>2. Sent
  BY SentFrom DEF Aside
<1>3. dialog' \in Dialog /\ \A a \in dialog'.of : Known(a, dialog'.devs)
  <2>1. Closed \in Dialog /\ Closed.of = {}
    BY GroupAssumption, Short DEF Closed, Dialog
  <2> QED BY <2>1, DialogFacts
<1> QED BY <1>1, <1>2, <1>3, DialogKnown DEF Typed, Aside

\* One node of the copy is replaced by one with the same devices.
LEMMA NodeKnown ==
  ASSUME KInv, NEW i \in 1 .. Len(groupList), NEW n \in GroupNode,
         groupList' = [groupList EXCEPT ![i] = n],
         n.devs = groupList[i].devs, Range(n.shown) = Range(groupList[i].shown)
  PROVE  /\ groupList' \in Seq(GroupNode)
         /\ ownLists => \A h \in 1 .. Len(groupList') : /\ Known(currApp, groupList'[h].devs)
                                                        /\ Known(currApp, groupList'[h].shown)
<1>1. DOMAIN groupList = 1 .. Len(groupList) /\ groupList \in Seq(GroupNode)
  BY CopyFacts DEF KInv, Typed
<1>2. /\ groupList' \in Seq(GroupNode) /\ Len(groupList') = Len(groupList)
      /\ groupList'[i] = n
      /\ \A h \in 1 .. Len(groupList) : h # i => groupList'[h] = groupList[h]
  BY <1>1
<1>3. ASSUME ownLists, NEW h \in 1 .. Len(groupList)
      PROVE  Known(currApp, groupList'[h].devs) /\ Known(currApp, groupList'[h].shown)
  <2>1. Known(currApp, groupList[h].devs) /\ Known(currApp, groupList[h].shown)
    BY <1>3, CopyKnown
  <2>2. CASE h = i
    BY <1>2, <2>1, <2>2 DEF Known
  <2>3. CASE h # i
    BY <1>2, <2>1, <2>3
  <2> QED BY <2>2, <2>3
<1> QED BY <1>2, <1>3

LEMMA SortDevicesStep ==
  ASSUME KInv, Aside, NEW i \in DOMAIN groupList, SortDevices(i)
  PROVE  KInv'
<1>1. Typed
  BY DEF KInv
<1>2. /\ i \in 1 .. Len(groupList) /\ groupList[i].name \in Group
      /\ groupList[i] \in GroupNode /\ groupList[i].shown \in Seq(Dev)
  BY <1>1, CopyFacts
<1> DEFINE n == [groupList[i] EXCEPT !.dragged = FALSE]
           q == requestSortDevice(groupList[i].name, groupList[i].shown)
           msgs == <<q>>
<1>3. n \in GroupNode /\ n.devs = groupList[i].devs /\ n.shown = groupList[i].shown
  BY <1>2 DEF GroupNode
<1>4. groupList' = [groupList EXCEPT ![i] = n] /\ Publish(msgs)
      /\ UNCHANGED <<currApp, dialog, ownLists>>
  BY DEF SortDevices
<1>5. /\ groupList' \in Seq(GroupNode)
      /\ ownLists => \A h \in 1 .. Len(groupList') : /\ Known(currApp, groupList'[h].devs)
                                                     /\ Known(currApp, groupList'[h].shown)
  <2> HIDE DEF n
  <2> QED BY <1>2, <1>3, <1>4, NodeKnown
<1>6. q \in Ask
  BY <1>1, <1>2, SortAsk DEF Typed
<1>7. q.app = currApp /\ q.devs = groupList[i].shown
  BY DEF requestSortDevice
<1> HIDE DEF q
<1>8. msgs \in Seq(Ask) /\ \A h \in 1 .. Len(msgs) : msgs[h] = q
  BY <1>6, Short
<1>9. ownLists => Known(currApp, groupList[i].shown)
  BY <1>2, CopyKnown
<1> HIDE DEF msgs, n
<1>10. PICK own \in BOOLEAN : own = ownLists
  BY <1>1 DEF Typed
<1>11. PublishFrom(own, msgs)
  BY <1>4, <1>10 DEF Publish
<1> QED BY <1>4, <1>5, <1>7, <1>8, <1>9, <1>10, <1>11, LoudUser

LEMMA DragDeviceStep ==
  ASSUME KInv, Aside, NEW i \in DOMAIN groupList, DragDevice(i)
  PROVE  KInv'
<1>1. i \in 1 .. Len(groupList) /\ groupList[i] \in GroupNode /\ groupList[i].shown \in Seq(Dev)
  BY CopyFacts DEF KInv
<1>2. PICK j \in DOMAIN groupList[i].shown, k \in DOMAIN groupList[i].shown :
        groupList' = [groupList EXCEPT ![i].shown = Moved(@, j, k), ![i].dragged = TRUE]
  BY DEF DragDevice
<1> DEFINE l == Moved(groupList[i].shown, j, k)
           n == [groupList[i] EXCEPT !.shown = l, !.dragged = TRUE]
<1>3. l \in Seq(Dev) /\ Range(l) = Range(groupList[i].shown)
  BY <1>1, MovedFacts
<1>4. groupList' = [groupList EXCEPT ![i] = n]
  BY <1>1, <1>2
<1> HIDE DEF l
<1>5. n \in GroupNode /\ n.devs = groupList[i].devs /\ n.shown = l
  BY <1>1, <1>3 DEF GroupNode
<1> HIDE DEF n
<1>6. /\ groupList' \in Seq(GroupNode)
      /\ ownLists => \A h \in 1 .. Len(groupList') : /\ Known(currApp, groupList'[h].devs)
                                                     /\ Known(currApp, groupList'[h].shown)
  BY <1>1, <1>3, <1>4, <1>5, NodeKnown
<1>7. UNCHANGED <<requests, currApp, dialog, ownLists, renamed, mixed>>
  BY DEF DragDevice
<1> QED BY <1>6, <1>7, SilentUser, DialogFacts

LEMMA MoveDialogStep ==
  ASSUME KInv, Aside,
         CloseMoveDialog \/ \E i \in DOMAIN groupList : \E D : OpenMoveDialog(i, D)
  PROVE  KInv'
<1>1. Typed
  BY DEF KInv
<1>2. UNCHANGED <<requests, currApp, groupList, ownLists, renamed, mixed>>
  BY DEF CloseMoveDialog, OpenMoveDialog
<1>3. dialog' \in Dialog /\ \A a \in dialog'.of : Known(a, dialog'.devs)
  <2>1. CASE CloseMoveDialog
    <3>1. Closed \in Dialog /\ Closed.of = {}
      BY GroupAssumption, Short DEF Closed, Dialog
    <3> QED BY <2>1, <3>1 DEF CloseMoveDialog
  <2>2. ASSUME NEW i \in DOMAIN groupList, NEW D, OpenMoveDialog(i, D)
        PROVE  dialog' \in Dialog /\ \A a \in dialog'.of : Known(a, dialog'.devs)
    <3> DEFINE l == Chosen(groupList[i].shown, D)
               o == IF ownLists THEN {currApp} ELSE {}
    <3>1. i \in 1 .. Len(groupList) /\ groupList[i].name \in Group /\ groupList[i].shown \in Seq(Dev)
      BY <1>1, CopyFacts
    <3>2. l \in Seq(Dev) /\ Range(l) \subseteq Range(groupList[i].shown)
      BY <3>1, ChosenType
    <3>3. dialog' = [src |-> groupList[i].name, devs |-> l, of |-> o]
      BY <2>2 DEF OpenMoveDialog
    <3>4. o \subseteq App /\ \A a \in o : ownLists /\ a = currApp
      BY <1>1 DEF Typed
    <3> HIDE DEF l, o
    <3>5. \A a \in o : Known(a, l)
      BY <3>1, <3>2, <3>4, CopyKnown, SmallerKnown
    <3> QED BY <3>1, <3>2, <3>3, <3>4, <3>5 DEF Dialog
  <2> QED BY <2>1, <2>2
<1>4. /\ groupList' \in Seq(GroupNode)
      /\ ownLists => \A i \in 1 .. Len(groupList') : /\ Known(currApp, groupList'[i].devs)
                                                     /\ Known(currApp, groupList'[i].shown)
  BY <1>1, <1>2, CopyKnown DEF Typed
<1> QED BY <1>2, <1>3, <1>4, SilentUser

LEMMA MoveDevicesStep ==
  ASSUME KInv, Aside, NEW h \in Group, MoveDevices(h)
  PROVE  KInv'
<1>1. Typed
  BY DEF KInv
<1>2. /\ DOMAIN groupList = 1 .. Len(groupList) /\ Len(groupList) \in Nat
      /\ groupList \in Seq(GroupNode)
      /\ \A j \in 1 .. Len(groupList) : /\ groupList[j] \in GroupNode
                                        /\ groupList[j].name \in Group
                                        /\ groupList[j].devs \in Seq(Dev)
                                        /\ groupList[j].shown \in Seq(Dev)
  BY <1>1, CopyFacts DEF Typed
<1> DEFINE g == dialog.src
           src == searchGroupNode(g)
           dst == searchGroupNode(h)
           left == IF g = All THEN groupList[src].devs
                              ELSE RemoveAll(groupList[src].devs, Range(dialog.devs))
           gained == IF h = All THEN groupList[dst].devs
                                ELSE AppendNew(groupList[dst].devs, dialog.devs)
           out == IF g = All THEN <<>> ELSE <<requestSortDevice(g, left)>>
           in == IF h = All THEN <<>> ELSE <<requestSortDevice(h, gained)>>
           msgs == out \o in
           own == ownLists /\ currApp \in dialog.of
<1>3. /\ g \in Names /\ h \in Names \ {g}
      /\ groupList' = [groupList EXCEPT ![src].devs = left, ![dst].devs = gained]
      /\ dialog' = Closed
      /\ UNCHANGED <<currApp, ownLists>>
      /\ PublishFrom(own, msgs)
  BY DEF MoveDevices
<1>4. g \in Group /\ dialog.devs \in Seq(Dev)
  BY DialogFacts
<1>4a. own \in BOOLEAN /\ (own => ownLists) /\ (own => Known(currApp, dialog.devs))
  BY <1>1, DialogFacts DEF Typed
<1> HIDE DEF own
<1>5. src \in 1 .. Len(groupList) /\ dst \in 1 .. Len(groupList) /\ src # dst
  BY <1>1, <1>3, <1>4, SearchFacts
<1> HIDE DEF src, dst
<1>6. left \in Seq(Dev) /\ Range(left) \subseteq Range(groupList[src].devs)
  BY <1>2, <1>5, RemoveAllType
<1>7. gained \in Seq(Dev)
      /\ Range(gained) \subseteq Range(groupList[dst].devs) \cup Range(dialog.devs)
  <2>1. groupList[dst].devs \in Seq(Dev)
    BY <1>2, <1>5
  <2>2. CASE h = All
    BY <2>1, <2>2
  <2>3. CASE h # All
    BY <1>4, <2>1, <2>3, AppendNewType
  <2> QED BY <2>2, <2>3
<1>8. own => Known(currApp, left) /\ Known(currApp, gained)
  <2>1. own => Known(currApp, groupList[src].devs) /\ Known(currApp, groupList[dst].devs)
    BY <1>4a, <1>5, CopyKnown
  <2> QED BY <1>4a, <1>6, <1>7, <2>1 DEF Known
<1> HIDE DEF left, gained
<1>9. /\ groupList' \in Seq(GroupNode) /\ Len(groupList') = Len(groupList)
      /\ \A j \in 1 .. Len(groupList) :
           /\ groupList'[j].devs \in {groupList[j].devs, left, gained}
           /\ groupList'[j].shown = groupList[j].shown
  <2> DEFINE With(n, l) == [n EXCEPT !.devs = l]
  <2>1. \A j \in 1 .. Len(groupList) : \A l \in Seq(Dev) :
          /\ With(groupList[j], l) \in GroupNode
          /\ With(groupList[j], l).devs = l
          /\ With(groupList[j], l).shown = groupList[j].shown
    BY <1>2 DEF GroupNode
  <2>2. groupList' = [groupList EXCEPT ![src] = With(groupList[src], left),
                                       ![dst] = With(groupList[dst], gained)]
    BY <1>2, <1>3, <1>5
  <2> HIDE DEF With
  <2>3. /\ DOMAIN groupList' = 1 .. Len(groupList)
        /\ groupList' = [j \in 1 .. Len(groupList) |-> groupList'[j]]
        /\ groupList'[src] = With(groupList[src], left)
        /\ groupList'[dst] = With(groupList[dst], gained)
        /\ \A j \in 1 .. Len(groupList) : j # src /\ j # dst => groupList'[j] = groupList[j]
    BY <1>2, <1>5, <2>2
  <2>4. \A j \in 1 .. Len(groupList) :
          /\ groupList'[j] \in GroupNode
          /\ groupList'[j].devs \in {groupList[j].devs, left, gained}
          /\ groupList'[j].shown = groupList[j].shown
    <3>1. left \in Seq(Dev) /\ gained \in Seq(Dev)
      BY <1>6, <1>7
    <3> SUFFICES ASSUME NEW j \in 1 .. Len(groupList)
                 PROVE  /\ groupList'[j] \in GroupNode
                        /\ groupList'[j].devs \in {groupList[j].devs, left, gained}
                        /\ groupList'[j].shown = groupList[j].shown
      OBVIOUS
    <3>2. CASE j = src
      BY <1>5, <2>1, <2>3, <3>1, <3>2
    <3>3. CASE j = dst
      BY <1>5, <2>1, <2>3, <3>1, <3>3
    <3>4. CASE j # src /\ j # dst
      BY <1>2, <2>3, <3>4
    <3> QED BY <3>2, <3>3, <3>4
  <2> QED BY <1>2, <2>3, <2>4
<1>10. own => \A j \in 1 .. Len(groupList') : /\ Known(currApp, groupList'[j].devs)
                                              /\ Known(currApp, groupList'[j].shown)
  BY <1>4a, <1>8, <1>9, CopyKnown
<1>11. /\ requestSortDevice(g, left) \in Ask /\ requestSortDevice(h, gained) \in Ask
       /\ requestSortDevice(g, left).app = currApp /\ requestSortDevice(h, gained).app = currApp
       /\ requestSortDevice(g, left).devs = left /\ requestSortDevice(h, gained).devs = gained
       /\ requestSortDevice(g, left).cmd = "sort_dev"
       /\ requestSortDevice(h, gained).cmd = "sort_dev"
  <2>1. requestSortDevice(g, left) \in Ask /\ requestSortDevice(h, gained) \in Ask
    BY <1>1, <1>4, <1>6, <1>7, SortAsk DEF Typed
  <2> QED BY <2>1 DEF requestSortDevice
<1> DEFINE Fit(q) == q.cmd = "sort_dev" /\ q.app = currApp /\ (own => Known(currApp, q.devs))
<1>12. out \in Seq(Ask) /\ \A j \in 1 .. Len(out) : Fit(out[j])
  <2>1. CASE g = All
    BY <2>1, Short
  <2>2. CASE g # All
    BY <1>8, <1>11, <2>2, Short
  <2> QED BY <2>1, <2>2
<1>13. in \in Seq(Ask) /\ \A j \in 1 .. Len(in) : Fit(in[j])
  <2>1. CASE h = All
    BY <2>1, Short
  <2>2. CASE h # All
    BY <1>8, <1>11, <2>2, Short
  <2> QED BY <2>1, <2>2
<1> HIDE DEF out, in
<1>14. msgs \in Seq(Ask) /\ \A j \in 1 .. Len(msgs) : Fit(msgs[j])
  <2>1. /\ out \o in \in Seq(Ask) /\ Len(out) \in Nat /\ Len(in) \in Nat
        /\ Len(out \o in) = Len(out) + Len(in)
        /\ \A j \in 1 .. Len(out) : (out \o in)[j] = out[j]
        /\ \A j \in 1 .. Len(in) : (out \o in)[Len(out) + j] = in[j]
    BY <1>12, <1>13, Joined
  <2> SUFFICES ASSUME NEW j \in 1 .. Len(msgs) PROVE Fit(msgs[j])
    BY <2>1
  <2>2. CASE j \in 1 .. Len(out)
    BY <1>12, <2>1, <2>2
  <2>3. CASE j \notin 1 .. Len(out)
    <3>1. j - Len(out) \in 1 .. Len(in) /\ Len(out) + (j - Len(out)) = j
      BY <2>1, <2>3
    <3>2. msgs[j] = in[j - Len(out)]
      BY <2>1, <3>1
    <3> QED BY <1>13, <3>1, <3>2
  <2> QED BY <2>2, <2>3
<1>15. msgs \in Seq(Ask) /\ Len(msgs) # 0
  <2>1. Len(out \o in) = Len(out) + Len(in) /\ Len(out) \in Nat /\ Len(in) \in Nat
    BY <1>12, <1>13, Joined
  <2>2. g # All => Len(out) = 1
    BY DEF out
  <2>3. h # All => Len(in) = 1
    BY DEF in
  <2> QED BY <1>3, <1>14, <2>1, <2>2, <2>3
<1>16. PublishFrom(own, msgs)
  BY <1>3
<1> HIDE DEF msgs
<1>17. own \/ currApp \in mixed'
  <2>1. Len(msgs) \in Nat /\ 1 \in 1 .. Len(msgs)
    BY <1>15
  <2>2. msgs[1] \in Range(msgs) /\ msgs[1].cmd = "sort_dev"
    BY <1>14, <1>15, <2>1, Ranged
  <2> QED BY <1>16, <2>2 DEF PublishFrom
<1> QED BY <1>3, <1>4a, <1>9, <1>10, <1>14, <1>15, <1>16, <1>17, LoudUser

LEMMA UserStep ==
  ASSUME KInv, User
  PROVE  KInv'
<1>1. Typed /\ Aside
  BY UserIsAside DEF KInv
<1>2. ASSUME NEW a \in App, SelectApp(a) PROVE KInv'
  BY <1>1, <1>2, QuietUser, ListAsks DEF SelectApp
<1>3. ASSUME NEW q \in Ask, q.cmd # "sort_dev", Publish(<<q>>),
             UNCHANGED <<currApp, groupList, dialog, ownLists>>
      PROVE  KInv'
  <2> DEFINE msgs == <<q>>
  <2>1. msgs \in Seq(Ask) /\ (\A i \in 1 .. Len(msgs) : msgs[i].cmd # "sort_dev") /\ Publish(msgs)
    BY <1>3, Short
  <2>2. /\ groupList' \in Seq(GroupNode)
        /\ ownLists => \A i \in 1 .. Len(groupList') : /\ Known(currApp, groupList'[i].devs)
                                                       /\ Known(currApp, groupList'[i].shown)
    BY <1>1, <1>3, CopyKnown DEF Typed
  <2> HIDE DEF msgs
  <2>3. PICK own \in BOOLEAN : own = ownLists'
    BY <1>1, <1>3 DEF Typed
  <2>4. PublishFrom(own, msgs)
    BY <2>1, <2>3 DEF Publish
  <2> QED BY <1>1, <1>3, <2>1, <2>2, <2>4, LoudUser
<1>4. ASSUME NEW d \in Dev, AddDevice(d) PROVE KInv'
  <2>1. requestAddDevice(d) \in Ask /\ requestAddDevice(d).cmd # "sort_dev"
    BY <1>1, DevAsks DEF requestAddDevice, Typed
  <2> QED BY <1>3, <1>4, <2>1 DEF AddDevice
<1>5. ASSUME NEW i \in DOMAIN groupList, NEW D \in SUBSET Range(groupList[i].shown),
             DelDevices(i, D)
      PROVE  KInv'
  <2>1. D \subseteq Dev
    BY <1>1, CopyFacts, Ranged
  <2>2. requestDelDevice(D) \in Ask
    BY <1>1, <2>1 DEF requestDelDevice, Ask, Typed
  <2>3. requestDelDevice(D).cmd # "sort_dev"
    BY DEF requestDelDevice
  <2> QED BY <1>3, <1>5, <2>2, <2>3 DEF DelDevices
<1>6. ASSUME EditGroups PROVE KInv'
  <2>1. \E q \in Ask : q.cmd # "sort_dev" /\ requests' = Append(requests, q)
    <3>1. requestOrderGroup \in Ask /\ requestOrderGroup.cmd # "sort_dev"
      BY <1>1, ListAsks DEF requestOrderGroup, Typed
    <3>2. \A g, h \in Group :
            /\ requestAddGroup(g) \in Ask /\ requestAddGroup(g).cmd # "sort_dev"
            /\ requestDelGroup(g) \in Ask /\ requestDelGroup(g).cmd # "sort_dev"
            /\ requestRenameGroup(g, h) \in Ask /\ requestRenameGroup(g, h).cmd # "sort_dev"
      BY <1>1, GroupAsks DEF requestAddGroup, requestDelGroup, requestRenameGroup, Typed
    <3> QED BY <1>6, <3>1, <3>2 DEF EditGroups
  <2> QED BY <1>1, <1>6, <2>1, QuietUser DEF EditGroups, Typed
<1>7. ASSUME NEW i \in DOMAIN groupList, SortDevices(i) \/ DragDevice(i) PROVE KInv'
  BY <1>1, <1>7, SortDevicesStep, DragDeviceStep
<1>8. ASSUME NEW h \in Group, MoveDevices(h) PROVE KInv'
  BY <1>1, <1>8, MoveDevicesStep
<1>9. ASSUME CloseMoveDialog \/ \E i \in DOMAIN groupList : \E D : OpenMoveDialog(i, D)
      PROVE  KInv'
  BY <1>1, <1>9, MoveDialogStep
<1>10. CASE Sending
  BY <1>2, <1>4, <1>5, <1>6, <1>7, <1>8, <1>10 DEF Sending
<1>11. CASE Looking
  BY <1>7, <1>9, <1>11 DEF Looking
<1> QED BY <1>10, <1>11 DEF User

LEMMA LossStep ==
  ASSUME KInv, LoseRequest \/ LoseReply
  PROVE  KInv'
<1>1. Typed /\ requests \in Seq(KnownAsk) /\ faults' \in 0..MaxFaults
  BY FaultsCounted DEF KInv, LoseRequest, LoseReply
<1>2. UNCHANGED <<tables, currApp, workDevs, groupList, dialog, actions, hasty, renamed,
                  stock, ownLists, mixed>>
  BY DEF LoseRequest, LoseReply, clientVars, history
<1>3. requests' \in Seq(KnownAsk)
  BY <1>1, Tailed DEF LoseRequest, LoseReply
<1>4. Sent
  BY <1>1, <1>2, <1>3, StaysKnown DEF Sent, Typed
<1>5. replies' = replies \/ (replies # <<>> /\ replies' = Tail(replies))
  BY DEF LoseRequest, LoseReply
<1> QED BY <1>1, <1>2, <1>4, <1>5, ClientKnown, CopyKnown DEF Typed

LEMMA KInit == Init => KInv
<1> SUFFICES ASSUME Init PROVE KInv
  OBVIOUS
<1>1. tables \in [App -> InitialTables]
  BY DEF Init
<1>2. \A t \in InitialTables : t \in Table /\ Orderly(t)
  BY TablesAssumption, TableFacts
<1>3. tables \in [App -> Table]
  BY <1>1, <1>2
<1>4. \A a \in App : tables[a].devices \subseteq Dev
  BY <1>3 DEF Table
<1>5. Typed
  <2>1. stock \in [App -> SUBSET Dev]
    BY <1>4 DEF Init
  <2>2. faults \in 0..MaxFaults /\ actions \in 0..MaxActions
    BY FaultsAssumption, ActionsAssumption DEF Init
  <2>3. groupList \in Seq(GroupNode)
    BY Short DEF Init
  <2>4. dialog \in Dialog
    BY GroupAssumption, Short DEF Init, Closed, Dialog
  <2> QED BY <1>3, <2>1, <2>2, <2>3, <2>4 DEF Init, Typed
<1>6. requests \in Seq(KnownAsk) /\ replies \in Seq(KnownRep)
  BY <1>5, ListAsks, Short DEF Init, KnownAsk, Typed
<1>7. KnownTables
  BY <1>1, <1>2 DEF Init, KnownTables, Known, Orderly
<1>8. KnownCopy /\ KnownDialog
  BY DEF KnownCopy, KnownDialog, Init, Closed
<1> QED BY <1>5, <1>6, <1>7, <1>8 DEF KInv

LEMMA KNext ==
  ASSUME KInv, [Next]_vars
  PROVE  KInv'
<1>1. ASSUME User PROVE KInv'
  BY <1>1, UserStep
<1>2. ASSUME CenterRecv PROVE KInv'
  BY <1>2, DevListStep, GroupListStep, AddGroupStep, RenameGroupStep, DelGroupStep,
     AddDevStep, DelDevStep, SortDevStep DEF CenterRecv
<1>3. ASSUME Server PROVE KInv'
  BY <1>3, ServerKnown
<1>4. ASSUME LoseRequest \/ LoseReply PROVE KInv'
  BY <1>4, LossStep
<1>5. ASSUME UNCHANGED vars PROVE KInv'
  <2>1. UNCHANGED <<tables, requests, replies, faults, currApp, workDevs, groupList, dialog,
                    actions, hasty, renamed, stock, ownLists, mixed>>
    BY <1>5 DEF vars, serverVars, clientVars, history
  <2>2. Sent
    BY <2>1, QuietlySent
  <2>3. Typed
    BY DEF KInv
  <2> QED BY <2>1, <2>2, <2>3, ClientKnown, CopyKnown DEF Typed
<1> QED BY <1>1, <1>2, <1>3, <1>4, <1>5 DEF Next

(***************************************************************************)
(* The server's rows and the app's lists hold devices and nothing else,    *)
(* whatever the user does, fails or is lost.                               *)
(***************************************************************************)
THEOREM CopyTyped == Spec => []TypeOK
<1>1. KInv => TypeOK
  BY TypedIsTypeOK DEF KInv
<1> QED BY <1>1, KInit, KNext, PTL DEF Spec

(***************************************************************************)
(* An application's groups list only devices it has or had, unless the app *)
(* sent it a list taken from a copy that was not all its own, or devices   *)
(* that its dialog had kept from such a copy.                              *)
(***************************************************************************)
THEOREM ForeignExplained == Spec => []ForeignOnlyIfMixed
<1>1. KInv => ForeignOnlyIfMixed
  BY KnownIsForeign DEF KInv
<1> QED BY <1>1, KInit, KNext, PTL DEF Spec

-----------------------------------------------------------------------------
(***************************************************************************)
(* The copy.  T[j] is the table of the current application when answer j   *)
(* was sent, T[0] the one the copy stands for: every answer that was sent  *)
(* after the last dev_list tells what led from one table to the next.  The *)
(* copy is T[0], save for the groups with a list of devices under way.     *)
(***************************************************************************)
Served(r, t, u) ==
  \/ r.cmd = "group_list" /\ r.groups = t.groups /\ u = t
  \/ /\ r.cmd = "add_group" /\ r.ok
     /\ r.request.group \notin DOMAIN t.groups /\ u = insertGroup(t, r.request.group)
  \/ /\ r.cmd = "del_group" /\ r.ok
     /\ r.request.group \in DOMAIN t.groups /\ u = delGroupNode(t, r.request.group)
  \/ /\ r.cmd = "rename_group" /\ r.ok
     /\ r.request.group \in DOMAIN t.groups /\ r.request.to \notin DOMAIN t.groups
     /\ u = updateGroupName(t, r.request.group, r.request.to)
  \/ /\ r.cmd = "sort_dev"
     /\ u = updateDevList(t, r.request.group, r.request.devs)
  \/ /\ r.cmd = "add_dev" /\ r.ok
     /\ r.request.dev \notin t.devices /\ u = [t EXCEPT !.devices = @ \cup {r.request.dev}]
  \/ r.cmd = "del_dev" /\ u = [t EXCEPT !.devices = @ \ r.request.devs]
  \/ /\ r.cmd \in {"add_group", "del_group", "rename_group", "add_dev"} /\ ~r.ok /\ u = t
     /\ r.cmd = "add_group" => r.request.group \in DOMAIN t.groups

\* No dev_list in s behind place i.
NoDevList(s, i) == \A j \in 1 .. Len(s) : i < j => s[j].cmd # "dev_list"

Chain(T) ==
  /\ T \in [0 .. Len(replies) -> Table]
  /\ T[Len(replies)] = tables[currApp]
  /\ \A j \in 1 .. Len(replies) :
       /\ NoDevList(replies, j - 1) => Served(replies[j], T[j - 1], T[j])
       /\ replies[j].cmd = "dev_list" /\ NoDevList(replies, j) =>
            replies[j].devs = T[j].devices

Sorts(q, g) == q.cmd = "sort_dev" /\ q.group = g
SortsAck(r, g) == r.cmd = "sort_dev" /\ r.request.group = g
Renames(q, g) == q.cmd = "rename_group" /\ q.group = g
RenamesAck(r, g) == r.cmd = "rename_group" /\ r.request.group = g

Pending(g) ==
  \/ \E i \in 1 .. Len(requests) : Sorts(requests[i], g)
  \/ \E i \in 1 .. Len(replies) : SortsAck(replies[i], g)

\* No list of an application is under way.
NoLists ==
  /\ \A i \in 1 .. Len(requests) :
       requests[i].cmd \notin {"dev_list", "group_list", "order_group"}
  /\ \A i \in 1 .. Len(replies) : replies[i].cmd \notin ListCmd

DevicesOf(t) == NoDevList(replies, 0) => workDevs = t.devices

\* A view shows the devices of its group's list, in another order if it was dragged.
Shows(n) ==
  /\ Range(n.shown) = Range(n.devs)
  /\ IsInjective(n.devs) => IsInjective(n.shown)
  /\ n.dragged \/ n.shown = n.devs

SameOrPending(n, t) == Pending(n.name) \/ (n.devs = t.groups[n.name] /\ Shows(n))

CopyIs(t) ==
  /\ \A i, j \in 1 .. Len(groupList) : groupList[i].name = groupList[j].name => i = j
  /\ Names = DOMAIN t.groups
  /\ \A i \in 1 .. Len(groupList) : SameOrPending(groupList[i], t)

GroupsOf(t) == NoLists => CopyIs(t)

Copied == \E T : Chain(T) /\ DevicesOf(T[0]) /\ GroupsOf(T[0])

\* Requests behind the last dev_list, and this one, are about the current application.
AboutCurrent ==
  \A i \in 1 .. Len(requests) : NoDevList(requests, i) => requests[i].app = currApp

\* No list of a group was sent after a request to rename it.
RenamedLast ==
  /\ \A i, j \in 1 .. Len(requests) : i < j =>
       \A g : ~(Renames(requests[i], g) /\ Sorts(requests[j], g))
  /\ \A i, j \in 1 .. Len(replies) : i < j =>
       \A g : ~(RenamesAck(replies[i], g) /\ SortsAck(replies[j], g))
  /\ \A i \in 1 .. Len(replies), j \in 1 .. Len(requests) :
       \A g : ~(RenamesAck(replies[i], g) /\ Sorts(requests[j], g))

CopyInv ==
  faults = 0 /\ ~renamed =>
    /\ AboutCurrent /\ RenamedLast
    /\ NoDevList(requests, 0) => Copied

LEMMA ShowsFacts ==
  ASSUME NEW n
  PROVE  /\ n.shown = n.devs => Shows(n)
         /\ \A m : /\ m.devs = n.devs /\ m.shown = n.shown /\ m.dragged = n.dragged
                   /\ Shows(n)
                  => Shows(m)
BY DEF Shows

LEMMA ChannelFacts ==
  ASSUME KInv
  PROVE  /\ requests \in Seq(Ask) /\ Len(requests) \in Nat
         /\ \A i \in 1 .. Len(requests) : requests[i] \in Ask
         /\ replies \in Seq(Rep) /\ Len(replies) \in Nat
         /\ \A i \in 1 .. Len(replies) : replies[i] \in Rep
         /\ currApp \in App /\ tables \in [App -> Table]
         /\ groupList \in Seq(GroupNode)
         /\ faults \in Nat
<1>1. requests \in Seq(Ask) /\ replies \in Seq(Rep)
  <2>1. KnownAsk \subseteq Ask /\ KnownRep \subseteq Rep
    BY DEF KnownAsk, KnownRep
  <2> QED BY <2>1, SeqMonotonic DEF KInv
<1>2. faults \in Nat
  BY FaultsAssumption DEF KInv, Typed
<1> QED BY <1>1, <1>2 DEF KInv, Typed

-----------------------------------------------------------------------------
(* The server, when nothing fails *)

LEMMA ServesOne ==
  ASSUME KInv, CenterThread, faults' = 0, Request.cmd # "dev_list"
  PROVE  \E t \in Table, r \in Rep :
           /\ Answer(t, r) /\ Served(r, Stored, t)
           /\ \/ Request.cmd \in {"group_list", "order_group"} /\ r.cmd = "group_list"
              \/ Request.cmd \in AckCmd /\ r.cmd = Request.cmd /\ r.request = Request
<1> DEFINE Goal == \E t \in Table, r \in Rep :
                     /\ Answer(t, r) /\ Served(r, Stored, t)
                     /\ \/ Request.cmd \in {"group_list", "order_group"} /\ r.cmd = "group_list"
                        \/ Request.cmd \in AckCmd /\ r.cmd = Request.cmd /\ r.request = Request
<1>1. requests # <<>> /\ Request.cmd = Head(requests).cmd
  BY DEF CenterThread, Serving, Request, dev_list, group_list, add_group, del_group,
         rename_group, sort_dev, add_dev, del_dev
<1>2. ~Fail
  BY ChannelFacts DEF Fail
<1>3. /\ Request \in Ask /\ Stored \in Table /\ Stored.devices \subseteq Dev
      /\ Stored.groups \in Rows
      /\ \A g \in DOMAIN Stored.groups : Stored.groups[g] \in Seq(Dev)
      /\ Request.app \in App
  BY <1>1, RequestKnown DEF Table
<1>4. ASSUME NEW t \in Table, NEW ok \in BOOLEAN, Request.cmd \in AckCmd, Answer(t, Ack(ok)),
             Served(Ack(ok), Stored, t)
      PROVE  Goal
  <2>1. Ack(ok) \in Rep /\ Ack(ok).cmd = Request.cmd /\ Ack(ok).request = Request
    BY <1>1, <1>4, RequestKnown DEF Ack
  <2> QED BY <1>4, <2>1
<1>5. \A ok \in BOOLEAN : /\ Ack(ok).cmd = Request.cmd /\ Ack(ok).ok = ok
                          /\ Ack(ok).request = Request
  BY DEF Ack
<1>6. CASE group_list
  <2>1. Request.cmd \in {"group_list", "order_group"}
    BY <1>1, <1>6 DEF group_list, Serving
  <2>2. Answer(Stored, GroupListAck(Stored.groups))
    BY <1>2, <1>6 DEF group_list
  <2>3. /\ GroupListAck(Stored.groups) \in Rep
        /\ GroupListAck(Stored.groups).cmd = "group_list"
        /\ GroupListAck(Stored.groups).groups = Stored.groups
    BY <1>3 DEF GroupListAck, Rep
  <2> QED BY <1>3, <2>1, <2>2, <2>3 DEF Served
<1>7. CASE add_group
  <2>1. Request.cmd = "add_group" /\ Request.group \in Group
    BY <1>1, <1>3, <1>7, AskFacts DEF add_group, Serving
  <2>2. insertGroup(Stored, Request.group) \in Table
    BY <1>3, <2>1, NewRows, Short DEF insertGroup
  <2>3. CASE Request.group \in DOMAIN Stored.groups
    BY <1>3, <1>4, <1>5, <1>7, <2>1, <2>3 DEF add_group, AckCmd, Served
  <2>4. CASE Request.group \notin DOMAIN Stored.groups
    BY <1>2, <1>4, <1>5, <1>7, <2>1, <2>2, <2>4 DEF add_group, AckCmd, Served
  <2> QED BY <2>3, <2>4
<1>8. CASE del_group
  <2>1. Request.cmd = "del_group" /\ Request.group \in Group
    BY <1>1, <1>3, <1>8, AskFacts DEF del_group, Serving
  <2>2. delGroupNode(Stored, Request.group) \in Table
    BY <1>3, <2>1, NewRows, Short DEF delGroupNode
  <2>3. CASE Request.group \in DOMAIN Stored.groups
    BY <1>2, <1>4, <1>5, <1>8, <2>1, <2>2, <2>3 DEF del_group, AckCmd, Served
  <2>4. CASE Request.group \notin DOMAIN Stored.groups
    BY <1>2, <1>3, <1>4, <1>5, <1>8, <2>1, <2>4 DEF del_group, AckCmd, Served
  <2> QED BY <2>3, <2>4
<1>9. CASE rename_group
  <2>1. /\ Request.cmd = "rename_group"
        /\ Request.group \in Group /\ Request.to \in Group
    BY <1>1, <1>3, <1>9, AskFacts DEF rename_group, Serving
  <2>2. Request.group \in DOMAIN Stored.groups =>
          updateGroupName(Stored, Request.group, Request.to) \in Table
    BY <1>3, <2>1, NewRows, Short DEF updateGroupName
  <2>3. CASE /\ Request.group \in DOMAIN Stored.groups
             /\ Request.to \notin DOMAIN Stored.groups
    BY <1>2, <1>4, <1>5, <1>9, <2>1, <2>2, <2>3 DEF rename_group, AckCmd, Served
  <2>4. CASE ~(/\ Request.group \in DOMAIN Stored.groups
               /\ Request.to \notin DOMAIN Stored.groups)
    BY <1>2, <1>3, <1>4, <1>5, <1>9, <2>1, <2>4 DEF rename_group, AckCmd, Served
  <2> QED BY <2>3, <2>4
<1>10. CASE sort_dev
  <2>1. /\ Request.cmd = "sort_dev"
        /\ Request.group \in Group /\ Request.devs \in Seq(Dev)
    BY <1>1, <1>3, <1>10, AskFacts DEF sort_dev, Serving
  <2>2. updateDevList(Stored, Request.group, Request.devs) \in Table
    BY <1>3, <2>1, NewRows DEF updateDevList
  <2> QED BY <1>2, <1>4, <1>5, <1>10, <2>1, <2>2 DEF sort_dev, AckCmd, Served
<1>11. CASE add_dev
  <2>1. Request.cmd = "add_dev" /\ Request.dev \in Dev
    BY <1>1, <1>3, <1>11, AskFacts DEF add_dev, Serving
  <2>2. [Stored EXCEPT !.devices = @ \cup {Request.dev}] \in Table
    BY <1>3, <2>1, NewDevices
  <2>3. \/ Answer(Stored, Ack(FALSE))
        \/ /\ Request.dev \notin Stored.devices
           /\ Answer([Stored EXCEPT !.devices = @ \cup {Request.dev}], Ack(TRUE))
    BY <1>2, <1>11 DEF add_dev
  <2> QED BY <1>3, <1>4, <1>5, <2>1, <2>2, <2>3 DEF AckCmd, Served
<1>12. CASE del_dev
  <2>1. Request.cmd = "del_dev"
    BY <1>1, <1>12 DEF del_dev, Serving
  <2>2. [Stored EXCEPT !.devices = @ \ Request.devs] \in Table
    BY <1>3, NewDevices
  <2>3. Answer([Stored EXCEPT !.devices = @ \ Request.devs], Ack(TRUE))
    BY <1>2, <1>12 DEF del_dev
  <2> QED BY <1>4, <1>5, <2>1, <2>2, <2>3 DEF AckCmd, Served
<1>13. ~dev_list
  BY <1>1 DEF dev_list, Serving
<1> QED BY <1>6, <1>7, <1>8, <1>9, <1>10, <1>11, <1>12, <1>13 DEF CenterThread

LEMMA NoneInTail ==
  ASSUME NEW S, NEW s \in Seq(S), s # <<>>, NEW i \in Nat
  PROVE  NoDevList(Tail(s), i) <=> NoDevList(s, i + 1)
<1>1. /\ Len(s) \in Nat \ {0} /\ Len(Tail(s)) = Len(s) - 1
      /\ \A j \in 1 .. Len(s) - 1 : Tail(s)[j] = s[j + 1]
  BY Tailed
<1>2. ASSUME NoDevList(Tail(s), i), NEW j \in 1 .. Len(s), i + 1 < j
      PROVE  s[j].cmd # "dev_list"
  <2>1. j - 1 \in 1 .. Len(Tail(s)) /\ i < j - 1 /\ (j - 1) + 1 = j
    BY <1>1, <1>2
  <2>2. Tail(s)[j - 1] = s[j]
    BY <1>1, <2>1
  <2> QED BY <1>2, <2>1, <2>2 DEF NoDevList
<1>3. ASSUME NoDevList(s, i + 1), NEW j \in 1 .. Len(Tail(s)), i < j
      PROVE  Tail(s)[j].cmd # "dev_list"
  BY <1>1, <1>3 DEF NoDevList
<1> QED BY <1>2, <1>3 DEF NoDevList

LEMMA NoneAppended ==
  ASSUME NEW S, NEW s \in Seq(S), NEW e \in S, NEW i \in Nat
  PROVE  NoDevList(Append(s, e), i) <=>
           NoDevList(s, i) /\ (i <= Len(s) => e.cmd # "dev_list")
BY Appended DEF NoDevList

\* Nothing but a failure is counted.
LEMMA FaultsGrow ==
  ASSUME KInv, Next, faults' = 0
  PROVE  faults = 0
<1>1. faults \in Nat
  BY ChannelFacts
<1>2. ASSUME Succeed \/ Fail PROVE faults = 0
  BY <1>1, <1>2 DEF Succeed, Fail
<1>3. CASE User \/ CenterRecv
  BY <1>3 DEF User, Sending, Looking, CenterRecv, Unhandled, onDevList, onGroupList, onAddGroup,
     onRenameGroup, onDelGroup, onAddDev, onDelDev, onSortDev
<1>4. CASE Server
  BY <1>2, <1>4 DEF Server, CenterThread, dev_list, group_list, add_group, del_group,
     rename_group, sort_dev, add_dev, del_dev
<1>5. CASE LoseRequest \/ LoseReply
  BY <1>2, <1>5 DEF LoseRequest, LoseReply
<1> QED BY <1>3, <1>4, <1>5 DEF Next

\* An acknowledgement takes the place of its request.
LEMMA RenamedAnswered ==
  ASSUME KInv, RenamedLast, requests # <<>>, NEW t, NEW r \in Rep, Answer(t, r),
         r.cmd \in AckCmd => r.cmd = Request.cmd /\ r.request = Request
  PROVE  /\ RenamedLast'
         /\ \A g : Pending(g)' => Pending(g)
<1> DEFINE m == Len(requests)
           n == Len(replies)
<1>1. /\ requests \in Seq(Ask) /\ replies \in Seq(Rep)
      /\ requests' = Tail(requests) /\ replies' = Append(replies, r)
  BY ChannelFacts DEF Answer
<1>2. /\ m \in Nat \ {0} /\ Len(requests') = m - 1 /\ Request = requests[1]
      /\ \A j \in 1 .. m - 1 : requests'[j] = requests[j + 1]
  BY <1>1, Tailed DEF Request
<1>3. /\ n \in Nat /\ Len(replies') = n + 1 /\ replies'[n + 1] = r
      /\ \A j \in 1 .. n : replies'[j] = replies[j]
  BY <1>1, Appended
<1>4. \A g : /\ SortsAck(r, g) => Sorts(requests[1], g)
             /\ RenamesAck(r, g) => Renames(requests[1], g)
  BY <1>2 DEF SortsAck, Sorts, RenamesAck, Renames, AckCmd
<1>5. ASSUME NEW g PROVE Pending(g)' => Pending(g)
  <2>1. ASSUME NEW i \in 1 .. m - 1, Sorts(requests'[i], g) PROVE Pending(g)
    BY <1>2, <2>1 DEF Pending
  <2>2. ASSUME NEW i \in 1 .. n + 1, SortsAck(replies'[i], g) PROVE Pending(g)
    <3>1. CASE i = n + 1
      BY <1>2, <1>3, <1>4, <2>2, <3>1 DEF Pending
    <3>2. CASE i # n + 1
      <4>1. i \in 1 .. n
        BY <1>3, <3>2
      <4> QED BY <1>3, <2>2, <4>1 DEF Pending
    <3> QED BY <3>1, <3>2
  <2> QED BY <1>2, <1>3, <2>1, <2>2 DEF Pending
<1>6. ASSUME NEW i \in 1 .. m - 1, NEW j \in 1 .. m - 1, i < j, NEW g
      PROVE  ~(Renames(requests'[i], g) /\ Sorts(requests'[j], g))
  <2>1. i + 1 \in 1 .. m /\ j + 1 \in 1 .. m /\ i + 1 < j + 1
    BY <1>2, <1>6
  <2> QED BY <1>2, <2>1 DEF RenamedLast
<1>7. ASSUME NEW i \in 1 .. n + 1, NEW j \in 1 .. n + 1, i < j, NEW g
      PROVE  ~(RenamesAck(replies'[i], g) /\ SortsAck(replies'[j], g))
  <2>1. i \in 1 .. n
    BY <1>3, <1>7
  <2>2. CASE j = n + 1
    BY <1>2, <1>3, <1>4, <2>1, <2>2, SMTT(20) DEF RenamedLast
  <2>3. CASE j # n + 1
    <3>1. j \in 1 .. n
      BY <1>3, <2>3
    <3> QED BY <1>3, <1>7, <2>1, <3>1 DEF RenamedLast
  <2> QED BY <2>2, <2>3
<1>8. ASSUME NEW i \in 1 .. n + 1, NEW j \in 1 .. m - 1, NEW g
      PROVE  ~(RenamesAck(replies'[i], g) /\ Sorts(requests'[j], g))
  <2>1. j + 1 \in 1 .. m /\ 1 < j + 1 /\ 1 \in 1 .. m /\ requests'[j] = requests[j + 1]
    BY <1>2
  <2>2. CASE i = n + 1
    BY <1>3, <1>4, <2>1, <2>2 DEF RenamedLast
  <2>3. CASE i # n + 1
    <3>1. i \in 1 .. n
      BY <1>3, <2>3
    <3> QED BY <1>3, <2>1, <3>1 DEF RenamedLast
  <2> QED BY <2>2, <2>3
<1>9. RenamedLast'
  BY <1>2, <1>3, <1>6, <1>7, <1>8 DEF RenamedLast
<1> QED BY <1>5, <1>9

\* The first answer behind the last dev_list to be served stands for the table itself.
LEMMA ChainStarts ==
  ASSUME KInv, KInv', requests # <<>>, Request.cmd = "dev_list", Request.app = currApp,
         Answer(Stored, DevListAck(Stored.devices)), UNCHANGED <<currApp, groupList>>
  PROVE  Copied'
<1> DEFINE r == DevListAck(Stored.devices)
           t == tables[currApp]
           n == Len(replies)
<1>1. replies \in Seq(Rep) /\ currApp \in App /\ tables \in [App -> Table] /\ n \in Nat
  BY ChannelFacts
<1>2. t \in Table /\ Stored = t
  BY <1>1 DEF Stored
<1>3. /\ r.cmd = "dev_list" /\ r.devs = t.devices /\ r \in Rep
  <2>1. t.devices \subseteq Dev
    BY <1>2 DEF Table
  <2> QED BY <1>1, <1>2, <2>1 DEF DevListAck, Rep
<1>4. tables' = tables /\ replies' = Append(replies, r)
  BY <1>1, <1>2 DEF Answer
<1> HIDE DEF r
<1>5. /\ Len(replies') = n + 1 /\ replies'[n + 1] = r
  BY <1>1, <1>3, <1>4, Appended
<1>6. \A j \in Nat : j <= n => ~NoDevList(replies', j)
  BY <1>1, <1>3, <1>4, NoneAppended
<1>7. PICK T \in [0 .. n + 1 -> Table] : \A j \in 0 .. n + 1 : T[j] = t
  <2>1. [j \in 0 .. n + 1 |-> t] \in [0 .. n + 1 -> Table]
    BY <1>2
  <2> QED BY <2>1
<1>8. Chain(T)'
  <2>1. T[Len(replies')] = tables'[currApp']
    BY <1>1, <1>4, <1>5, <1>7
  <2>2. ASSUME NEW j \in 1 .. n + 1
        PROVE  /\ ~NoDevList(replies', j - 1)
               /\ NoDevList(replies', j) => replies'[j].devs = T[j].devices
    <3>1. j - 1 \in Nat /\ j - 1 <= n /\ j \in Nat /\ (j <= n \/ j = n + 1)
      BY <1>1
    <3> QED BY <1>3, <1>5, <1>6, <1>7, <3>1
  <2> QED BY <1>5, <1>7, <2>1, <2>2 DEF Chain
<1>9. DevicesOf(T[0])'
  BY <1>1, <1>6 DEF DevicesOf
<1>10. GroupsOf(T[0])'
  <2>1. ~NoLists'
    BY <1>1, <1>3, <1>5 DEF NoLists, ListCmd
  <2> QED BY <2>1 DEF GroupsOf
<1> QED BY <1>8, <1>9, <1>10 DEF Copied

\* Any other answer continues the chain.
LEMMA ChainGrows ==
  ASSUME KInv, KInv', Copied, requests # <<>>, Request.app = currApp,
         NEW t \in Table, NEW r \in Rep, Answer(t, r), Served(r, Stored, t),
         \/ Request.cmd \in {"group_list", "order_group"} /\ r.cmd = "group_list"
         \/ Request.cmd \in AckCmd /\ r.cmd = Request.cmd /\ r.request = Request,
         \A g : Pending(g)' => Pending(g),
         \A g : Pending(g) => Pending(g)',
         UNCHANGED clientVars
  PROVE  Copied'
<1> DEFINE n == Len(replies)
<1>1. /\ requests \in Seq(Ask) /\ replies \in Seq(Rep) /\ currApp \in App
      /\ tables \in [App -> Table] /\ n \in Nat
      /\ currApp' = currApp /\ workDevs' = workDevs /\ groupList' = groupList
  BY ChannelFacts DEF clientVars
<1>2. /\ tables' = [tables EXCEPT ![currApp] = t] /\ Stored = tables[currApp]
      /\ requests' = Tail(requests) /\ replies' = Append(replies, r)
  BY DEF Answer, Stored
<1>3. r.cmd # "dev_list"
  BY DEF Served
<1>4. /\ Len(replies') = n + 1 /\ replies'[n + 1] = r
      /\ \A j \in 1 .. n : replies'[j] = replies[j]
  BY <1>1, <1>2, Appended
<1>5. \A j \in Nat : NoDevList(replies', j) => NoDevList(replies, j)
  BY <1>1, <1>2, NoneAppended
<1>6. PICK T : Chain(T) /\ DevicesOf(T[0]) /\ GroupsOf(T[0])
  BY DEF Copied
<1>7. T \in [0 .. n -> Table] /\ T[n] = tables[currApp]
  BY <1>6 DEF Chain
<1>8. PICK U \in [0 .. n + 1 -> Table] : U[n + 1] = t /\ \A j \in 0 .. n : U[j] = T[j]
  <2>1. [j \in 0 .. n + 1 |-> IF j = n + 1 THEN t ELSE T[j]] \in [0 .. n + 1 -> Table]
    BY <1>1, <1>7
  <2>2. n + 1 \in 0 .. n + 1 /\ \A j \in 0 .. n : j \in 0 .. n + 1 /\ j # n + 1
    BY <1>1
  <2> QED BY <2>1, <2>2
<1>9. Chain(U)'
  <2>1. U[Len(replies')] = tables'[currApp']
    BY <1>1, <1>2, <1>4, <1>8
  <2>2. ASSUME NEW j \in 1 .. n + 1
        PROVE  /\ NoDevList(replies', j - 1) => Served(replies'[j], U[j - 1], U[j])
               /\ replies'[j].cmd = "dev_list" /\ NoDevList(replies', j) =>
                    replies'[j].devs = U[j].devices
    <3>1. CASE j = n + 1
      <4>1. U[j - 1] = T[n] /\ U[j] = t
        BY <1>1, <1>8, <3>1
      <4> QED BY <1>2, <1>3, <1>4, <1>7, <3>1, <4>1
    <3>2. CASE j # n + 1
      <4>1. j \in 1 .. n /\ j - 1 \in 0 .. n /\ j \in 0 .. n /\ j \in Nat /\ j - 1 \in Nat
        BY <1>1, <3>2
      <4>2. U[j - 1] = T[j - 1] /\ U[j] = T[j] /\ replies'[j] = replies[j]
        BY <1>4, <1>8, <4>1
      <4> QED BY <1>5, <1>6, <4>1, <4>2 DEF Chain
    <3> QED BY <3>1, <3>2
  <2> QED BY <1>4, <1>8, <2>1, <2>2 DEF Chain
<1>10. U[0] = T[0]
  BY <1>1, <1>8
<1>11. DevicesOf(U[0])'
  BY <1>1, <1>5, <1>6, <1>10 DEF DevicesOf
<1>12. NoLists' => NoLists
  <2> SUFFICES ASSUME NoLists' PROVE NoLists
    OBVIOUS
  <2>1. /\ Len(requests) \in Nat \ {0} /\ Len(requests') = Len(requests) - 1
        /\ Request = requests[1]
        /\ \A j \in 1 .. Len(requests) - 1 : requests'[j] = requests[j + 1]
    BY <1>1, <1>2, Tailed DEF Request
  <2>2. r.cmd # "group_list"
    BY <1>1, <1>4 DEF NoLists, ListCmd
  <2>3. ASSUME NEW i \in 1 .. Len(requests)
        PROVE  requests[i].cmd \notin {"dev_list", "group_list", "order_group"}
    <3>1. CASE i = 1
      BY <2>1, <2>2, <3>1 DEF AckCmd
    <3>2. CASE i # 1
      <4>1. i - 1 \in 1 .. Len(requests') /\ requests'[i - 1] = requests[i]
        <5>1. i - 1 \in 1 .. Len(requests) - 1 /\ (i - 1) + 1 = i
          BY <2>1, <3>2
        <5> QED BY <2>1, <5>1
      <4> QED BY <4>1 DEF NoLists
    <3> QED BY <3>1, <3>2
  <2>4. ASSUME NEW i \in 1 .. n PROVE replies[i].cmd \notin ListCmd
    BY <1>1, <1>4 DEF NoLists
  <2> QED BY <2>3, <2>4 DEF NoLists
<1>13. GroupsOf(U[0])'
  <2> SUFFICES ASSUME NoLists'
               PROVE  /\ \A i, j \in 1 .. Len(groupList) :
                           groupList[i].name = groupList[j].name => i = j
                      /\ Names = DOMAIN U[0].groups
                      /\ \A i \in 1 .. Len(groupList) : SameOrPending(groupList[i], U[0])'
    BY <1>1 DEF GroupsOf, CopyIs, Names, SameOrPending
  <2> QED BY <1>1, <1>6, <1>10, <1>12 DEF GroupsOf, CopyIs, SameOrPending
<1> QED BY <1>9, <1>11, <1>13 DEF Copied

LEMMA PendingAnswered ==
  ASSUME KInv, requests # <<>>, NEW t, NEW r \in Rep, Answer(t, r),
         \/ Request.cmd \in {"group_list", "order_group"} /\ r.cmd = "group_list"
         \/ Request.cmd \in AckCmd /\ r.cmd = Request.cmd /\ r.request = Request,
         NEW g, Pending(g)
  PROVE  Pending(g)'
<1> DEFINE m == Len(requests)
           n == Len(replies)
<1>1. /\ requests \in Seq(Ask) /\ replies \in Seq(Rep)
      /\ requests' = Tail(requests) /\ replies' = Append(replies, r)
  BY ChannelFacts DEF Answer
<1>2. /\ m \in Nat \ {0} /\ Len(requests') = m - 1 /\ Request = requests[1]
      /\ \A j \in 1 .. m - 1 : requests'[j] = requests[j + 1]
  BY <1>1, Tailed DEF Request
<1>3. /\ n \in Nat /\ Len(replies') = n + 1 /\ replies'[n + 1] = r
      /\ \A j \in 1 .. n : replies'[j] = replies[j]
  BY <1>1, Appended
<1>4. ASSUME NEW i \in 1 .. n, SortsAck(replies[i], g) PROVE Pending(g)'
  <2>1. i \in 1 .. Len(replies') /\ replies'[i] = replies[i]
    BY <1>3
  <2> QED BY <1>4, <2>1 DEF Pending
<1>5. ASSUME NEW i \in 1 .. m, Sorts(requests[i], g) PROVE Pending(g)'
  <2>1. CASE i = 1
    <3>1. SortsAck(replies'[n + 1], g) /\ n + 1 \in 1 .. Len(replies')
      BY <1>2, <1>3, <1>5, <2>1 DEF Sorts, SortsAck
    <3> QED BY <3>1 DEF Pending
  <2>2. CASE i # 1
    <3>1. i - 1 \in 1 .. m - 1 /\ (i - 1) + 1 = i
      BY <1>2, <2>2
    <3>2. i - 1 \in 1 .. Len(requests') /\ requests'[i - 1] = requests[i]
      BY <1>2, <3>1
    <3> QED BY <1>5, <3>2 DEF Pending
  <2> QED BY <2>1, <2>2
<1> QED BY <1>4, <1>5 DEF Pending

LEMMA ServerKeepsCopy ==
  ASSUME KInv, KInv', CopyInv, Server
  PROVE  CopyInv'
<1> SUFFICES ASSUME faults' = 0, ~renamed'
             PROVE  /\ AboutCurrent' /\ RenamedLast'
                    /\ NoDevList(requests, 0)' => Copied'
  BY DEF CopyInv
<1>1. /\ CenterThread /\ UNCHANGED clientVars /\ renamed' = renamed
      /\ currApp' = currApp /\ groupList' = groupList
  BY DEF Server, clientVars
<1>2. faults = 0
  BY FaultsGrow DEF Next
<1>3. AboutCurrent /\ RenamedLast /\ (NoDevList(requests, 0) => Copied)
  BY <1>1, <1>2 DEF CopyInv
<1>4. requests # <<>> /\ requests \in Seq(Ask)
  BY <1>1, ChannelFacts DEF CenterThread, Serving, dev_list, group_list, add_group, del_group,
     rename_group, sort_dev, add_dev, del_dev
<1>5. /\ Len(requests) \in Nat \ {0} /\ Len(Tail(requests)) = Len(requests) - 1
      /\ Request = requests[1] /\ Request = Head(requests)
      /\ \A j \in 1 .. Len(requests) - 1 : Tail(requests)[j] = requests[j + 1]
  BY <1>4, Tailed DEF Request
<1>6. requests' = Tail(requests) => AboutCurrent'
  <2> SUFFICES ASSUME requests' = Tail(requests), NEW i \in 1 .. Len(requests'),
                      NoDevList(requests', i)
               PROVE  requests'[i].app = currApp
    BY <1>1 DEF AboutCurrent
  <2>1. i \in Nat /\ i + 1 \in 1 .. Len(requests) /\ requests'[i] = requests[i + 1]
    BY <1>5
  <2>2. NoDevList(requests, i + 1)
    BY <1>4, <2>1, NoneInTail
  <2> QED BY <1>3, <2>1, <2>2 DEF AboutCurrent
<1>7. requests' = Tail(requests) /\ NoDevList(requests, 0)' => Request.app = currApp
  <2> SUFFICES ASSUME requests' = Tail(requests), NoDevList(requests', 0)
               PROVE  Request.app = currApp
    OBVIOUS
  <2>1. NoDevList(requests, 1)
    BY <1>4, NoneInTail
  <2>2. 1 \in 1 .. Len(requests)
    BY <1>5
  <2> QED BY <1>3, <1>5, <2>1, <2>2 DEF AboutCurrent
<1>8. CASE Request.cmd = "dev_list"
  <2>1. Answer(Stored, DevListAck(Stored.devices))
    <3>1. dev_list
      BY <1>1, <1>5, <1>8 DEF CenterThread, Serving, group_list, add_group, del_group,
         rename_group, sort_dev, add_dev, del_dev
    <3>2. ~Fail
      BY ChannelFacts DEF Fail
    <3> QED BY <3>1, <3>2 DEF dev_list
  <2>2. requests' = Tail(requests)
    BY <2>1 DEF Answer
  <2>3. RenamedLast'
    <3>1. DevListAck(Stored.devices) \in Rep /\ DevListAck(Stored.devices).cmd = "dev_list"
      BY <1>4, RequestKnown DEF DevListAck, Rep
    <3> QED BY <1>3, <1>4, <2>1, <3>1, RenamedAnswered DEF AckCmd
  <2> QED BY <1>1, <1>4, <1>6, <1>7, <1>8, <2>1, <2>2, <2>3, ChainStarts
<1>9. CASE Request.cmd # "dev_list"
  <2>1. PICK t \in Table, r \in Rep :
           /\ Answer(t, r) /\ Served(r, Stored, t)
           /\ \/ Request.cmd \in {"group_list", "order_group"} /\ r.cmd = "group_list"
              \/ Request.cmd \in AckCmd /\ r.cmd = Request.cmd /\ r.request = Request
    BY <1>1, <1>9, ServesOne
  <2>2. requests' = Tail(requests)
    BY <2>1 DEF Answer
  <2>3. RenamedLast' /\ \A g : Pending(g)' => Pending(g)
    BY <1>3, <1>4, <2>1, RenamedAnswered DEF AckCmd
  <2>4. \A g : Pending(g) => Pending(g)'
    BY <1>4, <2>1, PendingAnswered
  <2>5. NoDevList(requests, 0)' => NoDevList(requests, 0)
    <3> SUFFICES ASSUME NoDevList(requests', 0) PROVE NoDevList(requests, 0)
      OBVIOUS
    <3>1. NoDevList(requests, 1)
      BY <1>4, <2>2, NoneInTail
    <3> QED BY <1>5, <1>9, <3>1 DEF NoDevList
  <2>6. NoDevList(requests, 0)' => Copied'
    BY <1>1, <1>3, <1>4, <1>7, <2>1, <2>2, <2>3, <2>4, <2>5, ChainGrows
  <2> QED BY <1>6, <2>2, <2>3, <2>6
<1> QED BY <1>8, <1>9

-----------------------------------------------------------------------------
(* Messages that are sent and answers that are taken *)

LEMMA AboutCurrentSent ==
  ASSUME KInv, AboutCurrent, NEW msgs \in Seq(Ask), requests' = requests \o msgs,
         currApp' = currApp,
         \A i \in 1 .. Len(msgs) : msgs[i].app = currApp /\ msgs[i].cmd # "dev_list"
  PROVE  AboutCurrent' /\ (NoDevList(requests, 0)' => NoDevList(requests, 0))
<1> DEFINE m == Len(requests)
           k == Len(msgs)
<1>1. /\ m \in Nat /\ k \in Nat /\ Len(requests') = m + k
      /\ \A j \in 1 .. m : requests'[j] = requests[j]
      /\ \A j \in 1 .. k : requests'[m + j] = msgs[j]
  BY ChannelFacts, Joined
<1>2. \A i \in Nat : NoDevList(requests', i) => NoDevList(requests, i)
  <2> SUFFICES ASSUME NEW i \in Nat, NoDevList(requests', i), NEW j \in 1 .. m, i < j
               PROVE  requests[j].cmd # "dev_list"
    BY DEF NoDevList
  <2>1. j \in 1 .. Len(requests') /\ requests'[j] = requests[j]
    BY <1>1
  <2> QED BY <2>1 DEF NoDevList
<1>3. AboutCurrent'
  <2> SUFFICES ASSUME NEW i \in 1 .. m + k, NoDevList(requests', i)
               PROVE  requests'[i].app = currApp
    BY <1>1 DEF AboutCurrent
  <2>1. CASE i \in 1 .. m
    BY <1>1, <1>2, <2>1 DEF AboutCurrent
  <2>2. CASE i \notin 1 .. m
    <3>1. i - m \in 1 .. k /\ m + (i - m) = i
      BY <1>1, <2>2
    <3> QED BY <1>1, <3>1
  <2> QED BY <2>1, <2>2
<1> QED BY <1>2, <1>3

LEMMA TakenFacts ==
  ASSUME KInv, replies # <<>>, replies' = Tail(replies)
  PROVE  /\ Len(replies) \in Nat \ {0} /\ Len(replies') = Len(replies) - 1
         /\ Reply = replies[1] /\ Reply \in Rep
         /\ \A j \in 1 .. Len(replies) - 1 : replies'[j] = replies[j + 1]
         /\ \A i \in Nat : NoDevList(replies, i)' <=> NoDevList(replies, i + 1)
         /\ NoDevList(replies, 0) <=> NoDevList(replies, 1) /\ Reply.cmd # "dev_list"
<1>1. replies \in Seq(Rep)
  BY ChannelFacts
<1>2. /\ Len(replies) \in Nat \ {0} /\ Len(replies') = Len(replies) - 1
      /\ Reply = replies[1] /\ Reply \in Rep
      /\ \A j \in 1 .. Len(replies) - 1 : replies'[j] = replies[j + 1]
  BY <1>1, Tailed DEF Reply
<1>3. \A i \in Nat : NoDevList(replies', i) <=> NoDevList(replies, i + 1)
  BY <1>1, NoneInTail
<1>4. NoDevList(replies, 0) <=> NoDevList(replies, 1) /\ Reply.cmd # "dev_list"
  BY <1>2 DEF NoDevList
<1> QED BY <1>2, <1>3, <1>4

LEMMA PendingSent ==
  ASSUME KInv, NEW msgs \in Seq(Ask), requests' = requests \o msgs,
         replies' = replies \/ (replies # <<>> /\ replies' = Tail(replies)), NEW g
  PROVE  /\ Pending(g) => \/ Pending(g)'
                          \/ replies # <<>> /\ replies' = Tail(replies) /\ SortsAck(Reply, g)
         /\ (\E i \in 1 .. Len(msgs) : Sorts(msgs[i], g)) => Pending(g)'
<1> DEFINE m == Len(requests)
           k == Len(msgs)
<1>1. /\ m \in Nat /\ k \in Nat /\ Len(requests') = m + k
      /\ \A j \in 1 .. m : requests'[j] = requests[j]
      /\ \A j \in 1 .. k : requests'[m + j] = msgs[j]
  BY ChannelFacts, Joined
<1>2. ASSUME NEW i \in 1 .. k, Sorts(msgs[i], g) PROVE Pending(g)'
  <2>1. m + i \in 1 .. Len(requests') /\ Sorts(requests'[m + i], g)
    BY <1>1, <1>2
  <2> QED BY <2>1 DEF Pending
<1>3. ASSUME NEW i \in 1 .. m, Sorts(requests[i], g) PROVE Pending(g)'
  <2>1. i \in 1 .. Len(requests') /\ Sorts(requests'[i], g)
    BY <1>1, <1>3
  <2> QED BY <2>1 DEF Pending
<1>4. ASSUME NEW i \in 1 .. Len(replies), SortsAck(replies[i], g),
             replies # <<>>, replies' = Tail(replies)
      PROVE  Pending(g)' \/ SortsAck(Reply, g)
  <2>1. CASE i = 1
    BY <1>4, <2>1, TakenFacts
  <2>2. CASE i # 1
    <3>1. i - 1 \in 1 .. Len(replies') /\ replies'[i - 1] = replies[i]
      <4>1. /\ Len(replies) \in Nat \ {0} /\ Len(replies') = Len(replies) - 1
            /\ \A j \in 1 .. Len(replies) - 1 : replies'[j] = replies[j + 1]
        BY <1>4, TakenFacts
      <4>2. i - 1 \in 1 .. Len(replies) - 1 /\ (i - 1) + 1 = i
        BY <2>2, <4>1
      <4> QED BY <4>1, <4>2
    <3> QED BY <1>4, <3>1 DEF Pending
  <2> QED BY <2>1, <2>2
<1>5. ASSUME NEW i \in 1 .. Len(replies), SortsAck(replies[i], g), replies' = replies
      PROVE  Pending(g)'
  BY <1>5 DEF Pending
<1> QED BY <1>2, <1>3, <1>4, <1>5 DEF Pending

\* A list that is sent for no group under renaming comes before later renamings.
LEMMA RenamedSent ==
  ASSUME KInv, RenamedLast, NEW msgs \in Seq(Ask), requests' = requests \o msgs,
         replies' = replies \/ (replies # <<>> /\ replies' = Tail(replies)),
         \A i \in 1 .. Len(msgs) : msgs[i].cmd = "sort_dev" => ~BeingRenamed(msgs[i].group),
         \A i, j \in 1 .. Len(msgs) : i < j =>
           \A g : ~(Renames(msgs[i], g) /\ Sorts(msgs[j], g))
  PROVE  RenamedLast'
<1> DEFINE m == Len(requests)
           k == Len(msgs)
           n == Len(replies)
<1>1. /\ m \in Nat /\ k \in Nat /\ Len(requests') = m + k
      /\ requests \in Seq(Ask) /\ replies \in Seq(Rep) /\ n \in Nat
      /\ \A j \in 1 .. m : requests'[j] = requests[j]
      /\ \A j \in 1 .. k : requests'[m + j] = msgs[j]
  BY ChannelFacts, Joined
<1>2. \A i \in 1 .. m + k : \/ i \in 1 .. m /\ requests'[i] = requests[i]
                            \/ i - m \in 1 .. k /\ requests'[i] = msgs[i - m]
  <2> SUFFICES ASSUME NEW i \in 1 .. m + k, i \notin 1 .. m
               PROVE  i - m \in 1 .. k /\ requests'[i] = msgs[i - m]
    BY <1>1
  <2>1. i - m \in 1 .. k /\ m + (i - m) = i
    BY <1>1
  <2> QED BY <1>1, <2>1
<1>3. PICK c \in {0, 1} : /\ Len(replies') = n - c /\ n - c \in Nat
                          /\ \A j \in 1 .. n - c : replies'[j] = replies[j + c]
  <2>1. CASE replies' = replies
    <3>1. Len(replies') = n - 0 /\ n - 0 \in Nat
          /\ \A j \in 1 .. n - 0 : replies'[j] = replies[j + 0]
      BY <1>1, <2>1
    <3> QED BY <3>1
  <2>2. CASE replies # <<>> /\ replies' = Tail(replies)
    <3>1. Len(replies') = n - 1 /\ n - 1 \in Nat
          /\ \A j \in 1 .. n - 1 : replies'[j] = replies[j + 1]
      BY <1>1, <2>2, Tailed
    <3> QED BY <3>1
  <2> QED BY <2>1, <2>2
<1>4. \A j \in 1 .. n - c : j + c \in 1 .. n /\ replies'[j] = replies[j + c]
  BY <1>1, <1>3
<1>5. \A g : \A j \in 1 .. k : Sorts(msgs[j], g) =>
               /\ \A i \in 1 .. m : ~Renames(requests[i], g)
               /\ \A i \in 1 .. n : ~RenamesAck(replies[i], g)
  <2>1. \A i \in 1 .. m : requests[i] \in Range(requests)
    BY <1>1, Ranged
  <2>2. \A i \in 1 .. n : replies[i] \in Range(replies)
    BY <1>1, Ranged
  <2> QED BY <2>1, <2>2 DEF Sorts, Renames, RenamesAck, BeingRenamed
<1>6. ASSUME NEW i \in 1 .. m + k, NEW j \in 1 .. m + k, i < j, NEW g
      PROVE  ~(Renames(requests'[i], g) /\ Sorts(requests'[j], g))
  <2>1. CASE j \in 1 .. m /\ requests'[j] = requests[j]
    <3>1. i \in 1 .. m /\ requests'[i] = requests[i]
      BY <1>1, <1>6, <2>1
    <3> QED BY <1>6, <2>1, <3>1 DEF RenamedLast
  <2>2. CASE j - m \in 1 .. k /\ requests'[j] = msgs[j - m]
    <3>1. CASE i \in 1 .. m /\ requests'[i] = requests[i]
      BY <1>5, <2>2, <3>1
    <3>2. CASE i - m \in 1 .. k /\ requests'[i] = msgs[i - m]
      <4>1. i - m < j - m
        BY <1>1, <1>6
      <4> QED BY <2>2, <3>2, <4>1
    <3> QED BY <1>2, <3>1, <3>2
  <2> QED BY <1>2, <2>1, <2>2
<1>7. ASSUME NEW i \in 1 .. n - c, NEW j \in 1 .. n - c, i < j, NEW g
      PROVE  ~(RenamesAck(replies'[i], g) /\ SortsAck(replies'[j], g))
  <2>1. i + c < j + c
    BY <1>1, <1>7
  <2> QED BY <1>4, <2>1 DEF RenamedLast
<1>8. ASSUME NEW i \in 1 .. n - c, NEW j \in 1 .. m + k, NEW g
      PROVE  ~(RenamesAck(replies'[i], g) /\ Sorts(requests'[j], g))
  <2>1. CASE j \in 1 .. m /\ requests'[j] = requests[j]
    BY <1>4, <2>1 DEF RenamedLast
  <2>2. CASE j - m \in 1 .. k /\ requests'[j] = msgs[j - m]
    BY <1>4, <1>5, <2>2
  <2> QED BY <1>2, <2>1, <2>2
<1> QED BY <1>1, <1>3, <1>6, <1>7, <1>8 DEF RenamedLast

\* The chain without the answer that is taken.
LEMMA ChainTaken ==
  ASSUME KInv, replies # <<>>, replies' = Tail(replies), UNCHANGED <<tables, currApp>>,
         NEW T, Chain(T)
  PROVE  /\ T[0] \in Table /\ T[1] \in Table
         /\ NoDevList(replies, 0) => Served(Reply, T[0], T[1])
         /\ Reply.cmd = "dev_list" /\ NoDevList(replies, 1) => Reply.devs = T[1].devices
         /\ \E U : Chain(U)' /\ U[0] = T[1]
<1> DEFINE n == Len(replies)
<1>1. /\ n \in Nat \ {0} /\ Len(replies') = n - 1 /\ Reply = replies[1]
      /\ \A j \in 1 .. n - 1 : replies'[j] = replies[j + 1]
      /\ \A i \in Nat : NoDevList(replies, i)' <=> NoDevList(replies, i + 1)
  BY TakenFacts
<1>2. T \in [0 .. n -> Table] /\ T[n] = tables[currApp]
  BY DEF Chain
<1>3. 0 \in 0 .. n /\ 1 \in 0 .. n /\ 1 \in 1 .. n /\ 1 - 1 = 0
  BY <1>1
<1>4. /\ NoDevList(replies, 0) => Served(Reply, T[0], T[1])
      /\ Reply.cmd = "dev_list" /\ NoDevList(replies, 1) => Reply.devs = T[1].devices
  BY <1>1, <1>3 DEF Chain
<1>5. PICK U \in [0 .. n - 1 -> Table] : \A j \in 0 .. n - 1 : U[j] = T[j + 1]
  <2>1. \A j \in 0 .. n - 1 : j + 1 \in 0 .. n
    BY <1>1
  <2>2. [j \in 0 .. n - 1 |-> T[j + 1]] \in [0 .. n - 1 -> Table]
    BY <1>2, <2>1
  <2> QED BY <2>2
<1>6. Chain(U)'
  <2>1. U[Len(replies')] = tables'[currApp']
    <3>1. n - 1 \in 0 .. n - 1 /\ (n - 1) + 1 = n
      BY <1>1
    <3> QED BY <1>1, <1>2, <1>5, <3>1
  <2>2. ASSUME NEW j \in 1 .. n - 1
        PROVE  /\ NoDevList(replies', j - 1) => Served(replies'[j], U[j - 1], U[j])
               /\ replies'[j].cmd = "dev_list" /\ NoDevList(replies', j) =>
                    replies'[j].devs = U[j].devices
    <3>1. /\ j \in Nat /\ j - 1 \in Nat /\ j - 1 \in 0 .. n - 1 /\ j \in 0 .. n - 1
          /\ j + 1 \in 1 .. n /\ (j - 1) + 1 = j /\ (j + 1) - 1 = j
      BY <1>1
    <3>2. U[j - 1] = T[j] /\ U[j] = T[j + 1] /\ replies'[j] = replies[j + 1]
      BY <1>1, <1>5, <3>1
    <3>3. /\ NoDevList(replies', j - 1) <=> NoDevList(replies, j)
          /\ NoDevList(replies', j) <=> NoDevList(replies, j + 1)
      BY <1>1, <3>1
    <3>4. /\ NoDevList(replies, (j + 1) - 1) => Served(replies[j + 1], T[(j + 1) - 1], T[j + 1])
          /\ replies[j + 1].cmd = "dev_list" /\ NoDevList(replies, j + 1) =>
                    replies[j + 1].devs = T[j + 1].devices
      BY <3>1 DEF Chain
    <3> QED BY <3>1, <3>2, <3>3, <3>4
  <2> QED BY <1>1, <1>5, <2>1, <2>2 DEF Chain
<1>7. U[0] = T[1]
  <2>1. 0 \in 0 .. n - 1 /\ 0 + 1 = 1
    BY <1>1
  <2> QED BY <1>5, <2>1
<1> QED BY <1>2, <1>3, <1>4, <1>6, <1>7

\* What is known when the app takes an answer that led from table t to table u.
Taken(t, u) ==
  /\ t \in Table /\ u \in Table /\ DevicesOf(t) /\ GroupsOf(t)
  /\ NoDevList(replies, 0) => Served(Reply, t, u)
  /\ Reply.cmd = "dev_list" /\ NoDevList(replies, 1) => Reply.devs = u.devices

LEMMA CopyTaken ==
  ASSUME KInv, CopyInv, faults' = 0, faults = 0, ~renamed, 
         replies # <<>>, replies' = Tail(replies), UNCHANGED <<tables, currApp>>,
         NEW msgs \in Seq(Ask), requests' = requests \o msgs,
         \A i \in 1 .. Len(msgs) : msgs[i].app = currApp /\ msgs[i].cmd # "dev_list",
         \A i \in 1 .. Len(msgs) : msgs[i].cmd = "sort_dev" => ~BeingRenamed(msgs[i].group),
         \A i \in 1 .. Len(msgs) : msgs[i].cmd # "rename_group",
         RenamedLast => \A t, u : Taken(t, u) => DevicesOf(u)' /\ GroupsOf(u)'
  PROVE  CopyInv'
<1>1. AboutCurrent /\ RenamedLast /\ (NoDevList(requests, 0) => Copied)
  BY DEF CopyInv
<1>2. AboutCurrent' /\ (NoDevList(requests, 0)' => NoDevList(requests, 0))
  BY <1>1, AboutCurrentSent
<1>3. RenamedLast'
  <2>1. \A i \in 1 .. Len(msgs) : \A g : ~Renames(msgs[i], g)
    BY DEF Renames
  <2> QED BY <1>1, <2>1, RenamedSent
<1>4. Copied => Copied'
  <2> SUFFICES ASSUME NEW T, Chain(T), DevicesOf(T[0]), GroupsOf(T[0]) PROVE Copied'
    BY DEF Copied
  <2>1. Taken(T[0], T[1])
    BY ChainTaken DEF Taken
  <2>2. PICK U : Chain(U)' /\ U[0] = T[1]
    BY ChainTaken
  <2>3. DevicesOf(U[0])' /\ GroupsOf(U[0])'
    BY <1>1, <2>1, <2>2
  <2> QED BY <2>2, <2>3 DEF Copied
<1> QED BY <1>1, <1>2, <1>3, <1>4 DEF CopyInv

LEMMA AckTaken ==
  ASSUME KInv, replies # <<>>, replies' = Tail(replies),
         NEW msgs \in Seq(Ask), requests' = requests \o msgs, Reply.cmd \in AckCmd,
         NEW t, NEW u, Taken(t, u),
         Served(Reply, t, u) /\ workDevs = t.devices => workDevs' = u.devices,
         Served(Reply, t, u) /\ CopyIs(t) => CopyIs(u)'
  PROVE  DevicesOf(u)' /\ GroupsOf(u)'
<1>1. NoDevList(replies, 0)' => NoDevList(replies, 0)
  <2>1. NoDevList(replies, 0)' <=> NoDevList(replies, 0 + 1)
    BY TakenFacts
  <2>2. Reply.cmd # "dev_list"
    BY DEF AckCmd
  <2> QED BY <2>1, <2>2, TakenFacts
<1>2. NoLists' => NoLists /\ NoDevList(replies, 0)
  <2> SUFFICES ASSUME NoLists' PROVE NoLists /\ NoDevList(replies, 0)
    OBVIOUS
  <2>1. ASSUME NEW i \in 1 .. Len(requests)
        PROVE  requests[i].cmd \notin {"dev_list", "group_list", "order_group"}
    <3>1. i \in 1 .. Len(requests') /\ requests'[i] = requests[i]
      BY ChannelFacts, Joined
    <3> QED BY <3>1 DEF NoLists
  <2>2. ASSUME NEW i \in 1 .. Len(replies) PROVE replies[i].cmd \notin ListCmd
    <3>1. CASE i = 1
      BY <3>1, TakenFacts DEF AckCmd, ListCmd
    <3>2. CASE i # 1
      <4>1. /\ Len(replies) \in Nat \ {0} /\ Len(replies') = Len(replies) - 1
            /\ \A j \in 1 .. Len(replies) - 1 : replies'[j] = replies[j + 1]
        BY TakenFacts
      <4>2. i - 1 \in 1 .. Len(replies) - 1 /\ (i - 1) + 1 = i
        BY <3>2, <4>1
      <4> QED BY <4>1, <4>2 DEF NoLists
    <3> QED BY <3>1, <3>2
  <2> QED BY <2>1, <2>2 DEF NoLists, NoDevList, ListCmd
<1>3. NoDevList(replies, 0) => Served(Reply, t, u) /\ workDevs = t.devices
  BY DEF Taken, DevicesOf
<1>4. NoLists => CopyIs(t)
  BY DEF Taken, GroupsOf
<1>5. DevicesOf(u)'
  BY <1>1, <1>3 DEF DevicesOf
<1>6. GroupsOf(u)'
  BY <1>2, <1>3, <1>4 DEF GroupsOf
<1> QED BY <1>5, <1>6

LEMMA CopyNames ==
  ASSUME Typed
  PROVE  \A g : g \in Names <=> \E i \in 1 .. Len(groupList) : groupList[i].name = g
BY CopyFacts DEF Names

\* The copy after a step, node by node.
LEMMA CopyIsNext ==
  ASSUME Typed', NEW u,
         \A i, j \in 1 .. Len(groupList') : groupList'[i].name = groupList'[j].name => i = j,
         \A g : g \in DOMAIN u.groups <=> \E i \in 1 .. Len(groupList') : groupList'[i].name = g,
         \A i \in 1 .. Len(groupList') : \A g : g = groupList'[i].name =>
           Pending(g)' \/ (groupList'[i].devs = u.groups[g] /\ Shows(groupList'[i]))
  PROVE  CopyIs(u)'
<1>1. \A g : g \in Names' <=> \E i \in 1 .. Len(groupList') : groupList'[i].name = g
  <2>1. DOMAIN groupList' = 1 .. Len(groupList')
    BY DEF Typed
  <2> QED BY <2>1 DEF Names
<1>2. Names' = DOMAIN u.groups
  BY <1>1
<1>3. \A i \in 1 .. Len(groupList') : SameOrPending(groupList[i], u)'
  BY DEF SameOrPending
<1> QED BY <1>2, <1>3 DEF CopyIs

LEMMA CopyIsNow ==
  ASSUME Typed, NEW t, CopyIs(t)
  PROVE  /\ Len(groupList) \in Nat
         /\ \A i, j \in 1 .. Len(groupList) : groupList[i].name = groupList[j].name => i = j
         /\ \A g : g \in DOMAIN t.groups <=> \E i \in 1 .. Len(groupList) : groupList[i].name = g
         /\ \A i \in 1 .. Len(groupList) : \A g : g = groupList[i].name =>
              /\ g \in DOMAIN t.groups
              /\ Pending(g) \/ (groupList[i].devs = t.groups[g] /\ Shows(groupList[i]))
         /\ \A i \in 1 .. Len(groupList) : \A g : IsFirst(i, g) <=> groupList[i].name = g
<1>1. Len(groupList) \in Nat
      /\ \A g : g \in DOMAIN t.groups <=> \E i \in 1 .. Len(groupList) : groupList[i].name = g
  BY CopyNames, CopyFacts DEF CopyIs
<1>2. \A i, j \in 1 .. Len(groupList) : groupList[i].name = groupList[j].name => i = j
  BY DEF CopyIs
<1>3. \A i \in 1 .. Len(groupList) : \A j \in 1 .. (i - 1) : j \in 1 .. Len(groupList) /\ j # i
  BY <1>1
<1>4. \A i \in 1 .. Len(groupList) : \A g : IsFirst(i, g) <=> groupList[i].name = g
  BY <1>2, <1>3 DEF IsFirst
<1> QED BY <1>1, <1>2, <1>4 DEF CopyIs, SameOrPending

LEMMA AddGroupCopies ==
  ASSUME KInv, KInv', onAddGroup, NEW t \in Table, NEW u \in Table,
         Served(Reply, t, u), CopyIs(t), \A g : Pending(g) => Pending(g)'
  PROVE  CopyIs(u)'
<1>1. Typed /\ Typed' /\ replies # <<>> /\ Reply.cmd = "add_group"
  BY DEF KInv, onAddGroup, Receiving, Reply
<1>2. Reply.request.group \in Group /\ Reply.ok \in BOOLEAN
  BY <1>1, ReplyKnown, AskFacts DEF AckCmd
<1> DEFINE n == Node(Reply.request.group, <<>>)
<1>3. n \in GroupNode /\ n.devs = <<>> /\ Shows(n) /\ n.name = Reply.request.group
  <2>1. n \in GroupNode /\ n.devs = <<>> /\ n.shown = <<>> /\ n.name = Reply.request.group
    BY <1>2, Short DEF Node, GroupNode
  <2> QED BY <2>1, ShowsFacts
<1>4. groupList' = IF Reply.ok THEN Append(groupList, n) ELSE groupList
  BY DEF onAddGroup
<1> HIDE DEF n
<1>5. groupList \in Seq(GroupNode)
  BY <1>1 DEF Typed
<1>6. CASE ~Reply.ok
  <2>1. u = t /\ groupList' = groupList
    BY <1>1, <1>4, <1>6 DEF Served
  <2> QED BY <1>1, <2>1, CopyIsNow, CopyIsNext
<1>7. CASE Reply.ok
  <2> DEFINE L == Len(groupList)
             new == Reply.request.group
  <2>1. /\ new \notin DOMAIN t.groups /\ DOMAIN u.groups = DOMAIN t.groups \cup {new}
        /\ u.groups[new] = <<>> /\ \A h \in DOMAIN t.groups : u.groups[h] = t.groups[h]
    <3>1. new \notin DOMAIN t.groups /\ u = Row(t, new, <<>>)
      BY <1>1, <1>7 DEF Served, insertGroup
    <3>2. PICK l \in Seq(Dev) : l = <<>>
      BY Short
    <3>3. PICK g \in Group : g = new
      BY <1>2
    <3>4. g \notin DOMAIN t.groups /\ u = Row(t, g, l)
      BY <3>1, <3>2, <3>3
    <3>5. /\ DOMAIN u.groups = DOMAIN t.groups \cup {g} /\ u.groups[g] = l
          /\ \A h \in DOMAIN t.groups \ {g} : u.groups[h] = t.groups[h]
      BY <3>4, NewRows
    <3> QED BY <3>2, <3>3, <3>4, <3>5
  <2>2. /\ L \in Nat /\ Len(groupList') = L + 1 /\ groupList'[L + 1] = n
        /\ \A i \in 1 .. L : groupList'[i] = groupList[i]
    BY <1>3, <1>4, <1>5, <1>7, Appended
  <2>3. /\ \A i, j \in 1 .. L : groupList[i].name = groupList[j].name => i = j
        /\ \A g : g \in DOMAIN t.groups <=> \E i \in 1 .. L : groupList[i].name = g
        /\ \A i \in 1 .. L : \A g : g = groupList[i].name =>
              /\ g \in DOMAIN t.groups
              /\ Pending(g) \/ (groupList[i].devs = t.groups[g] /\ Shows(groupList[i]))
    BY <1>1, CopyIsNow
  <2>4. \A i \in 1 .. L + 1 : i \in 1 .. L \/ i = L + 1
    BY <2>2
  <2>5. \A i, j \in 1 .. L + 1 : groupList'[i].name = groupList'[j].name => i = j
    BY <1>3, <2>1, <2>2, <2>3, <2>4
  <2>6. \A g : g \in DOMAIN u.groups <=> \E i \in 1 .. L + 1 : groupList'[i].name = g
    <3>1. L + 1 \in 1 .. L + 1 /\ \A i \in 1 .. L : i \in 1 .. L + 1
      BY <2>2
    <3> QED BY <1>3, <2>1, <2>2, <2>3, <2>4, <3>1
  <2>7. \A i \in 1 .. L + 1 : \A g : g = groupList'[i].name =>
           Pending(g)' \/ (groupList'[i].devs = u.groups[g] /\ Shows(groupList'[i]))
    BY <1>3, <2>1, <2>2, <2>3, <2>4
  <2> HIDE DEF L, new
  <2> QED BY <1>1, <2>2, <2>5, <2>6, <2>7, CopyIsNext
<1> QED BY <1>2, <1>6, <1>7

LEMMA DelGroupCopies ==
  ASSUME KInv, KInv', onDelGroup, NEW t \in Table, NEW u \in Table,
         Served(Reply, t, u), CopyIs(t), \A g : Pending(g) => Pending(g)'
  PROVE  CopyIs(u)'
<1>1. Typed /\ Typed' /\ replies # <<>> /\ Reply.cmd = "del_group"
  BY DEF KInv, onDelGroup, Receiving, Reply
<1>2. Reply.request.group \in Group /\ Reply.ok \in BOOLEAN
  BY <1>1, ReplyKnown, AskFacts DEF AckCmd
<1> DEFINE L == Len(groupList)
           old == Reply.request.group
<1>3. /\ L \in Nat
      /\ \A i, j \in 1 .. L : groupList[i].name = groupList[j].name => i = j
      /\ \A g : g \in DOMAIN t.groups <=> \E i \in 1 .. L : groupList[i].name = g
      /\ \A i \in 1 .. L : \A g : g = groupList[i].name =>
            /\ g \in DOMAIN t.groups
            /\ Pending(g) \/ (groupList[i].devs = t.groups[g] /\ Shows(groupList[i]))
  BY <1>1, CopyIsNow
<1>4. CASE ~Reply.ok
  <2>1. u = t /\ groupList' = groupList
    BY <1>1, <1>4 DEF Served, onDelGroup
  <2> QED BY <1>1, <1>3, <2>1, CopyIsNext
<1>5. CASE Reply.ok
  <2>1. /\ old \in DOMAIN t.groups /\ DOMAIN u.groups = DOMAIN t.groups \ {old}
        /\ \A h \in DOMAIN t.groups \ {old} : u.groups[h] = t.groups[h]
    <3>1. old \in DOMAIN t.groups /\ u = WithoutRow(t, old)
      BY <1>1, <1>5 DEF Served, delGroupNode
    <3>2. PICK l \in Seq(Dev) : l = <<>>
      BY Short
    <3>3. PICK g \in Group : g = old
      BY <1>2
    <3>4. u = WithoutRow(t, g)
      BY <3>1, <3>3
    <3>5. /\ DOMAIN u.groups = DOMAIN t.groups \ {g}
          /\ \A h \in DOMAIN t.groups \ {g} : u.groups[h] = t.groups[h]
      <4>1. /\ Row(t, g, l) \in Table
            /\ DOMAIN WithoutRow(t, g).groups = DOMAIN t.groups \ {g}
            /\ \A h \in DOMAIN t.groups \ {g} : WithoutRow(t, g).groups[h] = t.groups[h]
        BY NewRows
      <4> QED BY <3>4, <4>1
    <3> QED BY <3>1, <3>3, <3>5
  <2>2. old \in Names
    BY <1>1, <1>3, <2>1, CopyNames
  <2>3. PICK k \in 1 .. L : k = searchGroupNode(old) /\ groupList[k].name = old
    BY <1>1, <2>2, SearchFacts
  <2>4. groupList' = RemoveAt(groupList, k)
    BY <1>5, <2>2, <2>3 DEF onDelGroup
  <2>5. /\ Len(groupList') = L - 1
        /\ \A j \in 1 .. L - 1 : groupList'[j] = IF j < k THEN groupList[j] ELSE groupList[j + 1]
    BY <1>1, <2>4, RemovedAt DEF Typed
  <2> DEFINE at(j) == IF j < k THEN j ELSE j + 1
  <2>6. \A j \in 1 .. L - 1 : at(j) \in 1 .. L /\ at(j) # k /\ groupList'[j] = groupList[at(j)]
    BY <1>3, <2>5
  <2>7. \A i, j \in 1 .. L - 1 : at(i) = at(j) => i = j
    BY <1>3
  <2>8. \A i \in 1 .. L : i # k => \E j \in 1 .. L - 1 : at(j) = i
    <3> SUFFICES ASSUME NEW i \in 1 .. L, i # k PROVE \E j \in 1 .. L - 1 : at(j) = i
      OBVIOUS
    <3>1. CASE i < k
      <4>1. i \in 1 .. L - 1 /\ at(i) = i
        BY <1>3, <3>1
      <4> QED BY <4>1
    <3>2. CASE ~(i < k)
      <4>1. i - 1 \in 1 .. L - 1 /\ at(i - 1) = i
        BY <1>3, <3>2
      <4> QED BY <4>1
    <3> QED BY <3>1, <3>2
  <2> HIDE DEF at, L, old
  <2>9. \A i, j \in 1 .. L - 1 : groupList'[i].name = groupList'[j].name => i = j
    BY <1>3, <2>6, <2>7
  <2>10. \A g : g \in DOMAIN u.groups <=> \E i \in 1 .. L - 1 : groupList'[i].name = g
    BY <1>3, <2>1, <2>3, <2>6, <2>8, SMTT(20)
  <2>11. \A i \in 1 .. L - 1 : \A g : g = groupList'[i].name =>
           Pending(g)' \/ (groupList'[i].devs = u.groups[g] /\ Shows(groupList'[i]))
    BY <1>3, <2>1, <2>3, <2>6
  <2> QED BY <1>1, <2>5, <2>9, <2>10, <2>11, CopyIsNext
<1> QED BY <1>2, <1>4, <1>5

LEMMA RenameGroupCopies ==
  ASSUME KInv, KInv', RenamedLast, onRenameGroup, NEW t \in Table, NEW u \in Table,
         Served(Reply, t, u), CopyIs(t), \A g : Pending(g) => Pending(g)'
  PROVE  CopyIs(u)'
<1>1. Typed /\ Typed' /\ replies # <<>> /\ Reply.cmd = "rename_group"
  BY DEF KInv, onRenameGroup, Receiving, Reply
<1>2. /\ Reply.request.group \in Group /\ Reply.request.to \in Group
      /\ Reply.ok \in BOOLEAN
  BY <1>1, ReplyKnown, AskFacts DEF AckCmd
<1> DEFINE L == Len(groupList)
           Renamed(n, h) == [n EXCEPT !.name = h]
<1>3. /\ L \in Nat
      /\ \A i, j \in 1 .. L : groupList[i].name = groupList[j].name => i = j
      /\ \A g : g \in DOMAIN t.groups <=> \E i \in 1 .. L : groupList[i].name = g
      /\ \A i \in 1 .. L : \A g : g = groupList[i].name =>
            /\ g \in DOMAIN t.groups
            /\ Pending(g) \/ (groupList[i].devs = t.groups[g] /\ Shows(groupList[i]))
      /\ \A i \in 1 .. L : \A g : IsFirst(i, g) <=> groupList[i].name = g
  BY <1>1, CopyIsNow
<1>4. PICK old \in Group, new \in Group : old = Reply.request.group /\ new = Reply.request.to
  BY <1>2
<1>5. /\ DOMAIN groupList = 1 .. L
      /\ \A i \in 1 .. L : groupList[i] \in GroupNode
  BY <1>1, CopyFacts
<1>6. \A i \in 1 .. L : /\ Renamed(groupList[i], new).name = new
                        /\ Renamed(groupList[i], new).devs = groupList[i].devs
                        /\ Shows(groupList[i]) => Shows(Renamed(groupList[i], new))
  <2>1. \A i \in 1 .. L : /\ Renamed(groupList[i], new).name = new
                          /\ Renamed(groupList[i], new).devs = groupList[i].devs
                          /\ Renamed(groupList[i], new).shown = groupList[i].shown
                          /\ Renamed(groupList[i], new).dragged = groupList[i].dragged
    BY <1>5 DEF GroupNode
  <2> HIDE DEF Renamed
  <2> QED BY <2>1, ShowsFacts
<1>7. groupList' = [i \in 1 .. L |-> IF Reply.ok /\ IsFirst(i, old)
                                     THEN Renamed(groupList[i], new) ELSE groupList[i]]
  BY <1>4, <1>5 DEF onRenameGroup
<1> HIDE DEF Renamed
<1>8. /\ Len(groupList') = L
      /\ \A i \in 1 .. L : groupList'[i] = IF Reply.ok /\ groupList[i].name = old
                                           THEN Renamed(groupList[i], new) ELSE groupList[i]
  BY <1>3, <1>7
<1> HIDE DEF L
<1>9. CASE ~Reply.ok
  <2>1. u = t /\ \A i \in 1 .. L : groupList'[i] = groupList[i]
    BY <1>1, <1>8, <1>9 DEF Served
  <2>2. \A i, j \in 1 .. Len(groupList') : groupList'[i].name = groupList'[j].name => i = j
    BY <1>3, <1>8, <2>1
  <2>3. \A g : g \in DOMAIN u.groups <=> \E i \in 1 .. Len(groupList') : groupList'[i].name = g
    BY <1>3, <1>8, <2>1
  <2>4. \A i \in 1 .. Len(groupList') : \A g : g = groupList'[i].name =>
          Pending(g)' \/ (groupList'[i].devs = u.groups[g] /\ Shows(groupList'[i]))
    BY <1>3, <1>8, <2>1
  <2> QED BY <1>1, <2>2, <2>3, <2>4, CopyIsNext
<1>10. CASE Reply.ok
  <2>1. /\ old \in DOMAIN t.groups /\ new \notin DOMAIN t.groups
        /\ DOMAIN u.groups = (DOMAIN t.groups \ {old}) \cup {new}
        /\ u.groups[new] = t.groups[old]
        /\ \A h \in DOMAIN t.groups \ {old} : u.groups[h] = t.groups[h]
    <3>1. /\ old \in DOMAIN t.groups /\ new \notin DOMAIN t.groups
          /\ u = updateGroupName(t, old, new)
      BY <1>1, <1>4, <1>10 DEF Served
    <3>2. PICK l \in Seq(Dev) : l = t.groups[old]
      BY <3>1, TableFacts DEF IsTable, IsRows
    <3>3. PICK w \in Table : /\ w = WithoutRow(t, old)
                             /\ DOMAIN w.groups = DOMAIN t.groups \ {old}
                             /\ \A h \in DOMAIN t.groups \ {old} : w.groups[h] = t.groups[h]
      <4>1. /\ Row(t, old, l) \in Table /\ WithoutRow(t, old) \in Table
            /\ DOMAIN WithoutRow(t, old).groups = DOMAIN t.groups \ {old}
            /\ \A h \in DOMAIN t.groups \ {old} : WithoutRow(t, old).groups[h] = t.groups[h]
        BY NewRows
      <4> QED BY <4>1
    <3>4. u = Row(w, new, l)
      BY <3>1, <3>2, <3>3 DEF updateGroupName
    <3>5. /\ DOMAIN u.groups = DOMAIN w.groups \cup {new} /\ u.groups[new] = l
          /\ \A h \in DOMAIN w.groups \ {new} : u.groups[h] = w.groups[h]
      BY <3>4, NewRows, SMTT(20)
    <3> QED BY <3>1, <3>2, <3>3, <3>5
  <2>2. ~Pending(old)
    <3>1. RenamesAck(replies[1], old) /\ Reply = replies[1]
          /\ Len(replies) \in Nat \ {0} /\ 1 \in 1 .. Len(replies)
      BY <1>1, <1>4, ChannelFacts, Tailed DEF RenamesAck, Reply
    <3>2. \A i \in 1 .. Len(requests) : ~Sorts(requests[i], old)
      BY <3>1 DEF RenamedLast
    <3>3. \A i \in 1 .. Len(replies) : ~SortsAck(replies[i], old)
      <4> SUFFICES ASSUME NEW i \in 1 .. Len(replies) PROVE ~SortsAck(replies[i], old)
        OBVIOUS
      <4>1. CASE i = 1
        BY <1>1, <3>1, <4>1 DEF SortsAck
      <4>2. CASE 1 < i
        BY <3>1, <4>2 DEF RenamedLast
      <4> QED BY <3>1, <4>1, <4>2
    <3> QED BY <3>2, <3>3 DEF Pending
  <2>3. \A i \in 1 .. L : /\ groupList'[i].name = IF groupList[i].name = old THEN new
                                                  ELSE groupList[i].name
                          /\ groupList'[i].devs = groupList[i].devs
                          /\ Shows(groupList[i]) => Shows(groupList'[i])
    BY <1>6, <1>8, <1>10
  <2>4. \A i, j \in 1 .. L : groupList'[i].name = groupList'[j].name => i = j
    BY <1>3, <2>1, <2>3
  <2>5. \A g : g \in DOMAIN u.groups <=> \E i \in 1 .. L : groupList'[i].name = g
    <3>1. ASSUME NEW g \in DOMAIN u.groups PROVE \E i \in 1 .. L : groupList'[i].name = g
      BY <1>3, <2>1, <2>3, <3>1
    <3>2. ASSUME NEW i \in 1 .. L PROVE groupList'[i].name \in DOMAIN u.groups
      BY <1>3, <2>1, <2>3, <3>2
    <3> QED BY <3>1, <3>2
  <2>6. \A i \in 1 .. L : \A g : g = groupList'[i].name =>
           Pending(g)' \/ (groupList'[i].devs = u.groups[g] /\ Shows(groupList'[i]))
    BY <1>3, <2>1, <2>2, <2>3
  <2> QED BY <1>1, <1>8, <2>4, <2>5, <2>6, CopyIsNext
<1> QED BY <1>2, <1>9, <1>10

LEMMA SortDevCopies ==
  ASSUME KInv, KInv', onSortDev, NEW t \in Table, NEW u \in Table,
         Served(Reply, t, u), CopyIs(t), \A g : Pending(g) => Pending(g)' \/ SortsAck(Reply, g)
  PROVE  CopyIs(u)'
<1>1. Typed /\ Typed' /\ replies # <<>> /\ Reply.cmd = "sort_dev"
  BY DEF KInv, onSortDev, Receiving, Reply
<1>2. Reply.request.group \in Group /\ Reply.request.devs \in Seq(Dev)
  BY <1>1, ReplyKnown, AskFacts DEF AckCmd
<1> DEFINE L == Len(groupList)
           With(n, l) == [n EXCEPT !.shown = l, !.devs = l]
<1>3. /\ L \in Nat
      /\ \A i, j \in 1 .. L : groupList[i].name = groupList[j].name => i = j
      /\ \A g : g \in DOMAIN t.groups <=> \E i \in 1 .. L : groupList[i].name = g
      /\ \A i \in 1 .. L : \A g : g = groupList[i].name =>
            /\ g \in DOMAIN t.groups
            /\ Pending(g) \/ (groupList[i].devs = t.groups[g] /\ Shows(groupList[i]))
      /\ \A i \in 1 .. L : \A g : IsFirst(i, g) <=> groupList[i].name = g
  BY <1>1, CopyIsNow
<1>4. PICK s \in Group, l \in Seq(Dev) : s = Reply.request.group /\ l = Reply.request.devs
  BY <1>2
<1>5. /\ DOMAIN groupList = 1 .. L
      /\ \A i \in 1 .. L : groupList[i] \in GroupNode
  BY <1>1, CopyFacts
<1>6. \A i \in 1 .. L : /\ With(groupList[i], l).name = groupList[i].name
                        /\ With(groupList[i], l).devs = l
                        /\ Shows(With(groupList[i], l))
  <2>1. \A i \in 1 .. L : /\ With(groupList[i], l).name = groupList[i].name
                          /\ With(groupList[i], l).devs = l
                          /\ With(groupList[i], l).shown = l
    BY <1>5 DEF GroupNode
  <2> HIDE DEF With
  <2> QED BY <2>1, ShowsFacts
<1>7. /\ DOMAIN groupList' = 1 .. L
      /\ \A i \in 1 .. L : groupList'[i] = IF groupList[i].name = s
                                           THEN With(groupList[i], l) ELSE groupList[i]
  <2>1. groupList' =
          [i \in 1 .. L |->
            LET n == groupList[i] IN
             [n EXCEPT !.shown = IF n.name = s THEN l ELSE @,
                       !.devs = IF IsFirst(i, s) THEN l ELSE @]]
    BY <1>4, <1>5 DEF onSortDev
  <2>2. \A i \in 1 .. L : /\ groupList[i].name = s => IsFirst(i, s)
                          /\ groupList[i].name # s => ~IsFirst(i, s)
    BY <1>3
  <2>3. \A i \in 1 .. L : groupList[i].name # s =>
          [groupList[i] EXCEPT !.shown = @, !.devs = @] = groupList[i]
    BY <1>5 DEF GroupNode
  <2> QED BY <2>1, <2>2, <2>3
<1> HIDE DEF With
<1>8. Len(groupList') = L
  BY <1>1, <1>3, <1>7 DEF Typed
<1>9. \A i \in 1 .. L : /\ groupList'[i].name = groupList[i].name
                        /\ groupList'[i].devs = IF groupList[i].name = s THEN l
                                                ELSE groupList[i].devs
                        /\ groupList[i].name = s \/ Shows(groupList[i]) => Shows(groupList'[i])
  BY <1>6, <1>7
<1> HIDE DEF L
<1>10. /\ DOMAIN u.groups = DOMAIN t.groups
       /\ s \in DOMAIN t.groups => u.groups[s] = l
       /\ \A h \in DOMAIN t.groups \ {s} : u.groups[h] = t.groups[h]
  <2>1. u = updateDevList(t, s, l)
    BY <1>1, <1>4 DEF Served
  <2>2. CASE s \in DOMAIN t.groups
    <3>1. u = Row(t, s, l)
      BY <2>1, <2>2 DEF updateDevList
    <3>2. /\ DOMAIN u.groups = DOMAIN t.groups \cup {s} /\ u.groups[s] = l
          /\ \A h \in DOMAIN t.groups \ {s} : u.groups[h] = t.groups[h]
      BY <3>1, NewRows
    <3> QED BY <2>2, <3>2
  <2>3. CASE s \notin DOMAIN t.groups
    BY <2>1, <2>3 DEF updateDevList
  <2> QED BY <2>2, <2>3
<1>11. \A g : SortsAck(Reply, g) => g = s
  BY <1>4 DEF SortsAck
<1>12. \A i \in 1 .. L : \A g : g = groupList'[i].name =>
           Pending(g)' \/ (groupList'[i].devs = u.groups[g] /\ Shows(groupList'[i]))
  BY <1>3, <1>9, <1>10, <1>11
<1>13. \A g : g \in DOMAIN u.groups <=> \E i \in 1 .. L : groupList'[i].name = g
  BY <1>3, <1>9, <1>10
<1>14. \A i, j \in 1 .. L : groupList'[i].name = groupList'[j].name => i = j
  BY <1>3, <1>9
<1> QED BY <1>1, <1>8, <1>12, <1>13, <1>14, CopyIsNext

LEMMA AddDevCopies ==
  ASSUME KInv, KInv', onAddDev, NEW t \in Table, NEW u \in Table,
         Served(Reply, t, u), CopyIs(t), \A g : Pending(g) => Pending(g)',
         Reply.ok /\ All \in Names => Pending(All)'
  PROVE  CopyIs(u)'
<1>1. Typed /\ Typed' /\ replies # <<>> /\ Reply.cmd = "add_dev"
  BY DEF KInv, onAddDev, Receiving, Reply
<1>2. Reply.ok \in BOOLEAN
  BY <1>1, ReplyKnown, AskFacts DEF AckCmd
<1> DEFINE L == Len(groupList)
<1>3. /\ L \in Nat
      /\ \A i, j \in 1 .. L : groupList[i].name = groupList[j].name => i = j
      /\ \A g : g \in DOMAIN t.groups <=> \E i \in 1 .. L : groupList[i].name = g
      /\ \A i \in 1 .. L : \A g : g = groupList[i].name =>
            /\ g \in DOMAIN t.groups
            /\ Pending(g) \/ (groupList[i].devs = t.groups[g] /\ Shows(groupList[i]))
      /\ \A i \in 1 .. L : \A g : IsFirst(i, g) <=> groupList[i].name = g
  BY <1>1, CopyIsNow
<1>4. u.groups = t.groups
  BY <1>1, NewDevices DEF Served, Table
<1>5. /\ DOMAIN groupList = 1 .. L
      /\ \A i \in 1 .. L : groupList[i] \in GroupNode
  BY <1>1, CopyFacts
<1>6. CASE ~Reply.ok
  <2>1. groupList' = groupList
    BY <1>6 DEF onAddDev
  <2> QED BY <1>1, <1>3, <1>4, <2>1, CopyIsNext
<1>7. CASE Reply.ok
  <2>1. groupList' = Extended(Reply.request.dev)
    BY <1>7 DEF onAddDev
  <2> DEFINE d == Reply.request.dev
             More(n, all) == [n EXCEPT !.shown = IF n.name = All THEN Append(@, d) ELSE @,
                                       !.devs = IF all THEN Append(@, d) ELSE @]
  <2>a. groupList' = [i \in 1 .. L |-> More(groupList[i], IsFirst(i, All))]
    BY <1>5, <2>1 DEF Extended
  <2>b. \A n \in GroupNode : \A all \in BOOLEAN :
          /\ More(n, all).name = n.name
          /\ n.name # All /\ ~all => More(n, all) = n
    BY DEF GroupNode
  <2> HIDE DEF d, More
  <2>2. \A i \in 1 .. L : /\ groupList'[i].name = groupList[i].name
                          /\ groupList[i].name # All => groupList'[i] = groupList[i]
    <3> SUFFICES ASSUME NEW i \in 1 .. L
                 PROVE  /\ groupList'[i].name = groupList[i].name
                        /\ groupList[i].name # All => groupList'[i] = groupList[i]
      OBVIOUS
    <3>1. PICK all \in BOOLEAN : all = IsFirst(i, All)
      BY DEF IsFirst
    <3>2. groupList'[i] = More(groupList[i], all)
      BY <2>a, <3>1
    <3> QED BY <1>3, <1>5, <2>b, <3>1, <3>2
  <2>3. Len(groupList') = L
    <3>1. DOMAIN groupList' = 1 .. L
      BY <2>a
    <3> QED BY <1>1, <1>3, <3>1 DEF Typed
  <2>4. \A i \in 1 .. L : groupList[i].name = All => Pending(All)'
    BY <1>1, <1>7, CopyNames
  <2> HIDE DEF L
  <2>5. \A i \in 1 .. L : \A g : g = groupList'[i].name =>
           Pending(g)' \/ (groupList'[i].devs = u.groups[g] /\ Shows(groupList'[i]))
    BY <1>3, <1>4, <2>2, <2>4
  <2>6. \A g : g \in DOMAIN u.groups <=> \E i \in 1 .. L : groupList'[i].name = g
    BY <1>3, <1>4, <2>2
  <2>7. \A i, j \in 1 .. L : groupList'[i].name = groupList'[j].name => i = j
    BY <1>3, <2>2
  <2> QED BY <1>1, <2>3, <2>5, <2>6, <2>7, CopyIsNext
<1> QED BY <1>2, <1>6, <1>7

LEMMA DelDevCopies ==
  ASSUME KInv, KInv', onDelDev, NEW t \in Table, NEW u \in Table,
         Served(Reply, t, u), CopyIs(t),
         \A i \in 1 .. Len(groupList) : \A g : g = groupList[i].name => Pending(g)'
  PROVE  CopyIs(u)'
<1>1. Typed /\ Typed' /\ replies # <<>> /\ Reply.cmd = "del_dev"
  BY DEF KInv, onDelDev, Receiving, Reply
<1> DEFINE L == Len(groupList)
<1>2. /\ L \in Nat
      /\ \A i, j \in 1 .. L : groupList[i].name = groupList[j].name => i = j
      /\ \A g : g \in DOMAIN t.groups <=> \E i \in 1 .. L : groupList[i].name = g
  BY <1>1, CopyIsNow
<1>3. u.groups = t.groups
  BY <1>1, NewDevices DEF Served, Table
<1>4. /\ DOMAIN groupList = 1 .. L
      /\ \A i \in 1 .. L : groupList[i] \in GroupNode
  BY <1>1, CopyFacts
<1>5. groupList' = [i \in 1 .. L |->
                      [groupList[i] EXCEPT !.shown = RemoveAll(@, Reply.request.devs)]]
  BY <1>4 DEF onDelDev
<1>6. Len(groupList') = L /\ \A i \in 1 .. L : groupList'[i].name = groupList[i].name
  BY <1>1, <1>2, <1>4, <1>5 DEF GroupNode, Typed
<1> HIDE DEF L
<1>7. \A i \in 1 .. L : \A g : g = groupList'[i].name => Pending(g)'
  BY <1>6 DEF L
<1>8. \A g : g \in DOMAIN u.groups <=> \E i \in 1 .. L : groupList'[i].name = g
  BY <1>2, <1>3, <1>6
<1>9. \A i, j \in 1 .. L : groupList'[i].name = groupList'[j].name => i = j
  BY <1>2, <1>6
<1> QED BY <1>1, <1>6, <1>7, <1>8, <1>9, CopyIsNext

LEMMA DevicesTaken ==
  ASSUME KInv, NEW t, NEW u, Served(Reply, t, u), t \in Table, workDevs = t.devices,
         replies # <<>>,
         \/ onAddGroup \/ onDelGroup \/ onRenameGroup \/ onSortDev \/ onAddDev \/ onDelDev
  PROVE  workDevs' = u.devices /\ Reply.cmd \in AckCmd
<1>1. Reply \in Rep
  BY TakenFacts, ReplyKnown
<1>2. CASE onAddGroup
  BY <1>2 DEF onAddGroup, Receiving, Reply, Served, insertGroup, Row, AckCmd, Table
<1>3. CASE onDelGroup
  BY <1>3 DEF onDelGroup, Receiving, Reply, Served, delGroupNode, WithoutRow, AckCmd, Table
<1>4. CASE onRenameGroup
  BY <1>4 DEF onRenameGroup, Receiving, Reply, Served, updateGroupName, Row, WithoutRow, AckCmd,
              Table
<1>5. CASE onSortDev
  BY <1>5 DEF onSortDev, Receiving, Reply, Served, updateDevList, Row, AckCmd, Table
<1>6. CASE onAddDev
  <2>1. Reply.ok \in BOOLEAN /\ Reply.cmd = "add_dev"
    BY <1>6, ReplyKnown DEF onAddDev, Receiving, Reply, AckCmd
  <2> QED BY <1>6, <2>1 DEF onAddDev, Served, AckCmd, Table
<1>7. CASE onDelDev
  BY <1>7 DEF onDelDev, Receiving, Reply, Served, AckCmd, Table
<1> QED BY <1>2, <1>3, <1>4, <1>5, <1>6, <1>7

Acknowledged == onAddGroup \/ onDelGroup \/ onRenameGroup \/ onSortDev \/ onAddDev \/ onDelDev

LEMMA PublishedFrom ==
  ASSUME NEW own, NEW msgs \in Seq(Ask), PublishFrom(own, msgs), ~renamed'
  PROVE  /\ requests' = requests \o msgs /\ ~renamed
         /\ \A i \in 1 .. Len(msgs) : msgs[i].cmd = "sort_dev" => ~BeingRenamed(msgs[i].group)
<1>1. \A i \in 1 .. Len(msgs) : msgs[i] \in Range(msgs)
  BY Ranged
<1> QED BY <1>1 DEF PublishFrom

LEMMA PublishedFacts ==
  ASSUME NEW msgs \in Seq(Ask), Publish(msgs), ~renamed'
  PROVE  /\ requests' = requests \o msgs /\ ~renamed
         /\ \A i \in 1 .. Len(msgs) : msgs[i].cmd = "sort_dev" => ~BeingRenamed(msgs[i].group)
BY PublishedFrom DEF Publish

LEMMA AckCopied ==
  ASSUME KInv, KInv', CopyInv, faults' = 0, ~renamed, Acknowledged,
         NEW msgs \in Seq(Ask), requests' = requests \o msgs,
         \A i \in 1 .. Len(msgs) :
           msgs[i].app = currApp /\ msgs[i].cmd = "sort_dev" /\ ~BeingRenamed(msgs[i].group),
         ASSUME NEW t \in Table, NEW u \in Table, RenamedLast, Served(Reply, t, u), CopyIs(t)
         PROVE  CopyIs(u)'
  PROVE  CopyInv'
<1>1. /\ replies # <<>> /\ replies' = Tail(replies) /\ UNCHANGED <<tables, currApp, faults>>
      /\ Reply.cmd \in AckCmd
  BY DEF Acknowledged, onAddGroup, onDelGroup, onRenameGroup, onSortDev, onAddDev, onDelDev,
         Receiving, Reply, Unhandled, AckCmd
<1>2. ASSUME RenamedLast, NEW t, NEW u, Taken(t, u) PROVE DevicesOf(u)' /\ GroupsOf(u)'
  <2>1. t \in Table /\ u \in Table
    BY <1>2 DEF Taken
  <2>2. Served(Reply, t, u) /\ workDevs = t.devices => workDevs' = u.devices
    BY <1>1, <2>1, DevicesTaken DEF Acknowledged
  <2>3. Served(Reply, t, u) /\ CopyIs(t) => CopyIs(u)'
    BY <1>2, <2>1
  <2> QED BY <1>1, <1>2, <2>2, <2>3, AckTaken
<1>3. \A i \in 1 .. Len(msgs) : /\ msgs[i].app = currApp /\ msgs[i].cmd # "dev_list"
                                /\ msgs[i].cmd # "rename_group"
                                /\ ~BeingRenamed(msgs[i].group)
  OBVIOUS
<1> QED BY <1>1, <1>2, <1>3, CopyTaken

LEMMA PendingTaken ==
  ASSUME KInv, NEW msgs \in Seq(Ask), requests' = requests \o msgs,
         replies # <<>>, replies' = Tail(replies)
  PROVE  /\ \A g : Pending(g) => Pending(g)' \/ SortsAck(Reply, g)
         /\ Reply.cmd # "sort_dev" => \A g : Pending(g) => Pending(g)'
         /\ \A i \in 1 .. Len(msgs) : \A g : Sorts(msgs[i], g) => Pending(g)'
<1>1. \A g : Pending(g) => Pending(g)' \/ SortsAck(Reply, g)
  BY PendingSent
<1>2. \A i \in 1 .. Len(msgs) : \A g : Sorts(msgs[i], g) => Pending(g)'
  BY PendingSent
<1>3. Reply.cmd # "sort_dev" => \A g : ~SortsAck(Reply, g)
  BY DEF SortsAck
<1> QED BY <1>1, <1>2, <1>3

LEMMA QuietAckCopied ==
  ASSUME KInv, KInv', CopyInv, faults' = 0, ~renamed',
         onAddGroup \/ onDelGroup \/ onRenameGroup \/ onSortDev
  PROVE  CopyInv'
<1>1. /\ replies # <<>> /\ replies' = Tail(replies)
      /\ UNCHANGED <<requests, renamed, tables, currApp, faults>> /\ Acknowledged
  BY DEF Acknowledged, onAddGroup, onDelGroup, onRenameGroup, onSortDev, Receiving, Unhandled
<1>2. PICK msgs \in Seq(Ask) : Len(msgs) = 0 /\ requests' = requests \o msgs
  <2>1. <<>> \in Seq(Ask) /\ Len(<<>>) = 0
    BY Short
  <2>2. requests \o <<>> = requests
    BY ChannelFacts
  <2> QED BY <1>1, <2>1, <2>2
<1>3. /\ \A g : Pending(g) => Pending(g)' \/ SortsAck(Reply, g)
      /\ Reply.cmd # "sort_dev" => \A g : Pending(g) => Pending(g)'
  BY <1>1, <1>2, PendingTaken
<1>4. ASSUME NEW t \in Table, NEW u \in Table, RenamedLast, Served(Reply, t, u), CopyIs(t)
      PROVE  CopyIs(u)'
  <2>1. CASE onAddGroup
    <3>1. Reply.cmd # "sort_dev"
      BY <2>1 DEF onAddGroup, Receiving, Reply
    <3> QED BY <1>3, <1>4, <2>1, <3>1, AddGroupCopies
  <2>2. CASE onDelGroup
    <3>1. Reply.cmd # "sort_dev"
      BY <2>2 DEF onDelGroup, Receiving, Reply
    <3> QED BY <1>3, <1>4, <2>2, <3>1, DelGroupCopies
  <2>3. CASE onRenameGroup
    <3>1. Reply.cmd # "sort_dev"
      BY <2>3 DEF onRenameGroup, Receiving, Reply
    <3> QED BY <1>3, <1>4, <2>3, <3>1, RenameGroupCopies
  <2>4. CASE onSortDev
    BY <1>3, <1>4, <2>4, SortDevCopies
  <2> QED BY <2>1, <2>2, <2>3, <2>4
<1>5. \A i \in 1 .. Len(msgs) :
        msgs[i].app = currApp /\ msgs[i].cmd = "sort_dev" /\ ~BeingRenamed(msgs[i].group)
  BY <1>2
<1> QED BY <1>1, <1>2, <1>4, <1>5, AckCopied

LEMMA AddDevCopied ==
  ASSUME KInv, KInv', CopyInv, faults' = 0, ~renamed', onAddDev
  PROVE  CopyInv'
<1>1. /\ replies # <<>> /\ replies' = Tail(replies) /\ Reply.cmd = "add_dev" /\ Acknowledged
      /\ currApp' = currApp /\ Typed
  BY DEF Acknowledged, onAddDev, Receiving, Reply, Unhandled, KInv
<1> DEFINE k == searchGroupNode(All)
           q == requestSortDevice(All, groupList'[k].devs)
           msgs == IF Reply.ok /\ All \in Names THEN <<q>> ELSE <<>>
<1>2. Publish(msgs)
  BY DEF onAddDev
<1>3. All \in Names => /\ q \in Ask /\ q.app = currApp /\ q.cmd = "sort_dev"
                       /\ Sorts(q, All)
  <2> SUFFICES ASSUME All \in Names
               PROVE  q \in Ask /\ q.app = currApp /\ q.cmd = "sort_dev" /\ Sorts(q, All)
    OBVIOUS
  <2>1. Len(groupList') = Len(groupList) /\ groupList' \in Seq(GroupNode)
    <3>1. DOMAIN groupList' = DOMAIN groupList
      BY DEF onAddDev, Extended
    <3> QED BY <1>1, <3>1 DEF KInv, Typed
  <2>2. PICK i \in 1 .. Len(groupList') : i = k
    BY <1>1, <2>1, SearchFacts
  <2>3. groupList'[i].devs \in Seq(Dev)
    <3>1. groupList'[i] \in GroupNode
      BY <2>1
    <3> QED BY <3>1 DEF GroupNode
  <2>4. q = requestSortDevice(All, groupList'[i].devs)
    BY <2>2
  <2> HIDE DEF q
  <2>5. q \in Ask
    BY <1>1, <2>3, <2>4, SortAsk, GroupAssumption DEF Typed
  <2> QED BY <2>4, <2>5 DEF requestSortDevice, Sorts
<1> HIDE DEF q
<1>4. /\ msgs \in Seq(Ask)
      /\ \A i \in 1 .. Len(msgs) : /\ msgs[i].app = currApp /\ msgs[i].cmd = "sort_dev"
                                   /\ Sorts(msgs[i], All)
      /\ Reply.ok /\ All \in Names => 1 \in 1 .. Len(msgs)
  <2>1. CASE Reply.ok /\ All \in Names
    BY <1>3, <2>1, Short
  <2>2. CASE ~(Reply.ok /\ All \in Names)
    BY <2>2, Short
  <2> QED BY <2>1, <2>2
<1> HIDE DEF msgs
<1>5. /\ requests' = requests \o msgs /\ ~renamed
      /\ \A i \in 1 .. Len(msgs) : ~BeingRenamed(msgs[i].group)
  BY <1>2, <1>4, PublishedFacts
<1>6. /\ \A g : Pending(g) => Pending(g)'
      /\ Reply.ok /\ All \in Names => Pending(All)'
  BY <1>1, <1>4, <1>5, PendingTaken
<1>7. ASSUME NEW t \in Table, NEW u \in Table, RenamedLast, Served(Reply, t, u), CopyIs(t)
      PROVE  CopyIs(u)'
  BY <1>6, <1>7, AddDevCopies
<1> QED BY <1>1, <1>4, <1>5, <1>7, AckCopied

LEMMA DelDevCopied ==
  ASSUME KInv, KInv', CopyInv, faults' = 0, ~renamed', onDelDev
  PROVE  CopyInv'
<1>1. /\ replies # <<>> /\ replies' = Tail(replies) /\ Acknowledged
      /\ currApp' = currApp /\ Typed /\ Typed'
  BY DEF Acknowledged, onDelDev, Receiving, Unhandled, KInv
<1> DEFINE L == Len(groupList)
           msgs == [i \in DOMAIN groupList |->
                      requestSortDevice(groupList[i].name, groupList'[i].shown)]
<1>2. Publish(msgs)
  BY DEF onDelDev
<1>3. /\ DOMAIN groupList = 1 .. L /\ L \in Nat
      /\ \A i \in 1 .. L : groupList[i].name \in Group
  BY <1>1, CopyFacts
<1>4. \A i \in 1 .. L : groupList'[i].shown \in Seq(Dev)
  <2>1. DOMAIN groupList' = 1 .. L
    BY <1>3 DEF onDelDev
  <2>2. \A i \in 1 .. L : groupList'[i] \in GroupNode
    BY <1>1, <2>1 DEF Typed
  <2> QED BY <2>2 DEF GroupNode
<1>5. \A i \in 1 .. L : msgs[i] = requestSortDevice(groupList[i].name, groupList'[i].shown)
  BY <1>3
<1>6. msgs = [i \in 1 .. L |-> msgs[i]]
  BY <1>3
<1> HIDE DEF msgs
<1>7. \A i \in 1 .. L : /\ msgs[i] \in Ask /\ msgs[i].app = currApp /\ msgs[i].cmd = "sort_dev"
                        /\ Sorts(msgs[i], groupList[i].name)
  <2> SUFFICES ASSUME NEW i \in 1 .. L
               PROVE  /\ msgs[i] \in Ask /\ msgs[i].app = currApp /\ msgs[i].cmd = "sort_dev"
                      /\ Sorts(msgs[i], groupList[i].name)
    OBVIOUS
  <2>1. msgs[i] \in Ask
    BY <1>1, <1>3, <1>4, <1>5, SortAsk, SMTT(20) DEF Typed
  <2>2. msgs[i] = requestSortDevice(groupList[i].name, groupList'[i].shown)
    BY <1>5
  <2>3. /\ msgs[i].app = currApp /\ msgs[i].cmd = "sort_dev"
        /\ msgs[i].group = groupList[i].name
    BY <2>2 DEF requestSortDevice
  <2> QED BY <2>1, <2>3 DEF Sorts
<1>8. msgs \in Seq(Ask) /\ Len(msgs) = L
  BY <1>3, <1>6, <1>7
<1> HIDE DEF L
<1>9. /\ requests' = requests \o msgs /\ ~renamed
      /\ \A i \in 1 .. Len(msgs) : ~BeingRenamed(msgs[i].group)
  BY <1>2, <1>7, <1>8, PublishedFacts
<1>10. \A i \in 1 .. L : \A g : g = groupList[i].name => Pending(g)'
  BY <1>1, <1>7, <1>8, <1>9, PendingTaken
<1>11. ASSUME NEW t \in Table, NEW u \in Table, RenamedLast, Served(Reply, t, u), CopyIs(t)
       PROVE  CopyIs(u)'
  BY <1>10, <1>11, DelDevCopies DEF L
<1> QED BY <1>1, <1>7, <1>8, <1>9, <1>11, AckCopied

LEMMA DevListCopied ==
  ASSUME KInv, KInv', CopyInv, faults' = 0, ~renamed', onDevList
  PROVE  CopyInv'
<1>1. /\ replies # <<>> /\ replies' = Tail(replies) /\ Reply.cmd = "dev_list"
      /\ UNCHANGED <<tables, currApp, faults>> /\ workDevs' = Reply.devs /\ Typed
  BY DEF onDevList, Receiving, Reply, Unhandled, KInv
<1>2. PICK q \in Ask : q = requestGroupList /\ q.cmd = "group_list" /\ q.app = currApp
  BY <1>1, ListAsks DEF requestGroupList, Typed
<1> DEFINE msgs == <<q>>
<1>3. msgs \in Seq(Ask) /\ Len(msgs) = 1 /\ msgs[1] = q /\ \A i \in 1 .. Len(msgs) : msgs[i] = q
  BY Short
<1>4. Publish(msgs)
  BY <1>2 DEF onDevList
<1> HIDE DEF msgs
<1>5. requests' = requests \o msgs /\ ~renamed
  BY <1>3, <1>4, PublishedFacts
<1>6. ~NoLists'
  <2>1. Len(requests) + 1 \in 1 .. Len(requests') /\ requests'[Len(requests) + 1] = q
    <3>1. /\ Len(requests) \in Nat /\ Len(requests') = Len(requests) + Len(msgs)
          /\ \A j \in 1 .. Len(msgs) : requests'[Len(requests) + j] = msgs[j]
      <4>1. requests \in Seq(Ask) /\ msgs \in Seq(Ask)
        BY <1>3, ChannelFacts
      <4> QED BY <1>5, <4>1, Joined
    <3> QED BY <1>3, <3>1
  <2> QED BY <1>2, <2>1 DEF NoLists
<1>7. ASSUME NEW t, NEW u, Taken(t, u) PROVE DevicesOf(u)' /\ GroupsOf(u)'
  <2>1. NoDevList(replies, 0)' <=> NoDevList(replies, 0 + 1)
    BY <1>1, TakenFacts
  <2>2. DevicesOf(u)'
    BY <1>1, <1>7, <2>1 DEF Taken, DevicesOf
  <2> QED BY <1>6, <2>2 DEF GroupsOf
<1> QED BY <1>1, <1>2, <1>3, <1>5, <1>7, CopyTaken

\* The copy becomes what the list of groups says.
LEMMA GroupListCopies ==
  ASSUME KInv, KInv', onGroupList, NEW u, u.groups = Reply.groups
  PROVE  CopyIs(u)'
<1>1. Typed' /\ replies # <<>> /\ Reply.cmd = "group_list"
  BY DEF KInv, onGroupList, Receiving, Reply
<1>2. IsRows(u.groups)
  BY <1>1, ReplyKnown, RowsFacts
<1> DEFINE S == DOMAIN u.groups
           names == SetToSeq(S)
           L == Len(names)
<1>3. IsFiniteSet(S)
  BY <1>2 DEF IsRows
<1> HIDE DEF S
<1>4. /\ names \in Seq(S) /\ L \in Nat /\ DOMAIN names = 1 .. L
      /\ \A i \in 1 .. L : names[i] \in S
      /\ \A i, j \in 1 .. L : names[i] = names[j] => i = j
      /\ \A e \in S : \E i \in 1 .. L : names[i] = e
  BY <1>3, ListedFacts
<1>5. groupList' = [i \in DOMAIN names |-> Node(names[i], u.groups[names[i]])]
  BY DEF onGroupList, S
<1> HIDE DEF names
<1>6. /\ DOMAIN groupList' = 1 .. L
      /\ \A i \in 1 .. L : /\ groupList'[i].name = names[i]
                           /\ groupList'[i].devs = u.groups[names[i]]
                           /\ Shows(groupList'[i])
  <2>1. /\ DOMAIN groupList' = 1 .. L
        /\ \A i \in 1 .. L : /\ groupList'[i].name = names[i]
                             /\ groupList'[i].devs = u.groups[names[i]]
                             /\ groupList'[i].shown = u.groups[names[i]]
    BY <1>4, <1>5 DEF Node
  <2> QED BY <2>1, ShowsFacts
<1>7. Len(groupList') = L
  BY <1>1, <1>4, <1>6 DEF Typed
<1> HIDE DEF L
<1>8. \A g : g \in S <=> \E i \in 1 .. L : groupList'[i].name = g
  BY <1>4, <1>6
<1>9. \A i, j \in 1 .. L : groupList'[i].name = groupList'[j].name => i = j
  BY <1>4, <1>6
<1>10. \A i \in 1 .. L : \A g : g = groupList'[i].name =>
         groupList'[i].devs = u.groups[g] /\ Shows(groupList'[i])
  BY <1>6
<1> QED BY <1>1, <1>7, <1>8, <1>9, <1>10, CopyIsNext DEF S

LEMMA GroupListCopied ==
  ASSUME KInv, KInv', CopyInv, faults' = 0, ~renamed', onGroupList
  PROVE  CopyInv'
<1>1. /\ replies # <<>> /\ replies' = Tail(replies) /\ Reply.cmd = "group_list"
      /\ UNCHANGED <<tables, currApp, faults, workDevs>> /\ Typed
  BY DEF onGroupList, Receiving, Reply, Unhandled, KInv
<1> DEFINE msgs == IF All \in DOMAIN Reply.groups THEN <<>> ELSE <<requestAddGroup(All)>>
<1>2. /\ msgs \in Seq(Ask)
      /\ \A i \in 1 .. Len(msgs) : msgs[i].app = currApp /\ msgs[i].cmd = "add_group"
  <2>1. /\ requestAddGroup(All) \in Ask /\ requestAddGroup(All).cmd = "add_group"
        /\ requestAddGroup(All).app = currApp
    BY <1>1, GroupAsks, GroupAssumption DEF requestAddGroup, Typed
  <2>2. CASE All \in DOMAIN Reply.groups
    BY <2>2, Short
  <2>3. CASE All \notin DOMAIN Reply.groups
    BY <2>1, <2>3, Short
  <2> QED BY <2>2, <2>3
<1>3. Publish(msgs)
  BY DEF onGroupList
<1> HIDE DEF msgs
<1>4. requests' = requests \o msgs /\ ~renamed
  BY <1>2, <1>3, PublishedFacts
<1>5. ASSUME NEW t, NEW u, Taken(t, u) PROVE DevicesOf(u)' /\ GroupsOf(u)'
  <2>1. NoDevList(replies, 0)' => NoDevList(replies, 0)
    <3>1. NoDevList(replies, 0)' <=> NoDevList(replies, 0 + 1)
      BY <1>1, TakenFacts
    <3> QED BY <1>1, <3>1, TakenFacts
  <2>2. NoLists' => NoDevList(replies, 0)'
    BY DEF NoLists, NoDevList, ListCmd
  <2>3. NoDevList(replies, 0) => Reply.groups = u.groups /\ u = t /\ workDevs = t.devices
    BY <1>1, <1>5 DEF Taken, Served, DevicesOf
  <2>4. DevicesOf(u)'
    BY <1>1, <2>1, <2>3 DEF DevicesOf
  <2>5. NoLists' => CopyIs(u)'
    BY <2>1, <2>2, <2>3, GroupListCopies
  <2> QED BY <2>4, <2>5 DEF GroupsOf
<1>6. \A i \in 1 .. Len(msgs) : /\ msgs[i].app = currApp /\ msgs[i].cmd # "dev_list"
                                /\ msgs[i].cmd # "rename_group" /\ msgs[i].cmd # "sort_dev"
  BY <1>2
<1> QED BY <1>1, <1>2, <1>4, <1>5, <1>6, CopyTaken

LEMMA RecvCopied ==
  ASSUME KInv, KInv', CopyInv, faults' = 0, ~renamed', CenterRecv
  PROVE  CopyInv'
BY DevListCopied, GroupListCopied, QuietAckCopied, AddDevCopied, DelDevCopied DEF CenterRecv

-----------------------------------------------------------------------------
(* What the user does *)

\* Every group whose list changes has a list on its way.
LEMMA CopyKept ==
  ASSUME Typed, Typed', NEW t, CopyIs(t), \A g : Pending(g) => Pending(g)',
         Len(groupList') = Len(groupList),
         \A i \in 1 .. Len(groupList) : groupList'[i].name = groupList[i].name,
         \A i \in 1 .. Len(groupList) : \A g : g = groupList[i].name =>
           \/ Pending(g)'
           \/ /\ groupList'[i].devs = groupList[i].devs
              /\ Shows(groupList[i]) => Shows(groupList'[i])
  PROVE  CopyIs(t)'
<1> DEFINE L == Len(groupList)
<1>1. /\ \A i, j \in 1 .. L : groupList[i].name = groupList[j].name => i = j
      /\ \A g : g \in DOMAIN t.groups <=> \E i \in 1 .. L : groupList[i].name = g
      /\ \A i \in 1 .. L : \A g : g = groupList[i].name =>
            Pending(g) \/ (groupList[i].devs = t.groups[g] /\ Shows(groupList[i]))
  BY CopyIsNow
<1>2. /\ Len(groupList') = L
      /\ \A i \in 1 .. L : groupList'[i].name = groupList[i].name
      /\ \A i \in 1 .. L : \A g : g = groupList[i].name =>
           \/ Pending(g)'
           \/ /\ groupList'[i].devs = groupList[i].devs
              /\ Shows(groupList[i]) => Shows(groupList'[i])
  OBVIOUS
<1> HIDE DEF L
<1>3. \A i, j \in 1 .. L : groupList'[i].name = groupList'[j].name => i = j
  BY <1>1, <1>2
<1>4. \A g : g \in DOMAIN t.groups <=> \E i \in 1 .. L : groupList'[i].name = g
  BY <1>1, <1>2
<1>5. \A i \in 1 .. L : \A g : g = groupList'[i].name =>
           Pending(g)' \/ (groupList'[i].devs = t.groups[g] /\ Shows(groupList'[i]))
  BY <1>1, <1>2
<1> QED BY <1>2, <1>3, <1>4, <1>5, CopyIsNext

LEMMA ChainKept ==
  ASSUME UNCHANGED <<replies, tables, currApp>>, NEW T, Chain(T)
  PROVE  Chain(T)'
BY DEF Chain, NoDevList

LEMMA UserCopied ==
  ASSUME KInv, KInv', CopyInv, Aside, faults' = 0, ~renamed, currApp' = currApp,
         NEW msgs \in Seq(Ask), requests' = requests \o msgs,
         \A i \in 1 .. Len(msgs) : msgs[i].app = currApp /\ msgs[i].cmd # "dev_list",
         \A i \in 1 .. Len(msgs) : msgs[i].cmd = "sort_dev" => ~BeingRenamed(msgs[i].group),
         \A i, j \in 1 .. Len(msgs) : i < j => msgs[i].cmd # "rename_group",
         ASSUME NEW t, NoLists', CopyIs(t), \A g : Pending(g) => Pending(g)'
         PROVE  CopyIs(t)'
  PROVE  CopyInv'
<1>1. UNCHANGED <<tables, replies, faults, workDevs, currApp>>
  BY DEF Aside
<1>2. AboutCurrent /\ RenamedLast /\ (NoDevList(requests, 0) => Copied)
  BY <1>1 DEF CopyInv
<1>3. AboutCurrent' /\ (NoDevList(requests, 0)' => NoDevList(requests, 0))
  BY <1>2, AboutCurrentSent
<1>4. RenamedLast'
  <2>1. \A i, j \in 1 .. Len(msgs) : i < j => \A g : ~(Renames(msgs[i], g) /\ Sorts(msgs[j], g))
    BY DEF Renames
  <2> QED BY <1>1, <1>2, <2>1, RenamedSent
<1>5. \A g : Pending(g) => Pending(g)'
  <2> SUFFICES ASSUME NEW g, Pending(g) PROVE Pending(g)'
    OBVIOUS
  <2>1. ~(replies # <<>> /\ replies' = Tail(replies))
    <3>1. replies # <<>> => Len(Tail(replies)) # Len(replies)
      BY ChannelFacts, Tailed
    <3> QED BY <1>1, <3>1
  <2> QED BY <1>1, <2>1, PendingSent
<1>6. NoLists' => NoLists
  <2>1. \A i \in 1 .. Len(requests) : i \in 1 .. Len(requests') /\ requests'[i] = requests[i]
    BY ChannelFacts, Joined
  <2> QED BY <1>1, <2>1 DEF NoLists
<1>7. Copied => Copied'
  <2> SUFFICES ASSUME NEW T, Chain(T), DevicesOf(T[0]), GroupsOf(T[0]) PROVE Copied'
    BY DEF Copied
  <2>1. Chain(T)'
    BY <1>1, ChainKept
  <2>2. DevicesOf(T[0])'
    BY <1>1 DEF DevicesOf, NoDevList
  <2>3. NoLists' => CopyIs(T[0])'
    BY <1>5, <1>6 DEF GroupsOf
  <2> QED BY <2>1, <2>2, <2>3 DEF Copied, GroupsOf
<1> QED BY <1>2, <1>3, <1>4, <1>7 DEF CopyInv

LEMMA SelectCopied ==
  ASSUME KInv, KInv', CopyInv, Aside, faults' = 0, ~renamed', NEW a \in App, SelectApp(a)
  PROVE  CopyInv'
<1> DEFINE m == Len(requests)
<1>1. UNCHANGED <<replies, faults, renamed>> /\ currApp' = a
  BY DEF Aside, SelectApp
<1>2. PICK q \in Ask : q.cmd = "dev_list" /\ q.app = a /\ requests' = Append(requests, q)
  BY ListAsks DEF SelectApp
<1>3. /\ requests \in Seq(Ask) /\ m \in Nat /\ Len(requests') = m + 1 /\ requests'[m + 1] = q
  BY <1>2, ChannelFacts, Appended
<1>4. \A i \in Nat : i <= m => ~NoDevList(requests', i)
  BY <1>2, <1>3, NoneAppended
<1>5. AboutCurrent'
  <2> SUFFICES ASSUME NEW i \in 1 .. m + 1, NoDevList(requests', i) PROVE requests'[i].app = a
    BY <1>1, <1>3 DEF AboutCurrent
  <2>1. i = m + 1
    BY <1>3, <1>4
  <2> QED BY <1>2, <1>3, <2>1
<1>6. RenamedLast'
  <2> DEFINE msgs == <<q>>
  <2>1. msgs \in Seq(Ask) /\ Len(msgs) = 1 /\ \A i \in 1 .. Len(msgs) : msgs[i].cmd = "dev_list"
    BY <1>2, Short
  <2>2. requests' = requests \o msgs
    BY <1>2, <1>3
  <2>3. RenamedLast
    BY <1>1 DEF CopyInv
  <2> HIDE DEF msgs
  <2>4. \A i, j \in 1 .. Len(msgs) : ~(i < j)
    BY <2>1
  <2>5. \A i \in 1 .. Len(msgs) : msgs[i].cmd # "sort_dev"
    BY <2>1
  <2> QED BY <1>1, <2>1, <2>2, <2>3, <2>4, <2>5, RenamedSent
<1>7. ~NoDevList(requests', 0)
  BY <1>3, <1>4
<1> QED BY <1>5, <1>6, <1>7 DEF CopyInv

\* One message that is no list, and a copy that stays as it is.
LEMMA OneCopied ==
  ASSUME KInv, KInv', CopyInv, Aside, faults' = 0, ~renamed,
         UNCHANGED <<currApp, groupList>>, NEW q \in Ask, requests' = requests \o <<q>>,
         q.app = currApp, q.cmd \notin {"dev_list", "sort_dev"}
  PROVE  CopyInv'
<1> DEFINE msgs == <<q>>
<1>1. msgs \in Seq(Ask) /\ Len(msgs) = 1 /\ \A i \in 1 .. Len(msgs) : msgs[i] = q
  BY Short
<1>2. requests' = requests \o msgs
  OBVIOUS
<1> HIDE DEF msgs
<1>3. \A i, j \in 1 .. Len(msgs) : ~(i < j)
  BY <1>1
<1>4. ASSUME NEW t, CopyIs(t), \A g : Pending(g) => Pending(g)' PROVE CopyIs(t)'
  <2>1. Typed /\ Typed'
    BY DEF KInv
  <2> QED BY <1>4, <2>1, CopyKept
<1>5. \A i \in 1 .. Len(msgs) : msgs[i].app = currApp /\ msgs[i].cmd # "dev_list"
                                /\ msgs[i].cmd # "sort_dev"
  BY <1>1
<1> QED BY <1>1, <1>2, <1>3, <1>4, <1>5, UserCopied

LEMMA EditsCopied ==
  ASSUME KInv, KInv', CopyInv, Aside, faults' = 0, ~renamed', EditGroups
  PROVE  CopyInv'
<1>1. UNCHANGED <<currApp, groupList, renamed>> /\ Typed
  BY DEF EditGroups, KInv
<1>2. PICK q \in Ask : /\ requests' = Append(requests, q) /\ q.app = currApp
                       /\ q.cmd \notin {"dev_list", "sort_dev"}
  <2>1. /\ requestOrderGroup \in Ask /\ requestOrderGroup.cmd = "order_group"
        /\ requestOrderGroup.app = currApp
    BY <1>1, ListAsks DEF requestOrderGroup, Typed
  <2>2. \A g, h \in Group :
          /\ requestAddGroup(g) \in Ask /\ requestAddGroup(g).cmd = "add_group"
          /\ requestAddGroup(g).app = currApp
          /\ requestDelGroup(g) \in Ask /\ requestDelGroup(g).cmd = "del_group"
          /\ requestDelGroup(g).app = currApp
          /\ requestRenameGroup(g, h) \in Ask /\ requestRenameGroup(g, h).cmd = "rename_group"
          /\ requestRenameGroup(g, h).app = currApp
    BY <1>1, GroupAsks DEF requestAddGroup, requestDelGroup, requestRenameGroup, Typed
  <2> QED BY <2>1, <2>2 DEF EditGroups
<1>3. requests' = requests \o <<q>>
  <2>1. requests \in Seq(Ask)
    BY ChannelFacts
  <2> QED BY <1>2, <2>1
<1> QED BY <1>1, <1>2, <1>3, OneCopied

LEMMA DevicesCopied ==
  ASSUME KInv, KInv', CopyInv, Aside, faults' = 0, ~renamed',
         \/ \E d \in Dev : AddDevice(d)
         \/ \E i \in DOMAIN groupList :
              \E D \in SUBSET Range(groupList[i].shown) \ {{}} : DelDevices(i, D)
  PROVE  CopyInv'
<1>1. Typed
  BY DEF KInv
<1>2. UNCHANGED <<currApp, groupList>>
  BY DEF AddDevice, DelDevices
<1>3. PICK q \in Ask : Publish(<<q>>) /\ q.app = currApp /\ q.cmd \in {"add_dev", "del_dev"}
  <2>1. ASSUME NEW d \in Dev, AddDevice(d)
        PROVE  \E q \in Ask : Publish(<<q>>) /\ q.app = currApp /\ q.cmd \in {"add_dev", "del_dev"}
    <3>1. requestAddDevice(d) \in Ask
      BY <1>1 DEF requestAddDevice, Ask, Typed
    <3> QED BY <2>1, <3>1 DEF AddDevice, requestAddDevice
  <2>2. ASSUME NEW i \in DOMAIN groupList, NEW D \in SUBSET Range(groupList[i].shown),
               DelDevices(i, D)
        PROVE  \E q \in Ask : Publish(<<q>>) /\ q.app = currApp /\ q.cmd \in {"add_dev", "del_dev"}
    <3>1. D \subseteq Dev
      BY <1>1, CopyFacts, Ranged
    <3>2. requestDelDevice(D) \in Ask
      BY <1>1, <3>1 DEF requestDelDevice, Ask, Typed
    <3> QED BY <2>2, <3>2 DEF DelDevices, requestDelDevice
  <2> QED BY <2>1, <2>2
<1>4. requests' = requests \o <<q>> /\ ~renamed
  <2> DEFINE msgs == <<q>>
  <2>1. msgs \in Seq(Ask) /\ Publish(msgs)
    BY <1>3, Short
  <2> HIDE DEF msgs
  <2>2. requests' = requests \o msgs /\ ~renamed
    BY <2>1, PublishedFacts
  <2> QED BY <2>2 DEF msgs
<1> QED BY <1>2, <1>3, <1>4, OneCopied

LEMMA SortDevicesCopied ==
  ASSUME KInv, KInv', CopyInv, Aside, faults' = 0, ~renamed',
         NEW i \in DOMAIN groupList, SortDevices(i)
  PROVE  CopyInv'
<1>1. Typed /\ Typed' /\ currApp' = currApp
  BY DEF KInv, SortDevices
<1>2. /\ DOMAIN groupList = 1 .. Len(groupList) /\ Len(groupList) \in Nat
      /\ groupList \in Seq(GroupNode) /\ \A h \in 1 .. Len(groupList) : groupList[h] \in GroupNode
      /\ groupList[i].name \in Group /\ groupList[i].shown \in Seq(Dev)
  BY <1>1, CopyFacts DEF Typed
<1> DEFINE n == [groupList[i] EXCEPT !.dragged = FALSE]
           q == requestSortDevice(groupList[i].name, groupList[i].shown)
           msgs == <<q>>
<1>3. groupList' = [groupList EXCEPT ![i] = n] /\ Publish(msgs)
  BY DEF SortDevices
<1>4. n.name = groupList[i].name
  BY <1>2 DEF GroupNode
<1> HIDE DEF n
<1>5. q \in Ask /\ q.app = currApp /\ q.cmd = "sort_dev" /\ Sorts(q, groupList[i].name)
  <2>1. q \in Ask
    BY <1>1, <1>2, SortAsk DEF Typed
  <2> QED BY <2>1 DEF requestSortDevice, Sorts
<1> HIDE DEF q
<1>6. /\ msgs \in Seq(Ask) /\ Len(msgs) = 1
      /\ \A h \in 1 .. Len(msgs) : msgs[h] = q
  BY <1>5, Short
<1> HIDE DEF msgs
<1>7. /\ requests' = requests \o msgs /\ ~renamed
      /\ \A h \in 1 .. Len(msgs) : ~BeingRenamed(msgs[h].group)
  BY <1>3, <1>5, <1>6, PublishedFacts
<1>8. \A g : g = groupList[i].name => Pending(g)'
  <2>1. replies' = replies
    BY DEF Aside
  <2>2. \A g : (\E h \in 1 .. Len(msgs) : Sorts(msgs[h], g)) => Pending(g)'
    BY <1>6, <1>7, <2>1, PendingSent
  <2>3. 1 \in 1 .. Len(msgs) /\ Sorts(msgs[1], groupList[i].name)
    BY <1>5, <1>6
  <2> QED BY <2>2, <2>3
<1>9. /\ Len(groupList') = Len(groupList)
      /\ \A h \in 1 .. Len(groupList) : /\ groupList'[h].name = groupList[h].name
                                        /\ h # i => groupList'[h] = groupList[h]
  BY <1>2, <1>3, <1>4
<1>10. ASSUME NEW t, CopyIs(t), \A g : Pending(g) => Pending(g)' PROVE CopyIs(t)'
  <2>1. \A h \in 1 .. Len(groupList) : \A g : g = groupList[h].name =>
           \/ Pending(g)'
           \/ /\ groupList'[h].devs = groupList[h].devs
              /\ Shows(groupList[h]) => Shows(groupList'[h])
    BY <1>8, <1>9
  <2> QED BY <1>1, <1>9, <1>10, <2>1, CopyKept
<1>11. \A h, m \in 1 .. Len(msgs) : ~(h < m)
  BY <1>6
<1>12. \A h \in 1 .. Len(msgs) : /\ msgs[h].app = currApp /\ msgs[h].cmd = "sort_dev"
                                 /\ msgs[h].cmd # "dev_list"
  BY <1>5, <1>6
<1> QED BY <1>1, <1>6, <1>7, <1>10, <1>11, <1>12, UserCopied

\* Nothing is sent, and the views go on showing their lists.
LEMMA SilentCopied ==
  ASSUME KInv, KInv', CopyInv, Aside, faults' = 0, ~renamed, UNCHANGED <<requests, currApp>>,
         Len(groupList') = Len(groupList),
         \A i \in 1 .. Len(groupList) : /\ groupList'[i].name = groupList[i].name
                                        /\ groupList'[i].devs = groupList[i].devs
                                        /\ Shows(groupList[i]) => Shows(groupList'[i])
  PROVE  CopyInv'
<1> DEFINE msgs == <<>>
<1>1. msgs \in Seq(Ask) /\ Len(msgs) = 0
  BY Short
<1>2. requests' = requests \o msgs
  <2>1. requests \in Seq(Ask)
    BY ChannelFacts
  <2> QED BY <2>1
<1> HIDE DEF msgs
<1>3. ASSUME NEW t, CopyIs(t), \A g : Pending(g) => Pending(g)' PROVE CopyIs(t)'
  <2>1. Typed /\ Typed'
    BY DEF KInv
  <2> QED BY <1>3, <2>1, CopyKept
<1>4. \A i \in 1 .. Len(msgs) : FALSE
  BY <1>1
<1> QED BY <1>1, <1>2, <1>3, <1>4, UserCopied

LEMMA DragDeviceCopied ==
  ASSUME KInv, KInv', CopyInv, Aside, faults' = 0, ~renamed',
         NEW i \in DOMAIN groupList, DragDevice(i)
  PROVE  CopyInv'
<1>1. /\ DOMAIN groupList = 1 .. Len(groupList) /\ Len(groupList) \in Nat
      /\ groupList \in Seq(GroupNode)
      /\ i \in 1 .. Len(groupList) /\ groupList[i] \in GroupNode /\ groupList[i].shown \in Seq(Dev)
  BY CopyFacts DEF KInv, Typed
<1>2. PICK j \in DOMAIN groupList[i].shown, k \in DOMAIN groupList[i].shown :
        groupList' = [groupList EXCEPT ![i].shown = Moved(@, j, k), ![i].dragged = TRUE]
  BY DEF DragDevice
<1> DEFINE l == Moved(groupList[i].shown, j, k)
           n == [groupList[i] EXCEPT !.shown = l, !.dragged = TRUE]
<1>3. /\ Range(l) = Range(groupList[i].shown)
      /\ IsInjective(groupList[i].shown) => IsInjective(l)
  BY <1>1, MovedFacts
<1>4. groupList' = [groupList EXCEPT ![i] = n]
  BY <1>1, <1>2
<1> HIDE DEF l
<1>5. n.name = groupList[i].name /\ n.devs = groupList[i].devs /\ n.shown = l /\ n.dragged
  BY <1>1 DEF GroupNode
<1> HIDE DEF n
<1>6. Shows(groupList[i]) => Shows(n)
  BY <1>3, <1>5 DEF Shows
<1>7. /\ Len(groupList') = Len(groupList)
      /\ \A h \in 1 .. Len(groupList) : groupList'[h] = IF h = i THEN n ELSE groupList[h]
  BY <1>1, <1>4
<1>8. UNCHANGED <<requests, currApp, renamed>>
  BY DEF DragDevice
<1> QED BY <1>5, <1>6, <1>7, <1>8, SilentCopied

LEMMA MoveDevicesCopied ==
  ASSUME KInv, KInv', CopyInv, Aside, faults' = 0, ~renamed', NEW h \in Group, MoveDevices(h)
  PROVE  CopyInv'
<1>1. Typed /\ Typed'
  BY DEF KInv
<1>2. /\ DOMAIN groupList = 1 .. Len(groupList) /\ Len(groupList) \in Nat
      /\ groupList \in Seq(GroupNode)
      /\ \A j \in 1 .. Len(groupList) : /\ groupList[j] \in GroupNode
                                        /\ groupList[j].name \in Group
                                        /\ groupList[j].devs \in Seq(Dev)
                                        /\ groupList[j].shown \in Seq(Dev)
  BY <1>1, CopyFacts DEF Typed
<1> DEFINE g == dialog.src
           src == searchGroupNode(g)
           dst == searchGroupNode(h)
           left == IF g = All THEN groupList[src].devs
                              ELSE RemoveAll(groupList[src].devs, Range(dialog.devs))
           gained == IF h = All THEN groupList[dst].devs
                                ELSE AppendNew(groupList[dst].devs, dialog.devs)
           out == IF g = All THEN <<>> ELSE <<requestSortDevice(g, left)>>
           in == IF h = All THEN <<>> ELSE <<requestSortDevice(h, gained)>>
           msgs == out \o in
           own == ownLists /\ currApp \in dialog.of
<1>3. /\ g \in Names /\ h \in Names \ {g}
      /\ groupList' = [groupList EXCEPT ![src].devs = left, ![dst].devs = gained]
      /\ currApp' = currApp
      /\ PublishFrom(own, msgs)
  BY DEF MoveDevices
<1> HIDE DEF own
<1>4. g \in Group /\ dialog.devs \in Seq(Dev)
  BY DialogFacts
<1>5. /\ src \in 1 .. Len(groupList) /\ dst \in 1 .. Len(groupList) /\ src # dst
      /\ groupList[src].name = g /\ groupList[dst].name = h
  BY <1>1, <1>3, <1>4, SearchFacts
<1> HIDE DEF src, dst
<1>6. left \in Seq(Dev) /\ (g = All => left = groupList[src].devs)
  BY <1>2, <1>5, RemoveAllType
<1>7. gained \in Seq(Dev) /\ (h = All => gained = groupList[dst].devs)
  <2>1. groupList[dst].devs \in Seq(Dev)
    BY <1>2, <1>5
  <2>2. CASE h = All
    BY <2>1, <2>2
  <2>3. CASE h # All
    BY <1>4, <2>1, <2>3, AppendNewType
  <2> QED BY <2>2, <2>3
<1> HIDE DEF left, gained
<1>8. /\ Len(groupList') = Len(groupList)
      /\ \A j \in 1 .. Len(groupList) :
           /\ groupList'[j].name = groupList[j].name
           /\ groupList'[j].shown = groupList[j].shown
           /\ groupList'[j].dragged = groupList[j].dragged
           /\ groupList'[j].devs = IF j = src THEN left ELSE IF j = dst THEN gained
                                   ELSE groupList[j].devs
  <2> DEFINE With(n, l) == [n EXCEPT !.devs = l]
  <2>1. \A j \in 1 .. Len(groupList) : \A l \in Seq(Dev) :
          /\ With(groupList[j], l).name = groupList[j].name
          /\ With(groupList[j], l).devs = l
          /\ With(groupList[j], l).shown = groupList[j].shown
          /\ With(groupList[j], l).dragged = groupList[j].dragged
    BY <1>2 DEF GroupNode
  <2>2. groupList' = [groupList EXCEPT ![src] = With(groupList[src], left),
                                       ![dst] = With(groupList[dst], gained)]
    BY <1>2, <1>3, <1>5
  <2> HIDE DEF With
  <2>3. /\ DOMAIN groupList' = 1 .. Len(groupList)
        /\ groupList'[src] = With(groupList[src], left)
        /\ groupList'[dst] = With(groupList[dst], gained)
        /\ \A j \in 1 .. Len(groupList) : j # src /\ j # dst => groupList'[j] = groupList[j]
    BY <1>2, <1>5, <2>2
  <2>4. Len(groupList') = Len(groupList)
    BY <1>1, <1>2, <2>3 DEF Typed
  <2>5. left \in Seq(Dev) /\ gained \in Seq(Dev)
    BY <1>6, <1>7
  <2> SUFFICES ASSUME NEW j \in 1 .. Len(groupList)
               PROVE  /\ groupList'[j].name = groupList[j].name
                      /\ groupList'[j].shown = groupList[j].shown
                      /\ groupList'[j].dragged = groupList[j].dragged
                      /\ groupList'[j].devs = IF j = src THEN left ELSE IF j = dst THEN gained
                                              ELSE groupList[j].devs
    BY <2>4
  <2>6. CASE j = src
    BY <2>1, <2>3, <2>5, <2>6
  <2>7. CASE j = dst
    BY <1>5, <2>1, <2>3, <2>5, <2>7
  <2>8. CASE j # src /\ j # dst
    BY <2>3, <2>8
  <2> QED BY <2>6, <2>7, <2>8
<1> DEFINE Fit(q) == q.app = currApp /\ q.cmd = "sort_dev"
<1>9. ASSUME NEW e \in Group, NEW l \in Seq(Dev)
      PROVE  requestSortDevice(e, l) \in Ask /\ Fit(requestSortDevice(e, l))
             /\ Sorts(requestSortDevice(e, l), e)
  <2>1. requestSortDevice(e, l) \in Ask
    BY <1>1, SortAsk DEF Typed
  <2> QED BY <2>1 DEF requestSortDevice, Sorts
<1>10. /\ out \in Seq(Ask) /\ \A j \in 1 .. Len(out) : Fit(out[j])
       /\ g # All => 1 \in 1 .. Len(out) /\ Sorts(out[1], g)
  <2>1. CASE g = All
    BY <2>1, Short
  <2>2. CASE g # All
    BY <1>4, <1>6, <1>9, <2>2, Short
  <2> QED BY <2>1, <2>2
<1>11. /\ in \in Seq(Ask) /\ \A j \in 1 .. Len(in) : Fit(in[j])
       /\ h # All => 1 \in 1 .. Len(in) /\ Sorts(in[1], h)
  <2>1. CASE h = All
    BY <2>1, Short
  <2>2. CASE h # All
    BY <1>7, <1>9, <2>2, Short
  <2> QED BY <2>1, <2>2
<1> HIDE DEF out, in
<1>12. /\ msgs \in Seq(Ask) /\ \A j \in 1 .. Len(msgs) : Fit(msgs[j])
       /\ g # All => \E j \in 1 .. Len(msgs) : Sorts(msgs[j], g)
       /\ h # All => \E j \in 1 .. Len(msgs) : Sorts(msgs[j], h)
  <2>1. /\ out \o in \in Seq(Ask) /\ Len(out) \in Nat /\ Len(in) \in Nat
        /\ Len(out \o in) = Len(out) + Len(in)
        /\ \A j \in 1 .. Len(out) : (out \o in)[j] = out[j]
        /\ \A j \in 1 .. Len(in) : (out \o in)[Len(out) + j] = in[j]
    BY <1>10, <1>11, Joined
  <2>2. ASSUME NEW j \in 1 .. Len(msgs) PROVE Fit(msgs[j])
    <3>1. CASE j \in 1 .. Len(out)
      BY <1>10, <2>1, <3>1
    <3>2. CASE j \notin 1 .. Len(out)
      <4>1. j - Len(out) \in 1 .. Len(in) /\ Len(out) + (j - Len(out)) = j
        BY <2>1, <3>2
      <4>2. msgs[j] = in[j - Len(out)]
        BY <2>1, <4>1
      <4> QED BY <1>11, <4>1, <4>2
    <3> QED BY <3>1, <3>2
  <2>3. ASSUME g # All PROVE \E j \in 1 .. Len(msgs) : Sorts(msgs[j], g)
    <3>1. 1 \in 1 .. Len(msgs) /\ msgs[1] = out[1]
      BY <1>10, <2>1, <2>3
    <3> QED BY <1>10, <2>3, <3>1
  <2>4. ASSUME h # All PROVE \E j \in 1 .. Len(msgs) : Sorts(msgs[j], h)
    <3>1. Len(out) + 1 \in 1 .. Len(msgs) /\ msgs[Len(out) + 1] = in[1]
      BY <1>11, <2>1, <2>4
    <3> QED BY <1>11, <2>4, <3>1
  <2> QED BY <2>1, <2>2, <2>3, <2>4
<1> HIDE DEF msgs
<1>13. /\ requests' = requests \o msgs /\ ~renamed
       /\ \A j \in 1 .. Len(msgs) : ~BeingRenamed(msgs[j].group)
  BY <1>3, <1>12, PublishedFrom
<1>14. \A e : (\E j \in 1 .. Len(msgs) : Sorts(msgs[j], e)) => Pending(e)'
  <2>1. replies' = replies
    BY DEF Aside
  <2> QED BY <1>12, <1>13, <2>1, PendingSent
<1>15. \A j \in 1 .. Len(groupList) : \A e : e = groupList[j].name =>
           \/ Pending(e)'
           \/ /\ groupList'[j].devs = groupList[j].devs
              /\ Shows(groupList[j]) => Shows(groupList'[j])
  <2> SUFFICES ASSUME NEW j \in 1 .. Len(groupList), NEW e, e = groupList[j].name, ~Pending(e)'
               PROVE  groupList'[j].devs = groupList[j].devs
    BY <1>8, ShowsFacts
  <2>1. CASE j = src
    BY <1>5, <1>6, <1>8, <1>12, <1>14, <2>1
  <2>2. CASE j = dst
    BY <1>5, <1>7, <1>8, <1>12, <1>14, <2>2
  <2>3. CASE j # src /\ j # dst
    BY <1>8, <2>3
  <2> QED BY <2>1, <2>2, <2>3
<1>16. ASSUME NEW t, CopyIs(t), \A e : Pending(e) => Pending(e)' PROVE CopyIs(t)'
  BY <1>1, <1>8, <1>15, <1>16, CopyKept
<1>17. \A j \in 1 .. Len(msgs) : /\ msgs[j].app = currApp /\ msgs[j].cmd = "sort_dev"
                                 /\ msgs[j].cmd # "dev_list" /\ msgs[j].cmd # "rename_group"
  BY <1>12
<1> QED BY <1>3, <1>12, <1>13, <1>16, <1>17, UserCopied

LEMMA CopyNext ==
  ASSUME KInv, KInv', CopyInv, [Next]_vars
  PROVE  CopyInv'
<1>1. CASE UNCHANGED vars
  <2>1. UNCHANGED <<tables, requests, replies, faults, currApp, workDevs, groupList, renamed>>
    BY <1>1 DEF vars, serverVars, clientVars, history
  <2>2. Copied => Copied'
    <3> SUFFICES ASSUME NEW T, Chain(T), DevicesOf(T[0]), GroupsOf(T[0]) PROVE Copied'
      BY DEF Copied
    <3>1. Chain(T)'
      BY <2>1, ChainKept
    <3>2. DevicesOf(T[0])'
      BY <2>1 DEF DevicesOf, NoDevList
    <3>3. NoLists' => NoLists
      BY <2>1 DEF NoLists
    <3>4. CopyIs(T[0]) => CopyIs(T[0])'
      <4>1. \A g : Pending(g) => Pending(g)'
        BY <2>1 DEF Pending
      <4>2. Typed /\ Typed'
        BY DEF KInv
      <4> QED BY <2>1, <4>1, <4>2, CopyKept
    <3> QED BY <3>1, <3>2, <3>3, <3>4 DEF Copied, GroupsOf
  <2> QED BY <2>1, <2>2 DEF CopyInv, AboutCurrent, RenamedLast, NoDevList
<1>2. CASE Server
  BY <1>2, ServerKeepsCopy
<1>3. CASE LoseRequest \/ LoseReply
  <2>1. faults' # 0
    BY <1>3, ChannelFacts DEF LoseRequest, LoseReply, Fail
  <2> QED BY <2>1 DEF CopyInv
<1>4. CASE CenterRecv
  BY <1>4, RecvCopied DEF CopyInv
<1>5. CASE User
  <2> SUFFICES ASSUME faults' = 0, ~renamed' PROVE CopyInv'
    BY DEF CopyInv
  <2>1. Aside
    BY <1>5, UserIsAside
  <2>2. ASSUME NEW a \in App, SelectApp(a) PROVE CopyInv'
    BY <2>1, <2>2, SelectCopied
  <2>3. ASSUME NEW i \in DOMAIN groupList, SortDevices(i) \/ DragDevice(i) PROVE CopyInv'
    BY <2>1, <2>3, SortDevicesCopied, DragDeviceCopied
  <2>4. ASSUME NEW h \in Group, MoveDevices(h) PROVE CopyInv'
    BY <2>1, <2>4, MoveDevicesCopied
  <2>5. ASSUME CloseMoveDialog \/ \E i \in DOMAIN groupList : \E D : OpenMoveDialog(i, D)
        PROVE  CopyInv'
    <3>1. UNCHANGED <<requests, currApp, groupList, renamed>>
      BY <2>5 DEF CloseMoveDialog, OpenMoveDialog
    <3> QED BY <2>1, <3>1, SilentCopied
  <2>6. CASE Sending
    BY <2>1, <2>2, <2>3, <2>4, <2>6, EditsCopied, DevicesCopied DEF Sending
  <2>7. CASE Looking
    BY <2>3, <2>5, <2>7 DEF Looking
  <2> QED BY <1>5, <2>6, <2>7 DEF User
<1> QED BY <1>1, <1>2, <1>3, <1>4, <1>5 DEF Next

LEMMA CopyInit == Init => CopyInv
<1> SUFFICES ASSUME Init PROVE CopyInv
  OBVIOUS
<1>1. PICK q : requests = <<q>> /\ q.cmd = "dev_list" /\ q.app = currApp
  BY DEF Init
<1>2. Len(requests) = 1 /\ requests[1] = q /\ Len(replies) = 0
  BY <1>1 DEF Init
<1>3. AboutCurrent /\ RenamedLast /\ ~NoDevList(requests, 0)
  BY <1>1, <1>2 DEF AboutCurrent, RenamedLast, NoDevList
<1> QED BY <1>3 DEF CopyInv

LEMMA CopiedIsStored == KInv /\ CopyInv => CopyIsStored
<1> SUFFICES ASSUME KInv, CopyInv, Settled, faults = 0, ~renamed
             PROVE  /\ workDevs = tables[currApp].devices
                    /\ Names = DOMAIN tables[currApp].groups
                    /\ Cardinality(Names) = Len(groupList)
                    /\ \A i \in DOMAIN groupList :
                         /\ groupList[i].devs = tables[currApp].groups[groupList[i].name]
                         /\ Range(groupList[i].shown) = Range(groupList[i].devs)
                         /\ groupList[i].dragged \/ groupList[i].shown = groupList[i].devs
  BY DEF CopyIsStored
<1>1. Len(requests) = 0 /\ Len(replies) = 0 /\ Typed
  BY DEF Settled, KInv
<1>2. NoDevList(requests, 0) /\ NoDevList(replies, 0) /\ NoLists
  BY <1>1 DEF NoDevList, NoLists
<1>3. PICK T : Chain(T) /\ DevicesOf(T[0]) /\ GroupsOf(T[0])
  BY <1>2 DEF CopyInv, Copied
<1>4. T[0] = tables[currApp]
  BY <1>1, <1>3 DEF Chain
<1>5. \A g : ~Pending(g)
  BY <1>1 DEF Pending
<1>6. workDevs = tables[currApp].devices /\ CopyIs(tables[currApp])
  BY <1>2, <1>3, <1>4 DEF DevicesOf, GroupsOf
<1>7. DOMAIN groupList = 1 .. Len(groupList) /\ Len(groupList) \in Nat
  BY <1>1, CopyFacts
<1>8. Cardinality(Names) = Len(groupList)
  <2> DEFINE n == Len(groupList)
             f == [i \in 1 .. n |-> groupList[i].name]
  <2>1. f \in Bijection(1 .. n, Names)
    <3>1. \A i, j \in 1 .. n : f[i] = f[j] => i = j
      BY <1>6 DEF CopyIs
    <3>2. Names = {groupList[i].name : i \in 1 .. n}
      BY <1>7 DEF Names
    <3>3. f \in [1 .. n -> Names] /\ \A g \in Names : \E i \in 1 .. n : f[i] = g
      BY <3>2
    <3> QED BY <3>1, <3>3 DEF Bijection, Injection, Surjection, IsInjective
  <2>2. IsFiniteSet(1 .. n) /\ Cardinality(1 .. n) = n
    <3>1. IsFiniteSet(1 .. n) /\ Cardinality(1 .. n) = IF 1 > n THEN 0 ELSE n - 1 + 1
      BY <1>7, FS_Interval, SMTT(20)
    <3> QED BY <1>7, <3>1
  <2> HIDE DEF f
  <2>3. Cardinality(1 .. n) = Cardinality(Names)
    <3>1. ExistsBijection(1 .. n, Names)
      BY <2>1 DEF ExistsBijection
    <3> QED BY <2>2, <3>1, FS_Bijection
  <2> QED BY <2>2, <2>3
<1> QED BY <1>5, <1>6, <1>7, <1>8 DEF CopyIs, SameOrPending, Shows

(***************************************************************************)
(* The app's copy is a replica of what the server stores for the current   *)
(* application, once nothing is in flight: however the user acted and      *)
(* switched between applications, unless something failed or the list of a *)
(* group was sent while the group was being renamed.  A view that was      *)
(* dragged shows the same devices.                                         *)
(***************************************************************************)
THEOREM CopyIsReplica == Spec => []CopyIsStored
<1>1. Init => KInv /\ CopyInv
  BY KInit, CopyInit
<1>2. KInv /\ CopyInv /\ [Next]_vars => (KInv /\ CopyInv)'
  BY KNext, CopyNext
<1>3. KInv /\ CopyInv => CopyIsStored
  BY CopiedIsStored
<1> QED BY <1>1, <1>2, <1>3, PTL DEF Spec

-----------------------------------------------------------------------------
(* Lists without repetitions *)

LEMMA PickedOnce ==
  ASSUME NEW S, NEW s \in Seq(S), NEW I \in SUBSET (1 .. Len(s)),
         \A i, j \in I : s[i] = s[j] => i = j
  PROVE  IsInjective(Picked(s, I))
<1>1. /\ Picked(s, I) \in Seq(S)
      /\ Len(Picked(s, I)) = Cardinality(I)
      /\ \A k \in 1 .. Cardinality(I) :
           Place(I, k) \in I /\ Rank(I, Place(I, k)) = k /\ Picked(s, I)[k] = s[Place(I, k)]
  BY PickedFacts
<1>2. DOMAIN Picked(s, I) = 1 .. Cardinality(I)
  BY <1>1
<1>3. \A h, k \in 1 .. Cardinality(I) : Picked(s, I)[h] = Picked(s, I)[k] => h = k
  <2> SUFFICES ASSUME NEW h \in 1 .. Cardinality(I), NEW k \in 1 .. Cardinality(I),
                      Picked(s, I)[h] = Picked(s, I)[k]
               PROVE  h = k
    OBVIOUS
  <2>1. Place(I, h) = Place(I, k)
    BY <1>1
  <2> QED BY <1>1, <2>1
<1> QED BY <1>2, <1>3 DEF IsInjective

LEMMA RemovedOnce ==
  ASSUME NEW S, NEW s \in Seq(S), IsInjective(s), NEW D
  PROVE  IsInjective(RemoveAll(s, D)) /\ Range(RemoveAll(s, D)) = Range(s) \ D
<1> DEFINE I == {i \in DOMAIN s : s[i] \in D => RepeatedAt(s, i)}
<1>1. DOMAIN s = 1 .. Len(s) /\ Len(s) \in Nat
  OBVIOUS
<1>2. \A i, j \in 1 .. Len(s) : s[i] = s[j] => i = j
  BY <1>1 DEF IsInjective
<1>3. \A i \in 1 .. Len(s) : ~RepeatedAt(s, i)
  <2>1. \A i \in 1 .. Len(s) : \A j \in 1 .. (i - 1) : j \in 1 .. Len(s) /\ j # i
    BY <1>1
  <2> QED BY <1>2, <2>1 DEF RepeatedAt
<1>4. I \in SUBSET (1 .. Len(s)) /\ \A i \in 1 .. Len(s) : i \in I <=> s[i] \notin D
  BY <1>1, <1>3
<1>5. RemoveAll(s, D) = Picked(s, I)
  BY DEF RemoveAll
<1> HIDE DEF I
<1>6. IsInjective(Picked(s, I))
  BY <1>2, <1>4, PickedOnce
<1>7. Range(Picked(s, I)) = {s[i] : i \in I}
  BY <1>4, PickedFacts
<1>8. {s[i] : i \in I} = Range(s) \ D
  BY <1>1, <1>4 DEF Range
<1> QED BY <1>5, <1>6, <1>7, <1>8

LEMMA AppendedOnce ==
  ASSUME NEW S, NEW s \in Seq(S), NEW l \in Seq(S), IsInjective(s)
  PROVE  IsInjective(AppendNew(s, l))
<1> DEFINE I == {i \in DOMAIN l : l[i] \notin Range(s) /\ ~RepeatedAt(l, i)}
           p == Picked(l, I)
<1>1. DOMAIN l = 1 .. Len(l) /\ Len(l) \in Nat /\ DOMAIN s = 1 .. Len(s) /\ Len(s) \in Nat
  OBVIOUS
<1>2. AppendNew(s, l) = s \o p
  BY DEF AppendNew
<1>3. I \in SUBSET (1 .. Len(l))
      /\ \A i \in I : l[i] \notin Range(s) /\ ~RepeatedAt(l, i)
  BY <1>1
<1> HIDE DEF I
<1>4. \A i, j \in I : l[i] = l[j] => i = j
  <2>1. ASSUME NEW i \in I, NEW j \in I, i < j PROVE l[i] # l[j]
    <3>1. i \in 1 .. (j - 1)
      BY <1>1, <1>3, <2>1
    <3> QED BY <1>3, <3>1 DEF RepeatedAt
  <2>2. \A i, j \in I : i < j \/ j < i \/ i = j
    BY <1>1, <1>3
  <2> QED BY <2>1, <2>2
<1>5. IsInjective(p) /\ p \in Seq(S)
  BY <1>3, <1>4, PickedOnce, PickedFacts
<1>6. \A k \in 1 .. Len(p) : p[k] \notin Range(s)
  <2>1. Range(p) = {l[i] : i \in I}
    BY <1>3, PickedFacts
  <2>2. \A k \in 1 .. Len(p) : p[k] \in Range(p)
    BY <1>5, Ranged
  <2> QED BY <1>3, <2>1, <2>2
<1> HIDE DEF p
<1>7. /\ s \o p \in Seq(S) /\ Len(s) \in Nat /\ Len(p) \in Nat
      /\ Len(s \o p) = Len(s) + Len(p)
      /\ \A j \in 1 .. Len(s) : (s \o p)[j] = s[j]
      /\ \A j \in 1 .. Len(p) : (s \o p)[Len(s) + j] = p[j]
  BY <1>5, Joined
<1>8. \A i \in 1 .. Len(s) + Len(p) :
        \/ i \in 1 .. Len(s) /\ (s \o p)[i] = s[i] /\ s[i] \in Range(s)
        \/ i - Len(s) \in 1 .. Len(p) /\ (s \o p)[i] = p[i - Len(s)]
  <2> SUFFICES ASSUME NEW i \in 1 .. Len(s) + Len(p), i \notin 1 .. Len(s)
               PROVE  i - Len(s) \in 1 .. Len(p) /\ (s \o p)[i] = p[i - Len(s)]
    BY <1>7, Ranged
  <2>1. i - Len(s) \in 1 .. Len(p) /\ Len(s) + (i - Len(s)) = i
    BY <1>7
  <2> QED BY <1>7, <2>1
<1>9. \A i, j \in 1 .. Len(s) : s[i] = s[j] => i = j
  BY <1>1 DEF IsInjective
<1>10. \A i, j \in 1 .. Len(p) : p[i] = p[j] => i = j
  <2>1. DOMAIN p = 1 .. Len(p)
    BY <1>5
  <2> QED BY <1>5, <2>1 DEF IsInjective
<1>11. ASSUME NEW i \in 1 .. Len(s) + Len(p), NEW j \in 1 .. Len(s) + Len(p),
              (s \o p)[i] = (s \o p)[j]
       PROVE  i = j
  <2>1. CASE i \in 1 .. Len(s) /\ j \in 1 .. Len(s)
    BY <1>7, <1>9, <1>11, <2>1
  <2>2. CASE i \notin 1 .. Len(s) /\ j \notin 1 .. Len(s)
    <3>1. i - Len(s) = j - Len(s)
      BY <1>8, <1>10, <1>11, <2>2
    <3> QED BY <1>7, <3>1
  <2>3. CASE i \in 1 .. Len(s) /\ j \notin 1 .. Len(s)
    BY <1>6, <1>8, <1>11, <2>3
  <2>4. CASE i \notin 1 .. Len(s) /\ j \in 1 .. Len(s)
    BY <1>6, <1>8, <1>11, <2>4
  <2> QED BY <2>1, <2>2, <2>3, <2>4
<1>12. DOMAIN (s \o p) = 1 .. Len(s) + Len(p)
  BY <1>7
<1> QED BY <1>2, <1>11, <1>12 DEF IsInjective

LEMMA PushedOnce ==
  ASSUME NEW S, NEW s \in Seq(S), IsInjective(s), NEW d \in S, d \notin Range(s)
  PROVE  IsInjective(Append(s, d)) /\ Range(Append(s, d)) = Range(s) \cup {d}
<1> DEFINE n == Len(s)
           l == Append(s, d)
<1>1. /\ n \in Nat /\ DOMAIN s = 1 .. n /\ DOMAIN l = 1 .. n + 1 /\ l[n + 1] = d
      /\ \A i \in 1 .. n : l[i] = s[i]
  BY Appended
<1>2. \A i \in 1 .. n + 1 : i \in 1 .. n \/ i = n + 1
  BY <1>1
<1>3. \A i \in 1 .. n : s[i] # d /\ i \in 1 .. n + 1
  BY <1>1 DEF Range
<1>4. n + 1 \in 1 .. n + 1
  BY <1>1
<1> HIDE DEF n, l
<1>5. IsInjective(l)
  BY <1>1, <1>2, <1>3 DEF IsInjective
<1>6. Range(l) = Range(s) \cup {d}
  BY <1>1, <1>2, <1>3, <1>4 DEF Range
<1> QED BY <1>5, <1>6 DEF l

-----------------------------------------------------------------------------
(***************************************************************************)
(* The patient user.  While nothing failed and the user waited for each    *)
(* answer, the exchange is in one of three phases: a single request that   *)
(* is not a list is on its way (Asking), its answer is (Answered), or only *)
(* lists are (Sorting), each of which the table can take.                  *)
(***************************************************************************)
Fits(t, g, l) ==
  /\ IsInjective(l) /\ Range(l) \subseteq t.devices
  /\ g = All => Range(l) = t.devices

Current == tables[currApp]
HasAll == All \in DOMAIN Current.groups

Sorting ==
  /\ HasAll
  /\ \A i \in 1 .. Len(requests) :
       requests[i].cmd = "sort_dev" /\ Fits(Current, requests[i].group, requests[i].devs)
  /\ \A i \in 1 .. Len(replies) : replies[i].cmd = "sort_dev"
  /\ \A g \in DOMAIN Current.groups :
       \/ Fits(Current, g, Current.groups[g])
       \/ \E i \in 1 .. Len(requests) : Sorts(requests[i], g)

AskingFor(q) ==
  /\ q.cmd # "sort_dev"
  /\ \/ HasAll
     \/ q.cmd \in {"dev_list", "group_list", "order_group"}
     \/ q.cmd = "add_group" /\ q.group = All
  /\ q.cmd \in {"del_group", "rename_group"} => q.group # All

Asking ==
  /\ Len(requests) = 1 /\ Len(replies) = 0
  /\ Orderly(Current) /\ AskingFor(requests[1])

\* The lists of t still have the devices of D.
LeftBy(t, D) ==
  \A g \in DOMAIN t.groups :
    /\ IsInjective(t.groups[g]) /\ Range(t.groups[g]) \ D \subseteq t.devices
    /\ g = All => Range(t.groups[g]) \ D = t.devices

\* The lists of t do not have device d yet.
JoinedBy(t, d) ==
  /\ d \in t.devices
  /\ \A g \in DOMAIN t.groups :
       /\ IsInjective(t.groups[g]) /\ Range(t.groups[g]) \subseteq t.devices
       /\ g = All => Range(t.groups[g]) = t.devices \ {d}

AnsweredBy(r) ==
  \/ r.cmd = "dev_list" /\ Orderly(Current)
  \/ r.cmd = "group_list" /\ r.groups = Current.groups /\ Orderly(Current)
  \/ /\ r.cmd \in {"add_group", "del_group", "rename_group"} \/ (r.cmd = "add_dev" /\ ~r.ok)
     /\ HasAll /\ Orderly(Current)
  \/ r.cmd = "add_dev" /\ r.ok /\ HasAll /\ JoinedBy(Current, r.request.dev)
  \/ r.cmd = "del_dev" /\ HasAll /\ LeftBy(Current, r.request.devs)

Answered == Len(requests) = 0 /\ Len(replies) = 1 /\ AnsweredBy(replies[1])

\* The devices of the dialog are the application's, and none of them is being deleted.
DialogFits ==
  /\ Range(dialog.devs) \subseteq Current.devices
  /\ \A i \in 1 .. Len(requests) : requests[i].cmd = "del_dev" => Range(dialog.devs) = {}

Patience ==
  /\ ~renamed /\ DialogFits
  /\ \A a \in App \ {currApp} : Orderly(tables[a])
  /\ \A i \in 1 .. Len(requests) : requests[i].app = currApp
  /\ Asking \/ Answered \/ Sorting

PatientInv == faults = 0 /\ ~hasty => Patience

LEMMA FitsShown ==
  ASSUME NEW n, NEW t, NEW g, Shows(n), Fits(t, g, n.devs)
  PROVE  Fits(t, g, n.shown)
BY DEF Shows, Fits

LEMMA OrderlyFacts ==
  ASSUME NEW t
  PROVE  Orderly(t) <=> /\ \A g \in DOMAIN t.groups : Fits(t, g, t.groups[g])
                        /\ t.devices # {} => All \in DOMAIN t.groups
BY DEF Orderly, Fits

\* Once nothing is in flight the tables are orderly.
LEMMA PatientSettled ==
  ASSUME KInv, Patience, Len(requests) = 0, Len(replies) = 0
  PROVE  /\ HasAll /\ \A a \in App : Orderly(tables[a])
         /\ \A g \in DOMAIN Current.groups : Fits(Current, g, Current.groups[g])
<1>1. Sorting
  BY DEF Patience, Asking, Answered
<1>2. \A g \in DOMAIN Current.groups : Fits(Current, g, Current.groups[g])
  BY <1>1 DEF Sorting
<1>3. HasAll
  BY <1>1 DEF Sorting
<1>4. Orderly(Current)
  BY <1>2, <1>3, OrderlyFacts DEF HasAll
<1> QED BY <1>2, <1>3, <1>4 DEF Patience, Current

\* While no list and nothing that changes the groups is in flight, the copy is the table's.
LEMMA PatientCopy ==
  ASSUME KInv, CopyInv, faults = 0, ~renamed, Len(requests) = 0,
         Len(replies) = 0 \/ (Len(replies) = 1 /\ replies[1].cmd \in {"add_dev", "del_dev"})
  PROVE  /\ \A g : g \in DOMAIN Current.groups <=>
                     \E i \in 1 .. Len(groupList) : groupList[i].name = g
         /\ \A i \in 1 .. Len(groupList) :
              /\ groupList[i].name \in DOMAIN Current.groups
              /\ groupList[i].devs = Current.groups[groupList[i].name]
              /\ Shows(groupList[i])
<1>1. NoDevList(requests, 0) /\ NoDevList(replies, 0) /\ NoLists
  BY DEF NoDevList, NoLists, ListCmd
<1>2. PICK T : Chain(T) /\ GroupsOf(T[0])
  BY <1>1 DEF CopyInv, Copied
<1>3. T[0].groups = Current.groups
  <2>1. CASE Len(replies) = 0
    BY <1>2, <2>1 DEF Chain, Current
  <2>2. CASE Len(replies) = 1 /\ replies[1].cmd \in {"add_dev", "del_dev"}
    <3>1. /\ T[1] = Current /\ 1 - 1 = 0 /\ 1 \in 1 .. Len(replies) /\ 0 \in 0 .. Len(replies)
          /\ T \in [0 .. Len(replies) -> Table]
      BY <1>2, <2>2 DEF Chain, Current
    <3>2. Served(replies[1], T[0], T[1]) /\ T[0] \in Table
      BY <1>1, <1>2, <3>1 DEF Chain
    <3>3. \A D : [T[0] EXCEPT !.devices = D].groups = T[0].groups
      BY <3>2 DEF Table
    <3>4. T[1] = T[0] \/ \E D : T[1] = [T[0] EXCEPT !.devices = D]
      BY <2>2, <3>2 DEF Served
    <3>5. T[1].groups = T[0].groups
      BY <3>3, <3>4, ZenonT(40)
    <3> QED BY <3>1, <3>5
  <2> QED BY <2>1, <2>2
<1>4. CopyIs(T[0]) /\ Typed
  BY <1>1, <1>2 DEF GroupsOf, KInv
<1>5. \A g : ~Pending(g)
  BY DEF Pending, SortsAck
<1> QED BY <1>3, <1>4, <1>5, CopyIsNow

\* A step that ends in one of the phases and leaves the other tables alone.
LEMMA PatientStep ==
  ASSUME Patience, ~renamed', DialogFits', currApp' = currApp,
         \A a \in App \ {currApp} : tables'[a] = tables[a],
         \A i \in 1 .. Len(requests') : requests'[i].app = currApp,
         Asking' \/ Answered' \/ Sorting'
  PROVE  Patience'
BY DEF Patience, Orderly

\* Steps that delete no device keep those of the dialog.
LEMMA DialogStays ==
  ASSUME Range(dialog'.devs) \subseteq Current'.devices,
         \A i \in 1 .. Len(requests') : requests'[i].cmd # "del_dev"
  PROVE  DialogFits'
BY DEF DialogFits

LEMMA SortingStarts ==
  ASSUME HasAll', Orderly(Current)', Len(requests') = 0, Len(replies') = 0
  PROVE  Sorting'
<1>1. \A g \in DOMAIN Current'.groups : Fits(Current', g, Current'.groups[g])
  BY DEF Orderly, Fits
<1> QED BY <1>1 DEF Sorting, Fits

LEMMA InsertOrderly ==
  ASSUME NEW t \in Table, Orderly(t), NEW g \in Group, g \notin DOMAIN t.groups,
         All \in DOMAIN t.groups \/ g = All
  PROVE  /\ Orderly(insertGroup(t, g)) /\ All \in DOMAIN insertGroup(t, g).groups
<1>1. PICK l \in Seq(Dev) : l = <<>>
  BY Short
<1>2. PICK u : u = insertGroup(t, g) /\ u = Row(t, g, l)
  BY <1>1 DEF insertGroup
<1>3. /\ u.devices = t.devices /\ DOMAIN u.groups = DOMAIN t.groups \cup {g}
      /\ u.groups[g] = l /\ \A h \in DOMAIN t.groups \ {g} : u.groups[h] = t.groups[h]
  BY <1>2, NewRows
<1>4. /\ \A h \in DOMAIN t.groups : Fits(t, h, t.groups[h])
      /\ t.devices # {} => All \in DOMAIN t.groups
  BY OrderlyFacts
<1>5. All \in DOMAIN u.groups
  BY <1>3
<1>6. Fits(u, g, l)
  <2>1. IsInjective(l) /\ Range(l) = {}
    BY <1>1, Short DEF IsInjective
  <2>2. g = All => t.devices = {}
    BY <1>4
  <2> QED BY <1>3, <2>1, <2>2 DEF Fits
<1>7. \A h \in DOMAIN u.groups : Fits(u, h, u.groups[h])
  BY <1>3, <1>4, <1>6 DEF Fits
<1> QED BY <1>2, <1>5, <1>7, OrderlyFacts

LEMMA DeleteOrderly ==
  ASSUME NEW t \in Table, Orderly(t), NEW g \in Group, g # All, All \in DOMAIN t.groups
  PROVE  Orderly(delGroupNode(t, g)) /\ All \in DOMAIN delGroupNode(t, g).groups
<1>1. PICK l \in Seq(Dev) : l = <<>>
  BY Short
<1>2. PICK u : u = delGroupNode(t, g) /\ u = WithoutRow(t, g)
  BY DEF delGroupNode
<1>3. /\ u.devices = t.devices /\ DOMAIN u.groups = DOMAIN t.groups \ {g}
      /\ \A h \in DOMAIN t.groups \ {g} : u.groups[h] = t.groups[h]
  <2>1. /\ Row(t, g, l) \in Table
        /\ WithoutRow(t, g).devices = t.devices
        /\ DOMAIN WithoutRow(t, g).groups = DOMAIN t.groups \ {g}
        /\ \A h \in DOMAIN t.groups \ {g} : WithoutRow(t, g).groups[h] = t.groups[h]
    BY NewRows
  <2> QED BY <1>2, <2>1
<1>4. \A h \in DOMAIN t.groups : Fits(t, h, t.groups[h])
  BY OrderlyFacts
<1>5. \A h \in DOMAIN u.groups : Fits(u, h, u.groups[h])
  BY <1>3, <1>4 DEF Fits
<1>6. All \in DOMAIN u.groups
  BY <1>3
<1> QED BY <1>2, <1>5, <1>6, OrderlyFacts

LEMMA RenameOrderly ==
  ASSUME NEW t \in Table, Orderly(t), NEW old \in DOMAIN t.groups, NEW new \in Group,
         old # All, All \in DOMAIN t.groups, new \notin DOMAIN t.groups
  PROVE  /\ Orderly(updateGroupName(t, old, new))
         /\ All \in DOMAIN updateGroupName(t, old, new).groups
<1>1. PICK l \in Seq(Dev) : l = t.groups[old]
  BY TableFacts DEF IsTable, IsRows
<1>2. old \in Group
  BY TableFacts DEF IsTable, IsRows
<1>3. PICK w \in Table : /\ w = WithoutRow(t, old) /\ w.devices = t.devices
                         /\ DOMAIN w.groups = DOMAIN t.groups \ {old}
                         /\ \A h \in DOMAIN t.groups \ {old} : w.groups[h] = t.groups[h]
  <2>1. /\ Row(t, old, l) \in Table /\ WithoutRow(t, old) \in Table
        /\ WithoutRow(t, old).devices = t.devices
        /\ DOMAIN WithoutRow(t, old).groups = DOMAIN t.groups \ {old}
        /\ \A h \in DOMAIN t.groups \ {old} : WithoutRow(t, old).groups[h] = t.groups[h]
    BY <1>2, NewRows
  <2> QED BY <2>1
<1>4. PICK u : u = updateGroupName(t, old, new) /\ u = Row(w, new, l)
  BY <1>1, <1>3 DEF updateGroupName
<1>5. /\ u.devices = w.devices /\ DOMAIN u.groups = DOMAIN w.groups \cup {new}
      /\ u.groups[new] = l /\ \A h \in DOMAIN w.groups \ {new} : u.groups[h] = w.groups[h]
  BY <1>4, NewRows
<1>6. \A h \in DOMAIN t.groups : Fits(t, h, t.groups[h])
  BY OrderlyFacts
<1>7. \A h \in DOMAIN u.groups : Fits(u, h, u.groups[h])
  BY <1>1, <1>3, <1>5, <1>6 DEF Fits
<1>8. All \in DOMAIN u.groups
  BY <1>3, <1>5
<1> QED BY <1>4, <1>7, <1>8, OrderlyFacts

LEMMA AnsweredFacts ==
  ASSUME KInv, requests # <<>>, Request.app = currApp, currApp' = currApp,
         NEW t, NEW r \in Rep, Answer(t, r)
  PROVE  /\ Current' = t /\ \A a \in App \ {currApp} : tables'[a] = tables[a]
         /\ Len(requests) \in Nat \ {0} /\ Len(requests') = Len(requests) - 1
         /\ \A j \in 1 .. Len(requests) - 1 : requests'[j] = requests[j + 1]
         /\ Request = requests[1] /\ Request \in Ask /\ Stored = Current
         /\ Len(replies') = Len(replies) + 1 /\ replies'[Len(replies) + 1] = r
         /\ \A j \in 1 .. Len(replies) : replies'[j] = replies[j]
<1>1. /\ requests \in Seq(Ask) /\ replies \in Seq(Rep) /\ currApp \in App
      /\ tables \in [App -> Table]
  BY ChannelFacts
<1>2. /\ tables' = [tables EXCEPT ![currApp] = t]
      /\ requests' = Tail(requests) /\ replies' = Append(replies, r)
  BY DEF Answer
<1>3. Current' = t /\ Stored = Current /\ \A a \in App \ {currApp} : tables'[a] = tables[a]
  BY <1>1, <1>2 DEF Current, Stored
<1>4. /\ Len(requests) \in Nat \ {0} /\ Len(requests') = Len(requests) - 1
      /\ \A j \in 1 .. Len(requests) - 1 : requests'[j] = requests[j + 1]
      /\ Request = requests[1] /\ Request \in Ask
  BY <1>1, <1>2, Tailed DEF Request
<1>5. /\ Len(replies') = Len(replies) + 1 /\ replies'[Len(replies) + 1] = r
      /\ \A j \in 1 .. Len(replies) : replies'[j] = replies[j]
  BY <1>1, <1>2, Appended
<1> QED BY <1>3, <1>4, <1>5

\* The answer to a single request that is not a list.
LEMMA AskingServed ==
  ASSUME NEW t \in Table, NEW u \in Table, NEW q \in Ask, NEW r \in Rep, t = Current,
         Orderly(t), AskingFor(q), Served(r, t, u), Current' = u,
         \/ q.cmd \in {"group_list", "order_group"} /\ r.cmd = "group_list"
         \/ q.cmd \in AckCmd /\ r.cmd = q.cmd /\ r.request = q
  PROVE  AnsweredBy(r)'
<1>1. HasAll' <=> All \in DOMAIN u.groups
  BY DEF HasAll
<1>2. HasAll <=> All \in DOMAIN t.groups
  BY DEF HasAll
<1>3. CASE r.cmd = "group_list"
  <2>1. u = t /\ r.groups = u.groups
    BY <1>3 DEF Served
  <2> QED BY <1>3, <2>1 DEF AnsweredBy, Orderly
<1>4. CASE r.cmd # "group_list"
  <2>1. q.cmd \in AckCmd /\ r.cmd = q.cmd /\ r.request = q /\ r.cmd # "sort_dev"
    BY <1>4 DEF AskingFor
  <2>2. /\ HasAll \/ (r.cmd = "add_group" /\ r.request.group = All)
        /\ r.cmd \in {"del_group", "rename_group"} => r.request.group # All
    BY <2>1 DEF AskingFor, AckCmd
  <2>3. r.cmd \in {"add_group", "del_group", "rename_group"} => r.request.group \in Group
    BY <2>1, AskFacts
  <2>4. r.cmd = "rename_group" => r.request.to \in Group
    BY <2>1, AskFacts
  <2>5. ASSUME Orderly(u), All \in DOMAIN u.groups,
               r.cmd \in {"add_group", "del_group", "rename_group"}
                 \/ (r.cmd = "add_dev" /\ ~r.ok)
        PROVE  AnsweredBy(r)'
    BY <1>1, <2>5 DEF AnsweredBy, Orderly
  <2>6. CASE r.cmd = "add_group"
    <3>1. CASE r.ok
      <4>1. r.request.group \notin DOMAIN t.groups /\ u = insertGroup(t, r.request.group)
        BY <2>6, <3>1 DEF Served
      <4> QED BY <1>2, <2>2, <2>3, <2>5, <2>6, <4>1, InsertOrderly
    <3>2. CASE ~r.ok
      <4>1. u = t /\ r.request.group \in DOMAIN t.groups
        BY <2>6, <3>2 DEF Served
      <4> QED BY <1>2, <2>2, <2>5, <2>6, <4>1
    <3> QED BY <3>1, <3>2
  <2>7. CASE r.cmd = "del_group"
    <3>1. CASE r.ok
      <4>1. u = delGroupNode(t, r.request.group)
        BY <2>7, <3>1 DEF Served
      <4> QED BY <1>2, <2>2, <2>3, <2>5, <2>7, <4>1, DeleteOrderly
    <3>2. CASE ~r.ok
      <4>1. u = t
        BY <2>7, <3>2 DEF Served
      <4> QED BY <1>2, <2>2, <2>5, <2>7, <4>1
    <3> QED BY <3>1, <3>2
  <2>8. CASE r.cmd = "rename_group"
    <3>1. CASE r.ok
      <4>1. /\ r.request.group \in DOMAIN t.groups /\ r.request.to \notin DOMAIN t.groups
            /\ u = updateGroupName(t, r.request.group, r.request.to)
        BY <2>8, <3>1 DEF Served
      <4> QED BY <1>2, <2>2, <2>4, <2>5, <2>8, <4>1, RenameOrderly
    <3>2. CASE ~r.ok
      <4>1. u = t
        BY <2>8, <3>2 DEF Served
      <4> QED BY <1>2, <2>2, <2>5, <2>8, <4>1
    <3> QED BY <3>1, <3>2
  <2>9. CASE r.cmd = "add_dev"
    <3>1. CASE r.ok
      <4>1. PICK d : /\ d = r.request.dev /\ d \notin t.devices
                     /\ u = [t EXCEPT !.devices = t.devices \cup {d}]
        BY <2>9, <3>1 DEF Served
      <4>2. u.devices = t.devices \cup {d} /\ u.groups = t.groups
        BY <4>1 DEF Table
      <4>3. JoinedBy(u, d)
        BY <4>1, <4>2, OrderlyFacts DEF JoinedBy, Fits
      <4>4. All \in DOMAIN u.groups
        BY <1>2, <2>2, <2>9, <4>2
      <4> QED BY <1>1, <2>9, <3>1, <4>1, <4>3, <4>4 DEF AnsweredBy, JoinedBy
    <3>2. CASE ~r.ok
      <4>1. u = t
        BY <2>9, <3>2 DEF Served
      <4> QED BY <1>2, <2>2, <2>5, <2>9, <3>2, <4>1
    <3> QED BY <3>1, <3>2
  <2>10. CASE r.cmd = "del_dev"
    <3>1. PICK D : D = r.request.devs /\ u = [t EXCEPT !.devices = t.devices \ D]
      BY <2>10 DEF Served
    <3>2. u.devices = t.devices \ D /\ u.groups = t.groups
      BY <3>1 DEF Table
    <3>3. LeftBy(u, D)
      BY <3>2, OrderlyFacts DEF LeftBy, Fits
    <3>4. All \in DOMAIN u.groups
      BY <1>2, <2>2, <2>10, <3>2
    <3> QED BY <1>1, <2>10, <3>1, <3>3, <3>4 DEF AnsweredBy, LeftBy
  <2> QED BY <2>1, <2>6, <2>7, <2>8, <2>9, <2>10 DEF AckCmd
<1> QED BY <1>3, <1>4

LEMMA DevicesServed ==
  ASSUME NEW t \in Table, NEW u \in Table, NEW r \in Rep, Served(r, t, u), r.cmd # "del_dev"
  PROVE  t.devices \subseteq u.devices
<1>1. r.cmd \in {"add_group", "del_group", "rename_group", "sort_dev", "add_dev"} =>
        r.request \in Ask /\ r.request.cmd = r.cmd
  BY RepFacts DEF AckCmd
<1>2. PICK e \in Seq(Dev) : e = <<>>
  BY Short
<1>3. CASE r.cmd = "add_group" /\ r.ok
  <2>1. r.request.group \in Group /\ u = Row(t, r.request.group, e)
    BY <1>1, <1>2, <1>3, AskFacts DEF Served, insertGroup
  <2> QED BY <2>1, NewRows
<1>4. CASE r.cmd = "del_group" /\ r.ok
  <2>1. r.request.group \in Group /\ u = WithoutRow(t, r.request.group)
    BY <1>1, <1>4, AskFacts DEF Served, delGroupNode
  <2> QED BY <1>2, <2>1, NewRows
<1>5. CASE r.cmd = "rename_group" /\ r.ok
  <2>1. PICK g \in Group, h \in Group : g = r.request.group /\ h = r.request.to
    BY <1>1, <1>5, AskFacts
  <2>2. g \in DOMAIN t.groups /\ u = Row(WithoutRow(t, g), h, t.groups[g])
    BY <1>5, <2>1 DEF Served, updateGroupName
  <2>3. t.groups[g] \in Seq(Dev)
    BY <2>2, TableFacts DEF IsTable, IsRows
  <2>4. WithoutRow(t, g) \in Table /\ WithoutRow(t, g).devices = t.devices
    BY <1>2, <2>1, NewRows
  <2>5. PICK w \in Table, l \in Seq(Dev) :
          w = WithoutRow(t, g) /\ w.devices = t.devices /\ l = t.groups[g]
    BY <2>3, <2>4
  <2>6. u = Row(w, h, l)
    BY <2>2, <2>5
  <2>7. Row(w, h, l).devices = w.devices
    BY NewRows
  <2> QED BY <2>5, <2>6, <2>7
<1>6. CASE r.cmd = "sort_dev"
  <2>1. PICK g \in Group, l \in Seq(Dev) : g = r.request.group /\ l = r.request.devs
    BY <1>1, <1>6, AskFacts
  <2>2. u = Row(t, g, l) \/ u = t
    BY <1>6, <2>1 DEF Served, updateDevList
  <2> QED BY <2>1, <2>2, NewRows
<1>7. CASE r.cmd = "add_dev" /\ r.ok
  <2>1. PICK d : u = [t EXCEPT !.devices = @ \cup {d}]
    BY <1>7 DEF Served
  <2> QED BY <2>1 DEF Table
<1>8. \/ u = t \/ r.cmd = "sort_dev"
      \/ r.cmd \in {"add_group", "del_group", "rename_group", "add_dev"} /\ r.ok
  BY DEF Served
<1> QED BY <1>3, <1>4, <1>5, <1>6, <1>7, <1>8

\* The answer to one of several lists.
LEMMA SortingServed ==
  ASSUME KInv, Sorting, requests # <<>>, Request.app = currApp, currApp' = currApp,
         NEW t \in Table, NEW r \in Rep, Answer(t, r), Served(r, Stored, t),
         r.cmd = Request.cmd, r.request = Request
  PROVE  Sorting'
<1> DEFINE m == Len(requests)
           n == Len(replies)
<1>1. /\ Current' = t /\ m \in Nat \ {0} /\ Len(requests') = m - 1
      /\ \A j \in 1 .. m - 1 : requests'[j] = requests[j + 1]
      /\ Request = requests[1] /\ Request \in Ask /\ Stored = Current
      /\ Len(replies') = n + 1 /\ replies'[n + 1] = r
      /\ \A j \in 1 .. n : replies'[j] = replies[j]
  BY AnsweredFacts
<1>2. n \in Nat /\ Current \in Table
  BY ChannelFacts DEF Current
<1>3. Request.cmd = "sort_dev" /\ Fits(Current, Request.group, Request.devs)
  BY <1>1 DEF Sorting
<1>4. PICK s \in Group, l \in Seq(Dev) : s = Request.group /\ l = Request.devs
  BY <1>1, <1>3, AskFacts
<1>5. t = updateDevList(Current, s, l)
  BY <1>1, <1>3, <1>4 DEF Served
<1>6. /\ t.devices = Current.devices /\ DOMAIN t.groups = DOMAIN Current.groups
      /\ s \in DOMAIN t.groups => t.groups[s] = l
      /\ \A h \in DOMAIN t.groups \ {s} : t.groups[h] = Current.groups[h]
  <2>1. CASE s \in DOMAIN Current.groups
    <3>1. t = Row(Current, s, l)
      BY <1>5, <2>1 DEF updateDevList
    <3>2. /\ t.devices = Current.devices /\ DOMAIN t.groups = DOMAIN Current.groups \cup {s}
          /\ t.groups[s] = l
          /\ \A h \in DOMAIN Current.groups \ {s} : t.groups[h] = Current.groups[h]
      BY <1>2, <3>1, NewRows
    <3> QED BY <2>1, <3>2
  <2>2. CASE s \notin DOMAIN Current.groups
    BY <1>5, <2>2 DEF updateDevList
  <2> QED BY <2>1, <2>2
<1>7. \A g : \A k : Fits(Current, g, k) <=> Fits(t, g, k)
  BY <1>6 DEF Fits
<1>8. \A j \in 1 .. m - 1 : requests'[j].cmd = "sort_dev"
                            /\ Fits(t, requests'[j].group, requests'[j].devs)
  <2>1. \A j \in 1 .. m - 1 : j + 1 \in 1 .. m
    BY <1>1
  <2> QED BY <1>1, <1>7, <2>1 DEF Sorting
<1>9. \A j \in 1 .. n + 1 : replies'[j].cmd = "sort_dev"
  <2>1. \A j \in 1 .. n + 1 : j \in 1 .. n \/ j = n + 1
    BY <1>2
  <2> QED BY <1>1, <1>3, <2>1 DEF Sorting
<1>10. ASSUME NEW g \in DOMAIN t.groups
       PROVE  Fits(t, g, t.groups[g]) \/ \E i \in 1 .. m - 1 : Sorts(requests'[i], g)
  <2>1. CASE g = s
    BY <1>3, <1>4, <1>6, <1>7, <2>1
  <2>2. CASE g # s
    <3>1. t.groups[g] = Current.groups[g]
      BY <1>6, <1>10, <2>2
    <3>2. CASE Fits(Current, g, Current.groups[g])
      BY <1>7, <3>1, <3>2
    <3>3. CASE ~Fits(Current, g, Current.groups[g])
      <4>1. PICK i \in 1 .. m : Sorts(requests[i], g)
        BY <1>6, <1>10, <3>3 DEF Sorting
      <4>2. i # 1
        BY <1>1, <1>4, <2>2, <4>1 DEF Sorts
      <4>3. i - 1 \in 1 .. m - 1 /\ (i - 1) + 1 = i
        BY <1>1, <4>2
      <4>4. requests'[i - 1] = requests[i]
        BY <1>1, <4>3
      <4> QED BY <4>1, <4>3, <4>4
    <3> QED BY <3>2, <3>3
  <2> QED BY <2>1, <2>2
<1>11. All \in DOMAIN t.groups
  BY <1>6 DEF Sorting, HasAll
<1>12. HasAll'
  BY <1>1, <1>11 DEF HasAll
<1> HIDE DEF m, n
<1>13. \A j \in 1 .. m - 1 : Fits(Current, requests[j].group, requests[j].devs)'
  BY <1>1, <1>8 DEF Fits
<1>14. \A g \in DOMAIN Current'.groups : \/ Fits(Current', g, Current'.groups[g])
                                         \/ \E i \in 1 .. m - 1 : Sorts(requests'[i], g)
  BY <1>1, <1>10
<1> QED BY <1>1, <1>8, <1>9, <1>12, <1>13, <1>14 DEF Sorting, Fits

LEMMA ServerPatient ==
  ASSUME KInv, KInv', Patience, faults = 0, faults' = 0, Server
  PROVE  Patience'
<1>1. CenterThread /\ renamed' = renamed /\ currApp' = currApp /\ dialog' = dialog
  BY DEF Server, clientVars
<1>2. /\ requests \in Seq(Ask) /\ Len(requests) \in Nat /\ Len(replies) \in Nat
      /\ replies \in Seq(Rep) /\ currApp \in App /\ tables \in [App -> Table]
  BY ChannelFacts
<1>3. requests # <<>>
  BY <1>1 DEF CenterThread, Serving, dev_list, group_list, add_group, del_group, rename_group,
         sort_dev, add_dev, del_dev
<1>4. Request = requests[1] /\ Request \in Ask /\ 1 \in 1 .. Len(requests)
  BY <1>2, <1>3, Tailed DEF Request
<1>5. Request.app = currApp /\ Stored = Current /\ Stored \in Table
  BY <1>2, <1>4 DEF Patience, Stored, Current
<1>6. Asking \/ Sorting
  BY <1>4 DEF Patience, Answered
<1>7. ASSUME NEW t, NEW r \in Rep, Answer(t, r), Asking' \/ Answered' \/ Sorting',
             Request.cmd # "del_dev" => Current.devices \subseteq t.devices
      PROVE  Patience'
  <2>1. /\ \A a \in App \ {currApp} : tables'[a] = tables[a]
        /\ Len(requests) \in Nat \ {0} /\ Len(requests') = Len(requests) - 1
        /\ \A j \in 1 .. Len(requests) - 1 : requests'[j] = requests[j + 1]
        /\ Current' = t
    BY <1>1, <1>3, <1>5, <1>7, AnsweredFacts
  <2>2. \A j \in 1 .. Len(requests) - 1 : j + 1 \in 1 .. Len(requests)
    BY <1>2
  <2>3. \A j \in 1 .. Len(requests') : requests'[j].app = currApp
    BY <2>1, <2>2 DEF Patience
  <2>4. ~renamed'
    BY <1>1 DEF Patience
  <2>5. DialogFits'
    <3>1. Range(dialog.devs) \subseteq t.devices
      BY <1>4, <1>7 DEF Patience, DialogFits
    <3>2. \A j \in 1 .. Len(requests') : requests'[j].cmd = "del_dev" => Range(dialog.devs) = {}
      BY <2>1, <2>2 DEF Patience, DialogFits
    <3> QED BY <1>1, <2>1, <3>1, <3>2 DEF DialogFits
  <2> QED BY <1>1, <1>7, <2>1, <2>3, <2>4, <2>5, PatientStep
<1>8. ASSUME Asking, NEW t, NEW r \in Rep, Answer(t, r), AnsweredBy(r)',
             Request.cmd # "del_dev" => Current.devices \subseteq t.devices
      PROVE  Patience'
  <2>1. /\ Len(requests') = Len(requests) - 1
        /\ Len(replies') = Len(replies) + 1 /\ replies'[Len(replies) + 1] = r
    BY <1>1, <1>3, <1>5, <1>8, AnsweredFacts
  <2>2. Len(requests') = 0 /\ Len(replies') = 1 /\ replies'[1] = r
    BY <1>8, <2>1 DEF Asking
  <2>3. Answered'
    BY <1>8, <2>2 DEF Answered, AnsweredBy
  <2> QED BY <1>7, <1>8, <2>3
<1>9. CASE Request.cmd = "dev_list"
  <2>1. Asking
    BY <1>4, <1>6, <1>9 DEF Sorting
  <2>2. dev_list
    BY <1>1, <1>9 DEF CenterThread, Serving, Request, group_list, add_group, del_group,
           rename_group, sort_dev, add_dev, del_dev
  <2>3. PICK r : r = DevListAck(Stored.devices) /\ Answer(Stored, r) /\ r.cmd = "dev_list"
    BY <2>2, <1>2 DEF dev_list, Fail, DevListAck
  <2>4. r \in Rep
    <3>1. Stored.devices \subseteq Dev
      BY <1>5 DEF Table
    <3> QED BY <1>2, <1>5, <2>3, <3>1 DEF DevListAck, Rep
  <2>5. Current' = Current
    BY <1>1, <1>3, <1>5, <2>3, <2>4, AnsweredFacts
  <2>6. AnsweredBy(r)'
    BY <2>1, <2>3, <2>5 DEF AnsweredBy, Asking, Orderly
  <2>7. Current.devices \subseteq Stored.devices
    BY <1>5
  <2> QED BY <1>5, <1>8, <2>1, <2>3, <2>4, <2>6, <2>7
<1>10. CASE Request.cmd # "dev_list"
  <2>1. PICK t \in Table, r \in Rep :
           /\ Answer(t, r) /\ Served(r, Stored, t)
           /\ \/ Request.cmd \in {"group_list", "order_group"} /\ r.cmd = "group_list"
              \/ Request.cmd \in AckCmd /\ r.cmd = Request.cmd /\ r.request = Request
    BY <1>1, <1>10, ServesOne
  <2>4. Request.cmd # "del_dev" => Current.devices \subseteq t.devices
    <3>1. Request.cmd # "del_dev" => r.cmd # "del_dev"
      BY <2>1
    <3>2. PICK c \in Table : c = Current /\ Served(r, c, t)
      BY <1>5, <2>1
    <3> QED BY <2>1, <3>1, <3>2, DevicesServed
  <2>2. CASE Asking
    <3>1. Current' = t
      BY <1>1, <1>3, <1>5, <2>1, AnsweredFacts
    <3>2. Orderly(Current) /\ AskingFor(Request)
      BY <1>4, <2>2 DEF Asking
    <3>3. PICK c \in Table, q \in Ask : c = Current /\ q = Request
      BY <1>4, <1>5
    <3>4. AnsweredBy(r)'
      BY <1>5, <2>1, <3>1, <3>2, <3>3, AskingServed
    <3> QED BY <1>8, <2>1, <2>2, <2>4, <3>4
  <2>3. CASE Sorting
    <3>1. Request.cmd = "sort_dev"
      BY <1>4, <2>3 DEF Sorting
    <3>2. Sorting'
      BY <1>1, <1>3, <1>5, <2>1, <2>3, <3>1, SortingServed
    <3> QED BY <1>7, <2>1, <2>4, <3>2
  <2> QED BY <1>6, <2>2, <2>3
<1> QED BY <1>9, <1>10

-----------------------------------------------------------------------------
(* The patient user's app *)

\* A step of the app that leaves the tables and sends lists, with nothing else in flight.
LEMMA ListsSent ==
  ASSUME KInv, HasAll, UNCHANGED <<tables, currApp>>, Len(requests) = 0, Len(replies') = 0,
         NEW msgs \in Seq(Ask), requests' = requests \o msgs,
         \A i \in 1 .. Len(msgs) :
           msgs[i].cmd = "sort_dev" /\ Fits(Current, msgs[i].group, msgs[i].devs),
         \A g \in DOMAIN Current.groups :
           \/ Fits(Current, g, Current.groups[g])
           \/ \E i \in 1 .. Len(msgs) : Sorts(msgs[i], g)
  PROVE  Sorting'
<1>1. Len(requests') = Len(msgs) /\ \A i \in 1 .. Len(msgs) : requests'[i] = msgs[i]
  <2>1. /\ Len(msgs) \in Nat /\ Len(requests') = 0 + Len(msgs)
        /\ \A j \in 1 .. Len(msgs) : requests'[0 + j] = msgs[j]
    BY ChannelFacts, Joined
  <2>2. \A j \in 1 .. Len(msgs) : 0 + j = j
    BY <2>1
  <2> QED BY <2>1, <2>2
<1>2. Current' = Current /\ (HasAll' <=> HasAll)
  BY DEF Current, HasAll
<1>3. \A i \in 1 .. Len(msgs) : Fits(Current, msgs[i].group, msgs[i].devs)'
  BY <1>2 DEF Fits
<1>4. \A i \in 1 .. Len(requests') :
        requests'[i].cmd = "sort_dev" /\ Fits(Current', requests'[i].group, requests'[i].devs)
  BY <1>1, <1>2
<1>5. \A g \in DOMAIN Current'.groups :
        \/ Fits(Current', g, Current'.groups[g])
        \/ \E i \in 1 .. Len(requests') : Sorts(requests'[i], g)
  BY <1>1, <1>2
<1> QED BY <1>2, <1>4, <1>5 DEF Sorting, Fits

\* A step of the app that leaves the tables and sends one request that is not a list.
LEMMA RequestSent ==
  ASSUME KInv, Orderly(Current), UNCHANGED <<tables, currApp>>, Len(requests) = 0,
         Len(replies') = 0, NEW q \in Ask, requests' = <<q>> \/ requests' = Append(requests, q),
         AskingFor(q)
  PROVE  Asking' /\ \A i \in 1 .. Len(requests') : requests'[i] = q
<1>1. Len(requests') = 1 /\ requests'[1] = q
  <2>1. requests = <<>>
    BY ChannelFacts
  <2>2. requests' = <<q>>
    BY <2>1
  <2> QED BY <2>2, Short
<1>2. Current' = Current /\ (HasAll' <=> HasAll)
  BY DEF Current, HasAll
<1> QED BY <1>1, <1>2 DEF Asking, AskingFor, Orderly

\* The app takes the answer to one of several lists.
LEMMA SortingTaken ==
  ASSUME KInv, Patience, Sorting, CenterRecv
  PROVE  Patience'
<1>1. replies # <<>> /\ replies' = Tail(replies)
  BY DEF CenterRecv, onDevList, onGroupList, onAddGroup, onDelGroup, onRenameGroup, onSortDev,
         onAddDev, onDelDev, Receiving
<1>2. /\ Len(replies) \in Nat \ {0} /\ Len(replies') = Len(replies) - 1 /\ Reply = replies[1]
      /\ \A j \in 1 .. Len(replies) - 1 : replies'[j] = replies[j + 1]
  BY <1>1, TakenFacts
<1>3. \A j \in 1 .. Len(replies) - 1 : j + 1 \in 1 .. Len(replies)
  BY <1>2
<1>4. \A j \in 1 .. Len(replies') : replies'[j].cmd = "sort_dev"
  BY <1>2, <1>3 DEF Sorting
<1>5. Reply.cmd = "sort_dev"
  BY <1>2 DEF Sorting
<1>6. onSortDev
  BY <1>5 DEF CenterRecv, onDevList, onGroupList, onAddGroup, onDelGroup, onRenameGroup,
         onAddDev, onDelDev, Receiving, Reply
<1>7. UNCHANGED <<tables, currApp, dialog, requests, renamed>>
  BY <1>6 DEF onSortDev, Unhandled
<1>8. Sorting'
  BY <1>4, <1>7 DEF Sorting, Fits, HasAll, Current, Sorts
<1>9. DialogFits'
  BY <1>7 DEF Patience, DialogFits, Current
<1> QED BY <1>7, <1>8, <1>9, PatientStep DEF Patience

LEMMA AnswerTaken ==
  ASSUME KInv, Answered, CenterRecv
  PROVE  /\ replies # <<>> /\ replies' = Tail(replies) /\ Reply = replies[1] /\ Reply \in Rep
         /\ AnsweredBy(Reply) /\ Len(requests) = 0 /\ Len(replies) = 1 /\ Len(replies') = 0
         /\ requests = <<>> /\ UNCHANGED <<tables, currApp, dialog>>
<1>1. /\ replies # <<>> /\ replies' = Tail(replies) /\ UNCHANGED <<tables, currApp, dialog>>
  BY DEF CenterRecv, onDevList, onGroupList, onAddGroup, onDelGroup, onRenameGroup, onSortDev,
         onAddDev, onDelDev, Receiving, Unhandled
<1>2. Len(replies') = Len(replies) - 1 /\ Reply = replies[1] /\ Reply \in Rep
  BY <1>1, TakenFacts
<1>3. Len(requests) = 0 /\ Len(replies) = 1 /\ AnsweredBy(replies[1])
  BY DEF Answered
<1>4. requests = <<>>
  BY <1>3, ChannelFacts
<1> QED BY <1>1, <1>2, <1>3, <1>4

\* The lists of devices and groups, the latter with or without the group of all devices.
LEMMA ListAnswerTaken ==
  ASSUME KInv, Patience, Answered, onDevList \/ onGroupList
  PROVE  Patience'
<1>1. /\ Reply \in Rep /\ AnsweredBy(Reply)
      /\ Len(requests) = 0 /\ Len(replies') = 0 /\ requests = <<>>
      /\ UNCHANGED <<tables, currApp, dialog>>
  BY AnswerTaken DEF CenterRecv
<1>2. Reply.cmd \in {"dev_list", "group_list"}
  BY DEF onDevList, onGroupList, Receiving, Reply
<1>3. Orderly(Current) /\ currApp \in App
  BY <1>1, <1>2, ChannelFacts DEF AnsweredBy
<1>3a. Range(dialog'.devs) \subseteq Current'.devices
  BY <1>1 DEF Patience, DialogFits, Current
<1>4. ASSUME NEW q \in Ask, q.cmd # "sort_dev", q.cmd # "del_dev", q.app = currApp,
             AskingFor(q), Publish(<<q>>)
      PROVE  Patience'
  <2>1. requests' = <<>> \o <<q>> /\ Range(<<q>>) = {q}
    <3>1. <<q>> \in Seq(Ask) /\ Len(<<q>>) = 1 /\ <<q>>[1] = q
      BY Short
    <3> QED BY <1>1, <1>4, <3>1 DEF Publish, PublishFrom, Range
  <2>2. requests' = <<q>>
    BY <2>1
  <2>3. ~renamed'
    BY <1>4, <2>1 DEF Publish, PublishFrom, Patience
  <2>4. Asking' /\ \A i \in 1 .. Len(requests') : requests'[i] = q
    BY <1>1, <1>3, <1>4, <2>2, RequestSent
  <2>5. DialogFits'
    BY <1>3a, <1>4, <2>4, DialogStays
  <2> QED BY <1>1, <1>4, <2>3, <2>4, <2>5, PatientStep
<1>5. CASE onDevList
  <2>1. Publish(<<requestGroupList>>)
    BY <1>5 DEF onDevList
  <2>2. PICK q \in Ask : q = requestGroupList /\ q.app = currApp /\ q.cmd = "group_list"
    BY <1>3, ListAsks DEF requestGroupList
  <2> QED BY <1>4, <2>1, <2>2 DEF AskingFor
<1>6. CASE onGroupList
  <2>1. Publish(IF All \in DOMAIN Reply.groups THEN <<>> ELSE <<requestAddGroup(All)>>)
        /\ Reply.cmd = "group_list"
    BY <1>6 DEF onGroupList, Receiving, Reply
  <2>2. Reply.groups = Current.groups
    BY <1>1, <2>1 DEF AnsweredBy
  <2>3. CASE All \in DOMAIN Reply.groups
    <3>1. Publish(<<>>)
      BY <2>1, <2>3
    <3>2. requests' = <<>> \o <<>> /\ ~renamed'
      BY <1>1, <3>1, Short DEF Publish, PublishFrom, Patience
    <3>3. Len(requests') = 0
      BY <3>2
    <3>6. DialogFits'
      BY <1>3a, <3>3, DialogStays
    <3>4. HasAll' /\ Orderly(Current)'
      BY <1>1, <1>3, <2>2, <2>3 DEF HasAll, Current, Orderly
    <3>5. Sorting'
      BY <1>1, <3>3, <3>4, SortingStarts
    <3> QED BY <1>1, <3>2, <3>3, <3>5, <3>6, PatientStep
  <2>4. CASE All \notin DOMAIN Reply.groups
    <3>1. PICK q \in Ask : q = requestAddGroup(All) /\ q.app = currApp /\ q.cmd = "add_group"
                           /\ q.group = All
      BY <1>3, GroupAsks, GroupAssumption DEF requestAddGroup
    <3> QED BY <1>4, <2>1, <2>4, <3>1 DEF AskingFor
  <2> QED BY <2>3, <2>4
<1> QED BY <1>5, <1>6

\* The answers after which the app sends nothing.
LEMMA QuietAnswerTaken ==
  ASSUME KInv, Patience, Answered,
         onAddGroup \/ onDelGroup \/ onRenameGroup \/ (onAddDev /\ ~Reply.ok)
  PROVE  Patience'
<1>1. /\ AnsweredBy(Reply) /\ Len(replies') = 0 /\ requests = <<>>
      /\ UNCHANGED <<tables, currApp, dialog>>
  BY AnswerTaken DEF CenterRecv
<1>2. /\ Reply.cmd \in {"add_group", "del_group", "rename_group"}
           \/ (Reply.cmd = "add_dev" /\ ~Reply.ok)
      /\ UNCHANGED <<requests, renamed>> \/ Publish(<<>>)
  BY DEF onAddGroup, onDelGroup, onRenameGroup, onAddDev, Receiving, Reply
<1>3. requests' = <<>> /\ ~renamed'
  <2>1. CASE UNCHANGED <<requests, renamed>>
    BY <1>1, <2>1 DEF Patience
  <2>2. CASE Publish(<<>>)
    <3>1. requests' = <<>> \o <<>> /\ ~renamed'
      BY <1>1, <2>2, Short DEF Publish, PublishFrom, Patience
    <3> QED BY <3>1
  <2> QED BY <1>2, <2>1, <2>2
<1>4. Len(requests') = 0
  BY <1>3
<1>5. HasAll' /\ Orderly(Current)'
  BY <1>1, <1>2 DEF AnsweredBy, HasAll, Current, Orderly
<1>6. Sorting'
  BY <1>1, <1>4, <1>5, SortingStarts
<1>7. DialogFits'
  <2>1. Range(dialog'.devs) \subseteq Current'.devices
    BY <1>1 DEF Patience, DialogFits, Current
  <2> QED BY <1>4, <2>1, DialogStays
<1> QED BY <1>1, <1>3, <1>4, <1>6, <1>7, PatientStep

\* Lists that are sent while no group is being renamed.
LEMMA ListsPatient ==
  ASSUME KInv, Patience, HasAll, UNCHANGED <<tables, currApp>>,
         Len(requests) = 0, Len(replies') = 0,
         \A i \in 1 .. Len(replies) : replies[i].cmd # "rename_group",
         Range(dialog'.devs) \subseteq Current.devices,
         NEW own, NEW msgs \in Seq(Ask), PublishFrom(own, msgs),
         \A i \in 1 .. Len(msgs) : /\ msgs[i].app = currApp /\ msgs[i].cmd = "sort_dev"
                                   /\ Fits(Current, msgs[i].group, msgs[i].devs),
         \A g \in DOMAIN Current.groups :
           \/ Fits(Current, g, Current.groups[g])
           \/ \E i \in 1 .. Len(msgs) : Sorts(msgs[i], g)
  PROVE  Patience'
<1>1. requests' = requests \o msgs
  BY DEF PublishFrom
<1>2. \A g : ~BeingRenamed(g)
  <2>1. \A r \in Range(replies) : r.cmd # "rename_group"
    <3>1. replies \in Seq(Rep)
      BY ChannelFacts
    <3>2. \A r \in Range(replies) : \E i \in 1 .. Len(replies) : r = replies[i]
      BY <3>1, Ranged
    <3> QED BY <3>2
  <2>2. Range(requests) = {}
    <3>1. requests = <<>>
      BY ChannelFacts
    <3> QED BY <3>1, Short
  <2> QED BY <2>1, <2>2 DEF BeingRenamed
<1>3. ~renamed'
  BY <1>2 DEF PublishFrom, Patience
<1>4. Sorting'
  BY <1>1, ListsSent
<1>5. \A i \in 1 .. Len(requests') : requests'[i].app = currApp
  <2>1. /\ Len(msgs) \in Nat /\ Len(requests') = 0 + Len(msgs)
        /\ \A j \in 1 .. Len(msgs) : requests'[0 + j] = msgs[j]
    BY <1>1, ChannelFacts, Joined
  <2>2. \A j \in 1 .. Len(requests') : j \in 1 .. Len(msgs) /\ 0 + j = j
    BY <2>1
  <2> QED BY <2>1, <2>2
<1>6. DialogFits'
  <2>1. \A i \in 1 .. Len(requests') : requests'[i].cmd # "del_dev"
    BY <1>4 DEF Sorting
  <2> QED BY <2>1, DialogStays DEF Current
<1> QED BY <1>3, <1>4, <1>5, <1>6, PatientStep

\* The group of all devices is sent with the new one.
LEMMA AddDevPatient ==
  ASSUME KInv, CopyInv, Patience, faults = 0, Answered, onAddDev, Reply.ok
  PROVE  Patience'
<1>1. /\ AnsweredBy(Reply) /\ Len(replies') = 0 /\ Len(requests) = 0 /\ Len(replies) = 1
      /\ Reply = replies[1] /\ Reply \in Rep /\ UNCHANGED <<tables, currApp, dialog>>
  BY AnswerTaken DEF CenterRecv
<1>2. Reply.cmd = "add_dev" /\ Typed /\ currApp \in App
  BY ChannelFacts DEF onAddDev, Receiving, Reply, KInv
<1>3. PICK d \in Dev : d = Reply.request.dev
  BY <1>1, <1>2, RepFacts, AskFacts DEF AckCmd
<1>4. HasAll /\ JoinedBy(Current, d)
  BY <1>1, <1>2, <1>3 DEF AnsweredBy
<1>5. /\ \A g : g \in DOMAIN Current.groups <=>
                  \E i \in 1 .. Len(groupList) : groupList[i].name = g
      /\ \A i \in 1 .. Len(groupList) :
           groupList[i].devs = Current.groups[groupList[i].name]
  BY <1>1, <1>2, PatientCopy DEF Patience
<1>6. /\ DOMAIN groupList = 1 .. Len(groupList)
      /\ \A i \in 1 .. Len(groupList) : /\ groupList[i] \in GroupNode
                                        /\ groupList[i].devs \in Seq(Dev)
  BY <1>2, CopyFacts
<1>7. All \in Names
  BY <1>4, <1>5, <1>6 DEF HasAll, Names
<1>8. PICK k \in 1 .. Len(groupList) : /\ k = searchGroupNode(All) /\ IsFirst(k, All)
                                       /\ groupList[k].name = All
  BY <1>2, <1>7, SearchFacts
<1>9. PICK l \in Seq(Dev) : l = groupList[k].devs /\ l = Current.groups[All]
  BY <1>5, <1>6, <1>8
<1>10. Fits(Current, All, Append(l, d)) /\ Append(l, d) \in Seq(Dev)
  <2>1. /\ d \in Current.devices /\ IsInjective(l)
        /\ Range(l) = Current.devices \ {d}
    BY <1>4, <1>9 DEF JoinedBy, HasAll
  <2>2. IsInjective(Append(l, d)) /\ Range(Append(l, d)) = Range(l) \cup {d}
    BY <2>1, PushedOnce
  <2> QED BY <2>1, <2>2 DEF Fits
<1>11. groupList'[k].devs = Append(l, d)
  <2>1. groupList' = Extended(d)
    BY <1>3 DEF onAddDev
  <2>2. PICK n \in GroupNode : n = groupList[k] /\ n.name = All /\ n.devs = l
    BY <1>6, <1>8, <1>9
  <2>3. groupList'[k] = [n EXCEPT !.shown = IF n.name = All THEN Append(@, d) ELSE @,
                                  !.devs = IF IsFirst(k, All) THEN Append(@, d) ELSE @]
    BY <1>6, <2>1, <2>2 DEF Extended
  <2>4. groupList'[k] = [n EXCEPT !.shown = Append(n.shown, d), !.devs = Append(n.devs, d)]
    BY <1>8, <2>2, <2>3
  <2> QED BY <2>2, <2>4 DEF GroupNode
<1>12. PICK q \in Ask : /\ q = requestSortDevice(All, groupList'[searchGroupNode(All)].devs)
                        /\ q.app = currApp /\ q.cmd = "sort_dev" /\ q.group = All
                        /\ q.devs = Append(l, d)
  <2>1. requestSortDevice(All, groupList'[searchGroupNode(All)].devs)
          = requestSortDevice(All, Append(l, d))
    BY <1>8, <1>11
  <2>2. requestSortDevice(All, Append(l, d)) \in Ask
    BY <1>2, <1>10, SortAsk, GroupAssumption
  <2> QED BY <2>1, <2>2 DEF requestSortDevice
<1>13. Publish(<<q>>)
  BY <1>7, <1>12 DEF onAddDev
<1>14. PICK msgs \in Seq(Ask) : msgs = <<q>> /\ Len(msgs) = 1 /\ msgs[1] = q
  BY Short
<1>15. \A i \in 1 .. Len(msgs) : /\ msgs[i].app = currApp /\ msgs[i].cmd = "sort_dev"
                                 /\ Fits(Current, msgs[i].group, msgs[i].devs)
  <2>1. Fits(Current, q.group, q.devs)
    BY <1>10, <1>12
  <2>2. \A i \in 1 .. Len(msgs) : msgs[i] = q
    BY <1>14
  <2> QED BY <1>12, <2>1, <2>2
<1>16. \A g \in DOMAIN Current.groups :
         \/ Fits(Current, g, Current.groups[g])
         \/ \E i \in 1 .. Len(msgs) : Sorts(msgs[i], g)
  <2>1. Sorts(msgs[1], All) /\ 1 \in 1 .. Len(msgs)
    BY <1>12, <1>14 DEF Sorts
  <2>2. \A g \in DOMAIN Current.groups : g # All => Fits(Current, g, Current.groups[g])
    BY <1>4 DEF JoinedBy, Fits
  <2> QED BY <2>1, <2>2
<1>17. \A i \in 1 .. Len(replies) : replies[i].cmd # "rename_group"
  BY <1>1, <1>2
<1>18. Range(dialog'.devs) \subseteq Current.devices
  BY <1>1 DEF Patience, DialogFits
<1>19. PublishFrom(ownLists', msgs)
  BY <1>13, <1>14 DEF Publish
<1> QED BY <1>1, <1>4, <1>14, <1>15, <1>16, <1>17, <1>18, <1>19, ListsPatient

\* Every view sends what it has left of its list.
LEMMA DelDevPatient ==
  ASSUME KInv, CopyInv, Patience, faults = 0, Answered, onDelDev
  PROVE  Patience'
<1>1. /\ AnsweredBy(Reply) /\ Len(replies') = 0 /\ Len(requests) = 0 /\ Len(replies) = 1
      /\ Reply = replies[1] /\ Reply \in Rep /\ UNCHANGED <<tables, currApp, dialog>>
  BY AnswerTaken DEF CenterRecv
<1>2. Reply.cmd = "del_dev" /\ Typed /\ currApp \in App
  BY ChannelFacts DEF onDelDev, Receiving, Reply, KInv
<1>3. PICK D : D = Reply.request.devs
  OBVIOUS
<1>4. HasAll /\ LeftBy(Current, D)
  BY <1>1, <1>2, <1>3 DEF AnsweredBy
<1>5. /\ \A g : g \in DOMAIN Current.groups <=>
                  \E i \in 1 .. Len(groupList) : groupList[i].name = g
      /\ \A i \in 1 .. Len(groupList) :
           /\ groupList[i].name \in DOMAIN Current.groups
           /\ groupList[i].devs = Current.groups[groupList[i].name]
           /\ Shows(groupList[i])
  BY <1>1, <1>2, PatientCopy DEF Patience
<1>6. /\ DOMAIN groupList = 1 .. Len(groupList) /\ Len(groupList) \in Nat
      /\ \A i \in 1 .. Len(groupList) : /\ groupList[i] \in GroupNode
                                        /\ groupList[i].name \in Group
                                        /\ groupList[i].shown \in Seq(Dev)
  BY <1>2, CopyFacts
<1> DEFINE left(i) == RemoveAll(groupList[i].shown, D)
           msgs == [i \in DOMAIN groupList |->
                      requestSortDevice(groupList[i].name, groupList'[i].shown)]
<1>7. \A i \in 1 .. Len(groupList) :
        left(i) \in Seq(Dev) /\ Fits(Current, groupList[i].name, left(i))
  <2> SUFFICES ASSUME NEW i \in 1 .. Len(groupList)
               PROVE  left(i) \in Seq(Dev) /\ Fits(Current, groupList[i].name, left(i))
    OBVIOUS
  <2>1. PICK s \in Seq(Dev), g \in Group : s = groupList[i].shown /\ g = groupList[i].name
    BY <1>6
  <2>2. PICK l : /\ l = Current.groups[g] /\ g \in DOMAIN Current.groups
                 /\ Range(s) = Range(l) /\ (IsInjective(l) => IsInjective(s))
    BY <1>5, <2>1 DEF Shows
  <2>3. /\ IsInjective(s) /\ Range(s) \ D \subseteq Current.devices
        /\ g = All => Range(s) \ D = Current.devices
    BY <1>4, <2>2 DEF LeftBy
  <2>4. /\ RemoveAll(s, D) \in Seq(Dev) /\ IsInjective(RemoveAll(s, D))
        /\ Range(RemoveAll(s, D)) = Range(s) \ D
    BY <2>3, RemovedOnce, RemoveAllType
  <2>5. Fits(Current, g, RemoveAll(s, D))
    BY <2>3, <2>4 DEF Fits
  <2> QED BY <2>1, <2>4, <2>5
<1>8. Publish(msgs) /\ \A i \in 1 .. Len(groupList) : groupList'[i].shown = left(i)
  <2>1. /\ groupList' = [i \in DOMAIN groupList |->
                           [groupList[i] EXCEPT !.shown = RemoveAll(@, D)]]
        /\ Publish(msgs)
    BY <1>3 DEF onDelDev
  <2> HIDE DEF msgs
  <2>2. \A i \in 1 .. Len(groupList) : groupList'[i] = [groupList[i] EXCEPT !.shown = left(i)]
    BY <1>6, <2>1
  <2>3. \A i \in 1 .. Len(groupList) : [groupList[i] EXCEPT !.shown = left(i)].shown = left(i)
    BY <1>6 DEF GroupNode
  <2> QED BY <2>1, <2>2, <2>3
<1> HIDE DEF left
<1>9. /\ msgs = [i \in 1 .. Len(groupList) |-> msgs[i]]
      /\ \A i \in 1 .. Len(groupList) :
           msgs[i] = requestSortDevice(groupList[i].name, groupList'[i].shown)
  BY <1>6
<1> HIDE DEF msgs
<1>10. \A i \in 1 .. Len(groupList) :
         /\ msgs[i] \in Ask /\ msgs[i].app = currApp /\ msgs[i].cmd = "sort_dev"
         /\ Sorts(msgs[i], groupList[i].name)
         /\ Fits(Current, msgs[i].group, msgs[i].devs)
  <2> SUFFICES ASSUME NEW i \in 1 .. Len(groupList)
               PROVE  /\ msgs[i] \in Ask /\ msgs[i].app = currApp /\ msgs[i].cmd = "sort_dev"
                      /\ Sorts(msgs[i], groupList[i].name)
                      /\ Fits(Current, msgs[i].group, msgs[i].devs)
    OBVIOUS
  <2>1. PICK g \in Group, l \in Seq(Dev) :
          /\ g = groupList[i].name /\ l = groupList'[i].shown /\ Fits(Current, g, l)
    BY <1>6, <1>7, <1>8
  <2>2. msgs[i] = requestSortDevice(g, l)
    BY <1>9, <2>1
  <2>3. msgs[i] \in Ask
    BY <1>2, <2>2, SortAsk
  <2>4. /\ msgs[i].app = currApp /\ msgs[i].cmd = "sort_dev" /\ msgs[i].group = g
        /\ msgs[i].devs = l
    BY <2>2 DEF requestSortDevice
  <2> QED BY <2>1, <2>3, <2>4 DEF Sorts
<1>11. msgs \in Seq(Ask) /\ Len(msgs) = Len(groupList)
  BY <1>6, <1>9, <1>10
<1>12. \A g \in DOMAIN Current.groups : \E i \in 1 .. Len(msgs) : Sorts(msgs[i], g)
  BY <1>5, <1>10, <1>11
<1>13. \A i \in 1 .. Len(replies) : replies[i].cmd # "rename_group"
  BY <1>1, <1>2
<1>14. Range(dialog'.devs) \subseteq Current.devices
  BY <1>1 DEF Patience, DialogFits
<1>15. PublishFrom(ownLists', msgs)
  BY <1>8 DEF Publish
<1> QED BY <1>1, <1>4, <1>10, <1>11, <1>12, <1>13, <1>14, <1>15, ListsPatient

LEMMA RecvPatient ==
  ASSUME KInv, CopyInv, Patience, faults = 0, CenterRecv
  PROVE  Patience'
<1>1. replies # <<>>
  BY DEF CenterRecv, onDevList, onGroupList, onAddGroup, onDelGroup, onRenameGroup, onSortDev,
         onAddDev, onDelDev, Receiving
<1>2. Len(replies) # 0
  BY <1>1, ChannelFacts
<1>3. CASE Sorting
  BY <1>3, SortingTaken
<1>4. CASE Answered
  <2>1. AnsweredBy(Reply)
    BY <1>4, AnswerTaken
  <2>2. ~onSortDev
    BY <2>1 DEF onSortDev, Receiving, Reply, AnsweredBy
  <2>3. CASE onDevList \/ onGroupList
    BY <1>4, <2>3, ListAnswerTaken
  <2>4. CASE onAddGroup \/ onDelGroup \/ onRenameGroup \/ (onAddDev /\ ~Reply.ok)
    BY <1>4, <2>4, QuietAnswerTaken
  <2>5. CASE onAddDev /\ Reply.ok
    BY <1>4, <2>5, AddDevPatient
  <2>6. CASE onDelDev
    BY <1>4, <2>6, DelDevPatient
  <2> QED BY <2>2, <2>3, <2>4, <2>5, <2>6 DEF CenterRecv
<1> QED BY <1>2, <1>3, <1>4 DEF Patience, Asking

-----------------------------------------------------------------------------
(* The patient user's actions: nothing is in flight *)

LEMMA QuietFacts ==
  ASSUME KInv, CopyInv, Patience, faults = 0, Settled
  PROVE  /\ Len(requests) = 0 /\ Len(replies) = 0 /\ Typed /\ currApp \in App
         /\ HasAll /\ (\A a \in App : Orderly(tables[a])) /\ Orderly(Current)
         /\ \A g \in DOMAIN Current.groups : Fits(Current, g, Current.groups[g])
         /\ \A i \in 1 .. Len(groupList) :
              /\ groupList[i] \in GroupNode /\ groupList[i].name \in Group
              /\ groupList[i].devs \in Seq(Dev) /\ groupList[i].shown \in Seq(Dev)
              /\ Fits(Current, groupList[i].name, groupList[i].devs)
              /\ Fits(Current, groupList[i].name, groupList[i].shown)
         /\ \A i \in 1 .. Len(replies) : replies[i].cmd # "rename_group"
         /\ dialog.devs \in Seq(Dev) /\ Range(dialog.devs) \subseteq Current.devices
<1>1. Len(requests) = 0 /\ Len(replies) = 0 /\ Typed /\ currApp \in App
  BY ChannelFacts DEF Settled, KInv
<1>2. /\ HasAll /\ \A a \in App : Orderly(tables[a])
      /\ \A g \in DOMAIN Current.groups : Fits(Current, g, Current.groups[g])
  BY <1>1, PatientSettled
<1>3. Orderly(Current)
  BY <1>1, <1>2 DEF Current
<1>4. \A i \in 1 .. Len(groupList) :
        /\ groupList[i].name \in DOMAIN Current.groups
        /\ groupList[i].devs = Current.groups[groupList[i].name]
        /\ Shows(groupList[i])
  BY <1>1, PatientCopy DEF Patience
<1>5. \A i \in 1 .. Len(groupList) :
        /\ groupList[i] \in GroupNode /\ groupList[i].name \in Group
        /\ groupList[i].devs \in Seq(Dev) /\ groupList[i].shown \in Seq(Dev)
  BY <1>1, CopyFacts
<1>6. \A i \in 1 .. Len(groupList) : /\ Fits(Current, groupList[i].name, groupList[i].devs)
                                     /\ Fits(Current, groupList[i].name, groupList[i].shown)
  <2> SUFFICES ASSUME NEW i \in 1 .. Len(groupList)
               PROVE  /\ Fits(Current, groupList[i].name, groupList[i].devs)
                      /\ Fits(Current, groupList[i].name, groupList[i].shown)
    OBVIOUS
  <2>1. PICK g \in DOMAIN Current.groups :
          /\ g = groupList[i].name /\ groupList[i].devs = Current.groups[g]
          /\ Shows(groupList[i]) /\ Fits(Current, g, Current.groups[g])
    BY <1>2, <1>4
  <2>2. Fits(Current, g, groupList[i].shown)
    BY <2>1, FitsShown
  <2> QED BY <2>1, <2>2
<1>7. dialog.devs \in Seq(Dev) /\ Range(dialog.devs) \subseteq Current.devices
  BY DialogFacts DEF Patience, DialogFits
<1> QED BY <1>1, <1>2, <1>3, <1>5, <1>6, <1>7

LEMMA ClosedIsEmpty == Closed.devs = <<>> /\ Range(Closed.devs) = {}
BY Short DEF Closed

LEMMA SelectPatient ==
  ASSUME KInv, CopyInv, Patience, faults = 0, Settled, Aside, dialog = Closed,
         NEW a \in App, SelectApp(a)
  PROVE  Patience'
<1>1. /\ Len(requests) = 0 /\ Len(replies) = 0 /\ \A b \in App : Orderly(tables[b])
  BY QuietFacts
<1>2. /\ tables' = tables /\ replies' = replies /\ renamed' = renamed /\ currApp' = a
      /\ dialog' = dialog
  BY DEF Aside, SelectApp
<1>3. PICK q \in Ask : q = [cmd |-> "dev_list", app |-> a]
  BY ListAsks
<1>4. requests' = Append(requests, q)
  BY <1>3 DEF SelectApp
<1>5. requests = <<>>
  BY <1>1, ChannelFacts
<1>6. requests' = <<q>>
  BY <1>4, <1>5
<1>7. Len(requests') = 1 /\ requests'[1] = q /\ q.cmd = "dev_list" /\ q.app = a
  BY <1>3, <1>6, Short
<1>8. Current' = tables[a]
  BY <1>2 DEF Current
<1>9. Orderly(Current)'
  BY <1>1, <1>8 DEF Orderly
<1>10. AskingFor(requests[1])'
  BY <1>7 DEF AskingFor
<1>11. Asking'
  BY <1>1, <1>2, <1>7, <1>9, <1>10 DEF Asking
<1>12. \A b \in App : Orderly(tables[b])'
  BY <1>1, <1>2 DEF Orderly
<1>13. DialogFits'
  <2>1. Range(dialog'.devs) = {}
    BY <1>2, ClosedIsEmpty
  <2> QED BY <2>1 DEF DialogFits
<1>14. \A i \in 1 .. Len(requests') : requests'[i].app = currApp'
  BY <1>2, <1>7
<1> QED BY <1>2, <1>11, <1>12, <1>13, <1>14 DEF Patience

\* A single request that is not a list.
LEMMA RequestPatient ==
  ASSUME KInv, CopyInv, Patience, faults = 0, Settled, Aside, ~renamed',
         UNCHANGED <<currApp, dialog>>,
         NEW q \in Ask, q.app = currApp, q.cmd # "sort_dev", requests' = Append(requests, q),
         q.cmd \in {"del_group", "rename_group"} => q.group # All,
         q.cmd = "del_dev" => dialog = Closed
  PROVE  Patience'
<1>1. Len(requests) = 0 /\ Len(replies) = 0 /\ HasAll /\ Orderly(Current)
  BY QuietFacts
<1>2. UNCHANGED <<tables, currApp>> /\ Len(replies') = 0
  BY <1>1 DEF Aside
<1>3. AskingFor(q)
  BY <1>1 DEF AskingFor
<1>4. Asking' /\ \A i \in 1 .. Len(requests') : requests'[i] = q
  BY <1>1, <1>2, <1>3, RequestSent
<1>5. DialogFits'
  <2>1. Range(dialog'.devs) \subseteq Current'.devices
    BY <1>2, QuietFacts DEF Current
  <2>2. q.cmd = "del_dev" => Range(dialog'.devs) = {}
    BY ClosedIsEmpty
  <2> QED BY <1>4, <2>1, <2>2 DEF DialogFits
<1> QED BY <1>2, <1>4, <1>5, PatientStep

LEMMA EditsPatient ==
  ASSUME KInv, CopyInv, Patience, faults = 0, Settled, Aside, EditGroups
  PROVE  Patience'
<1>1. /\ renamed' = renamed /\ currApp' = currApp /\ dialog' = dialog
      /\ currApp \in App
  BY ChannelFacts DEF EditGroups
<1>2. requestOrderGroup \in Ask /\ requestOrderGroup.app = currApp
      /\ requestOrderGroup.cmd = "order_group"
  BY <1>1, ListAsks DEF requestOrderGroup
<1>3. \A g, h \in Group :
        /\ requestAddGroup(g) \in Ask /\ requestAddGroup(g).app = currApp
        /\ requestAddGroup(g).cmd = "add_group"
        /\ requestDelGroup(g) \in Ask /\ requestDelGroup(g).app = currApp
        /\ requestDelGroup(g).cmd = "del_group" /\ requestDelGroup(g).group = g
        /\ requestRenameGroup(g, h) \in Ask /\ requestRenameGroup(g, h).app = currApp
        /\ requestRenameGroup(g, h).cmd = "rename_group" /\ requestRenameGroup(g, h).group = g
  BY <1>1, GroupAsks DEF requestAddGroup, requestDelGroup, requestRenameGroup
<1>4. \E q \in Ask : /\ q.app = currApp /\ q.cmd \notin {"sort_dev", "del_dev"}
                     /\ requests' = Append(requests, q)
                     /\ q.cmd \in {"del_group", "rename_group"} => q.group # All
  <2>1. CASE requests' = Append(requests, requestOrderGroup)
    BY <1>2, <2>1
  <2>2. ASSUME NEW g \in Group \ {All}, requests' = Append(requests, requestAddGroup(g))
        PROVE  \E q \in Ask : /\ q.app = currApp /\ q.cmd \notin {"sort_dev", "del_dev"}
                              /\ requests' = Append(requests, q)
                              /\ q.cmd \in {"del_group", "rename_group"} => q.group # All
    BY <1>3, <2>2
  <2>3. ASSUME NEW g \in Group \ {All}, requests' = Append(requests, requestDelGroup(g))
        PROVE  \E q \in Ask : /\ q.app = currApp /\ q.cmd \notin {"sort_dev", "del_dev"}
                              /\ requests' = Append(requests, q)
                              /\ q.cmd \in {"del_group", "rename_group"} => q.group # All
    BY <1>3, <2>3
  <2>4. ASSUME NEW g \in Group \ {All}, NEW h \in Group,
               requests' = Append(requests, requestRenameGroup(g, h))
        PROVE  \E q \in Ask : /\ q.app = currApp /\ q.cmd \notin {"sort_dev", "del_dev"}
                              /\ requests' = Append(requests, q)
                              /\ q.cmd \in {"del_group", "rename_group"} => q.group # All
    BY <1>3, <2>4
  <2> QED BY <2>1, <2>2, <2>3, <2>4 DEF EditGroups
<1>5. ~renamed'
  BY <1>1 DEF Patience
<1> QED BY <1>1, <1>4, <1>5, RequestPatient

LEMMA DevicesPatient ==
  ASSUME KInv, CopyInv, Patience, faults = 0, Settled, Aside,
         \/ \E d \in Dev : AddDevice(d)
         \/ /\ dialog = Closed
            /\ \E i \in DOMAIN groupList :
                 \E D \in SUBSET Range(groupList[i].shown) \ {{}} : DelDevices(i, D)
  PROVE  Patience'
<1>1. Typed /\ currApp \in App
  BY ChannelFacts DEF KInv
<1>2. ASSUME NEW q \in Ask, q.app = currApp, q.cmd \in {"add_dev", "del_dev"}, Publish(<<q>>),
             UNCHANGED <<currApp, dialog>>, q.cmd = "del_dev" => dialog = Closed
      PROVE  Patience'
  <2>1. <<q>> \in Seq(Ask) /\ Range(<<q>>) = {q}
    BY <1>2, Short DEF Range
  <2>2. ~renamed' /\ requests' = requests \o <<q>>
    BY <1>2, <2>1 DEF Publish, PublishFrom, Patience
  <2>3. requests' = Append(requests, q)
    BY <2>2, ChannelFacts
  <2> QED BY <1>2, <2>2, <2>3, RequestPatient
<1>3. ASSUME NEW d \in Dev, AddDevice(d) PROVE Patience'
  <2>1. requestAddDevice(d) \in Ask /\ requestAddDevice(d).app = currApp
        /\ requestAddDevice(d).cmd = "add_dev"
    BY <1>1, DevAsks DEF requestAddDevice
  <2>2. UNCHANGED <<currApp, dialog>> /\ Publish(<<requestAddDevice(d)>>)
    BY <1>3 DEF AddDevice
  <2> QED BY <1>2, <2>1, <2>2
<1>4. ASSUME NEW i \in DOMAIN groupList, NEW D \in SUBSET Range(groupList[i].shown),
             dialog = Closed, DelDevices(i, D)
      PROVE  Patience'
  <2>1. D \subseteq Dev
    BY <1>1, CopyFacts, Ranged
  <2>2. requestDelDevice(D) \in Ask /\ requestDelDevice(D).app = currApp
        /\ requestDelDevice(D).cmd = "del_dev"
    BY <1>1, <2>1 DEF requestDelDevice, Ask
  <2>3. UNCHANGED <<currApp, dialog>> /\ Publish(<<requestDelDevice(D)>>)
    BY <1>4 DEF DelDevices
  <2> QED BY <1>2, <1>4, <2>2, <2>3
<1> QED BY <1>3, <1>4

LEMMA Few ==
  ASSUME NEW S
  PROVE  /\ \E s \in Seq(S) : s = <<>> /\ \A n \in 1 .. Len(s) : FALSE
         /\ \A e \in S : \E s \in Seq(S) : s = <<e>> /\ \A n \in 1 .. Len(s) : s[n] = e
<1>1. \A n \in 1 .. Len(<<>>) : FALSE
  BY Short
<1>2. <<>> \in Seq(S)
  OBVIOUS
<1>3. ASSUME NEW e \in S
      PROVE  \E s \in Seq(S) : s = <<e>> /\ \A n \in 1 .. Len(s) : s[n] = e
  <2>1. PICK s \in Seq(S) : s = <<e>>
    <3>1. <<e>> \in Seq(S)
      OBVIOUS
    <3> QED BY <3>1
  <2>2. Len(s) = 1 /\ s[1] = e
    BY <2>1
  <2>3. \A n \in 1 .. Len(s) : s[n] = e
    BY <2>2
  <2> QED BY <2>1, <2>3
<1> QED BY <1>1, <1>2, <1>3

LEMMA SortDevicesPatient ==
  ASSUME KInv, CopyInv, Patience, faults = 0, Settled, Aside,
         NEW i \in DOMAIN groupList, SortDevices(i)
  PROVE  Patience'
<1>1. /\ Len(requests) = 0 /\ Len(replies') = 0 /\ Typed /\ currApp \in App /\ HasAll
      /\ UNCHANGED <<tables, currApp, dialog>>
  BY QuietFacts DEF Aside, SortDevices
<1>2. i \in 1 .. Len(groupList)
  BY <1>1, CopyFacts
<1>3. PICK g \in Group, l \in Seq(Dev) :
        g = groupList[i].name /\ l = groupList[i].shown /\ Fits(Current, g, l)
  BY <1>2, QuietFacts
<1>4. Publish(<<requestSortDevice(g, l)>>)
  BY <1>3 DEF SortDevices
<1>5. PICK q \in Ask : /\ q = requestSortDevice(g, l) /\ q.app = currApp /\ q.cmd = "sort_dev"
                       /\ Fits(Current, q.group, q.devs)
  <2>1. requestSortDevice(g, l) \in Ask
    BY <1>1, SortAsk
  <2> QED BY <1>3, <2>1 DEF requestSortDevice
<1>6. PICK msgs \in Seq(Ask) : msgs = <<q>> /\ \A n \in 1 .. Len(msgs) : msgs[n] = q
  BY Few
<1>7. PublishFrom(ownLists', msgs)
  BY <1>4, <1>5, <1>6 DEF Publish
<1>8. \A n \in 1 .. Len(msgs) : /\ msgs[n].app = currApp /\ msgs[n].cmd = "sort_dev"
                                 /\ Fits(Current, msgs[n].group, msgs[n].devs)
  BY <1>5, <1>6
<1>9. \A h \in DOMAIN Current.groups : Fits(Current, h, Current.groups[h])
  BY QuietFacts
<1>10. \A n \in 1 .. Len(replies) : replies[n].cmd # "rename_group"
  BY QuietFacts
<1>11. Range(dialog'.devs) \subseteq Current.devices
  BY <1>1, QuietFacts
<1> QED BY <1>1, <1>7, <1>8, <1>9, <1>10, <1>11, ListsPatient

LEMMA MoveDevicesPatient ==
  ASSUME KInv, CopyInv, Patience, faults = 0, Settled, Aside, NEW h \in Group, MoveDevices(h)
  PROVE  Patience'
<1>1. /\ Len(requests) = 0 /\ Len(replies') = 0 /\ Typed /\ currApp \in App /\ HasAll
      /\ UNCHANGED <<tables, currApp>>
  BY QuietFacts DEF Aside, MoveDevices
<1>2. PICK g \in Group, s \in Seq(Dev) :
        g = dialog.src /\ s = dialog.devs /\ Range(s) \subseteq Current.devices
  BY DialogFacts, QuietFacts
<1>3. g \in Names /\ h \in Names
  BY <1>2 DEF MoveDevices
<1>5. PICK src \in 1 .. Len(groupList) : src = searchGroupNode(g) /\ groupList[src].name = g
  BY <1>1, <1>3, SearchFacts
<1>6. PICK dst \in 1 .. Len(groupList) : dst = searchGroupNode(h) /\ groupList[dst].name = h
  BY <1>1, <1>3, SearchFacts
<1>7. PICK from \in Seq(Dev) : from = groupList[src].devs /\ Fits(Current, g, from)
  BY <1>5, QuietFacts
<1>8. PICK to \in Seq(Dev) : to = groupList[dst].devs /\ Fits(Current, h, to)
  BY <1>6, QuietFacts
<1> DEFINE D == Range(s)
<1>9. PICK left \in Seq(Dev), gained \in Seq(Dev) :
        /\ left = RemoveAll(from, D) /\ gained = AppendNew(to, s)
  <2>1. RemoveAll(from, D) \in Seq(Dev) /\ AppendNew(to, s) \in Seq(Dev)
    BY RemoveAllType, AppendNewType
  <2> QED BY <2>1
<1>10. g # All => Fits(Current, g, left)
  <2>1. IsInjective(left) /\ Range(left) = Range(from) \ D
    BY <1>7, <1>9, RemovedOnce DEF Fits
  <2> QED BY <1>7, <2>1 DEF Fits
<1>11. h # All => Fits(Current, h, gained)
  <2>1. IsInjective(gained)
    BY <1>8, <1>9, AppendedOnce DEF Fits
  <2>2. Range(gained) \subseteq Range(to) \cup Range(s)
    BY <1>9, AppendNewType
  <2> QED BY <1>2, <1>8, <2>1, <2>2 DEF Fits
<1>12. PICK q \in Ask, r \in Ask :
         /\ q = requestSortDevice(g, left) /\ q.app = currApp /\ q.cmd = "sort_dev"
         /\ q.group = g /\ q.devs = left
         /\ r = requestSortDevice(h, gained) /\ r.app = currApp /\ r.cmd = "sort_dev"
         /\ r.group = h /\ r.devs = gained
  <2>1. requestSortDevice(g, left) \in Ask /\ requestSortDevice(h, gained) \in Ask
    BY <1>1, SortAsk
  <2> QED BY <2>1 DEF requestSortDevice
<1> DEFINE Fit(e) == /\ e.app = currApp /\ e.cmd = "sort_dev"
                     /\ Fits(Current, e.group, e.devs)
<1>13. (g # All => Fit(q)) /\ (h # All => Fit(r))
  <2>1. ASSUME g # All PROVE Fit(q)
    <3>1. Fits(Current, q.group, q.devs)
      BY <1>10, <1>12, <2>1
    <3> QED BY <1>12, <3>1
  <2>2. ASSUME h # All PROVE Fit(r)
    <3>1. Fits(Current, r.group, r.devs)
      BY <1>11, <1>12, <2>2
    <3> QED BY <1>12, <3>1
  <2> QED BY <2>1, <2>2
<1> DEFINE own == ownLists /\ currApp \in dialog.of
<1>14. PublishFrom(own, (IF g = All THEN <<>> ELSE <<q>>) \o (IF h = All THEN <<>> ELSE <<r>>))
  <2>1. g # All => requestSortDevice(g, IF g = All THEN groupList[src].devs
                                        ELSE RemoveAll(groupList[src].devs, D)) = q
    BY <1>7, <1>9, <1>12
  <2>2. h # All => requestSortDevice(h, IF h = All THEN groupList[dst].devs
                                        ELSE AppendNew(groupList[dst].devs, s)) = r
    BY <1>8, <1>9, <1>12
  <2> QED BY <1>2, <1>5, <1>6, <2>1, <2>2 DEF MoveDevices
<1> HIDE DEF Fit, own
<1>15. PICK out \in Seq(Ask) : /\ out = IF g = All THEN <<>> ELSE <<q>>
                               /\ \A j \in 1 .. Len(out) : Fit(out[j])
  <2>1. PICK o \in Seq(Ask) : o = <<q>> /\ \A j \in 1 .. Len(o) : o[j] = q
    BY Few
  <2>2. PICK z \in Seq(Ask) : z = <<>> /\ \A j \in 1 .. Len(z) : FALSE
    BY Few
  <2>3. CASE g = All
    BY <2>2, <2>3
  <2>4. CASE g # All
    BY <1>13, <2>1, <2>4
  <2> QED BY <2>3, <2>4
<1>16. PICK in \in Seq(Ask) : /\ in = IF h = All THEN <<>> ELSE <<r>>
                              /\ \A j \in 1 .. Len(in) : Fit(in[j])
  <2>1. PICK o \in Seq(Ask) : o = <<r>> /\ \A j \in 1 .. Len(o) : o[j] = r
    BY Few
  <2>2. PICK z \in Seq(Ask) : z = <<>> /\ \A j \in 1 .. Len(z) : FALSE
    BY Few
  <2>3. CASE h = All
    BY <2>2, <2>3
  <2>4. CASE h # All
    BY <1>13, <2>1, <2>4
  <2> QED BY <2>3, <2>4
<1>17. PICK msgs \in Seq(Ask) : msgs = out \o in /\ \A j \in 1 .. Len(msgs) : Fit(msgs[j])
  <2>1. /\ out \o in \in Seq(Ask) /\ Len(out) \in Nat /\ Len(in) \in Nat
        /\ Len(out \o in) = Len(out) + Len(in)
        /\ \A j \in 1 .. Len(out) : (out \o in)[j] = out[j]
        /\ \A j \in 1 .. Len(in) : (out \o in)[Len(out) + j] = in[j]
    BY Joined
  <2>2. ASSUME NEW j \in 1 .. Len(out \o in) PROVE Fit((out \o in)[j])
    <3>1. CASE j \in 1 .. Len(out)
      BY <1>15, <2>1, <3>1
    <3>2. CASE j \notin 1 .. Len(out)
      <4>1. j - Len(out) \in 1 .. Len(in) /\ Len(out) + (j - Len(out)) = j
        BY <2>1, <3>2
      <4>2. (out \o in)[j] = in[j - Len(out)]
        BY <2>1, <4>1
      <4> QED BY <1>16, <4>1, <4>2
    <3> QED BY <3>1, <3>2
  <2> QED BY <2>1, <2>2
<1>18. PublishFrom(own, msgs)
  BY <1>14, <1>15, <1>16, <1>17
<1>19. \A j \in 1 .. Len(msgs) : /\ msgs[j].app = currApp /\ msgs[j].cmd = "sort_dev"
                                 /\ Fits(Current, msgs[j].group, msgs[j].devs)
  BY <1>17 DEF Fit
<1>20. \A e \in DOMAIN Current.groups : Fits(Current, e, Current.groups[e])
  BY QuietFacts
<1>21. \A j \in 1 .. Len(replies) : replies[j].cmd # "rename_group"
  BY QuietFacts
<1>22. Range(dialog'.devs) \subseteq Current.devices
  <2>1. dialog' = Closed
    BY DEF MoveDevices
  <2> QED BY <2>1, ClosedIsEmpty
<1> QED BY <1>1, <1>18, <1>19, <1>20, <1>21, <1>22, ListsPatient

\* Nothing is sent: the phase stays, and the dialog takes what a view shows or nothing.
LEMMA SilentPatient ==
  ASSUME KInv, CopyInv, Patience, faults = 0, Settled, Aside,
         UNCHANGED <<requests, currApp, renamed>>,
         Range(dialog'.devs) \subseteq Current.devices
  PROVE  Patience'
<1>1. UNCHANGED <<tables, replies>> /\ Len(requests') = 0 /\ Len(replies') = 0
      /\ HasAll /\ Orderly(Current)
  BY QuietFacts DEF Aside
<1>2. HasAll' /\ Orderly(Current)'
  BY <1>1 DEF HasAll, Current, Orderly
<1>3. Sorting'
  BY <1>1, <1>2, SortingStarts
<1>4. DialogFits'
  BY <1>1 DEF DialogFits, Current
<1> QED BY <1>1, <1>3, <1>4, PatientStep DEF Patience

LEMMA LookingPatient ==
  ASSUME KInv, CopyInv, Patience, faults = 0, Settled, Aside, Looking
  PROVE  Patience'
<1>1. UNCHANGED <<requests, currApp, renamed>>
  BY DEF Looking, CloseMoveDialog, DragDevice, OpenMoveDialog
<1>2. Range(dialog.devs) \subseteq Current.devices
  BY QuietFacts
<1>3. CASE CloseMoveDialog
  <2>1. dialog' = Closed
    BY <1>3 DEF CloseMoveDialog
  <2> QED BY <1>1, <2>1, ClosedIsEmpty, SilentPatient
<1>4. ASSUME NEW i \in DOMAIN groupList, DragDevice(i) PROVE Patience'
  <2>1. dialog' = dialog
    BY <1>4 DEF DragDevice
  <2> QED BY <1>1, <1>2, <2>1, SilentPatient
<1>5. ASSUME NEW i \in DOMAIN groupList, NEW D, OpenMoveDialog(i, D) PROVE Patience'
  <2>1. i \in 1 .. Len(groupList)
    BY CopyFacts DEF KInv
  <2>2. PICK s \in Seq(Dev), g \in Group : s = groupList[i].shown /\ Fits(Current, g, s)
    BY <2>1, QuietFacts
  <2>3. dialog'.devs = Chosen(s, D)
    BY <1>5, <2>2 DEF OpenMoveDialog
  <2>4. Range(dialog'.devs) \subseteq Range(s)
    BY <2>3, ChosenType
  <2>5. Range(dialog'.devs) \subseteq Current.devices
    BY <2>2, <2>4 DEF Fits
  <2> QED BY <1>1, <2>5, SilentPatient
<1> QED BY <1>3, <1>4, <1>5 DEF Looking

LEMMA UserPatient ==
  ASSUME KInv, CopyInv, Patience, faults = 0, Settled, User,
         dialog = Closed \/ currApp' = currApp
  PROVE  Patience'
<1>1. Aside
  BY UserIsAside
<1>2. ASSUME NEW a \in App, SelectApp(a) PROVE Patience'
  <2>1. dialog = Closed
    BY <1>2 DEF SelectApp
  <2> QED BY <1>1, <1>2, <2>1, SelectPatient
<1>3. ASSUME NEW h \in Group, MoveDevices(h) PROVE Patience'
  BY <1>1, <1>3, MoveDevicesPatient
<1>4. ASSUME NEW i \in DOMAIN groupList, SortDevices(i) PROVE Patience'
  BY <1>1, <1>4, SortDevicesPatient
<1>5. CASE Sending
  BY <1>1, <1>2, <1>3, <1>4, <1>5, DevicesPatient, EditsPatient DEF Sending
<1>6. CASE Looking
  BY <1>1, <1>6, LookingPatient
<1> QED BY <1>5, <1>6 DEF User

LEMMA PatientNext ==
  ASSUME KInv, KInv', CopyInv, PatientInv, [Next]_vars
  PROVE  PatientInv'
<1> SUFFICES ASSUME faults' = 0, ~hasty' PROVE Patience'
  BY DEF PatientInv
<1>1. CASE UNCHANGED vars
  BY <1>1, SMTT(20) DEF vars, serverVars, clientVars, history, PatientInv, Patience, Asking,
       AskingFor, Answered, AnsweredBy, LeftBy, JoinedBy, Sorting, Sorts, Fits, HasAll,
       Current, Orderly, DialogFits
<1>2. CASE Server
  <2>1. faults = 0 /\ ~hasty
    <3>1. hasty' = hasty /\ CenterThread
      BY <1>2 DEF Server
    <3>2. faults = 0
      BY <1>2, FaultsGrow DEF Next
    <3> QED BY <3>1, <3>2
  <2> QED BY <1>2, <2>1, ServerPatient DEF PatientInv
<1>3. CASE LoseRequest \/ LoseReply
  <2>1. faults' # 0
    BY <1>3, ChannelFacts DEF LoseRequest, LoseReply, Fail
  <2> QED BY <2>1
<1>4. CASE CenterRecv
  <2>1. faults = 0 /\ ~hasty
    <3>1. UNCHANGED <<faults, hasty>>
      BY <1>4 DEF CenterRecv, onDevList, onGroupList, onAddGroup, onDelGroup, onRenameGroup,
             onSortDev, onAddDev, onDelDev, Unhandled
    <3> QED BY <3>1
  <2> QED BY <1>4, <2>1, RecvPatient DEF PatientInv
<1>5. CASE User
  <2>1. faults = 0 /\ ~hasty /\ Settled /\ (dialog = Closed \/ currApp' = currApp)
    BY <1>5 DEF User
  <2> QED BY <1>5, <2>1, UserPatient DEF PatientInv
<1> QED BY <1>1, <1>2, <1>3, <1>4, <1>5 DEF Next

LEMMA PatientInit == Init => PatientInv
<1> SUFFICES ASSUME Init PROVE Patience
  BY DEF PatientInv
<1>1. currApp \in App /\ ~renamed /\ \A a \in App : tables[a] \in InitialTables
  BY DEF Init
<1>2. \A a \in App : Orderly(tables[a])
  BY <1>1, TablesAssumption
<1>3. PICK q : requests = <<q>> /\ q.cmd = "dev_list" /\ q.app = currApp
  BY DEF Init
<1>4. Len(requests) = 1 /\ requests[1] = q /\ Len(replies) = 0
  BY <1>3 DEF Init
<1>5. Asking
  BY <1>1, <1>2, <1>3, <1>4 DEF Asking, AskingFor, Current
<1>6. DialogFits
  <2>1. dialog = Closed
    BY DEF Init
  <2> QED BY <2>1, ClosedIsEmpty DEF DialogFits
<1> QED BY <1>1, <1>2, <1>3, <1>4, <1>5, <1>6 DEF Patience

LEMMA PatientIsOrderly == KInv /\ PatientInv => PatientKeepsOrder
<1> SUFFICES ASSUME KInv, PatientInv, Settled, faults = 0, ~hasty
             PROVE  \A a \in App : Orderly(tables[a])
  BY DEF PatientKeepsOrder
<1>1. Len(requests) = 0 /\ Len(replies) = 0 /\ Patience
  BY DEF Settled, PatientInv
<1> QED BY <1>1, PatientSettled

(***************************************************************************)
(* A user who waits for every answer keeps each application's lists in     *)
(* order: no list has a device twice or one that is not the application's, *)
(* and the group of all devices has them all, although the server checks   *)
(* none of it and takes whole lists from the app.                          *)
(***************************************************************************)
THEOREM PatienceKeepsOrder == Spec => []PatientKeepsOrder
<1>1. Init => KInv /\ CopyInv /\ PatientInv
  BY KInit, CopyInit, PatientInit
<1>2. KInv /\ CopyInv /\ PatientInv /\ [Next]_vars => (KInv /\ CopyInv /\ PatientInv)'
  BY KNext, CopyNext, PatientNext
<1>3. KInv /\ CopyInv /\ PatientInv => PatientKeepsOrder
  BY PatientIsOrderly
<1> QED BY <1>1, <1>2, <1>3, PTL DEF Spec
=============================================================================
