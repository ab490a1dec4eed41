------------------------- MODULE VerCodeList_proofs -------------------------
(***************************************************************************)
(* What VerCodeList keeps for every set of phones and every timeout, and   *)
(* VerCodeResend for every set of phones that is small enough.             *)
(*                                                                         *)
(* The bound on the age of a code is not inductive by itself: it depends   *)
(* on the place of the code in the list, on the list being ordered by age  *)
(* and, through the pigeonhole principle, on its being no longer than the  *)
(* set of phones.                                                          *)
(***************************************************************************)
EXTENDS VerCodeResend, TLAPS, FiniteSetTheorems

N == Cardinality(Phone)

\* The entry asked for first is in front.
OldestInFront ==
  \A i, j \in DOMAIN codes : i <= j => codes[j].age <= codes[i].age

\* The further back an expired entry is, the closer to Timeout it still is.
Backlog ==
  \A i \in DOMAIN codes : codes[i].age > Timeout => codes[i].age + i <= Timeout + N

ListInv == ListTypeOK /\ OneCodePerPhone /\ OldestInFront /\ Backlog

\* The number of phones is a number.
LEMMA NType == N \in Nat
BY PhoneAssumption, FS_CardinalityType DEF N

\* Pigeonhole: a list with one code per phone is no longer than the set of
\* phones.
LEMMA LenBound ==
  ASSUME ListTypeOK, OneCodePerPhone
  PROVE  Len(codes) <= N
<1> DEFINE f == [i \in 1 .. Len(codes) |-> codes[i].phone]
<1>1. Len(codes) \in Nat /\ DOMAIN codes = 1 .. Len(codes)
  BY DEF ListTypeOK
<1>2. \A i \in 1 .. Len(codes) : codes[i] \in Entry
  BY DEF ListTypeOK
<1>3. f \in [1 .. Len(codes) -> Phone]
  BY <1>2 DEF Entry
<1>4. 1 \in Int /\ Len(codes) \in Int
  BY <1>1
<1>5. IsFiniteSet(1 .. Len(codes)) /\ Cardinality(1 .. Len(codes)) = Len(codes)
  <2>1. /\ IsFiniteSet(1 .. Len(codes))
        /\ Cardinality(1 .. Len(codes)) =
             IF 1 > Len(codes) THEN 0 ELSE Len(codes) - 1 + 1
    BY <1>4, FS_Interval, Zenon
  <2> QED BY <1>1, <2>1
<1>6. \A i, j \in 1 .. Len(codes) : f[i] = f[j] => i = j
  BY <1>1 DEF OneCodePerPhone
<1>7. f \in Injection(1 .. Len(codes), Phone)
  BY <1>3, <1>6 DEF Injection, IsInjective
<1> HIDE DEF f
<1>8. Cardinality(1 .. Len(codes)) <= Cardinality(Phone)
  BY <1>7, PhoneAssumption, FS_Injection
<1> QED BY <1>5, <1>8 DEF N

\* What Append does, entry by entry.
LEMMA Appended ==
  ASSUME NEW S, NEW s \in Seq(S), NEW e \in S
  PROVE  /\ Append(s, e) \in Seq(S)
         /\ Len(Append(s, e)) = Len(s) + 1
         /\ DOMAIN Append(s, e) = 1 .. Len(s) + 1
         /\ Append(s, e)[Len(s) + 1] = e
         /\ \A j \in 1 .. Len(s) : Append(s, e)[j] = s[j]
OBVIOUS

\* The initial state.
LEMMA InitInv == ListInit => ListInv
BY DEF ListInit, ListInv, ListTypeOK, OneCodePerPhone, OldestInFront, Backlog

\* A request adds a new phone at the end, or nothing.
LEMMA ReqInv ==
  ASSUME ListInv, NEW p \in Phone, ReqVerCode(p)
  PROVE  ListInv'
<1>1. CASE UNCHANGED codes
  BY <1>1 DEF ListInv, ListTypeOK, OneCodePerPhone, OldestInFront, Backlog, N
<1>2. CASE addReqVerCodeNode(p)
  <2> PICK k \in Code : codes' = Append(codes, [phone |-> p, code |-> k, age |-> 0])
    BY <1>2 DEF addReqVerCodeNode
  <2> DEFINE n == Len(codes)
             e == [phone |-> p, code |-> k, age |-> 0]
  <2>1. n \in Nat /\ DOMAIN codes = 1 .. n /\ codes \in Seq(Entry)
    BY DEF ListInv, ListTypeOK
  <2>2. \A i \in 1 .. n : codes[i] \in Entry /\ codes[i].age \in Nat
    <3>1. \A i \in 1 .. n : codes[i] \in Entry
      BY <2>1
    <3> QED BY <3>1 DEF Entry
  <2>3. e \in Entry /\ e.phone = p /\ e.age = 0
    BY DEF Entry
  <2>4. codes' \in Seq(Entry) /\ Len(codes') = n + 1 /\ DOMAIN codes' = 1 .. n + 1
    BY <2>1, <2>3, Appended
  <2>5. codes'[n + 1] = e /\ \A i \in 1 .. n : codes'[i] = codes[i]
    BY <2>1, <2>3, Appended
  <2>6. \A i \in 1 .. n : codes[i].phone # p
    BY <1>2, <2>1 DEF addReqVerCodeNode, Listed
  <2> HIDE DEF n, e
  <2>7. OneCodePerPhone'
    BY <2>1, <2>3, <2>4, <2>5, <2>6 DEF OneCodePerPhone, ListInv
  <2>8. OldestInFront'
    BY <2>1, <2>2, <2>3, <2>4, <2>5 DEF OldestInFront, ListInv
  <2>9. Backlog'
    BY <2>1, <2>2, <2>3, <2>4, <2>5, TimeoutAssumption DEF Backlog, ListInv, N
  <2> QED BY <2>4, <2>7, <2>8, <2>9 DEF ListInv, ListTypeOK
<1> QED BY <1>1, <1>2 DEF ReqVerCode

(***************************************************************************)
(* What a check does to an ordered list, without CHOOSE: it drops nothing  *)
(* (d = 0), and then no entry was expired, or the front entry (d = 1), and *)
(* then that one was expired.                                              *)
(***************************************************************************)
Shift(d) ==
  /\ DOMAIN codes' = 1 .. Len(codes) - d
  /\ codes' \in Seq(Entry)
  /\ Len(codes') = Len(codes) - d
  /\ \A i \in 1 .. Len(codes) - d :
       /\ codes'[i].phone = codes[i + d].phone
       /\ codes'[i].age = codes[i + d].age + 1

TickShape ==
  \/ Shift(0) /\ \A i \in DOMAIN codes : codes[i].age + 1 <= Timeout
  \/ Shift(1) /\ Len(codes) > 0 /\ codes[1].age >= Timeout

LEMMA TickShapes ==
  ASSUME ListTypeOK, OldestInFront, Tick
  PROVE  TickShape
<1> DEFINE n == Len(codes)
           E == Expired(Aged)
<1>1. n \in Nat /\ DOMAIN codes = 1 .. n /\ codes \in Seq(Entry)
  BY DEF ListTypeOK
<1>2. \A i \in 1 .. n : codes[i] \in Entry
  BY <1>1
<1>3. DOMAIN Aged = 1 .. n
  BY <1>1 DEF Aged
<1>4. \A i \in 1 .. n : /\ Aged[i] \in Entry
                        /\ Aged[i].phone = codes[i].phone
                        /\ Aged[i].age = codes[i].age + 1
                        /\ codes[i].age \in Nat
  BY <1>1, <1>2 DEF Aged, Entry
<1>5. Aged \in [1 .. n -> Entry]
  BY <1>1, <1>4 DEF Aged
<1>6. Aged \in Seq(Entry) /\ Len(Aged) = n
  BY <1>1, <1>3, <1>5
<1>7. CASE E = {}
  <2>1. codes' = Aged
    BY <1>7 DEF Tick, checkReqVerCodeList
  <2>2. \A i \in 1 .. n : codes[i].age + 1 <= Timeout
    BY <1>3, <1>4, <1>7, TimeoutAssumption DEF Expired
  <2>3. Shift(0)
    BY <1>1, <1>3, <1>4, <1>6, <2>1 DEF Shift
  <2> QED BY <1>1, <2>2, <2>3 DEF TickShape
<1>8. CASE E # {}
  <2>1. PICK j \in E : TRUE
    BY <1>8
  <2>2. j \in 1 .. n /\ codes[j].age + 1 > Timeout
    BY <1>3, <1>4, <2>1 DEF Expired
  <2>3. codes[j].age <= codes[1].age /\ codes[1].age \in Nat /\ n > 0
    BY <1>1, <1>4, <2>2 DEF OldestInFront
  <2>4. codes[1].age >= Timeout /\ 1 \in E
    BY <1>3, <1>4, <2>2, <2>3, TimeoutAssumption DEF Expired
  <2>5. \A i \in E : i \in Nat /\ 1 <= i
    BY <1>1, <1>3 DEF Expired
  <2>6. (CHOOSE i \in E : \A k \in E : i <= k) = 1
    BY <2>4, <2>5
  <2>7. codes' = Without(Aged, 1)
    BY <1>8, <2>6 DEF Tick, checkReqVerCodeList
  <2>8. codes' = [i \in 1 .. n - 1 |-> Aged[i + 1]]
    BY <1>1, <1>6, <2>7 DEF Without
  <2>9. codes' \in Seq(Entry) /\ DOMAIN codes' = 1 .. n - 1 /\ Len(codes') = n - 1
    <3>1. n - 1 \in Nat /\ \A i \in 1 .. n - 1 : Aged[i + 1] \in Entry
      BY <1>1, <1>4, <2>3
    <3>2. codes' \in Seq(Entry) /\ DOMAIN codes' = 1 .. n - 1
      BY <3>1, <2>8
    <3> QED BY <3>1, <3>2, <2>8
  <2>10. Shift(1)
    <3>1. \A i \in 1 .. n - 1 : i + 1 \in 1 .. n /\ codes'[i] = Aged[i + 1]
      BY <1>1, <2>8
    <3>2. \A i \in 1 .. n - 1 : /\ codes'[i].phone = codes[i + 1].phone
                                /\ codes'[i].age = codes[i + 1].age + 1
      BY <1>4, <3>1
    <3> QED BY <2>9, <3>2 DEF Shift
  <2> QED BY <2>3, <2>4, <2>10 DEF TickShape
<1> QED BY <1>7, <1>8

\* A check keeps the list as it is promised to be.
LEMMA TickInv ==
  ASSUME ListInv, Tick
  PROVE  ListInv'
<1>1. TickShape /\ Len(codes) <= N
  BY TickShapes, LenBound DEF ListInv
<1>2. Len(codes) \in Nat /\ DOMAIN codes = 1 .. Len(codes) /\ codes \in Seq(Entry)
  BY DEF ListInv, ListTypeOK
<1>3. \A i \in 1 .. Len(codes) : codes[i].age \in Nat
  <2>1. \A i \in 1 .. Len(codes) : codes[i] \in Entry
    BY <1>2
  <2> QED BY <2>1 DEF Entry
<1>4. PICK d \in {0, 1} : Shift(d)
  BY <1>1 DEF TickShape
<1>5. ListTypeOK'
  BY <1>4 DEF Shift, ListTypeOK
<1>6. \A i \in DOMAIN codes' : /\ i \in Nat /\ i + d \in DOMAIN codes
                              /\ codes'[i].phone = codes[i + d].phone
                              /\ codes'[i].age = codes[i + d].age + 1
  <2> SUFFICES ASSUME NEW i \in DOMAIN codes'
               PROVE  /\ i \in Nat /\ i + d \in DOMAIN codes
                      /\ codes'[i].phone = codes[i + d].phone
                      /\ codes'[i].age = codes[i + d].age + 1
    OBVIOUS
  <2>1. i \in 1 .. Len(codes) - d
    BY <1>4 DEF Shift
  <2>2. i \in Nat /\ i + d \in DOMAIN codes
    BY <1>2, <2>1
  <2> QED BY <1>4, <2>1, <2>2 DEF Shift
<1>7. OneCodePerPhone'
  <2> SUFFICES ASSUME NEW i \in DOMAIN codes', NEW j \in DOMAIN codes',
                      codes'[i].phone = codes'[j].phone
               PROVE  i = j
    BY DEF OneCodePerPhone
  <2>1. i + d = j + d
    BY <1>6 DEF OneCodePerPhone, ListInv
  <2> QED BY <1>6, <2>1
<1>8. OldestInFront'
  <2> SUFFICES ASSUME NEW i \in DOMAIN codes', NEW j \in DOMAIN codes', i <= j
               PROVE  codes'[j].age <= codes'[i].age
    BY DEF OldestInFront
  <2>1. i + d <= j + d
    BY <1>6
  <2>2. codes[j + d].age <= codes[i + d].age
    BY <1>6, <2>1 DEF OldestInFront, ListInv
  <2> QED BY <1>2, <1>3, <1>6, <2>2, SMTT(20)
<1>9. Backlog'
  <2>1. CASE Shift(0) /\ \A i \in DOMAIN codes : codes[i].age + 1 <= Timeout
    BY <1>2, <1>3, <2>1, TimeoutAssumption, NType DEF Shift, Backlog, N
  <2>2. CASE Shift(1)
    <3> SUFFICES ASSUME NEW i \in DOMAIN codes', codes'[i].age > Timeout
                 PROVE  codes'[i].age + i <= Timeout + N
      BY DEF Backlog, N
    <3>1. i \in 1 .. Len(codes) - 1 /\ codes'[i].age = codes[i + 1].age + 1
      BY <2>2 DEF Shift
    <3>2. i + 1 \in DOMAIN codes /\ i \in Nat /\ i + 1 <= N
      BY <1>1, <1>2, <3>1, NType
    <3>3. CASE codes[i + 1].age > Timeout
      BY <1>2, <1>3, <3>1, <3>2, <3>3, TimeoutAssumption, NType DEF Backlog, ListInv
    <3>4. CASE ~(codes[i + 1].age > Timeout)
      BY <1>2, <1>3, <3>1, <3>2, <3>4, TimeoutAssumption, NType
    <3> QED BY <3>3, <3>4
  <2> QED BY <1>1, <2>1, <2>2 DEF TickShape
<1> QED BY <1>5, <1>7, <1>8, <1>9 DEF ListInv

\* The list is always as promised.
LEMMA Invariance == ListSpec => []ListInv
<1>1. ASSUME ListInv, [ListNext]_codes PROVE ListInv'
  <2>1. CASE UNCHANGED codes
    BY <1>1, <2>1 DEF ListInv, ListTypeOK, OneCodePerPhone, OldestInFront, Backlog, N
  <2>2. CASE Tick
    BY <1>1, <2>2, TickInv
  <2>3. CASE \E p \in Phone : ReqVerCode(p)
    BY <1>1, <2>3, ReqInv
  <2> QED BY <1>1, <2>1, <2>2, <2>3 DEF ListNext
<1> QED BY <1>1, InitInv, PTL DEF ListSpec

\* Entries keep their type: every code has a phone, a code and an age.
THEOREM ListTypeCorrect == ListSpec => []ListTypeOK
BY Invariance, PTL DEF ListInv

\* addReqVerCodeNode and the check together never leave two codes for one
\* phone, for any number of phones.
THEOREM CodesAreUnique == ListSpec => []OneCodePerPhone
BY Invariance, PTL DEF ListInv

\* The bound, read off the front of the backlog.
LEMMA AgeBounded == ASSUME ListInv PROVE AgeBound
<1> SUFFICES ASSUME NEW i \in DOMAIN codes
             PROVE  codes[i].age < Timeout + N
  BY DEF AgeBound, N
<1>1. i \in 1 .. Len(codes) /\ Len(codes) \in Nat /\ codes[i] \in Entry
  BY DEF ListInv, ListTypeOK
<1>2. codes[i].age \in Nat
  BY <1>1 DEF Entry
<1>3. 1 <= N
  BY <1>1, LenBound, NType DEF ListInv
<1>4. codes[i].age > Timeout => codes[i].age + i <= Timeout + N
  BY DEF ListInv, Backlog
<1> QED BY <1>1, <1>2, <1>3, <1>4, TimeoutAssumption, NType

\* One removal per check is enough to bound the age of every code by the
\* timeout and the number of phones.
THEOREM AgesAreBounded == ListSpec => []AgeBound
BY Invariance, AgeBounded, PTL

\* A request leaves the entries alone that are there.
LEMMA ReqKeeps ==
  ASSUME ListTypeOK, NEW p \in Phone, ReqVerCode(p), NEW i \in DOMAIN codes
  PROVE  i \in DOMAIN codes' /\ codes'[i] = codes[i]
<1>1. CASE UNCHANGED codes
  BY <1>1
<1>2. CASE addReqVerCodeNode(p)
  <2> PICK k \in Code : codes' = Append(codes, [phone |-> p, code |-> k, age |-> 0])
    BY <1>2 DEF addReqVerCodeNode
  <2> DEFINE e == [phone |-> p, code |-> k, age |-> 0]
  <2>1. e \in Entry /\ codes' = Append(codes, e)
    BY DEF Entry
  <2> HIDE DEF e
  <2>2. codes \in Seq(Entry) /\ DOMAIN codes = 1 .. Len(codes) /\ Len(codes) \in Nat
    BY DEF ListTypeOK
  <2>3. /\ DOMAIN codes' = 1 .. Len(codes) + 1
        /\ \A j \in 1 .. Len(codes) : codes'[j] = codes[j]
    BY <2>1, <2>2, Appended
  <2> QED BY <2>2, <2>3
<1> QED BY <1>1, <1>2 DEF ReqVerCode

\* Codes lapse one at a time, in the order of the requests, and never early.
THEOREM LapsesAreInOrder == ListSpec => LapseInOrder
<1> DEFINE Lapse ==
      \A i \in DOMAIN codes :
        (\A j \in DOMAIN codes' : codes'[j].phone # codes[i].phone)
          => i = 1 /\ codes[i].age >= Timeout /\ Len(codes') = Len(codes) - 1
<1>1. ASSUME ListInv, [ListNext]_codes PROVE [Lapse]_codes
  <2> SUFFICES ASSUME ~UNCHANGED codes, NEW i \in DOMAIN codes,
                      \A j \in DOMAIN codes' : codes'[j].phone # codes[i].phone
               PROVE  i = 1 /\ codes[i].age >= Timeout /\ Len(codes') = Len(codes) - 1
    OBVIOUS
  <2>1. Len(codes) \in Nat /\ DOMAIN codes = 1 .. Len(codes) /\ codes \in Seq(Entry)
    BY <1>1 DEF ListInv, ListTypeOK
  <2>2. CASE Tick
    <3>1. TickShape
      BY <1>1, <2>2, TickShapes DEF ListInv
    <3>2. ~Shift(0)
      BY <2>1 DEF Shift
    <3>3. Shift(1) /\ codes[1].age >= Timeout
      BY <3>1, <3>2 DEF TickShape
    <3>4. i = 1
      <4>1. i # 1 => i - 1 \in 1 .. Len(codes) - 1
        BY <2>1
      <4>2. i # 1 => codes'[i - 1].phone = codes[i].phone
        BY <2>1, <3>3, <4>1 DEF Shift
      <4> QED BY <3>3, <4>1, <4>2 DEF Shift
    <3>5. Len(codes') = Len(codes) - 1
      BY <2>1, <3>3, <3>4 DEF Shift
    <3> QED BY <3>3, <3>4, <3>5
  <2>3. CASE \E p \in Phone : ReqVerCode(p)
    BY <1>1, <2>3, ReqKeeps DEF ListInv
  <2> QED BY <1>1, <2>2, <2>3 DEF ListNext
<1> QED BY <1>1, Invariance, PTL DEF ListSpec, LapseInOrder

-----------------------------------------------------------------------------
(***************************************************************************)
(* VerCodeResend: no view asks a third time for the same code.             *)
(*                                                                         *)
(* While a view keeps its button locked, a code gets older by the checks   *)
(* the server counts meanwhile.  age - ahead + 2 * timeValue does not      *)
(* change then, and grows by a whole countdown with every press of the     *)
(* button: after two answers it says that the code is at least two         *)
(* countdowns old when the button can be pressed again, which the list of  *)
(* codes does not allow.                                                   *)
(***************************************************************************)
ClocksOK ==
  /\ timeValue \in [View -> 0 .. Countdown]
  /\ ahead \in [View -> -1 .. 2]
  /\ asked \in [View -> [Phone -> Nat]]

\* The age that a code has, at least, when the button of a view unlocks.
OldFor(v, i) ==
  codes[i].age - ahead[v] + 2 * timeValue[v] >= 2 * Countdown * asked[v][codes[i].phone] - 2

AgedEnough == \A v \in View : \A i \in DOMAIN codes : OldFor(v, i)

ResendInv == ListInv /\ ClocksOK /\ AgedEnough /\ AskedTwiceAtMost

\* Every entry of the list belongs to a phone and has an age below the bound.
LEMMA EntryFacts ==
  ASSUME ListInv, NEW i \in DOMAIN codes
  PROVE  /\ codes[i].phone \in Phone
         /\ codes[i].age \in Nat
         /\ codes[i].age < Timeout + N
<1>1. codes \in Seq(Entry) /\ codes[i] \in Entry
  BY DEF ListInv, ListTypeOK
<1> QED BY <1>1, AgeBounded DEF Entry, AgeBound, N

\* What the invariant says of a view and a phone.
LEMMA ViewFacts ==
  ASSUME ResendInv, NEW v \in View, NEW p \in Phone
  PROVE  /\ timeValue[v] \in Nat /\ ahead[v] \in -1 .. 2
         /\ asked[v][p] \in {0, 1, 2}
<1>1. asked[v] \in [Phone -> Nat] /\ asked[v][p] <= 2
  BY DEF ResendInv, ClocksOK, AskedTwiceAtMost
<1>2. asked[v][p] \in Nat
  BY <1>1
<1>3. timeValue[v] \in 0 .. Countdown /\ ahead[v] \in -1 .. 2
  BY DEF ResendInv, ClocksOK
<1> QED BY <1>1, <1>2, <1>3, CountdownAssumption

\* At the start there are no codes.
LEMMA ResendStarts == ResendInit => ResendInv
<1> SUFFICES ASSUME ResendInit PROVE ResendInv
  OBVIOUS
<1>1. ListInv /\ DOMAIN codes = {}
  BY InitInv DEF ResendInit, ListInit
<1>2. AgedEnough
  BY <1>1 DEF AgedEnough
<1>3. ClocksOK /\ AskedTwiceAtMost
  BY CountdownAssumption DEF ResendInit, ClocksOK, AskedTwiceAtMost
<1> QED BY <1>1, <1>2, <1>3 DEF ResendInv

(***************************************************************************)
(* A step that leaves the codes alone and takes nothing from a view's sum  *)
(* that it does not take from its requests: a press that is lost, a second *)
(* and a restart.                                                          *)
(***************************************************************************)
LEMMA ViewStep ==
  ASSUME ResendInv, codes' = codes, ClocksOK',
         NEW v \in View,
         \A w \in View \ {v} :
           timeValue'[w] = timeValue[w] /\ ahead'[w] = ahead[w] /\ asked'[w] = asked[w],
         \/ /\ asked'[v] = asked[v]
            /\ 2 * timeValue'[v] - ahead'[v] >= 2 * timeValue[v] - ahead[v]
         \/ \A p \in Phone : asked'[v][p] = 0
  PROVE  ResendInv'
<1>1. ListInv'
  BY DEF ResendInv, ListInv, ListTypeOK, OneCodePerPhone, OldestInFront, Backlog, N
<1>2. AskedTwiceAtMost'
  <2> SUFFICES ASSUME NEW w \in View, NEW p \in Phone PROVE asked'[w][p] <= 2
    BY DEF AskedTwiceAtMost
  <2>1. asked[w][p] <= 2
    BY DEF ResendInv, AskedTwiceAtMost
  <2> QED BY <2>1
<1>3. AgedEnough'
  <2> SUFFICES ASSUME NEW w \in View, NEW i \in DOMAIN codes PROVE OldFor(w, i)'
    BY DEF AgedEnough
  <2>1. codes[i].phone \in Phone /\ codes[i].age \in Nat
    BY EntryFacts DEF ResendInv
  <2>2. OldFor(w, i)
    BY DEF ResendInv, AgedEnough
  <2>3. CASE w # v
    BY <2>2, <2>3 DEF OldFor
  <2>4. CASE w = v
    <3> DEFINE p == codes[i].phone
    <3>1. timeValue[v] \in Nat /\ ahead[v] \in -1 .. 2 /\ asked[v][p] \in {0, 1, 2}
      BY <2>1, ViewFacts
    <3>2. timeValue'[v] \in Nat /\ ahead'[v] \in -1 .. 2
      BY CountdownAssumption DEF ClocksOK
    <3>3. CASE asked'[v][p] = 0
      BY <2>1, <2>4, <3>2, <3>3, CountdownAssumption DEF OldFor
    <3>4. CASE /\ asked'[v] = asked[v]
               /\ 2 * timeValue'[v] - ahead'[v] >= 2 * timeValue[v] - ahead[v]
      <4>1. 2 * Countdown * asked[v][p] - 2 \in Int
        BY <3>1, CountdownAssumption
      <4>2. codes[i].age - ahead[v] + 2 * timeValue[v] >= 2 * Countdown * asked[v][p] - 2
        BY <2>2, <2>4 DEF OldFor
      <4>3. codes[i].age - ahead'[v] + 2 * timeValue'[v] >= 2 * Countdown * asked[v][p] - 2
        BY <2>1, <3>1, <3>2, <3>4, <4>1, <4>2
      <4> QED BY <2>4, <3>4, <4>3 DEF OldFor
    <3> QED BY <2>1, <3>3, <3>4
  <2> QED BY <2>3, <2>4
<1> QED BY <1>1, <1>2, <1>3 DEF ResendInv

\* A request that is lost locks the button for longer.
LEMMA PressLostKeeps ==
  ASSUME ResendInv, NEW v \in View, PressLost(v)
  PROVE  ResendInv'
<1>1. ClocksOK'
  BY CountdownAssumption DEF ResendInv, ClocksOK, PressLost
<1>2. \A w \in View \ {v} : timeValue'[w] = timeValue[w]
  BY DEF ResendInv, ClocksOK, PressLost
<1>3. 2 * timeValue'[v] - ahead'[v] >= 2 * timeValue[v] - ahead[v]
  BY CountdownAssumption DEF ResendInv, ClocksOK, PressLost
<1> QED BY <1>1, <1>2, <1>3, ViewStep DEF PressLost

\* A second of a view leaves its sum as it is or, once the button is unlocked,
\* makes it larger.
LEMMA SecondKeeps ==
  ASSUME ResendInv, NEW v \in View, Second(v)
  PROVE  ResendInv'
<1>1. ClocksOK'
  BY CountdownAssumption DEF ResendInv, ClocksOK, Second
<1>2. \A w \in View \ {v} : timeValue'[w] = timeValue[w] /\ ahead'[w] = ahead[w]
  BY DEF ResendInv, ClocksOK, Second
<1>3. 2 * timeValue'[v] - ahead'[v] >= 2 * timeValue[v] - ahead[v]
  BY CountdownAssumption DEF ResendInv, ClocksOK, Second
<1> QED BY <1>1, <1>2, <1>3, ViewStep DEF Second

\* A view that starts anew has asked for nothing.
LEMMA RestartKeeps ==
  ASSUME ResendInv, NEW v \in View, ShowAnew(v)
  PROVE  ResendInv'
<1>1. ClocksOK'
  BY CountdownAssumption DEF ResendInv, ClocksOK, ShowAnew
<1>2. \A w \in View \ {v} :
        timeValue'[w] = timeValue[w] /\ ahead'[w] = ahead[w] /\ asked'[w] = asked[w]
  BY DEF ResendInv, ClocksOK, ShowAnew
<1>3. \A p \in Phone : asked'[v][p] = 0
  BY DEF ResendInv, ClocksOK, ShowAnew
<1> QED BY <1>1, <1>2, <1>3, ViewStep DEF ShowAnew

\* A check of the server makes every code older and every view's clock later.
LEMMA HalfSecondKeeps ==
  ASSUME ResendInv, HalfSecond
  PROVE  ResendInv'
<1>1. timeValue' = timeValue /\ asked' = asked /\ Tick
  BY DEF HalfSecond
<1>2. ListInv'
  BY <1>1, TickInv DEF ResendInv
<1>3. /\ ClocksOK'
      /\ \A v \in View : ahead[v] \in -1 .. 2 /\ ahead'[v] = ahead[v] + 1
  BY <1>1 DEF ResendInv, ClocksOK, HalfSecond
<1>4. PICK d \in {0, 1} : Shift(d)
  BY <1>1, TickShapes DEF ResendInv, ListInv, TickShape
<1>5. AgedEnough'
  <2> SUFFICES ASSUME NEW v \in View, NEW i \in DOMAIN codes' PROVE OldFor(v, i)'
    BY <1>1 DEF AgedEnough
  <2>1. /\ i + d \in DOMAIN codes
        /\ codes'[i].phone = codes[i + d].phone
        /\ codes'[i].age = codes[i + d].age + 1
    <3>1. Len(codes) \in Nat /\ DOMAIN codes = 1 .. Len(codes) /\ i \in 1 .. Len(codes) - d
      BY <1>4 DEF Shift, ResendInv, ListInv, ListTypeOK
    <3>2. i + d \in DOMAIN codes
      BY <3>1
    <3> QED BY <1>4, <3>1, <3>2 DEF Shift
  <2> DEFINE p == codes[i + d].phone
  <2>2. p \in Phone /\ codes[i + d].age \in Nat
    BY <2>1, EntryFacts DEF ResendInv
  <2>3. timeValue[v] \in Nat /\ asked[v][p] \in {0, 1, 2}
    BY <2>2, ViewFacts
  <2>4. codes[i + d].age - ahead[v] + 2 * timeValue[v] >= 2 * Countdown * asked[v][p] - 2
    BY <2>1 DEF ResendInv, AgedEnough, OldFor
  <2>5. 2 * Countdown * asked[v][p] - 2 \in Int
    BY <2>3, CountdownAssumption
  <2>6. codes'[i].age - ahead'[v] + 2 * timeValue[v] >= 2 * Countdown * asked[v][p] - 2
    BY <1>3, <2>1, <2>2, <2>3, <2>4, <2>5
  <2> QED BY <1>1, <2>1, <2>6 DEF OldFor
<1>6. AskedTwiceAtMost'
  BY <1>1 DEF ResendInv, AskedTwiceAtMost
<1> QED BY <1>2, <1>3, <1>5, <1>6 DEF ResendInv

(***************************************************************************)
(* A request that arrives: a phone without a code gets one, a phone with   *)
(* one is refused, and then the view had asked for it once at most.        *)
(***************************************************************************)
LEMMA PressKeeps ==
  ASSUME FewPhones, ResendInv, NEW v \in View, NEW p \in Phone, Press(v, p)
  PROVE  ResendInv'
<1>1. /\ ReqVerCode(p) /\ Answered(v, p) /\ ahead' = ahead /\ timeValue[v] = 0
      /\ timeValue' = [timeValue EXCEPT ![v] = Countdown]
  BY DEF Press
<1>2. ListInv' /\ ListInv
  BY <1>1, ReqInv DEF ResendInv
<1>3. /\ timeValue'[v] = Countdown
      /\ \A w \in View : /\ timeValue[w] \in Nat /\ timeValue'[w] \in Nat
                         /\ timeValue'[w] >= timeValue[w]
  BY <1>1, CountdownAssumption DEF ResendInv, ClocksOK
<1>4. /\ asked' \in [View -> [Phone -> Nat]]
      /\ \A w \in View : \A q \in Phone :
           asked'[w][q] = IF q = p
                          THEN (IF Listed(p) THEN asked[w][p] ELSE 0) + (IF w = v THEN 1 ELSE 0)
                          ELSE asked[w][q]
  BY <1>1 DEF Answered, ResendInv, ClocksOK
<1>5. ClocksOK'
  <2>1. timeValue' \in [View -> 0 .. Countdown]
    BY <1>1, CountdownAssumption DEF ResendInv, ClocksOK
  <2>2. ahead' \in [View -> -1 .. 2]
    BY <1>1 DEF ResendInv, ClocksOK
  <2> QED BY <1>4, <2>1, <2>2 DEF ClocksOK
\* The entries that were there: their age has room for one more request.
<1>6. ASSUME NEW w \in View, NEW i \in DOMAIN codes
      PROVE  codes[i].age - ahead[w] + 2 * timeValue'[w]
               >= 2 * Countdown * asked'[w][codes[i].phone] - 2
  <2> DEFINE q == codes[i].phone
  <2>1. q \in Phone /\ codes[i].age \in Nat
    BY <1>2, EntryFacts
  <2>2. ahead[w] \in -1 .. 2 /\ asked[w][q] \in {0, 1, 2} /\ asked[w][q] \in Nat
    BY <2>1, ViewFacts
  <2>3. codes[i].age - ahead[w] + 2 * timeValue[w] >= 2 * Countdown * asked[w][q] - 2
    BY DEF ResendInv, AgedEnough, OldFor
  <2>4. q = p => Listed(p)
    BY DEF Listed
  <2>5. CASE q = p /\ w = v
    <3>1. asked'[w][q] = asked[w][q] + 1
      BY <1>4, <2>4, <2>5
    <3>2. timeValue[w] = 0 /\ timeValue'[w] = Countdown
      BY <1>1, <1>3, <2>5
    <3>3. \/ asked[w][q] = 0 /\ asked'[w][q] = 1
          \/ asked[w][q] = 1 /\ asked'[w][q] = 2
          \/ asked[w][q] = 2 /\ asked'[w][q] = 3
      BY <2>2, <3>1
    <3>4. CASE asked[w][q] = 0 /\ asked'[w][q] = 1
      BY <2>1, <2>2, <3>2, <3>4, CountdownAssumption
    <3>5. CASE asked[w][q] = 1 /\ asked'[w][q] = 2
      BY <2>1, <2>2, <2>3, <3>2, <3>5, CountdownAssumption
    <3>6. CASE asked[w][q] = 2 /\ asked'[w][q] = 3
      BY <2>1, <2>2, <2>3, <3>2, <3>6, CountdownAssumption
    <3> QED BY <3>3, <3>4, <3>5, <3>6
  <2>6. CASE ~(q = p /\ w = v)
    <3>1. asked'[w][q] = asked[w][q]
      BY <1>4, <2>1, <2>2, <2>4, <2>6
    <3>2. 2 * Countdown * asked[w][q] - 2 \in Int
      BY <2>2, CountdownAssumption
    <3>3. codes[i].age - ahead[w] + 2 * timeValue'[w] >= 2 * Countdown * asked[w][q] - 2
      BY <1>3, <2>1, <2>2, <2>3, <3>2
    <3> QED BY <3>1, <3>3
  <2> QED BY <2>5, <2>6
\* A second refusal needs a code that is older than codes get.
<1>7. ASSUME Listed(p) PROVE asked[v][p] # 2
  <2> SUFFICES ASSUME asked[v][p] = 2 PROVE FALSE
    OBVIOUS
  <2>1. PICK k \in DOMAIN codes : codes[k].phone = p
    BY <1>7 DEF Listed
  <2>2. codes[k].age \in Nat /\ codes[k].age < Timeout + N
    BY <1>2, EntryFacts
  <2>3. codes[k].age - ahead[v] + 2 * timeValue[v] >= 2 * Countdown * 2 - 2
    BY <2>1 DEF ResendInv, AgedEnough, OldFor
  <2>4. ahead[v] \in -1 .. 2
    BY ViewFacts
  <2> QED BY <1>1, <2>2, <2>3, <2>4, NType, TimeoutAssumption, CountdownAssumption, FewPhones
          DEF FewPhones, N
<1>8. AskedTwiceAtMost'
  <2> SUFFICES ASSUME NEW w \in View, NEW q \in Phone PROVE asked'[w][q] <= 2
    BY DEF AskedTwiceAtMost
  <2>1. asked[w][q] \in {0, 1, 2} /\ asked[w][p] \in {0, 1, 2}
    BY ViewFacts
  <2> QED BY <1>4, <1>7, <2>1
<1>9. AgedEnough'
  <2>1. CASE Listed(p)
    <3>1. codes' = codes
      BY <1>1, <2>1 DEF ReqVerCode, addReqVerCodeNode
    <3> QED BY <1>1, <1>6, <3>1 DEF AgedEnough, OldFor
  <2>2. CASE ~Listed(p)
    <3> PICK c \in Code : codes' = Append(codes, [phone |-> p, code |-> c, age |-> 0])
      BY <1>1, <2>2 DEF ReqVerCode, addReqVerCodeNode
    <3> DEFINE n == Len(codes)
               e == [phone |-> p, code |-> c, age |-> 0]
    <3>1. e \in Entry /\ e.phone = p /\ e.age = 0 /\ codes \in Seq(Entry)
          /\ n \in Nat /\ DOMAIN codes = 1 .. n
      BY <1>2 DEF Entry, ListInv, ListTypeOK
    <3> HIDE DEF e
    <3>2. /\ DOMAIN codes' = 1 .. n + 1 /\ codes'[n + 1] = e
          /\ \A j \in 1 .. n : codes'[j] = codes[j]
      BY <3>1, Appended DEF e
    <3> SUFFICES ASSUME NEW w \in View, NEW i \in DOMAIN codes' PROVE OldFor(w, i)'
      BY DEF AgedEnough
    <3>3. CASE i = n + 1
      <4>1. asked'[w][p] = IF w = v THEN 1 ELSE 0
        BY <1>4, <2>2
      <4>2. ahead[w] \in -1 .. 2
        BY ViewFacts
      <4>3. 0 - ahead[w] + 2 * timeValue'[w] >= 2 * Countdown * asked'[w][p] - 2
        <5>1. CASE w = v
          BY <1>3, <4>1, <4>2, <5>1, CountdownAssumption
        <5>2. CASE w # v
          BY <1>3, <4>1, <4>2, <5>2, CountdownAssumption
        <5> QED BY <5>1, <5>2
      <4> QED BY <1>1, <3>1, <3>2, <3>3, <4>3 DEF OldFor
    <3>4. CASE i # n + 1
      <4>1. i \in DOMAIN codes /\ codes'[i] = codes[i]
        BY <3>1, <3>2, <3>4
      <4> QED BY <1>1, <1>6, <4>1 DEF OldFor
    <3> QED BY <3>3, <3>4
  <2> QED BY <2>1, <2>2
<1> QED BY <1>2, <1>5, <1>8, <1>9 DEF ResendInv

\* The invariant holds throughout.
LEMMA ResendInvariance ==
  ASSUME FewPhones
  PROVE  ResendSpec => []ResendInv
<1>1. ASSUME ResendInv, [ResendNext]_resendVars PROVE ResendInv'
  <2>1. CASE UNCHANGED resendVars
    BY <1>1, <2>1 DEF resendVars, ResendInv, ListInv, ListTypeOK, OneCodePerPhone,
                      OldestInFront, Backlog, N, ClocksOK, AgedEnough, OldFor, AskedTwiceAtMost
  <2>2. CASE HalfSecond
    BY <1>1, <2>2, HalfSecondKeeps
  <2>3. ASSUME NEW v \in View, PressLost(v) \/ Second(v) \/ ShowAnew(v) PROVE ResendInv'
    BY <1>1, <2>3, PressLostKeeps, SecondKeeps, RestartKeeps
  <2>4. ASSUME NEW v \in View, NEW p \in Phone, Press(v, p) PROVE ResendInv'
    BY <1>1, <2>4, PressKeeps
  <2> QED BY <1>1, <2>1, <2>2, <2>3, <2>4 DEF ResendNext
<1> QED BY <1>1, ResendStarts, PTL DEF ResendSpec

\* The countdown of every button stays within its range and every variable has
\* its type.
THEOREM ResendTypeCorrect ==
  ASSUME FewPhones
  PROVE  ResendSpec => []ResendTypeOK
<1>1. ResendInv => ResendTypeOK
  BY DEF ResendInv, ListInv, ClocksOK, ResendTypeOK
<1> QED BY <1>1, ResendInvariance, PTL

\* The buttons of the VerCodeViews and the list of codes together: whatever
\* numbers are typed, no view asks a third time for the same code.
THEOREM NeverAskedThrice ==
  ASSUME FewPhones
  PROVE  ResendSpec => []AskedTwiceAtMost
<1>1. ResendInv => AskedTwiceAtMost
  BY DEF ResendInv
<1> QED BY <1>1, ResendInvariance, PTL
=============================================================================
