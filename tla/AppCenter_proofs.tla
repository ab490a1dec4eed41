-------------------------- MODULE AppCenter_proofs --------------------------
(***************************************************************************)
(* Proofs about AppCenter, for every set of accounts, every limit and      *)
(* every number of failing statements.                                     *)
(***************************************************************************)
EXTENDS AppCenter, Sequences, FiniteSetTheorems, TLAPS

(***************************************************************************)
(* The ids in the table are AppIdMin+1, AppIdMin+2, ... without a gap and  *)
(* without a repetition, and a thread about to insert an id holds one that *)
(* is in the table or the very next one.                                   *)
(***************************************************************************)
IdInv ==
  /\ IsFiniteSet(appTb)
  /\ AppIds = (AppIdMin + 1) .. (AppIdMin + Cardinality(appTb))
  /\ \A r, s \in appTb : (r.id = s.id) => (r = s)
  /\ \A t \in Thread : (job[t].at = "insert") =>
       job[t].id \in (AppIdMin + 1) .. (AppIdMin + Cardinality(appTb) + 1)

-----------------------------------------------------------------------------
(* Lemmas about the parts of a step *)

\* A thread whose job changes to a well-formed one leaves the jobs well-formed.
LEMMA JobUpdate ==
  ASSUME JobOK, NEW t \in Thread, NEW j \in Job,
         job' = [job EXCEPT ![t] = j],
         j = Idle \/ (j.at # "idle" /\ j.acc \in accountTb'),
         accountTb \subseteq accountTb',
         t = "account" => j.at \notin {"count", "ack"}
  PROVE  JobOK'
<1>1. job' \in [Thread -> Job]
  BY DEF JobOK
<1>2. \A u \in Thread :
        job'[u] = Idle \/ (job'[u].at # "idle" /\ job'[u].acc \in accountTb')
  BY DEF JobOK
<1>3. job'["account"].at \notin {"count", "ack"}
  BY DEF JobOK, Thread
<1>4. QED
  BY <1>1, <1>2, <1>3 DEF JobOK

\* Finishing a request.
LEMMA FinishJob ==
  ASSUME JobOK, NEW t \in Thread, Finish(t), accountTb \subseteq accountTb'
  PROVE  JobOK'
<1>1. Idle \in Job /\ Idle.at \notin {"count", "ack"}
  BY DEF Idle, Job, Stage
<1>2. QED
  BY <1>1, JobUpdate DEF Finish

\* A busy thread serves an account of the table.
LEMMA BusyJob ==
  ASSUME TypeOK, NEW t \in Thread, job[t].at # "idle"
  PROVE  /\ job[t] \in Job
         /\ job[t].acc \in accountTb
         /\ job[t].acc \in Account
         /\ job[t].id \in Nat
         /\ job[t].list \subseteq Nat
BY DEF TypeOK, JobOK, Idle, Job

\* Moving on to the next statement.
LEMMA StepJob ==
  ASSUME TypeOK, NEW t \in Thread, NEW s \in Stage \ {"idle"},
         job[t].at # "idle", Step(t, s), accountTb \subseteq accountTb',
         t = "account" => s \notin {"count", "ack"}
  PROVE  JobOK'
<1> DEFINE j == [job[t] EXCEPT !.at = s]
<1>1. /\ job[t] \in Job
      /\ job[t].acc \in accountTb
  BY BusyJob
<1>2. /\ j \in Job
      /\ j.at = s
      /\ j.acc \in accountTb'
  BY <1>1 DEF Job, Stage
<1>3. job' = [job EXCEPT ![t] = j]
  BY DEF Step
<1>4. JobOK
  BY DEF TypeOK
<1>5. QED
  <2> HIDE DEF j
  <2> QED BY <1>2, <1>3, <1>4, JobUpdate

\* The greatest id of a table without gaps, and the id that follows it.
LEMMA NextId ==
  ASSUME TypeOK, IdInv
  PROVE  NewAppId(selectMaxAppID) = AppIdMin + Cardinality(appTb) + 1
<1>1. Cardinality(appTb) \in Nat
  BY FS_CardinalityType DEF IdInv
<1>2. CASE appTb = {}
  BY <1>2, FS_EmptySet, AppIdMinAssumption DEF selectMaxAppID, NewAppId
<1>3. CASE appTb # {}
  <2> DEFINE m == AppIdMin + Cardinality(appTb)
  <2>1. Cardinality(appTb) # 0
    BY <1>3, FS_EmptySet DEF IdInv
  <2>2. m \in AppIds /\ \A k \in AppIds : k <= m
    BY <1>1, <2>1, AppIdMinAssumption DEF IdInv
  <2>3. \A k \in AppIds : k \in Nat
    BY <1>1, AppIdMinAssumption DEF IdInv
  <2>4. selectMaxAppID = m
    <3> DEFINE c == CHOOSE i \in AppIds : \A k \in AppIds : k <= i
    <3>1. c \in AppIds /\ \A k \in AppIds : k <= c
      BY <2>2
    <3>2. c = m
      <4> HIDE DEF c
      <4> QED BY <2>2, <2>3, <3>1
    <3>3. QED
      BY <1>3, <3>2 DEF selectMaxAppID
  <2>5. QED
    BY <1>1, <2>1, <2>4, AppIdMinAssumption DEF NewAppId
<1>4. QED
  BY <1>2, <1>3

\* Steps that keep the table and let no thread get to the insertion.
LEMMA KeepIds ==
  ASSUME TypeOK, IdInv, appTb' = appTb, JobOK',
         \A t \in Thread : (job'[t].at = "insert") =>
           (job[t].at = "insert" /\ job'[t].id = job[t].id)
  PROVE  IdInv'
BY DEF IdInv, AppIds

-----------------------------------------------------------------------------
(* Types and ids *)

TypeIdInv == TypeOK /\ IdInv

LEMMA InitTypeId == Init => TypeIdInv
<1> SUFFICES ASSUME Init PROVE TypeOK /\ IdInv
  BY DEF TypeIdInv
<1>1. JobOK
  BY DEF Init, JobOK, Thread, Job, Stage, Idle
<1>2. TypeOK
  BY <1>1, MaxFaultsAssumption DEF Init, TypeOK
<1>3. IdInv
  <2>1. /\ IsFiniteSet(appTb)
        /\ Cardinality(appTb) = 0
        /\ AppIds = {}
    BY FS_EmptySet DEF Init, AppIds
  <2>2. AppIds = (AppIdMin + 1) .. (AppIdMin + Cardinality(appTb))
    BY <2>1, AppIdMinAssumption
  <2>3. QED
    BY <2>1, <2>2 DEF IdInv, Init, Idle
<1>4. QED
  BY <1>2, <1>3

LEMMA InsertAppTypeId ==
  ASSUME TypeOK, IdInv, NEW t \in Thread, InsertApp(t)
  PROVE  TypeOK' /\ IdInv'
<1> DEFINE n == Cardinality(appTb)
           row == [id |-> job[t].id, creator |-> job[t].acc, by |-> t]
<1>1. n \in Nat
  BY FS_CardinalityType DEF IdInv
<1>2. /\ job[t].at = "insert"
      /\ job[t].at # "idle"
  BY DEF InsertApp
<1>3. /\ job[t].acc \in Account
      /\ job[t].id \in Nat
  BY <1>2, BusyJob
<1>4. /\ JobOK
      /\ UNCHANGED <<accountTb, appList, acked, damaged>>
  BY DEF TypeOK, InsertApp
<1>5. CASE /\ job[t].id \notin AppIds
           /\ appTb' = appTb \cup {row}
           /\ Step(t, "read")
           /\ UNCHANGED faults
  <2>1. JobOK'
    BY <1>2, <1>4, <1>5, StepJob DEF Stage
  <2>2. row \in Row
    BY <1>3 DEF Row
  <2>3. TypeOK'
    BY <1>4, <1>5, <2>1, <2>2 DEF TypeOK
  <2>4. row \notin appTb
    BY <1>5 DEF AppIds
  <2>5. /\ IsFiniteSet(appTb')
        /\ Cardinality(appTb') = n + 1
    BY <1>5, <2>4, FS_AddElement DEF IdInv
  <2>6. job[t].id = AppIdMin + n + 1
    BY <1>1, <1>2, <1>5, AppIdMinAssumption DEF IdInv
  <2>7. AppIds' = AppIds \cup {job[t].id}
    <3>1. row.id = job[t].id
      OBVIOUS
    <3>2. \A k : (k \in AppIds') <=> (\E r \in appTb \cup {row} : k = r.id)
      BY <1>5 DEF AppIds
    <3>3. \A k : (k \in AppIds) <=> (\E r \in appTb : k = r.id)
      BY DEF AppIds
    <3>4. QED
      <4> HIDE DEF row
      <4> QED BY <3>1, <3>2, <3>3
  <2>8. AppIds' = (AppIdMin + 1) .. (AppIdMin + n + 1)
    <3>1. AppIds = (AppIdMin + 1) .. (AppIdMin + n)
      BY DEF IdInv
    <3>2. QED
      BY <1>1, <2>6, <2>7, <3>1, AppIdMinAssumption
  <2>9. \A r, s \in appTb' : (r.id = s.id) => (r = s)
    BY <1>5 DEF IdInv, AppIds
  <2>10. ASSUME NEW u \in Thread, job'[u].at = "insert"
         PROVE  job'[u].id \in (AppIdMin + 1) .. (AppIdMin + n + 2)
    <3>1. u # t
      BY <1>5, <2>10 DEF Step, JobOK, TypeOK
    <3>2. job'[u] = job[u]
      BY <1>5, <3>1 DEF Step, JobOK, TypeOK
    <3>3. job[u].id \in (AppIdMin + 1) .. (AppIdMin + n + 1)
      BY <2>10, <3>2 DEF IdInv
    <3>4. QED
      BY <1>1, <3>2, <3>3, AppIdMinAssumption
  <2>11. IdInv'
    <3> HIDE DEF n
    <3>1. AppIds' = (AppIdMin + 1) .. (AppIdMin + Cardinality(appTb'))
      BY <1>1, <2>5, <2>8, AppIdMinAssumption
    <3>2. \A u \in Thread : (job'[u].at = "insert") =>
            job'[u].id \in (AppIdMin + 1) .. (AppIdMin + Cardinality(appTb') + 1)
      BY <1>1, <2>5, <2>10, AppIdMinAssumption
    <3>3. QED
      BY <2>5, <2>9, <3>1, <3>2 DEF IdInv
  <2>12. QED
    BY <2>3, <2>11
<1>6. CASE Finish(t) /\ UNCHANGED appTb /\ (UNCHANGED faults \/ Fault)
  <2>1. JobOK'
    BY <1>4, <1>6, FinishJob
  <2>2. TypeOK'
    BY <1>4, <1>6, <2>1, MaxFaultsAssumption DEF TypeOK, Fault
  <2>3. IdInv'
    BY <1>4, <1>6, <2>1, KeepIds DEF Finish, Idle, JobOK
  <2>4. QED
    BY <2>2, <2>3
<1>7. QED
  BY <1>5, <1>6 DEF InsertApp

LEMMA NextTypeId == TypeIdInv /\ [Next]_vars => TypeIdInv'
<1> SUFFICES ASSUME TypeOK, IdInv, [Next]_vars
             PROVE  TypeOK' /\ IdInv'
  BY DEF TypeIdInv
<1>0. JobOK
  BY DEF TypeOK
<1>1. ASSUME NEW a \in Account, Register(a)
      PROVE  TypeOK' /\ IdInv'
  <2> DEFINE j == [Idle EXCEPT !.at = "max", !.acc = a]
  <2>1. /\ j \in Job /\ j.at = "max" /\ j.acc = a
    BY DEF Idle, Job, Stage
  <2>2. JobOK'
    <3>1. /\ job' = [job EXCEPT !["account"] = j]
          /\ a \in accountTb' /\ accountTb \subseteq accountTb'
      BY <1>1 DEF Register
    <3> HIDE DEF j
    <3>2. QED
      BY <1>0, <2>1, <3>1, JobUpdate DEF Thread
  <2>3. TypeOK'
    BY <1>1, <2>2 DEF TypeOK, Register
  <2>4. IdInv'
    BY <1>0, <1>1, <2>1, <2>2, KeepIds DEF Register, JobOK, Thread
  <2>5. QED
    BY <2>3, <2>4
<1>2. ASSUME NEW a \in Account, NewApp(a)
      PROVE  TypeOK' /\ IdInv'
  <2> DEFINE j == [Idle EXCEPT !.at = "count", !.acc = a]
  <2>1. /\ j \in Job /\ j.at = "count" /\ j.acc = a
    BY DEF Idle, Job, Stage
  <2>2. JobOK'
    <3>1. /\ job' = [job EXCEPT !["center"] = j]
          /\ a \in accountTb' /\ accountTb \subseteq accountTb'
      BY <1>2 DEF NewApp
    <3> HIDE DEF j
    <3>2. QED
      BY <1>0, <2>1, <3>1, JobUpdate DEF Thread
  <2>3. TypeOK'
    BY <1>2, <2>2 DEF TypeOK, NewApp
  <2>4. IdInv'
    BY <1>0, <1>2, <2>1, <2>2, KeepIds DEF NewApp, JobOK, Thread
  <2>5. QED
    BY <2>3, <2>4
<1>3. ASSUME CountApps
      PROVE  TypeOK' /\ IdInv'
  <2>1. JobOK'
    BY <1>0, <1>3, FinishJob, StepJob DEF CountApps, Thread, Stage
  <2>2. TypeOK'
    BY <1>3, <2>1, MaxFaultsAssumption DEF TypeOK, CountApps, Fault
  <2>3. \A t \in Thread : job'[t].at # "insert" \/ job'[t] = job[t]
    BY <1>0, <1>3 DEF CountApps, Finish, Step, JobOK, Idle, Job
  <2>4. IdInv'
    BY <1>3, <2>1, <2>3, KeepIds DEF CountApps
  <2>5. QED
    BY <2>2, <2>4
<1>4. ASSUME NEW t \in Thread, ReadMax(t)
      PROVE  TypeOK' /\ IdInv'
  <2> DEFINE n == Cardinality(appTb)
  <2>1. n \in Nat
    BY FS_CardinalityType DEF IdInv
  <2>2. PICK max \in {selectMaxAppID, 0} :
          /\ IF max = selectMaxAppID THEN UNCHANGED faults ELSE Fault
          /\ job' = [job EXCEPT ![t].at = "insert", ![t].id = NewAppId(max)]
    BY <1>4 DEF ReadMax
  <2>3. NewAppId(max) \in (AppIdMin + 1) .. (AppIdMin + n + 1)
    <3>1. NewAppId(selectMaxAppID) = AppIdMin + n + 1
      BY NextId
    <3>2. NewAppId(0) = AppIdMin + 1
      BY AppIdMinAssumption DEF NewAppId
    <3>3. QED
      BY <2>1, <2>2, <3>1, <3>2, AppIdMinAssumption
  <2>4. NewAppId(max) \in Nat
    BY <2>1, <2>3, AppIdMinAssumption
  <2> DEFINE j == [job[t] EXCEPT !.at = "insert", !.id = NewAppId(max)]
  <2>5. job[t] \in Job /\ job[t].acc \in accountTb
    BY <1>4, BusyJob DEF ReadMax
  <2>6. /\ j \in Job /\ j.at = "insert" /\ j.acc = job[t].acc
        /\ j.id = NewAppId(max)
    BY <2>4, <2>5 DEF Job, Stage
  <2>7. job' = [job EXCEPT ![t] = j]
    BY <2>2
  <2>8. UNCHANGED <<accountTb, appTb, appList, acked, damaged>>
    BY <1>4 DEF ReadMax
  <2> HIDE DEF j
  <2>9. JobOK'
    BY <1>0, <2>5, <2>6, <2>7, <2>8, JobUpdate
  <2>10. faults' \in 0 .. MaxFaults
    BY <2>2, MaxFaultsAssumption DEF TypeOK, Fault
  <2>11. TypeOK'
    BY <2>8, <2>9, <2>10 DEF TypeOK
  <2>12. \A u \in Thread : (job'[u].at = "insert") =>
            job'[u].id \in (AppIdMin + 1) .. (AppIdMin + Cardinality(appTb) + 1)
    BY <1>0, <2>3, <2>6, <2>7 DEF IdInv, JobOK
  <2>13. IdInv'
    BY <2>8, <2>12 DEF IdInv, AppIds
  <2>14. QED
    BY <2>11, <2>13
<1>5. ASSUME NEW t \in Thread, InsertApp(t)
      PROVE  TypeOK' /\ IdInv'
  BY <1>5, InsertAppTypeId
<1>6. ASSUME NEW t \in Thread, ReadList(t)
      PROVE  TypeOK' /\ IdInv'
  <2> DEFINE a == job[t].acc
             j == [job[t] EXCEPT !.at = "write", !.list = appList[a]]
  <2>1. job[t] \in Job /\ a \in accountTb /\ a \in Account
    BY <1>6, BusyJob DEF ReadList
  <2>2. UNCHANGED <<accountTb, appTb, appList, acked>>
    BY <1>6 DEF ReadList
  <2>3. ASSUME job' = [job EXCEPT ![t].at = "write", ![t].list = appList[a]]
        PROVE  JobOK' /\ \A u \in Thread : job'[u].at # "insert" \/ job'[u] = job[u]
    <3>1. appList[a] \in SUBSET Nat
      BY <2>1 DEF TypeOK
    <3>2. j \in Job /\ j.at = "write" /\ j.acc = a
      BY <2>1, <3>1 DEF Job, Stage
    <3>3. job' = [job EXCEPT ![t] = j]
      BY <2>3
    <3>4. JobOK'
      <4> HIDE DEF j
      <4> QED BY <1>0, <2>1, <2>2, <3>2, <3>3, JobUpdate
    <3>5. \A u \in Thread : job'[u].at # "insert" \/ job'[u] = job[u]
      <4> HIDE DEF j
      <4> QED BY <1>0, <3>2, <3>3 DEF JobOK
    <3>6. QED
      BY <3>4, <3>5
  <2>4. ASSUME Return(t)
        PROVE  JobOK' /\ \A u \in Thread : job'[u].at # "insert" \/ job'[u] = job[u]
    <3>1. JobOK'
      BY <1>0, <1>6, <2>2, <2>4, FinishJob, StepJob DEF ReadList, Return, Thread, Stage
    <3>2. \A u \in Thread : job'[u].at # "insert" \/ job'[u] = job[u]
      BY <1>0, <2>4 DEF Return, Finish, Step, JobOK, Idle, Job
    <3>3. QED
      BY <3>1, <3>2
  <2>5. JobOK' /\ \A u \in Thread : job'[u].at # "insert" \/ job'[u] = job[u]
    BY <1>6, <2>3, <2>4 DEF ReadList
  <2>6. faults' \in 0 .. MaxFaults /\ damaged' \subseteq Account
    BY <1>6, <2>1, MaxFaultsAssumption DEF TypeOK, ReadList, Fault
  <2>7. TypeOK'
    BY <2>2, <2>5, <2>6 DEF TypeOK
  <2>8. IdInv'
    BY <2>2, <2>5, KeepIds
  <2>9. QED
    BY <2>7, <2>8
<1>7. ASSUME NEW t \in Thread, WriteList(t)
      PROVE  TypeOK' /\ IdInv'
  <2>1. /\ job[t].acc \in Account
        /\ job[t].list \subseteq Nat /\ job[t].id \in Nat
    BY <1>7, BusyJob DEF WriteList
  <2>2. JobOK'
    BY <1>0, <1>7, FinishJob, StepJob DEF WriteList, Return, Thread, Stage
  <2>3. appList' \in [Account -> SUBSET Nat]
    BY <1>7, <2>1 DEF TypeOK, WriteList
  <2>4. faults' \in 0 .. MaxFaults /\ damaged' \subseteq Account
    BY <1>7, <2>1, MaxFaultsAssumption DEF TypeOK, WriteList, Fault
  <2>5. TypeOK'
    BY <1>7, <2>2, <2>3, <2>4 DEF TypeOK, WriteList
  <2>6. \A u \in Thread : job'[u].at # "insert" \/ job'[u] = job[u]
    BY <1>0, <1>7 DEF WriteList, Return, Finish, Step, JobOK, Idle, Job
  <2>7. IdInv'
    BY <1>7, <2>2, <2>6, KeepIds DEF WriteList
  <2>8. QED
    BY <2>5, <2>7
<1>8. ASSUME AckNewApp
      PROVE  TypeOK' /\ IdInv'
  <2>1. job["center"].acc \in Account /\ job["center"].id \in Nat
    BY <1>8, BusyJob DEF AckNewApp, Thread
  <2>2. JobOK'
    BY <1>0, <1>8, FinishJob DEF AckNewApp, Thread
  <2>3. TypeOK'
    BY <1>8, <2>1, <2>2 DEF TypeOK, AckNewApp
  <2>4. \A u \in Thread : job'[u].at # "insert" \/ job'[u] = job[u]
    BY <1>0, <1>8 DEF AckNewApp, Finish, JobOK, Idle, Thread
  <2>5. IdInv'
    BY <1>8, <2>2, <2>4, KeepIds DEF AckNewApp
  <2>6. QED
    BY <2>3, <2>5
<1>9. ASSUME Crash
      PROVE  TypeOK' /\ IdInv'
  <2>1. \A t \in Thread : job[t].at \in {"read", "write"} => job[t].acc \in Account
    BY BusyJob
  <2>2. damaged' \subseteq Account
    BY <1>9, <2>1 DEF TypeOK, Crash
  <2>3. JobOK'
    BY <1>9 DEF Crash, JobOK, Idle, Job, Stage, Thread
  <2>4. TypeOK'
    BY <1>9, <2>2, <2>3 DEF TypeOK, Crash
  <2>5. IdInv'
    BY <1>9, <2>3, KeepIds DEF Crash, Idle
  <2>6. QED
    BY <2>4, <2>5
<1>10. CASE UNCHANGED vars
  <2>1. TypeOK'
    BY <1>10 DEF TypeOK, JobOK, vars
  <2>2. IdInv'
    BY <1>10 DEF IdInv, AppIds, vars
  <2>3. QED
    BY <2>1, <2>2
<1>11. QED
  BY <1>1, <1>2, <1>3, <1>4, <1>5, <1>6, <1>7, <1>8, <1>9, <1>10
  DEF Next, AddAppIDToList

\* Every variable keeps its type and the jobs stay consistent.
THEOREM TypeCorrect == Spec => []TypeOK
<1>1. TypeIdInv => TypeOK
  BY DEF TypeIdInv
<1>2. QED
  BY <1>1, InitTypeId, NextTypeId, PTL DEF Spec

-----------------------------------------------------------------------------
(* Who owns what the lists, the handlers and the acknowledgements name *)

\* An id a handler has inserted, and every id of the list it holds a copy of,
\* belongs to the account the handler works for.
HandlersOwn ==
  \A t \in Thread :
    /\ job[t].at \in {"read", "write", "ack"} => Owned(job[t].id, job[t].acc)
    /\ job[t].at = "write" => \A id \in job[t].list : Owned(id, job[t].acc)

OwnInv == ListedAppsOwned /\ AckedAppsExist /\ HandlersOwn

\* Rows are never taken away.
LEMMA RowsStay == [Next]_vars => appTb \subseteq appTb'
BY DEF Next, AddAppIDToList, vars, Register, NewApp, CountApps, ReadMax,
       InsertApp, ReadList, WriteList, AckNewApp, Crash

LEMMA OwnedStays ==
  ASSUME appTb \subseteq appTb', NEW id, NEW a, Owned(id, a)
  PROVE  Owned(id, a)'
BY DEF Owned

\* An id has one owner.
LEMMA OneOwner ==
  ASSUME IdInv, NEW id, NEW a, NEW b, Owned(id, a), Owned(id, b)
  PROVE  a = b
BY DEF IdInv, Owned

\* The three parts of OwnInv survive a step that changes neither list nor
\* acknowledgement and lets no thread get hold of something new.
LEMMA KeepOwn ==
  ASSUME OwnInv, appTb \subseteq appTb', UNCHANGED <<appList, acked>>,
         \A t \in Thread : job'[t].at \in {"read", "write", "ack"} =>
           /\ job[t].at \in {"read", "write", "ack"}
           /\ job'[t].id = job[t].id
           /\ job'[t].acc = job[t].acc
           /\ job'[t].at = "write" => job[t].at = "write" /\ job'[t].list = job[t].list
  PROVE  OwnInv'
<1>1. ListedAppsOwned'
  BY OwnedStays DEF OwnInv, ListedAppsOwned
<1>2. AckedAppsExist'
  BY OwnedStays DEF OwnInv, AckedAppsExist
<1>3. HandlersOwn'
  BY OwnedStays DEF OwnInv, HandlersOwn
<1>4. QED
  BY <1>1, <1>2, <1>3 DEF OwnInv

LEMMA NextOwn == TypeIdInv /\ OwnInv /\ [Next]_vars => OwnInv'
<1> SUFFICES ASSUME TypeOK, IdInv, OwnInv, [Next]_vars
             PROVE  OwnInv'
  BY DEF TypeIdInv
<1>0. /\ JobOK
      /\ appTb \subseteq appTb'
  BY RowsStay DEF TypeOK
<1>1. ASSUME NEW a \in Account, Register(a) \/ NewApp(a)
      PROVE  OwnInv'
  <2>1. \A u \in Thread :
          job'[u].at \notin {"read", "write", "ack"} \/ job'[u] = job[u]
    <3>1. PICK t \in Thread :
            \E j : job' = [job EXCEPT ![t] = j] /\ j.at \notin {"read", "write", "ack"}
      <4>1. [Idle EXCEPT !.at = "max", !.acc = a].at = "max"
            /\ [Idle EXCEPT !.at = "count", !.acc = a].at = "count"
        BY DEF Idle
      <4>2. Register(a) => \E t \in Thread :
                            job' = [job EXCEPT ![t] = [Idle EXCEPT !.at = "max", !.acc = a]]
        BY DEF Register, Thread
      <4>3. NewApp(a) => \E t \in Thread :
                            job' = [job EXCEPT ![t] = [Idle EXCEPT !.at = "count", !.acc = a]]
        BY DEF NewApp, Thread
      <4> QED BY <1>1, <4>1, <4>2, <4>3
    <3>2. job \in [Thread -> Job]
      BY <1>0 DEF JobOK
    <3> QED BY <3>1, <3>2
  <2>2. QED
    BY <1>0, <1>1, <2>1, KeepOwn DEF Register, NewApp
<1>2. CASE CountApps
  <2>1. \A u \in Thread :
          job'[u].at \notin {"read", "write", "ack"} \/ job'[u] = job[u]
    BY <1>0, <1>2 DEF CountApps, Finish, Step, Idle, JobOK, Job
  <2>2. QED
    BY <1>0, <1>2, <2>1, KeepOwn DEF CountApps
<1>3. ASSUME NEW t \in Thread, ReadMax(t)
      PROVE  OwnInv'
  <2>1. \A u \in Thread : job'[u].at = "insert" \/ job'[u] = job[u]
    BY <1>0, <1>3 DEF ReadMax, JobOK, Job
  <2>2. QED
    BY <1>0, <1>3, <2>1, KeepOwn DEF ReadMax
<1>4. ASSUME NEW t \in Thread, InsertApp(t)
      PROVE  OwnInv'
  <2>1. CASE Finish(t)
    BY <1>0, <1>4, <2>1, KeepOwn DEF InsertApp, Finish, Idle, JobOK
  <2>2. CASE /\ appTb' = appTb \cup
                  {[id |-> job[t].id, creator |-> job[t].acc, by |-> t]}
             /\ Step(t, "read")
    <3>2. /\ \A u \in Thread \ {t} : job'[u] = job[u]
          /\ job'[t].at = "read"
          /\ job'[t].id = job[t].id
          /\ job'[t].acc = job[t].acc
      BY <1>0, <2>2 DEF Step, JobOK, Job
    <3>1. Owned(job[t].id, job[t].acc)'
      <4> DEFINE row == [id |-> job[t].id, creator |-> job[t].acc, by |-> t]
      <4>1. row \in appTb' /\ row.id = job[t].id /\ row.creator = job[t].acc
        BY <2>2
      <4>2. QED
        <5> HIDE DEF row
        <5> QED BY <3>2, <4>1 DEF Owned
    <3>3. HandlersOwn'
      BY <1>0, <3>1, <3>2, OwnedStays DEF OwnInv, HandlersOwn
    <3>4. ListedAppsOwned' /\ AckedAppsExist'
      BY <1>0, <1>4, OwnedStays DEF OwnInv, ListedAppsOwned, AckedAppsExist, InsertApp
    <3>5. QED
      BY <3>3, <3>4 DEF OwnInv
  <2>3. QED
    BY <1>4, <2>1, <2>2 DEF InsertApp
<1>5. ASSUME NEW t \in Thread, ReadList(t)
      PROVE  OwnInv'
  <2>1. CASE job' = [job EXCEPT ![t].at = "write", ![t].list = appList[job[t].acc]]
    <3>1. /\ job[t].acc \in Account
          /\ job[t].at = "read"
      BY <1>5, BusyJob DEF ReadList
    <3>2. /\ \A u \in Thread \ {t} : job'[u] = job[u]
          /\ job'[t].at = "write"
          /\ job'[t].id = job[t].id
          /\ job'[t].acc = job[t].acc
          /\ job'[t].list = appList[job[t].acc]
      BY <1>0, <2>1 DEF JobOK, Job
    <3>3. /\ Owned(job[t].id, job[t].acc)
          /\ \A id \in appList[job[t].acc] : Owned(id, job[t].acc)
      BY <3>1 DEF OwnInv, HandlersOwn, ListedAppsOwned
    <3>4. HandlersOwn'
      BY <1>0, <3>2, <3>3, OwnedStays DEF OwnInv, HandlersOwn
    <3>5. ListedAppsOwned' /\ AckedAppsExist'
      BY <1>0, <1>5, OwnedStays DEF OwnInv, ListedAppsOwned, AckedAppsExist, ReadList
    <3>6. QED
      BY <3>4, <3>5 DEF OwnInv
  <2>2. CASE Return(t)
    <3>1. \A u \in Thread :
             \/ job'[u] = job[u]
             \/ job'[u].at = "idle"
             \/ /\ job[u].at = "read" /\ job'[u].at = "ack"
                /\ job'[u].id = job[u].id /\ job'[u].acc = job[u].acc
      BY <1>0, <1>5, <2>2 DEF ReadList, Return, Finish, Step, Idle, JobOK, Job
    <3>2. QED
      BY <1>0, <1>5, <3>1, KeepOwn DEF ReadList
  <2>3. QED
    BY <1>5, <2>1, <2>2 DEF ReadList
<1>6. ASSUME NEW t \in Thread, WriteList(t)
      PROVE  OwnInv'
  <2> DEFINE a == job[t].acc
  <2>1. /\ a \in Account
        /\ job[t].at = "write"
    BY <1>6, BusyJob DEF WriteList
  <2>2. \A id \in job[t].list \cup {job[t].id} : Owned(id, a)
    BY <2>1 DEF OwnInv, HandlersOwn
  <2>3. \/ appList' = [appList EXCEPT ![a] = job[t].list \cup {job[t].id}]
        \/ appList' = appList
    BY <1>6 DEF WriteList
  <2>4. ListedAppsOwned'
    <3>1. ASSUME NEW b \in Account, NEW id \in appList'[b] PROVE Owned(id, b)
      BY <2>2, <2>3, <3>1 DEF TypeOK, OwnInv, ListedAppsOwned
    <3>2. QED
      BY <1>0, <3>1, OwnedStays DEF ListedAppsOwned
  <2>5. AckedAppsExist'
    BY <1>0, <1>6, OwnedStays DEF OwnInv, AckedAppsExist, WriteList
  <2>6. \A u \in Thread :
           \/ job'[u] = job[u]
           \/ job'[u].at = "idle"
           \/ /\ job[u].at = "write" /\ job'[u].at = "ack"
              /\ job'[u].id = job[u].id /\ job'[u].acc = job[u].acc
    BY <1>0, <1>6, <2>1 DEF WriteList, Return, Finish, Step, Idle, JobOK, Job
  <2>7. HandlersOwn'
    BY <1>0, <2>6, OwnedStays DEF OwnInv, HandlersOwn
  <2>8. QED
    BY <2>4, <2>5, <2>7 DEF OwnInv
<1>7. CASE AckNewApp
  <2> DEFINE k == [id |-> job["center"].id, creator |-> job["center"].acc]
  <2>1. Owned(k.id, k.creator)
    BY <1>7 DEF AckNewApp, OwnInv, HandlersOwn, Thread
  <2>2. \A l \in acked' : Owned(l.id, l.creator)
    <3>1. acked' = acked \cup {k}
      BY <1>7 DEF AckNewApp
    <3> HIDE DEF k
    <3>2. QED
      BY <2>1, <3>1 DEF OwnInv, AckedAppsExist
  <2>3. ASSUME NEW l \in acked', NEW m \in acked', l.id = m.id PROVE l = m
    <3>1. l.creator = m.creator
      BY <2>2, <2>3, OneOwner
    <3>2. acked' \subseteq [id : Nat, creator : Account]
      BY NextTypeId DEF TypeIdInv, TypeOK
    <3>3. QED
      BY <2>3, <3>1, <3>2
  <2>4. AckedAppsExist'
    BY <1>0, <2>2, <2>3, OwnedStays DEF AckedAppsExist
  <2>5. ListedAppsOwned'
    BY <1>0, <1>7, OwnedStays DEF OwnInv, ListedAppsOwned, AckNewApp
  <2>6. HandlersOwn'
    BY <1>0, <1>7, OwnedStays DEF OwnInv, HandlersOwn, AckNewApp, Finish, Idle, JobOK, Thread
  <2>7. QED
    BY <2>4, <2>5, <2>6 DEF OwnInv
<1>8. CASE Crash
  BY <1>0, <1>8, KeepOwn DEF Crash, Idle
<1>9. CASE UNCHANGED vars
  BY <1>0, <1>9, KeepOwn DEF vars
<1>10. QED
  BY <1>1, <1>2, <1>3, <1>4, <1>5, <1>6, <1>7, <1>8, <1>9
  DEF Next, AddAppIDToList

LEMMA OwnInvariant == Spec => []OwnInv
<1>1. Init => OwnInv
  BY DEF Init, OwnInv, ListedAppsOwned, AckedAppsExist, HandlersOwn, Idle
<1>2. QED
  BY <1>1, InitTypeId, NextTypeId, NextOwn, PTL DEF Spec

\* No account is ever shown an application another account created.
THEOREM ListsAreOwned == Spec => []ListedAppsOwned
<1>1. OwnInv => ListedAppsOwned
  BY DEF OwnInv
<1>2. QED
  BY <1>1, OwnInvariant, PTL

\* An acknowledged application exists, belongs to the account it was
\* acknowledged to, and is acknowledged under an id of its own.
THEOREM AcksAreTrue == Spec => []AckedAppsExist
<1>1. OwnInv => AckedAppsExist
  BY DEF OwnInv
<1>2. QED
  BY <1>1, OwnInvariant, PTL

-----------------------------------------------------------------------------
(* When an application can be missing from the list of its creator *)

\* The copy a handler holds of a list is still the list, and no two handlers
\* hold a copy of the same list, unless the account is damaged.
CopiesFresh ==
  \A t \in Thread : (job[t].at = "write" /\ job[t].acc \notin damaged) =>
    /\ job[t].list = appList[job[t].acc]
    /\ ~(job[Other(t)].at = "write" /\ job[Other(t)].acc = job[t].acc)

MissingInv == MissingOnlyIfDamaged /\ CopiesFresh

\* Steps of neither insertion, reading nor writing of a list.
LEMMA KeepMissing ==
  ASSUME MissingInv, UNCHANGED <<appTb, appList>>, damaged \subseteq damaged',
         \A t \in Thread : job'[t].at \in {"read", "write"} => job'[t] = job[t],
         \A t \in Thread : job[t].at \in {"read", "write"} =>
           job'[t] = job[t] \/ job[t].acc \in damaged'
  PROVE  MissingInv'
<1>1. MissingOnlyIfDamaged'
  BY DEF MissingInv, MissingOnlyIfDamaged, InFlight
<1>2. CopiesFresh'
  BY DEF MissingInv, CopiesFresh, Other, Thread
<1>3. QED
  BY <1>1, <1>2 DEF MissingInv

LEMMA NextMissing ==
  TypeIdInv /\ OwnInv /\ MissingInv /\ [Next]_vars => MissingInv'
<1> SUFFICES ASSUME TypeOK, IdInv, OwnInv, MissingInv, [Next]_vars
             PROVE  MissingInv'
  BY DEF TypeIdInv
<1>0. JobOK
  BY DEF TypeOK
<1>1. ASSUME NEW a \in Account, Register(a) \/ NewApp(a)
      PROVE  MissingInv'
  <2>1. \A u \in Thread : job'[u] = job[u] \/ (job'[u].at \notin {"read", "write"}
                                               /\ job[u].at \notin {"read", "write"})
    <3>1. CASE Register(a)
      BY <1>0, <3>1 DEF Register, Idle, JobOK
    <3>2. CASE NewApp(a)
      BY <1>0, <3>2 DEF NewApp, Idle, JobOK
    <3>3. QED
      BY <1>1, <3>1, <3>2
  <2>2. QED
    BY <1>1, <2>1, KeepMissing DEF Register, NewApp
<1>2. ASSUME CountApps \/ AckNewApp
      PROVE  MissingInv'
  <2>1. \A u \in Thread : job'[u] = job[u] \/ (job'[u].at \notin {"read", "write"}
                                               /\ job[u].at \notin {"read", "write"})
    BY <1>0, <1>2 DEF CountApps, AckNewApp, Finish, Step, Idle, JobOK, Job
  <2>2. QED
    BY <1>2, <2>1, KeepMissing DEF CountApps, AckNewApp
<1>3. ASSUME NEW t \in Thread, ReadMax(t)
      PROVE  MissingInv'
  <2>1. \A u \in Thread : job'[u] = job[u] \/ (job'[u].at \notin {"read", "write"}
                                               /\ job[u].at \notin {"read", "write"})
    BY <1>0, <1>3 DEF ReadMax, JobOK, Job
  <2>2. QED
    BY <1>3, <2>1, KeepMissing DEF ReadMax
<1>4. ASSUME NEW t \in Thread, InsertApp(t)
      PROVE  MissingInv'
  <2>1. CASE Finish(t) /\ UNCHANGED appTb
    <3>1. \A u \in Thread : job'[u] = job[u] \/ (job'[u].at \notin {"read", "write"}
                                                 /\ job[u].at \notin {"read", "write"})
      BY <1>0, <1>4, <2>1 DEF InsertApp, Finish, Idle, JobOK
    <3>2. QED
      BY <1>4, <2>1, <3>1, KeepMissing DEF InsertApp
  <2>2. CASE /\ appTb' = appTb \cup
                  {[id |-> job[t].id, creator |-> job[t].acc, by |-> t]}
             /\ Step(t, "read")
    <3>1. /\ \A u \in Thread \ {t} : job'[u] = job[u]
          /\ job[t].at = "insert"
          /\ job'[t].at = "read"
          /\ job'[t].id = job[t].id
          /\ job'[t].acc = job[t].acc
      BY <1>0, <1>4, <2>2 DEF InsertApp, Step, JobOK, Job
    <3>2. UNCHANGED <<appList, damaged>>
      BY <1>4 DEF InsertApp
    <3>3. ASSUME NEW r \in appTb'
          PROVE  \/ r.id \in appList'[r.creator]
                 \/ \E u \in Thread : InFlight(u, r)'
                 \/ r.creator \in damaged'
      <4>1. CASE r \in appTb
        BY <3>1, <3>2, <4>1 DEF MissingInv, MissingOnlyIfDamaged, InFlight
      <4>2. CASE r = [id |-> job[t].id, creator |-> job[t].acc, by |-> t]
        BY <3>1, <4>2 DEF InFlight
      <4>3. QED
        BY <2>2, <4>1, <4>2
    <3>4. MissingOnlyIfDamaged'
      BY <3>3 DEF MissingOnlyIfDamaged
    <3>5. CopiesFresh'
      BY <3>1, <3>2 DEF MissingInv, CopiesFresh, Other, Thread
    <3>6. QED
      BY <3>4, <3>5 DEF MissingInv
  <2>3. QED
    BY <1>4, <2>1, <2>2 DEF InsertApp
<1>5. ASSUME NEW t \in Thread, ReadList(t)
      PROVE  MissingInv'
  <2> DEFINE a == job[t].acc
  <2>0. /\ job[t].at = "read"
        /\ UNCHANGED <<appTb, appList>>
        /\ damaged \subseteq damaged'
    BY <1>5 DEF ReadList
  <2>1. CASE /\ job' = [job EXCEPT ![t].at = "write", ![t].list = appList[a]]
             /\ damaged' = IF job[Other(t)].at = "write" /\ job[Other(t)].acc = a
                             THEN damaged \cup {a} ELSE damaged
    <3>1. /\ \A u \in Thread \ {t} : job'[u] = job[u]
          /\ job'[t].at = "write"
          /\ job'[t].id = job[t].id
          /\ job'[t].acc = a
          /\ job'[t].list = appList[a]
      BY <1>0, <2>1 DEF JobOK, Job
    <3>2. MissingOnlyIfDamaged'
      BY <2>0, <3>1 DEF MissingInv, MissingOnlyIfDamaged, InFlight
    <3>3. ASSUME NEW u \in Thread, job'[u].at = "write", job'[u].acc \notin damaged'
          PROVE  /\ job'[u].list = appList'[job'[u].acc]
                 /\ ~(job'[Other(u)].at = "write" /\ job'[Other(u)].acc = job'[u].acc)
      <4>1. /\ Other(t) \in Thread \ {t}
            /\ (u # t) => (u = Other(t) /\ Other(u) = t)
        BY DEF Other, Thread
      <4>0. (job[Other(t)].at = "write" /\ job[Other(t)].acc = a) => a \in damaged'
        BY <2>1
      <4>2. CASE u = t
        BY <2>0, <3>1, <3>3, <4>0, <4>1, <4>2
      <4>3. CASE u # t
        <5>1. u = Other(t) /\ Other(u) = t /\ job'[u] = job[u]
          BY <3>1, <4>1, <4>3
        <5>2. job[u].list = appList[job[u].acc]
          BY <2>0, <3>3, <5>1 DEF MissingInv, CopiesFresh
        <5>3. job[u].acc # a
          BY <3>3, <4>0, <5>1
        <5>4. QED
          BY <2>0, <3>1, <5>1, <5>2, <5>3
      <4>4. QED
        BY <4>2, <4>3
    <3>4. CopiesFresh'
      BY <3>3 DEF CopiesFresh, Other
    <3>5. QED
      BY <3>2, <3>4 DEF MissingInv
  <2>2. CASE Return(t) /\ damaged' = damaged \cup {a}
    <3>1. \A u \in Thread : \/ job'[u] = job[u]
                            \/ u = t /\ job'[u].at \notin {"read", "write"}
      BY <1>0, <2>2 DEF Return, Finish, Step, Idle, JobOK, Job
    <3>2. QED
      BY <2>0, <2>2, <3>1, KeepMissing
  <2>3. QED
    BY <1>5, <2>1, <2>2 DEF ReadList
<1>6. ASSUME NEW t \in Thread, WriteList(t)
      PROVE  MissingInv'
  <2> DEFINE a == job[t].acc
  <2>0. /\ job[t].at = "write"
        /\ a \in Account
        /\ UNCHANGED appTb
        /\ Return(t)
    BY <1>6, BusyJob DEF WriteList
  <2>1. \A u \in Thread : \/ u # t /\ job'[u] = job[u]
                          \/ u = t /\ job'[u].at \notin {"read", "write"}
    BY <1>0, <2>0 DEF Return, Finish, Step, Idle, JobOK, Job
  <2>2. CASE /\ appList' = [appList EXCEPT ![a] = job[t].list \cup {job[t].id}]
             /\ UNCHANGED damaged
    <3>1. /\ appList'[a] = job[t].list \cup {job[t].id}
          /\ \A b \in Account \ {a} : appList'[b] = appList[b]
      BY <2>0, <2>2 DEF TypeOK
    <3>2. ASSUME NEW r \in appTb
          PROVE  \/ r.id \in appList'[r.creator]
                 \/ \E u \in Thread : InFlight(u, r)'
                 \/ r.creator \in damaged
      <4>1. r.creator \in Account
        BY DEF TypeOK, Row
      <4>2. CASE r.creator = a /\ a \notin damaged
        <5>1. job[t].list = appList[a]
          BY <2>0, <4>2 DEF MissingInv, CopiesFresh
        <5>2. CASE r.id \in appList[a] \/ r.id = job[t].id
          BY <3>1, <4>2, <5>1, <5>2
        <5>3. CASE \E u \in Thread \ {t} : InFlight(u, r)
          BY <2>1, <5>3 DEF InFlight
        <5>4. QED
          BY <4>2, <5>2, <5>3 DEF MissingInv, MissingOnlyIfDamaged, InFlight
      <4>3. CASE r.creator # a
        BY <2>1, <3>1, <4>1, <4>3 DEF MissingInv, MissingOnlyIfDamaged, InFlight
      <4>4. QED
        BY <4>2, <4>3
    <3>3. MissingOnlyIfDamaged'
      BY <2>0, <2>2, <3>2 DEF MissingOnlyIfDamaged
    <3>4. ASSUME NEW u \in Thread, job'[u].at = "write", job'[u].acc \notin damaged'
          PROVE  /\ job'[u].list = appList'[job'[u].acc]
                 /\ ~(job'[Other(u)].at = "write" /\ job'[Other(u)].acc = job'[u].acc)
      <4>1. u # t /\ job'[u] = job[u] /\ Other(u) = t
        BY <2>1, <3>4 DEF Other, Thread
      <4>2. job[u].acc \in Account
        BY <3>4, <4>1, BusyJob
      <4>3. job[u].acc # a
        BY <2>0, <2>2, <3>4, <4>1 DEF MissingInv, CopiesFresh
      <4>4. job[u].list = appList[job[u].acc]
        BY <2>2, <3>4, <4>1 DEF MissingInv, CopiesFresh
      <4>5. QED
        BY <2>1, <3>1, <4>1, <4>2, <4>3, <4>4
    <3>5. CopiesFresh'
      BY <3>4 DEF CopiesFresh, Other
    <3>6. QED
      BY <3>3, <3>5 DEF MissingInv
  <2>3. CASE damaged' = damaged \cup {a} /\ UNCHANGED appList
    BY <2>0, <2>1, <2>3, KeepMissing
  <2>4. QED
    BY <1>6, <2>2, <2>3 DEF WriteList
<1>7. CASE Crash
  BY <1>0, <1>7, KeepMissing DEF Crash, Idle
<1>8. CASE UNCHANGED vars
  BY <1>8, KeepMissing DEF vars
<1>9. QED
  BY <1>1, <1>2, <1>3, <1>4, <1>5, <1>6, <1>7, <1>8 DEF Next, AddAppIDToList

\* An application is missing from its creator's list only while it is being
\* added, or after a crash, a failed statement, or an update of the same list
\* by the other thread between the reading and the writing.
THEOREM MissingHasReason == Spec => []MissingOnlyIfDamaged
<1>1. Init => MissingInv
  BY DEF Init, MissingInv, MissingOnlyIfDamaged, CopiesFresh, Idle
<1>2. MissingInv => MissingOnlyIfDamaged
  BY DEF MissingInv
<1>3. QED
  BY <1>1, <1>2, InitTypeId, NextTypeId, OwnInvariant, NextMissing, PTL DEF Spec

-----------------------------------------------------------------------------
(* How many applications an account can come to *)

Inserted(t, a) == {r \in CreatedBy(a) : r.by = t}

\* CenterThread has passed the limit for a and not yet inserted the row.
Pending(a) ==
  IF job["center"].acc = a /\ job["center"].at \in {"max", "insert"} THEN 1 ELSE 0

\* AccountThread inserts one application per account, because it inserts the
\* account itself just before; CenterThread as many as the count let through.
LimitInv ==
  /\ \A r, s \in appTb :
       (r.by = "account" /\ s.by = "account" /\ r.creator = s.creator) => (r = s)
  /\ (job["account"].at \in {"max", "insert"}) =>
       Inserted("account", job["account"].acc) = {}
  /\ \A r \in appTb : r.creator \in accountTb
  /\ \A a \in Account : Cardinality(Inserted("center", a)) + Pending(a) <= AppCap + faults

LEMMA InsertedFinite ==
  ASSUME IdInv, NEW t \in Thread, NEW a
  PROVE  /\ IsFiniteSet(CreatedBy(a))
         /\ IsFiniteSet(Inserted(t, a))
         /\ Cardinality(CreatedBy(a)) \in Nat
         /\ Cardinality(Inserted(t, a)) \in Nat
         /\ Cardinality(Inserted(t, a)) <= Cardinality(CreatedBy(a))
<1>1. IsFiniteSet(CreatedBy(a))
  BY FS_Subset DEF IdInv, CreatedBy
<1>2. Inserted(t, a) \in SUBSET CreatedBy(a)
  BY DEF Inserted
<1>3. QED
  BY <1>1, <1>2, FS_Subset, FS_CardinalityType

LEMMA LimitFollows ==
  ASSUME TypeOK, IdInv, LimitInv
  PROVE  CreationLimit
<1> SUFFICES ASSUME NEW a \in Account
             PROVE  Cardinality(CreatedBy(a)) <= AppCap + 1 + faults
  BY DEF CreationLimit
<1> DEFINE auto == Inserted("account", a)
           central == Inserted("center", a)
<1>1. /\ IsFiniteSet(central)
      /\ Cardinality(central) \in Nat
  BY InsertedFinite DEF Thread
<1>2. Cardinality(central) <= AppCap + faults
  BY <1>1, AppCapAssumption, MaxFaultsAssumption DEF LimitInv, Pending, TypeOK
<1>3. CreatedBy(a) = central \cup auto
  BY DEF TypeOK, Row, Thread, Inserted, CreatedBy
<1>4. CASE auto = {}
  <2> HIDE DEF auto, central
  <2>1. CreatedBy(a) = central
    BY <1>3, <1>4
  <2>2. QED
    BY <1>1, <1>2, <2>1, AppCapAssumption, MaxFaultsAssumption DEF TypeOK
<1>5. CASE auto # {}
  <2>1. PICK r : r \in auto
    BY <1>5
  <2>2. auto = {r}
    <3>1. \A s \in auto : s = r
      BY <2>1 DEF Inserted, CreatedBy, LimitInv
    <3> HIDE DEF auto
    <3>2. QED
      BY <2>1, <3>1
  <2> HIDE DEF auto, central
  <2>3. Cardinality(CreatedBy(a)) <= Cardinality(central) + 1
    <3>1. CreatedBy(a) = central \cup {r}
      BY <1>3, <2>2
    <3>2. Cardinality(central \cup {r}) =
            IF r \in central THEN Cardinality(central) ELSE Cardinality(central) + 1
      BY <1>1, FS_AddElement
    <3>3. QED
      BY <1>1, <3>1, <3>2
  <2>4. Cardinality(CreatedBy(a)) \in Nat
    BY InsertedFinite DEF Thread
  <2>5. QED
    BY <1>1, <1>2, <2>3, <2>4, AppCapAssumption, MaxFaultsAssumption DEF TypeOK
<1>6. QED
  BY <1>4, <1>5

\* Steps that insert nothing and let neither thread pass a check.
LEMMA KeepLimit ==
  ASSUME TypeOK, IdInv, LimitInv, appTb' = appTb, accountTb \subseteq accountTb',
         faults' \in Nat, faults <= faults',
         (job'["account"].at \in {"max", "insert"}) =>
           /\ job["account"].at \in {"max", "insert"}
           /\ job'["account"].acc = job["account"].acc,
         \A a \in Account : Pending(a)' <= Pending(a) + (faults' - faults)
  PROVE  LimitInv'
<1>1. \A t, a : Inserted(t, a)' = Inserted(t, a)
  BY DEF Inserted, CreatedBy
<1>2. ASSUME NEW a \in Account
      PROVE  Cardinality(Inserted("center", a))' + Pending(a)' <= AppCap + faults'
  <2>1. Cardinality(Inserted("center", a)) \in Nat
    BY InsertedFinite DEF Thread
  <2>2. Cardinality(Inserted("center", a)) + Pending(a) <= AppCap + faults
    BY DEF LimitInv
  <2>3. Pending(a) \in Nat /\ Pending(a)' \in Nat /\ faults \in Nat
    BY MaxFaultsAssumption DEF Pending, TypeOK
  <2>4. Cardinality(Inserted("center", a))' = Cardinality(Inserted("center", a))
    BY <1>1
  <2>5. QED
    BY <2>1, <2>2, <2>3, <2>4, AppCapAssumption
<1>3. QED
  BY <1>1, <1>2 DEF LimitInv

LEMMA NextLimit == TypeIdInv /\ LimitInv /\ [Next]_vars => LimitInv'
<1> SUFFICES ASSUME TypeOK, IdInv, LimitInv, [Next]_vars
             PROVE  LimitInv'
  BY DEF TypeIdInv
<1>0. JobOK
  BY DEF TypeOK
<1>a. faults \in Nat
  BY MaxFaultsAssumption DEF TypeOK
<1>1. ASSUME NEW a \in Account, Register(a)
      PROVE  LimitInv'
  <2>1. /\ a \notin accountTb
        /\ accountTb' = accountTb \cup {a}
        /\ UNCHANGED <<appTb, faults>>
        /\ job'["account"].acc = a
        /\ job'["center"] = job["center"]
    BY <1>0, <1>1 DEF Register, Idle, JobOK, Thread
  <2>2. \A t, b : Inserted(t, b)' = Inserted(t, b)
    BY <2>1 DEF Inserted, CreatedBy
  <2>3. Inserted("account", a) = {}
    BY <2>1 DEF LimitInv, Inserted, CreatedBy
  <2>4. \A b \in Account : Pending(b)' = Pending(b)
    BY <2>1 DEF Pending
  <2>5. QED
    BY <2>1, <2>2, <2>3, <2>4 DEF LimitInv
<1>2. ASSUME NEW a \in Account, NewApp(a)
      PROVE  LimitInv'
  <2>1. /\ job'["account"] = job["account"]
        /\ job'["center"].at = "count"
        /\ UNCHANGED <<appTb, accountTb, faults>>
    BY <1>0, <1>2 DEF NewApp, Idle, JobOK, Thread
  <2>2. \A b \in Account : Pending(b)' <= Pending(b) + (faults' - faults)
    BY <1>a, <2>1 DEF Pending
  <2>3. QED
    BY <1>a, <2>1, <2>2, KeepLimit
<1>3. CASE CountApps
  <2> DEFINE a == job["center"].acc
  <2>1. /\ job["center"].at = "count"
        /\ job'["account"] = job["account"]
        /\ UNCHANGED <<appTb, accountTb>>
    BY <1>0, <1>3 DEF CountApps, Finish, Step, JobOK, Thread
  <2>2. CASE Finish("center") /\ UNCHANGED faults
    <3>1. job'["center"].at = "idle"
      BY <1>0, <2>2 DEF Finish, Idle, JobOK, Thread
    <3>2. \A b \in Account : Pending(b)' <= Pending(b) + (faults' - faults)
      BY <1>a, <2>2, <3>1 DEF Pending
    <3>3. QED
      BY <1>a, <2>1, <2>2, <3>2, KeepLimit
  <2>3. CASE Step("center", "max") /\ Fault
    <3>1. faults' = faults + 1
      BY <2>3 DEF Fault
    <3>2. \A b \in Account : Pending(b)' <= Pending(b) + (faults' - faults)
      BY <1>a, <3>1 DEF Pending
    <3>3. QED
      BY <1>a, <2>1, <3>1, <3>2, KeepLimit
  <2>4. CASE Step("center", "max") /\ UNCHANGED faults
             /\ ~(getAppCountFromAccount(a) >= AppCap)
    <3>1. \A t, b : Inserted(t, b)' = Inserted(t, b)
      BY <2>1 DEF Inserted, CreatedBy
    <3>2. /\ Cardinality(CreatedBy(a)) \in Nat
          /\ Cardinality(Inserted("center", a)) \in Nat
          /\ Cardinality(Inserted("center", a)) <= Cardinality(CreatedBy(a))
      BY InsertedFinite DEF Thread
    <3>3. Cardinality(Inserted("center", a)) + 1 <= AppCap + faults
      BY <1>a, <2>4, <3>2, AppCapAssumption DEF getAppCountFromAccount
    <3>4. job'["center"].acc = a
      BY <1>0, <2>4 DEF Step, JobOK, Job, Thread
    <3>5. ASSUME NEW b \in Account
          PROVE  Cardinality(Inserted("center", b))' + Pending(b)' <= AppCap + faults'
      <4>1. CASE b = a
        <5>1. Pending(b)' \in {0, 1}
          BY DEF Pending
        <5>2. QED
          BY <1>a, <2>4, <3>1, <3>2, <3>3, <4>1, <5>1, AppCapAssumption
      <4>2. CASE b # a
        <5>1. Pending(b)' = 0 /\ Pending(b) = 0
          BY <3>4, <4>2 DEF Pending
        <5>2. QED
          BY <2>4, <3>1, <5>1 DEF LimitInv
      <4>3. QED
        BY <4>1, <4>2
    <3>6. QED
      BY <2>1, <3>1, <3>5 DEF LimitInv
  <2>5. QED
    BY <1>3, <2>2, <2>3, <2>4 DEF CountApps
<1>4. ASSUME NEW t \in Thread, ReadMax(t)
      PROVE  LimitInv'
  <2>1. /\ job[t].at = "max"
        /\ UNCHANGED <<appTb, accountTb>>
        /\ faults' = faults \/ faults' = faults + 1
    BY <1>4 DEF ReadMax, Fault
  <2>2. /\ \A u \in Thread \ {t} : job'[u] = job[u]
        /\ job'[t].at = "insert"
        /\ job'[t].acc = job[t].acc
    BY <1>0, <1>4 DEF ReadMax, JobOK, Job
  <2>3. \A b \in Account : Pending(b)' = Pending(b)
    BY <2>1, <2>2 DEF Pending, Thread
  <2>4. \A b \in Account : Pending(b) \in Nat
    BY DEF Pending
  <2>5. QED
    BY <1>a, <2>1, <2>2, <2>3, <2>4, KeepLimit DEF Thread
<1>5. ASSUME NEW t \in Thread, InsertApp(t)
      PROVE  LimitInv'
  <2> DEFINE a == job[t].acc
             row == [id |-> job[t].id, creator |-> a, by |-> t]
  <2>0. /\ job[t].at = "insert"
        /\ UNCHANGED accountTb
        /\ a \in accountTb /\ a \in Account
    BY <1>5, BusyJob DEF InsertApp
  <2>1. CASE Finish(t) /\ UNCHANGED appTb /\ (UNCHANGED faults \/ Fault)
    <3>1. /\ \A u \in Thread \ {t} : job'[u] = job[u]
          /\ job'[t].at = "idle"
      BY <1>0, <2>1 DEF Finish, Idle, JobOK
    <3>2. faults' = faults \/ faults' = faults + 1
      BY <2>1 DEF Fault
    <3>3. \A b \in Account : Pending(b)' <= Pending(b) + (faults' - faults)
      BY <1>a, <3>1, <3>2 DEF Pending, Thread
    <3>4. QED
      BY <1>a, <2>0, <2>1, <3>1, <3>2, <3>3, KeepLimit DEF Thread
  <2>2. CASE /\ job[t].id \notin AppIds
             /\ appTb' = appTb \cup {row}
             /\ Step(t, "read")
             /\ UNCHANGED faults
    <3>1. /\ \A u \in Thread \ {t} : job'[u] = job[u]
          /\ job'[t].at = "read"
          /\ job'[t].acc = a
      BY <1>0, <2>2 DEF Step, JobOK, Job
    <3>2. row \notin appTb
      BY <2>2 DEF AppIds
    <3>3. /\ row.by = t
          /\ row.creator = a
      OBVIOUS
    <3> HIDE DEF row
    <3>4. \A u \in Thread, b \in Account :
            Inserted(u, b)' = IF u = t /\ b = a THEN Inserted(u, b) \cup {row}
                                                ELSE Inserted(u, b)
      BY <2>2, <3>3 DEF Inserted, CreatedBy
    <3>5. \A r \in appTb' : r.creator \in accountTb'
      BY <2>0, <2>2, <3>3 DEF LimitInv
    <3>6. CASE t = "account"
      <4>1. Inserted("account", a) = {}
        BY <2>0, <3>6 DEF LimitInv
      <4>2. \A r, s \in appTb' :
              (r.by = "account" /\ s.by = "account" /\ r.creator = s.creator) => (r = s)
        BY <2>2, <3>3, <3>6, <4>1 DEF LimitInv, Inserted, CreatedBy
      <4>3. \A b \in Account : Inserted("center", b)' = Inserted("center", b)
        BY <3>4, <3>6 DEF Thread
      <4>4. \A b \in Account : Pending(b)' = Pending(b)
        BY <3>1, <3>6 DEF Pending, Thread
      <4>5. \A b \in Account :
              Cardinality(Inserted("center", b))' + Pending(b)' <= AppCap + faults'
        BY <2>2, <4>3, <4>4 DEF LimitInv
      <4>6. job'["account"].at = "read"
        BY <3>1, <3>6
      <4>7. QED
        BY <3>5, <4>2, <4>5, <4>6 DEF LimitInv
    <3>7. CASE t = "center"
      <4>1. \A r, s \in appTb' :
              (r.by = "account" /\ s.by = "account" /\ r.creator = s.creator) => (r = s)
        BY <2>2, <3>3, <3>7 DEF LimitInv
      <4>2. job'["account"] = job["account"]
        BY <3>1, <3>7 DEF Thread
      <4>3. ((job["account"].at \in {"max", "insert"}) =>
               Inserted("account", job["account"].acc) = {})'
        <5>1. \A r \in appTb' : (r.by = "account") => (r \in appTb)
          BY <2>2, <3>3, <3>7
        <5>2. QED
          BY <4>2, <5>1 DEF LimitInv, Inserted, CreatedBy
      <4>4. ASSUME NEW b \in Account
            PROVE  Cardinality(Inserted("center", b))' + Pending(b)' <= AppCap + faults'
        <5>1. Cardinality(Inserted("center", b)) + Pending(b) <= AppCap + faults
          BY DEF LimitInv
        <5>2. /\ IsFiniteSet(Inserted("center", b))
              /\ Cardinality(Inserted("center", b)) \in Nat
          BY InsertedFinite DEF Thread
        <5>3. CASE b = a
          <6>1. Pending(b) = 1 /\ Pending(b)' = 0
            BY <2>0, <3>1, <3>7, <5>3 DEF Pending
          <6>2. row \notin Inserted("center", b)
            BY <3>2 DEF Inserted, CreatedBy
          <6>3. Cardinality(Inserted("center", b))' = Cardinality(Inserted("center", b)) + 1
            BY <3>4, <3>7, <5>2, <5>3, <6>2, FS_AddElement, SMTT(20) DEF Thread
          <6>4. QED
            BY <2>2, <5>1, <5>2, <6>1, <6>3
        <5>4. CASE b # a
          <6>1. Pending(b) = Pending(b)'
            BY <3>1, <3>7, <5>4 DEF Pending
          <6>2. Inserted("center", b)' = Inserted("center", b)
            BY <3>4, <5>4 DEF Thread
          <6>3. QED
            BY <2>2, <5>1, <6>1, <6>2
        <5>5. QED
          BY <5>3, <5>4
      <4>5. QED
        BY <3>5, <4>1, <4>3, <4>4 DEF LimitInv
    <3>8. QED
      BY <3>6, <3>7 DEF Thread
  <2>3. QED
    BY <1>5, <2>1, <2>2 DEF InsertApp
<1>6. ASSUME NEW t \in Thread, ReadList(t) \/ WriteList(t)
      PROVE  LimitInv'
  <2>1. /\ job[t].at \in {"read", "write"}
        /\ UNCHANGED <<appTb, accountTb>>
        /\ faults' = faults \/ faults' = faults + 1
    BY <1>6 DEF ReadList, WriteList, Fault
  <2>2. /\ \A u \in Thread \ {t} : job'[u] = job[u]
        /\ job'[t].at \notin {"max", "insert"}
    BY <1>0, <1>6 DEF ReadList, WriteList, Return, Finish, Step, Idle, JobOK, Job
  <2>3. \A b \in Account : Pending(b)' <= Pending(b) + (faults' - faults)
    BY <1>a, <2>1, <2>2 DEF Pending, Thread
  <2>4. QED
    BY <1>a, <2>1, <2>2, <2>3, KeepLimit DEF Thread
<1>7. CASE AckNewApp \/ Crash
  <2>1. /\ UNCHANGED <<appTb, accountTb, faults>>
        /\ \A t \in Thread : job'[t] = job[t] \/ job'[t] = Idle
    BY <1>0, <1>7 DEF AckNewApp, Crash, Finish, JobOK
  <2>2. \A b \in Account : Pending(b)' <= Pending(b) + (faults' - faults)
    BY <1>a, <2>1 DEF Pending, Idle, Thread
  <2>3. QED
    BY <1>a, <2>1, <2>2, KeepLimit DEF Idle, Thread
<1>8. CASE UNCHANGED vars
  <2>1. \A b \in Account : Pending(b)' <= Pending(b) + (faults' - faults)
    BY <1>a, <1>8 DEF Pending, vars
  <2>2. QED
    BY <1>a, <1>8, <2>1, KeepLimit DEF vars
<1>9. QED
  BY <1>1, <1>2, <1>3, <1>4, <1>5, <1>6, <1>7, <1>8 DEF Next, AddAppIDToList

LEMMA InitLimit == Init => LimitInv
<1> SUFFICES ASSUME Init PROVE LimitInv
  OBVIOUS
<1>1. \A t, a : Inserted(t, a) = {}
  BY DEF Init, Inserted, CreatedBy
<1>2. \A a \in Account : Pending(a) = 0
  BY DEF Init, Pending, Idle, Thread
<1>3. Cardinality({}) = 0
  BY FS_EmptySet
<1>4. \A a \in Account : Cardinality(Inserted("center", a)) + Pending(a) <= AppCap + faults
  BY <1>1, <1>2, <1>3, AppCapAssumption DEF Init
<1>5. QED
  BY <1>1, <1>4 DEF Init, LimitInv, Idle, Thread

\* No account comes to more than one application above the limit, plus one for
\* each failed statement.
THEOREM LimitHolds == Spec => []CreationLimit
<1>1. TypeIdInv /\ LimitInv => CreationLimit
  BY LimitFollows DEF TypeIdInv
<1>2. QED
  BY <1>1, InitTypeId, InitLimit, NextTypeId, NextLimit, PTL DEF Spec

-----------------------------------------------------------------------------
(* The two threads implement the registry *)

\* Every row is found by its id.
LEMMA OwnerOfRow ==
  ASSUME IdInv, NEW r \in appTb
  PROVE  Owner(r.id) = r.creator
<1> DEFINE c == CHOOSE s \in appTb : s.id = r.id
<1>1. c \in appTb /\ c.id = r.id
  OBVIOUS
<1>2. c = r
  <2> HIDE DEF c
  <2> QED BY <1>1 DEF IdInv
<1>3. r.id \in AppIds
  BY DEF AppIds
<1>4. QED
  BY <1>2, <1>3 DEF Owner

\* Every position of Creators stands for a row.
LEMMA RowAt ==
  ASSUME IdInv, NEW i \in 1 .. Cardinality(appTb)
  PROVE  \E r \in appTb : r.id = AppIdMin + i
<1>1. Cardinality(appTb) \in Nat
  BY FS_CardinalityType DEF IdInv
<1>2. AppIdMin + i \in AppIds
  BY <1>1, AppIdMinAssumption DEF IdInv
<1>3. QED
  BY <1>2 DEF AppIds

\* The instance and this module count alike.
LEMMA SameCardinality == ASSUME NEW S PROVE Registry!Cardinality(S) = Cardinality(S)
BY DEF Registry!Cardinality, Cardinality

\* The registry counts no more applications of an account than the table.
LEMMA RegistryCount ==
  ASSUME TypeOK, IdInv, NEW a
  PROVE  /\ Cardinality(Registry!CreatedBy(a)) <= Cardinality(CreatedBy(a))
         /\ Cardinality(Registry!CreatedBy(a)) \in Nat
<1> DEFINE I == Registry!CreatedBy(a)
           n == Cardinality(appTb)
           row(i) == CHOOSE r \in appTb : r.id = AppIdMin + i
           f == [i \in I |-> row(i)]
<1>1. n \in Nat
  BY FS_CardinalityType DEF IdInv
<1>2. \A i \in I : i \in 1 .. n /\ Owner(AppIdMin + i) = a
  BY DEF Registry!CreatedBy, Creators
<1>3. \A i \in I : row(i) \in appTb /\ row(i).id = AppIdMin + i
  BY <1>2, RowAt
<1> HIDE DEF I, row, n
<1>4. \A i \in I : row(i) \in CreatedBy(a)
  BY <1>2, <1>3, OwnerOfRow DEF CreatedBy
<1>5. \A i, j \in I : (row(i) = row(j)) => (i = j)
  BY <1>1, <1>2, <1>3, AppIdMinAssumption
<1>6. f \in Injection(I, CreatedBy(a))
  BY <1>4, <1>5 DEF Injection, IsInjective
<1>7. IsFiniteSet(CreatedBy(a))
  BY InsertedFinite DEF Thread
<1>8. Cardinality(I) <= Cardinality(CreatedBy(a)) /\ Cardinality(I) \in Nat
  BY <1>6, <1>7, FS_Injection, FS_CardinalityType
<1>9. QED
  BY <1>8 DEF I

LEMMA InsertIsCreate ==
  ASSUME TypeOK, TypeOK', IdInv, IdInv', CreationLimit',
         NEW a \in Account, NEW n \in Nat, NEW row,
         n = Cardinality(appTb), row \notin appTb,
         row.id = AppIdMin + n + 1, row.creator = a,
         appTb' = appTb \cup {row}, UNCHANGED faults
  PROVE  Registry!Next
<1>1. Cardinality(appTb') = n + 1
  BY FS_AddElement DEF IdInv
<1>0. \A r \in appTb' : Owner(r.id)' = r.creator
  <2> SUFFICES ASSUME NEW r \in appTb'
               PROVE  Owner(r.id)' = r.creator
    OBVIOUS
  <2> DEFINE c == CHOOSE s \in appTb' : s.id = r.id
  <2>1. c \in appTb' /\ c.id = r.id
    OBVIOUS
  <2>2. c = r
    <3> HIDE DEF c
    <3> QED BY <2>1 DEF IdInv
  <2>3. r.id \in AppIds'
    BY DEF AppIds
  <2>4. QED
    BY <2>2, <2>3 DEF Owner
<1>2. \A i \in 1 .. n : Owner(AppIdMin + i)' = Owner(AppIdMin + i)
  <2> SUFFICES ASSUME NEW i \in 1 .. n
               PROVE  Owner(AppIdMin + i)' = Owner(AppIdMin + i)
    OBVIOUS
  <2>1. PICK r \in appTb : r.id = AppIdMin + i
    BY RowAt
  <2>2. r \in appTb'
    OBVIOUS
  <2>3. Owner(r.id) = r.creator /\ Owner(r.id)' = r.creator
    BY <1>0, <2>2, OwnerOfRow
  <2>4. QED
    BY <2>1, <2>3
<1>3. Owner(AppIdMin + n + 1)' = a
  <2>1. Owner(row.id)' = row.creator
    BY <1>0
  <2>2. QED
    BY <2>1
<1>4. Creators' = Append(Creators, a)
  <2>1. Creators' = [i \in 1 .. n + 1 |-> Owner(AppIdMin + i)']
    BY <1>1 DEF Creators
  <2>2. /\ Creators = [i \in 1 .. n |-> Owner(AppIdMin + i)]
        /\ Len(Creators) = n
    BY DEF Creators
  <2>3. Append(Creators, a) =
          [i \in 1 .. n + 1 |-> IF i = n + 1 THEN a ELSE Creators[i]]
    BY <2>2
  <2>4. ASSUME NEW i \in 1 .. n + 1
        PROVE  Owner(AppIdMin + i)' = IF i = n + 1 THEN a ELSE Creators[i]
    <3>1. CASE i = n + 1
      <4>1. AppIdMin + i = AppIdMin + n + 1
        BY <3>1, AppIdMinAssumption
      <4>2. QED
        BY <1>3, <3>1, <4>1
    <3>2. CASE i # n + 1
      <4>1. i \in 1 .. n
        BY <3>2
      <4>2. QED
        BY <1>2, <2>2, <3>2, <4>1
    <3>3. QED
      BY <3>1, <3>2
  <2>5. QED
    BY <2>1, <2>3, <2>4
<1>5. Cardinality(Registry!CreatedBy(a)) < AppCap + 1 + MaxFaults
  <2>1. CreatedBy(a)' = CreatedBy(a) \cup {row}
    BY DEF CreatedBy
  <2>2. /\ IsFiniteSet(CreatedBy(a))
        /\ Cardinality(CreatedBy(a)) \in Nat
        /\ row \notin CreatedBy(a)
    BY InsertedFinite DEF CreatedBy, Thread
  <2>3. Cardinality(CreatedBy(a) \cup {row}) = Cardinality(CreatedBy(a)) + 1
    BY <2>2, FS_AddElement
  <2>4. Cardinality(CreatedBy(a)') <= AppCap + 1 + faults
    BY DEF CreationLimit
  <2>5. QED
    BY <2>1, <2>2, <2>3, <2>4, RegistryCount, AppCapAssumption, MaxFaultsAssumption
    DEF TypeOK
<1>6. Registry!Create(a)
  BY <1>4, <1>5, SameCardinality DEF Registry!Create
<1>7. QED
  BY <1>6 DEF Registry!Next

\* Only the insertion of a row changes what the registry sees.
LEMMA NextImplements ==
  TypeIdInv /\ TypeIdInv' /\ CreationLimit' /\ [Next]_vars => [Registry!Next]_Creators
<1> SUFFICES ASSUME TypeOK, IdInv, TypeOK', IdInv', CreationLimit', [Next]_vars
             PROVE  Registry!Next \/ UNCHANGED Creators
  BY DEF TypeIdInv
<1>1. CASE UNCHANGED appTb
  BY <1>1 DEF Creators, Owner, AppIds
<1>2. ASSUME NEW t \in Thread, InsertApp(t), appTb' # appTb
      PROVE  Registry!Next
  <2> DEFINE row == [id |-> job[t].id, creator |-> job[t].acc, by |-> t]
  <2>1. /\ job[t].at = "insert"
        /\ job[t].id \notin AppIds
        /\ appTb' = appTb \cup {row}
        /\ UNCHANGED faults
    BY <1>2 DEF InsertApp
  <2>2. PICK n \in Nat : n = Cardinality(appTb)
    BY FS_CardinalityType DEF IdInv
  <2>3. PICK a \in Account : a = job[t].acc
    BY <2>1, BusyJob
  <2>4. job[t].id = AppIdMin + n + 1
    BY <2>1, <2>2, AppIdMinAssumption DEF IdInv
  <2>5. PICK r : /\ r.id = AppIdMin + n + 1 /\ r.creator = a
                 /\ r \notin appTb /\ appTb' = appTb \cup {r}
    <3>1. row \notin appTb
      BY <2>1 DEF AppIds
    <3>2. row.id = AppIdMin + n + 1 /\ row.creator = a
      BY <2>3, <2>4
    <3> HIDE DEF row
    <3>3. QED
      BY <2>1, <3>1, <3>2
  <2>6. QED
    BY <2>1, <2>2, <2>5, InsertIsCreate
<1>3. QED
  <2>1. (\E t \in Thread : InsertApp(t)) \/ UNCHANGED appTb
    BY DEF Next, AddAppIDToList, vars, Register, NewApp, CountApps, ReadMax,
           ReadList, WriteList, AckNewApp, Crash
  <2>2. QED
    BY <1>1, <1>2, <2>1

\* The two threads together give out ids as the registry does, within its
\* quota: one after the other, each to one account for ever.
THEOREM RegistryImplemented == Spec => ImplementsRegistry
<1>1. Init => Registry!Init
  <2> SUFFICES ASSUME Init PROVE Creators = <<>>
    BY DEF Registry!Init
  <2>1. Cardinality(appTb) = 0
    BY FS_EmptySet DEF Init
  <2>2. QED
    BY <2>1 DEF Creators
<1>2. Spec => [](TypeIdInv /\ CreationLimit)
  BY InitTypeId, NextTypeId, LimitHolds, PTL DEF Spec
<1>3. QED
  BY <1>1, <1>2, NextImplements, PTL
  DEF Spec, Registry!Spec, ImplementsRegistry
=============================================================================
