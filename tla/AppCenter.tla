----------------------------- MODULE AppCenter -----------------------------
(***************************************************************************)
(* Creation of applications by the two worker threads of the app server.   *)
(*                                                                         *)
(* AccountThread and CenterThread each own an AccountSqlite, that is, a    *)
(* connection of their own to the one file account_list.db.  No statement  *)
(* is wrapped in a transaction, so a step of this module is one SQL        *)
(* statement: the statement is atomic, the handler it belongs to is not.   *)
(* A handler runs in the event loop of its thread, so a thread is busy     *)
(* with one request at a time, and the two threads interleave.             *)
(*                                                                         *)
(* AccountThread inserts the account row, acknowledges the registration    *)
(* and only then creates the account's first application; CenterThread     *)
(* serves the command new_app.  Both end in addAppIDToList.                *)
(*                                                                         *)
(* Bounds: at most MaxFaults statements fail.  Names of applications,      *)
(* passwords and phone numbers are left out: no property here tells them   *)
(* apart.                                                                  *)
(***************************************************************************)
EXTENDS Naturals, FiniteSets

CONSTANTS
  Account,    \* names of accounts
  NoAccount,  \* the name held by a thread that serves no request
  AppCap,     \* CenterThread refuses new_app from this many applications on
  AppIdMin,   \* APP_ID_MIN, the id a factory-new device carries
  MaxFaults,  \* how many statements may fail (locked or full database)
  MayCrash    \* whether the server process may be killed and restarted

ASSUME AccountAssumption == NoAccount \notin Account
ASSUME AppCapAssumption == AppCap \in Nat \ {0}
ASSUME AppIdMinAssumption == AppIdMin \in Nat
ASSUME MaxFaultsAssumption == MaxFaults \in Nat
ASSUME MayCrashAssumption == MayCrash \in BOOLEAN

VARIABLES
  accountTb,  \* accounts that have a row in account_list_tb
  appTb,      \* rows of app_id_list; "by" is the thread that inserted the row
  appList,    \* the column app_list of account_list_tb
  job,        \* what each thread is doing: the locals of its running handler
  acked,      \* applications CenterThread reported as created
  faults,     \* statements that have failed so far
  damaged     \* history: accounts some creation of which was cut short by a
              \* crash or a failed statement, or ran into the other thread's

vars == <<accountTb, appTb, appList, job, acked, faults, damaged>>

Thread == {"account", "center"}

Other(t) == IF t = "account" THEN "center" ELSE "account"

\* Where a thread stands in its handler: the statement it executes next.
Stage == {"idle", "count", "max", "insert", "read", "write", "ack"}

Job == [at : Stage, acc : Account \cup {NoAccount}, id : Nat, list : SUBSET Nat]

Idle == [at |-> "idle", acc |-> NoAccount, id |-> 0, list |-> {}]

Row == [id : Nat, creator : Account, by : Thread]

AppIds == {r.id : r \in appTb}

CreatedBy(a) == {r \in appTb : r.creator = a}

-----------------------------------------------------------------------------
(* The statements of AccountSqlite *)

\* selectMaxAppID: 0 when the table is empty.
selectMaxAppID ==
  IF appTb = {} THEN 0 ELSE CHOOSE m \in AppIds : \A k \in AppIds : k <= m

\* mutant: an id is left out
NewAppIdSkipping(max) == IF max > AppIdMin THEN max + 2 ELSE AppIdMin + 1

\* The id both threads derive from what selectMaxAppID returned.
NewAppId(max) == IF max > AppIdMin THEN max + 1 ELSE AppIdMin + 1

\* getAppCountFromAccount counts the rows of app_id_list, not the app_list.
getAppCountFromAccount(a) == Cardinality(CreatedBy(a))

-----------------------------------------------------------------------------

Init ==
  /\ accountTb = {}
  /\ appTb = {}
  /\ appList = [a \in Account |-> {}]
  /\ job = [t \in Thread |-> Idle]
  /\ acked = {}
  /\ faults = 0
  /\ damaged = {}

\* A statement fails: runSqlQuery returns false and the tables keep still.
Fault ==
  /\ faults < MaxFaults
  /\ faults' = faults + 1

Step(t, stage) == job' = [job EXCEPT ![t].at = stage]

Finish(t) == job' = [job EXCEPT ![t] = Idle]

(***************************************************************************)
(* AccountThread: req_reg, and login_code for a phone seen the first time. *)
(* The checks that let the registration through are the business of the    *)
(* module AccountThread; what matters here is that addAccountNode inserts  *)
(* the row and that the client is told so before the application exists.   *)
(***************************************************************************)
Register(a) ==
  /\ job["account"] = Idle
  /\ a \notin accountTb
  /\ accountTb' = accountTb \cup {a}
  /\ job' = [job EXCEPT !["account"] = [Idle EXCEPT !.at = "max", !.acc = a]]
  /\ UNCHANGED <<appTb, appList, acked, faults, damaged>>

(***************************************************************************)
(* CenterThread: new_app.  A request of an account without a row is        *)
(* refused; the test on parentAccount never refuses, because every account *)
(* is inserted with an empty one.                                          *)
(***************************************************************************)
NewApp(a) ==
  /\ job["center"] = Idle
  /\ a \in accountTb
  /\ job' = [job EXCEPT !["center"] = [Idle EXCEPT !.at = "count", !.acc = a]]
  /\ UNCHANGED <<accountTb, appTb, appList, acked, faults, damaged>>

\* mutant: > instead of >=
CountAppsOffByOne ==
  /\ job["center"].at = "count"
  /\ IF getAppCountFromAccount(job["center"].acc) > AppCap
       THEN Finish("center")
       ELSE Step("center", "max")
  /\ UNCHANGED <<accountTb, appTb, appList, acked, faults, damaged>>

\* getAppCountFromAccount and the limit; a failed count reads as zero.
CountApps ==
  /\ job["center"].at = "count"
  /\ \/ /\ IF getAppCountFromAccount(job["center"].acc) >= AppCap
             THEN Finish("center")
             ELSE Step("center", "max")
        /\ UNCHANGED faults
     \/ /\ Fault
        /\ Step("center", "max")
  /\ UNCHANGED <<accountTb, appTb, appList, acked, damaged>>

\* selectMaxAppID and the choice of the new id; a failed select reads as zero.
ReadMax(t) ==
  /\ job[t].at = "max"
  /\ \E max \in {selectMaxAppID, 0} :
       /\ IF max = selectMaxAppID THEN UNCHANGED faults ELSE Fault
       /\ job' = [job EXCEPT ![t].at = "insert", ![t].id = NewAppId(max)]
  /\ UNCHANGED <<accountTb, appTb, appList, acked, damaged>>

\* mutant: the result of the insert is not looked at
InsertAppIgnoringResult(t) ==
  /\ job[t].at = "insert"
  /\ appTb' = IF job[t].id \in AppIds THEN appTb ELSE appTb \cup
       {[id |-> job[t].id, creator |-> job[t].acc, by |-> t]}
  /\ Step(t, "read")
  /\ UNCHANGED <<accountTb, appList, acked, faults, damaged>>

(***************************************************************************)
(* addAppIDToList, first statement.  The column app_id is UNIQUE: when the *)
(* other thread took the id in the meantime the statement fails, which     *)
(* CenterThread answers with an error and AccountThread ignores.           *)
(***************************************************************************)
InsertApp(t) ==
  /\ job[t].at = "insert"
  /\ \/ /\ job[t].id \notin AppIds
        /\ appTb' = appTb \cup
             {[id |-> job[t].id, creator |-> job[t].acc, by |-> t]}
        /\ Step(t, "read")
        /\ UNCHANGED faults
     \/ /\ job[t].id \in AppIds
        /\ Finish(t)
        /\ UNCHANGED <<appTb, faults>>
     \/ /\ Fault
        /\ Finish(t)
        /\ UNCHANGED appTb
  /\ UNCHANGED <<accountTb, appList, acked, damaged>>

\* After addAppIDToList returned true: CenterThread still has to answer.
Return(t) == IF t = "center" THEN Step(t, "ack") ELSE Finish(t)

(***************************************************************************)
(* addAppIDToList, second statement: read the account's list.  A failed    *)
(* select leaves the name empty, which skips the update.  The account is   *)
(* damaged when the other thread holds a copy of the same list to write.   *)
(***************************************************************************)
ReadList(t) ==
  /\ job[t].at = "read"
  /\ LET a == job[t].acc
         u == Other(t)
     IN \/ /\ job' = [job EXCEPT ![t].at = "write", ![t].list = appList[a]]
           /\ damaged' = IF job[u].at = "write" /\ job[u].acc = a
                           THEN damaged \cup {a} ELSE damaged
           /\ UNCHANGED faults
        \/ /\ Fault
           /\ Return(t)
           /\ damaged' = damaged \cup {a}
  /\ UNCHANGED <<accountTb, appTb, appList, acked>>

\* mutant: the list read before is not kept
WriteListForgetful(t) ==
  /\ job[t].at = "write"
  /\ appList' = [appList EXCEPT ![job[t].acc] = {job[t].id}]
  /\ Return(t)
  /\ UNCHANGED <<accountTb, appTb, acked, faults, damaged>>

\* addAppIDToList, third statement: write the whole list back, whose result
\* is ignored.
WriteList(t) ==
  /\ job[t].at = "write"
  /\ LET a == job[t].acc
     IN \/ /\ appList' = [appList EXCEPT ![a] = job[t].list \cup {job[t].id}]
           /\ UNCHANGED <<faults, damaged>>
        \/ /\ Fault
           /\ damaged' = damaged \cup {a}
           /\ UNCHANGED appList
  /\ Return(t)
  /\ UNCHANGED <<accountTb, appTb, acked>>

\* updateAppName and ackNewAppState(..., 0, ...).
AckNewApp ==
  /\ job["center"].at = "ack"
  /\ acked' = acked \cup {[id |-> job["center"].id, creator |-> job["center"].acc]}
  /\ Finish("center")
  /\ UNCHANGED <<accountTb, appTb, appList, faults, damaged>>

(***************************************************************************)
(* The process dies and is started again.  Committed statements survive,   *)
(* the handlers and what they had read do not, and nothing resumes them.   *)
(***************************************************************************)
Crash ==
  /\ MayCrash
  /\ \E t \in Thread : job[t] # Idle
  /\ damaged' = damaged \cup
       {job[t].acc : t \in {u \in Thread : job[u].at \in {"read", "write"}}}
  /\ job' = [t \in Thread |-> Idle]
  /\ UNCHANGED <<accountTb, appTb, appList, acked, faults>>

AddAppIDToList(t) == InsertApp(t) \/ ReadList(t) \/ WriteList(t)

Next ==
  \/ \E a \in Account : Register(a)
  \/ \E a \in Account : NewApp(a)
  \/ CountApps
  \/ \E t \in Thread : ReadMax(t)
  \/ \E t \in Thread : AddAppIDToList(t)
  \/ AckNewApp
  \/ Crash

Spec == Init /\ [][Next]_vars

-----------------------------------------------------------------------------
(* Properties *)

\* A thread that serves no request holds nothing, one that serves a request
\* does so for an account that exists, and AccountThread never gets to the
\* steps only CenterThread has.
JobOK ==
  /\ job \in [Thread -> Job]
  /\ \A t \in Thread : job[t] = Idle \/ (job[t].at # "idle" /\ job[t].acc \in accountTb)
  /\ job["account"].at \notin {"count", "ack"}

\* Every variable has its type, and the jobs are consistent.
TypeOK ==
  /\ accountTb \subseteq Account
  /\ appTb \subseteq Row
  /\ appList \in [Account -> SUBSET Nat]
  /\ JobOK
  /\ acked \subseteq [id : Nat, creator : Account]
  /\ faults \in 0 .. MaxFaults
  /\ damaged \subseteq Account

\* The application id exists and account a created it.
Owned(id, a) == \E r \in appTb : r.id = id /\ r.creator = a

\* An account's application list names only applications that exist and that
\* this account created, in whatever order the statements of the two threads,
\* their failures and the crashes come.
ListedAppsOwned ==
  \A a \in Account : \A id \in appList[a] : Owned(id, a)

\* What CenterThread reported as created exists and belongs to the account it
\* was reported to; no two reports, to whichever accounts, carry the same id.
AckedAppsExist ==
  /\ \A k \in acked : Owned(k.id, k.creator)
  /\ \A k, l \in acked : (k.id = l.id) => (k = l)

\* The limit of CenterThread does not bind AccountThread, whose first
\* application comes on top, and a failed count lets one more through: that is
\* as far as an account ever gets.
CreationLimit ==
  \A a \in Account : Cardinality(CreatedBy(a)) <= AppCap + 1 + faults

\* t has inserted the application of the row r and not yet written the list.
InFlight(t, r) ==
  /\ job[t].at \in {"read", "write"}
  /\ job[t].acc = r.creator
  /\ job[t].id = r.id

\* An application is missing from its creator's list only while it is being
\* added, or for good once a creation of that account was cut short by a crash
\* or a failed statement, or the two threads updated its list at the same time.
MissingOnlyIfDamaged ==
  \A r \in appTb :
    \/ r.id \in appList[r.creator]
    \/ \E t \in Thread : InFlight(t, r)
    \/ r.creator \in damaged

Owner(id) ==
  IF id \in AppIds THEN (CHOOSE r \in appTb : r.id = id).creator ELSE NoAccount

\* The rows in the order of their ids.
Creators == [i \in 1 .. Cardinality(appTb) |-> Owner(AppIdMin + i)]

Registry == INSTANCE AppRegistry
              WITH Quota <- AppCap + 1 + MaxFaults, creators <- Creators

\* Two threads that pick ids by reading the greatest one still give them out
\* one after the other, without a gap, each to one creator for ever.
ImplementsRegistry == Registry!Spec

\* AccountThread.cpp says that a registration creates an application by
\* itself: once AccountThread is done with an account, the account has one.
RegisteredHasApp ==
  \A a \in accountTb : job["account"].acc = a \/ CreatedBy(a) # {}
=============================================================================
