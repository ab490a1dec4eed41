------------------------- MODULE AppSession_proofs -------------------------
(***************************************************************************)
(* The session of the app, for any number of accounts, applications,       *)
(* messages on their way, losses and restarts.                             *)
(*                                                                         *)
(* The order of the messages carries the argument: whatever is on its way  *)
(* for another account has a list request or answer of the present account *)
(* behind it, unless a message was lost, so that a late answer never has   *)
(* the last word.                                                          *)
(***************************************************************************)
EXTENDS AppSession, SequenceTheorems, TLAPS

LEMMA Appended ==
  ASSUME NEW S, NEW s \in Seq(S), NEW e \in S
  PROVE  /\ Append(s, e) \in Seq(S)
         /\ Len(s) \in Nat
         /\ Len(Append(s, e)) = Len(s) + 1
         /\ Append(s, e)[Len(s) + 1] = e
         /\ \A j \in 1 .. Len(s) : Append(s, e)[j] = s[j]
OBVIOUS

LEMMA Tailed ==
  ASSUME NEW S, NEW s \in Seq(S), s # <<>>
  PROVE  /\ Tail(s) \in Seq(S)
         /\ Len(s) \in Nat \ {0}
         /\ Len(Tail(s)) = Len(s) - 1
         /\ Head(s) = s[1] /\ Head(s) \in S
         /\ \A j \in 1 .. Len(s) - 1 : Tail(s)[j] = s[j + 1]
OBVIOUS

\* What Append adds to the elements of a list.
LEMMA RangeAppended ==
  ASSUME NEW S, NEW s \in Seq(S), NEW e \in S
  PROVE  Range(Append(s, e)) = Range(s) \cup {e}
<1> DEFINE t == Append(s, e)
<1>1. /\ t \in Seq(S) /\ Len(s) \in Nat /\ Len(t) = Len(s) + 1
      /\ t[Len(s) + 1] = e /\ \A j \in 1 .. Len(s) : t[j] = s[j]
  BY Appended
<1> HIDE DEF t
<1>2. DOMAIN t = 1 .. Len(s) + 1 /\ DOMAIN s = 1 .. Len(s)
  BY <1>1
<1>3. Range(t) = Range(s) \cup {e}
  BY <1>1, <1>2 DEF Range
<1> QED BY <1>3 DEF t

\* What the restart makes of the requests on their way.
Abandoned(s) == [i \in DOMAIN s |-> [s[i] EXCEPT !.mine = FALSE]]

LEMMA AbandonedType ==
  ASSUME NEW s \in Seq(Ask)
  PROVE  /\ Abandoned(s) \in Seq(Ask)
         /\ \A i \in DOMAIN Abandoned(s) : ~Abandoned(s)[i].mine
<1>1. \A i \in 1 .. Len(s) : s[i] \in Ask /\ [s[i] EXCEPT !.mine = FALSE] \in Ask
  <2>1. \A i \in 1 .. Len(s) : s[i] \in Ask
    OBVIOUS
  <2>2. \A m \in Ask : [m EXCEPT !.mine = FALSE] \in Ask
    BY DEF Ask
  <2> QED BY <2>1, <2>2
<1>2. Len(s) \in Nat /\ DOMAIN s = 1 .. Len(s)
  OBVIOUS
<1>3. Abandoned(s) = [i \in 1 .. Len(s) |-> [s[i] EXCEPT !.mine = FALSE]]
  BY <1>2 DEF Abandoned
<1>4. Abandoned(s) \in Seq(Ask)
  BY <1>1, <1>2, <1>3
<1>5. \A i \in 1 .. Len(s) : Abandoned(s)[i].mine = FALSE
  BY <1>1, <1>2, <1>3 DEF Ask
<1> QED BY <1>2, <1>3, <1>4, <1>5

-----------------------------------------------------------------------------
(* Types, and the account of the two objects *)

\* Types and the agreement of the two accounts are inductive together: new_app
\* carries the account of CenterMan because AccountMan is logged in.
TInv == TypeOK /\ LoginsAgree

LEMMA TypesInit == Init => TInv
<1> SUFFICES ASSUME Init PROVE TInv
  OBVIOUS
<1>1. /\ apps \in [Account -> Seq(AppId)] /\ appWorkList \in Seq(AppId)
      /\ logins \in Seq(Account) /\ asks \in Seq(Ask) /\ answers \in Seq(Answer)
  BY EmptySeq DEF Init
<1>2. login_state # 1
  BY DEF Init
<1>3. ~booted
  BY Zenon DEF Init
<1>4. LoginsAgree
  BY <1>2, <1>3, Zenon DEF LoginsAgree
<1>5. booted \in BOOLEAN /\ untold \in BOOLEAN /\ newFirst \in BOOLEAN
  BY Zenon DEF Init
<1> QED BY <1>1, <1>4, <1>5, BoundAssumption DEF Init, TInv, TypeOK

LEMMA RequestType ==
  ASSUME TypeOK, NEW cmd \in {"app_list", "new_app"}, NEW a \in Account, Request(cmd, a)
  PROVE  asks' \in Seq(Ask)
<1>1. [cmd |-> cmd, account |-> a, mine |-> TRUE] \in Ask
  BY DEF Ask
<1> QED BY <1>1, Appended DEF Request, TypeOK

LEMMA TypesNext == TInv /\ [Next]_vars => TInv'
<1> SUFFICES ASSUME TInv, [Next]_vars PROVE TInv'
  OBVIOUS
<1> USE DEF serverVars, phoneVars, centerVars, boundVars, historyVars
<1>0. TypeOK /\ LoginsAgree
  BY DEF TInv
<1>1. CASE readConfig
  <2>1. CASE /\ saved # NoAccount
             /\ account' = saved
             /\ login_state' = 1
             /\ slotUpdateLoginAccount(saved)
             /\ UNCHANGED saved
    <3>1. saved \in Account
      BY <1>0, <2>1 DEF TypeOK
    <3>2. asks' \in Seq(Ask)
      BY <1>0, <2>1, <3>1, RequestType DEF slotUpdateLoginAccount, requestAppList
    <3> QED BY <1>0, <1>1, <2>1, <3>1, <3>2
            DEF readConfig, TInv, TypeOK, LoginsAgree, slotUpdateLoginAccount
  <2>2. CASE ClearAccount /\ UNCHANGED <<loginAccount, asks>>
    BY <1>0, <1>1, <2>2 DEF readConfig, ClearAccount, TInv, TypeOK, LoginsAgree
  <2> QED BY <1>1, <2>1, <2>2 DEF readConfig
<1>2. CASE parseAccountRecv
  <2>1. Head(logins) \in Account /\ Tail(logins) \in Seq(Account)
    BY <1>0, <1>2, Tailed DEF parseAccountRecv, TypeOK
  <2>2. asks' \in Seq(Ask)
    BY <1>0, <1>2, <2>1, RequestType
    DEF parseAccountRecv, slotUpdateLoginAccount, requestAppList
  <2>3. /\ account' = Head(logins) /\ saved' = Head(logins) /\ loginAccount' = Head(logins)
        /\ login_state' = 1 /\ logins' = Tail(logins)
        /\ UNCHANGED <<apps, maxApp, making, registered, booted, appWorkList, currApp,
                       answers, lostCount, restarts, untold, newFirst, overtaken>>
    BY <1>2 DEF parseAccountRecv, slotUpdateLoginAccount
  <2>4. TypeOK'
    BY <1>0, <2>1, <2>2, <2>3, SMTT(30) DEF TypeOK
  <2>5. LoginsAgree'
    BY <2>1, <2>3, AccountAssumption DEF LoginsAgree
  <2> QED BY <2>4, <2>5 DEF TInv
<1>3. CASE LogOut
  BY <1>0, <1>3 DEF LogOut, ClearAccount, TInv, TypeOK, LoginsAgree
<1>4. CASE slotCheckTimeout
  <2>1. asks' \in Seq(Ask)
    BY <1>0, <1>4, RequestType DEF slotCheckTimeout, requestAppList, TypeOK
  <2> QED BY <1>0, <1>4, <2>1 DEF slotCheckTimeout, TInv, TypeOK, LoginsAgree
<1>5. CASE requestNewApp
  <2>1. loginAccount \in Account
    BY <1>0, <1>5 DEF requestNewApp, TypeOK, LoginsAgree
  <2>2. asks' \in Seq(Ask)
    BY <1>0, <1>5, <2>1, RequestType DEF requestNewApp
  <2> QED BY <1>0, <1>5, <2>2 DEF requestNewApp, TInv, TypeOK, LoginsAgree
<1>6. CASE selectCurrApp
  <2>1. currApp' \in AppId
    BY <1>0, <1>6, RangeOfSeq DEF selectCurrApp, TypeOK
  <2> QED BY <1>0, <1>6, <2>1 DEF selectCurrApp, TInv, TypeOK, LoginsAgree, AppId
<1>7. CASE parseCenterRecv
  <2>1. Head(answers) \in Answer /\ Tail(answers) \in Seq(Answer)
    BY <1>0, <1>7, Tailed DEF parseCenterRecv, TypeOK
  <2>2. Head(answers).list \in Seq(AppId)
    BY <2>1 DEF Answer
  <2>3. appWorkList \o Head(answers).list \in Seq(AppId)
    BY <1>0, <2>2, ConcatProperties DEF TypeOK
  <2>6. appWorkList' \in Seq(AppId)
    BY <1>0, <1>7, <2>2, <2>3 DEF parseCenterRecv, TakeAppList, TakeNewApp
  <2>7. Head(answers).list # <<>> => Head(Head(answers).list) \in 0 .. MaxApp
    BY <2>2, Tailed, BoundAssumption DEF AppId
  <2>4. currApp' \in 0 .. MaxApp
    BY <1>0, <1>7, <2>7 DEF parseCenterRecv, TakeAppList, TakeNewApp, TypeOK
  <2>5. newFirst' \in BOOLEAN /\ untold' \in BOOLEAN
    BY <1>0, <1>7 DEF parseCenterRecv, TypeOK
  <2> QED BY <1>0, <1>7, <2>1, <2>4, <2>5, <2>6
          DEF parseCenterRecv, TInv, TypeOK, LoginsAgree
<1>8. CASE \E a \in Account : Login(a)
  <2> PICK a \in Account : Login(a)
    BY <1>8
  <2>1. logins' \in Seq(Account)
    BY <1>0, Appended DEF Login, TypeOK
  <2> QED BY <1>0, <2>1 DEF Login, TInv, TypeOK, LoginsAgree
<1>9. CASE FirstApp
  <2>1. making \in Account /\ maxApp + 1 \in AppId
    BY <1>0, <1>9, BoundAssumption DEF FirstApp, AddApp, TypeOK, AppId
  <2>2. apps' \in [Account -> Seq(AppId)]
    BY <1>0, <1>9, <2>1, Appended DEF FirstApp, AddApp, TypeOK
  <2>3. maxApp' \in 0 .. MaxApp
    BY <1>0, <1>9, <2>1 DEF FirstApp, AddApp, TypeOK, AppId
  <2> QED BY <1>0, <1>9, <2>1, <2>2, <2>3 DEF FirstApp, TInv, TypeOK, LoginsAgree
<1>10. CASE FirstAppFails
  BY <1>0, <1>10 DEF FirstAppFails, TInv, TypeOK, LoginsAgree
<1>11. CASE AnswerAppList
  <2>1. Head(asks) \in Ask /\ Tail(asks) \in Seq(Ask)
    BY <1>0, <1>11, Tailed DEF AnswerAppList, TypeOK
  <2>2. [cmd |-> Head(asks).cmd, account |-> Head(asks).account,
         list |-> apps[Head(asks).account]] \in Answer
    BY <1>0, <2>1 DEF Ask, Answer, TypeOK
  <2>3. answers' \in Seq(Answer) /\ asks' \in Seq(Ask)
    BY <1>0, <1>11, <2>1, <2>2, Appended DEF AnswerAppList, Reply, TypeOK
  <2> QED BY <1>0, <1>11, <2>3 DEF AnswerAppList, TInv, TypeOK, LoginsAgree
<1>12. CASE AnswerNewApp
  <2>1. Head(asks) \in Ask /\ Tail(asks) \in Seq(Ask)
    BY <1>0, <1>12, Tailed DEF AnswerNewApp, TypeOK
  <2>2. CASE AddApp(Head(asks).account) /\ Reply(Head(asks), <<maxApp + 1>>)
    <3>1. Head(asks).account \in Account /\ maxApp + 1 \in AppId /\ maxApp' \in 0 .. MaxApp
      BY <1>0, <2>1, <2>2, BoundAssumption DEF AddApp, TypeOK, AppId, Ask
    <3>2. apps' \in [Account -> Seq(AppId)]
      BY <1>0, <2>2, <3>1, Appended DEF AddApp, TypeOK
    <3>3. <<maxApp + 1>> \in Seq(AppId)
      BY <3>1
    <3>4. [cmd |-> Head(asks).cmd, account |-> Head(asks).account,
           list |-> <<maxApp + 1>>] \in Answer
      BY <2>1, <3>3 DEF Ask, Answer
    <3>5. answers' \in Seq(Answer) /\ asks' \in Seq(Ask)
      BY <1>0, <2>1, <2>2, <3>4, Appended DEF Reply, TypeOK
    <3> QED BY <1>0, <1>12, <3>1, <3>2, <3>5 DEF AnswerNewApp, TInv, TypeOK, LoginsAgree
  <2>3. CASE asks' = Tail(asks) /\ UNCHANGED <<apps, maxApp, answers>>
    BY <1>0, <1>12, <2>1, <2>3 DEF AnswerNewApp, TInv, TypeOK, LoginsAgree
  <2> QED BY <1>12, <2>2, <2>3 DEF AnswerNewApp
<1>13. CASE Lose
  <2>1. asks' \in Seq(Ask) /\ answers' \in Seq(Answer) /\ logins' \in Seq(Account)
    <3>1. asks # <<>> => Tail(asks) \in Seq(Ask)
      BY <1>0, Tailed DEF TypeOK
    <3>2. answers # <<>> => Tail(answers) \in Seq(Answer)
      BY <1>0, Tailed DEF TypeOK
    <3>3. logins # <<>> => Tail(logins) \in Seq(Account)
      BY <1>0, Tailed DEF TypeOK
    <3> QED BY <1>0, <1>13, <3>1, <3>2, <3>3 DEF Lose, TypeOK
  <2>2. untold' \in BOOLEAN
    <3>1. asks # <<>> => Head(asks) \in Ask
      BY <1>0, Tailed DEF TypeOK
    <3>2. asks # <<>> => Head(asks).mine \in BOOLEAN
      BY <3>1 DEF Ask
    <3> QED BY <1>0, <1>13, <3>2 DEF Lose, TypeOK
  <2>3. lostCount' \in 0 .. MaxLost
    BY <1>0, <1>13, BoundAssumption DEF Lose, TypeOK
  <2> QED BY <1>0, <1>13, <2>1, <2>2, <2>3 DEF Lose, TInv, TypeOK, LoginsAgree
<1>14. CASE Restart
  <2>1. asks' \in Seq(Ask)
    BY <1>0, <1>14, AbandonedType DEF Restart, TypeOK, Abandoned
  <2>2. restarts' \in 0 .. MaxRestarts
    BY <1>0, <1>14, BoundAssumption, SMTT(30) DEF Restart, TypeOK
  <2>3. /\ appWorkList' \in Seq(AppId) /\ logins' \in Seq(Account)
        /\ answers' \in Seq(Answer)
    BY <1>14, EmptySeq DEF Restart
  <2>6. login_state' # 1
    BY <1>14 DEF Restart
  <2>7. ~booted'
    BY <1>14, Zenon DEF Restart
  <2>4. LoginsAgree'
    BY <2>6, <2>7, Zenon DEF LoginsAgree
  <2>8. booted' \in BOOLEAN /\ untold' \in BOOLEAN /\ newFirst' \in BOOLEAN
    BY <1>14, Zenon DEF Restart
  <2>5. TypeOK'
    BY <1>0, <1>14, <2>1, <2>2, <2>3, <2>8, SMTT(40) DEF Restart, TypeOK
  <2> QED BY <2>4, <2>5 DEF TInv
<1>15. CASE UNCHANGED vars
  BY <1>0, <1>15 DEF vars, TInv, TypeOK, LoginsAgree
<1> QED BY <1>1, <1>2, <1>3, <1>4, <1>5, <1>6, <1>7, <1>8, <1>9, <1>10, <1>11, <1>12,
           <1>13, <1>14, <1>15 DEF Next, Serve

\* Every variable of the session keeps its type.
THEOREM TypeCorrect == Spec => []TypeOK
<1>1. TInv => TypeOK
  BY DEF TInv
<1> QED BY <1>1, TypesInit, TypesNext, PTL DEF Spec

\* AccountMan and CenterMan agree on the account of a logged in user, and
\* account.txt has the account that AccountMan has.
THEOREM LoginsAgreed == Spec => []LoginsAgree
<1>1. TInv => LoginsAgree
  BY DEF TInv
<1> QED BY <1>1, TypesInit, TypesNext, PTL DEF Spec
-----------------------------------------------------------------------------
(* No application is listed twice *)

Distinct(l) == \A i, j \in DOMAIN l : l[i] = l[j] => i = j

\* Nothing is listed that was not created yet.
Issued ==
  /\ Range(appWorkList) \subseteq 1 .. maxApp
  /\ \A a \in Account : Range(apps[a]) \subseteq 1 .. maxApp
  /\ \A i \in 1 .. Len(answers) : Range(answers[i].list) \subseteq 1 .. maxApp

AllDistinct ==
  /\ Distinct(appWorkList)
  /\ \A a \in Account : Distinct(apps[a])
  /\ \A i \in 1 .. Len(answers) : Distinct(answers[i].list)

\* An application that new_app will add is neither listed nor in an answer
\* before it: it was created after them.
Fresh ==
  \A j \in 1 .. Len(answers) : answers[j].cmd = "new_app" =>
    /\ Range(answers[j].list) \cap Range(appWorkList) = {}
    /\ \A i \in 1 .. j - 1 : Range(answers[i].list) \cap Range(answers[j].list) = {}

DInv == Issued /\ AllDistinct /\ Fresh

LEMMA EmptyRange == Range(<<>>) = {} /\ Distinct(<<>>)
BY DEF Range, Distinct

LEMMA DistinctAppended ==
  ASSUME NEW S, NEW s \in Seq(S), NEW e \in S, Distinct(s), e \notin Range(s)
  PROVE  Distinct(Append(s, e))
<1> DEFINE t == Append(s, e)
<1>1. /\ t \in Seq(S) /\ Len(s) \in Nat /\ Len(t) = Len(s) + 1
      /\ t[Len(s) + 1] = e /\ \A j \in 1 .. Len(s) : t[j] = s[j]
  BY Appended
<1> HIDE DEF t
<1>2. DOMAIN t = 1 .. Len(s) + 1 /\ DOMAIN s = 1 .. Len(s)
  BY <1>1
<1>3. \A j \in 1 .. Len(s) : s[j] # e
  BY <1>2 DEF Range
<1>4. Distinct(t)
  BY <1>1, <1>2, <1>3 DEF Distinct
<1> QED BY <1>4 DEF t

LEMMA DistinctConcat ==
  ASSUME NEW S, NEW s \in Seq(S), NEW u \in Seq(S), Distinct(s), Distinct(u),
         Range(s) \cap Range(u) = {}
  PROVE  Distinct(s \o u)
<1> DEFINE t == s \o u
<1>1. /\ t \in Seq(S) /\ Len(s) \in Nat /\ Len(u) \in Nat /\ Len(t) = Len(s) + Len(u)
      /\ \A i \in 1 .. Len(s) + Len(u) : t[i] = IF i <= Len(s) THEN s[i] ELSE u[i - Len(s)]
  BY ConcatProperties
<1> HIDE DEF t
<1>2. DOMAIN t = 1 .. Len(s) + Len(u) /\ DOMAIN s = 1 .. Len(s) /\ DOMAIN u = 1 .. Len(u)
  BY <1>1
<1>3. \A i \in 1 .. Len(s), j \in 1 .. Len(u) : s[i] # u[j]
  BY <1>2 DEF Range
<1>4. ASSUME NEW i \in 1 .. Len(s) + Len(u), NEW j \in 1 .. Len(s) + Len(u), t[i] = t[j]
      PROVE  i = j
  <2>1. CASE i <= Len(s) /\ j <= Len(s)
    <3>1. i \in 1 .. Len(s) /\ j \in 1 .. Len(s)
      BY <1>1, <2>1
    <3>2. s[i] = s[j]
      BY <1>1, <1>4, <2>1
    <3> QED BY <1>2, <3>1, <3>2 DEF Distinct
  <2>2. CASE i > Len(s) /\ j > Len(s)
    <3>1. /\ i - Len(s) \in 1 .. Len(u) /\ j - Len(s) \in 1 .. Len(u)
          /\ u[i - Len(s)] = u[j - Len(s)]
      BY <1>1, <1>4, <2>2
    <3>2. i - Len(s) = j - Len(s)
      BY <1>2, <3>1 DEF Distinct
    <3> QED BY <1>1, <3>2
  <2>3. CASE i <= Len(s) /\ j > Len(s)
    <3>1. j - Len(s) \in 1 .. Len(u) /\ i \in 1 .. Len(s) /\ s[i] = u[j - Len(s)]
      BY <1>1, <1>4, <2>3
    <3> QED BY <1>3, <3>1
  <2>4. CASE i > Len(s) /\ j <= Len(s)
    <3>1. i - Len(s) \in 1 .. Len(u) /\ j \in 1 .. Len(s) /\ s[j] = u[i - Len(s)]
      BY <1>1, <1>4, <2>4
    <3> QED BY <1>3, <3>1
  <2> QED BY <1>1, <2>1, <2>2, <2>3, <2>4
<1>5. Distinct(t)
  BY <1>2, <1>4 DEF Distinct
<1> QED BY <1>5 DEF t

LEMMA DoublesInit == Init => DInv
<1> SUFFICES ASSUME Init PROVE DInv
  OBVIOUS
<1>1. /\ appWorkList = <<>> /\ answers = <<>> /\ Len(answers) = 0
      /\ \A a \in Account : apps[a] = <<>>
  BY DEF Init
<1> QED BY <1>1, EmptyRange DEF DInv, Issued, AllDistinct, Fresh

\* A new answer that lists what was created already.
LEMMA DoublesAnswered ==
  ASSUME TypeOK, DInv, NEW m \in Answer, answers' = Append(answers, m),
         UNCHANGED appWorkList, maxApp' \in Nat, maxApp <= maxApp',
         Distinct(m.list), Range(m.list) \subseteq 1 .. maxApp',
         m.cmd = "new_app" => Range(m.list) \cap 1 .. maxApp = {},
         \A a \in Account : Range(apps'[a]) \subseteq 1 .. maxApp' /\ Distinct(apps'[a])
  PROVE  DInv'
<1>1. /\ Len(answers) \in Nat /\ Len(answers') = Len(answers) + 1
      /\ answers'[Len(answers) + 1] = m
      /\ \A j \in 1 .. Len(answers) : answers'[j] = answers[j]
  BY Appended DEF TypeOK
<1>2. maxApp \in Nat /\ 1 .. maxApp \subseteq 1 .. maxApp'
  BY BoundAssumption DEF TypeOK
<1>3. Issued /\ AllDistinct /\ Fresh
  BY DEF DInv
<1>4. Issued'
  <2>1. ASSUME NEW i \in 1 .. Len(answers) + 1
        PROVE  Range(answers'[i].list) \subseteq 1 .. maxApp'
    <3>1. CASE i = Len(answers) + 1
      BY <1>1, <3>1
    <3>2. CASE i \in 1 .. Len(answers)
      BY <1>1, <1>2, <1>3, <3>2 DEF Issued
    <3> QED BY <1>1, <3>1, <3>2
  <2>2. Range(appWorkList') \subseteq 1 .. maxApp'
    BY <1>2, <1>3 DEF Issued
  <2> QED BY <1>1, <2>1, <2>2 DEF Issued
<1>5. AllDistinct'
  <2>1. ASSUME NEW i \in 1 .. Len(answers) + 1
        PROVE  Distinct(answers'[i].list)
    <3>1. CASE i = Len(answers) + 1
      BY <1>1, <3>1
    <3>2. CASE i \in 1 .. Len(answers)
      BY <1>1, <1>3, <3>2 DEF AllDistinct
    <3> QED BY <1>1, <3>1, <3>2
  <2> QED BY <1>1, <1>3, <2>1 DEF AllDistinct
<1>6. Fresh'
  <2> SUFFICES ASSUME NEW j \in 1 .. Len(answers) + 1, answers'[j].cmd = "new_app"
               PROVE  /\ Range(answers'[j].list) \cap Range(appWorkList) = {}
                      /\ \A i \in 1 .. j - 1 :
                           Range(answers'[i].list) \cap Range(answers'[j].list) = {}
    BY <1>1 DEF Fresh
  <2>1. CASE j = Len(answers) + 1
    <3>1. answers'[j] = m /\ Range(m.list) \cap 1 .. maxApp = {}
      BY <1>1, <2>1
    <3>2. \A i \in 1 .. j - 1 : Range(answers'[i].list) \subseteq 1 .. maxApp
      BY <1>1, <1>3, <2>1 DEF Issued
    <3>3. Range(appWorkList) \subseteq 1 .. maxApp
      BY <1>3 DEF Issued
    <3>4. Range(answers'[j].list) \cap Range(appWorkList) = {}
      BY <3>1, <3>3
    <3>5. ASSUME NEW i \in 1 .. j - 1
          PROVE  Range(answers'[i].list) \cap Range(answers'[j].list) = {}
      <4>1. Range(answers'[i].list) \subseteq 1 .. maxApp
        BY <3>2
      <4> QED BY <3>1, <4>1
    <3> QED BY <3>4, <3>5
  <2>2. CASE j \in 1 .. Len(answers)
    <3>1. \A i \in 1 .. j - 1 : answers'[i] = answers[i]
      BY <1>1, <2>2
    <3> QED BY <1>1, <1>3, <2>2, <3>1 DEF Fresh
  <2>3. j = Len(answers) + 1 \/ j \in 1 .. Len(answers)
    BY <1>1
  <2> QED BY <2>1, <2>2, <2>3, Zenon
<1> QED BY <1>4, <1>5, <1>6 DEF DInv

\* The first answer is gone, and the list is as before or what it makes of it.
LEMMA DoublesShortened ==
  ASSUME TypeOK, DInv, answers # <<>>, answers' = Tail(answers), UNCHANGED <<apps, maxApp>>,
         \/ UNCHANGED appWorkList
         \/ appWorkList' = Head(answers).list
         \/ /\ appWorkList' = appWorkList \o Head(answers).list
            /\ Head(answers).cmd = "new_app"
  PROVE  DInv'
<1>1. /\ Len(answers) \in Nat \ {0} /\ Len(answers') = Len(answers) - 1
      /\ Head(answers) = answers[1] /\ Head(answers) \in Answer
      /\ \A j \in 1 .. Len(answers) - 1 : answers'[j] = answers[j + 1]
  BY Tailed DEF TypeOK
<1>2. Issued /\ AllDistinct /\ Fresh
  BY DEF DInv
<1>3. /\ Head(answers).list \in Seq(AppId) /\ appWorkList \in Seq(AppId)
      /\ Range(Head(answers).list) \subseteq 1 .. maxApp /\ Distinct(Head(answers).list)
  BY <1>1, <1>2, SMTT(30) DEF Issued, AllDistinct, TypeOK, Answer
<1>4. Range(appWorkList') \subseteq Range(appWorkList) \cup Range(Head(answers).list)
  <2>1. Range(appWorkList \o Head(answers).list)
          \subseteq Range(appWorkList) \cup Range(Head(answers).list)
    BY <1>3, RangeConcatenation
  <2>2. CASE UNCHANGED appWorkList
    BY <2>2
  <2>3. CASE appWorkList' = Head(answers).list
    BY <2>3
  <2>4. CASE appWorkList' = appWorkList \o Head(answers).list
    BY <2>1, <2>4
  <2> QED BY <2>2, <2>3, <2>4
<1>5. Distinct(appWorkList')
  <2>1. CASE UNCHANGED appWorkList
    BY <1>2, <2>1 DEF AllDistinct
  <2>2. CASE appWorkList' = Head(answers).list
    BY <1>3, <2>2
  <2>3. CASE appWorkList' = appWorkList \o Head(answers).list /\ Head(answers).cmd = "new_app"
    <3>1. Range(appWorkList) \cap Range(Head(answers).list) = {}
      BY <1>1, <1>2, <2>3 DEF Fresh
    <3> QED BY <1>2, <1>3, <2>3, <3>1, DistinctConcat DEF AllDistinct
  <2> QED BY <2>1, <2>2, <2>3
<1>6. \A j \in 1 .. Len(answers') : j + 1 \in 1 .. Len(answers) /\ answers'[j] = answers[j + 1]
  BY <1>1
<1>7. Issued'
  BY <1>2, <1>3, <1>4, <1>6 DEF Issued
<1>8. AllDistinct'
  BY <1>2, <1>5, <1>6 DEF AllDistinct
<1>9. Fresh'
  <2> SUFFICES ASSUME NEW j \in 1 .. Len(answers'), answers'[j].cmd = "new_app"
               PROVE  /\ Range(answers'[j].list) \cap Range(appWorkList') = {}
                      /\ \A i \in 1 .. j - 1 :
                           Range(answers'[i].list) \cap Range(answers'[j].list) = {}
    BY DEF Fresh
  <2>1. /\ j + 1 \in 1 .. Len(answers) /\ answers'[j] = answers[j + 1]
        /\ answers[j + 1].cmd = "new_app"
    BY <1>6
  <2>2. /\ Range(answers[j + 1].list) \cap Range(appWorkList) = {}
        /\ \A i \in 1 .. (j + 1) - 1 :
             Range(answers[i].list) \cap Range(answers[j + 1].list) = {}
    BY <1>2, <2>1 DEF Fresh
  <2>3. Range(answers[1].list) \cap Range(answers[j + 1].list) = {}
    BY <1>1, <2>2
  <2>4. ASSUME NEW i \in 1 .. j - 1
        PROVE  Range(answers'[i].list) \cap Range(answers'[j].list) = {}
    <3>1. i + 1 \in 1 .. (j + 1) - 1 /\ i \in 1 .. Len(answers')
      BY <1>1
    <3>2. answers'[i] = answers[i + 1]
      BY <1>6, <3>1
    <3> QED BY <2>1, <2>2, <3>1, <3>2
  <2>5. Range(answers'[j].list) \cap Range(appWorkList') = {}
    BY <1>1, <1>4, <2>1, <2>2, <2>3
  <2> QED BY <2>4, <2>5
<1> QED BY <1>7, <1>8, <1>9 DEF DInv
\* The server adds an application to the list of one account.
LEMMA DoublesCreated ==
  ASSUME TypeOK, DInv, NEW a \in Account, AddApp(a)
  PROVE  /\ maxApp \in Nat /\ maxApp' = maxApp + 1
         /\ \A b \in Account : /\ Range(apps'[b]) \subseteq 1 .. maxApp'
                               /\ Distinct(apps'[b])
<1>1. maxApp \in Nat /\ maxApp' = maxApp + 1 /\ maxApp + 1 \in AppId
  BY BoundAssumption DEF TypeOK, AddApp, AppId
<1>2. \A b \in Account : apps[b] \in Seq(AppId) /\ Distinct(apps[b])
                         /\ Range(apps[b]) \subseteq 1 .. maxApp
  BY DEF TypeOK, DInv, AllDistinct, Issued
<1>3. \A b \in Account : apps'[b] = IF b = a THEN Append(apps[b], maxApp + 1) ELSE apps[b]
  BY DEF AddApp, TypeOK
<1>4. /\ Range(Append(apps[a], maxApp + 1)) = Range(apps[a]) \cup {maxApp + 1}
      /\ Distinct(Append(apps[a], maxApp + 1))
  <2>1. maxApp + 1 \notin Range(apps[a])
    BY <1>1, <1>2
  <2> QED BY <1>1, <1>2, <2>1, RangeAppended, DistinctAppended
<1>5. \A b \in Account : Distinct(apps'[b])
  BY <1>2, <1>3, <1>4
<1>6. \A b \in Account : Range(apps'[b]) \subseteq 1 .. maxApp'
  BY <1>1, <1>2, <1>3, <1>4
<1> QED BY <1>1, <1>5, <1>6

LEMMA DoublesNext == TInv /\ DInv /\ [Next]_vars => DInv'
<1> SUFFICES ASSUME TInv, DInv, [Next]_vars PROVE DInv'
  OBVIOUS
<1> USE DEF serverVars, phoneVars, centerVars, boundVars, historyVars
<1>0. TypeOK /\ TypeOK'
  BY TypesNext DEF TInv
<1>1. CASE UNCHANGED <<apps, maxApp, appWorkList, answers>>
  BY <1>1 DEF DInv, Issued, AllDistinct, Fresh
<1>2. CASE readConfig \/ parseAccountRecv \/ LogOut \/ slotCheckTimeout \/ requestNewApp
           \/ selectCurrApp \/ (\E a \in Account : Login(a)) \/ FirstAppFails
           \/ UNCHANGED vars
  BY <1>1, <1>2 DEF readConfig, parseAccountRecv, LogOut, slotCheckTimeout, requestNewApp,
                    selectCurrApp, Login, FirstAppFails, vars
<1>3. CASE parseCenterRecv
  BY <1>0, <1>3, DoublesShortened DEF parseCenterRecv, TakeAppList, TakeNewApp
<1>4. CASE FirstApp
  <2>1. making \in Account /\ AddApp(making) /\ UNCHANGED <<appWorkList, answers>>
    BY <1>0, <1>4 DEF FirstApp, TypeOK
  <2>2. /\ maxApp \in Nat /\ maxApp' = maxApp + 1
        /\ \A b \in Account : Range(apps'[b]) \subseteq 1 .. maxApp' /\ Distinct(apps'[b])
    BY <1>0, <2>1, DoublesCreated
  <2>3. 1 .. maxApp \subseteq 1 .. maxApp'
    BY <2>2
  <2> QED BY <2>1, <2>2, <2>3 DEF DInv, Issued, AllDistinct, Fresh
<1>5. CASE AnswerAppList
  <2> DEFINE ask == Head(asks)
             m == [cmd |-> ask.cmd, account |-> ask.account, list |-> apps[ask.account]]
  <2>4. ask \in Ask /\ ask.cmd = "app_list"
    BY <1>0, <1>5, Tailed DEF AnswerAppList, TypeOK
  <2>1. ask \in Ask /\ ask.cmd = "app_list" /\ ask.account \in Account
    BY <2>4 DEF Ask
  <2>2. CASE ask.mine
    <3>1. answers' = Append(answers, m) /\ UNCHANGED <<apps, maxApp, appWorkList>>
      BY <1>5, <2>2 DEF AnswerAppList, Reply
    <3>2. m \in Answer /\ m.list = apps[ask.account] /\ m.cmd = "app_list"
      BY <1>0, <2>1 DEF Ask, Answer, TypeOK
    <3>3. \A b \in Account : Range(apps[b]) \subseteq 1 .. maxApp /\ Distinct(apps[b])
      BY DEF DInv, Issued, AllDistinct
    <3>4. maxApp \in Nat
      BY <1>0 DEF TypeOK
    <3> HIDE DEF m, ask
    <3> QED BY <1>0, <2>1, <3>1, <3>2, <3>3, <3>4, DoublesAnswered
  <2>3. CASE ~ask.mine
    BY <1>1, <1>5, <2>3 DEF AnswerAppList, Reply
  <2> QED BY <2>2, <2>3
<1>6. CASE AnswerNewApp
  <2> DEFINE ask == Head(asks)
             m == [cmd |-> ask.cmd, account |-> ask.account, list |-> <<maxApp + 1>>]
  <2>4. ask \in Ask /\ UNCHANGED appWorkList
    BY <1>0, <1>6, Tailed DEF AnswerNewApp, TypeOK
  <2>1. ask \in Ask /\ ask.account \in Account /\ UNCHANGED appWorkList
    BY <2>4 DEF Ask
  <2>2. CASE AddApp(ask.account) /\ Reply(ask, <<maxApp + 1>>)
    <3>1. /\ maxApp \in Nat /\ maxApp' = maxApp + 1
          /\ \A b \in Account : Range(apps'[b]) \subseteq 1 .. maxApp' /\ Distinct(apps'[b])
      BY <1>0, <2>1, <2>2, DoublesCreated
    <3>2. CASE ask.mine
      <4>1. answers' = Append(answers, m)
        BY <2>2, <3>2 DEF Reply
      <4>2. maxApp + 1 \in AppId
        BY <1>0, <2>2, <3>1 DEF AddApp, AppId, TypeOK
      <4>3. m.list = <<maxApp + 1>> /\ m \in Answer
        <5>1. <<maxApp + 1>> \in Seq(AppId)
          BY <4>2
        <5> QED BY <2>1, <5>1 DEF Ask, Answer
      <4>4. Range(<<maxApp + 1>>) = {maxApp + 1} /\ Distinct(<<maxApp + 1>>)
        BY DEF Range, Distinct
      <4>5. maxApp <= maxApp' /\ {maxApp + 1} \cap 1 .. maxApp = {}
            /\ {maxApp + 1} \subseteq 1 .. maxApp' /\ maxApp' \in Nat
        BY <3>1
      <4> HIDE DEF m, ask
      <4> QED BY <1>0, <2>1, <3>1, <4>1, <4>3, <4>4, <4>5, DoublesAnswered
    <3>3. CASE ~ask.mine
      <4>1. UNCHANGED <<appWorkList, answers>>
        BY <2>1, <2>2, <3>3 DEF Reply
      <4>2. 1 .. maxApp \subseteq 1 .. maxApp'
        BY <3>1
      <4> QED BY <3>1, <4>1, <4>2 DEF DInv, Issued, AllDistinct, Fresh
    <3> QED BY <3>2, <3>3
  <2>3. CASE UNCHANGED <<apps, maxApp, answers>>
    BY <1>1, <2>1, <2>3
  <2> QED BY <1>6, <2>2, <2>3 DEF AnswerNewApp
<1>7. CASE Lose
  <2>1. UNCHANGED <<apps, maxApp, appWorkList>>
    BY <1>7 DEF Lose
  <2>2. UNCHANGED answers \/ (answers # <<>> /\ answers' = Tail(answers))
    BY <1>7 DEF Lose
  <2> QED BY <1>0, <1>1, <2>1, <2>2, DoublesShortened
<1>8. CASE Restart
  <2>1. appWorkList' = <<>> /\ answers' = <<>> /\ UNCHANGED <<apps, maxApp>>
    BY <1>8 DEF Restart
  <2>2. Len(answers') = 0
    BY <2>1
  <2> QED BY <2>1, <2>2, EmptyRange DEF DInv, Issued, AllDistinct, Fresh
<1> QED BY <1>2, <1>3, <1>4, <1>5, <1>6, <1>7, <1>8 DEF Next, Serve

\* The app lists no application twice, although new_app adds to the list and
\* app_list replaces it: the answers come in the order of the server's steps.
THEOREM NoDoublesListed == Spec => []NoDoubles
<1>1. Init => TInv /\ DInv
  BY TypesInit, DoublesInit
<1>2. TInv /\ DInv /\ [Next]_vars => (TInv /\ DInv)'
  BY TypesNext, DoublesNext
<1>3. DInv => NoDoubles
  BY DEF DInv, AllDistinct, Distinct, NoDoubles
<1> QED BY <1>1, <1>2, <1>3, PTL DEF Spec
-----------------------------------------------------------------------------
(* Whose applications are listed *)

ListFor(m) == m.cmd = "app_list" /\ m.account = loginAccount

\* A list of the present account is asked for, or answered, behind place i.
AskedBehind(i) == \E j \in 1 .. Len(asks) : j > i /\ asks[j].mine /\ ListFor(asks[j])
AnsweredBehind(i) == \E j \in 1 .. Len(answers) : j > i /\ ListFor(answers[j])

\* An answer lists applications of the account it is for.
FromAccount ==
  \A i \in 1 .. Len(answers) : Range(answers[i].list) \subseteq Range(apps[answers[i].account])

Foreign(a) == a # loginAccount

\* Whatever is foreign has the list of the present account behind it.
Overtaken ==
  /\ \A i \in 1 .. Len(answers) :
       Foreign(answers[i].account) => AnsweredBehind(i) \/ AskedBehind(0)
  /\ \A i \in 1 .. Len(asks) :
       asks[i].mine /\ Foreign(asks[i].account) => AskedBehind(i)
  /\ Range(appWorkList) \ Mine # {} => AnsweredBehind(0) \/ AskedBehind(0)

FInv == FromAccount /\ (untold \/ Overtaken)

\* The present account asks for its list: nothing is left to show.
LEMMA ForeignAsked ==
  ASSUME TypeOK, FromAccount, NEW a \in Account, requestAppList(a), loginAccount' = a,
         UNCHANGED <<apps, answers>>
  PROVE  FromAccount' /\ Overtaken'
<1> DEFINE m == [cmd |-> "app_list", account |-> a, mine |-> TRUE]
<1>1. m \in Ask /\ asks' = Append(asks, m)
  BY DEF Ask, requestAppList, Request
<1>2. m.cmd = "app_list" /\ m.account = a /\ m.mine
  OBVIOUS
<1> HIDE DEF m
<1>3. /\ Len(asks) \in Nat /\ Len(asks') = Len(asks) + 1 /\ asks'[Len(asks) + 1] = m
      /\ \A j \in 1 .. Len(asks) : asks'[j] = asks[j]
  BY <1>1, Appended DEF TypeOK
<1>4. \A i \in 0 .. Len(asks) : AskedBehind(i)'
  BY <1>2, <1>3 DEF AskedBehind, ListFor
<1>5. ASSUME NEW i \in 1 .. Len(asks'), asks'[i].mine, asks'[i].account # loginAccount'
      PROVE  AskedBehind(i)'
  <2>1. i # Len(asks) + 1
    BY <1>2, <1>3, <1>5
  <2> QED BY <1>3, <1>4, <2>1
<1>6. AskedBehind(0)'
  BY <1>3, <1>4
<1>7. FromAccount'
  BY DEF FromAccount
<1> QED BY <1>5, <1>6, <1>7 DEF Overtaken, Foreign

\* The present account asks for something else.
LEMMA ForeignAppended ==
  ASSUME TypeOK, FInv, NEW cmd \in {"app_list", "new_app"}, loginAccount \in Account,
         Request(cmd, loginAccount),
         UNCHANGED <<apps, answers, loginAccount, appWorkList, untold>>
  PROVE  FInv'
<1> DEFINE m == [cmd |-> cmd, account |-> loginAccount, mine |-> TRUE]
<1>1. m \in Ask /\ asks' = Append(asks, m)
  BY DEF Ask, Request
<1>2. m.account = loginAccount
  OBVIOUS
<1> HIDE DEF m
<1>3. /\ Len(asks) \in Nat /\ Len(asks') = Len(asks) + 1 /\ asks'[Len(asks) + 1] = m
      /\ \A j \in 1 .. Len(asks) : asks'[j] = asks[j]
  BY <1>1, Appended DEF TypeOK
<1>4. \A i \in Nat : AskedBehind(i) => AskedBehind(i)'
  BY <1>3 DEF AskedBehind, ListFor
<1>5. \A i \in Nat : AnsweredBehind(i) => AnsweredBehind(i)'
  BY DEF AnsweredBehind, ListFor
<1>6. FromAccount'
  BY DEF FInv, FromAccount
<1>7. Overtaken => Overtaken'
  <2> SUFFICES ASSUME Overtaken PROVE Overtaken'
    OBVIOUS
  <2>1. ASSUME NEW i \in 1 .. Len(asks'), asks'[i].mine, Foreign(asks[i].account)'
        PROVE  AskedBehind(i)'
    <3>1. i \in 1 .. Len(asks) /\ asks'[i] = asks[i]
      BY <1>2, <1>3, <2>1 DEF Foreign
    <3>2. AskedBehind(i)
      BY <2>1, <3>1 DEF Overtaken, Foreign
    <3> QED BY <1>4, <3>1, <3>2
  <2>2. ASSUME NEW i \in 1 .. Len(answers'), Foreign(answers[i].account)'
        PROVE  AnsweredBehind(i)' \/ AskedBehind(0)'
    BY <1>4, <1>5, <2>2 DEF Overtaken, Foreign
  <2>3. Mine' = Mine
    BY DEF Mine
  <2>4. Range(appWorkList') \ Mine' # {} => AnsweredBehind(0)' \/ AskedBehind(0)'
    BY <1>4, <1>5, <2>3 DEF Overtaken
  <2> QED BY <2>1, <2>2, <2>4 DEF Overtaken
<1> QED BY <1>6, <1>7 DEF FInv

\* The server gives an account one more application.
LEMMA ForeignCreated ==
  ASSUME TypeOK, NEW b \in Account, AddApp(b)
  PROVE  /\ \A a \in Account : Range(apps[a]) \subseteq Range(apps'[a])
         /\ maxApp + 1 \in Range(apps'[b])
         /\ UNCHANGED loginAccount => Mine \subseteq Mine'
<1>1. maxApp + 1 \in AppId
  BY BoundAssumption DEF TypeOK, AddApp, AppId
<1>2. \A a \in Account : /\ apps[a] \in Seq(AppId)
                         /\ apps'[a] = IF a = b THEN Append(apps[a], maxApp + 1) ELSE apps[a]
  BY DEF AddApp, TypeOK
<1>3. Range(Append(apps[b], maxApp + 1)) = Range(apps[b]) \cup {maxApp + 1}
  BY <1>1, <1>2, RangeAppended
<1>4. \A a \in Account : Range(apps[a]) \subseteq Range(apps'[a])
  BY <1>2, <1>3
<1>5. maxApp + 1 \in Range(apps'[b])
  BY <1>2, <1>3
<1>6. UNCHANGED loginAccount => Mine \subseteq Mine'
  BY <1>4 DEF Mine, TypeOK
<1> QED BY <1>4, <1>5, <1>6
\* The first request is answered.
LEMMA ForeignAnswered ==
  ASSUME TypeOK, FInv, asks # <<>>, Head(asks).mine,
         NEW m \in Answer, m.cmd = Head(asks).cmd, m.account = Head(asks).account,
         asks' = Tail(asks), answers' = Append(answers, m),
         \A a \in Account : Range(apps[a]) \subseteq Range(apps'[a]), Mine \subseteq Mine',
         Range(m.list) \subseteq Range(apps'[m.account]),
         UNCHANGED <<loginAccount, appWorkList, untold>>
  PROVE  FInv'
<1>1. /\ Len(asks) \in Nat \ {0} /\ Len(asks') = Len(asks) - 1 /\ Head(asks) = asks[1]
      /\ \A j \in 1 .. Len(asks) - 1 : asks'[j] = asks[j + 1]
  BY Tailed DEF TypeOK
<1>2. /\ Len(answers) \in Nat /\ Len(answers') = Len(answers) + 1
      /\ answers'[Len(answers) + 1] = m
      /\ \A j \in 1 .. Len(answers) : answers'[j] = answers[j] /\ answers[j] \in Answer
  BY Appended, SMTT(20) DEF TypeOK
<1>3. FromAccount'
  <2>1. ASSUME NEW i \in 1 .. Len(answers) + 1
        PROVE  Range(answers'[i].list) \subseteq Range(apps'[answers'[i].account])
    <3>1. CASE i = Len(answers) + 1
      BY <1>2, <3>1
    <3>2. CASE i \in 1 .. Len(answers)
      <4>1. answers[i].account \in Account /\ answers'[i] = answers[i]
        BY <1>2, <3>2 DEF Answer
      <4>2. Range(answers[i].list) \subseteq Range(apps[answers[i].account])
        BY <3>2 DEF FInv, FromAccount
      <4> QED BY <4>1, <4>2
    <3>3. i = Len(answers) + 1 \/ i \in 1 .. Len(answers)
      BY <1>2
    <3> QED BY <3>1, <3>2, <3>3
  <2> QED BY <1>2, <2>1 DEF FromAccount
<1>4. \A i \in Nat : AskedBehind(i + 1) => AskedBehind(i)'
  <2> SUFFICES ASSUME NEW i \in Nat, AskedBehind(i + 1) PROVE AskedBehind(i)'
    OBVIOUS
  <2> PICK j \in 1 .. Len(asks) : j > i + 1 /\ asks[j].mine /\ ListFor(asks[j])
    BY DEF AskedBehind
  <2>1. j - 1 \in 1 .. Len(asks') /\ j - 1 > i /\ asks'[j - 1] = asks[(j - 1) + 1]
    BY <1>1
  <2>2. (j - 1) + 1 = j
    BY <1>1
  <2> QED BY <2>1, <2>2 DEF AskedBehind, ListFor
<1>5. \A i \in Nat : AnsweredBehind(i) => AnsweredBehind(i)'
  BY <1>2 DEF AnsweredBehind, ListFor
<1>6. ASSUME AskedBehind(0), NEW i \in 0 .. Len(answers)
      PROVE  AskedBehind(0)' \/ AnsweredBehind(i)'
  <2> PICK j \in 1 .. Len(asks) : j > 0 /\ asks[j].mine /\ ListFor(asks[j])
    BY <1>6 DEF AskedBehind
  <2>1. CASE j = 1
    <3>1. ListFor(m)'
      BY <1>1, <2>1 DEF ListFor
    <3>2. answers'[Len(answers) + 1] = m /\ Len(answers) + 1 \in 1 .. Len(answers')
          /\ Len(answers) + 1 > i
      BY <1>2
    <3> QED BY <3>1, <3>2 DEF AnsweredBehind, ListFor
  <2>2. CASE j # 1
    <3>1. j > 0 + 1
      BY <1>1, <2>2
    <3>2. AskedBehind(0 + 1)
      BY <3>1 DEF AskedBehind
    <3> QED BY <1>4, <3>2
  <2> QED BY <2>1, <2>2
<1>7. Overtaken => Overtaken'
  <2> SUFFICES ASSUME Overtaken PROVE Overtaken'
    OBVIOUS
  <2>1. ASSUME NEW i \in 1 .. Len(answers) + 1, Foreign(answers[i].account)'
        PROVE  AnsweredBehind(i)' \/ AskedBehind(0)'
    <3>1. CASE i = Len(answers) + 1
      <4>1. 1 \in 1 .. Len(asks) /\ asks[1].mine /\ Foreign(asks[1].account)
        BY <1>1, <1>2, <2>1, <3>1 DEF Foreign
      <4>2. AskedBehind(0 + 1)
        BY <4>1 DEF Overtaken
      <4> QED BY <1>4, <4>2
    <3>2. CASE i \in 1 .. Len(answers)
      <4>1. Foreign(answers[i].account)
        BY <1>2, <2>1, <3>2 DEF Foreign
      <4>2. AnsweredBehind(i) \/ AskedBehind(0)
        BY <3>2, <4>1 DEF Overtaken
      <4>3. i \in Nat /\ i \in 0 .. Len(answers)
        BY <1>2, <3>2
      <4> QED BY <1>5, <1>6, <4>2, <4>3
    <3>3. i = Len(answers) + 1 \/ i \in 1 .. Len(answers)
      BY <1>2
    <3> QED BY <3>1, <3>2, <3>3
  <2>2. ASSUME NEW i \in 1 .. Len(asks'), asks'[i].mine, Foreign(asks[i].account)'
        PROVE  AskedBehind(i)'
    <3>1. i \in Nat /\ i + 1 \in 1 .. Len(asks) /\ asks'[i] = asks[i + 1]
      BY <1>1
    <3>2. AskedBehind(i + 1)
      BY <2>2, <3>1 DEF Overtaken, Foreign
    <3> QED BY <1>4, <3>1, <3>2
  <2>3. Range(appWorkList') \ Mine' # {} => AnsweredBehind(0)' \/ AskedBehind(0)'
    <3>1. Range(appWorkList') \ Mine' # {} => AnsweredBehind(0) \/ AskedBehind(0)
      BY DEF Overtaken
    <3>2. 0 \in Nat /\ 0 \in 0 .. Len(answers)
      BY <1>2
    <3> QED BY <1>5, <1>6, <3>1, <3>2
  <2> QED BY <1>2, <2>1, <2>2, <2>3 DEF Overtaken
<1> QED BY <1>3, <1>7 DEF FInv

\* The first request vanishes without an answer: it was of a run before, or asked
\* for no list.
LEMMA ForeignUnanswered ==
  ASSUME TypeOK, FInv, asks # <<>>, ~Head(asks).mine \/ Head(asks).cmd # "app_list",
         asks' = Tail(asks), UNCHANGED answers,
         \A a \in Account : Range(apps[a]) \subseteq Range(apps'[a]), Mine \subseteq Mine',
         UNCHANGED <<loginAccount, appWorkList, untold>>
  PROVE  FInv'
<1>1. /\ Len(asks) \in Nat \ {0} /\ Len(asks') = Len(asks) - 1 /\ Head(asks) = asks[1]
      /\ \A j \in 1 .. Len(asks) - 1 : asks'[j] = asks[j + 1]
  BY Tailed DEF TypeOK
<1>2. FromAccount'
  <2>2. \A i \in 1 .. Len(answers) : answers[i] \in Answer
    BY DEF TypeOK
  <2>1. \A i \in 1 .. Len(answers) : answers[i].account \in Account
    BY <2>2 DEF Answer
  <2> QED BY <2>1 DEF FInv, FromAccount
<1>3. \A i \in Nat : AskedBehind(i + 1) => AskedBehind(i)'
  <2> SUFFICES ASSUME NEW i \in Nat, AskedBehind(i + 1) PROVE AskedBehind(i)'
    OBVIOUS
  <2> PICK j \in 1 .. Len(asks) : j > i + 1 /\ asks[j].mine /\ ListFor(asks[j])
    BY DEF AskedBehind
  <2>1. j - 1 \in 1 .. Len(asks') /\ j - 1 > i /\ asks'[j - 1] = asks[(j - 1) + 1]
    BY <1>1
  <2>2. (j - 1) + 1 = j
    BY <1>1
  <2> QED BY <2>1, <2>2 DEF AskedBehind, ListFor
<1>4. AskedBehind(0) => AskedBehind(0)'
  <2> SUFFICES ASSUME AskedBehind(0) PROVE AskedBehind(0 + 1)
    BY <1>3
  <2> PICK j \in 1 .. Len(asks) : j > 0 /\ asks[j].mine /\ ListFor(asks[j])
    BY DEF AskedBehind
  <2>1. j # 1
    BY <1>1 DEF ListFor
  <2> QED BY <1>1, <2>1 DEF AskedBehind
<1>5. \A i \in Nat : AnsweredBehind(i) => AnsweredBehind(i)'
  BY DEF AnsweredBehind, ListFor
<1>6. Overtaken => Overtaken'
  <2> SUFFICES ASSUME Overtaken PROVE Overtaken'
    OBVIOUS
  <2>1. ASSUME NEW i \in 1 .. Len(answers), Foreign(answers[i].account)'
        PROVE  AnsweredBehind(i)' \/ AskedBehind(0)'
    BY <1>4, <1>5, <2>1 DEF Overtaken, Foreign
  <2>2. ASSUME NEW i \in 1 .. Len(asks'), asks'[i].mine, Foreign(asks[i].account)'
        PROVE  AskedBehind(i)'
    <3>1. i \in Nat /\ i + 1 \in 1 .. Len(asks) /\ asks'[i] = asks[i + 1]
      BY <1>1
    <3>2. AskedBehind(i + 1)
      BY <2>2, <3>1 DEF Overtaken, Foreign
    <3> QED BY <1>3, <3>1, <3>2
  <2>3. Range(appWorkList') \ Mine' # {} => AnsweredBehind(0)' \/ AskedBehind(0)'
    BY <1>4, <1>5 DEF Overtaken
  <2> QED BY <2>1, <2>2, <2>3 DEF Overtaken
<1> QED BY <1>2, <1>6 DEF FInv

\* The app takes the first answer.
LEMMA ForeignTaken ==
  ASSUME TypeOK, FInv, parseCenterRecv
  PROVE  FInv'
<1> DEFINE msg == Head(answers)
<1> USE DEF serverVars, phoneVars, boundVars
<1>1. /\ Len(answers) \in Nat \ {0} /\ Len(answers') = Len(answers) - 1
      /\ msg = answers[1] /\ msg \in Answer
      /\ \A j \in 1 .. Len(answers) - 1 : answers'[j] = answers[j + 1]
  BY Tailed DEF TypeOK, parseCenterRecv
<1>2. msg.list \in Seq(AppId) /\ msg.account \in Account
      /\ Range(msg.list) \subseteq Range(apps[msg.account])
  BY <1>1, SMTT(30) DEF Answer, FInv, FromAccount
<1>3. UNCHANGED <<apps, asks, loginAccount>>
  BY DEF parseCenterRecv
<1>4. Mine' = Mine /\ (msg.account = loginAccount => Range(msg.list) \subseteq Mine)
  BY <1>2, <1>3, AccountAssumption DEF Mine
<1>5. FromAccount'
  <2>1. ASSUME NEW i \in 1 .. Len(answers')
        PROVE  Range(answers'[i].list) \subseteq Range(apps[answers'[i].account])
    <3>1. i + 1 \in 1 .. Len(answers) /\ answers'[i] = answers[i + 1]
      BY <1>1
    <3> QED BY <3>1 DEF FInv, FromAccount
  <2> QED BY <1>3, <2>1 DEF FromAccount
<1>6. CASE untold'
  BY <1>5, <1>6 DEF FInv
<1>7. CASE untold /\ ~untold'
  <2>1. InFlight = 1 /\ msg.account = loginAccount /\ appWorkList' = msg.list
    BY <1>7 DEF parseCenterRecv, TakeAppList, TakeNewApp
  <2>2. Len(asks) \in Nat
    BY DEF TypeOK
  <2>3. Len(asks') = 0 /\ Len(answers') = 0
    BY <1>1, <1>3, <2>1, <2>2 DEF InFlight
  <2>4. Range(appWorkList') \ Mine' = {}
    BY <1>4, <2>1
  <2> QED BY <1>5, <2>3, <2>4 DEF FInv, Overtaken
<1>8. CASE ~untold
  <2>1. Overtaken
    BY <1>8 DEF FInv
  <2>2. \A i \in Nat : AskedBehind(i) => AskedBehind(i)'
    BY <1>3 DEF AskedBehind, ListFor
  <2>3. \A i \in Nat : AnsweredBehind(i + 1) => AnsweredBehind(i)'
    <3> SUFFICES ASSUME NEW i \in Nat, AnsweredBehind(i + 1) PROVE AnsweredBehind(i)'
      OBVIOUS
    <3> PICK j \in 1 .. Len(answers) : j > i + 1 /\ ListFor(answers[j])
      BY DEF AnsweredBehind
    <3>1. j - 1 \in 1 .. Len(answers') /\ j - 1 > i /\ answers'[j - 1] = answers[(j - 1) + 1]
      BY <1>1
    <3>2. (j - 1) + 1 = j
      BY <1>1
    <3> QED BY <1>3, <3>1, <3>2 DEF AnsweredBehind, ListFor
  <2>4. ASSUME NEW i \in 1 .. Len(answers'), Foreign(answers[i].account)'
        PROVE  AnsweredBehind(i)' \/ AskedBehind(0)'
    <3>1. i \in Nat /\ i + 1 \in 1 .. Len(answers) /\ answers'[i] = answers[i + 1]
      BY <1>1
    <3>2. AnsweredBehind(i + 1) \/ AskedBehind(0)
      BY <1>3, <2>1, <2>4, <3>1 DEF Overtaken, Foreign
    <3> QED BY <2>2, <2>3, <3>1, <3>2
  <2>5. ASSUME NEW i \in 1 .. Len(asks'), asks'[i].mine, Foreign(asks[i].account)'
        PROVE  AskedBehind(i)'
    BY <1>3, <2>1, <2>2, <2>5 DEF Overtaken, Foreign
  <2>6. AnsweredBehind(0 + 1) \/ AskedBehind(0) => AnsweredBehind(0)' \/ AskedBehind(0)'
    BY <2>2, <2>3
  <2>7. ASSUME Range(appWorkList') \ Mine' # {}
        PROVE  AnsweredBehind(0 + 1) \/ AskedBehind(0)
    <3>1. CASE msg.account # loginAccount
      <4>1. 1 \in 1 .. Len(answers) /\ Foreign(answers[1].account)
        BY <1>1, <3>1 DEF Foreign
      <4> QED BY <2>1, <4>1 DEF Overtaken
    <3>2. CASE msg.account = loginAccount /\ msg.cmd = "app_list"
      <4>1. appWorkList' = msg.list
        BY <3>2 DEF parseCenterRecv, TakeAppList
      <4> QED BY <1>4, <2>7, <3>2, <4>1
    <3>3. CASE msg.account = loginAccount /\ msg.cmd = "new_app"
      <4>1. appWorkList' = appWorkList \o msg.list
        BY <3>3 DEF parseCenterRecv, TakeNewApp
      <4>2. Range(appWorkList') = Range(appWorkList) \cup Range(msg.list)
        BY <1>2, <4>1, RangeConcatenation DEF TypeOK
      <4>3. Range(appWorkList) \ Mine # {}
        BY <1>4, <2>7, <3>3, <4>2
      <4>4. AnsweredBehind(0) \/ AskedBehind(0)
        BY <2>1, <4>3 DEF Overtaken
      <4>5. ASSUME AnsweredBehind(0) PROVE AnsweredBehind(0 + 1)
        <5> PICK j \in 1 .. Len(answers) : j > 0 /\ ListFor(answers[j])
          BY <4>5 DEF AnsweredBehind
        <5>1. j # 1
          BY <1>1, <3>3 DEF ListFor
        <5> QED BY <1>1, <5>1 DEF AnsweredBehind
      <4> QED BY <4>4, <4>5
    <3>4. msg.cmd \in {"app_list", "new_app"}
      BY <1>1 DEF Answer
    <3> QED BY <3>1, <3>2, <3>3, <3>4
  <2> QED BY <1>5, <2>4, <2>5, <2>6, <2>7 DEF FInv, Overtaken
<1> QED BY <1>6, <1>7, <1>8

LEMMA ForeignInit == Init => FInv
<1> SUFFICES ASSUME Init PROVE FInv
  OBVIOUS
<1>1. /\ appWorkList = <<>> /\ answers = <<>> /\ asks = <<>>
      /\ Len(answers) = 0 /\ Len(asks) = 0
  BY DEF Init
<1> QED BY <1>1, EmptyRange DEF FInv, FromAccount, Overtaken

LEMMA ForeignNext == TInv /\ FInv /\ [Next]_vars => FInv'
<1> SUFFICES ASSUME TInv, FInv, [Next]_vars PROVE FInv'
  OBVIOUS
<1> USE DEF serverVars, phoneVars, centerVars, boundVars, historyVars
<1>0. TypeOK /\ LoginsAgree
  BY DEF TInv
<1>1. CASE UNCHANGED <<apps, answers, asks, loginAccount, appWorkList, untold>>
  BY <1>1 DEF FInv, FromAccount, Overtaken, Foreign, AnsweredBehind, AskedBehind, ListFor, Mine
<1>2. CASE LogOut \/ selectCurrApp \/ (\E a \in Account : Login(a)) \/ FirstAppFails
           \/ UNCHANGED vars
  BY <1>1, <1>2 DEF LogOut, selectCurrApp, Login, FirstAppFails, vars
<1>3. CASE readConfig
  <2>1. UNCHANGED <<apps, answers, appWorkList, untold>>
    BY <1>3 DEF readConfig
  <2>2. CASE saved # NoAccount /\ slotUpdateLoginAccount(saved)
    <3>1. saved \in Account
      BY <1>0, <2>2 DEF TypeOK
    <3> QED BY <1>0, <2>1, <2>2, <3>1, ForeignAsked DEF FInv, slotUpdateLoginAccount
  <2>3. CASE UNCHANGED <<loginAccount, asks>>
    BY <1>1, <2>1, <2>3
  <2> QED BY <1>3, <2>2, <2>3 DEF readConfig
<1>4. CASE parseAccountRecv
  <2>1. UNCHANGED <<apps, answers>> /\ slotUpdateLoginAccount(Head(logins))
    BY <1>4 DEF parseAccountRecv
  <2>2. Head(logins) \in Account
    BY <1>0, <1>4, Tailed DEF TypeOK, parseAccountRecv
  <2> QED BY <1>0, <2>1, <2>2, ForeignAsked DEF FInv, slotUpdateLoginAccount
<1>5. CASE slotCheckTimeout
  <2>1. loginAccount \in Account /\ Request("app_list", loginAccount)
    BY <1>0, <1>5 DEF TypeOK, slotCheckTimeout, requestAppList
  <2>2. UNCHANGED <<apps, answers, loginAccount, appWorkList, untold>>
    BY <1>5 DEF slotCheckTimeout
  <2> QED BY <1>0, <2>1, <2>2, ForeignAppended
<1>6. CASE requestNewApp
  <2>1. loginAccount \in Account /\ Request("new_app", loginAccount)
    BY <1>0, <1>6 DEF TypeOK, LoginsAgree, requestNewApp
  <2>2. UNCHANGED <<apps, answers, loginAccount, appWorkList, untold>>
    BY <1>6 DEF requestNewApp
  <2> QED BY <1>0, <2>1, <2>2, ForeignAppended
<1>7. CASE parseCenterRecv
  BY <1>0, <1>7, ForeignTaken
<1>8. CASE FirstApp
  <2>1. making \in Account /\ AddApp(making)
        /\ UNCHANGED <<answers, asks, loginAccount, appWorkList, untold>>
    BY <1>0, <1>8 DEF FirstApp, TypeOK
  <2>2. /\ \A a \in Account : Range(apps[a]) \subseteq Range(apps'[a])
        /\ Mine \subseteq Mine'
    BY <1>0, <2>1, ForeignCreated
  <2>6. \A i \in 1 .. Len(answers) : answers[i] \in Answer
    BY <1>0 DEF TypeOK
  <2>3. \A i \in 1 .. Len(answers) : answers[i].account \in Account
    BY <2>6 DEF Answer
  <2>4. FromAccount'
    BY <2>1, <2>2, <2>3 DEF FInv, FromAccount
  <2>5. Overtaken => Overtaken'
    BY <2>1, <2>2 DEF Overtaken, Foreign, AnsweredBehind, AskedBehind, ListFor
  <2> QED BY <2>1, <2>4, <2>5 DEF FInv
<1>9. CASE AnswerAppList
  <2> DEFINE ask == Head(asks)
             m == [cmd |-> ask.cmd, account |-> ask.account, list |-> apps[ask.account]]
  <2>1. ask \in Ask /\ asks # <<>> /\ asks' = Tail(asks)
        /\ UNCHANGED <<apps, loginAccount, appWorkList, untold>>
    BY <1>0, <1>9, Tailed DEF AnswerAppList, Reply, TypeOK
  <2>2. Mine' = Mine
    BY <2>1 DEF Mine
  <2>3. CASE ask.mine
    <3>1. answers' = Append(answers, m)
      BY <1>9, <2>3 DEF AnswerAppList, Reply
    <3>2. m \in Answer /\ m.list = apps[m.account] /\ m.cmd = ask.cmd /\ m.account = ask.account
      BY <1>0, <2>1 DEF Ask, Answer, TypeOK
    <3> HIDE DEF m
    <3> QED BY <1>0, <2>1, <2>2, <2>3, <3>1, <3>2, ForeignAnswered
  <2>4. CASE ~ask.mine
    <3>1. UNCHANGED answers
      BY <1>9, <2>4 DEF AnswerAppList, Reply
    <3> QED BY <1>0, <2>1, <2>2, <2>4, <3>1, ForeignUnanswered
  <2> QED BY <2>3, <2>4
<1>10. CASE AnswerNewApp
  <2> DEFINE ask == Head(asks)
             m == [cmd |-> ask.cmd, account |-> ask.account, list |-> <<maxApp + 1>>]
  <2>1. ask \in Ask /\ ask.cmd = "new_app" /\ asks # <<>> /\ asks' = Tail(asks)
        /\ UNCHANGED <<loginAccount, appWorkList, untold>>
    BY <1>0, <1>10, Tailed DEF AnswerNewApp, Reply, TypeOK
  <2>2. ask.account \in Account
    BY <2>1 DEF Ask
  <2>3. CASE AddApp(ask.account) /\ Reply(ask, <<maxApp + 1>>)
    <3>1. /\ \A a \in Account : Range(apps[a]) \subseteq Range(apps'[a])
          /\ maxApp + 1 \in Range(apps'[ask.account]) /\ Mine \subseteq Mine'
      BY <1>0, <2>1, <2>2, <2>3, ForeignCreated
    <3>2. CASE ask.mine
      <4>1. answers' = Append(answers, m)
        BY <2>3, <3>2 DEF Reply
      <4>2. maxApp + 1 \in AppId
        BY <1>0, <2>3, BoundAssumption DEF AddApp, AppId, TypeOK
      <4>3. /\ m.list = <<maxApp + 1>> /\ m \in Answer
            /\ m.cmd = ask.cmd /\ m.account = ask.account
        <5>1. <<maxApp + 1>> \in Seq(AppId)
          BY <4>2
        <5> QED BY <2>1, <5>1 DEF Ask, Answer
      <4>4. Range(<<maxApp + 1>>) = {maxApp + 1}
        BY DEF Range
      <4> HIDE DEF m
      <4> QED BY <1>0, <2>1, <3>1, <3>2, <4>1, <4>3, <4>4, ForeignAnswered
    <3>3. CASE ~ask.mine
      <4>1. UNCHANGED answers
        BY <2>3, <3>3 DEF Reply
      <4> QED BY <1>0, <2>1, <3>1, <4>1, ForeignUnanswered
    <3> QED BY <3>2, <3>3
  <2>4. CASE UNCHANGED <<apps, maxApp, answers>>
    <3>1. Mine' = Mine
      BY <2>1, <2>4 DEF Mine
    <3> QED BY <1>0, <2>1, <2>4, <3>1, ForeignUnanswered
  <2> QED BY <1>10, <2>3, <2>4 DEF AnswerNewApp
<1>11. CASE Lose
  <2>1. UNCHANGED <<apps, loginAccount, appWorkList>> /\ Mine' = Mine
    BY <1>11 DEF Lose, Mine
  <2>2. CASE asks # <<>> /\ asks' = Tail(asks) /\ UNCHANGED <<answers, logins>>
             /\ untold' = (untold \/ Head(asks).mine)
    <3>1. CASE Head(asks).mine
      <4>1. untold' /\ FromAccount'
        BY <2>1, <2>2, <3>1 DEF FInv, FromAccount
      <4> QED BY <4>1 DEF FInv
    <3>2. CASE ~Head(asks).mine
      <4>1. UNCHANGED untold
        BY <1>0, <2>2, <3>2 DEF TypeOK
      <4> QED BY <1>0, <2>1, <2>2, <3>2, <4>1, ForeignUnanswered
    <3> QED BY <3>1, <3>2
  <2>3. CASE answers # <<>> /\ answers' = Tail(answers) /\ untold' = TRUE
    <3>1. /\ Len(answers) \in Nat /\ Len(answers') = Len(answers) - 1
          /\ \A j \in 1 .. Len(answers) - 1 : answers'[j] = answers[j + 1]
      BY <1>0, <2>3, Tailed DEF TypeOK
    <3>2. \A i \in 1 .. Len(answers') : i + 1 \in 1 .. Len(answers) /\ answers'[i] = answers[i + 1]
      BY <3>1
    <3>3. FromAccount'
      BY <2>1, <3>2 DEF FInv, FromAccount
    <3> QED BY <2>3, <3>3 DEF FInv
  <2>4. CASE UNCHANGED <<asks, answers, untold>>
    BY <1>1, <2>1, <2>4
  <2> QED BY <1>11, <2>2, <2>3, <2>4 DEF Lose
<1>12. CASE Restart
  <2>1. appWorkList' = <<>> /\ answers' = <<>> /\ asks' = Abandoned(asks)
    BY <1>12 DEF Restart, Abandoned
  <2>2. Len(answers') = 0 /\ Range(appWorkList') = {}
    BY <2>1, EmptyRange
  <2>3. \A i \in 1 .. Len(asks') : ~asks'[i].mine
    BY <1>0, <2>1, AbandonedType DEF TypeOK
  <2> QED BY <2>2, <2>3 DEF FInv, FromAccount, Overtaken
<1> QED BY <1>2, <1>3, <1>4, <1>5, <1>6, <1>7, <1>8, <1>9, <1>10, <1>11, <1>12
        DEF Next, Serve

LEMMA ForeignExplained == TInv /\ FInv => ForeignHasReason
<1> SUFFICES ASSUME TInv, FInv, Range(appWorkList) \ Mine # {}, ~untold
             PROVE  ListOnTheWay
  BY DEF ForeignHasReason
<1>1. AnsweredBehind(0) \/ AskedBehind(0)
  BY DEF FInv, Overtaken
<1>2. DOMAIN asks = 1 .. Len(asks) /\ DOMAIN answers = 1 .. Len(answers)
  BY DEF TInv, TypeOK
<1> QED BY <1>1, <1>2 DEF AnsweredBehind, AskedBehind, ListFor, ListOnTheWay

\* The app lists an application of another account only while the list of the
\* present one is on its way, or after the loss of a message.
THEOREM ForeignOnlyUntold == Spec => []ForeignHasReason
<1>1. Init => TInv /\ FInv
  BY TypesInit, ForeignInit
<1>2. TInv /\ FInv /\ [Next]_vars => (TInv /\ FInv)'
  BY TypesNext, ForeignNext
<1>3. TInv /\ FInv => ForeignHasReason
  BY ForeignExplained
<1> QED BY <1>1, <1>2, <1>3, PTL DEF Spec
-----------------------------------------------------------------------------
(* The application worked with *)

CInv == (appWorkList # <<>> /\ ~newFirst) => currApp \in Range(appWorkList)

LEMMA CurrentInit == Init => CInv
BY DEF Init, CInv

LEMMA CurrentNext == TInv /\ CInv /\ [Next]_vars => CInv'
<1> SUFFICES ASSUME TInv, CInv, [Next]_vars PROVE CInv'
  OBVIOUS
<1> USE DEF serverVars, phoneVars, centerVars, boundVars, historyVars
<1>0. TypeOK
  BY DEF TInv
<1>1. CASE UNCHANGED <<appWorkList, currApp, newFirst>>
  BY <1>1 DEF CInv
<1>2. CASE readConfig \/ parseAccountRecv \/ LogOut \/ slotCheckTimeout \/ requestNewApp
           \/ (\E a \in Account : Login(a)) \/ FirstApp \/ FirstAppFails \/ Serve \/ Lose
           \/ UNCHANGED vars
  BY <1>1, <1>2 DEF readConfig, parseAccountRecv, LogOut, slotCheckTimeout, requestNewApp,
                    Login, FirstApp, FirstAppFails, Serve, AnswerAppList, AnswerNewApp, Lose,
                    vars
<1>3. CASE selectCurrApp
  BY <1>3 DEF selectCurrApp, CInv
<1>4. CASE Restart
  BY <1>4 DEF Restart, CInv
<1>5. CASE parseCenterRecv
  <2> DEFINE msg == Head(answers)
  <2>1. msg.list \in Seq(AppId) /\ appWorkList \in Seq(AppId)
    <3>1. msg \in Answer
      BY <1>0, <1>5, Tailed DEF TypeOK, parseCenterRecv
    <3> QED BY <1>0, <3>1 DEF Answer, TypeOK
  <2>2. CASE TakeAppList(msg.list)
    <3>1. CASE msg.list # <<>>
      <4>1. 1 \in DOMAIN msg.list /\ Head(msg.list) = msg.list[1]
        BY <2>1, <3>1, Tailed
      <4>2. Head(msg.list) \in Range(msg.list)
        BY <4>1 DEF Range
      <4> QED BY <2>2, <3>1, <4>2 DEF TakeAppList, CInv
    <3>2. CASE msg.list = <<>>
      BY <2>2, <3>2 DEF TakeAppList, CInv
    <3> QED BY <3>1, <3>2
  <2>3. CASE TakeNewApp(msg.list) /\ newFirst' = (newFirst \/ appWorkList = <<>>)
    <3>1. Range(appWorkList') = Range(appWorkList) \cup Range(msg.list)
      BY <2>1, <2>3, RangeConcatenation DEF TakeNewApp
    <3>2. CASE ~newFirst'
      BY <2>3, <3>1, <3>2 DEF TakeNewApp, CInv
    <3>3. CASE newFirst'
      BY <3>3 DEF CInv
    <3> QED BY <3>2, <3>3
  <2> QED BY <1>5, <2>2, <2>3 DEF parseCenterRecv
<1> QED BY <1>2, <1>3, <1>4, <1>5 DEF Next

\* A phone with a list works with one of its applications, and with one of its
\* own account, but for the reasons CurrentHasReason gives.
THEOREM CurrentListed == Spec => []CurrentHasReason
<1>1. Init => TInv /\ FInv /\ CInv
  BY TypesInit, ForeignInit, CurrentInit
<1>2. TInv /\ FInv /\ CInv /\ [Next]_vars => (TInv /\ FInv /\ CInv)'
  BY TypesNext, ForeignNext, CurrentNext
<1>3. TInv /\ FInv /\ CInv => CurrentHasReason
  <2> SUFFICES ASSUME TInv, FInv, CInv, appWorkList # <<>>, ~newFirst
               PROVE  /\ currApp \in Range(appWorkList)
                      /\ currApp \in Mine \/ ListOnTheWay \/ untold
    BY DEF CurrentHasReason
  <2>1. currApp \in Range(appWorkList)
    BY DEF CInv
  <2>2. (Range(appWorkList) \ Mine # {}) => ListOnTheWay \/ untold
    BY ForeignExplained DEF ForeignHasReason
  <2> QED BY <2>1, <2>2
<1> QED BY <1>1, <1>2, <1>3, PTL DEF Spec

-----------------------------------------------------------------------------
(* What the app's list lacks *)

\* Requests of a former run are in front of those of the present one, which has
\* received nothing before they are served.
Former ==
  \A i \in 1 .. Len(asks) : ~asks[i].mine =>
    /\ \A j \in 1 .. i - 1 : ~asks[j].mine
    /\ answers = <<>> /\ appWorkList = <<>>

Coming(x, i) == \E j \in 1 .. Len(answers) : j > i /\ x \in Range(answers[j].list)

\* A list on its way is the account's but for what was created after it, which
\* is behind it, for any account.
Whole ==
  \A i \in 1 .. Len(answers) :
    answers[i].cmd = "app_list" =>
      \/ answers[i].list = <<>> \/ answers[i].account \in overtaken
      \/ \A x \in Range(apps[answers[i].account]) : x \in Range(answers[i].list) \/ Coming(x, i)

\* The present account's list is on its way, or what the app's list lacks is.
Complete ==
  \/ untold \/ newFirst \/ loginAccount \in overtaken \/ appWorkList = <<>>
  \/ AskedBehind(0) \/ AnsweredBehind(0)
  \/ \A x \in Mine : x \in Range(appWorkList) \/ Coming(x, 0)

LEMMA FormerServed ==
  ASSUME TypeOK, Former, asks # <<>>, asks' = Tail(asks), UNCHANGED appWorkList,
         Head(asks).mine \/ UNCHANGED answers
  PROVE  Former'
<1>1. /\ Len(asks) \in Nat \ {0} /\ Len(asks') = Len(asks) - 1 /\ Head(asks) = asks[1]
      /\ \A j \in 1 .. Len(asks) - 1 : asks'[j] = asks[j + 1]
  BY Tailed DEF TypeOK
<1>2. ASSUME NEW i \in 1 .. Len(asks'), ~asks'[i].mine
      PROVE  /\ \A j \in 1 .. i - 1 : ~asks'[j].mine
             /\ answers' = <<>> /\ appWorkList' = <<>>
  <2>1. i + 1 \in 1 .. Len(asks) /\ ~asks[i + 1].mine
    BY <1>1, <1>2
  <2>2. /\ \A j \in 1 .. (i + 1) - 1 : ~asks[j].mine
        /\ answers = <<>> /\ appWorkList = <<>>
    BY <2>1 DEF Former
  <2>3. \A j \in 1 .. i - 1 : j + 1 \in 1 .. (i + 1) - 1 /\ asks'[j] = asks[j + 1]
    BY <1>1
  <2>4. ~asks[1].mine
    BY <1>1, <2>1, <2>2
  <2> QED BY <1>1, <2>2, <2>3, <2>4
<1> QED BY <1>2 DEF Former

LEMMA FormerAsked ==
  ASSUME TypeOK, Former, NEW cmd \in {"app_list", "new_app"}, NEW a \in Account,
         Request(cmd, a), UNCHANGED <<answers, appWorkList>>
  PROVE  Former'
<1>1. PICK m \in Ask : m.mine /\ asks' = Append(asks, m)
  <2>1. [cmd |-> cmd, account |-> a, mine |-> TRUE] \in Ask
    BY DEF Ask
  <2> QED BY <2>1 DEF Request
<1>2. /\ Len(asks) \in Nat /\ Len(asks') = Len(asks) + 1 /\ asks'[Len(asks) + 1] = m
      /\ \A j \in 1 .. Len(asks) : asks'[j] = asks[j]
  BY <1>1, Appended DEF TypeOK
<1>3. ASSUME NEW i \in 1 .. Len(asks'), ~asks'[i].mine
      PROVE  i \in 1 .. Len(asks) /\ asks'[i] = asks[i]
  BY <1>1, <1>2, <1>3
<1> QED BY <1>2, <1>3 DEF Former

LEMMA FormerNext == TInv /\ Former /\ [Next]_vars => Former'
<1> SUFFICES ASSUME TInv, Former, [Next]_vars PROVE Former'
  OBVIOUS
<1> USE DEF serverVars, phoneVars, centerVars, boundVars, historyVars
<1>0. TypeOK /\ LoginsAgree
  BY DEF TInv
<1>1. CASE UNCHANGED <<answers, asks, appWorkList>>
  BY <1>1 DEF Former
<1>2. CASE LogOut \/ selectCurrApp \/ (\E a \in Account : Login(a)) \/ FirstAppFails
           \/ FirstApp \/ UNCHANGED vars
  BY <1>1, <1>2 DEF LogOut, selectCurrApp, Login, FirstAppFails, FirstApp, vars
<1>3. CASE readConfig
  <2>1. CASE saved # NoAccount /\ slotUpdateLoginAccount(saved)
    BY <1>0, <1>3, <2>1, FormerAsked DEF readConfig, TypeOK, slotUpdateLoginAccount, requestAppList
  <2>2. CASE UNCHANGED asks
    BY <1>1, <1>3, <2>2 DEF readConfig
  <2> QED BY <1>3, <2>1, <2>2 DEF readConfig
<1>4. CASE parseAccountRecv
  <2>1. Head(logins) \in Account
    BY <1>0, <1>4, Tailed DEF TypeOK, parseAccountRecv
  <2> QED BY <1>0, <1>4, <2>1, FormerAsked
          DEF parseAccountRecv, slotUpdateLoginAccount, requestAppList
<1>5. CASE slotCheckTimeout
  BY <1>0, <1>5, FormerAsked DEF slotCheckTimeout, requestAppList, TypeOK
<1>6. CASE requestNewApp
  BY <1>0, <1>6, FormerAsked DEF requestNewApp, TypeOK, LoginsAgree
<1>7. CASE answers # <<>> /\ UNCHANGED asks
  BY <1>7 DEF Former
<1>8. CASE AnswerAppList
  BY <1>0, <1>8, FormerServed DEF AnswerAppList, Reply
<1>9. CASE AnswerNewApp
  BY <1>0, <1>9, FormerServed DEF AnswerNewApp, Reply
<1>10. CASE Lose
  <2>1. CASE asks # <<>> /\ asks' = Tail(asks) /\ UNCHANGED answers
    BY <1>0, <1>10, <2>1, FormerServed DEF Lose
  <2> QED BY <1>1, <1>7, <1>10, <2>1 DEF Lose
<1>11. CASE Restart
  <2>1. appWorkList' = <<>> /\ answers' = <<>> /\ asks' = Abandoned(asks)
    BY <1>11 DEF Restart, Abandoned
  <2>2. asks' \in Seq(Ask) /\ \A i \in 1 .. Len(asks') : ~asks'[i].mine
    <3>1. asks \in Seq(Ask)
      BY <1>0 DEF TypeOK
    <3> QED BY <2>1, <3>1, AbandonedType
  <2>3. \A i \in 1 .. Len(asks') : \A j \in 1 .. i - 1 : j \in 1 .. Len(asks')
    BY <2>2
  <2> QED BY <2>1, <2>2, <2>3 DEF Former
<1> QED BY <1>2, <1>3, <1>4, <1>5, <1>6, <1>7, <1>8, <1>9, <1>10, <1>11
        DEF Next, Serve, parseCenterRecv

LEMMA ListTypes ==
  ASSUME TypeOK
  PROVE  /\ \A a \in Account : \A x \in Range(apps[a]) : x \in Nat
         /\ \A i \in 1 .. Len(answers) : /\ answers[i].account \in Account
                                          /\ answers[i].list \in Seq(AppId)
<1>1. ASSUME NEW a \in Account, NEW x \in Range(apps[a]) PROVE x \in Nat
  <2>1. apps[a] \in Seq(AppId)
    BY DEF TypeOK
  <2>2. PICK j \in 1 .. Len(apps[a]) : x = apps[a][j]
    BY <2>1 DEF Range
  <2>3. apps[a][j] \in AppId
    BY <2>1
  <2> QED BY <2>2, <2>3, BoundAssumption DEF AppId
<1>2. \A i \in 1 .. Len(answers) : answers[i] \in Answer
  BY DEF TypeOK
<1> QED BY <1>1, <1>2 DEF Answer

\* The first answer is gone: those behind another one still are.
LEMMA ComingShortened ==
  ASSUME TypeOK, answers # <<>>, answers' = Tail(answers)
  PROVE  /\ \A i \in 1 .. Len(answers') : i + 1 \in 1 .. Len(answers) /\ answers'[i] = answers[i + 1]
         /\ \A x, i \in Nat : Coming(x, i + 1) => Coming(x, i)'
<1>1. /\ Len(answers) \in Nat \ {0} /\ Len(answers') = Len(answers) - 1
      /\ \A j \in 1 .. Len(answers) - 1 : answers'[j] = answers[j + 1]
  BY Tailed DEF TypeOK
<1>2. ASSUME NEW x \in Nat, NEW i \in Nat, Coming(x, i + 1) PROVE Coming(x, i)'
  <2>1. PICK j \in 1 .. Len(answers) : j > i + 1 /\ x \in Range(answers[j].list)
    BY <1>2 DEF Coming
  <2>2. j - 1 \in 1 .. Len(answers') /\ j - 1 > i /\ answers'[j - 1] = answers[j]
    BY <1>1, <2>1
  <2> QED BY <2>1, <2>2 DEF Coming
<1> QED BY <1>1, <1>2

LEMMA WholeShortened ==
  ASSUME TypeOK, Whole, answers # <<>>, answers' = Tail(answers), UNCHANGED <<apps, overtaken>>
  PROVE  Whole'
<1>1. /\ \A i \in 1 .. Len(answers') : i + 1 \in 1 .. Len(answers) /\ answers'[i] = answers[i + 1]
      /\ \A x, i \in Nat : Coming(x, i + 1) => Coming(x, i)'
  BY ComingShortened
<1>2. ASSUME NEW i \in 1 .. Len(answers'), answers'[i].cmd = "app_list",
             ~(answers'[i].list = <<>> \/ answers'[i].account \in overtaken)
      PROVE  \A x \in Range(apps[answers'[i].account]) :
               x \in Range(answers'[i].list) \/ Coming(x, i)'
  <2>2. \A x \in Range(apps[answers'[i].account]) : x \in Nat
    BY <1>1, ListTypes
  <2>3. \A x \in Range(apps[answers'[i].account]) :
          x \in Range(answers'[i].list) \/ Coming(x, i + 1)
    BY <1>1, <1>2 DEF Whole
  <2> QED BY <1>1, <2>2, <2>3
<1> QED BY <1>2 DEF Whole

\* An answer is put behind the others; what it adds to the account is in it.
LEMMA ComingAnswered ==
  ASSUME TypeOK, NEW m \in Answer, answers' = Append(answers, m)
  PROVE  /\ Len(answers') = Len(answers) + 1 /\ answers'[Len(answers) + 1] = m
         /\ \A i \in 1 .. Len(answers) : answers'[i] = answers[i]
         /\ \A x, i \in Nat : Coming(x, i) => Coming(x, i)'
         /\ \A x \in Range(m.list), i \in 0 .. Len(answers) : Coming(x, i)'
<1>1. /\ Len(answers) \in Nat /\ Len(answers') = Len(answers) + 1
      /\ answers'[Len(answers) + 1] = m
      /\ \A i \in 1 .. Len(answers) : answers'[i] = answers[i]
  BY Appended DEF TypeOK
<1> QED BY <1>1 DEF Coming

LEMMA WholeAnswered ==
  ASSUME TypeOK, Whole, NEW m \in Answer, answers' = Append(answers, m),
         m.cmd = "app_list" => m.list = apps'[m.account],
         \A a \in Account : Range(apps'[a]) \subseteq
                              Range(apps[a]) \cup (IF a = m.account THEN Range(m.list) ELSE {}),
         UNCHANGED overtaken
  PROVE  Whole'
<1>1. /\ Len(answers') = Len(answers) + 1 /\ answers'[Len(answers) + 1] = m
      /\ \A i \in 1 .. Len(answers) : answers'[i] = answers[i]
      /\ \A x, i \in Nat : Coming(x, i) => Coming(x, i)'
      /\ \A x \in Range(m.list), i \in 0 .. Len(answers) : Coming(x, i)'
  BY ComingAnswered
<1>2. Len(answers) \in Nat
  BY DEF TypeOK
<1>3. ASSUME NEW i \in 1 .. Len(answers), answers[i].cmd = "app_list",
             ~(answers[i].list = <<>> \/ answers[i].account \in overtaken),
             NEW x \in Range(apps'[answers[i].account])
      PROVE  x \in Range(answers[i].list) \/ Coming(x, i)'
  <2>1. answers[i].account \in Account
    BY ListTypes
  <2>2. CASE x \in Range(apps[answers[i].account])
    <3>1. x \in Range(answers[i].list) \/ Coming(x, i)
      BY <1>3, <2>2 DEF Whole
    <3>2. x \in Nat
      BY <2>1, <2>2, ListTypes
    <3> QED BY <1>1, <1>2, <3>1, <3>2
  <2>3. CASE x \in Range(m.list)
    BY <1>1, <1>2, <2>3
  <2> QED BY <1>3, <2>1, <2>2, <2>3
<1>4. ASSUME NEW i \in 1 .. Len(answers'), i \notin 1 .. Len(answers)
      PROVE  i = Len(answers) + 1
  BY <1>1, <1>2, <1>4
<1>5. ASSUME NEW i \in 1 .. Len(answers'), answers'[i].cmd = "app_list"
      PROVE  \/ answers'[i].list = <<>> \/ answers'[i].account \in overtaken
             \/ \A x \in Range(apps'[answers'[i].account]) :
                  x \in Range(answers'[i].list) \/ Coming(x, i)'
  <2>1. CASE i \in 1 .. Len(answers)
    BY <1>1, <1>3, <1>5, <2>1
  <2>2. CASE i \notin 1 .. Len(answers)
    BY <1>1, <1>4, <1>5, <2>2
  <2> QED BY <2>1, <2>2
<1> QED BY <1>5 DEF Whole

LEMMA WholeNext == TInv /\ FInv /\ Former /\ Whole /\ [Next]_vars => Whole'
<1> SUFFICES ASSUME TInv, FInv, Former, Whole, [Next]_vars PROVE Whole'
  OBVIOUS
<1> USE DEF serverVars, phoneVars, centerVars, boundVars, historyVars
<1>0. TypeOK /\ FromAccount
  BY DEF TInv, FInv
<1>1. CASE UNCHANGED <<answers, apps, overtaken>>
  BY <1>1 DEF Whole, Coming
<1>2. CASE readConfig \/ parseAccountRecv \/ LogOut \/ slotCheckTimeout \/ requestNewApp
           \/ selectCurrApp \/ (\E a \in Account : Login(a)) \/ FirstAppFails \/ UNCHANGED vars
  BY <1>1, <1>2 DEF readConfig, parseAccountRecv, LogOut, slotCheckTimeout, requestNewApp,
                    selectCurrApp, Login, FirstAppFails, vars
<1>3. CASE parseCenterRecv
  BY <1>0, <1>3, WholeShortened DEF parseCenterRecv
\* The first application of an account finds empty lists of it on their way.
<1>4. CASE FirstApp
  <2>1. making \in Account /\ apps[making] \in Seq(AppId)
    BY <1>0, <1>4 DEF FirstApp, TypeOK
  <2>2. /\ \A a \in Account \ {making} : apps'[a] = apps[a]
        /\ UNCHANGED answers /\ overtaken \subseteq overtaken'
        /\ apps[making] # <<>> => making \in overtaken'
    BY <1>0, <1>4 DEF FirstApp, AddApp, TypeOK
  <2>3. ASSUME NEW i \in 1 .. Len(answers), answers[i].cmd = "app_list"
        PROVE  \/ answers[i].list = <<>> \/ answers[i].account \in overtaken'
               \/ \A x \in Range(apps'[answers[i].account]) :
                    x \in Range(answers[i].list) \/ Coming(x, i)
    <3>1. answers[i].account \in Account /\ answers[i].list \in Seq(AppId)
      BY <1>0, ListTypes
    <3>2. CASE answers[i].account = making /\ apps[making] = <<>>
      <4>1. Range(answers[i].list) = {}
        BY <1>0, <3>2, EmptyRange DEF FromAccount
      <4>2. answers[i].list # <<>> => answers[i].list[1] \in Range(answers[i].list)
        BY <3>1, Tailed DEF Range
      <4> QED BY <4>1, <4>2
    <3>3. CASE answers[i].account = making /\ apps[making] # <<>>
      BY <2>2, <3>3
    <3>4. CASE answers[i].account # making
      BY <2>2, <2>3, <3>1, <3>4 DEF Whole
    <3> QED BY <3>2, <3>3, <3>4
  <2> QED BY <2>2, <2>3 DEF Whole, Coming
<1>5. CASE AnswerAppList
  <2> DEFINE ask == Head(asks)
             m == [cmd |-> ask.cmd, account |-> ask.account, list |-> apps[ask.account]]
  <2>1. ask \in Ask /\ UNCHANGED <<apps, overtaken>>
    BY <1>0, <1>5, Tailed DEF AnswerAppList, TypeOK
  <2>2. CASE ask.mine
    <3>1. answers' = Append(answers, m)
      BY <1>5, <2>2 DEF AnswerAppList, Reply
    <3>2. m \in Answer /\ m.list = apps[m.account]
      BY <1>0, <2>1 DEF Ask, Answer, TypeOK
    <3> HIDE DEF m
    <3> QED BY <1>0, <2>1, <3>1, <3>2, WholeAnswered
  <2>3. CASE ~ask.mine
    BY <1>1, <1>5, <2>3 DEF AnswerAppList, Reply
  <2> QED BY <2>2, <2>3
<1>6. CASE AnswerNewApp
  <2> DEFINE ask == Head(asks)
             m == [cmd |-> ask.cmd, account |-> ask.account, list |-> <<maxApp + 1>>]
  <2>1. ask \in Ask /\ ask.cmd = "new_app" /\ asks # <<>> /\ UNCHANGED overtaken
    BY <1>0, <1>6, Tailed DEF AnswerNewApp, TypeOK
  <2>2. ask.account \in Account
    BY <2>1 DEF Ask
  <2>3. CASE AddApp(ask.account) /\ Reply(ask, <<maxApp + 1>>) /\ ask.mine
    <3>1. answers' = Append(answers, m)
      BY <2>3 DEF Reply
    <3>2. maxApp + 1 \in AppId
      BY <1>0, <2>3, BoundAssumption DEF AddApp, AppId, TypeOK
    <3>3. m.list = <<maxApp + 1>> /\ m \in Answer /\ m.account = ask.account /\ m.cmd = "new_app"
      <4>1. <<maxApp + 1>> \in Seq(AppId)
        BY <3>2
      <4> QED BY <2>1, <4>1 DEF Ask, Answer
    <3>4. Range(<<maxApp + 1>>) = {maxApp + 1}
      BY DEF Range
    <3>5. /\ apps'[ask.account] = Append(apps[ask.account], maxApp + 1)
          /\ \A a \in Account \ {ask.account} : apps'[a] = apps[a]
          /\ apps[ask.account] \in Seq(AppId)
      BY <1>0, <2>2, <2>3 DEF AddApp, TypeOK
    <3>6. Range(apps'[ask.account]) = Range(apps[ask.account]) \cup {maxApp + 1}
      BY <3>2, <3>5, RangeAppended
    <3> HIDE DEF m
    <3>7. \A a \in Account : Range(apps'[a]) \subseteq
                               Range(apps[a]) \cup (IF a = m.account THEN Range(m.list) ELSE {})
      BY <3>3, <3>4, <3>5, <3>6
    <3> QED BY <1>0, <2>1, <3>1, <3>3, <3>7, WholeAnswered
  <2>4. CASE ~ask.mine
    <3>1. 1 \in 1 .. Len(asks) /\ asks[1] = ask
      BY <1>0, <2>1, Tailed DEF TypeOK
    <3>2. answers = <<>>
      BY <2>4, <3>1 DEF Former
    <3>3. answers' = <<>>
      BY <1>6, <2>4, <3>2 DEF AnswerNewApp, Reply
    <3>4. Len(answers') = 0
      BY <3>3
    <3> QED BY <3>4 DEF Whole
  <2>5. CASE UNCHANGED <<apps, answers>>
    BY <1>1, <2>1, <2>5
  <2> QED BY <1>6, <2>3, <2>4, <2>5 DEF AnswerNewApp
<1>7. CASE Lose
  <2>1. CASE answers # <<>> /\ answers' = Tail(answers)
    BY <1>0, <1>7, <2>1, WholeShortened DEF Lose
  <2> QED BY <1>1, <1>7, <2>1 DEF Lose
<1>8. CASE Restart
  <2>1. Len(answers') = 0
    BY <1>8 DEF Restart
  <2> QED BY <2>1 DEF Whole
<1> QED BY <1>2, <1>3, <1>4, <1>5, <1>6, <1>7, <1>8 DEF Next, Serve

\* A request for the list stays, unless it is the one served.
LEMMA AskedServed ==
  ASSUME TypeOK, asks # <<>>, asks' = Tail(asks), UNCHANGED loginAccount, AskedBehind(0),
         ~(Head(asks).mine /\ ListFor(Head(asks)))
  PROVE  AskedBehind(0)'
<1>1. /\ Len(asks) \in Nat \ {0} /\ Len(asks') = Len(asks) - 1 /\ Head(asks) = asks[1]
      /\ \A j \in 1 .. Len(asks) - 1 : asks'[j] = asks[j + 1]
  BY Tailed DEF TypeOK
<1>2. PICK j \in 1 .. Len(asks) : asks[j].mine /\ ListFor(asks[j])
  BY DEF AskedBehind
<1>3. j # 1
  BY <1>1, <1>2
<1>4. j - 1 \in 1 .. Len(asks') /\ j - 1 > 0 /\ asks'[j - 1] = asks[j]
  BY <1>1, <1>3
<1> QED BY <1>2, <1>4 DEF AskedBehind, ListFor

LEMMA CompleteNext == TInv /\ FInv /\ Former /\ Whole /\ Complete /\ [Next]_vars => Complete'
<1> SUFFICES ASSUME TInv, FInv, Former, Whole, Complete, [Next]_vars PROVE Complete'
  OBVIOUS
<1> USE DEF serverVars, phoneVars, centerVars, boundVars, historyVars
<1>0. TypeOK /\ LoginsAgree /\ FromAccount /\ (untold \/ Overtaken)
  BY DEF TInv, FInv
<1>1. CASE UNCHANGED <<answers, asks, apps, overtaken, loginAccount, appWorkList, untold, newFirst>>
  BY <1>1 DEF Complete, Coming, AskedBehind, AnsweredBehind, ListFor, Mine
<1>2. CASE LogOut \/ selectCurrApp \/ (\E a \in Account : Login(a)) \/ FirstAppFails
           \/ UNCHANGED vars
  BY <1>1, <1>2 DEF LogOut, selectCurrApp, Login, FirstAppFails, vars
\* A request is put behind the others.
<1>3. ASSUME NEW cmd \in {"app_list", "new_app"}, NEW a \in Account, Request(cmd, a)
      PROVE  /\ cmd = "app_list" /\ loginAccount' = a => AskedBehind(0)'
             /\ UNCHANGED loginAccount /\ AskedBehind(0) => AskedBehind(0)'
  <2>1. PICK m \in Ask : m = [cmd |-> cmd, account |-> a, mine |-> TRUE]
    BY DEF Ask
  <2>2. /\ Len(asks) \in Nat /\ Len(asks') = Len(asks) + 1 /\ asks'[Len(asks) + 1] = m
        /\ \A j \in 1 .. Len(asks) : asks'[j] = asks[j]
    BY <1>0, <1>3, <2>1, Appended DEF TypeOK, Request
  <2> QED BY <2>1, <2>2 DEF AskedBehind, ListFor
<1>4. CASE readConfig
  <2>1. CASE saved # NoAccount /\ slotUpdateLoginAccount(saved)
    BY <1>0, <1>3, <2>1 DEF slotUpdateLoginAccount, requestAppList, Complete, TypeOK
  <2>2. CASE UNCHANGED <<loginAccount, asks>>
    BY <1>1, <1>4, <2>2 DEF readConfig
  <2> QED BY <1>4, <2>1, <2>2 DEF readConfig
<1>5. CASE parseAccountRecv
  <2>1. Head(logins) \in Account
    BY <1>0, <1>5, Tailed DEF TypeOK, parseAccountRecv
  <2> QED BY <1>3, <1>5, <2>1
          DEF parseAccountRecv, slotUpdateLoginAccount, requestAppList, Complete
<1>6. CASE slotCheckTimeout
  BY <1>6 DEF slotCheckTimeout, Complete
<1>7. CASE requestNewApp
  <2>1. loginAccount \in Account /\ Request("new_app", loginAccount)
        /\ UNCHANGED <<answers, apps, overtaken, loginAccount, appWorkList, untold, newFirst>>
    BY <1>0, <1>7 DEF requestNewApp, TypeOK, LoginsAgree
  <2>2. AskedBehind(0) => AskedBehind(0)'
    BY <1>3, <2>1
  <2> QED BY <2>1, <2>2 DEF Complete, Coming, AnsweredBehind, ListFor, Mine
<1>8. CASE parseCenterRecv
  <2>1. PICK m \in Answer : m = Head(answers)
    BY <1>0, <1>8, Tailed DEF TypeOK, parseCenterRecv
  <2>2. /\ answers # <<>> /\ answers' = Tail(answers) /\ 1 \in 1 .. Len(answers) /\ answers[1] = m
        /\ UNCHANGED <<asks, apps, overtaken, loginAccount>>
    BY <1>0, <1>8, <2>1, Tailed DEF TypeOK, parseCenterRecv
  <2>3. /\ Len(answers) \in Nat /\ Len(answers') = Len(answers) - 1
        /\ \A i \in 1 .. Len(answers') : i + 1 \in 1 .. Len(answers) /\ answers'[i] = answers[i + 1]
        /\ \A j \in 1 .. Len(answers) : j > 1 => j - 1 \in 1 .. Len(answers')
                                                 /\ answers'[j - 1] = answers[j]
    BY <1>0, <2>2, Tailed DEF TypeOK
  <2>4. /\ \A x \in Nat : Coming(x, 1) => Coming(x, 0)'
        /\ AnsweredBehind(1) => AnsweredBehind(0)'
        /\ AskedBehind(0) => AskedBehind(0)'
    <3>1. \A x \in Nat : Coming(x, 0 + 1) => Coming(x, 0)'
      BY <1>0, <2>2, ComingShortened
    <3>2. ASSUME AnsweredBehind(1) PROVE AnsweredBehind(0)'
      <4>1. PICK j \in 1 .. Len(answers) : j > 1 /\ ListFor(answers[j])
        BY <3>2 DEF AnsweredBehind
      <4>2. j - 1 \in 1 .. Len(answers') /\ j - 1 > 0 /\ answers'[j - 1] = answers[j]
        BY <2>3, <4>1
      <4> QED BY <2>2, <4>1, <4>2 DEF AnsweredBehind, ListFor
    <3> QED BY <2>2, <3>1, <3>2 DEF AskedBehind, ListFor
  <2>5. Mine' = Mine /\ \A x \in Mine : x \in Nat
    BY <1>0, <2>2, ListTypes DEF Mine, TypeOK
  \* The list of the present account: what it lacks is behind it.
  <2>6. CASE m.cmd = "app_list" /\ m.account = loginAccount
    <3>1. appWorkList' = m.list /\ Mine = Range(apps[m.account])
      <4>1. loginAccount # NoAccount
        BY <2>6, AccountAssumption DEF Answer
      <4> QED BY <1>8, <2>1, <2>6, <4>1 DEF parseCenterRecv, TakeAppList, Mine
    <3>2. \/ m.list = <<>> \/ m.account \in overtaken
          \/ \A x \in Mine : x \in Range(m.list) \/ Coming(x, 1)
      BY <2>2, <2>6, <3>1 DEF Whole
    <3> QED BY <2>2, <2>4, <2>5, <2>6, <3>1, <3>2 DEF Complete
  \* That of another one has the present account's behind it.
  <2>7. CASE m.cmd = "app_list" /\ m.account # loginAccount
    <3>1. untold' = untold
      BY <1>0, <1>8, <2>1, <2>7 DEF parseCenterRecv, TypeOK
    <3>2. untold \/ AnsweredBehind(1) \/ AskedBehind(0)
      BY <1>0, <2>2, <2>7 DEF Overtaken, Foreign
    <3> QED BY <2>4, <3>1, <3>2 DEF Complete
  <2>8. CASE m.cmd = "new_app"
    <3>1. /\ untold' = untold /\ newFirst' = (newFirst \/ appWorkList = <<>>)
          /\ appWorkList' = appWorkList \o m.list
      BY <1>8, <2>1, <2>8 DEF parseCenterRecv, TakeNewApp
    <3>2. Range(appWorkList') = Range(appWorkList) \cup Range(m.list)
      <4>1. appWorkList \in Seq(AppId) /\ m.list \in Seq(AppId)
        BY <1>0 DEF TypeOK, Answer
      <4> QED BY <3>1, <4>1, RangeConcatenation
    <3>3. AnsweredBehind(0) => AnsweredBehind(1)
      BY <2>2, <2>3, <2>8 DEF AnsweredBehind, ListFor
    <3>4. \A x \in Mine : Coming(x, 0) => x \in Range(m.list) \/ Coming(x, 1)
      BY <2>2, <2>3 DEF Coming
    <3>5. (\A x \in Mine : x \in Range(appWorkList) \/ Coming(x, 0))
            => \A x \in Mine' : x \in Range(appWorkList') \/ Coming(x, 0)'
      BY <2>4, <2>5, <3>2, <3>4
    <3> QED BY <2>2, <2>4, <3>1, <3>3, <3>5 DEF Complete
  <2> QED BY <2>6, <2>7, <2>8 DEF Answer
\* The first application of the present account: before it, all that is listed is foreign.
<1>9. CASE FirstApp
  <2>1. /\ making \in Account /\ apps[making] \in Seq(AppId)
        /\ \A a \in Account \ {making} : apps'[a] = apps[a]
        /\ UNCHANGED <<answers, asks, loginAccount, appWorkList, untold, newFirst>>
        /\ overtaken \subseteq overtaken' /\ (apps[making] # <<>> => making \in overtaken')
    BY <1>0, <1>9 DEF FirstApp, AddApp, TypeOK
  <2>2. /\ AskedBehind(0)' <=> AskedBehind(0)
        /\ AnsweredBehind(0)' <=> AnsweredBehind(0)
    BY <2>1 DEF AskedBehind, AnsweredBehind, ListFor
  <2>3. CASE loginAccount # making
    <3>1. Mine' = Mine
      BY <1>0, <2>1, <2>3 DEF Mine, TypeOK
    <3> QED BY <2>1, <2>2, <3>1 DEF Complete, Coming
  <2>4. CASE loginAccount = making /\ apps[making] = <<>>
    <3>1. Mine = {}
      BY <2>4, EmptyRange DEF Mine
    <3>2. appWorkList # <<>> => appWorkList[1] \in Range(appWorkList)
      BY <1>0, Tailed DEF Range, TypeOK
    <3>3. untold \/ appWorkList = <<>> \/ AnsweredBehind(0) \/ AskedBehind(0)
      BY <1>0, <3>1, <3>2 DEF Overtaken
    <3> QED BY <2>1, <2>2, <3>3 DEF Complete
  <2>5. CASE loginAccount = making /\ apps[making] # <<>>
    BY <2>1, <2>5 DEF Complete
  <2> QED BY <2>3, <2>4, <2>5
\* A request is taken from the front, and nothing is answered.
<1>10. ASSUME asks # <<>>, asks' = Tail(asks),
              ~(Head(asks).mine /\ ListFor(Head(asks))),
              UNCHANGED <<answers, apps, overtaken, loginAccount, appWorkList, untold, newFirst>>
       PROVE  Complete'
  <2>1. AskedBehind(0) => AskedBehind(0)'
    BY <1>0, <1>10, AskedServed
  <2> QED BY <1>10, <2>1 DEF Complete, Coming, AnsweredBehind, ListFor, Mine
\* A request is answered, and what it added to the present account is in the answer.
<1>11. ASSUME asks # <<>>, asks' = Tail(asks), NEW m \in Answer, answers' = Append(answers, m),
              ListFor(Head(asks)) => ListFor(m),
              \A x \in Mine' : x \in Mine \/ x \in Range(m.list),
              UNCHANGED <<overtaken, loginAccount, appWorkList, untold, newFirst>>
       PROVE  Complete'
  <2>1. /\ Len(answers) \in Nat /\ Len(answers') = Len(answers) + 1
        /\ answers'[Len(answers) + 1] = m
        /\ \A i \in 1 .. Len(answers) : answers'[i] = answers[i]
        /\ \A x, i \in Nat : Coming(x, i) => Coming(x, i)'
        /\ \A x \in Range(m.list), i \in 0 .. Len(answers) : Coming(x, i)'
    <3>1. Len(answers) \in Nat
      BY <1>0 DEF TypeOK
    <3>2. \A i \in 1 .. Len(answers) : answers'[i] = answers[i]
      BY <1>0, <1>11, ComingAnswered
    <3>3. \A x, i \in Nat : Coming(x, i) => Coming(x, i)'
      BY <1>0, <1>11, ComingAnswered
    <3>4. \A x \in Range(m.list), i \in 0 .. Len(answers) : Coming(x, i)'
      BY <1>0, <1>11, ComingAnswered
    <3>5. Len(answers') = Len(answers) + 1 /\ answers'[Len(answers) + 1] = m
      BY <1>0, <1>11, ComingAnswered
    <3> QED BY <3>1, <3>2, <3>3, <3>4, <3>5
  <2>2. AnsweredBehind(0) \/ ListFor(m) => AnsweredBehind(0)'
    BY <1>11, <2>1 DEF AnsweredBehind, ListFor
  <2>3. AskedBehind(0) => AskedBehind(0)' \/ ListFor(m)
    BY <1>0, <1>11, AskedServed
  <2>4. (\A x \in Mine : x \in Range(appWorkList) \/ Coming(x, 0))
          => \A x \in Mine' : x \in Range(appWorkList') \/ Coming(x, 0)'
    <3>1. \A x \in Mine : x \in Nat
      BY <1>0, ListTypes DEF Mine, TypeOK
    <3>2. 0 \in 0 .. Len(answers)
      BY <2>1
    <3> QED BY <1>11, <2>1, <3>1, <3>2
  <2> QED BY <1>11, <2>2, <2>3, <2>4 DEF Complete
<1>12. CASE AnswerAppList
  <2> DEFINE ask == Head(asks)
             m == [cmd |-> ask.cmd, account |-> ask.account, list |-> apps[ask.account]]
  <2>1. ask \in Ask /\ asks # <<>> /\ asks' = Tail(asks)
        /\ UNCHANGED <<apps, overtaken, loginAccount, appWorkList, untold, newFirst>>
    BY <1>0, <1>12, Tailed DEF AnswerAppList, Reply, TypeOK
  <2>2. CASE ask.mine
    <3>1. answers' = Append(answers, m)
      BY <1>12, <2>2 DEF AnswerAppList, Reply
    <3>2. m \in Answer /\ m.cmd = ask.cmd /\ m.account = ask.account
      BY <1>0, <2>1 DEF Ask, Answer, TypeOK
    <3>3. Mine' = Mine
      BY <2>1 DEF Mine
    <3> HIDE DEF m
    <3> QED BY <1>11, <2>1, <3>1, <3>2, <3>3 DEF ListFor
  <2>3. CASE ~ask.mine
    BY <1>10, <1>12, <2>1, <2>3 DEF AnswerAppList, Reply
  <2> QED BY <2>2, <2>3
<1>13. CASE AnswerNewApp
  <2> DEFINE ask == Head(asks)
             m == [cmd |-> ask.cmd, account |-> ask.account, list |-> <<maxApp + 1>>]
  <2>1. /\ ask \in Ask /\ ask.cmd = "new_app" /\ asks # <<>> /\ asks' = Tail(asks)
        /\ UNCHANGED <<overtaken, loginAccount, appWorkList, untold, newFirst>>
    BY <1>0, <1>13, Tailed DEF AnswerNewApp, Reply, TypeOK
  <2>2. ask.account \in Account
    BY <2>1 DEF Ask
  <2>3. CASE AddApp(ask.account) /\ Reply(ask, <<maxApp + 1>>) /\ ask.mine
    <3>1. answers' = Append(answers, m)
      BY <2>3 DEF Reply
    <3>2. maxApp + 1 \in AppId
      BY <1>0, <2>3, BoundAssumption DEF AddApp, AppId, TypeOK
    <3>3. m.list = <<maxApp + 1>> /\ m \in Answer /\ m.account = ask.account /\ m.cmd = "new_app"
      <4>1. <<maxApp + 1>> \in Seq(AppId)
        BY <3>2
      <4> QED BY <2>1, <4>1 DEF Ask, Answer
    <3>4. Range(<<maxApp + 1>>) = {maxApp + 1}
      BY DEF Range
    <3>5. /\ apps'[ask.account] = Append(apps[ask.account], maxApp + 1)
          /\ \A a \in Account \ {ask.account} : apps'[a] = apps[a]
          /\ apps[ask.account] \in Seq(AppId)
      BY <1>0, <2>2, <2>3 DEF AddApp, TypeOK
    <3>6. Range(apps'[ask.account]) = Range(apps[ask.account]) \cup {maxApp + 1}
      BY <3>2, <3>5, RangeAppended
    <3> HIDE DEF m
    <3>7. \A x \in Mine' : x \in Mine \/ x \in Range(m.list)
      BY <1>0, <2>1, <3>3, <3>4, <3>5, <3>6 DEF Mine, TypeOK
    <3> QED BY <1>11, <2>1, <3>1, <3>3, <3>7 DEF ListFor
  \* A request of a former run: the present one has no list yet.
  <2>4. CASE ~ask.mine
    <3>1. 1 \in 1 .. Len(asks) /\ asks[1] = ask
      BY <1>0, <2>1, Tailed DEF TypeOK
    <3>2. appWorkList = <<>>
      BY <2>4, <3>1 DEF Former
    <3> QED BY <2>1, <3>2 DEF Complete
  <2>5. CASE UNCHANGED <<apps, maxApp, answers>>
    BY <1>10, <2>1, <2>5 DEF ListFor
  <2> QED BY <1>13, <2>3, <2>4, <2>5 DEF AnswerNewApp
<1>14. CASE Lose
  <2>1. CASE asks # <<>> /\ asks' = Tail(asks) /\ UNCHANGED answers
             /\ untold' = (untold \/ Head(asks).mine)
    <3>1. CASE untold'
      BY <3>1 DEF Complete
    <3>2. CASE ~untold'
      <4>1. ~Head(asks).mine /\ untold' = untold
        BY <1>0, <2>1, <3>2 DEF TypeOK
      <4> QED BY <1>10, <1>14, <2>1, <4>1 DEF Lose
    <3> QED BY <3>1, <3>2
  <2>2. CASE untold' = TRUE
    BY <2>2 DEF Complete
  <2>3. CASE UNCHANGED <<asks, answers, untold>>
    BY <1>1, <1>14, <2>3 DEF Lose
  <2> QED BY <1>14, <2>1, <2>2, <2>3 DEF Lose
<1>15. CASE Restart
  BY <1>15 DEF Restart, Complete
<1> QED BY <1>2, <1>4, <1>5, <1>6, <1>7, <1>8, <1>9, <1>12, <1>13, <1>14, <1>15
        DEF Next, Serve

\* An app that waits for nothing has the whole list of its account, but for a
\* message lost, a list that new_app began, or an overtaken first application.
THEOREM MissingHaveReason == Spec => []MissingHasReason
<1> DEFINE SInv == TInv /\ FInv /\ Former /\ Whole /\ Complete
<1>1. Init => SInv
  <2> SUFFICES ASSUME Init PROVE Former /\ Whole /\ Complete
    BY TypesInit, ForeignInit
  <2>1. Len(asks) = 0 /\ Len(answers) = 0 /\ appWorkList = <<>>
    BY DEF Init
  <2> QED BY <2>1 DEF Former, Whole, Complete
<1>2. SInv /\ [Next]_vars => SInv'
  BY TypesNext, ForeignNext, FormerNext, WholeNext, CompleteNext
<1>3. SInv => MissingHasReason
  <2> SUFFICES ASSUME Complete, appWorkList # <<>>, asks = <<>>, answers = <<>>,
                      ~(Mine \subseteq Range(appWorkList))
               PROVE  untold \/ newFirst \/ loginAccount \in overtaken
    BY DEF MissingHasReason
  <2>1. Len(asks) = 0 /\ Len(answers) = 0
    OBVIOUS
  <2>2. ~AskedBehind(0) /\ ~AnsweredBehind(0) /\ \A x : ~Coming(x, 0)
    BY <2>1 DEF AskedBehind, AnsweredBehind, Coming
  <2> QED BY <2>2 DEF Complete
<1> QED BY <1>1, <1>2, <1>3, PTL DEF Spec
=============================================================================
