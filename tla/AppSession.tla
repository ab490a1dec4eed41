----------------------------- MODULE AppSession -----------------------------
(***************************************************************************)
(* The session of the app: who is logged in, which applications the app    *)
(* lists and which one it works with.                                      *)
(*                                                                         *)
(* Two objects of the app keep the session.  AccountMan has the account    *)
(* the user sees and the file account.txt, from which a restarted app logs *)
(* in by itself; CenterMan has the account its requests carry, the list of *)
(* applications and, in app.txt, the application it works with.  CenterMan *)
(* learns of a log in by a signal, and is never told of a log out.  On the *)
(* server AccountThread answers the log in and CenterThread the commands   *)
(* app_list and new_app; an answer goes to the topic of the app's run, so  *)
(* a restarted app does not receive those of the run before.               *)
(*                                                                         *)
(* What travels for CenterMan is a FIFO of requests and one of answers,    *)
(* any of which may be lost: MQTT with QoS 0, and nothing is sent while    *)
(* the app is offline.  The answers of the two threads come in any order.  *)
(* Names of applications are left out, so renaming is; the creation of an  *)
(* application is the one step its caller sees (module AppCenter has the   *)
(* statements).                                                            *)
(*                                                                         *)
(* Bounds: MaxApp applications, MaxFlight requests and answers on the way, *)
(* MaxLost losses, MaxRestarts restarts.                                   *)
(***************************************************************************)
EXTENDS Naturals, Sequences, Functions

CONSTANTS Account, NoAccount, MaxApp, MaxFlight, MaxLost, MaxRestarts

ASSUME AccountAssumption == NoAccount \notin Account
ASSUME BoundAssumption ==
  /\ MaxApp \in Nat \ {0}
  /\ MaxFlight \in Nat \ {0}
  /\ MaxLost \in Nat
  /\ MaxRestarts \in Nat

VARIABLES
  apps,          \* the server's column app_list of every account
  maxApp,        \* what selectMaxAppID returns: the last application created
  making,        \* the account AccountThread has registered and answered, and
                 \* whose first application it is about to create
  registered,    \* accounts that have a row on the server
  account,       \* AccountMan: m_accountWork.account
  login_state,   \* AccountMan: whether the user sees the app logged in
  saved,         \* account.txt
  booted,        \* readConfig of AccountMan has run, two seconds after the start
  loginAccount,  \* CenterMan: m_loginAccount
  appWorkList,   \* CenterMan: m_appWorkList
  currApp,       \* CenterMan: m_currAppWork.appID, which app.txt keeps; 0: none
  logins,        \* answers to log ins on their way, by account
  asks,          \* requests on their way to CenterThread
  answers,       \* its answers on their way to the app
  lostCount,     \* messages lost so far
  restarts,      \* restarts so far
  untold,        \* history: a message of CenterMan was lost since the app last
                 \* took the list of its account and waited for nothing else
  newFirst,      \* history: the list began with a new_app answer
  overtaken      \* history: accounts whose first application was not the first

phoneVars == <<account, login_state, saved, booted>>
centerVars == <<loginAccount, appWorkList, currApp>>
serverVars == <<apps, maxApp, making, registered>>
historyVars == <<untold, newFirst, overtaken>>
boundVars == <<lostCount, restarts>>
vars == <<apps, maxApp, making, registered, account, login_state, saved, booted,
          loginAccount, appWorkList, currApp, logins, asks, answers, lostCount,
          restarts, untold, newFirst, overtaken>>

AppId == 1 .. MaxApp

\* rand_num and mac name the topic of the answer: "mine" says that it is the
\* topic of the present run.
Ask == [cmd : {"app_list", "new_app"}, account : Account, mine : BOOLEAN]

Answer == [cmd : {"app_list", "new_app"}, account : Account, list : Seq(AppId)]

Init ==
  /\ apps = [a \in Account |-> <<>>]
  /\ maxApp = 0
  /\ making = NoAccount
  /\ registered = {}
  /\ account = NoAccount
  /\ login_state = 0
  /\ saved = NoAccount
  /\ booted = FALSE
  /\ loginAccount = NoAccount
  /\ appWorkList = <<>>
  /\ currApp = 0
  /\ logins = <<>>
  /\ asks = <<>>
  /\ answers = <<>>
  /\ lostCount = 0
  /\ restarts = 0
  /\ untold = FALSE
  /\ newFirst = FALSE
  /\ overtaken = {}

InFlight == Len(asks) + Len(answers)

-----------------------------------------------------------------------------
(* AccountMan *)

\* CenterMan's requests carry the account it knows; bounded by MaxFlight.
Request(cmd, a) ==
  /\ InFlight < MaxFlight
  /\ asks' = Append(asks, [cmd |-> cmd, account |-> a, mine |-> TRUE])

\* requestAppList
requestAppList(a) == Request("app_list", a)

\* mutant: CenterMan takes the account and waits for the timer
UpdateWithoutAsking(a) ==
  /\ loginAccount' = a
  /\ UNCHANGED asks

\* slotUpdateLoginAccount with a state above 0; it is never emitted with 0.
slotUpdateLoginAccount(a) ==
  /\ loginAccount' = a
  /\ requestAppList(a)

\* setViewByLoginState(0), which also writes account.txt.
ClearAccount ==
  /\ login_state' = 0
  /\ account' = NoAccount
  /\ saved' = NoAccount

\* mutant: CenterMan is not told who logged in by itself
readConfigSilent ==
  /\ ~booted
  /\ booted' = TRUE
  /\ \/ /\ saved # NoAccount
        /\ account' = saved
        /\ login_state' = 1
        /\ UNCHANGED <<saved, loginAccount, asks>>
     \/ /\ ClearAccount
        /\ UNCHANGED <<loginAccount, asks>>
  /\ UNCHANGED <<serverVars, appWorkList, currApp, logins, answers, boundVars,
                 untold, newFirst, overtaken>>

\* The second tick of AccountMan: the account of account.txt is logged in
\* without asking the server when the file is younger than three days.
readConfig ==
  /\ ~booted
  /\ booted' = TRUE
  /\ \/ /\ saved # NoAccount
        /\ account' = saved
        /\ login_state' = 1
        /\ slotUpdateLoginAccount(saved)
        /\ UNCHANGED saved
     \/ /\ ClearAccount
        /\ UNCHANGED <<loginAccount, asks>>
  /\ UNCHANGED <<serverVars, appWorkList, currApp, logins, answers, boundVars,
                 untold, newFirst, overtaken>>

\* parseAccountRecv: a log in the server has granted, whenever it comes.
parseAccountRecv ==
  /\ logins # <<>>
  /\ LET a == Head(logins)
     IN /\ account' = a
        /\ login_state' = 1
        /\ saved' = a
        /\ slotUpdateLoginAccount(a)
  /\ logins' = Tail(logins)
  /\ UNCHANGED <<serverVars, booted, appWorkList, currApp, answers, boundVars,
                 untold, newFirst, overtaken>>

\* The user logs out, or asks for the log in view before he is logged in, even in
\* the two seconds before readConfig.  CenterMan keeps its account and its list.
LogOut ==
  /\ login_state = 1 \/ saved # NoAccount
  /\ ClearAccount
  /\ UNCHANGED <<serverVars, booted, centerVars, logins, asks, answers, boundVars,
                 historyVars>>

-----------------------------------------------------------------------------
(* CenterMan *)

\* mutant: asks only when the user asks
NeverRepeats == FALSE /\ UNCHANGED vars

\* slotCheckTimeout: every second, as long as there is an account and no list.
slotCheckTimeout ==
  /\ loginAccount # NoAccount
  /\ appWorkList = <<>>
  /\ requestAppList(loginAccount)
  /\ UNCHANGED <<serverVars, phoneVars, centerVars, logins, answers, boundVars,
                 historyVars>>

\* requestNewApp, from a dialog of the view for a logged in user.
requestNewApp ==
  /\ login_state = 1
  /\ Request("new_app", loginAccount)
  /\ UNCHANGED <<serverVars, phoneVars, centerVars, logins, answers, boundVars,
                 historyVars>>

\* selectCurrApp, from the list the view shows.
selectCurrApp ==
  /\ login_state = 1
  /\ \E app \in Range(appWorkList) \ {currApp} : currApp' = app
  /\ UNCHANGED <<serverVars, phoneVars, loginAccount, appWorkList, logins, asks,
                 answers, boundVars, historyVars>>

\* mutant: the old list is not cleared first
TakeAppListOnTop(list) ==
  /\ appWorkList' = appWorkList \o list
  /\ currApp' = IF currApp \notin Range(list) /\ list # <<>> THEN Head(list) ELSE currApp

\* mutant: the application of before stays whatever the list says
TakeAppListKeepsCurrent(list) ==
  /\ appWorkList' = list
  /\ currApp' = IF currApp = 0 /\ list # <<>> THEN Head(list) ELSE currApp

\* parseCenterRecv, app_list: the application of before stays if it is listed,
\* and also if the new list is empty.
TakeAppList(list) ==
  /\ appWorkList' = list
  /\ currApp' = IF currApp \notin Range(list) /\ list # <<>> THEN Head(list) ELSE currApp

\* mutant: the answer only shows a message
TakeNewAppForgets(list) == UNCHANGED <<appWorkList, currApp>>

\* parseCenterRecv, new_app: the application is added and not worked with.
TakeNewApp(list) ==
  /\ appWorkList' = appWorkList \o list
  /\ UNCHANGED currApp

\* parseCenterRecv: neither branch compares the account with m_loginAccount.
parseCenterRecv ==
  /\ answers # <<>>
  /\ answers' = Tail(answers)
  /\ LET msg == Head(answers)
     IN \/ /\ msg.cmd = "app_list"
           /\ TakeAppList(msg.list)
           /\ newFirst' = FALSE
           /\ untold' = (untold /\ ~(msg.account = loginAccount /\ InFlight = 1))
        \/ /\ msg.cmd = "new_app"
           /\ TakeNewApp(msg.list)
           /\ newFirst' = (newFirst \/ appWorkList = <<>>)
           /\ UNCHANGED untold
  /\ UNCHANGED <<serverVars, phoneVars, loginAccount, logins, asks, boundVars,
                 overtaken>>

-----------------------------------------------------------------------------
(* The server, the network and the phone *)

\* A user logs in with account a; by code, a phone seen for the first time is
\* registered and answered before its first application exists.
Login(a) ==
  /\ making = NoAccount
  /\ Len(logins) < 1
  /\ logins' = Append(logins, a)
  /\ registered' = registered \cup {a}
  /\ making' = IF a \in registered THEN NoAccount ELSE a
  /\ UNCHANGED <<apps, maxApp, phoneVars, centerVars, asks, answers, boundVars,
                 historyVars>>

\* The next id, appended to the column app_list of the account.
AddApp(a) ==
  /\ maxApp < MaxApp
  /\ maxApp' = maxApp + 1
  /\ apps' = [apps EXCEPT ![a] = Append(@, maxApp + 1)]

\* AccountThread after its answer: addAppIDToList.
FirstApp ==
  /\ making # NoAccount
  /\ AddApp(making)
  /\ overtaken' = IF apps[making] = <<>> THEN overtaken ELSE overtaken \cup {making}
  /\ making' = NoAccount
  /\ UNCHANGED <<registered, phoneVars, centerVars, logins, asks, answers, boundVars,
                 untold, newFirst>>

\* The same, and the statements failed, which AccountThread ignores.
FirstAppFails ==
  /\ making # NoAccount
  /\ making' = NoAccount
  /\ UNCHANGED <<apps, maxApp, registered, phoneVars, centerVars, logins, asks, answers,
                 boundVars, historyVars>>

Reply(ask, list) ==
  /\ asks' = Tail(asks)
  /\ answers' = IF ask.mine
                  THEN Append(answers, [cmd |-> ask.cmd, account |-> ask.account,
                                        list |-> list])
                  ELSE answers

\* parseAppTopic of CenterThread, app_list.
AnswerAppList ==
  /\ asks # <<>> /\ Head(asks).cmd = "app_list"
  /\ Reply(Head(asks), apps[Head(asks).account])
  /\ UNCHANGED <<serverVars, phoneVars, centerVars, logins, boundVars, historyVars>>

\* parseAppTopic of CenterThread, new_app.  A refusal (the account is at its
\* limit, here MaxApp) is answered with a result the app takes nothing from.
AnswerNewApp ==
  /\ asks # <<>> /\ Head(asks).cmd = "new_app"
  /\ \/ /\ AddApp(Head(asks).account)
        /\ Reply(Head(asks), <<maxApp + 1>>)
     \/ /\ asks' = Tail(asks)
        /\ UNCHANGED <<apps, maxApp, answers>>
  /\ UNCHANGED <<making, registered, phoneVars, centerVars, logins, boundVars,
                 historyVars>>

\* A request or an answer is lost, or the app was offline.
Lose ==
  /\ lostCount < MaxLost
  /\ lostCount' = lostCount + 1
  /\ \/ /\ asks # <<>>
        /\ asks' = Tail(asks)
        /\ UNCHANGED <<answers, logins>>
        /\ untold' = (untold \/ Head(asks).mine)
     \/ /\ answers # <<>>
        /\ answers' = Tail(answers)
        /\ UNCHANGED <<asks, logins>>
        /\ untold' = TRUE
     \/ /\ logins # <<>>
        /\ logins' = Tail(logins)
        /\ UNCHANGED <<asks, answers, untold>>
  /\ UNCHANGED <<serverVars, phoneVars, centerVars, restarts, newFirst, overtaken>>

\* The app is closed or killed and started again: the constructors.
Restart ==
  /\ restarts < MaxRestarts
  /\ restarts' = restarts + 1
  /\ account' = NoAccount
  /\ login_state' = 0
  /\ booted' = FALSE
  /\ loginAccount' = NoAccount
  /\ appWorkList' = <<>>
  /\ logins' = <<>>
  /\ answers' = <<>>
  /\ asks' = [i \in DOMAIN asks |-> [asks[i] EXCEPT !.mine = FALSE]]
  /\ untold' = FALSE
  /\ newFirst' = FALSE
  /\ UNCHANGED <<serverVars, saved, currApp, lostCount, overtaken>>

Serve == AnswerAppList \/ AnswerNewApp

Next ==
  \/ readConfig \/ parseAccountRecv \/ LogOut
  \/ slotCheckTimeout \/ requestNewApp \/ selectCurrApp \/ parseCenterRecv
  \/ \E a \in Account : Login(a)
  \/ FirstApp \/ FirstAppFails
  \/ Serve
  \/ Lose \/ Restart

\* The timer of CenterMan, the event loops of app and server, and the broker
\* keep going; nobody makes the user act.  The fairness of the timer is strong
\* because MaxFlight, a bound of the model alone, must not let the requests of
\* the user keep those of the timer out.
Fairness ==
  /\ SF_vars(slotCheckTimeout)
  /\ WF_vars(parseCenterRecv)
  /\ WF_vars(Serve)

Spec == Init /\ [][Next]_vars /\ Fairness

-----------------------------------------------------------------------------
(* Properties *)

\* Every variable has its type.
TypeOK ==
  /\ apps \in [Account -> Seq(AppId)]
  /\ maxApp \in 0 .. MaxApp
  /\ making \in registered \cup {NoAccount}
  /\ registered \subseteq Account
  /\ account \in Account \cup {NoAccount}
  /\ saved \in Account \cup {NoAccount}
  /\ loginAccount \in Account \cup {NoAccount}
  /\ login_state \in 0 .. 1
  /\ booted \in BOOLEAN
  /\ appWorkList \in Seq(AppId)
  /\ currApp \in 0 .. MaxApp
  /\ logins \in Seq(Account)
  /\ asks \in Seq(Ask)
  /\ answers \in Seq(Answer)
  /\ lostCount \in 0 .. MaxLost
  /\ restarts \in 0 .. MaxRestarts
  /\ untold \in BOOLEAN /\ newFirst \in BOOLEAN
  /\ overtaken \subseteq Account

\* The two objects agree: while the user is logged in, CenterMan asks in the
\* name of the account the user sees, and the restarted app logs in with the
\* same one; that CenterMan keeps an account after a log out is the exception.
LoginsAgree ==
  /\ login_state = 1 => account = loginAccount /\ account # NoAccount
  /\ booted => saved = account

\* The app lists each application once, although new_app adds to a list that an
\* app_list on its way is about to replace.
NoDoubles ==
  \A i, j \in DOMAIN appWorkList : appWorkList[i] = appWorkList[j] => i = j

Mine == IF loginAccount = NoAccount THEN {} ELSE Range(apps[loginAccount])

\* The list asked for at the log in is still to come.
ListOnTheWay ==
  \/ \E i \in DOMAIN asks : asks[i].mine /\ asks[i].cmd = "app_list"
  \/ \E i \in DOMAIN answers : answers[i].cmd = "app_list"

\* An application of another account is listed only because the user has
\* changed the account and the new list is on its way, or a message was lost,
\* after which nothing asks again, as a list there is.  An answer for the former
\* account that comes late is taken, as nothing compares it with m_loginAccount,
\* but it never stays: the answer for the new account is behind it.
ForeignHasReason ==
  (Range(appWorkList) \ Mine # {}) => ListOnTheWay \/ untold

\* The application worked with is listed and the account's own.  A list begun
\* by new_app, which selects nothing and stops the asking, is the exception to
\* the first; what explains a foreign list is the exception to the second.
\* With an empty list anything goes: the application of the account before
\* stays, even in app.txt.
CurrentHasReason ==
  (appWorkList # <<>> /\ ~newFirst) =>
    /\ currApp \in Range(appWorkList)
    /\ currApp \in Mine \/ ListOnTheWay \/ untold

\* An app that waits for nothing and has a list has all of it, but for a lost
\* message, a list new_app began, or a first application the server made after
\* another one.
MissingHasReason ==
  (appWorkList # <<>> /\ asks = <<>> /\ answers = <<>> /\ ~(Mine \subseteq Range(appWorkList)))
    => untold \/ newFirst \/ loginAccount \in overtaken

\* An account that has applications is shown some, whatever was lost and
\* however late the server made the first: as long as the list is empty, the
\* app asks again.
EventuallyListed ==
  \A a \in Account :
    (loginAccount = a /\ apps[a] # <<>> /\ appWorkList = <<>>)
      ~> (appWorkList # <<>> \/ loginAccount # a)
=============================================================================
