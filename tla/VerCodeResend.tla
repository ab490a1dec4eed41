--------------------------- MODULE VerCodeResend ---------------------------
(***************************************************************************)
(* The button of VerCodeView, which asks for a verification code, against  *)
(* the list of codes of the server.                                        *)
(*                                                                         *)
(* The application makes three of these views, for logging in, registering *)
(* and forgotten passwords.  Each has a countdown of its own, which is not *)
(* tied to the number typed above it and is gone when the application is   *)
(* started again; the views of all the phones in use are the set View.     *)
(*                                                                         *)
(* The button is locked for Countdown seconds after it was pressed; the    *)
(* server refuses a second request until the check of its list, which runs *)
(* every half second, has dropped the first code.  No two of the clocks    *)
(* know each other: ahead[v] counts the checks minus twice the seconds of  *)
(* the view v, and stays within -1 .. 2, so that between two seconds of a  *)
(* view there are one to three checks, two on average.                     *)
(*                                                                         *)
(* A request is published with QoS 0: it is lost or it arrives; one that   *)
(* arrives does so before the next check.                                  *)
(***************************************************************************)
EXTENDS VerCodeList, Integers

CONSTANTS
  View,      \* the VerCodeViews of all the phones
  Countdown  \* timeValue after the button was pressed

ASSUME CountdownAssumption == Countdown \in Nat \ {0}

\* There are not so many phones that their codes fill a second countdown: no
\* more than 57 for the 60 checks and 30 seconds of the code.  One more, and
\* a view may ask a third time for the same code.
FewPhones == Timeout + Cardinality(Phone) <= 4 * Countdown - 3

VARIABLES
  timeValue,  \* seconds until the button of the view is unlocked
  ahead,      \* half seconds by which the server's clock is ahead of the view's
  asked       \* the view's requests for the code the phone was given last

resendVars == <<codes, timeValue, ahead, asked>>

ResendInit ==
  /\ ListInit
  /\ timeValue = [v \in View |-> 0]
  /\ ahead = [v \in View |-> 0]
  /\ asked = [v \in View |-> [p \in Phone |-> 0]]

\* The server has answered the view v: with a new code for p, which nobody has
\* asked for before, or with "sent already".
Answered(v, p) ==
  asked' = [w \in View |->
              [asked[w] EXCEPT ![p] = (IF Listed(p) THEN @ ELSE 0) + (IF w = v THEN 1 ELSE 0)]]

\* onSiqClickedLeft, the request is lost on the way.
PressLost(v) ==
  /\ timeValue[v] = 0
  /\ timeValue' = [timeValue EXCEPT ![v] = Countdown]
  /\ UNCHANGED <<codes, ahead, asked>>

\* mutant: the button stays unlocked
PressNotLocking(v, p) ==
  /\ timeValue[v] = 0
  /\ ReqVerCode(p)
  /\ Answered(v, p)
  /\ UNCHANGED <<timeValue, ahead>>

\* onSiqClickedLeft with the number p, the server answers the request.
Press(v, p) ==
  /\ timeValue[v] = 0
  /\ timeValue' = [timeValue EXCEPT ![v] = Countdown]
  /\ ReqVerCode(p)
  /\ Answered(v, p)
  /\ UNCHANGED ahead

\* The Timer of the button.
Second(v) ==
  /\ ahead[v] >= 1
  /\ ahead' = [ahead EXCEPT ![v] = @ - 2]
  /\ timeValue' = [timeValue EXCEPT ![v] = IF @ > 0 THEN @ - 1 ELSE 0]
  /\ UNCHANGED <<codes, asked>>

\* The application is started again: a view with an unlocked button and a Timer
\* that has just started.
ShowAnew(v) ==
  /\ timeValue' = [timeValue EXCEPT ![v] = 0]
  /\ \E a \in -1 .. 2 : ahead' = [ahead EXCEPT ![v] = a]
  /\ asked' = [asked EXCEPT ![v] = [p \in Phone |-> 0]]
  /\ UNCHANGED codes

\* slotCheckTimeout of the server.
HalfSecond ==
  /\ \A v \in View : ahead[v] < 2
  /\ Tick
  /\ ahead' = [v \in View |-> ahead[v] + 1]
  /\ UNCHANGED <<timeValue, asked>>

ResendNext ==
  \/ \E v \in View : PressLost(v) \/ Second(v) \/ ShowAnew(v) \/ (\E p \in Phone : Press(v, p))
  \/ HalfSecond

ResendSpec == ResendInit /\ [][ResendNext]_resendVars

-----------------------------------------------------------------------------
(* Properties *)

\* Every variable has its type, and the clocks drift no further than assumed.
ResendTypeOK ==
  /\ ListTypeOK
  /\ timeValue \in [View -> 0 .. Countdown]
  /\ ahead \in [View -> -1 .. 2]
  /\ asked \in [View -> [Phone -> Nat]]

\* However the numbers typed and the views change, whatever the other phones
\* ask for and however the clocks drift, no view asks a third time for the same
\* code: the view that was given the code is refused once at most before it
\* gets the next, a view that finds the code given to another one twice.  The
\* backlog of expired codes does not outlast a second countdown.  (Each view
\* counts for itself, and from its start.)
AskedTwiceAtMost == \A v \in View, p \in Phone : asked[v][p] <= 2
=============================================================================
