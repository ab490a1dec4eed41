---------------------------- MODULE VerCodeList ----------------------------
(***************************************************************************)
(* m_reqVerCodeList: the verification codes AccountThread has given out.   *)
(*                                                                         *)
(* A phone has at most one code at a time.  Nothing consumes a code: it    *)
(* leaves the list only through the check that runs on every timeout of    *)
(* checkTimer, which drops one expired code per run at most.  Requests and *)
(* timeouts are events of one event loop, hence steps of their own.        *)
(*                                                                         *)
(* m_secCounts only grows and only differences of it are used, so an entry *)
(* carries its age m_secCounts - reqTime, in runs of the check, instead of *)
(* reqTime.  (The check runs every 500 ms: m_timerCounts, which should let *)
(* every second timeout pass, is never incremented.)                       *)
(***************************************************************************)
EXTENDS Naturals, Sequences, FiniteSets

CONSTANTS
  Phone,    \* phone numbers of the users
  Code,     \* the codes takeVerCode may draw
  Timeout   \* a code older than this many runs of the check is expired

ASSUME PhoneAssumption == IsFiniteSet(Phone)
ASSUME TimeoutAssumption == Timeout \in Nat

VARIABLE codes  \* m_reqVerCodeList, the entry asked for first in front

Entry == [phone : Phone, code : Code, age : Nat]

Listed(p) == \E i \in DOMAIN codes : codes[i].phone = p

ListInit == codes = << >>

\* mutant: no test for an entry of the phone
AddAgain(p) ==
  \E k \in Code : codes' = Append(codes, [phone |-> p, code |-> k, age |-> 0])

\* takeVerCode and addReqVerCodeNode for a phone that has no code yet.
addReqVerCodeNode(p) ==
  /\ ~Listed(p)
  /\ \E k \in Code : codes' = Append(codes, [phone |-> p, code |-> k, age |-> 0])

\* m_secCounts++ as the entries see it.
Aged == [i \in DOMAIN codes |-> [codes[i] EXCEPT !.age = @ + 1]]

Without(c, k) ==
  [i \in 1 .. Len(c) - 1 |-> IF i < k THEN c[i] ELSE c[i + 1]]

Expired(c) == {i \in DOMAIN c : c[i].age > Timeout}

\* mutant: goes through the list from the back
DropLast(c) ==
  IF Expired(c) = {} THEN c
  ELSE Without(c, CHOOSE i \in Expired(c) : \A j \in Expired(c) : i >= j)

\* The check goes through the list from the front, drops the first expired
\* entry it meets and returns.
checkReqVerCodeList(c) ==
  IF Expired(c) = {} THEN c
  ELSE Without(c, CHOOSE i \in Expired(c) : \A j \in Expired(c) : i <= j)

\* slotCheckTimeout.
Tick == codes' = checkReqVerCodeList(Aged)

\* mutant: a repeated request sets reqTime again
ReqVerCodeRenewing(p) ==
  \/ addReqVerCodeNode(p)
  \/ codes' = [i \in DOMAIN codes |->
                 IF codes[i].phone = p THEN [codes[i] EXCEPT !.age = 0] ELSE codes[i]]

\* parseVerCodeTopic, command req_vercode: a phone that has a code already is
\* told so, and the list stays as it is.
ReqVerCode(p) == addReqVerCodeNode(p) \/ (Listed(p) /\ UNCHANGED codes)

ListNext == Tick \/ \E p \in Phone : ReqVerCode(p)

\* A QTimer fires for as long as the event loop runs.
ListSpec == ListInit /\ [][ListNext]_codes /\ WF_codes(Tick)

-----------------------------------------------------------------------------
(* Properties *)

\* Every entry has its type.
ListTypeOK == codes \in Seq(Entry)

\* Whatever order requests and checks come in, a phone has one code at most:
\* a code that was sent is never shadowed by another one in front of it.
OneCodePerPhone ==
  \A i, j \in DOMAIN codes : codes[i].phone = codes[j].phone => i = j

\* Dropping one expired code per check delays the codes behind it by a check
\* each, so codes outlive Timeout by as many checks as there are phones with a
\* code, and by no more: from this age on a code opens nothing.
AgeBound ==
  \A i \in DOMAIN codes : codes[i].age < Timeout + Cardinality(Phone)

\* Codes lapse in the order they were asked for, one at a time, and none before
\* its time is over.
LapseInOrder ==
  [][ \A i \in DOMAIN codes :
        (\A j \in DOMAIN codes' : codes'[j].phone # codes[i].phone)
          => i = 1 /\ codes[i].age >= Timeout /\ Len(codes') = Len(codes) - 1
    ]_codes

\* A phone never keeps a code for good, however often it and the other phones
\* ask for one: at some time it can be given a new one.
CodeLapses == \A p \in Phone : Listed(p) ~> ~Listed(p)
=============================================================================
