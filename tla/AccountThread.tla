--------------------------- MODULE AccountThread ---------------------------
(***************************************************************************)
(* The account thread of the app server: verification codes, registration, *)
(* log in and passwords.                                                   *)
(*                                                                         *)
(* The thread serves one message after the other from its event loop and   *)
(* is the only one to write the names, phones and passwords of             *)
(* account_list_tb, so a handler is one step here; what a handler does to  *)
(* the applications is the business of AppCenter.  Within a handler each   *)
(* SQL statement may fail; "fail" is the set of those that do.             *)
(*                                                                         *)
(* Requests are those the app can send: names that are not numbers and     *)
(* passwords that are not empty.  Replies that are lost change nothing     *)
(* here.                                                                   *)
(***************************************************************************)
EXTENDS VerCodeList

CONSTANTS
  Name,           \* names of accounts
  Generated,      \* the name "Y"+phone that login_code gives a new phone
  Password,
  LongPassword,   \* passwords that do not fit the 50 bytes they are encrypted to
  NoCode,         \* the code of a phone without one
  NoPassword,     \* no password has been confirmed
  MaxFaults       \* how many statements may fail

ASSUME GeneratedAssumption ==
  /\ Generated \in [Phone -> Name]
  /\ \A p, q \in Phone : Generated[p] = Generated[q] => p = q
ASSUME PasswordAssumption ==
  LongPassword \subseteq Password /\ NoPassword \notin Password
ASSUME NoCodeAssumption == NoCode \notin Code
ASSUME MaxFaultsAssumption == MaxFaults \in Nat

VARIABLES
  accountTb,   \* the rows of account_list_tb
  told,        \* history: the password the server last confirmed to an account
  unsure,      \* history: accounts whose password was changed but not confirmed
  turnedAway,  \* history: phones whose right code opened nothing, no fault in it
  faults

vars == <<codes, accountTb, told, unsure, turnedAway, faults>>

Row == [name : Name, phone : Phone, pwd : Password]

Named(n) == {r \in accountTb : r.name = n}

WithPhone(p) == {r \in accountTb : r.phone = p}

\* mutant: takes the first entry, whatever its phone
CodeOfFront(p) == IF codes = << >> THEN NoCode ELSE codes[1].code

\* The code of the entry the loops over m_reqVerCodeList find for a phone.
CodeOf(p) ==
  IF Listed(p) THEN codes[CHOOSE i \in DOMAIN codes : codes[i].phone = p].code
  ELSE NoCode

Init ==
  /\ ListInit
  /\ accountTb = {}
  /\ told = [n \in Name |-> NoPassword]
  /\ unsure = {}
  /\ turnedAway = {}
  /\ faults = 0

Failing(fail) ==
  /\ faults' = faults + Cardinality(fail)
  /\ faults' <= MaxFaults

-----------------------------------------------------------------------------
(* Statements of AccountSqlite *)

\* mutant: the columns are not UNIQUE
AddableUnchecked(n, pw, p) == pw \notin LongPassword

\* addAccountNode goes through: the password can be encrypted, and both UNIQUE
\* columns accept the row.
Addable(n, pw, p) ==
  pw \notin LongPassword /\ Named(n) = {} /\ WithPhone(p) = {}

addAccountNode(n, pw, p) ==
  accountTb' = accountTb \cup {[name |-> n, phone |-> p, pwd |-> pw]}

\* updateAccountPassWord.
updateAccountPassWord(n, pw) ==
  accountTb' = {IF r.name = n THEN [r EXCEPT !.pwd = pw] ELSE r : r \in accountTb}

-----------------------------------------------------------------------------
(* Requests *)

(***************************************************************************)
(* req_reg.  The two searches must find nothing, the code must be the one  *)
(* the phone was given; a search that fails finds nothing.                 *)
(***************************************************************************)
req_reg(n, pw, p, k) ==
  \E fail \in SUBSET {"name", "phone", "insert"} :
    LET inserts == /\ "name" \in fail \/ Named(n) = {}
                   /\ "phone" \in fail \/ WithPhone(p) = {}
                   /\ CodeOf(p) = k
    IN /\ Failing(fail)
       /\ "insert" \in fail => inserts
       /\ IF inserts /\ "insert" \notin fail /\ Addable(n, pw, p)
            THEN addAccountNode(n, pw, p) /\ told' = [told EXCEPT ![n] = pw]
            ELSE UNCHANGED <<accountTb, told>>
       /\ UNCHANGED <<codes, unsure, turnedAway>>

\* mutant: searches by name instead of phone
login_codeByName(p, k) ==
  /\ CodeOf(p) = k
  /\ \E pw \in Password \ LongPassword :
       IF Named(Generated[p]) = {}
         THEN /\ IF Addable(Generated[p], pw, p)
                   THEN addAccountNode(Generated[p], pw, p) /\ UNCHANGED turnedAway
                   ELSE turnedAway' = turnedAway \cup {p} /\ UNCHANGED accountTb
         ELSE UNCHANGED <<accountTb, turnedAway>>
  /\ UNCHANGED <<codes, told, unsure, faults>>

(***************************************************************************)
(* login_code.  A phone with an account is logged in; a new phone gets the *)
(* account Generated[p], with a random password nobody is told.            *)
(***************************************************************************)
login_code(p, k) ==
  /\ CodeOf(p) = k
  /\ \E fail \in SUBSET {"phone", "insert"}, pw \in Password \ LongPassword :
       LET inserts == "phone" \in fail \/ WithPhone(p) = {}
           added == inserts /\ "insert" \notin fail /\ Addable(Generated[p], pw, p)
       IN /\ Failing(fail)
          /\ "insert" \in fail => inserts
          /\ IF added THEN addAccountNode(Generated[p], pw, p) ELSE UNCHANGED accountTb
          /\ turnedAway' = IF inserts /\ ~added /\ fail = {}
                             THEN turnedAway \cup {p} ELSE turnedAway
          /\ UNCHANGED <<codes, told, unsure>>

\* mutant: the password is not read back
SetPasswordUnread(n, pw, fail, readBack) ==
  /\ IF "update" \notin fail /\ pw \notin LongPassword
       THEN updateAccountPassWord(n, pw) ELSE UNCHANGED accountTb
  /\ told' = [told EXCEPT ![n] = pw]
  /\ unsure' = unsure \ {n}

(***************************************************************************)
(* The end of reset_pwd and change_pwd: update the password, read it back  *)
(* and tell the client whether it is the new one.  readBack is what the    *)
(* reading leaves in tag_account when it fails.                            *)
(***************************************************************************)
SetPassword(n, pw, fail, readBack) ==
  LET stored == "update" \notin fail /\ pw \notin LongPassword
      seen == IF "readback" \in fail THEN readBack
              ELSE IF stored THEN pw ELSE (CHOOSE r \in Named(n) : TRUE).pwd
  IN /\ IF stored THEN updateAccountPassWord(n, pw) ELSE UNCHANGED accountTb
     /\ IF seen = pw
          THEN told' = [told EXCEPT ![n] = pw] /\ unsure' = unsure \ {n}
          ELSE /\ UNCHANGED told
               /\ unsure' = IF stored THEN unsure \cup {n} ELSE unsure

\* reset_pwd: the phone must be the account's, and its code the right one.
reset_pwd(n, pw, p, k) ==
  /\ \E r \in WithPhone(p) : r.name = n
  /\ CodeOf(p) = k
  /\ \E fail \in SUBSET {"update", "readback"} :
       Failing(fail) /\ SetPassword(n, pw, fail, NoPassword)
  /\ UNCHANGED <<codes, turnedAway>>

\* change_pwd: the account must exist and the old password match.
change_pwd(n, old, new) ==
  /\ \E r \in Named(n) : r.pwd = old
  /\ \E fail \in SUBSET {"update", "readback"} :
       Failing(fail) /\ SetPassword(n, new, fail, old)
  /\ UNCHANGED <<codes, turnedAway>>

\* req_vercode and the timer.
Codes == ListNext /\ UNCHANGED <<accountTb, told, unsure, turnedAway, faults>>

\* The process is started again: the list of codes was only in memory.
Restart ==
  /\ codes # << >>
  /\ codes' = << >>
  /\ UNCHANGED <<accountTb, told, unsure, turnedAway, faults>>

Next ==
  \/ Codes
  \/ \E n \in Name, pw \in Password, p \in Phone, k \in Code : req_reg(n, pw, p, k)
  \/ \E p \in Phone, k \in Code : login_code(p, k)
  \/ \E n \in Name, pw \in Password, p \in Phone, k \in Code : reset_pwd(n, pw, p, k)
  \/ \E n \in Name, old, new \in Password : change_pwd(n, old, new)
  \/ Restart

Spec == Init /\ [][Next]_vars

-----------------------------------------------------------------------------
(* Properties *)

\* Every variable has its type.
TypeOK ==
  /\ ListTypeOK
  /\ accountTb \subseteq Row
  /\ told \in [Name -> Password \cup {NoPassword}]
  /\ unsure \subseteq Name
  /\ turnedAway \subseteq Phone
  /\ faults \in 0 .. MaxFaults

\* A name belongs to one account and so does a phone, even when the searches
\* that guard the registration fail.
AccountsUnique ==
  \A r, s \in accountTb : (r.name = s.name \/ r.phone = s.phone) => r = s

\* The answer of login_pwd, which takes the first row its select returns.
login_pwd(rows, pw) == rows # {} /\ (CHOOSE r \in rows : TRUE).pwd = pw

\* The password the server last confirmed, at the registration or a change,
\* logs the account in, by its name as well as by its phone, until a later
\* change was made and not confirmed.
ConfirmedPasswordWorks ==
  \A n \in Name :
    told[n] # NoPassword /\ n \notin unsure =>
      /\ login_pwd(Named(n), told[n])
      /\ \A r \in Named(n) : login_pwd(WithPhone(r.phone), told[n])

\* The right code of a new phone opens an account, unless somebody else has
\* registered the name that is generated for that phone; then it never will.
TurnedAwayBySquatter ==
  \A p \in turnedAway : \E r \in accountTb : r.name = Generated[p] /\ r.phone # p

\* An account appears only while its phone has a code from the server, given
\* out since the last start and no older than the list lets codes become.
RegisteredWithLiveCode ==
  [][ \A s \in accountTb' :
        WithPhone(s.phone) = {} =>
          \E i \in DOMAIN codes : /\ codes[i].phone = s.phone
                                  /\ codes[i].age < Timeout + Cardinality(Phone)
    ]_vars

\* login_code comments its last branch "new phone, register directly": a phone
\* that shows the right code is never sent away.
CodeOpensAccount == turnedAway = {}
=============================================================================
