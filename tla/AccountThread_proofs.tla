------------------------ MODULE AccountThread_proofs ------------------------
(***************************************************************************)
(* What AccountThread keeps for every set of phones, names and passwords,  *)
(* and for any number of failing statements.                               *)
(***************************************************************************)
EXTENDS AccountThread, VerCodeList_proofs

\* Every password that was confirmed belongs to a row ...
ToldHasRow ==
  \A n \in Name : told[n] # NoPassword => \E r \in accountTb : r.name = n

\* ... and is the password of that row, unless a change was not confirmed.
ToldIsStored ==
  \A r \in accountTb :
    told[r.name] = NoPassword \/ told[r.name] = r.pwd \/ r.name \in unsure

AccountInv ==
  /\ ListInv
  /\ TypeOK
  /\ AccountsUnique
  /\ ToldHasRow
  /\ ToldIsStored
  /\ TurnedAwayBySquatter

\* Failing statements are counted up to MaxFaults.
LEMMA FaultsType ==
  ASSUME faults \in 0 .. MaxFaults, NEW fail, IsFiniteSet(fail), Failing(fail)
  PROVE  faults' \in 0 .. MaxFaults
BY FS_CardinalityType, MaxFaultsAssumption DEF Failing

\* The sets of statements a handler executes are finite.
LEMMA StatementsFinite ==
  /\ \A fail \in SUBSET {"name", "phone", "insert"} : IsFiniteSet(fail)
  /\ \A fail \in SUBSET {"phone", "insert"} : IsFiniteSet(fail)
  /\ \A fail \in SUBSET {"update", "readback"} : IsFiniteSet(fail)
<1>1. IsFiniteSet({"name", "phone", "insert"})
  <2>1. IsFiniteSet({} \cup {"name"})
    BY FS_EmptySet, FS_AddElement
  <2>2. IsFiniteSet(({} \cup {"name"}) \cup {"phone"})
    BY <2>1, FS_AddElement
  <2>3. IsFiniteSet((({} \cup {"name"}) \cup {"phone"}) \cup {"insert"})
    BY <2>2, FS_AddElement
  <2>4. (({} \cup {"name"}) \cup {"phone"}) \cup {"insert"} = {"name", "phone", "insert"}
    OBVIOUS
  <2> QED BY <2>3, <2>4
<1>2. IsFiniteSet({"update", "readback"})
  <2>1. IsFiniteSet({} \cup {"update"})
    BY FS_EmptySet, FS_AddElement
  <2>2. IsFiniteSet(({} \cup {"update"}) \cup {"readback"})
    BY <2>1, FS_AddElement
  <2>3. ({} \cup {"update"}) \cup {"readback"} = {"update", "readback"}
    OBVIOUS
  <2> QED BY <2>2, <2>3
<1>3. \A fail \in SUBSET {"phone", "insert"} : fail \in SUBSET {"name", "phone", "insert"}
  OBVIOUS
<1> QED BY <1>1, <1>2, <1>3, FS_Subset

\* A new row that the UNIQUE columns accept, confirmed to its owner or not.
LEMMA AddKeeps ==
  ASSUME AccountInv, NEW n \in Name, NEW pw \in Password, NEW p \in Phone,
         Addable(n, pw, p), addAccountNode(n, pw, p),
         told' = told \/ told' = [told EXCEPT ![n] = pw],
         UNCHANGED <<unsure, turnedAway>>
  PROVE  /\ accountTb' \subseteq Row
         /\ told' \in [Name -> Password \cup {NoPassword}]
         /\ AccountsUnique' /\ ToldHasRow' /\ ToldIsStored'
         /\ TurnedAwayBySquatter'
<1> DEFINE e == [name |-> n, phone |-> p, pwd |-> pw]
<1>1. e \in Row /\ e.name = n /\ e.phone = p /\ e.pwd = pw
  BY DEF Row
<1>2. accountTb' = accountTb \cup {e}
  BY DEF addAccountNode
<1> HIDE DEF e
<1>3. /\ accountTb \subseteq Row
      /\ told \in [Name -> Password \cup {NoPassword}]
      /\ \A r \in accountTb : r.name # n /\ r.phone # p
  BY DEF AccountInv, TypeOK, Addable, Named, WithPhone
<1>4. /\ accountTb' \subseteq Row
      /\ told' \in [Name -> Password \cup {NoPassword}]
  BY <1>1, <1>2, <1>3
<1>5. AccountsUnique'
  BY <1>1, <1>2, <1>3 DEF AccountsUnique, AccountInv
<1>6. told[n] = NoPassword
  BY <1>3 DEF AccountInv, ToldHasRow
<1>7. told'[n] \in {NoPassword, pw} /\ \A m \in Name : m # n => told'[m] = told[m]
  BY <1>3, <1>6
<1>8. ToldHasRow'
  BY <1>1, <1>2, <1>7 DEF ToldHasRow, AccountInv
<1>9. \A r \in accountTb : r.name \in Name
  BY <1>3 DEF Row
<1>10. ToldIsStored'
  BY <1>1, <1>2, <1>3, <1>7, <1>9 DEF ToldIsStored, AccountInv
<1>11. TurnedAwayBySquatter'
  BY <1>2 DEF TurnedAwayBySquatter, AccountInv
<1> QED BY <1>4, <1>5, <1>8, <1>10, <1>11

\* updateAccountPassWord touches the password of one row and nothing else.
LEMMA UpdateShape ==
  ASSUME AccountInv, NEW n \in Name, NEW pw \in Password, updateAccountPassWord(n, pw)
  PROVE  /\ \A s \in accountTb' : \E r \in accountTb :
              /\ s.name = r.name /\ s.phone = r.phone /\ s \in Row
              /\ s.pwd = IF r.name = n THEN pw ELSE r.pwd
         /\ \A r \in accountTb : \E s \in accountTb' :
              s.name = r.name /\ s.phone = r.phone
<1>1. \A r \in accountTb : r \in Row
  BY DEF AccountInv, TypeOK
<1>2. \A r \in Row : /\ [r EXCEPT !.pwd = pw] \in Row
                     /\ [r EXCEPT !.pwd = pw].name = r.name
                     /\ [r EXCEPT !.pwd = pw].phone = r.phone
                     /\ [r EXCEPT !.pwd = pw].pwd = pw
  BY DEF Row
<1> DEFINE with(r) == [r EXCEPT !.pwd = pw]
           new(r) == IF r.name = n THEN with(r) ELSE r
<1>3. accountTb' = {new(r) : r \in accountTb}
  BY DEF updateAccountPassWord
<1>4. \A r \in Row : with(r) \in Row /\ with(r).name = r.name
                    /\ with(r).phone = r.phone /\ with(r).pwd = pw
  BY <1>2
<1> HIDE DEF with
<1>5. \A r \in accountTb : /\ new(r) \in Row
                           /\ new(r).name = r.name /\ new(r).phone = r.phone
                           /\ new(r).pwd = IF r.name = n THEN pw ELSE r.pwd
  BY <1>1, <1>4
<1> HIDE DEF new
<1>6. \A r \in accountTb : new(r) \in accountTb'
  BY <1>3
<1>7. \A s \in accountTb' : \E r \in accountTb : s = new(r)
  BY <1>3
<1> QED BY <1>5, <1>6, <1>7

(***************************************************************************)
(* The end of reset_pwd and change_pwd, for an account that exists and     *)
(* whose password is readBack unless nothing is left of the first reading. *)
(***************************************************************************)
LEMMA SetPasswordKeeps ==
  ASSUME AccountInv, NEW r0 \in accountTb, NEW pw \in Password, NEW fail,
         NEW readBack \in {NoPassword, r0.pwd},
         SetPassword(r0.name, pw, fail, readBack), UNCHANGED turnedAway
  PROVE  /\ accountTb' \subseteq Row
         /\ told' \in [Name -> Password \cup {NoPassword}]
         /\ unsure' \subseteq Name
         /\ AccountsUnique' /\ ToldHasRow' /\ ToldIsStored'
         /\ TurnedAwayBySquatter'
<1> DEFINE n == r0.name
           stored == "update" \notin fail /\ pw \notin LongPassword
           seen == IF "readback" \in fail THEN readBack
                   ELSE IF stored THEN pw ELSE r0.pwd
<1>1. /\ accountTb \subseteq Row /\ n \in Name
      /\ told \in [Name -> Password \cup {NoPassword}] /\ unsure \subseteq Name
      /\ \A r \in accountTb : r.name = n => r = r0
      /\ \A r \in accountTb : r.name \in Name
  BY DEF AccountInv, TypeOK, Row, AccountsUnique
<1>2. (CHOOSE r \in Named(n) : TRUE) = r0
  BY <1>1 DEF Named
<1>3. /\ IF stored THEN updateAccountPassWord(n, pw) ELSE UNCHANGED accountTb
      /\ IF seen = pw
          THEN told' = [told EXCEPT ![n] = pw] /\ unsure' = unsure \ {n}
          ELSE /\ UNCHANGED told
               /\ unsure' = IF stored THEN unsure \cup {n} ELSE unsure
  BY <1>2 DEF SetPassword
<1>4. /\ \A s \in accountTb' : \E r \in accountTb :
              /\ s.name = r.name /\ s.phone = r.phone /\ s \in Row
              /\ s.pwd = IF r.name = n /\ stored THEN pw ELSE r.pwd
      /\ \A r \in accountTb : \E s \in accountTb' :
              s.name = r.name /\ s.phone = r.phone
  <2>1. CASE stored
    BY <1>1, <1>3, <2>1, UpdateShape
  <2>2. CASE ~stored
    BY <1>1, <1>3, <2>2
  <2> QED BY <2>1, <2>2
<1>5. /\ told' \in [Name -> Password \cup {NoPassword}]
      /\ \A m \in Name : m # n => told'[m] = told[m] /\ (m \in unsure' <=> m \in unsure)
      /\ told'[n] = IF seen = pw THEN pw ELSE told[n]
      /\ n \in unsure' <=> seen # pw /\ (stored \/ n \in unsure)
      /\ unsure' \subseteq Name
  BY <1>1, <1>3
<1>6. seen = pw => stored \/ r0.pwd = pw
  BY PasswordAssumption
<1> HIDE DEF n, stored, seen
<1>7. accountTb' \subseteq Row
  BY <1>4
<1>8. AccountsUnique'
  <2> SUFFICES ASSUME NEW s \in accountTb', NEW t \in accountTb',
                      s.name = t.name \/ s.phone = t.phone
               PROVE  s = t
    BY DEF AccountsUnique
  <2>1. PICK r \in accountTb :
              /\ s.name = r.name /\ s.phone = r.phone /\ s \in Row
              /\ s.pwd = IF r.name = n /\ stored THEN pw ELSE r.pwd
    BY <1>4
  <2>2. PICK q \in accountTb :
              /\ t.name = q.name /\ t.phone = q.phone /\ t \in Row
              /\ t.pwd = IF q.name = n /\ stored THEN pw ELSE q.pwd
    BY <1>4
  <2>3. r = q
    BY <2>1, <2>2 DEF AccountsUnique, AccountInv
  <2> QED BY <2>1, <2>2, <2>3 DEF Row
<1>9. ToldHasRow'
  <2> SUFFICES ASSUME NEW m \in Name, told'[m] # NoPassword
               PROVE  \E s \in accountTb' : s.name = m
    BY DEF ToldHasRow
  <2>1. \E r \in accountTb : r.name = m
    BY <1>5 DEF AccountInv, ToldHasRow, n
  <2> QED BY <1>4, <2>1
<1>10. ToldIsStored'
  <2> SUFFICES ASSUME NEW s \in accountTb'
               PROVE  \/ told'[s.name] = NoPassword
                      \/ told'[s.name] = s.pwd
                      \/ s.name \in unsure'
    BY DEF ToldIsStored
  <2>1. PICK r \in accountTb :
              /\ s.name = r.name
              /\ s.pwd = IF r.name = n /\ stored THEN pw ELSE r.pwd
    BY <1>4
  <2>2. told[r.name] = NoPassword \/ told[r.name] = r.pwd \/ r.name \in unsure
    BY DEF AccountInv, ToldIsStored
  <2>3. CASE r.name # n
    BY <1>1, <1>5, <2>1, <2>2, <2>3
  <2>4. CASE r.name = n
    <3>1. r = r0
      BY <1>1, <2>4
    <3> QED BY <1>5, <1>6, <2>1, <2>2, <2>4, <3>1
  <2> QED BY <2>3, <2>4
<1>11. TurnedAwayBySquatter'
  BY <1>4 DEF TurnedAwayBySquatter, AccountInv
<1> QED BY <1>5, <1>7, <1>8, <1>9, <1>10, <1>11

\* What a handler has to keep when it leaves the list of codes alone.
LEMMA Gather ==
  ASSUME AccountInv, UNCHANGED codes,
         accountTb' \subseteq Row,
         told' \in [Name -> Password \cup {NoPassword}],
         unsure' \subseteq Name, turnedAway' \subseteq Phone,
         faults' \in 0 .. MaxFaults,
         AccountsUnique', ToldHasRow', ToldIsStored', TurnedAwayBySquatter'
  PROVE  AccountInv'
<1>1. ListInv' /\ ListTypeOK'
  BY DEF AccountInv, ListInv, ListTypeOK, OneCodePerPhone, OldestInFront, Backlog, N
<1> QED BY <1>1 DEF AccountInv, TypeOK

\* What a handler leaves alone stays as it is.
LEMMA Same ==
  ASSUME AccountInv, UNCHANGED <<accountTb, told, unsure>>
  PROVE  /\ accountTb' \subseteq Row
         /\ told' \in [Name -> Password \cup {NoPassword}]
         /\ unsure' \subseteq Name
         /\ AccountsUnique' /\ ToldHasRow' /\ ToldIsStored'
         /\ turnedAway' = turnedAway => TurnedAwayBySquatter'
BY DEF AccountInv, TypeOK, AccountsUnique, ToldHasRow, ToldIsStored, TurnedAwayBySquatter

LEMMA RegKeeps ==
  ASSUME AccountInv, NEW n \in Name, NEW pw \in Password, NEW p \in Phone,
         NEW k \in Code, req_reg(n, pw, p, k)
  PROVE  AccountInv'
<1>1. PICK fail \in SUBSET {"name", "phone", "insert"} :
        /\ Failing(fail)
        /\ \/ Addable(n, pw, p) /\ addAccountNode(n, pw, p) /\ told' = [told EXCEPT ![n] = pw]
           \/ UNCHANGED <<accountTb, told>>
        /\ UNCHANGED <<codes, unsure, turnedAway>>
  BY Zenon DEF req_reg
<1>2. faults' \in 0 .. MaxFaults
  BY <1>1, FaultsType, StatementsFinite DEF AccountInv, TypeOK
<1>3. unsure' \subseteq Name /\ turnedAway' \subseteq Phone
  BY <1>1 DEF AccountInv, TypeOK
<1>4. CASE Addable(n, pw, p) /\ addAccountNode(n, pw, p) /\ told' = [told EXCEPT ![n] = pw]
  BY <1>1, <1>2, <1>3, <1>4, AddKeeps, Gather
<1>5. CASE UNCHANGED <<accountTb, told>>
  BY <1>1, <1>2, <1>3, <1>5, Same, Gather
<1> QED BY <1>1, <1>4, <1>5

LEMMA LoginKeeps ==
  ASSUME AccountInv, NEW p \in Phone, NEW k \in Code, login_code(p, k)
  PROVE  AccountInv'
<1>1. PICK fail \in SUBSET {"phone", "insert"}, pw \in Password \ LongPassword :
        /\ Failing(fail)
        /\ \/ /\ Addable(Generated[p], pw, p) /\ addAccountNode(Generated[p], pw, p)
              /\ UNCHANGED turnedAway
           \/ UNCHANGED accountTb /\ UNCHANGED turnedAway
           \/ /\ UNCHANGED accountTb /\ turnedAway' = turnedAway \cup {p}
              /\ fail = {} /\ ("phone" \in fail \/ WithPhone(p) = {})
              /\ ~Addable(Generated[p], pw, p)
        /\ UNCHANGED <<codes, told, unsure>>
  BY Zenon DEF login_code
<1>2. faults' \in 0 .. MaxFaults
  BY <1>1, FaultsType, StatementsFinite DEF AccountInv, TypeOK
<1>3. turnedAway' \subseteq Phone /\ Generated[p] \in Name
  BY <1>1, GeneratedAssumption DEF AccountInv, TypeOK
<1>4. unsure' \subseteq Name
  BY <1>1 DEF AccountInv, TypeOK
<1>5. CASE /\ Addable(Generated[p], pw, p) /\ addAccountNode(Generated[p], pw, p)
           /\ UNCHANGED turnedAway
  BY <1>1, <1>2, <1>3, <1>4, <1>5, AddKeeps, Gather
<1>6. CASE UNCHANGED accountTb /\ UNCHANGED turnedAway
  BY <1>1, <1>2, <1>3, <1>4, <1>6, Same, Gather
<1>7. CASE /\ UNCHANGED accountTb /\ turnedAway' = turnedAway \cup {p}
           /\ fail = {} /\ ("phone" \in fail \/ WithPhone(p) = {})
           /\ ~Addable(Generated[p], pw, p)
  <2>1. Named(Generated[p]) # {} /\ WithPhone(p) = {}
    BY <1>1, <1>7 DEF Addable
  <2>2. \E r \in accountTb : r.name = Generated[p] /\ r.phone # p
    BY <2>1 DEF Named, WithPhone
  <2>3. TurnedAwayBySquatter'
    BY <1>7, <2>2 DEF TurnedAwayBySquatter, AccountInv
  <2> QED BY <1>1, <1>2, <1>3, <1>4, <1>7, <2>3, Same, Gather
<1> QED BY <1>1, <1>5, <1>6, <1>7

LEMMA PasswordKeeps ==
  ASSUME AccountInv, NEW n \in Name, NEW pw \in Password, NEW readBack,
         NEW r0 \in accountTb, r0.name = n, readBack \in {NoPassword, r0.pwd},
         NEW fail \in SUBSET {"update", "readback"},
         Failing(fail), SetPassword(n, pw, fail, readBack),
         UNCHANGED <<codes, turnedAway>>
  PROVE  AccountInv'
<1>1. faults' \in 0 .. MaxFaults /\ turnedAway' \subseteq Phone
  BY FaultsType, StatementsFinite DEF AccountInv, TypeOK
<1> QED BY <1>1, SetPasswordKeeps, Gather

LEMMA AccountInit == Init => AccountInv
<1> SUFFICES ASSUME Init PROVE AccountInv
  OBVIOUS
<1>1. ListInv
  BY InitInv DEF Init
<1>2. TypeOK
  BY <1>1, MaxFaultsAssumption DEF Init, TypeOK, ListInv
<1> QED BY <1>1, <1>2 DEF Init, AccountInv, AccountsUnique, ToldHasRow, ToldIsStored,
           TurnedAwayBySquatter

\* The invariant that all the theorems below rest on.
LEMMA AccountInvariance == Spec => []AccountInv
<1>1. ASSUME AccountInv, [Next]_vars PROVE AccountInv'
  <2>1. CASE UNCHANGED vars
    <3>1. faults' \in 0 .. MaxFaults /\ turnedAway' \subseteq Phone
      BY <1>1, <2>1 DEF vars, AccountInv, TypeOK
    <3> QED BY <1>1, <2>1, <3>1, Same, Gather DEF vars
  <2>2. CASE Codes
    <3>1. ListInv'
      BY <1>1, <2>2, TickInv, ReqInv DEF Codes, ListNext, AccountInv
    <3>2. faults' \in 0 .. MaxFaults /\ turnedAway' \subseteq Phone
      BY <1>1, <2>2 DEF Codes, AccountInv, TypeOK
    <3> QED BY <1>1, <2>2, <3>1, <3>2, Same DEF Codes, AccountInv, TypeOK, ListInv
  <2>3. CASE Restart
    <3>1. ListInv'
      BY <2>3 DEF Restart, ListInv, ListTypeOK, OneCodePerPhone, OldestInFront, Backlog
    <3>2. faults' \in 0 .. MaxFaults /\ turnedAway' \subseteq Phone
      BY <1>1, <2>3 DEF Restart, AccountInv, TypeOK
    <3> QED BY <1>1, <2>3, <3>1, <3>2, Same DEF Restart, AccountInv, TypeOK, ListInv
  <2>4. ASSUME NEW n \in Name, NEW pw \in Password, NEW p \in Phone, NEW k \in Code,
               req_reg(n, pw, p, k)
        PROVE  AccountInv'
    BY <1>1, <2>4, RegKeeps
  <2>5. ASSUME NEW p \in Phone, NEW k \in Code, login_code(p, k)
        PROVE  AccountInv'
    BY <1>1, <2>5, LoginKeeps
  <2>6. ASSUME NEW n \in Name, NEW pw \in Password, NEW p \in Phone, NEW k \in Code,
               reset_pwd(n, pw, p, k)
        PROVE  AccountInv'
    <3>1. PICK r \in accountTb : r.name = n
      BY <2>6 DEF reset_pwd, WithPhone
    <3>2. PICK fail \in SUBSET {"update", "readback"} :
            Failing(fail) /\ SetPassword(n, pw, fail, NoPassword)
      BY <2>6 DEF reset_pwd
    <3>3. UNCHANGED <<codes, turnedAway>>
      BY <2>6 DEF reset_pwd
    <3> QED BY <1>1, <3>1, <3>2, <3>3, PasswordKeeps
  <2>7. ASSUME NEW n \in Name, NEW old \in Password, NEW new \in Password,
               change_pwd(n, old, new)
        PROVE  AccountInv'
    <3>1. PICK r \in accountTb : r.name = n /\ r.pwd = old
      BY <2>7 DEF change_pwd, Named
    <3>2. PICK fail \in SUBSET {"update", "readback"} :
            Failing(fail) /\ SetPassword(n, new, fail, old)
      BY <2>7 DEF change_pwd
    <3>3. UNCHANGED <<codes, turnedAway>>
      BY <2>7 DEF change_pwd
    <3> QED BY <1>1, <3>1, <3>2, <3>3, PasswordKeeps
  <2> QED BY <1>1, <2>1, <2>2, <2>3, <2>4, <2>5, <2>6, <2>7 DEF Next
<1> QED BY <1>1, AccountInit, PTL DEF Spec

\* The variables keep their types.
THEOREM TypeCorrect == Spec => []TypeOK
BY AccountInvariance, PTL DEF AccountInv

\* No two accounts share a name or a phone, whatever statements fail: the
\* UNIQUE columns keep what the searches of req_reg and login_code cannot.
THEOREM UniqueAccounts == Spec => []AccountsUnique
BY AccountInvariance, PTL DEF AccountInv

\* login_code only ever sends a phone away because of a row that has taken the
\* name generated for it.
THEOREM TurnedAwayHasReason == Spec => []TurnedAwayBySquatter
BY AccountInvariance, PTL DEF AccountInv

\* A confirmed password logs its account in by name and by phone.
THEOREM ConfirmedWorks == Spec => []ConfirmedPasswordWorks
<1>1. ASSUME AccountInv PROVE ConfirmedPasswordWorks
  <2> SUFFICES ASSUME NEW n \in Name, told[n] # NoPassword, n \notin unsure
               PROVE  /\ login_pwd(Named(n), told[n])
                      /\ \A r \in Named(n) : login_pwd(WithPhone(r.phone), told[n])
    BY DEF ConfirmedPasswordWorks
  <2>1. PICK r \in accountTb : r.name = n
    BY <1>1 DEF AccountInv, ToldHasRow
  <2>2. told[n] = r.pwd
    BY <1>1, <2>1 DEF AccountInv, ToldIsStored
  <2>3. Named(n) = {r} /\ WithPhone(r.phone) = {r}
    BY <1>1, <2>1 DEF AccountInv, AccountsUnique, Named, WithPhone
  <2> QED BY <2>2, <2>3 DEF login_pwd
<1> QED BY <1>1, AccountInvariance, PTL

\* A phone that shows a code has an entry, of the age the list allows.
LEMMA CodeIsLive ==
  ASSUME AccountInv, NEW p \in Phone, CodeOf(p) \in Code
  PROVE  \E i \in DOMAIN codes : /\ codes[i].phone = p
                                 /\ codes[i].age < Timeout + Cardinality(Phone)
<1>1. Listed(p)
  BY NoCodeAssumption DEF CodeOf
<1>2. AgeBound
  BY AgeBounded DEF AccountInv
<1> QED BY <1>1, <1>2 DEF Listed, AgeBound

\* An account is only ever created for a phone with a live code.
THEOREM RegistrationNeedsCode == Spec => RegisteredWithLiveCode
<1> DEFINE Good ==
      \A s \in accountTb' :
        WithPhone(s.phone) = {} =>
          \E i \in DOMAIN codes : /\ codes[i].phone = s.phone
                                  /\ codes[i].age < Timeout + Cardinality(Phone)
<1>1. ASSUME AccountInv, [Next]_vars PROVE [Good]_vars
  <2>1. ASSUME \A s \in accountTb' : \E r \in accountTb : s.phone = r.phone
        PROVE  Good
    BY <2>1 DEF WithPhone
  <2>2. ASSUME NEW n, NEW pw, NEW p \in Phone, addAccountNode(n, pw, p), CodeOf(p) \in Code
        PROVE  Good
    <3>1. \A s \in accountTb' : s \in accountTb \/ s.phone = p
      BY <2>2 DEF addAccountNode
    <3> QED BY <1>1, <2>2, <3>1, CodeIsLive DEF WithPhone
  <2>3. ASSUME UNCHANGED accountTb PROVE Good
    BY <2>1, <2>3
  <2>4. ASSUME NEW n \in Name, NEW pw \in Password, NEW p \in Phone, NEW k \in Code,
               req_reg(n, pw, p, k)
        PROVE  Good
    <3>1. UNCHANGED accountTb \/ (addAccountNode(n, pw, p) /\ CodeOf(p) = k)
      BY <2>4, Zenon DEF req_reg
    <3> QED BY <2>2, <2>3, <3>1
  <2>5. ASSUME NEW p \in Phone, NEW k \in Code, login_code(p, k)
        PROVE  Good
    <3>1. /\ CodeOf(p) = k
          /\ UNCHANGED accountTb \/ \E pw : addAccountNode(Generated[p], pw, p)
      BY <2>5, Zenon DEF login_code
    <3> QED BY <2>2, <2>3, <3>1
  <2>6. ASSUME NEW n \in Name, NEW pw \in Password, NEW fail, NEW readBack,
               SetPassword(n, pw, fail, readBack)
        PROVE  Good
    <3>1. UNCHANGED accountTb \/ updateAccountPassWord(n, pw)
      BY <2>6, Zenon DEF SetPassword
    <3>2. updateAccountPassWord(n, pw) =>
            \A s \in accountTb' : \E r \in accountTb : s.phone = r.phone
      BY <1>1, UpdateShape
    <3> QED BY <2>1, <2>3, <3>1, <3>2
  <2>7. ASSUME NEW n \in Name, NEW pw \in Password, NEW p \in Phone, NEW k \in Code,
               reset_pwd(n, pw, p, k)
        PROVE  Good
    BY <2>6, <2>7 DEF reset_pwd
  <2>8. ASSUME NEW n \in Name, NEW old \in Password, NEW new \in Password,
               change_pwd(n, old, new)
        PROVE  Good
    BY <2>6, <2>8 DEF change_pwd
  <2>9. Codes \/ Restart \/ UNCHANGED vars => Good
    BY <2>3 DEF Codes, Restart, vars
  <2> QED BY <1>1, <2>4, <2>5, <2>7, <2>8, <2>9 DEF Next
<1> QED BY <1>1, AccountInvariance, PTL DEF Spec, RegisteredWithLiveCode

=============================================================================
