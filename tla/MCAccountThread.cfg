\* Two phones and three names: the two generated ones, which users may also
\* choose, and another.
SPECIFICATION Spec
CONSTANTS
  p1 = p1
  p2 = p2
  n1 = n1
  y1 = y1
  y2 = y2
  Phone <- MCPhone
  Name <- MCName
  Generated <- MCGenerated
  Code = {k1, k2}
  NoCode = NoCode
  Password = {w1, w2, long}
  LongPassword = {long}
  NoPassword = NoPassword
  Timeout = 1
  MaxFaults = 2
INVARIANTS
  AccountsUnique
  ConfirmedPasswordWorks
  TurnedAwayBySquatter
PROPERTY RegisteredWithLiveCode
