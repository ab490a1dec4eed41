\* No statement fails: one user's choice of a name is enough.
SPECIFICATION Spec
CONSTANTS
  p1 = p1
  p2 = p2
  n1 = n1
  y1 = y1
  y2 = y2
  Phone <- MCPhone
  Name <- MCName
  Generated <- MCGenerated
  Code = {k1, k2}
  NoCode = NoCode
  Password = {w1, w2, long}
  LongPassword = {long}
  NoPassword = NoPassword
  Timeout = 1
  MaxFaults = 0
INVARIANT CodeOpensAccount
