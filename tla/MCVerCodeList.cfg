\* Four phones, so that up to four codes expire at the same check; 2 instead of
\* 60 checks until then.
SPECIFICATION ListSpec
CONSTANTS
  Phone = {p1, p2, p3, p4}
  Code = {k1}
  Timeout = 2
INVARIANTS
  OneCodePerPhone
  AgeBound
PROPERTY CodeLapses
