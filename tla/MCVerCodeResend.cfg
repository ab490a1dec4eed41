\* Countdown and Timeout in the ratio of the code, 30 seconds to 60 checks, and
\* as many phones as FewPhones allows.
SPECIFICATION ResendSpec
CONSTANTS
  Phone = {p1, p2, p3}
  View = {v1, v2}
  Code = {k1}
  Timeout = 6
  Countdown = 3
SYMMETRY Symmetry
INVARIANT AskedTwiceAtMost
