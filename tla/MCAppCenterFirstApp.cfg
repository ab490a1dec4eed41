\* No statement fails and nothing crashes: the interleaving alone leaves a
\* registered account without an application.
SPECIFICATION Spec
CONSTANTS
  Account = {a1, a2}
  NoAccount = NoAccount
  AppCap = 2
  AppIdMin = 3
  MaxFaults = 0
  MayCrash = FALSE
SYMMETRY Symmetry
INVARIANT RegisteredHasApp
