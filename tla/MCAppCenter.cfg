\* Two accounts, so that the threads can collide on one account or on two; the
\* limit is 2 instead of 8; one statement fails; the process may crash.
SPECIFICATION Spec
CONSTANTS
  Account = {a1, a2}
  NoAccount = NoAccount
  AppCap = 2
  AppIdMin = 3
  MaxFaults = 1
  MayCrash = TRUE
SYMMETRY Symmetry
INVARIANTS
  ListedAppsOwned
  AckedAppsExist
  CreationLimit
  MissingOnlyIfDamaged
PROPERTY ImplementsRegistry
