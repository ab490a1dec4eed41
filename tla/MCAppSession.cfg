\* The session of the app: two accounts, two applications, at most two
\* messages of CenterMan on their way, one of them lost, one restart.
SPECIFICATION Spec
CONSTANTS
  Account = {a1, a2}
  NoAccount = none
  MaxApp = 2
  MaxFlight = 2
  MaxLost = 1
  MaxRestarts = 1
INVARIANTS
  LoginsAgree
  NoDoubles
  ForeignHasReason
  CurrentHasReason
  MissingHasReason
PROPERTY EventuallyListed
