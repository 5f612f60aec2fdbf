CONSTANTS
  Users = {a, b}
  None = None
  Requests = {r1}
  MaxActive = 1
  InitialCoins = 1
  Others = {}
  Crashes = 0
SPECIFICATION Spec
INVARIANTS SettledOnce
CHECK_DEADLOCK FALSE
