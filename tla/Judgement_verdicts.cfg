CONSTANTS
  Users = {a, b}
  None = None
  Reports = {r1, r2}
  WarningLimit = 2
  Reward = 1
  InitialCoins = 1
  CoinBound = 1
  Handler = handler
  Jobs = {}
  Payments = {"deduct", "refund"}
  Mishaps = {"raise", "kill"}
SPECIFICATION Spec
SYMMETRY Symmetric
INVARIANTS TypeOK FifthBans JudgedOnce BansEnforced ReportersHear
PROPERTIES BannedForGood
CHECK_DEADLOCK FALSE
