CONSTANTS
  Users = {a, b, c}
  None = None
  Requests = {r1, r2}
  MaxActive = 1
  InitialCoins = 1
  Others = {"chat"}
  Crashes = 1
SPECIFICATION Spec
SYMMETRY Symmetric
INVARIANTS TypeOK LimitHolds AnsweredOnce 
PROPERTIES NobodyTakenAway
CHECK_DEADLOCK FALSE
