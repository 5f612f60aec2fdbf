CONSTANTS
  Users = {m1, m2, w1}
  None = None
  Bot = bot
  Verdicts = {}
  Men = {m1, m2}
  Events = {"start", "next", "stop", "timeout", "purge"}
  Wishes = {"female"}
  AnyGender = any
  AskFirst = ask
  InitialCoins = 1
  CoinBound = 1
  Slots = {1}
  Crashes = 0
SPECIFICATION Spec
SYMMETRY Symmetric
INVARIANTS TypeOK MutualBetweenUpdates QueuedAreFree
PROPERTIES PairingSpec
CHECK_DEADLOCK FALSE
