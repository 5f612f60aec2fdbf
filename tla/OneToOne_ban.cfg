CONSTANTS
  Users = {m1, m2, w1}
  None = None
  Bot = bot
  Verdicts = {v1, v2}
  Men = {m1, m2}
  Events = {"start", "next", "stop", "talk", "purge"}
  Wishes = {}
  AnyGender = any
  AskFirst = ask
  InitialCoins = 0
  CoinBound = 0
  Slots = {1}
  Crashes = 0
SPECIFICATION Spec
SYMMETRY Symmetric
INVARIANTS QueuedAreFree
CHECK_DEADLOCK FALSE
