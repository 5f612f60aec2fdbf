CONSTANTS
  Users = {m1, w1}
  None = None
  Bot = bot
  Verdicts = {}
  Men = {m1}
  Events = {"start", "search", "next", "timeout", "purge"}
  Wishes = {}
  AnyGender = any
  AskFirst = ask
  InitialCoins = 1
  CoinBound = 1
  Slots = {1, 2}
  Crashes = 1
SPECIFICATION FairSpec
PROPERTIES EveryWaitEnds
CHECK_DEADLOCK FALSE
