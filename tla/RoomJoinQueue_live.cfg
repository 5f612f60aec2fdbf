CONSTANTS
  Users = {u1, u2}
  Rooms = {r1}
  Requests = {2}
  None = None
  Bot = bot
  Sweep = sweep
  Wishes = {"any"}
  Prefs = {"any"}
  Slots = {1}
  Counted = 0
  Crashes = 1
SPECIFICATION FairSpec
INVARIANTS TypeOK 
PROPERTIES ImplementsLedger EveryRoomWaitEnds
CHECK_DEADLOCK FALSE
