CONSTANTS
  Users = {u1, u2}
  Rooms = {r1}
  Requests = {2}
  None = None
  Bot = bot
  Sweep = sweep
  Sync = sync
  Worker = worker
  Suspects = {u1, u2}
  Crashes = 1
  Faithful = {u2}
SPECIFICATION FairSpec
INVARIANTS TypeOK  OpenRoomIsHeard
PROPERTIES MirrorSettles
CHECK_DEADLOCK FALSE
