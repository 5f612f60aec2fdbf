CONSTANTS
  Users = {u1, u2, u3}
  Rooms = {r1, r2}
  Requests = {2, 3}
  None = None
  Updaters = {dispatcher}
  Sweepers = {sweep}
  Workers = {verdict}
SPECIFICATION RSpec
SYMMETRY Symmetric
INVARIANTS TypeOK CapacityRespected ActiveIsMember DeadRoomEmpty OwnerAnchored NoLockCycle
CHECK_DEADLOCK FALSE
