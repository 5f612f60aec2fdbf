CONSTANTS
  Users = {u1, u2}
  Rooms = {r1, r2}
  Requests = {2}
  None = None
  Updaters = {dispatcher}
  Sweepers = {}
  Workers = {verdict}
SPECIFICATION FairSpec
PROPERTIES LedgerSpec DeletedForGood EveryTransactionEnds
CHECK_DEADLOCK FALSE
