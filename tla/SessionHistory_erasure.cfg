CONSTANTS
  A = A
  B = B
  MaxSession = 2
  Bans = TRUE
  Crashes = TRUE
SPECIFICATION FairSpec
INVARIANTS TypeOK ErasedIsWhole
PROPERTIES  TextGoes
CHECK_DEADLOCK FALSE
