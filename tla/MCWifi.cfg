SPECIFICATION FairSpec
CONSTANTS
  ESP_MAXIMUM_RETRY = 5
  MaxDrops = 3
  MaxFaults = 1
INVARIANTS
  TypeOK
  GroupAlive
  VerdictTrue
  RetriesBounded
PROPERTIES
  VerdictReached
\* The function returns, and a refused call is followed by nothing.
CHECK_DEADLOCK FALSE
