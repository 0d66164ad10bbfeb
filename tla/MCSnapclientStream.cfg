SPECIFICATION FairSpec
CONSTANTS
  MaxOpens = 2
  MaxFaults = 2
INVARIANTS
  TypeOK
  NoConnectionLost
  FirstConnection
PROPERTIES
  Converses
  TimeKeepsFlowing
