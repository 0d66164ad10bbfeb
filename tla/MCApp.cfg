SPECIFICATION FairSpec
CONSTANTS
  NoFormat = NoFormat
  Formats = {f44, f48}
  DefaultFormat = f48
  QueueSize = 1
  MaxFaults = 3
INVARIANTS
  TypeOK
  OpensOnNetwork
PROPERTIES
  Boots
  Plays
\* When the Wi-Fi never starts, or the server is silent, nothing happens.
CHECK_DEADLOCK FALSE
