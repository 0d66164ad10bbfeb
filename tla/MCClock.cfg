SPECIFICATION FairSpec
CONSTANTS
  NoFormat = NoFormat
  Formats = {f44, f48}
  DefaultFormat = f48
  QueueSize = 1
  MaxFaults = 0
PROPERTIES
  ClockFollows
\* When the Wi-Fi stays up and the server is silent, nothing happens.
CHECK_DEADLOCK FALSE
