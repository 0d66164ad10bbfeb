SPECIFICATION FairSpec
CONSTANTS
  BASE_MESSAGE_SIZE = 2
  STRING_PREFIX = 2
  INT_MAX = 7
  SupportedCodecs = {1}
  BUF_SIZE = 4
  MaxFaults = 0
  Outside = Outside
  Streams <- MCStreams
PROPERTIES
  FitsLater
\* A server that falls silent leaves the element blocked in its read.
CHECK_DEADLOCK FALSE
