SPECIFICATION Spec
CONSTANTS
  BASE_MESSAGE_SIZE = 2
  STRING_PREFIX = 2
  INT_MAX = 7
  SupportedCodecs = {1}
  BUF_SIZE = 4
  MaxFaults = 1
  Outside = Outside
  Streams <- MCStreams
PROPERTIES
  ShortReadAborts
\* A server that falls silent leaves the element blocked in its read.
CHECK_DEADLOCK FALSE
