SPECIFICATION FairSpec
CONSTANTS
  BASE_MESSAGE_SIZE = 2
  STRING_PREFIX = 2
  INT_MAX = 7
  SupportedCodecs = {1}
  Streams <- MCStreams
  BUF_SIZE = 4
  Outside = Outside
  MaxOpens = 2
  LifeFaults = 1
  ReadFaults = 1
INVARIANTS
  TypeOK
  FramedAgain
  OwnConnection
PROPERTIES
  Serves
  ConnectionServed
\* The framework need not close an element, nor a server send anything.
CHECK_DEADLOCK FALSE
