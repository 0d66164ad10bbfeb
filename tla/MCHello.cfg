SPECIFICATION Spec
CONSTANTS
  Fields = 9
  MaxFaults = 3
INVARIANTS
  TypeOK
  SentHelloClean
  FailedHelloBounded
\* One open builds one Hello.
CHECK_DEADLOCK FALSE
