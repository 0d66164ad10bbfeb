SPECIFICATION Spec
CONSTANTS
  MaxOpens = 1
  MaxFaults = 0
INVARIANT NoDanglingTimer
