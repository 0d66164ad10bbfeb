SPECIFICATION Spec
CONSTANTS
  Chips = {0, 1, 3, 4}
  Volumes <- MCVolumes
  PowerOn = 48
  MaxFaults = 3
INVARIANTS
  TypeOK
  OkMeansWritten
  ReadyHasChip
