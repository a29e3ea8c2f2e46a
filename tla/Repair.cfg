CONSTANTS
  c1 = c1
  c2 = c2
  NoName = NoName
  Calls = {c1, c2}
  Names = {1}
  Threshold = 2
  MaxFails = 2
SPECIFICATION RepairSpec
CHECK_DEADLOCK FALSE
INVARIANT
  RepairIsSound
PROPERTIES
  BreakerHolds
  CallsEnd
