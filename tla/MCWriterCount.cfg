\* Every Value, on a stream that fails after a few bytes.
SPECIFICATION WSpec
CONSTANTS
  Width32 = 3
  Width64 = 4
  Nodes <- AllNodes
  Values <- AllValues
  Rounded <- Rounding
  NotFinite <- Refused
  Capacity = 12
  MaxWrites = 1
INVARIANTS
  WTypeOK
  CountExact
CHECK_DEADLOCK FALSE
