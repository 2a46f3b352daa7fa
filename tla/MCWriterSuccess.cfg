\* An array whose first part cannot be written, on a stream that takes one byte.
SPECIFICATION WSpec
CONSTANTS
  Width32 = 3
  Width64 = 4
  Nodes <- AllNodes
  Values <- HalfWritten
  Rounded <- Rounding
  NotFinite <- Refused
  Capacity = 1
  MaxWrites = 1
INVARIANTS
  SuccessMeansWritten
CHECK_DEADLOCK FALSE
