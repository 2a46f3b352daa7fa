\* Two Values of every shape, in every order of writes and reads; the largest
\* takes as many bytes as the policy allows, the deepest as many levels.
SPECIFICATION RTSpec
CONSTANTS
  Width32 = 3
  Width64 = 4
  StreamTypes = {TRUE}
  MaxDepth = 3
  MaxObjectSize = 211
  MaxAlloc = 300
  SizeMod = 1073741824
  Junk = {0}
  Inputs <- Nothing
  MaxCalls = 2
  Nodes <- ShapeNodes
  Values <- Shapes
  Rounded <- NoRounding
  NotFinite = {}
  Capacity = 1000
  MaxWrites = 2
INVARIANTS
  NeverRefused
  NothingLeft
  WithinPolicy
PROPERTIES
  DeliversInOrder
CHECK_DEADLOCK FALSE
