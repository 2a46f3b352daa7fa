\* A stream that ends inside a string.
SPECIFICATION Spec
CONSTANTS
  Width32 = 3
  Width64 = 3
  StreamTypes = {TRUE}
  MaxDepth = 3
  MaxObjectSize = 20
  MaxAlloc = 300
  SizeMod = 16777216
  Junk = {0}
  Inputs <- TruncatedDocument
  MaxCalls = 1
INVARIANTS
  SuccessMeansRead
CHECK_DEADLOCK FALSE
