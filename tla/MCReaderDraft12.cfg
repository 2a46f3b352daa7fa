\* Five forms of Draft 12, as elements of one array.
SPECIFICATION Spec
CONSTANTS
  Width32 = 3
  Width64 = 3
  StreamTypes = {TRUE}
  MaxDepth = 3
  MaxObjectSize = 35
  MaxAlloc = 300
  SizeMod = 16777216
  Junk = {0}
  Inputs <- Draft12Document
  MaxCalls = 1
INVARIANTS
  ReadsDraft12
CHECK_DEADLOCK FALSE
