\* Every form of the sample Values that the reader knows, some of them over the budget.
SPECIFICATION Spec
CONSTANTS
  Width32 = 3
  Width64 = 3
  StreamTypes = {TRUE}
  MaxDepth = 3
  MaxObjectSize = 15
  MaxAlloc = 300
  SizeMod = 16777216
  Junk = {0}
  Inputs <- Documents
  MaxCalls = 1
INVARIANTS
  ReadsKnownForms
  FailureKeepsWholeElements
CHECK_DEADLOCK FALSE
