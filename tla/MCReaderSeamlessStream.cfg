\* Containers on a stream that is not a std::istream.
SPECIFICATION Spec
CONSTANTS
  Width32 = 3
  Width64 = 3
  StreamTypes = {FALSE}
  MaxDepth = 3
  MaxObjectSize = 60
  MaxAlloc = 300
  SizeMod = 16777216
  Junk = {0}
  Inputs <- Documents
  MaxCalls = 1
INVARIANTS
  ReadsKnownForms
CHECK_DEADLOCK FALSE
