\* Every input of up to four bytes, on a std::istream and on a stream that is
\* none, two calls, tight limits.
SPECIFICATION FairSpec
CONSTANTS
  Width32 = 3
  Width64 = 3
  StreamTypes = {TRUE, FALSE}
  MaxDepth = 2
  MaxObjectSize = 6
  MaxAlloc = 300
  SizeMod = 16777216
  Junk = {0, 84}
  Inputs <- Short4
  MaxCalls = 2
INVARIANTS
  TypeOK
  DepthGuard
  Budget
  TypedHeaderDead
  EscapeOnlyOnReuse
  ReuseOnlyAdds
PROPERTIES
  Termination
CHECK_DEADLOCK FALSE
