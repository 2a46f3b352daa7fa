\* to_ostream as README.md documents it.
SPECIFICATION SearchSpec
CONSTANTS
 LongBits = 5
 IntBits = 3
 Precision = 3
 Decimal = 2
 IsEqual <- Equal
 Values <- MCValues
 Replacements <- MCReplacements
 NotFinite <- Special
 NeedsEscape <- MCNeedsEscape
INVARIANT AlwaysJson
CHECK_DEADLOCK FALSE
