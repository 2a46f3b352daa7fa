\* Three numbers, and the conversions as value.hpp documents them.
SPECIFICATION SearchSpec
CONSTANTS
 LongBits = 5
 IntBits = 3
 Precision = 3
 Decimal = 2
 IsEqual <- Equal
 Values <- HardNumbers
 Replacements <- MCReplacements
 NotFinite <- Special
 NeedsEscape <- MCNeedsEscape
INVARIANT ConversionsDocumented
CHECK_DEADLOCK FALSE
