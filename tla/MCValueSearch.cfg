\* Every pair of numbers of the scaled widths, and loops over containers.
SPECIFICATION SearchSpec
CONSTANTS
 LongBits = 5
 IntBits = 3
 Precision = 3
 Decimal = 2
 IsEqual <- Equal
 Values <- MCValues
 Replacements <- MCReplacements
 NotFinite <- Special
 NeedsEscape <- MCNeedsEscape
INVARIANTS
 SearchTypeOK
 ConvertsWhatFits
 EqualNumbers
 EqualIsSymmetric
 RemoveAgreesWithContains
 LoopSeesAll
 LoopDefined
 PunctuatedAsJson
 IndentIsDepth
CHECK_DEADLOCK FALSE
