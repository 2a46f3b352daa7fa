\* One variable, three cells, every operation on every pair of operands.
SPECIFICATION VSpec
CONSTANTS
 Roots = {x}
 Heap = {h1, h2, h3}
 Tmp = tmp
 Copied = copied
 Keys = {k}
 Data = {d}
INVARIANTS
 HTypeOK
 OwnedOnce
 TagTellsTruth
 UndefinedOnlyFromInside
 ReferencesSurvive
 NothingLost
PROPERTIES
 StoreImplemented
SYMMETRY Symmetry
CHECK_DEADLOCK FALSE
