CONSTANTS
  Values = {4, 5, 7, 8, 9, 13, 14, 16}
  Half = 9
  Eps = 1
  Width = 9
  LastBucket = 2
  InitialGCLimit = 2
  Entries = {e1, e2, e3, e4}
  None = None
SPECIFICATION Spec
SYMMETRY Symmetry
INVARIANTS ListsIntact LiveNumbersKept
PROPERTIES InnerLookupFinds
