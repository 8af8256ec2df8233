CONSTANTS
  VNodes = {v1, v2}
  MNodes = {m1}
  Terminal = Terminal
  Numbers = {half, x}
  Half = half
  Static = {One}
  One = One
  Weights = {x, One}
  Succs = {1}
  MaxQubits = 2
  MaxRoots = 1
  MaxRefs = 1
  Ops = {"vectorAdd", "matrixVectorMultiplication", "matrixTrace"}
  Free = Free
  None = None
SPECIFICATION Spec
SYMMETRY Symmetry
INVARIANTS NoDangling Canonical NothingLost EntriesAlive
PROPERTIES RootsKeepMeaning
