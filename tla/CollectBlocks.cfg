SPECIFICATION Spec
CONSTANTS
  NQubits = 3
  Bits = {0}
  Passes = {"collectBlocks"}
  Alphabet <- GateAlphabet
  MaxOps <- MCMaxOps
  Arguments <- MCArguments
  Supported <- AnyCircuit
  MaxAdded = 0
INVARIANTS MeaningKept
CHECK_DEADLOCK FALSE
