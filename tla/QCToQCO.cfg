CONSTANTS
    q1 = q1
    q2 = q2
    QubitNames <- MCQubits
    Registers = {r}
    Indices = {0, 1}
    MaxOps = 5
    MaxDepth = 2
    Kinds = {"for", "if", "while", "ifelse", "inv", "ctrl"}
SPECIFICATION Spec
INVARIANTS MapsFollowProgram EveryValueUsedOnce RegionsYieldContents RoundTrip
CHECK_DEADLOCK FALSE
