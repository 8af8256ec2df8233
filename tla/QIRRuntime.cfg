CONSTANTS
  Profiles = {"static", "dynamic"}
  StaticQubits = 3
  StaticResults = 1
  MaxQubits = 2
  MaxResults = 3
  MaxRefs = 2
  MaxOutputs = 1
  Base = 3
  None = None
SPECIFICATION Spec
INVARIANTS RegistersSound
PROPERTIES ProgramView
