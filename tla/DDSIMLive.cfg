CONSTANTS
  Clients = {c1, c2}
  Sessions = {s1, s2}
  Jobs = {j1}
  Formats = {"QASM", "ADAPTIVESTRING"}
  Contract = {}
  NoArg = NoArg
SPECIFICATION FairSpec
INVARIANTS ReadersFindResults FreedAfterWorker
PROPERTIES StartedFinishes CallsReturn
CHECK_DEADLOCK FALSE
