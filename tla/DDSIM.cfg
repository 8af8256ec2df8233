CONSTANTS
  Clients = {c1, c2}
  Sessions = {s1}
  Jobs = {j1, j2}
  Formats = {"QASM"}
  Contract = {"ownerCancels", "jobsFreedFirst"}
  NoArg = NoArg
SPECIFICATION Spec
SYMMETRY Symmetry
INVARIANTS RunningJobsExact WorkerOwnsResults
PROPERTIES JobLifeCycle WaitSound
CHECK_DEADLOCK FALSE
