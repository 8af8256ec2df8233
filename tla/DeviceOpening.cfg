CONSTANTS
  Devices = {d1, d2, d3}
  Parents = {d1}
  Instances = {i1, i2, i3}
  MaxChildren = 2
  MaxJobs = 1
  None = None
SPECIFICATION FairSpec
INVARIANTS OneLibraryInUse NothingLeaks FreedInsideOut
PROPERTIES OpeningEnds
