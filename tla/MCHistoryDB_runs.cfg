CONSTANTS
  Runs = {r1, r2}
  Objects = {o1, o2}
  Closed = Closed
  Nobody = Nobody
  MaxSteps = 2
  MaxFaults = 1
SPECIFICATION FairSpec
INVARIANTS
  RunsSeeTheirStep
  CreationCompletes
PROPERTIES
  ImplementsLog
  HistoryIsReached
