\* Two controllers, as without leader election, users who do anything at any
\* time, and two faults.  No symmetry: it would not be sound for EveryJobSettles.
SPECIFICATION FairSpec
CONSTANTS
  Managers = {m1, m2}
  MaxJobs = 2
  MaxEdits = 1
  MaxFaults = 2
INVARIANTS
  CInv
  AtMostOneRun
  MarkMatchesRuns
PROPERTIES
  RunsAreFresh
  DeletesItsOwn
  EveryJobSettles
CHECK_DEADLOCK FALSE
