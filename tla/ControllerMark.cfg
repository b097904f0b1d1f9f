\* One controller and one fault: the mark outlives the run.
SPECIFICATION Spec
CONSTANTS
  Managers = {m1}
  MaxJobs = 1
  MaxEdits = 0
  MaxFaults = 1
INVARIANTS
  RunningMeansRunning
CHECK_DEADLOCK FALSE
