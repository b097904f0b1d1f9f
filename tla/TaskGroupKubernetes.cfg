\* Two pods of unequal size, two subtasks at once, every way an attempt can end, fair goroutines.
CONSTANTS
  p1 = p1
  p2 = p2
  Pods = {p1, p2}
  SubTaskNum <- UnevenPods
  MaxConcurrent = 2
  HasStrategy = TRUE
  RunMode = "kubernetes"
  MaxAttempts = 2
SPECIFICATION FairSpec
INVARIANTS
  IInv
  ConcurrencyBound
  NoStrayWork
  ResultsAreFinal
  SuccessReportSound
  CountsAgree
PROPERTIES
  ImplementsDistributedStep
  ImplementsFairDistributedStep
