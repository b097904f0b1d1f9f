\* A retried attempt counts its finished keys again.
CONSTANTS
  p1 = p1
  p2 = p2
  Pods = {p1, p2}
  SubTaskNum <- SmallPods
  MaxConcurrent = 1
  HasStrategy = TRUE
  RunMode = "kubernetes"
  MaxAttempts = 2
SPECIFICATION Spec
INVARIANT ProgressWithinTotal
