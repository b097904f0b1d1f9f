\* The same schedules: a template with a sidecar breaks the documented limit.
CONSTANTS
  MaxKeys = 9
  MaxLimit = 9
  MaxSidecars = 1
  UintSize = 10
  Strategies <- MCStrategies
  KeyNums <- MCKeyNums
  Sidecars <- MCSidecars
SPECIFICATION Spec
INVARIANT PodWithinLimit
