\* Two pods, two artifacts that are exported to one path, two attempts, two runs.
SPECIFICATION Spec
CONSTANTS
  p1 = p1
  p2 = p2
  c1 = c1
  c2 = c2
  Pods = {p1, p2}
  Containers = {c1, c2}
  PodOf <- OneEach
  MainNum = 2
  SidecarNum = 1
  x1 = x1
  ExportNum = 2
  ExportName <- SharedNames
  ExportPath <- SharedPath
  Paths = {x1}
  MaxAttempts = 2
  MaxRuns = 2
SYMMETRY Alike
INVARIANTS
  AInv
  OneDirectory
  SuccessIsGathered
  MountFindsCopy
  ExportIsComplete
CHECK_DEADLOCK FALSE
