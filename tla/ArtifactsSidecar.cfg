\* An artifact of the main container and one of a sidecar.
SPECIFICATION Spec
CONSTANTS
  p1 = p1
  p2 = p2
  c1 = c1
  c2 = c2
  Pods = {p1, p2}
  Containers = {c1, c2}
  PodOf <- OneEach
  MainNum = 1
  SidecarNum = 1
  x1 = x1
  ExportNum = 0
  ExportName <- NoExport
  ExportPath <- NoExport
  Paths = {}
  MaxAttempts = 1
  MaxRuns = 1
INVARIANT DeclaredIsFound
CHECK_DEADLOCK FALSE
