\* Five repositories, two of them in one ClonedPath, in two runs; the revisions of one
\* in a ClonedPath and of one in a temporary directory are names.
SPECIFICATION Spec
CONSTANTS
  p1 = p1
  p2 = p2
  v1 = v1
  v2 = v2
  head = head
  NoPath = NoPath
  RepoNum = 5
  Paths = {p1, p2}
  PathOf <- SharedPaths
  RevOf <- SharedRevs
  NamedRevs = {2, 4}
  HeadOf <- Heads
  MaxRuns = 2
INVARIANTS
  CloneInv
  RightRevision
  NothingLeftBehind
CHECK_DEADLOCK FALSE
