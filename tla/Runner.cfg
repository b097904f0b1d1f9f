\* Two presteps, two poststeps, and a main step of two pods.
SPECIFICATION Spec
CONSTANTS
  p1 = p1
  p2 = p2
  t1 = t1
  t2 = t2
  t3 = t3
  Pods = {p1, p2}
  Work <- TwoPods
  PreStepNum = 2
  PostStepNum = 2
INVARIANTS
  RInv
  ExitCodeSound
  PrintedReportFinal
  CanceledExits
