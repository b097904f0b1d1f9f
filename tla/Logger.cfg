SPECIFICATION Spec
CONSTANTS
  t1 = t1
  t2 = t2
  s1 = s1
  s2 = s2
  Tasks = {t1, t2}
  SubTasks = {s1, s2}
  TaskOf <- MCTaskOf
  Stray = stray
  Nobody = nobody
  Levels = {1, 4}
  MaxAttempts = 2
INVARIANTS
  IInv
  LogFileComplete
