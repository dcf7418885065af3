\* Two workers complete the two dependencies of a task at the same time.
SPECIFICATION Spec
CONSTANTS
  t1 = t1
  t2 = t2
  t3 = t3
  t4 = t4
  w1 = w1
  w2 = w2
  w3 = w3
  None = None
  Tasks = {t1, t2, t3}
  Deps <- Join
  Workers = {w1, w2}
  MaxRetries = 2
  Env = {}
SYMMETRY WorkerSymmetry
INVARIANTS
  ExecutesAlone
