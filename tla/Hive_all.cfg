\* A diamond of tasks and two workers; tasks fail, workers die
\* and the order may be cancelled.
SPECIFICATION Spec
CONSTANTS
  t1 = t1
  t2 = t2
  t3 = t3
  t4 = t4
  w1 = w1
  w2 = w2
  w3 = w3
  None = None
  Tasks = {t1, t2, t3, t4}
  Deps <- Diamond
  Workers = {w1, w2}
  MaxRetries = 2
  Env = {"fail", "error", "panic", "cancel"}
SYMMETRY WorkerSymmetry
INVARIANTS
  TypeOK
  InputsComplete
  AggregatesFinished
