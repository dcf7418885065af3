\* A chain of tasks that may fail for good.
SPECIFICATION FairSpec
CONSTANTS
  t1 = t1
  t2 = t2
  t3 = t3
  t4 = t4
  w1 = w1
  w2 = w2
  w3 = w3
  None = None
  Tasks = {t1, t2}
  Deps <- Chain
  Workers = {w1, w2}
  MaxRetries = 1
  Env = {"fail"}
PROPERTIES
  OrderEnds
