SPECIFICATION Spec
CONSTANTS
  t1 = t1
  t2 = t2
  q1 = q1
  h1 = h1
  NoTask = NoTask
  Tasks = {t1, t2}
  Queriers = {q1}
  Hashes = {h1}
  HashOf <- OneList
  Alive = 0
  MaxTime = 1
  TCSNum = 3
  Faults <- AllFaults
  Unreachable = {t1, t2}
INVARIANTS
  RegistrySound
  FinishedMeansPosted
CHECK_DEADLOCK FALSE
