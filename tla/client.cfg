SPECIFICATION ClientSpec
CONSTANTS
  t1 = t1
  t2 = t2
  c1 = c1
  c2 = c2
  h1 = h1
  h2 = h2
  NoTask = NoTask
  Tasks = {t1, t2}
  Queriers = {c1}
  Hashes = {h1}
  HashOf <- OneList
  OwnerOf <- OneClient
  Repeats = "shown"
  Alive = 0
  MaxTime = 1
  TCSNum = 2
  Unreachable = {t1, t2}
  Faults <- ClientFaults
INVARIANTS
  RepeatIsSafe
PROPERTIES
  TasksAreSerial
  ClientIsAnswered
CHECK_DEADLOCK FALSE
