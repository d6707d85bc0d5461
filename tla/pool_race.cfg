SPECIFICATION Spec
CONSTANTS
  g1 = g1
  g2 = g2
  a = a
  b = b
  c = c
  Handlers = {g1, g2}
  Tasks = {a, b}
  MaxCount = 1
  MaxRequests = 2
INVARIANTS
  PoolNotRaced
CHECK_DEADLOCK FALSE
