SPECIFICATION Spec
CONSTANTS
  g1 = g1
  g2 = g2
  a = a
  b = b
  c = c
  Handlers = {g1, g2}
  Tasks = {a, b, c}
  MaxCount = 1
  MaxRequests = 3
INVARIANTS
  TypeOK
  PoolBound
PROPERTIES
  KeepsSlots
  RequestAnswered
  SlotReturned
  ShutdownEnds
  QuietEndIsClean
CHECK_DEADLOCK FALSE
