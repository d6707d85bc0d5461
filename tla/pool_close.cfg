SPECIFICATION Spec
CONSTANTS
  g1 = g1
  g2 = g2
  a = a
  b = b
  c = c
  Handlers = {g1}
  Tasks = {a}
  MaxCount = 1
  MaxRequests = 1
INVARIANTS
  EnclaveOutlivesTasks
CHECK_DEADLOCK FALSE
