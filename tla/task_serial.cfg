SPECIFICATION SerialFairSpec
CONSTANTS
  t1 = t1
  t2 = t2
  q1 = q1
  h1 = h1
  NoTask = NoTask
  Tasks = {t1, t2}
  Queriers = {q1}
  Hashes = {h1}
  HashOf <- OneList
  Alive = 1
  MaxTime = 2
  TCSNum = 2
  Faults <- Survivable
  Unreachable = {t2}
INVARIANTS
  TypeOK
  OneGeneration
  OwnsEntry
  NoMemoryFault
  ReportBindsOwnMeta
  FinishedMeansOver
  StuckOnlyByLostCall
PROPERTIES
  FinishedStaysAlive
  ServiceSafety
  ServiceSpec
  AcceptedIsAnswered
CHECK_DEADLOCK FALSE
