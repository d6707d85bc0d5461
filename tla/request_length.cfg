SPECIFICATION Spec
CONSTANTS
  Bodies <- LongBodies
  Texts <- Long
  Points <- MCPoints
  HalfWord <- MCHalfWord
  Memory <- MCMemory
  Missing = Missing
  NotText = NotText
  MaxRequests = 2
INVARIANTS HashMeansDuplicate
CHECK_DEADLOCK FALSE
