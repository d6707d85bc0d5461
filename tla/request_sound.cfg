SPECIFICATION Spec
CONSTANTS
  Bodies <- MCBodies
  Texts <- OneBlock
  Points <- MCPoints
  HalfWord <- MCHalfWord
  Memory <- MCMemory
  Missing = Missing
  NotText = NotText
  MaxRequests = 2
INVARIANTS TypeOK GeneratedIsSound RefusalIsJustified EachKeyItsShard HashNamesList HashMeansDuplicate
CHECK_DEADLOCK FALSE
