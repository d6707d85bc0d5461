CONSTANTS
  IntMax = 127
  NestingLimit = 4
  DefaultBufferSize = 4
  MaxFailures = 2
  Requests <- MCRequests
  Key <- MCKey
  PublicText <- MCPublicText
  MetaText <- MCMetaText
  Parser <- ParseText
  Printer <- PrintText
SPECIFICATION Spec
CHECK_DEADLOCK FALSE
INVARIANTS
  ParserReadsJson
  ParserLenientAsNamed
  PrintParsesBack
  OwnedOnce
  ReplyIsComplete
  NoShardMisfiled
