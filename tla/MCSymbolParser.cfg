SPECIFICATION FairSpec
CONSTANTS
  MaxFile = 5
  Sources <- MCSources
  Keywords <- MCKeywords
  Leftovers <- MCLeftovers
  NameLength = 2
  IntBits = 7
  LongMax = 500
  BufferLength = 2
  CacheSize = 4
INVARIANTS TypeOK ErrorLocated AbortsAtEndOnly OverrunByLongOnly
PROPERTIES ImplementsTokens SourceEnds
CHECK_DEADLOCK FALSE
