SPECIFICATION FairSpec
CONSTANTS
  Length = 3
  MaxFragment = 5
  Timeout = 2
  MaxSamples = 16
INVARIANTS
  TypeOK
  ReadsTheStream
PROPERTIES
  ReadReturns
