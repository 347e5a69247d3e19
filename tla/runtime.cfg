SPECIFICATION FairSpec
CHECK_DEADLOCK FALSE
CONSTANTS
  WordBits = 8
  TableSize = 31
  DigitBits = 2
  Passes = 4
  HeapStart = 12
  HeapEnd = 24
  Jobs <- MCJobs
INVARIANTS IndicesInBounds PassesAreStable ProgramsCompute BlocksAreKept
PROPERTIES OperatorsAreC Stops
