SPECIFICATION FairSpec
CONSTANTS
  A = A
  B = B
  Images = {A, B}
  Chunks = 3
  StallMax = 3
  MaxPolls = 2
  HasResetPin = TRUE
INVARIANTS StreamMatchesSlot FailedUpdateBacksOut
PROPERTIES WedgedOnlyAfterReset SuccessMeansSwap CallReturns
