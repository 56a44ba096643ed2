SPECIFICATION ChunkSpec
CONSTANTS
  A = A
  B = B
  Images = {A, B}
  Chunks = 2
  StallMax = 2
  MaxPolls = 1
  HasResetPin = TRUE
INVARIANT StreamMatchesSlot
