SPECIFICATION FairSpec
CONSTANTS
  t1 = t1
  t2 = t2
  t3 = t3
  NoThread = NoThread
  Threads = {t1, t2, t3}
  Scanners = {t1, t2}
  MaxConns = 1
  MaxRefs = 3
  JoinBeforeReopen = TRUE
  CallsWhileClosing = FALSE
CHECK_DEADLOCK FALSE
INVARIANTS TypeOK ReferenceMeansOpen PendingHasOwner NoOpOnDeadRadio
PROPERTY ClosingRadioIsFreed
