SPECIFICATION FairSpec
CONSTANTS
  t1 = t1
  t2 = t2
  t3 = t3
  NoThread = NoThread
  Threads = {t1, t2, t3}
  LoopThreads = {t1}
  MaxHandles = 2
  CounterMod = 8
  JoinBeforeReopen = TRUE
  CrossClose = FALSE
  CallsWhileClosing = FALSE
INVARIANTS TypeOK NoOpAfterTeardown OneTeardownOwner
PROPERTY ClosingSlotIsFreed
