SPECIFICATION FairSpec
CONSTANTS
  t1 = t1
  t2 = t2
  Threads = {t1, t2}
  NoThread = NoThread
  MaxHandles = 1
  MaxCalls = 2
  Ops = {"subscribe", "set_link_callback", "send", "call"}
  ClockFails = TRUE
INVARIANTS NoUseAfterFree OneFinalizer ReplyMatchesCall
PROPERTIES LostIsFinal CloseCompletes CallReturnsOnClose
