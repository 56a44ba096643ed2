SPECIFICATION Spec
CONSTANTS
  t1 = t1
  t2 = t2
  Threads = {t1, t2}
  NoThread = NoThread
  MaxHandles = 1
  MaxCalls = 1
  Ops = {"subscribe", "unsubscribe", "set_link_callback", "send", "call"}
  ClockFails = FALSE
INVARIANT UnsubscribeWaits
