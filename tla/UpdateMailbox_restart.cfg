SPECIFICATION Spec
CONSTANTS
  MaxCalls = 2
  ClientOps = {"ready", "append", "verify", "count", "get"}
  MaxSeq = 1
  SeqMax = 7
  PowerOn = {6}
  OwnerResets = 0
  ClientResets = 1
  None = None
CHECK_DEADLOCK FALSE
INVARIANT RestartSafe
