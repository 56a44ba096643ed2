SPECIFICATION Spec
CONSTANTS
  MaxCalls = 3
  ClientOps = {"ready", "append", "count"}
  MaxSeq = 1
  SeqMax = 7
  PowerOn = {6}
  OwnerResets = 1
  ClientResets = 1
  None = None
CHECK_DEADLOCK FALSE
INVARIANTS TypeOK   
PROPERTY CallReturns
