---------------------------- MODULE MCUpdateLog ----------------------------
(* TLC instances of UpdateLog: callers and payloads are interchangeable,   *)
(* and the locals of a caller outside the engine are dead.                 *)
EXTENDS UpdateLog, TLC
DataSymmetry == Permutations(Callers) \cup Permutations(Payloads)

Live(f) == [c \in Callers |-> IF pc[c] = "idle" THEN Absent ELSE <<f[c]>>]
LiveState == <<durable, writeOnce, lock, pc, Live(op), Live(arg), Live(wire), last, acked, tampered>>
=============================================================================
