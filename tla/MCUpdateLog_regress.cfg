SPECIFICATION RegressSpec
CONSTANTS
  c1 = c1
  a = a
  b = b
  Callers = {c1}
  NoCaller = NoCaller
  Payloads = {a, b}
  MaxSeq = 2
  HasAnchor = FALSE
SYMMETRY DataSymmetry
INVARIANT EvidenceKept
