SPECIFICATION TamperSpec
CONSTANTS
  c1 = c1
  c2 = c2
  a = a
  b = b
  Callers = {c1, c2}
  NoCaller = NoCaller
  Payloads = {a, b}
  MaxSeq = 2
  HasAnchor = TRUE
SYMMETRY DataSymmetry
VIEW LiveState
INVARIANTS TypeOK AckedIsDurable NoFalseAlarm NoWedge AnchorLag VerifiedMeansAppendable EvidenceKept
PROPERTIES AppendOnly ImplementsAuditLog
