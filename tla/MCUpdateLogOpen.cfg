SPECIFICATION Spec
CONSTANTS
  t1 = t1
  t2 = t2
  t3 = t3
  Threads = {t1, t2, t3}
  Wildcard = "*"
  NullVendor = 99
  SocRef = "e8"
  Sections <- LinkedSections
SYMMETRY ThreadSymmetry
INVARIANTS TypeOK OpsStable OneInitializer LinkOrderIndependent BestReadyTier
