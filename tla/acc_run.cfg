CONSTANTS
  Operations = {k1, k2}
  NoOp = NoOp
  MinComplete = 1
  Marked = TRUE
  Grace = 2
  MaxAudit = 5
  MaxReports = 2
  MaxClock = 6
SPECIFICATION Spec
SYMMETRY Symmetry
INVARIANTS TypeOK NoFalsePass SettledCounted
