CONSTANTS
  Items = {a, b}
  ProgramRoles = {"primary"}
  Threshold = 3
  Stagnation = 2
  Window = 4
  MaxActive = 2
  MaxRev = 1
  LoadOutcomes <- NeverLoads
  GitCheckout = TRUE
  Crashes = TRUE
SPECIFICATION FairSpec
INVARIANTS TypeOK NoDeltaRunBounded NoLostWake
PROPERTY ServedEventually
