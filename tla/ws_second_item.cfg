CONSTANTS
  Items = {a, b}
  ProgramRoles = {"primary"}
  Threshold = 3
  Stagnation = 2
  Window = 5
  MaxActive = 2
  MaxRev = 0
  LoadOutcomes <- AlwaysLoads
  GitCheckout = TRUE
  Crashes = FALSE
SPECIFICATION Spec
PROPERTY NoThirdResearchDispatch
