CONSTANTS
  Items = {a, b}
  ProgramRoles = {"primary", "supporting"}
  Threshold = 3
  Stagnation = 2
  Window = 5
  MaxActive = 1
  MaxRev = 2
  LoadOutcomes <- AlwaysLoads
  GitCheckout = TRUE
  Crashes = FALSE
  Stamps <- WireStamps
  Blank <- WireBlank
  Times <- WireTimes
  Epoch = 0
  Bodies <- WireBodies
  EmptyBody = "{}"
  Ids = {a, b}
  Codes <- WireCodes
  Missing = Missing
  Refused = Refused
SPECIFICATION Spec
INVARIANT RelayedIsSame
PROPERTY NoThirdResearchDispatch
