CONSTANTS
  Operators = {o1, o2}
  Pids = {p1, p2, p3}
  None = None
  Garbage = Garbage
  Verbs <- Returning
  Targets <- ReturningTarget
  Serial = FALSE
  Flaky = TRUE
  GateCloses = TRUE
SPECIFICATION MCFairSpec
PROPERTIES VerbsReturn SparesTheSettled
