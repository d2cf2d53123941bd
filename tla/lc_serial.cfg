CONSTANTS
  Operators = {o1, o2}
  Pids = {p1, p2, p3}
  None = None
  Garbage = Garbage
  Verbs <- OneByOne
  Targets <- BothTargets
  Serial = TRUE
  Flaky = FALSE
  GateCloses = TRUE
SPECIFICATION MCSpec
INVARIANT OneSupervisor
PROPERTY NoDuplicateSpawn
