CONSTANTS
  Operators = {o1, o2}
  Pids = {p1, p2, p3}
  None = None
  Garbage = Garbage
  Verbs <- ResetRace
  Targets <- ResetRaceTarget
  Serial = FALSE
  Flaky = TRUE
  GateCloses = FALSE
SPECIFICATION MCSpec
INVARIANT OneSupervisor
