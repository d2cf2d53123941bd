CONSTANTS
  Operators = {o1, o2}
  Pids = {p1, p2, p3}
  None = None
  Garbage = Garbage
  Verbs <- Concurrent
  Targets <- ConcurrentTarget
  Serial = FALSE
  Flaky = TRUE
  GateCloses = TRUE
SPECIFICATION MCSpec
SYMMETRY Symmetry
INVARIANTS TypeOK OneSupervisor
PROPERTY InstanceSpec
