CONSTANTS
  Pids = {p1, p2}
  NoPid = NoPid
  Unreadable = Unreadable
  Stale = 1
  MaxClock = 3
  MaxEvents = 4
  MaxHead = 2
  MaxUpsets = 3
  Operators = {o1, o2}
  None = None
  Half = Half
  MaxEdition = 3
  MaxRuns = 7
  Research = {r1, r2}
  Nobody = Nobody
  MaxChanges = 5
SPECIFICATION ViewsSpec
SYMMETRY Symmetry
INVARIANTS Typed NoOrphanAgent ComposedIsWhole
PROPERTIES SettledIsExact NoGhostRuns DeadIsToldDead FreshIsFresh
CHECK_DEADLOCK FALSE
