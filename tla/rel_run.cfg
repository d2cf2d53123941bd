CONSTANTS
  Repos = {r1, r2}
  Logs = {1, 3}
  Docs = {2}
  Cwds = 2
  HotWindow = 2
  MaxSamples = 3
  MaxEdits = 3
  MaxCommands = 2
  MaxChanges = 4
SPECIFICATION MCSpec
INVARIANTS TypeOK SnapshotIsReal PassIsEarned
PROPERTY ReleaseIsExact
CHECK_DEADLOCK FALSE
