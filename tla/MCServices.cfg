SPECIFICATION Spec
CONSTANTS
  People = {m, n, p}
  Calls = {r1, r2}
  NoOne = NoOne
  Items = {m, n, o}
  Syncs = {r1, r2}
  Free = Free
  Jobs = {r1, r2}
  Keys = {m, n}
  Administrators = {p}
  NoKey = NoKey
  Connecting = {r1, r2, c}
  Decisions = {d1, d2}
  Rows = {x, y}
  Cycles = {r1, r2}
  Hosts = {h1, h2}
  Restarts = {s1, s2}
  MaxTimers = 2
  EntryRows = {i, j, k}
  Limit = 1
  Share = 2
  Retentions = {1, 2}
  MaxBackups = 4
  Last = 3
  Guarded = {1, 3}
  Dirs = {recordings, logs}
SYMMETRY Symmetry
INVARIANTS
  ServicesTypeOK
  CheckerSound
  StartsWhole
PROPERTIES
  OwnerKept
  PinnedKey
  SyncSound
  BackupKept
CHECK_DEADLOCK FALSE
