\* Two API threads, one device, crashes and SQLite failures.
CONSTANTS
  Ids = {r1, r2}
  Devices = {d1}
  Threads = {t1, t2}
  Finals = {"applied"}
  None = None
  Timeout = 1
  HistoryLimit = 1
  Vanishing = TRUE
  MaxTime = 3
  MaxFailures = 1
  MaxCrashes = 1
SPECIFICATION Spec
SYMMETRY Symmetry
INVARIANTS
  HistoryHonest
  AuditedOnce
