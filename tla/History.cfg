\* Two devices over two hours of two instants; failures, crashes, limit changes.
CONSTANTS
  Devices = {d1, d2}
  Hour = 2
  MaxTime = 3
  MaxId = 4
  Limits = {0, 1, 2}
  None = None
  Monotone = TRUE
  Crashes = TRUE
  MaxFailures = 1
SPECIFICATION Spec
SYMMETRY Symmetry
INVARIANTS
  ExactStatistics
  DiscardedCovers
PROPERTIES
  OldestGoFirst
