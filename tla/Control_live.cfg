\* Under a fair clock and poller, a device that keeps its acknowledgement.
CONSTANTS
  Ids = {r1, r2}
  Devices = {d1}
  Threads = {t1}
  Finals = {"applied"}
  None = None
  Timeout = 1
  HistoryLimit = 2
  Vanishing = FALSE
  MaxTime = 3
  MaxFailures = 1
  MaxCrashes = 1
SPECIFICATION FairSpec
INVARIANTS
  HistoryOrdered
PROPERTIES
  FinalStays
  CurrentAnswered
