\* One field, both limits, every alarm block, one mapping change and one restart; the
\* poller is fair.
CONSTANTS
  Devices = {d1}
  Fields = {f1}
  Values = {0, 2, 3}
  Limits = {1, 2}
  None = None
  Absent = Absent
  Unreadable = Unreadable
  Unmapped = Unmapped
  MaxEdits = 1
  MaxRestarts = 1
SPECIFICATION FairSpec
INVARIANTS
  NoSettledAlarm
  Explained
  EventsAgree
PROPERTIES
  ImplementsLatch
  ViolationsReported
