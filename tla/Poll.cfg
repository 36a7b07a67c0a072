\* One device: a fault, an oversize section, a mapping edit, a failed write and a
\* restart.  The thread may end (CHECK_DEADLOCK).
CONSTANTS
  a = a
  b = b
  x = x
  m1 = m1
  m2 = m2
  Devices = {d1}
  Contents = {a, b, x}
  Faulty = {b}
  Oversize = {x}
  Absent = Absent
  Malformed = Malformed
  Texts <- MCTexts
  Mappings = {m1, m2}
  Decode <- MCDecode
  None = None
  StaleAfter = 1
  MaxTime = 2
  MaxEdits = 2
  MaxFailures = 1
  MaxRestarts = 1
SPECIFICATION FairSpec
INVARIANTS
  Genuine
  LiveInHistory
PROPERTIES
  OnlyOnChange
  FollowsFile
CHECK_DEADLOCK FALSE
