\* The docstring of xml_reader_loop: failed reads recover on the following poll.
CONSTANTS
  a = a
  b = b
  x = x
  m1 = m1
  m2 = m2
  Devices = {d1, d2}
  Contents = {a, b, x}
  Faulty = {b}
  Oversize = {x}
  Absent = Absent
  Malformed = Malformed
  Texts <- MCTexts
  Mappings = {m2}
  Decode <- MCDecode
  None = None
  StaleAfter = 1
  MaxTime = 1
  MaxEdits = 0
  MaxFailures = 0
  MaxRestarts = 0
SPECIFICATION FairSpec
PROPERTY Recovers
CHECK_DEADLOCK FALSE
