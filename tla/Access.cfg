\* Two threads, two users, both modes, and one failed write or restart.
CONSTANTS
  Names = {admin, guest}
  InitialAdmin = admin
  Roles = {"Administrator", "Operator"}
  Saved <- MCSaved
  Modes = {"local", "radius"}
  Threads = {t1, t2}
  Clients = {c1}
  Absent = Absent
  None = None
  MaxAttempts = 1
  Window = 0
  MaxAge = 0
  MaxTime = 1
  MaxRequests = 3
  MaxMishaps = 1
SPECIFICATION Spec
SYMMETRY Symmetry
INVARIANTS
  AdminRemains
  AdminOnDisk
  FileCurrent
  OneSession
  RateBounded
