\* Two threads and the event loop, three requests, four agent threads.
CONSTANTS
  Communities = {c1, c2}
  Off = Off
  Periods = {p1}
  Never = Never
  Layouts = {l1, l2}
  Workers = {t1, t2}
  Loop = Loop
  Nothing = Nothing
  MaxAgents = 4
  MaxChanges = 3
  MaxUnsaved = 1
  MaxFaults = 1
  MaxRestarts = 1
SPECIFICATION SettingsSpec
SYMMETRY Symmetry
INVARIANTS
  SettingsTypeOK
  FileFollows
  AgentFollows
  HeartbeatCurrent
CHECK_DEADLOCK FALSE
