\* Two dashboards, one interface, two changes, a restart of the agent.
CONSTANTS
  Admins = {a1, a2}
  Interfaces = {eth0}
  Settings = {s1, s2}
  None = None
  Rollback = 2
  Margin = 1
  MaxTime = 4
  MaxChanges = 2
  MaxInbox = 1
  MaxCrashes = 1
SPECIFICATION FairSpec
INVARIANTS
  Guarded
  OneChange
  TruthfulSuccess
PROPERTIES
  RolledBack
  ImplementsCommit
