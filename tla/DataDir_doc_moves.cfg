\* A migration and what it does not copy.
CONSTANTS
  Dirs = {a, b}
  Absent = Absent
  Torn = Torn
  None = None
  MaxWrites = 3
  MaxCommands = 2
  MaxFailures = 0
  MaxCuts = 0
SPECIFICATION Spec
CHECK_DEADLOCK FALSE
INVARIANTS
  MovesEverything
