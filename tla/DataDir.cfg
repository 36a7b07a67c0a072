\* Two directories, two commands, two writes, one failing step and one cut.
CONSTANTS
  Dirs = {a, b}
  Absent = Absent
  Torn = Torn
  None = None
  MaxWrites = 3
  MaxCommands = 2
  MaxFailures = 1
  MaxCuts = 1
SPECIFICATION FairSpec
CHECK_DEADLOCK FALSE
INVARIANTS
  CarriesData
  Agree
PROPERTIES
  NeverOverwrites
  ComesBack
