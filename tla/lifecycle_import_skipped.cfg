\* One cs process, two commands in a row, the first of them killed on the way.
CONSTANTS
  Procs = {p1}
  MaxDaemons = 2
  MaxCommands = 2
  MaxFaults = 1
  MaxBuilds = 1
SPECIFICATION Spec
INVARIANTS SkipsOnlyImported
CHECK_DEADLOCK FALSE
