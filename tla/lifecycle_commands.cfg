\* Two cs processes, two commands, two daemons, no fault, in any order.
CONSTANTS
  Procs = {p1, p2}
  MaxDaemons = 2
  MaxCommands = 2
  MaxFaults = 0
  MaxBuilds = 1
SPECIFICATION Spec
SYMMETRY ProcSymmetry
INVARIANTS TypeOK OneDaemon RecordMatchesDaemon 
 
CHECK_DEADLOCK FALSE
