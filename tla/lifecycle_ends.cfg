\* One cs process, two commands, two daemons, one fault, an edit of the build files.
CONSTANTS
  Procs = {p1}
  MaxDaemons = 2
  MaxCommands = 2
  MaxFaults = 1
  MaxBuilds = 2
SPECIFICATION FairSpec
PROPERTIES DaemonsEnd CommandsEnd
CHECK_DEADLOCK FALSE
