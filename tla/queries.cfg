\* Fourteen workspaces, 26 commands, a server that is there or not, cold or not, two
\* failures and a server that dies; budgets a tenth of the code's.
CONSTANTS
  NeedsPriming = {2}
  SmallTotal = 8
  MediumTotal = 12
  LargeTotal = 16
  DepthBonus = 2
  HardCap = 24
  Worlds <- MCWorlds
  Commands <- MCCommands
  MaxFaults = 2
SPECIFICATION FairSpec
INVARIANTS
  TypeOK  OneDefinition CallersAreATree CallersAreClosed
  QueryKeepsParts PrecisionIsKept WarmMeansIndexed
PROPERTIES QueryEnds
CHECK_DEADLOCK FALSE
