SPECIFICATION Spec
CONSTANTS
  p1 = p1
  p2 = p2
  Procs = {p1, p2}
  ChunkSize = 2
  Overlap = 1
  MaxChunkLines = 3
  Trees <- MCTrees
  RuleSets <- MCRuleSets
  Limits = {4, 8}
  SafeChars = 2
  MinChars = 2
  MaxAttempts = 2
  BatchSize = 2
  MaxCommands = 2
  MaxFaults = 1
INVARIANTS TypeOK   SearchIsFiltered
 
SYMMETRY ProcSymmetry
CHECK_DEADLOCK FALSE
