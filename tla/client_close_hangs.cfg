\* A check run that ends while the peer keeps publishing diagnostics.
CONSTANTS
  Callers = {c1}
  MaxCalls = 0
  MaxPushed = 2
  MaxRuns = 1
  ChanCap = 1
SPECIFICATION FairSpec
PROPERTIES CloseEnds
CHECK_DEADLOCK FALSE
