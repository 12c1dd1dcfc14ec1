\* Two requests of one caller, two messages of the peer's own, and a check run
\* whose channel holds one: its handler may block readLoop for good.
CONSTANTS
  Callers = {c1}
  MaxCalls = 2
  MaxPushed = 2
  MaxRuns = 1
  ChanCap = 1
SPECIFICATION FairSpec
PROPERTIES EndEndsCalls CloseReturnsUnlessHandling
CHECK_DEADLOCK FALSE
