\* Three requests of two callers, a message of the peer's own, and a check run.
CONSTANTS
  Callers = {c1, c2}
  MaxCalls = 3
  MaxPushed = 1
  MaxRuns = 1
  ChanCap = 1
SPECIFICATION Spec
SYMMETRY CallerSymmetry
INVARIANTS TypeOK NoPanic PendingIsRunning ClosedMeansStopped
CHECK_DEADLOCK FALSE
