\* Two sessions that overlap as they like, with a call each after the handshake.
CONSTANTS
  Sessions = {s1, s2}
  Stoppers = {}
  NoClient = NoClient
  MaxCalls = 1
  MaxServerMsgs = 0
  SockCap = 4
  Overlap = TRUE
  MayCrash = FALSE
SPECIFICATION Spec
SYMMETRY SessionSymmetry
INVARIANTS TypeOK AnswersAreOwn AnsweredAtMostOnce PendingIsOwned IdleStopIsAlone
PROPERTIES ImplementsBroker
CHECK_DEADLOCK FALSE
