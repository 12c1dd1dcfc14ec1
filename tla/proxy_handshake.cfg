\* Two sessions; the first handshake completes before another begins.  The
\* server sends one message of its own.
CONSTANTS
  Sessions = {s1, s2}
  Stoppers = {}
  NoClient = NoClient
  MaxCalls = 1
  MaxServerMsgs = 1
  SockCap = 4
  Overlap = FALSE
  MayCrash = FALSE
SPECIFICATION Spec
SYMMETRY SessionSymmetry
INVARIANTS OneHandshake PhaseMeansCached HandshakeServed
PROPERTIES PhaseMovesForward
CHECK_DEADLOCK FALSE
