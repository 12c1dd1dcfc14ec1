\* Two sessions whose handshakes may overlap, one connected at a time or both.
CONSTANTS
  Sessions = {s1, s2}
  Stoppers = {}
  NoClient = NoClient
  MaxCalls = 0
  MaxServerMsgs = 0
  SockCap = 4
  Overlap = TRUE
  MayCrash = FALSE
SPECIFICATION Spec
SYMMETRY SessionSymmetry
INVARIANTS OneHandshake
CHECK_DEADLOCK FALSE
