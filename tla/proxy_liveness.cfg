\* Liveness: a session that does its handshake and a connection that shuts the
\* server down, a server that may die, at most one unread message per connection.
CONSTANTS
  Sessions = {s1}
  Stoppers = {p1}
  NoClient = NoClient
  MaxCalls = 0
  MaxServerMsgs = 0
  SockCap = 1
  Overlap = TRUE
  MayCrash = TRUE
SPECIFICATION FairSpec
PROPERTIES EveryCallEnds ServerExitEndsDaemon IdleDaemonEnds
CHECK_DEADLOCK FALSE
