SPECIFICATION FairSpec
CONSTANTS
  Process = {p1, p2, p3}
  Client = {c1, c2, c3}
  NoClient = NoClient
  SOCKET_PORT = 1
  SOCKET_BACKLOG = 0
CHECK_DEADLOCK FALSE
INVARIANTS
  OneClientAtATime
PROPERTIES
  RestartListens
  WaitingEnds
  ListensOrEnds
