CONSTANTS
  MaxConnects = 2
  MaxLines = 2
SPECIFICATION FairSpec
\* the client may be destroyed
CHECK_DEADLOCK FALSE
INVARIANTS JoinedThreadStops NoThreadAfterDisconnect LinesWhole
PROPERTIES DisconnectEnds
