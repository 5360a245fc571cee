CONSTANTS
  Clients = {c1, c2}
  Ports = {p1}
  Data = {x}
  Keywords = {x}
  NoKeyword = NoKeyword
  EmptyKeyword = EmptyKeyword
  Free = Free
  NoRx = NoRx
  NoOwner = NoOwner
  Capacity = 1
  MaxOpens = 1
  MaxEntries = 1
  MaxLogs = 2
  MaxNotices = 1
  Commands <- TableCommands
SPECIFICATION Spec
SYMMETRY Symmetry
\* the process exits after SIGINT
CHECK_DEADLOCK FALSE
INVARIANTS TypeOK OneLiveLogPerPort LiveLogIsRegistered ArmedTimerIsRegistered AnnouncedLogStops
PROPERTIES ImplementsLogLease
