CONSTANTS
  Clients = {c1}
  Ports = {p1}
  Data = {x}
  Keywords = {}
  NoKeyword = NoKeyword
  EmptyKeyword = EmptyKeyword
  Free = Free
  NoRx = NoRx
  NoOwner = NoOwner
  Capacity = 1
  MaxOpens = 1
  MaxEntries = 1
  MaxLogs = 2
  MaxNotices = 2
  Commands <- TableCommands
SPECIFICATION Spec
\* the process exits after SIGINT
CHECK_DEADLOCK FALSE
PROPERTIES RefusedOnlyWhileRunning
