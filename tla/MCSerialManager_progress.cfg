CONSTANTS
  Clients = {c1, c2}
  Ports = {p1}
  Data = {x}
  Keywords = {EmptyKeyword}
  NoKeyword = NoKeyword
  EmptyKeyword = EmptyKeyword
  Free = Free
  NoRx = NoRx
  NoOwner = NoOwner
  Capacity = 1
  MaxOpens = 1
  MaxEntries = 2
  MaxLogs = 1
  MaxNotices = 1
  Commands <- SplitCommands
SPECIFICATION FairSpec
\* the process exits after SIGINT
CHECK_DEADLOCK FALSE
INVARIANTS SomebodyGoesOn
PROPERTIES RequestsAnswered ClosedPortEndsLog EntryReachesLog ImplementsFairLease
