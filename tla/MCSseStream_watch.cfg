CONSTANTS
  Ports = {p1, p2}
  Data = {x}
  NoRx = NoRx
  Quiet = {p2}
  Capacity = 2
  MaxOpens = 2
  MaxEntries = 3
SPECIFICATION QuietSpec
PROPERTIES ShownWithoutHoles EntryShown WatchFollowsTable
