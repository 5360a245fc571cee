CONSTANTS
  Ports = {p1}
  Keywords = {k1}
  Data = {x}
  NoRx = NoRx
  Capacity = 2
  MaxOpens = 1
  MaxEntries = 3
  MaxBuffer = 2
  QueueCapacity = 1
  Requested = {"open_port", "close_port", "subscribe_rx", "unsubscribe_rx", "read_port"}
SPECIFICATION FairSpec
INVARIANTS BufferHasNoHoles
PROPERTIES RequestsAnswered SubscribedEntryPushed UnsubscribedStreamEnds OrphanStreamEnds
\* the connection may end and the bounded port table come to rest
CHECK_DEADLOCK FALSE
