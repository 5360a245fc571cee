CONSTANTS
  Ports = {p1}
  Keywords = {k1, k2}
  Data = {x}
  NoRx = NoRx
  Capacity = 1
  MaxOpens = 2
  MaxEntries = 1
  MaxBuffer = 1
  QueueCapacity = 1
  Requested = {"open_port", "close_port", "subscribe_rx", "unsubscribe_rx", "filter_rx", "add_filter_rx", "unfilter_rx"}
SPECIFICATION Spec
SYMMETRY Symmetry
PROPERTIES ImplementsSubscriptions
INVARIANTS TypeOK StreamMatchesSubscriptions StreamMatchesFilters
\* the connection may end and the bounded port table come to rest
CHECK_DEADLOCK FALSE
