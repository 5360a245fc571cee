CONSTANTS
  Capacity = 2
  Window = 2
  ChannelSize = 1
  MaxCommands = 4
  MaxNotices = 6
SPECIFICATION FairSpec
\* both sides may be gone
CHECK_DEADLOCK FALSE
INVARIANTS OwnAnswer NoticesWithoutHoles
PROPERTIES CommandEnds NoticeShown
