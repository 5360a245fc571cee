CONSTANTS
  Clients = {c1, c2}
  Browsers = {b1, b2}
  Signal = Signal
  Free = Free
SPECIFICATION FairSpec
\* the process exits after SIGINT
CHECK_DEADLOCK FALSE
PROPERTIES SigintEnds
