CONSTANTS
  a = a
  b = b
  Symbols = {a, b}
  Keywords <- MCKeywords
  MaxListed = 2
  MaxEntry = 3
  MaxStream = 6
SPECIFICATION FairSpec
\* the stream is bounded
CHECK_DEADLOCK FALSE
INVARIANTS TypeOK HitsExact
PROPERTIES SearchEnds
