CONSTANTS
  Calls = {t1, t2, t3, t4}
  NoCall = NoCall
  Failed = Failed
  MaxSockets = 3
SPECIFICATION FairSpec
\* every call is made once
CHECK_DEADLOCK FALSE
INVARIANTS OwnAnswer NoOrphanCall
PROPERTIES SettledOnce CallsSettle
