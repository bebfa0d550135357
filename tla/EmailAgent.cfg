\* One dispatcher and two members of staff on one message; two processes lost
\* or bookkeeping statements failed.
CONSTANTS
  Tasks = {t1}
  Workers = {w1}
  Requests = {r1, r2}
  NoTask = NoTask
  MaxAttempts = 2
  FaultBound = 2
SPECIFICATION FairSpec
CHECK_DEADLOCK FALSE
INVARIANTS
  OneCopyUnlessRetried
PROPERTIES
  DiscardedStaysUnsent
  ParkedStepIsSettled
