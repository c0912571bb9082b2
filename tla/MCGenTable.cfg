CONSTANTS
  Sessions <- AllSessions
  RowsOf <- SmallRows
  MaxAttempts = 2
  MaxSecond = 2
  PipeSize = 3
  SmallTable = 2
SPECIFICATION Spec
\* The scripts end; SetupsEnd says they do not stop before.
CHECK_DEADLOCK FALSE
INVARIANT WholeOutput
PROPERTY SetupsEnd
