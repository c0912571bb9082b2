\* The same builds, the chunks that begin on the last order of a day included.
SPECIFICATION Spec
CONSTANTS
  SmallTable = 9
  Total = 22
  RowsOn <- MCRowsOn
  DayEnd <- MCDayEnd
  LastDay = 10
  Parallels <- Divisions
INVARIANT DatesAsSerial
