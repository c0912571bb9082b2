\* Every child of every division of the table.
SPECIFICATION FairSpec
CONSTANTS
  SmallTable = 9
  Total = 22
  RowsOn <- MCRowsOn
  DayEnd <- MCDayEnd
  LastDay = 10
  Parallels <- Divisions
INVARIANTS
  TypeOK
  DatedAsSerial
  PortDatesSame
PROPERTIES
  Finishes
