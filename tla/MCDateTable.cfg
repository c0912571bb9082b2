CONSTANT Rows = 73049
SPECIFICATION DateSpec
INVARIANT EarlierDays FlagsDoNotLinger PortBuildsSameDate
PROPERTY RowsFollow
