CONSTANTS
  MinimumDate = 2450815
  MaximumDate = 2453005
  Tables = {0, 11, 23}
  RowCounts = {6, 8, 10}
  Days <- MCDays
SPECIFICATION Spec
INVARIANT VersionsTile JoinKeepsId JoinNearlyValid IdsAreRows PortJoinsSame
