\* The rows of every table with the maps of NULLs, one table after another.
SPECIFICATION PrintSpec
CONSTANTS
  TableOrders <- MCOrders
  Thresholds = {0, 9999}
  Maps <- MCMaps
  RowCount = 2
  MaxLine = 2
INVARIANTS
  RowsAsDeclared
  NullsOfThisRow
