CONSTANTS
  Sessions <- AllSessions
  RowsOf <- SmallRows
  SmallTable = 10
SPECIFICATION Spec
INVARIANTS
  UpdateDatesInZone
  InventoryReplaces
  SetDelivered
  PortCountsSame
