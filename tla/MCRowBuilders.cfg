\* Every table of a data build, and the update tables that are built alone.
SPECIFICATION Spec
CONSTANTS
  DataTables <- MCWarehouse
  UpdateTables <- MCSource
  Divided <- MCDivided
  Validated <- MCValidated
  Versioned <- MCVersioned
  Lines <- MCLines
  TextLeast <- MCTextLeast
  TextMost <- MCTextMost
  Ids = 3
  FirstRows <- FirstRowSet
  MaxRow = 6
INVARIANTS
  InPlace
  RevisionFollows
  NoOtherOverrun
