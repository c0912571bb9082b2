\* One thread of the Java port: the whole build, both chunks of two, tables alone.
SPECIFICATION Spec
CONSTANTS
  BaseTables <- MCBaseTables
  Volumes <- MCVolumes
  rowcounts <- MCrowcounts
  Weeks = 1
  SmallTable = 5
  Versioned <- MCVersioned
  Lines <- MCLines
  Sessions <- MCSessions
  OldFiles <- MCOldFiles
  TextLeast <- MCTextLeast
  TextMost <- MCTextMost
  Ids = 3
INVARIANTS
  ChunkAsDsdgen
  DrawsAsDsdgen
  ReturnsWithSales
PROPERTIES
  BuildEnds
