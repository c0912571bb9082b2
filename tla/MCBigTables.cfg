\* The same build, in a word too narrow for its row numbers.
SPECIFICATION Spec
CONSTANTS
  SmallTable = 3
  NTable = 5
  Rows <- MCRows
  ReturnsOf <- MCReturnsOf
  Selected <- Implemented
  Stream <- MCStream
  TableOf <- MCTableOf
  DupOf <- MCDupOf
  Budget <- MCBudget
  PerRow <- MCPerRow
  PerLine <- MCPerLine
  CountStream <- MCCountStream
  ReturnStream <- MCReturnStream
  MinLines = 1
  MaxLines = 2
  ReturnPct = 10
  Random <- MCRandom
  Period = 7
  IntRange <- NarrowInt
  Parallels <- Either
  MaxCrashes = 1
INVARIANT StreamsInSync

