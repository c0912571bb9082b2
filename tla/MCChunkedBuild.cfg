\* Two children, each with its own files, killed twice in all, with and
\* without -force; and the serial build.
SPECIFICATION FairSpec
CONSTANTS
  SmallTable = 3
  NTable = 5
  Rows <- MCRows
  ReturnsOf <- MCReturnsOf
  Selected <- Implemented
  Stream <- MCStream
  TableOf <- MCTableOf
  DupOf <- MCDupOf
  Budget <- MCBudget
  PerRow <- MCPerRow
  PerLine <- MCPerLine
  CountStream <- MCCountStream
  ReturnStream <- MCReturnStream
  MinLines = 1
  MaxLines = 2
  ReturnPct = 10
  Random <- MCRandom
  Period = 7
  IntRange <- WideInt
  Parallels <- Either
  MaxCrashes = 2
INVARIANTS
  TypeOK
  StreamsInSync
  FilesAreSerial
  CompleteBuild
  ReturnsHaveSales
PROPERTIES
  ForcedBuildFinishes
  WholeChunks
