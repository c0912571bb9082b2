SPECIFICATION Spec
CONSTANTS
  DstFiles <- MCDstFiles
  EntryBlock = 2
  StringBlock = 8
  D_NAME_LEN = 20
  Unwritable = {"dir", "."}
  MissingDirs = {"dir"}
  NoFile = NoFile
  DateOf <- MCDateOf
  DayOf <- MCDayOf
  Leap = {2000}
  DaysInYear = 4
  Seeds = {7}
  DcompOptions <- MCDcompOptions
  QgenOptions <- MCQgenOptions
  ParamFiles <- MCParamFiles
  NoOption = NoOption
  NoWord = NoWord
  Jobs <- MCJobs
  Templates <- MCTemplates
  QueryLists <- MCQueryLists
  NameOrder <- MCNameOrder
  StreamOne <- MCStreamOne
INVARIANTS
  CommandLineWins
  DistributionsAsWritten
  StreamsInOrder
  ConsistentQueries
PROPERTIES
  SessionEnds
