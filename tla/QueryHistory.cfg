SPECIFICATION Spec
CONSTANTS
  LastHour = 20
  NamedWindows <- MCNamedWindows
  MaxRadius = 3
  MaxTop = 2
  Actors = {"p1", "p2"}
  Roots = {"m"}
  Lines <- MCLines
  Memories <- MCMemories
  OsErrors <- MCOsErrors
  MaxLines = 2
  FirstClock = 40
  LastClock = 47
  TickBy = 7
  Queries <- MCQueries
  Requests <- MCRequests
  MaxEntries = 1
  DefaultMax = 3
  Extras <- MCExtras
  MaxDepth = 1
  MaxItems = 2
  MaxFaults = 1
INVARIANTS
  TypeOK
  
  
  
  TraceTellsOutcome
  RowsAreBounded
  IndexAgreesWithScan
CHECK_DEADLOCK FALSE
