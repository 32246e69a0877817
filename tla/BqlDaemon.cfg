SPECIFICATION FairSpec
CONSTANTS
  LastHour = 20
  NamedWindows <- MCNamedWindows
  MaxRadius = 3
  MaxTop = 2
  Actors = {"c1", "c2"}
  Roots = {"m"}
  Lines <- MCLines
  Memories <- MCMemories
  OsErrors <- MCOsErrors
  MaxLines = 2
  FirstClock = 40
  LastClock = 40
  TickBy = 7
  Requests <- MCRequests
  MaxCalls <- MCCalls
INVARIANTS
  TypeOK
  LoadedOnce
  CountersConsistent
  AnswerTellsOutcome
PROPERTIES
  OneSnapshotPerRoot
  EveryRequestEnds
CHECK_DEADLOCK FALSE
