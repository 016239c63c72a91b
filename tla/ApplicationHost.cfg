SPECIFICATION FairSpec
CONSTANTS
  Main = main
  Other = other
  NoThread = none
  MaxRuns = 2
  MaxStops = 2
  MaxEvents = 1
INVARIANTS
  TypeOK
  ResultsBeforeShutdown
  NothingUsedAfterFree
  DestroyedIsEmpty
PROPERTIES
  FirstRunEnds
CHECK_DEADLOCK FALSE
