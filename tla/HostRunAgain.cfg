SPECIFICATION FairSpec
CONSTANTS
  Main = main
  Other = other
  NoThread = none
  MaxRuns = 2
  MaxStops = 2
  MaxEvents = 1
PROPERTIES
  EveryRunEnds
CHECK_DEADLOCK FALSE
