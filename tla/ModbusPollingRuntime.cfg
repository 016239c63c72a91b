\* Three writes by two submitters, two lives of the worker.
CONSTANTS
  Submitters = {s1, s2}
  MaxWrites = 3
  MaxStarts = 2
SPECIFICATION FairSpec
INVARIANTS
  InOrderOnce
  RegisterIsCurrent
PROPERTIES
  DuePollIsServed
  StopReturns
CHECK_DEADLOCK FALSE
