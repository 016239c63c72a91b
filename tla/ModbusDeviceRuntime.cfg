SPECIFICATION FairSpec
CONSTANTS
  Submitters = {loop}
  NoRequest = none
  MaxSubmit = 3
  MaxStarts = 2
INVARIANTS
  ExactlyOnceInOrder
  NoLostSubmit
  StoppedIsQuiet
  FreshLinkAfterFailure
  AtMostOneLate
PROPERTIES
  ImplementsService
  StopReturns
  PendingIsAnswered
CHECK_DEADLOCK FALSE
