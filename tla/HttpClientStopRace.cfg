SPECIFICATION FairSpec
CONSTANTS
  Requests = {r1, r2}
  NoRequest = none
INVARIANTS
  EveryCallIsAnswered
CHECK_DEADLOCK FALSE
