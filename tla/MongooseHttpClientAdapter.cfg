SPECIFICATION FairSpec
CONSTANTS
  Requests = {r1, r2}
  NoRequest = none
INVARIANTS
  TypeOK
  AtMostOneAnswer
  HeldUntilAnswered
  StopSettlesAccepted
PROPERTIES
  NoSendAfterAnswer
  AcceptedIsAnswered
  StopReturns
CHECK_DEADLOCK FALSE
