SPECIFICATION FairSpec
CONSTANTS
  Publishers = {p1, p2}
  Consumer = loop
  NoOwner = none
  MaxPush = 2
  MaxClear = 1
INVARIANTS
  TypeOK
  NoLostWakeup
  InOrder
PROPERTIES
  ImplementsChannel
  EventsMove
CHECK_DEADLOCK FALSE
