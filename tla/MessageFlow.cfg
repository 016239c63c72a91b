\* A device and a name no device has, so that a request can be routed,
\* answered late, or refused. Two requests meet two samples and two messages.
CONSTANTS
  Devices = {d1}
  Unknown = d0
  Clients = {c1}
  MaxRequests = 2
  MaxSamples = 2
  MaxMessages = 2
  Urls = {"fail", "page"}
  Backlog = 2
SPECIFICATION FairSpec
INVARIANTS
  RequestsKept
  CommandNotOlder
  ClientsSeeEverySample
PROPERTIES
  EveryRequestAnswered
CHECK_DEADLOCK FALSE
