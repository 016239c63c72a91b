\* Two connections keep a poll busy while two threads stop the server.
CONSTANTS
  DeviceNames = {"", "a", "b"}
  MaxDevices = 2
  Connections = {c1, c2}
  Stoppers = {main, other}
  NoReply = none
  MaxStarts = 2
  MaxSent = 2
SPECIFICATION FairSpec
INVARIANTS
  BuiltAsConfigured
  ServerSafe
PROPERTIES
  RequestsSettled
CHECK_DEADLOCK FALSE
