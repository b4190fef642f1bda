\* One client that is slower than the events.
SPECIFICATION FairSpec
CONSTANTS
  Clients = {c1}
  MaxQueueSize = 1
  MaxEvents = 3
PROPERTIES
  OverflowDisconnects
\* The bound on events and closed connections bring every behaviour to a stop.
CHECK_DEADLOCK FALSE
