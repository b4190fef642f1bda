\* Two connections and more events than a queue holds: who connects, reads,
\* fails and leaves when is free.
SPECIFICATION FairSpec
CONSTANTS
  Clients = {c1, c2}
  MaxQueueSize = 2
  MaxEvents = 4
INVARIANTS
  TypeOK
  StreamFaithful
PROPERTIES
  StreamSpec
  SubscriptionEnds
\* The bound on events and closed connections bring every behaviour to a stop.
CHECK_DEADLOCK FALSE
