\* Two agents of which one greets the other; two troubles.
SPECIFICATION Spec
CONSTANTS
  Agents = {alice, bob}
  Peer = bob
  MaxTroubles = 2
CHECK_DEADLOCK FALSE
INVARIANTS
  OnlyPublishedTakePart
PROPERTY
  EventuallyPublished
