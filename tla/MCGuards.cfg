\* Three deliveries of two messages that are fresh for two seconds.
SPECIFICATION Spec
CONSTANTS
  Calls = {c1, c2, c3}
  NoCall = nocall
  Nonces = {n1, n2}
  Services <- MCServices
  Identities = {peer, desk, outsider}
  Asks = {"question", "order", "fetch"}
  MaxAge = 1
  Ahead = 1
  Kept <- MCKept
  LastTick = 3
  Peer = peer
  SweepLag = 0
  Secrets = {1, 2}
  Desk = desk
SYMMETRY Deliveries
CHECK_DEADLOCK FALSE
INVARIANTS
  OrdersVerified
  OrdersComeFromPeers
PROPERTY
  PassesAgainOnlyLate
