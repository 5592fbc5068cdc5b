\* A client reads three messages in pages of two, or members call four times.
SPECIFICATION AnswersSpec
CONSTANTS
  boss = boss
  guest = guest
  r1 = r1
  n1 = n1
  k1 = k1
  i1 = i1
  i2 = i2
  b1 = b1
  client = client
  Agents = {boss, guest}
  RoomIDs = {r1}
  Nicknames = {n1}
  NicknameKeys = {k1}
  NicknameKey <- MCNicknameKey
  IdempotencyKeys = {i1, i2}
  Bodies = {b1}
  MessageIDs = {1, 2, 3}
  MaxRoomsPerAgent = 1
  MaxMembersPerRoom = 2
  MaxRoomVersion = 4
  MaxMemberVersion = 2
  None = None
  MaxCalls = 4
  MaxInFlight = 2
  Failures = FALSE
  Requests <- SomeRequests
  Sessions = {client}
  AgentOf <- MCAgentOf
  RoomOf <- MCRoomOf
  Limit = 2
CHECK_DEADLOCK FALSE
INVARIANTS
  FollowerMissesNothing
  PagerSeesAll
PROPERTIES
  ServedToReaders
  EveryReaderAnswered
  EveryRequestAnswered
