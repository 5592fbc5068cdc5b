\* A change of role when nothing fails.
SPECIFICATION DynamoSpec
CONSTANTS
  boss = boss
  deputy = deputy
  guest = guest
  r1 = r1
  r2 = r2
  n1 = n1
  N1 = N1
  n2 = n2
  k1 = k1
  k2 = k2
  i1 = i1
  b1 = b1
  b2 = b2
  Agents = {boss, deputy, guest}
  RoomIDs = {r1}
  Nicknames <- MCNicknames
  NicknameKeys = {k1, k2}
  NicknameKey <- MCNicknameKey
  IdempotencyKeys = {i1}
  Bodies = {b1, b2}
  MessageIDs = {1, 2, 3, 4}
  MaxRoomsPerAgent = 1
  MaxMembersPerRoom = 3
  MaxRoomVersion = 9
  MaxMemberVersion = 9
  None = None
  MaxCalls = 3
  MaxInFlight = 1
  Failures = FALSE
  Requests <- EveryRequest
CHECK_DEADLOCK FALSE
INVARIANT
  UnavailableOnlyInOutage
