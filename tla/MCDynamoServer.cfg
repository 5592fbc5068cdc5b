\* Any three requests, or four of authors, over an unreliable table.
SPECIFICATION BusySpec
CONSTANTS
  boss = boss
  deputy = deputy
  guest = guest
  r1 = r1
  r2 = r2
  n1 = n1
  N1 = N1
  n2 = n2
  k1 = k1
  k2 = k2
  i1 = i1
  b1 = b1
  b2 = b2
  Agents = {boss, deputy, guest}
  RoomIDs = {r1, r2}
  Nicknames <- MCNicknames
  NicknameKeys = {k1, k2}
  NicknameKey <- MCNicknameKey
  IdempotencyKeys = {i1}
  Bodies = {b1, b2}
  MessageIDs = {1, 2, 3, 4}
  MaxRoomsPerAgent = 1
  MaxMembersPerRoom = 3
  MaxRoomVersion = 9
  MaxMemberVersion = 9
  None = None
  MaxCalls = 4
  MaxInFlight = 2
  Failures = TRUE
  Requests <- AllRequests
CHECK_DEADLOCK FALSE
INVARIANTS
  RetriesAgree
  PostConflictsHaveACause
PROPERTY
  CommitsAsStore
