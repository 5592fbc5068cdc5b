\* Edits of the allowlist, posts, retries and renames: five calls, three at a time.
SPECIFICATION ServerSpec
CONSTANTS
  boss = boss
  deputy = deputy
  guest = guest
  r1 = r1
  r2 = r2
  n1 = n1
  n2 = n2
  k1 = k1
  i1 = i1
  b1 = b1
  b2 = b2
  Agents = {boss, deputy, guest}
  RoomIDs = {r1, r2}
  Nicknames <- MCNicknames
  NicknameKeys = {k1}
  NicknameKey <- MCNicknameKey
  IdempotencyKeys = {i1}
  Bodies = {b1, b2}
  MessageIDs = {1, 2}
  MaxRoomsPerAgent = 1
  MaxMembersPerRoom = 3
  MaxRoomVersion = 6
  MaxMemberVersion = 6
  None = None
  MaxCalls = 5
  MaxInFlight = 3
  Requests <- EveryRequest
CHECK_DEADLOCK FALSE
INVARIANTS
  NoLostUpdate
  OutsidersSee404
  AnswersMatchEffects
  RoomQuotaExact
  IdempotencyExact
PROPERTY
  NicknameIsCurrent
