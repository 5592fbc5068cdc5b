\* Four agents, room for three: grants, revokes, nicknames in every order.
SPECIFICATION Spec
CONSTANTS
  Agents = {a1, a2, a3, a4}
  RoomIDs = {r1}
  n1 = n1
  N1 = N1
  n2 = n2
  k1 = k1
  k2 = k2
  Nicknames <- MCNicknames
  NicknameKeys = {k1, k2}
  NicknameKey <- MCNicknameKey
  IdempotencyKeys = {i1}
  Bodies = {b1}
  MessageIDs = {}
  MaxRoomsPerAgent = 1
  MaxMembersPerRoom = 3
  MaxRoomVersion = 4
  MaxMemberVersion = 3
  None = None
CHECK_DEADLOCK FALSE
SYMMETRY AgentsAlike
INVARIANTS
  TypeOK
  ReservationsMatchMembers
  MemberCountExact
  AuditExplainsAllowlist
  SoleOwner
  AuthorizersAgree
PROPERTIES
  AllowlistChangesAuthorized
  ImplementsBoard
