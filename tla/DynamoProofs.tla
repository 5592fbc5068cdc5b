---------------------------- MODULE DynamoProofs ----------------------------
(***************************************************************************)
(* Proofs about DynamoServer, for every value of its constants: the reads  *)
(* and the conditional transactions of any number of handlers on one table *)
(* do to the rooms what MemoryStore does under its mutex, and what the     *)
(* callers are told is true of the table.                                  *)
(*                                                                         *)
(* The one transaction that is not an operation of the store is a change   *)
(* of a nickname on a membership that was removed and admitted again after *)
(* it was read: RenameStep says what even that one leaves alone.  Each     *)
(* handler's local state is an invariant of its own, StepOK, that no step  *)
(* of another handler can take from it.                                    *)
(***************************************************************************)
EXTENDS DynamoServer, BoardServerProofs

-----------------------------------------------------------------------------
(* What happens to the table. *)

(* A change of a nickname that may leave any reservations in its room.     *)
RenameStep(r, a, n) ==
  /\ IsMember(r, a)
  /\ members[r][a].version < MaxMemberVersion
  /\ members' = [members EXCEPT ![r][a] =
       [role |-> @.role, version |-> @.version + 1, nickname |-> n]]
  /\ nicknames' \in [RoomIDs -> [NicknameKeys -> Agents \cup {None}]]
  /\ \A s \in RoomIDs : s # r => nicknames'[s] = nicknames[s]
  /\ UNCHANGED <<room, messages, idempotency, audits, quotas>>

AnyRename ==
  \E r \in RoomIDs, a \in Agents, n \in Nicknames : RenameStep(r, a, n)

TableStep == [Next]_vars \/ AnyRename

(* Nobody holds a nickname in a room that does not exist, and this backend *)
(* archives none.                                                          *)
AbsentUnreserved ==
  \A r \in RoomIDs, k \in NicknameKeys : ~Exists(r) => nicknames[r][k] = None

NothingArchived == \A r \in RoomIDs : room[r].archived = FALSE

TableInv == StoreInv /\ MemberCountExact /\ RoomQuotaExact
            /\ AbsentUnreserved /\ NothingArchived

LEMMA RenamedMember ==
  ASSUME TypeOK, NEW r \in RoomIDs, NEW a \in Agents, NEW n \in Nicknames,
         RenameStep(r, a, n), NEW s \in RoomIDs, NEW b \in Agents
  PROVE  /\ \/ members'[s][b] = members[s][b]
            \/ s = r /\ b = a /\ members'[s][b].version = members[s][b].version + 1
         /\ members'[s][b].role = members[s][b].role
         /\ members[s][b] \in Membership
BY DEF RenameStep, TypeOK

LEMMA RenameTypeOK ==
  ASSUME TypeOK, NEW r \in RoomIDs, NEW a \in Agents, NEW n \in Nicknames, RenameStep(r, a, n)
  PROVE  TypeOK'
<1>1. members[r][a] \in Membership
  BY DEF TypeOK
<1>2. [role |-> members[r][a].role, version |-> members[r][a].version + 1, nickname |-> n]
        \in Membership
  BY <1>1 DEF Membership
<1>3. members' \in [RoomIDs -> [Agents -> Membership]]
  BY <1>2 DEF RenameStep, TypeOK
<1>4. QED
  BY <1>3 DEF RenameStep, TypeOK

LEMMA RenameStoreInv ==
  ASSUME TableInv, NEW r \in RoomIDs, NEW a \in Agents, NEW n \in Nicknames,
         RenameStep(r, a, n)
  PROVE  TableInv'
<1>1. TypeOK /\ TypeOK'
  BY RenameTypeOK DEF TableInv, StoreInv
<1>2. /\ room' = room /\ messages' = messages /\ idempotency' = idempotency
      /\ audits' = audits /\ quotas' = quotas
  BY DEF RenameStep
<1>3. \A s \in RoomIDs, b \in Agents : members'[s][b].role = members[s][b].role
  BY <1>1, RenamedMember
<1>4. \A s \in RoomIDs, b \in Agents :
        \/ members'[s][b] = members[s][b]
        \/ s = r /\ b = a /\ members'[s][b].version = members[s][b].version + 1
  BY <1>1, RenamedMember
<1>5. IsMember(r, a) /\ members[r][a].version < MaxMemberVersion
      /\ members[r][a].version \in Nat /\ MaxMemberVersion \in Nat
  BY <1>1, NumberAssumption DEF RenameStep, TypeOK, Membership
<1>6. Exists(r)
  BY <1>5 DEF TableInv, StoreInv, AbsentRoomsEmpty, IsMember, NotMember
<1>7. VersionsBounded'
  BY <1>2, <1>4, <1>5 DEF TableInv, StoreInv, VersionsBounded, Exists
<1>8. SoleOwner' /\ AuditInv'
  <2>1. SoleOwner /\ AuditInv
    BY DEF TableInv, StoreInv
  <2>2. SoleOwner'
    BY <1>2, <1>3, <2>1 DEF SoleOwner
  <2>3. AuditInv'
    BY <1>2, <1>3, <2>1 DEF AuditInv
  <2>4. QED
    BY <2>2, <2>3
<1>9. AbsentRoomsEmpty' /\ AbsentUnreserved'
  <2>1. \A s \in RoomIDs : s # r => nicknames'[s] = nicknames[s]
    BY DEF RenameStep
  <2>2. AbsentUnreserved'
    BY <1>2, <1>6, <2>1 DEF TableInv, AbsentUnreserved, Exists
  <2>3. \A s \in RoomIDs, b \in Agents : s # r => members'[s][b] = members[s][b]
    BY <1>4, Zenon
  <2>4. AbsentRoomsEmpty
    BY DEF TableInv, StoreInv
  <2>5. AbsentRoomsEmpty'
    BY <1>2, <1>6, <2>3, <2>4 DEF AbsentRoomsEmpty, Exists
  <2>6. QED
    BY <2>2, <2>5
<1>10. MembersNumbered'
  BY <1>3, <1>4, <1>5 DEF TableInv, StoreInv, MembersNumbered, IsMember
<1>11. IdempotencyExact' /\ RoomQuotaExact' /\ NothingArchived'
  BY <1>2 DEF TableInv, StoreInv, IdempotencyExact, RoomQuotaExact, NothingArchived
<1>12. MemberCountExact'
  <2>1. \A s \in RoomIDs : MembersOf(s)' = MembersOf(s)
    BY <1>3 DEF MembersOf, IsMember
  <2>2. QED
    BY <1>2, <2>1 DEF TableInv, MemberCountExact
<1>13. QED
  BY <1>1, <1>7, <1>8, <1>9, <1>10, <1>11, <1>12 DEF TableInv, StoreInv

(* What the operations of the store do to the last two parts of TableInv.  *)
LEMMA NextAbsentUnreserved ==
  ASSUME TypeOK, AbsentUnreserved, AbsentRoomsEmpty, NothingArchived, [Next]_vars
  PROVE  AbsentUnreserved' /\ NothingArchived'
<1>1. CASE UNCHANGED vars
  BY <1>1 DEF vars, AbsentUnreserved, NothingArchived, Exists
<1>2. ASSUME NEW r \in RoomIDs, NEW a \in Agents, CreateRoom(r, a)
      PROVE  AbsentUnreserved' /\ NothingArchived'
  <2>1. \A s \in RoomIDs : room'[s] = IF s = r
          THEN [owner |-> a, version |-> 1, archived |-> FALSE, memberCount |-> 1]
          ELSE room[s]
    BY <1>2 DEF TypeOK, CreateRoom
  <2>2. \A s \in RoomIDs : s # r => nicknames'[s] = nicknames[s]
    BY <1>2 DEF TypeOK, CreateRoom
  <2>3. QED
    BY <2>1, <2>2, NoneAssumption DEF AbsentUnreserved, NothingArchived, Exists
<1>3. ASSUME NEW r \in RoomIDs, NEW t \in Agents, NEW change,
             room' = [room EXCEPT ![r] = EditedRoom(r, change)],
             nicknames' = nicknames \/ nicknames' = [nicknames EXCEPT ![r] = Released(r, t)]
      PROVE  AbsentUnreserved' /\ NothingArchived'
  <2>1. \A s \in RoomIDs : room'[s].owner = room[s].owner /\ room'[s].archived = room[s].archived
    BY <1>3 DEF TypeOK, EditedRoom
  <2>2. ASSUME NEW s \in RoomIDs, NEW k \in NicknameKeys
        PROVE  nicknames'[s][k] \in {nicknames[s][k], None}
    <3>1. nicknames'[s] = nicknames[s] \/ nicknames'[s] = Released(s, t)
      BY <1>3 DEF TypeOK
    <3>2. QED
      BY <3>1 DEF Released
  <2>3. NothingArchived'
    BY <2>1 DEF NothingArchived
  <2>4. AbsentUnreserved'
    BY <2>1, <2>2, Zenon DEF AbsentUnreserved, Exists
  <2>5. QED
    BY <2>3, <2>4
<1>6. ASSUME NEW r \in RoomIDs, NEW a, NEW t \in Agents, NEW role, NEW mv, NEW rv,
             GrantAllowlist(r, a, t, role, mv, rv) \/ RevokeAllowlist(r, a, t, mv, rv)
      PROVE  AbsentUnreserved' /\ NothingArchived'
  BY <1>3, <1>6 DEF GrantAllowlist, RevokeAllowlist
<1>4. ASSUME NEW r \in RoomIDs, NEW a \in Agents, NEW n \in Nicknames,
             NEW mv \in MemberVersions, SetNickname(r, a, n, mv)
      PROVE  AbsentUnreserved' /\ NothingArchived'
  <2>1. IsMember(r, a)
    BY <1>4, NicknameChecked DEF SetNickname
  <2>2. Exists(r)
    BY <2>1 DEF AbsentRoomsEmpty, IsMember, NotMember
  <2>3. room' = room /\ \A s \in RoomIDs : s # r => nicknames'[s] = nicknames[s]
    BY <1>4 DEF TypeOK, SetNickname
  <2>4. QED
    BY <2>2, <2>3 DEF AbsentUnreserved, NothingArchived, Exists
<1>5. ASSUME NEW r, NEW a, NEW k, NEW body, NEW n, NEW mv, NEW id,
             PostMessage(r, a, k, body, n, mv, id)
      PROVE  AbsentUnreserved' /\ NothingArchived'
  BY <1>5 DEF PostMessage, AbsentUnreserved, NothingArchived, Exists
<1>7. QED
  BY <1>1, <1>2, <1>4, <1>5, <1>6 DEF Next

LEMMA NextTableInv == ASSUME TableInv, TableStep PROVE TableInv'
<1>1. CASE [Next]_vars
  BY <1>1, NextStoreInv, NextMemberCountExact, NextRoomQuotaExact, NextAbsentUnreserved
  DEF TableInv, StoreInv
<1>2. CASE AnyRename
  BY <1>2, RenameStoreInv DEF AnyRename
<1>3. QED
  BY <1>1, <1>2 DEF TableStep

LEMMA InitTableInv == Init => TableInv
<1>1. Init => AbsentUnreserved /\ NothingArchived
  BY DEF Init, AbsentUnreserved, NothingArchived, NoRoom
<1>2. QED
  BY <1>1, InitStoreInv, InitMemberCountExact, InitRoomQuotaExact DEF TableInv

(* What a handler that waits may count on.                                 *)
Evolves ==
  /\ KeysStay
  /\ \A r \in RoomIDs :
       /\ LogGrows(r)
       /\ Exists(r) => room'[r].owner = room[r].owner
       /\ \A a \in Agents : MembershipStep(r, a)

LEMMA OwnersForGood ==
  ASSUME TypeOK, [Next]_vars, NEW s \in RoomIDs, Exists(s)
  PROVE  room'[s].owner = room[s].owner
<1>1. CASE UNCHANGED vars
  BY <1>1 DEF vars
<1>2. ASSUME NEW r \in RoomIDs, NEW a \in Agents, CreateRoom(r, a)
      PROVE  room'[s].owner = room[s].owner
  BY <1>2 DEF TypeOK, CreateRoom, CreateRoomResult
<1>3. QED
  BY <1>1, <1>2, OwnersStay DEF Next

LEMMA TableEvolves == ASSUME TableInv, TableStep PROVE Evolves
<1>1. CASE [Next]_vars
  BY <1>1, StoreKeepsKeys, LogsGrow, MembershipSteps, OwnersForGood
  DEF TableInv, StoreInv, Evolves
<1>2. ASSUME NEW r \in RoomIDs, NEW a \in Agents, NEW n \in Nicknames, RenameStep(r, a, n)
      PROVE  Evolves
  <2>1. room' = room /\ idempotency' = idempotency /\ audits' = audits
    BY <1>2 DEF RenameStep
  <2>2. \A s \in RoomIDs : audits[s] \in Seq(AuditRecord)
    BY DEF TableInv, StoreInv, TypeOK
  <2>3. \A s \in RoomIDs : LogGrows(s)
    BY <2>1, <2>2 DEF LogGrows
  <2>4. \A s \in RoomIDs, b \in Agents : MembershipStep(s, b)
    BY <1>2, RenamedMember DEF TableInv, StoreInv, MembershipStep, RenameStep, IsMember
  <2>5. QED
    BY <2>1, <2>3, <2>4 DEF Evolves, KeysStay
<1>3. QED
  BY <1>1, <1>2 DEF TableStep, AnyRename

-----------------------------------------------------------------------------
(* Each transaction is an operation of the store. *)

(* A room that does not exist is blank in every table.                     *)
LEMMA AbsentRoomsBlank ==
  ASSUME TableInv, NEW r \in RoomIDs, ~Exists(r)
  PROVE  /\ members[r] = [b \in Agents |-> NotMember]
         /\ nicknames[r] = [k \in NicknameKeys |-> None]
         /\ messages[r] = {}
         /\ idempotency[r] = [b \in Agents |-> [k \in IdempotencyKeys |-> NotUsed]]
         /\ audits[r] = <<>>
<1>1. TypeOK
  BY DEF TableInv, StoreInv
<1>2. messages[r] = {} /\ \A b \in Agents : members[r][b] = NotMember
  BY DEF TableInv, StoreInv, AbsentRoomsEmpty
<1>3. members[r] = [b \in Agents |-> NotMember]
  BY <1>1, <1>2 DEF TypeOK
<1>4. nicknames[r] = [k \in NicknameKeys |-> None]
  BY <1>1 DEF TypeOK, TableInv, AbsentUnreserved
<1>5. \A b \in Agents, k \in IdempotencyKeys : idempotency[r][b][k] = NotUsed
  BY <1>2 DEF TableInv, StoreInv, IdempotencyExact
<1>6. idempotency[r] = [b \in Agents |-> [k \in IdempotencyKeys |-> NotUsed]]
  BY <1>1, <1>5 DEF TypeOK
<1>7. audits[r] \in Seq(AuditRecord) /\ Len(audits[r]) = 0
  BY <1>1 DEF TypeOK, TableInv, StoreInv, AuditInv, VersionsBounded
<1>8. QED
  BY <1>2, <1>3, <1>4, <1>6, <1>7

LEMMA PutRoomCreates ==
  ASSUME TableInv, NEW q \in Requests, ~Exists(q.room),
         quotas[q.agent] < MaxRoomsPerAgent, PutRoom(q)
  PROVE  CreateRoom(q.room, q.agent)
<1> DEFINE r == q.room
           a == q.agent
           owner == [role |-> "owner", version |-> 1, nickname |-> None]
           first == Audit("room_created", a, a, "owner")
<1>1. r \in RoomIDs /\ a \in Agents /\ TypeOK
  BY RequestFields DEF TableInv, StoreInv
<1>2. CreateRoomResult(r, a) = "ok"
  BY <1>1, NumberAssumption DEF CreateRoomResult, TypeOK
<1>3. /\ members[r] = [b \in Agents |-> NotMember]
      /\ nicknames[r] = [k \in NicknameKeys |-> None]
      /\ messages[r] = {}
      /\ idempotency[r] = [b \in Agents |-> [k \in IdempotencyKeys |-> NotUsed]]
      /\ audits[r] = <<>>
  BY <1>1, AbsentRoomsBlank
<1>4. members' = [members EXCEPT ![r] = [b \in Agents |-> IF b = a THEN owner ELSE NotMember]]
  <2>1. members' = [members EXCEPT ![r][a] = owner]
    BY DEF PutRoom
  <2>2. [members[r] EXCEPT ![a] = owner] = [b \in Agents |-> IF b = a THEN owner ELSE NotMember]
    BY <1>3
  <2> HIDE DEF owner
  <2>3. QED
    BY <1>1, <2>1, <2>2 DEF TypeOK
<1>5. nicknames' = [nicknames EXCEPT ![r] = [k \in NicknameKeys |-> None]]
  BY <1>1, <1>3 DEF PutRoom, TypeOK
<1>6. messages' = [messages EXCEPT ![r] = {}]
  BY <1>1, <1>3 DEF PutRoom, TypeOK
<1>7. idempotency' = [idempotency EXCEPT ![r] =
        [b \in Agents |-> [k \in IdempotencyKeys |-> NotUsed]]]
  BY <1>1, <1>3 DEF PutRoom, TypeOK
<1>8. audits' = [audits EXCEPT ![r] = <<first>>]
  <2>1. audits' = [audits EXCEPT ![r] = Append(audits[r], first)]
    BY DEF PutRoom
  <2>2. Append(<<>>, first) = <<first>>
    OBVIOUS
  <2>3. QED
    BY <1>3, <2>1, <2>2
<1>9. /\ room' = [room EXCEPT ![r] =
           [owner |-> a, version |-> 1, archived |-> FALSE, memberCount |-> 1]]
      /\ quotas' = [quotas EXCEPT ![a] = @ + 1]
  BY DEF PutRoom
<1>10. QED
  BY <1>2, <1>4, <1>5, <1>6, <1>7, <1>8, <1>9 DEF CreateRoom

(* The conditions on room and actor are those of AllowlistResult.          *)
LEMMA ManagerConditions ==
  ASSUME TableInv, NEW r \in RoomIDs, NEW a \in Agents, NEW t, NEW mv, NEW rv,
         RoomOpen(r), room[r].version = rv, t \notin {a, room[r].owner},
         members[r][a].role \in PermittedRoles["UpdateAllowList"], members[r][a].version = mv
  PROVE  AllowlistResult(r, a, t, mv, rv) = "ok"
<1>1. IsMember(r, a) /\ RoleCan(members[r][a].role, "UpdateAllowList")
  BY NoneAssumption DEF IsMember, RoleCan, PermittedRoles, Roles
<1>2. CheckActor(r, a, mv, "UpdateAllowList") = "ok"
  BY <1>1 DEF CheckActor, VersionDiffers
<1>3. QED
  BY <1>2 DEF AllowlistResult, RoomOpen

LEMMA UpdateIsEdit ==
  ASSUME TypeOK, NEW r \in RoomIDs, NEW change \in {1, -1}, UpdateRoom(r, change)
  PROVE  room' = [room EXCEPT ![r] = EditedRoom(r, change)]
<1>1. room \in [RoomIDs -> Room] /\ room[r] \in Room
  BY DEF TypeOK
<1>2. PICK old : old = room[r]
  OBVIOUS
<1>3. old = [owner |-> old.owner, version |-> old.version, archived |-> old.archived,
             memberCount |-> old.memberCount]
  BY <1>1, <1>2 DEF Room
<1>4. [[old EXCEPT !.version = @ + 1] EXCEPT !.memberCount = @ + change] = EditedRoom(r, change)
  <2>1. PICK o, v, x, n :
          old = [owner |-> o, version |-> v, archived |-> x, memberCount |-> n]
    BY <1>3
  <2>2. PICK mid : mid = [old EXCEPT !.version = @ + 1]
    OBVIOUS
  <2>3. [mid EXCEPT !.memberCount = @ + change] =
          [owner |-> o, version |-> v + 1, archived |-> x, memberCount |-> n + change]
    <3>1. mid = [owner |-> o, version |-> v + 1, archived |-> x, memberCount |-> n]
      BY <2>1, <2>2
    <3>2. QED
      BY <3>1
  <2>4. EditedRoom(r, change) =
          [owner |-> o, version |-> v + 1, archived |-> x, memberCount |-> n + change]
    BY <1>2, <2>1 DEF EditedRoom
  <2>5. QED
    BY <2>2, <2>3, <2>4
<1>5. room' = [room EXCEPT ![r].version = @ + 1, ![r].memberCount = @ + change]
  BY DEF UpdateRoom
<1>6. room'[r] = [[old EXCEPT !.version = @ + 1] EXCEPT !.memberCount = @ + change]
  BY <1>1, <1>2, <1>5
<1>7. \A s \in RoomIDs : s # r => room'[s] = room[s]
  BY <1>1, <1>5
<1>8. room' = [s \in RoomIDs |-> room'[s]]
  BY <1>1, <1>5
<1>9. QED
  BY <1>1, <1>4, <1>6, <1>7, <1>8

LEMMA PutMemberGrants ==
  ASSUME TableInv, NEW q \in Requests, NEW mv, NEW rv,
         q.op = "grant", q.role \in MutableRoles,
         AllowlistResult(q.room, q.agent, q.target, mv, rv) = "ok",
         room[q.room].memberCount < MaxMembersPerRoom, ~IsMember(q.room, q.target),
         PutMember(q)
  PROVE  GrantAllowlist(q.room, q.agent, q.target, q.role, mv, rv)
<1> DEFINE r == q.room
           t == q.target
<1>1. r \in RoomIDs /\ t \in Agents /\ TypeOK
  BY RequestFields DEF TableInv, StoreInv
<1>2. members[r][t] = NotMember
  BY <1>1 DEF TableInv, StoreInv, MembersNumbered
<1>3. room[r] \in Room /\ members \in [RoomIDs -> [Agents -> Membership]]
  BY <1>1 DEF TypeOK
<1>4. GrantResult(r, q.agent, t, q.role, mv, rv) = "ok"
  BY <1>1, <1>2, <1>3, NumberAssumption, NoneAssumption
  DEF GrantResult, NotMember, MutableRoles, Roles, Room, IsMember
<1>5. room[r].version < MaxRoomVersion /\ members[r][t].version < MaxMemberVersion
  BY <1>2, NumberAssumption DEF PutMember, UpdateRoom, NotMember
<1>6. members' = [members EXCEPT ![r][t] =
        [role |-> q.role, version |-> @.version + 1, nickname |-> @.nickname]]
  <2>1. members[r][t].version + 1 = 1 /\ members[r][t].nickname = None
    BY <1>2 DEF NotMember
  <2>2. members' = [members EXCEPT ![r][t] =
          [role |-> q.role, version |-> 1, nickname |-> None]]
    BY DEF PutMember
  <2>3. QED
    BY <2>1, <2>2
<1>7. room' = [room EXCEPT ![r] = EditedRoom(r, IF IsMember(r, t) THEN 0 ELSE 1)]
  BY <1>1, UpdateIsEdit DEF PutMember
<1>8. QED
  BY <1>4, <1>5, <1>6, <1>7 DEF GrantAllowlist, PutMember

LEMMA DeleteMemberRevokes ==
  ASSUME TableInv, NEW q \in Requests, NEW seen \in Membership, NEW mv, NEW rv,
         q.op = "revoke",
         AllowlistResult(q.room, q.agent, q.target, mv, rv) = "ok",
         members[q.room][q.target].role \notin {None, "owner"},
         KeyOf(members[q.room][q.target].nickname) = KeyOf(seen.nickname),
         DeleteMember(q, seen)
  PROVE  RevokeAllowlist(q.room, q.agent, q.target, mv, rv)
<1> DEFINE r == q.room
           t == q.target
<1>1. r \in RoomIDs /\ t \in Agents /\ TypeOK
  BY RequestFields DEF TableInv, StoreInv
<1>2. RevokeResult(r, q.agent, t, mv, rv) = "ok"
  BY DEF RevokeResult, IsMember
<1>3. members[r][t].nickname \in Nicknames \cup {None}
  BY <1>1 DEF TypeOK, Membership
<1>4. \A k \in NicknameKeys : Holds(r, t, k) <=> k = KeyOf(seen.nickname)
  BY <1>3, NoneAssumption, NicknameAssumption DEF Holds, KeyOf
<1>5. Released(r, t) =
        [k \in NicknameKeys |-> IF k = KeyOf(seen.nickname) THEN None ELSE nicknames[r][k]]
  BY <1>4 DEF Released
<1>6. nicknames' = [nicknames EXCEPT ![r] = Released(r, t)]
  BY <1>5 DEF DeleteMember
<1>7. room' = [room EXCEPT ![r] = EditedRoom(r, -1)] /\ room[r].version < MaxRoomVersion
  BY <1>1, UpdateIsEdit DEF DeleteMember, UpdateRoom
<1>8. QED
  BY <1>2, <1>6, <1>7 DEF RevokeAllowlist, DeleteMember

LEMMA PutMessagePosts ==
  ASSUME TableInv, NEW c \in Calls, NEW q \in Requests, NEW s \in Snapshot,
         NEW id \in MessageIDs, work[c].request = q, work[c].id = id, calls[c].snapshot = s,
         RoomOpen(q.room), members[q.room][q.agent].role \in PermittedRoles["PostMessage"],
         members[q.room][q.agent].version = s.memberVersion,
         KeyFree(q), id \notin UsedMessageIDs, PutMessage(c)
  PROVE  PostMessage(q.room, q.agent, q.key, q.body, s.nickname, s.memberVersion, id)
<1> DEFINE r == q.room
           a == q.agent
<1>1. IsMember(r, a) /\ RoleCan(members[r][a].role, "PostMessage")
  BY NoneAssumption DEF IsMember, RoleCan, PermittedRoles, Roles
<1>2. CheckActor(r, a, s.memberVersion, "PostMessage") = "ok"
  BY <1>1 DEF CheckActor, VersionDiffers
<1>3. PostResult(r, a, q.key, q.body, s.memberVersion) = "ok"
  BY <1>2 DEF PostResult, ReplayResult, RoomOpen, KeyFree
<1>4. messages' = [messages EXCEPT ![r] = @ \cup
        {[id |-> id, author |-> a, nickname |-> s.nickname, body |-> q.body, key |-> q.key]}]
  BY DEF PutMessage
<1>5. idempotency' = [idempotency EXCEPT ![r][a][q.key] = [body |-> q.body, id |-> id]]
  BY DEF PutMessage
<1>6. QED
  BY <1>3, <1>4, <1>5 DEF PostMessage, PutMessage

LEMMA UpdateNicknameRenames ==
  ASSUME TableInv, NEW c \in Calls, NEW q \in Requests, work[c].request = q,
         q.op = "nickname", IsMember(q.room, q.agent), UpdateNickname(c)
  PROVE  RenameStep(q.room, q.agent, q.nickname)
<1> DEFINE r == q.room
           a == q.agent
<1>1. r \in RoomIDs /\ a \in Agents /\ q.nickname \in Nicknames /\ TypeOK
  BY RequestFields DEF TableInv, StoreInv
<1>2. members' = [members EXCEPT ![r][a] =
        [role |-> @.role, version |-> @.version + 1, nickname |-> q.nickname]]
  BY DEF UpdateNickname
<1>3. Reclaimed(c) \in [NicknameKeys -> Agents \cup {None}]
  BY <1>1 DEF Reclaimed, TypeOK
<1>4. nicknames' = [nicknames EXCEPT ![r] = Reclaimed(c)]
  BY DEF UpdateNickname
<1>5. /\ nicknames' \in [RoomIDs -> [NicknameKeys -> Agents \cup {None}]]
      /\ \A s \in RoomIDs : s # r => nicknames'[s] = nicknames[s]
  BY <1>1, <1>3, <1>4 DEF TypeOK
<1>6. QED
  BY <1>2, <1>5 DEF RenameStep, UpdateNickname

(* The membership is the one that was read and its nickname is reserved.   *)
LEMMA UpdateNicknameSets ==
  ASSUME TableInv, NEW c \in Calls, NEW q \in Requests, NEW s \in Snapshot,
         NEW seen \in Membership, work[c].request = q, calls[c].snapshot = s,
         work[c].member = seen, q.op = "nickname", RoomOpen(q.room),
         members[q.room][q.agent] = seen, seen.role # None, seen.nickname # q.nickname,
         seen.nickname # None => nicknames[q.room][NicknameKey[seen.nickname]] = q.agent,
         NicknameClaimable(c), UpdateNickname(c)
  PROVE  SetNickname(q.room, q.agent, q.nickname, s.memberVersion)
<1> DEFINE r == q.room
           a == q.agent
           n == q.nickname
           new == NicknameKey[n]
<1>1. r \in RoomIDs /\ a \in Agents /\ n \in Nicknames /\ TypeOK
  BY RequestFields DEF TableInv, StoreInv
<1>2. new \in NicknameKeys /\ seen.nickname \in Nicknames \cup {None}
      /\ seen.version = s.memberVersion /\ seen.role \in Roles
  BY <1>1, NicknameAssumption DEF Membership, NicknameClaimable
<1>3. KeyChanges(c) <=> KeyOf(seen.nickname) # new
  BY DEF KeyChanges
<1>4. nicknames[r][new] \in {None, a}
  <2>1. CASE KeyChanges(c)
    BY <2>1 DEF NicknameClaimable
  <2>2. CASE KeyOf(seen.nickname) = new
    BY <1>2, <2>2, NoneAssumption DEF KeyOf
  <2>3. QED
    BY <1>3, <2>1, <2>2
<1>5. SetNicknameResult(r, a, n, s.memberVersion) = "ok"
  <2>1. RoleCan(members[r][a].role, "UpdateNickname") /\ IsMember(r, a)
    BY <1>2 DEF RoleCan, PermittedRoles, IsMember
  <2>2. ~VersionDiffers(r, a, s.memberVersion) /\ ~NicknameTaken(r, a, n)
    BY <1>2, <1>4 DEF VersionDiffers, NicknameTaken
  <2>3. QED
    BY <2>1, <2>2 DEF SetNicknameResult, RoomOpen
<1>6. \A k \in NicknameKeys : Holds(r, a, k) <=> k = KeyOf(seen.nickname)
  BY <1>2, NoneAssumption, NicknameAssumption DEF Holds, KeyOf
<1>7. Reclaimed(c) = [k \in NicknameKeys |-> IF k = new THEN a ELSE Released(r, a)[k]]
  <2>1. ASSUME NEW k \in NicknameKeys
        PROVE  Reclaimed(c)[k] = IF k = new THEN a ELSE Released(r, a)[k]
    <3>1. Released(r, a)[k] = IF k = KeyOf(seen.nickname) THEN None ELSE nicknames[r][k]
      BY <1>6 DEF Released
    <3>2. CASE KeyChanges(c)
      <4>1. Reclaimed(c)[k] = CASE k = new                    -> a
                                [] k = KeyOf(seen.nickname) -> None
                                [] OTHER                      -> nicknames[r][k]
        BY <3>2 DEF Reclaimed
      <4>2. QED
        BY <1>3, <3>1, <3>2, <4>1
    <3>3. CASE ~KeyChanges(c)
      <4>1. Reclaimed(c)[k] = nicknames[r][k]
        BY <3>3 DEF Reclaimed
      <4>2. k = new => nicknames[r][k] = a
        BY <1>2, <1>3, <3>3, NoneAssumption DEF KeyOf
      <4>3. QED
        BY <1>3, <3>1, <3>3, <4>1, <4>2
    <3>4. QED
      BY <3>2, <3>3
  <2>2. Reclaimed(c) = [k \in NicknameKeys |-> Reclaimed(c)[k]]
    BY DEF Reclaimed
  <2>3. QED
    BY <2>1, <2>2
<1>8. nicknames' = [nicknames EXCEPT ![r] =
        [k \in NicknameKeys |-> IF k = new THEN a ELSE Released(r, a)[k]]]
  BY <1>7 DEF UpdateNickname
<1>9. QED
  BY <1>5, <1>8 DEF SetNickname, UpdateNickname

-----------------------------------------------------------------------------
(* What a handler knows at each of its steps, whatever the others have done *)
(* since it read it.  w is its work, s the snapshot it was authorized on.  *)

(* The membership has changed since s was read.                            *)
Outdated(q, s) ==
  \/ RevokedSince(q.room, q.agent, s.roomVersion)
  \/ members[q.room][q.agent].version > s.memberVersion

(* s is of a membership with the permission the request needs.             *)
SnapshotPermits(q, s) ==
  /\ s.roomVersion \in RoomVersions /\ s.roomVersion <= Len(audits[q.room])
  /\ s.memberVersion \in 1 .. MaxMemberVersion
  /\ \E seen \in Membership :
       /\ seen.version = s.memberVersion /\ seen.nickname = s.nickname
       /\ seen.role \in PermittedRoles[ActionOf[q.op]]
       /\ MembershipSince(q.room, q.agent, s.roomVersion, seen)

(* The membership that was read after s.                                   *)
SelfSeen(q, s, seen) ==
  /\ seen.role # None
  /\ MembershipSince(q.room, q.agent, s.roomVersion, seen)
  /\ \/ RevokedSince(q.room, q.agent, s.roomVersion)
     \/ seen.version >= s.memberVersion

RequestOK(w) ==
  LET q == w.request IN
  /\ q \in Requests
  /\ q.op = "create" => w.step = "transaction"
  /\ q.op = "grant" => q.role \in MutableRoles
  /\ w.step \in {"recheck", "classify"} => q.op = "post"
  /\ w.step = "guard" => q.op # "revoke"
  /\ q.op # "create" => Exists(q.room)

SnapshotOK(w, s) ==
  LET q == w.request IN
  /\ w.step = "membership" =>
       /\ w.room.version \in RoomVersions /\ w.room.version <= Len(audits[q.room])
       /\ w.room.owner = room[q.room].owner
  /\ q.op # "create" /\ w.step # "membership" => SnapshotPermits(q, s)

ItemsOK(w, s) ==
  LET q == w.request IN
  /\ q.op \in {"grant", "revoke"} /\ w.step \in {"transaction", "guard"} =>
       q.target \notin {q.agent, room[q.room].owner}
  /\ q.op = "nickname" /\ w.step \in {"transaction", "guard"} => SelfSeen(q, s, w.member)
  /\ q.op = "nickname" /\ w.step = "transaction" => w.member.nickname # q.nickname

KeyOK(w, s) ==
  LET q == w.request IN
  /\ q.op = "post" /\ w.step = "transaction" => w.id \in MessageIDs
  /\ q.op = "post" /\ w.step = "guard" => w.record # NotUsed /\ KeyRecord(q) = w.record
  /\ w.step = "recheck" => KeyRecord(q) # NotUsed \/ Outdated(q, s)
  /\ w.step = "classify" => Outdated(q, s)

StepOK(w, s) ==
  w.step # "idle" => RequestOK(w) /\ SnapshotOK(w, s) /\ ItemsOK(w, s) /\ KeyOK(w, s)

(* A conflict that a post was answered with has a cause.                   *)
ConflictOK(call) ==
  LET q == call.request IN
  call.phase = "answered" /\ call.result = "conflict" /\ q.op = "post" =>
    /\ q \in Requests
    /\ call.snapshot.roomVersion <= Len(audits[q.room])
    /\ KeyRecord(q).body \notin {None, q.body} \/ Outdated(q, call.snapshot)

-----------------------------------------------------------------------------
(* No step of the table takes any of this from a handler. *)

LEMMA LogLength ==
  ASSUME TypeOK, TypeOK', Evolves, NEW q \in Requests, NEW n \in Nat, n <= Len(audits[q.room])
  PROVE  n <= Len(audits'[q.room])
<1>1. q.room \in RoomIDs
  BY RequestFields
<1>2. Len(audits[q.room]) \in Nat /\ Len(audits'[q.room]) \in Nat
  BY <1>1 DEF TypeOK
<1>3. QED
  BY <1>1, <1>2 DEF Evolves, LogGrows

LEMMA SinceKept ==
  ASSUME TypeOK, TypeOK', Evolves, NEW q \in Requests, NEW version \in Nat,
         version <= Len(audits[q.room]), NEW seen \in Membership,
         MembershipSince(q.room, q.agent, version, seen)
  PROVE  MembershipSince(q.room, q.agent, version, seen)'
BY RequestFields, MembershipSinceStep DEF Evolves

LEMMA RevokedKept ==
  ASSUME Evolves, NEW q \in Requests, NEW version, RevokedSince(q.room, q.agent, version)
  PROVE  RevokedSince(q.room, q.agent, version)'
BY RequestFields, RevokedForGood DEF Evolves

LEMMA OutdatedKept ==
  ASSUME TypeOK, TypeOK', Evolves, NEW q \in Requests, NEW s \in Snapshot,
         s.roomVersion <= Len(audits[q.room]), Outdated(q, s)
  PROVE  Outdated(q, s)'
<1>1. CASE RevokedSince(q.room, q.agent, s.roomVersion)
  BY <1>1, RevokedKept DEF Outdated
<1>2. CASE members[q.room][q.agent].version > s.memberVersion
  <2>1. PICK seen \in Membership : seen = members[q.room][q.agent]
    BY RequestFields DEF TypeOK
  <2>2. MembershipSince(q.room, q.agent, s.roomVersion, seen)
    BY <2>1 DEF MembershipSince
  <2>3. MembershipSince(q.room, q.agent, s.roomVersion, seen)'
    BY <2>2, SinceKept DEF Snapshot
  <2>4. /\ seen.version \in Nat /\ s.memberVersion \in Nat
        /\ members'[q.room][q.agent].version \in Nat
    BY RequestFields DEF TypeOK, Membership, Snapshot
  <2>5. QED
    BY <1>2, <2>1, <2>3, <2>4 DEF MembershipSince, Outdated
<1>3. QED
  BY <1>1, <1>2 DEF Outdated

LEMMA PermitsKept ==
  ASSUME TypeOK, TypeOK', Evolves, NEW q \in Requests, NEW s \in Snapshot, SnapshotPermits(q, s)
  PROVE  SnapshotPermits(q, s)'
<1>1. PICK seen \in Membership :
        /\ seen.version = s.memberVersion /\ seen.nickname = s.nickname
        /\ seen.role \in PermittedRoles[ActionOf[q.op]]
        /\ MembershipSince(q.room, q.agent, s.roomVersion, seen)
  BY DEF SnapshotPermits
<1>2. s.roomVersion \in Nat /\ s.roomVersion <= Len(audits[q.room])
  BY DEF SnapshotPermits, Snapshot
<1>3. MembershipSince(q.room, q.agent, s.roomVersion, seen)'
  BY <1>1, <1>2, SinceKept
<1>4. s.roomVersion <= Len(audits'[q.room])
  BY <1>2, LogLength
<1>5. QED
  BY <1>1, <1>3, <1>4 DEF SnapshotPermits

LEMMA SelfKept ==
  ASSUME TypeOK, TypeOK', Evolves, NEW q \in Requests, NEW s \in Snapshot,
         s.roomVersion <= Len(audits[q.room]), NEW seen \in Membership, SelfSeen(q, s, seen)
  PROVE  SelfSeen(q, s, seen)'
<1>1. MembershipSince(q.room, q.agent, s.roomVersion, seen)'
  BY SinceKept DEF SelfSeen, Snapshot
<1>2. RevokedSince(q.room, q.agent, s.roomVersion) =>
        RevokedSince(q.room, q.agent, s.roomVersion)'
  BY RevokedKept
<1>3. QED
  BY <1>1, <1>2 DEF SelfSeen

LEMMA KeyKept ==
  ASSUME Evolves, NEW q \in Requests, q.op = "post", KeyRecord(q) # NotUsed
  PROVE  KeyRecord(q)' = KeyRecord(q)
BY RequestFields DEF Evolves, KeysStay, KeyRecord

LEMMA StepKept ==
  ASSUME TypeOK, TypeOK', Evolves, NEW w \in Work, NEW s \in Snapshot, StepOK(w, s)
  PROVE  StepOK(w, s)'
<1>1. SUFFICES ASSUME w.step # "idle"
               PROVE  RequestOK(w)' /\ SnapshotOK(w, s)' /\ ItemsOK(w, s)' /\ KeyOK(w, s)'
  BY DEF StepOK
<1>2. RequestOK(w) /\ SnapshotOK(w, s) /\ ItemsOK(w, s) /\ KeyOK(w, s)
  BY <1>1 DEF StepOK
<1>3. PICK q \in Requests : q = w.request
  BY <1>2 DEF RequestOK
<1>4. q.op # "create" => Exists(q.room) /\ room'[q.room].owner = room[q.room].owner
  BY <1>2, <1>3, RequestFields DEF RequestOK, Evolves
<1>5. RequestOK(w)'
  BY <1>2, <1>3, <1>4 DEF RequestOK, Exists
<1>6. SnapshotOK(w, s)'
  <2>1. ASSUME w.step = "membership"
        PROVE  /\ w.room.version \in RoomVersions /\ w.room.version <= Len(audits'[q.room])
               /\ w.room.owner = room'[q.room].owner
    <3>1. q.op # "create"
      BY <1>2, <1>3, <2>1 DEF RequestOK
    <3>2. w.room.version \in RoomVersions /\ w.room.version <= Len(audits[q.room])
          /\ w.room.owner = room[q.room].owner
      BY <1>2, <1>3, <2>1 DEF SnapshotOK
    <3>3. w.room.version \in Nat
      BY DEF Work, Room
    <3>4. QED
      BY <1>4, <3>1, <3>2, <3>3, LogLength
  <2>2. ASSUME q.op # "create", w.step # "membership"
        PROVE  SnapshotPermits(q, s)'
    BY <1>2, <1>3, <2>2, PermitsKept DEF SnapshotOK
  <2>3. QED
    BY <1>3, <2>1, <2>2 DEF SnapshotOK
<1>7. ItemsOK(w, s)'
  <2>1. ASSUME q.op \in {"grant", "revoke"}, w.step \in {"transaction", "guard"}
        PROVE  q.target \notin {q.agent, room'[q.room].owner}
    BY <1>2, <1>3, <1>4, <2>1 DEF ItemsOK
  <2>2. ASSUME q.op = "nickname", w.step \in {"transaction", "guard"}
        PROVE  SelfSeen(q, s, w.member)'
    <3>1. SelfSeen(q, s, w.member) /\ s.roomVersion <= Len(audits[q.room])
      BY <1>2, <1>3, <2>2 DEF ItemsOK, SnapshotOK, SnapshotPermits
    <3>2. PICK seen \in Membership : seen = w.member
      BY DEF Work
    <3>3. SelfSeen(q, s, seen)'
      BY <3>1, <3>2, SelfKept
    <3>4. QED
      BY <3>2, <3>3
  <2>3. q.op = "nickname" /\ w.step = "transaction" => w.member.nickname # q.nickname
    BY <1>2, <1>3 DEF ItemsOK
  <2>4. QED
    BY <1>3, <2>1, <2>2, <2>3 DEF ItemsOK
<1>8. KeyOK(w, s)'
  <2>1. ASSUME q.op = "post", w.step = "guard"
        PROVE  w.record # NotUsed /\ KeyRecord(q)' = w.record
    BY <1>2, <1>3, <2>1, KeyKept DEF KeyOK
  <2>2. ASSUME w.step \in {"recheck", "classify"}, Outdated(q, s)
        PROVE  Outdated(q, s)'
    <3>1. s.roomVersion <= Len(audits[q.room])
      BY <1>2, <1>3, <2>2 DEF RequestOK, SnapshotOK, SnapshotPermits
    <3>2. QED
      BY <2>2, <3>1, OutdatedKept
  <2>3. ASSUME w.step = "recheck" PROVE KeyRecord(q)' # NotUsed \/ Outdated(q, s)'
    BY <1>2, <1>3, <2>2, <2>3, KeyKept DEF KeyOK, RequestOK
  <2>4. ASSUME w.step = "classify" PROVE Outdated(q, s)'
    BY <1>2, <1>3, <2>2, <2>4 DEF KeyOK
  <2>5. q.op = "post" /\ w.step = "transaction" => w.id \in MessageIDs
    BY <1>2, <1>3 DEF KeyOK
  <2>6. QED
    BY <1>3, <2>1, <2>3, <2>4, <2>5 DEF KeyOK
<1>9. QED
  BY <1>5, <1>6, <1>7, <1>8

LEMMA ConflictKept ==
  ASSUME TypeOK, TypeOK', Evolves, NEW call \in Call, ConflictOK(call)
  PROVE  ConflictOK(call)'
<1> DEFINE q == call.request
           s == call.snapshot
<1>1. SUFFICES ASSUME call.phase = "answered", call.result = "conflict", q.op = "post"
               PROVE  /\ q \in Requests
                      /\ s.roomVersion <= Len(audits'[q.room])
                      /\ KeyRecord(q)'.body \notin {None, q.body} \/ Outdated(q, s)'
  BY DEF ConflictOK
<1>2. PICK p \in Requests, t \in Snapshot : p = q /\ t = s
  BY <1>1 DEF ConflictOK, Call
<1>3. /\ t.roomVersion <= Len(audits[p.room])
      /\ KeyRecord(p).body \notin {None, p.body} \/ Outdated(p, t)
  BY <1>1, <1>2 DEF ConflictOK
<1>4. t.roomVersion <= Len(audits'[p.room])
  BY <1>3, LogLength DEF Snapshot
<1>5. Outdated(p, t) => Outdated(p, t)'
  BY <1>3, OutdatedKept
<1>6. KeyRecord(p).body \notin {None, p.body} => KeyRecord(p)' = KeyRecord(p)
  BY <1>1, <1>2, KeyKept DEF NotUsed
<1>7. KeyRecord(p)'.body \notin {None, p.body} \/ Outdated(p, t)'
  BY <1>3, <1>5, <1>6
<1>8. QED
  BY <1>2, <1>4, <1>7

-----------------------------------------------------------------------------
(* The invariant of the handlers. *)

WorkInv ==
  \A c \in Calls : \E w \in Work, s \in Snapshot :
    w = work[c] /\ s = calls[c].snapshot /\ StepOK(w, s)

ConflictInv == \A c \in Calls : \E call \in Call : call = calls[c] /\ ConflictOK(call)

(* Where the handler is, and what has become of the call.                  *)
ControlOK(w, call) ==
  /\ w.step \notin {"idle", "membership"} =>
       call.phase = "authorized" /\ call.request = w.request
  /\ w.step = "idle" => w.id = None

ControlInv == \A c \in Calls : ControlOK(work[c], calls[c])

(* A minted id is nobody else's.                                           *)
MintedInv ==
  \A c \in Calls : work[c].id # None =>
    /\ work[c].id \notin UsedMessageIDs
    /\ \A d \in Calls : d # c => work[d].id # work[c].id

DynamoInv == DynamoTypeOK /\ TableInv /\ WorkInv /\ ConflictInv /\ ControlInv /\ MintedInv

(* Call c goes on with work w and becomes call.                            *)
MoveOK(c, w, call) ==
  /\ work' = [work EXCEPT ![c] = w]
  /\ calls' = [calls EXCEPT ![c] = call]
  /\ StepOK(w, call.snapshot)
  /\ ConflictOK(call)
  /\ ControlOK(w, call)
  /\ w.id # None => /\ w.id \notin UsedMessageIDs'
                    /\ \A d \in Calls : d # c => work[d].id # w.id

LEMMA MoveKeepsInv ==
  ASSUME DynamoInv, TableStep, NEW c \in Calls, NEW w \in Work, NEW call \in Call,
         MoveOK(c, w, call), UsedMessageIDs' \subseteq UsedMessageIDs \cup {work[c].id}
  PROVE  DynamoInv'
<1>1. /\ TableInv' /\ TypeOK /\ TypeOK' /\ Evolves
  BY NextTableInv, TableEvolves DEF DynamoInv, TableInv, StoreInv
<1>2. calls \in [Calls -> Call] /\ work \in [Calls -> Work]
  BY DEF DynamoInv, DynamoTypeOK, ServerTypeOK
<1>3. /\ \A d \in Calls : d # c => work'[d] = work[d] /\ calls'[d] = calls[d]
      /\ work'[c] = w /\ calls'[c] = call
  BY <1>2 DEF MoveOK
<1>4. DynamoTypeOK'
  BY <1>1, <1>2 DEF MoveOK, DynamoTypeOK, ServerTypeOK
<1>5. WorkInv'
  <2>1. SUFFICES ASSUME NEW d \in Calls
                 PROVE  \E v \in Work, s \in Snapshot :
                          v = work'[d] /\ s = calls'[d].snapshot /\ StepOK(v, s)'
    BY DEF WorkInv
  <2>2. CASE d = c
    <3>1. PICK s \in Snapshot : s = call.snapshot
      BY DEF Call
    <3>2. StepOK(w, s)'
      BY <1>1, <3>1, StepKept DEF MoveOK
    <3>3. QED
      BY <1>3, <2>2, <3>1, <3>2
  <2>3. CASE d # c
    <3>1. PICK v \in Work, s \in Snapshot :
            v = work[d] /\ s = calls[d].snapshot /\ StepOK(v, s)
      BY DEF DynamoInv, WorkInv
    <3>2. StepOK(v, s)'
      BY <1>1, <3>1, StepKept
    <3>3. QED
      BY <1>3, <2>3, <3>1, <3>2
  <2>4. QED
    BY <2>2, <2>3
<1>6. ConflictInv'
  <2>1. SUFFICES ASSUME NEW d \in Calls
                 PROVE  \E e \in Call : e = calls'[d] /\ ConflictOK(e)'
    BY DEF ConflictInv
  <2>2. PICK e \in Call : e = calls'[d] /\ ConflictOK(e)
    <3>1. CASE d = c
      BY <1>3, <3>1 DEF MoveOK
    <3>2. CASE d # c
      BY <1>3, <3>2 DEF DynamoInv, ConflictInv
    <3>3. QED
      BY <3>1, <3>2
  <2>3. ConflictOK(e)'
    BY <1>1, <2>2, ConflictKept
  <2>4. QED
    BY <2>2, <2>3
<1>7. ControlInv'
  BY <1>3 DEF DynamoInv, ControlInv, ControlOK, MoveOK
<1>8. MintedInv'
  BY <1>3 DEF DynamoInv, MintedInv, MoveOK
<1>9. QED
  BY <1>1, <1>4, <1>5, <1>6, <1>7, <1>8 DEF DynamoInv

(* A step that writes nothing to the table.                                *)
LEMMA QuietMove ==
  ASSUME DynamoInv, UNCHANGED vars, NEW c \in Calls, NEW w \in Work, NEW call \in Call,
         work' = [work EXCEPT ![c] = w], calls' = [calls EXCEPT ![c] = call],
         StepOK(w, call.snapshot), ConflictOK(call), ControlOK(w, call),
         w.id \in {None, work[c].id} \cup Unminted
  PROVE  DynamoInv'
<1>1. UsedMessageIDs' = UsedMessageIDs
  BY DEF vars, UsedMessageIDs
<1>2. w.id # None => /\ w.id \notin UsedMessageIDs
                     /\ \A d \in Calls : d # c => work[d].id # w.id
  BY DEF DynamoInv, MintedInv, Unminted
<1>3. TableStep
  BY DEF TableStep
<1>4. QED
  BY <1>1, <1>2, <1>3, MoveKeepsInv DEF MoveOK

(* The facts about a running handler, for rigid names of its parts.        *)
LEMMA Running ==
  ASSUME DynamoInv, NEW c \in Calls, c \in RunningCalls
  PROVE  \E w \in Work, q \in Requests, call \in Call, s \in Snapshot :
           /\ w = work[c] /\ q = w.request /\ call = calls[c] /\ s = call.snapshot
           /\ w.step # "idle"
           /\ RequestOK(w) /\ SnapshotOK(w, s) /\ ItemsOK(w, s) /\ KeyOK(w, s)
           /\ ControlOK(w, call)
<1>1. PICK w \in Work, s \in Snapshot :
        w = work[c] /\ s = calls[c].snapshot /\ StepOK(w, s)
  BY DEF DynamoInv, WorkInv
<1>2. w.step # "idle"
  BY <1>1 DEF RunningCalls
<1>3. RequestOK(w) /\ SnapshotOK(w, s) /\ ItemsOK(w, s) /\ KeyOK(w, s)
  BY <1>1, <1>2 DEF StepOK
<1>4. calls[c] \in Call /\ ControlOK(w, calls[c])
  BY <1>1 DEF DynamoInv, DynamoTypeOK, ServerTypeOK, ControlInv
<1>5. w.request \in Requests
  BY <1>3 DEF RequestOK
<1>6. QED
  BY <1>1, <1>2, <1>3, <1>4, <1>5

(* A handler that ends.                                                    *)
LEMMA FinishedMove ==
  ASSUME DynamoInv, NEW c \in Calls, c \in RunningCalls, UNCHANGED vars,
         NEW result \in Results, NEW message \in MessageIDs \cup {None},
         Finish(c, result, message),
         result = "conflict" /\ work[c].request.op = "post" =>
           \E q \in Requests, s \in Snapshot :
             /\ q = work[c].request /\ s = calls[c].snapshot
             /\ s.roomVersion <= Len(audits[q.room])
             /\ KeyRecord(q).body \notin {None, q.body} \/ Outdated(q, s)
  PROVE  DynamoInv'
<1>1. PICK w \in Work, q \in Requests, call \in Call, s \in Snapshot :
        w = work[c] /\ q = w.request /\ call = calls[c] /\ s = call.snapshot
  BY Running
<1>2. PICK new : new = Answered(q, s, result, message)
  OBVIOUS
<1>3. new \in Call
  BY <1>2 DEF Answered, Call
<1>4. NoWork \in Work
  BY DEF NoWork, Work, Steps, Room, Membership, IdempotencyRecord, NoRoom, NotMember, NotUsed
<1>5. work' = [work EXCEPT ![c] = NoWork] /\ calls' = [calls EXCEPT ![c] = new]
  BY <1>1, <1>2 DEF Finish
<1>6. ConflictOK(new)
  BY <1>1, <1>2 DEF ConflictOK, Answered
<1>7. StepOK(NoWork, new.snapshot) /\ ControlOK(NoWork, new) /\ NoWork.id = None
  BY DEF StepOK, ControlOK, NoWork
<1>8. QED
  BY <1>3, <1>4, <1>5, <1>6, <1>7, QuietMove

-----------------------------------------------------------------------------
(* The steps of a handler, one by one. *)

LEMMA RefusedAtOnce ==
  ASSUME DynamoInv, UNCHANGED vars, NEW c \in Calls, c \notin RunningCalls, NEW q \in Requests,
         NEW result \in Results \ {"conflict"}, work' = work,
         calls' = [calls EXCEPT ![c] = Answered(q, NoSnapshot, result, None)]
  PROVE  DynamoInv'
<1>1. PICK w \in Work : w = work[c]
  BY DEF DynamoInv, DynamoTypeOK
<1>2. PICK call : call = Answered(q, NoSnapshot, result, None)
  OBVIOUS
<1>3. call \in Call /\ ConflictOK(call)
  BY <1>2 DEF Answered, Call, Snapshot, NoSnapshot, ConflictOK
<1>4. w.step = "idle" /\ ControlOK(w, calls[c])
  BY <1>1 DEF RunningCalls, DynamoInv, ControlInv
<1>5. StepOK(w, call.snapshot) /\ ControlOK(w, call)
  BY <1>4 DEF StepOK, ControlOK
<1>6. work' = [work EXCEPT ![c] = w] /\ calls' = [calls EXCEPT ![c] = call]
  BY <1>1, <1>2 DEF DynamoInv, DynamoTypeOK
<1>7. QED
  BY <1>1, <1>3, <1>5, <1>6, QuietMove

LEMMA ReceiveInv ==
  ASSUME DynamoInv, NEW c \in Calls, NEW q \in Requests, Receive(c, q)
  PROVE  DynamoInv'
<1> DEFINE begun(step) == [NoWork EXCEPT !.step = step, !.request = q]
<1>1. UNCHANGED vars /\ c \notin RunningCalls
  BY DEF Receive
<1>2. q.room \in RoomIDs /\ TableInv /\ TypeOK /\ calls \in [Calls -> Call]
  BY RequestFields DEF DynamoInv, DynamoTypeOK, ServerTypeOK
<1>3. ASSUME NEW step \in Steps
      PROVE  begun(step) = [step |-> step, request |-> q, room |-> NoRoom,
                            member |-> NotMember, record |-> NotUsed, id |-> None]
  <2>1. PICK first : first = [NoWork EXCEPT !.step = step]
    OBVIOUS
  <2>2. first = [step |-> step, request |-> None, room |-> NoRoom, member |-> NotMember,
                 record |-> NotUsed, id |-> None]
    BY <2>1 DEF NoWork
  <2>3. begun(step) = [first EXCEPT !.request = q]
    BY <2>1
  <2>4. QED
    BY <2>2, <2>3
<1>4. CASE /\ q.op = "create"
           /\ calls' = [calls EXCEPT ![c] = Authorized(q, NoSnapshot)]
           /\ work' = [work EXCEPT ![c] = begun("transaction")]
  <2>1. PICK w : w = begun("transaction")
    OBVIOUS
  <2>2. w = [step |-> "transaction", request |-> q, room |-> NoRoom, member |-> NotMember,
             record |-> NotUsed, id |-> None]
    BY <1>3, <2>1 DEF Steps
  <2>3. w \in Work
    BY <2>2 DEF Work, Steps, Room, Membership, IdempotencyRecord, NoRoom, NotMember, NotUsed
  <2>4. PICK call : call = Authorized(q, NoSnapshot)
    OBVIOUS
  <2>5. call \in Call /\ ConflictOK(call)
    BY <2>4 DEF Authorized, Call, Snapshot, NoSnapshot, ConflictOK
  <2>6. RequestOK(w) /\ SnapshotOK(w, call.snapshot) /\ ItemsOK(w, call.snapshot)
        /\ KeyOK(w, call.snapshot)
    BY <1>4, <2>2 DEF RequestOK, SnapshotOK, ItemsOK, KeyOK
  <2>7. StepOK(w, call.snapshot) /\ ControlOK(w, call) /\ w.id = None
    BY <2>2, <2>4, <2>6 DEF StepOK, ControlOK, Authorized
  <2>8. QED
    BY <1>1, <1>4, <2>1, <2>3, <2>4, <2>5, <2>7, QuietMove
<1>5. CASE /\ q.op # "create" /\ (q.op = "grant" => q.role \in MutableRoles)
           /\ Exists(q.room)
           /\ work' = [work EXCEPT ![c] = [begun("membership") EXCEPT !.room = room[q.room]]]
           /\ UNCHANGED calls
  <2>1. PICK w : w = [begun("membership") EXCEPT !.room = room[q.room]]
    OBVIOUS
  <2>2. w = [step |-> "membership", request |-> q, room |-> room[q.room], member |-> NotMember,
             record |-> NotUsed, id |-> None]
    <3>1. PICK b : b = begun("membership")
      OBVIOUS
    <3>2. b = [step |-> "membership", request |-> q, room |-> NoRoom, member |-> NotMember,
               record |-> NotUsed, id |-> None]
      BY <1>3, <3>1 DEF Steps
    <3>3. w = [b EXCEPT !.room = room[q.room]]
      BY <2>1, <3>1
    <3>4. QED
      BY <3>2, <3>3
  <2>3. room[q.room] \in Room
    BY <1>2 DEF TypeOK
  <2>4. w \in Work
    BY <2>2, <2>3 DEF Work, Steps, Membership, IdempotencyRecord, NotMember, NotUsed
  <2>5. PICK call \in Call : call = calls[c] /\ ConflictOK(call)
    BY DEF DynamoInv, ConflictInv
  <2>6. room[q.room].version \in RoomVersions /\ room[q.room].version <= Len(audits[q.room])
    <3>1. room[q.room].version \in Nat
      BY <2>3 DEF Room
    <3>2. QED
      BY <1>2, <1>5, <3>1, NumberAssumption
      DEF TableInv, StoreInv, VersionsBounded, AuditInv, RoomVersions
  <2>7. RequestOK(w) /\ SnapshotOK(w, call.snapshot) /\ ItemsOK(w, call.snapshot)
        /\ KeyOK(w, call.snapshot)
    BY <1>5, <2>2, <2>6 DEF RequestOK, SnapshotOK, ItemsOK, KeyOK
  <2>8. StepOK(w, call.snapshot) /\ ControlOK(w, call) /\ w.id = None
    BY <2>2, <2>7 DEF StepOK, ControlOK
  <2>9. calls' = [calls EXCEPT ![c] = call]
    BY <1>2, <1>5, <2>5
  <2>10. QED
    BY <1>1, <1>5, <2>1, <2>4, <2>5, <2>8, <2>9, QuietMove
<1>6. CASE /\ work' = work
           /\ \E result \in {"validation", "not_found"} :
                calls' = [calls EXCEPT ![c] = Answered(q, NoSnapshot, result, None)]
  BY <1>1, <1>6, RefusedAtOnce DEF Results
<1>7. QED
  BY <1>4, <1>5, <1>6 DEF Receive

(* A handler that goes on with the same request and snapshot.              *)
LEMMA GoingOn ==
  ASSUME DynamoInv, UNCHANGED vars, NEW c \in Calls, c \in RunningCalls,
         work[c].step # "membership", NEW v \in Work,
         work' = [work EXCEPT ![c] = v], UNCHANGED calls,
         NEW s \in Snapshot, s = calls[c].snapshot, v.request = work[c].request,
         v.step \notin {"idle", "membership"}, v.id \in {work[c].id} \cup Unminted,
         RequestOK(v), ItemsOK(v, s), KeyOK(v, s)
  PROVE  DynamoInv'
<1>1. PICK w \in Work, q \in Requests, call \in Call :
        /\ w = work[c] /\ q = w.request /\ call = calls[c] /\ s = call.snapshot
        /\ w.step # "idle" /\ SnapshotOK(w, s) /\ ControlOK(w, call)
  BY Running
<1>2. SnapshotOK(v, s)
  BY <1>1 DEF SnapshotOK
<1>3. StepOK(v, s) /\ ControlOK(v, call)
  BY <1>1, <1>2 DEF StepOK, ControlOK
<1>4. ConflictOK(call)
  BY <1>1 DEF DynamoInv, ConflictInv
<1>5. calls' = [calls EXCEPT ![c] = call]
  BY <1>1 DEF DynamoInv, DynamoTypeOK, ServerTypeOK
<1>6. QED
  BY <1>1, <1>3, <1>4, <1>5, QuietMove

(* Who is let in by the policies holds a role with the permission.         *)
LEMMA AllowedArePermitted ==
  ASSUME TableInv, NEW q \in Requests, q.op # "create", Exists(q.room), NEW rm \in Room,
         rm.owner = room[q.room].owner,
         CedarAllows(q.agent, ActionOf[q.op], rm, members[q.room][q.agent], q.target, q.role)
  PROVE  members[q.room][q.agent].role \in PermittedRoles[ActionOf[q.op]]
<1> DEFINE action == ActionOf[q.op]
           held == members[q.room][q.agent].role
<1>1. q.room \in RoomIDs /\ q.agent \in Agents
  BY RequestFields
<1>2. q.op \in {"post", "nickname", "grant", "revoke"}
  BY RequestAssumption DEF Request
<1>3. action \in RoomActions /\ "owner" \in PermittedRoles[action]
  BY <1>2 DEF ActionOf, RoomActions, PermittedRoles, Roles
<1>4. held \in Roles \cup {None} /\ (held = "owner" <=> room[q.room].owner = q.agent)
  BY <1>1 DEF TableInv, StoreInv, TypeOK, Membership, SoleOwner
<1>5. CASE q.agent = rm.owner
  BY <1>3, <1>4, <1>5
<1>6. CASE held \in DOMAIN CedarPermits /\ action \in CedarPermits[held]
  <2>1. held \in Roles \ {"owner"}
    BY <1>6, NoneAssumption DEF CedarPermits, Roles
  <2>2. RoleCan(held, action)
    BY <1>3, <1>6, <2>1, SamePermissions
  <2>3. QED
    BY <2>2 DEF RoleCan
<1>7. QED
  BY <1>5, <1>6 DEF CedarAllows

LEMMA ReadMembershipInv ==
  ASSUME DynamoInv, NEW c \in Calls, ReadMembership(c)
  PROVE  DynamoInv'
<1>1. UNCHANGED vars /\ c \in RunningCalls /\ work[c].step = "membership"
  BY DEF ReadMembership, RunningCalls
<1>2. PICK w \in Work, q \in Requests, old \in Call, s \in Snapshot :
        /\ w = work[c] /\ q = w.request /\ old = calls[c] /\ s = old.snapshot
        /\ w.step # "idle" /\ RequestOK(w) /\ SnapshotOK(w, s)
  BY <1>1, Running
<1> DEFINE member == members[q.room][q.agent]
<1>3. q.room \in RoomIDs /\ q.agent \in Agents /\ TableInv
  BY RequestFields DEF DynamoInv
<1>4. member \in Membership
  BY <1>3 DEF TableInv, StoreInv, TypeOK
<1>5. CASE Finish(c, "denied", None)
  BY <1>1, <1>5, FinishedMove DEF Results
<1>6. CASE /\ CedarAllows(q.agent, ActionOf[q.op], w.room, member, q.target, q.role)
           /\ calls' = [calls EXCEPT ![c] = Authorized(q,
                [roomVersion |-> w.room.version, memberVersion |-> member.version,
                 nickname |-> member.nickname])]
           /\ work' = [work EXCEPT ![c].step = "items"]
  <2>1. /\ q.op # "create" /\ Exists(q.room) /\ w.room \in Room
        /\ w.room.version \in RoomVersions /\ w.room.version <= Len(audits[q.room])
        /\ w.room.owner = room[q.room].owner
    BY <1>1, <1>2 DEF RequestOK, SnapshotOK, Work
  <2>2. member.role \in PermittedRoles[ActionOf[q.op]]
    BY <1>3, <1>6, <2>1, AllowedArePermitted
  <2>3. IsMember(q.room, q.agent)
    <3>1. q.op \in {"post", "nickname", "grant", "revoke"}
      BY <2>1, RequestAssumption DEF Request
    <3>2. QED
      BY <2>2, <3>1, NoneAssumption DEF IsMember, PermittedRoles, ActionOf, Roles
  <2>4. member.version \in 1 .. MaxMemberVersion
    BY <1>3, <1>4, <2>3, NumberAssumption
    DEF TableInv, StoreInv, MembersNumbered, VersionsBounded, Membership
  <2>5. PICK new : new = [roomVersion |-> w.room.version, memberVersion |-> member.version,
                          nickname |-> member.nickname]
    OBVIOUS
  <2>6. new \in Snapshot
    BY <1>4, <2>1, <2>5 DEF Snapshot, Membership, Room
  <2>7. SnapshotPermits(q, new)
    <3>1. MembershipSince(q.room, q.agent, new.roomVersion, member)
      BY DEF MembershipSince
    <3>2. QED
      BY <1>4, <2>1, <2>2, <2>4, <2>5, <3>1 DEF SnapshotPermits
  <2>8. PICK call : call = Authorized(q, new)
    OBVIOUS
  <2>9. call \in Call /\ ConflictOK(call)
    BY <2>6, <2>8 DEF Authorized, Call, ConflictOK
  <2>10. PICK v : v = [w EXCEPT !.step = "items"]
    OBVIOUS
  <2>11. v \in Work /\ v.step = "items" /\ v.request = q /\ v.id = w.id
    BY <1>2, <2>10 DEF Work, Steps
  <2>12. RequestOK(v)
    BY <1>2, <2>1, <2>11 DEF RequestOK
  <2>13. SnapshotOK(v, new) /\ ItemsOK(v, new) /\ KeyOK(v, new)
    BY <2>7, <2>11 DEF SnapshotOK, ItemsOK, KeyOK
  <2>14. StepOK(v, new) /\ ControlOK(v, call) /\ call.snapshot = new
    BY <2>8, <2>11, <2>12, <2>13 DEF StepOK, ControlOK, Authorized
  <2>15. work' = [work EXCEPT ![c] = v] /\ calls' = [calls EXCEPT ![c] = call]
    BY <1>2, <1>6, <2>5, <2>8, <2>10
  <2>16. QED
    BY <1>1, <1>2, <2>9, <2>11, <2>14, <2>15, QuietMove
<1>7. QED
  BY <1>2, <1>5, <1>6 DEF ReadMembership

LEMMA ReadTargetInv ==
  ASSUME DynamoInv, NEW c \in Calls, work[c].step = "items",
         work[c].request.op \in {"grant", "revoke"}, ReadTarget(c), UNCHANGED vars
  PROVE  DynamoInv'
<1>1. c \in RunningCalls
  BY DEF RunningCalls
<1>2. PICK w \in Work, q \in Requests, call \in Call, s \in Snapshot :
        /\ w = work[c] /\ q = w.request /\ call = calls[c] /\ s = call.snapshot
        /\ RequestOK(w) /\ SnapshotOK(w, s)
  BY <1>1, Running
<1> DEFINE seen == members[q.room][q.target]
<1>3. CASE Finish(c, "denied", None) \/ Finish(c, "not_found", None)
  BY <1>1, <1>3, FinishedMove DEF Results
<1>4. CASE /\ q.target \notin {q.agent, room[q.room].owner}
           /\ UNCHANGED calls
           /\ \E next \in {"guard", "transaction"} :
                /\ next = "guard" => q.op = "grant"
                /\ work' = [work EXCEPT ![c].step = next, ![c].member = seen]
  <2>1. PICK next \in {"guard", "transaction"} :
          /\ next = "guard" => q.op = "grant"
          /\ work' = [work EXCEPT ![c].step = next, ![c].member = seen]
    BY <1>4
  <2>2. PICK v : v = [w EXCEPT !.step = next, !.member = seen]
    OBVIOUS
  <2>3. seen \in Membership
    BY <1>2, RequestFields DEF DynamoInv, TableInv, StoreInv, TypeOK
  <2>4. v \in Work /\ v.step = next /\ v.request = q /\ v.id = w.id
    BY <1>2, <2>2, <2>3 DEF Work, Steps
  <2>5. RequestOK(v)
    BY <1>2, <2>1, <2>4 DEF RequestOK
  <2>6. ItemsOK(v, s) /\ KeyOK(v, s)
    BY <1>2, <1>4, <2>4 DEF ItemsOK, KeyOK
  <2>7. work' = [work EXCEPT ![c] = v]
    BY <1>2, <2>1, <2>2 DEF DynamoInv, DynamoTypeOK
  <2>8. v.step \notin {"idle", "membership"} /\ v.id = work[c].id /\ v.request = work[c].request
    BY <1>2, <2>4
  <2>9. QED
    BY <1>1, <1>2, <1>4, <2>4, <2>5, <2>6, <2>7, <2>8, GoingOn
<1>5. QED
  BY <1>2, <1>3, <1>4 DEF ReadTarget

LEMMA ReadSelfInv ==
  ASSUME DynamoInv, NEW c \in Calls, work[c].step = "items",
         work[c].request.op = "nickname", ReadSelf(c), UNCHANGED vars
  PROVE  DynamoInv'
<1>1. c \in RunningCalls
  BY DEF RunningCalls
<1>2. PICK w \in Work, q \in Requests, call \in Call, s \in Snapshot :
        /\ w = work[c] /\ q = w.request /\ call = calls[c] /\ s = call.snapshot
        /\ RequestOK(w) /\ SnapshotOK(w, s)
  BY <1>1, Running
<1>3. CASE Finish(c, "denied", None)
  BY <1>1, <1>3, FinishedMove DEF Results
<1>4. CASE /\ RoleCan(members[q.room][q.agent].role, "UpdateNickname")
           /\ UNCHANGED calls
           /\ \E next \in {"guard", "transaction"} :
                /\ next = "guard" <=> members[q.room][q.agent].nickname = q.nickname
                /\ work' = [work EXCEPT ![c].step = next, ![c].member = members[q.room][q.agent]]
  <2>1. PICK seen \in Membership : seen = members[q.room][q.agent]
    BY <1>2, RequestFields DEF DynamoInv, TableInv, StoreInv, TypeOK
  <2>2. PICK next \in {"guard", "transaction"} :
          /\ next = "guard" <=> seen.nickname = q.nickname
          /\ work' = [work EXCEPT ![c].step = next, ![c].member = seen]
    BY <1>4, <2>1
  <2>3. PICK v : v = [w EXCEPT !.step = next, !.member = seen]
    OBVIOUS
  <2>4. v \in Work /\ v.step = next /\ v.request = q /\ v.id = w.id /\ v.member = seen
    BY <1>2, <2>3 DEF Work, Steps
  <2>5. SelfSeen(q, s, seen)
    <3>1. seen.role # None
      BY <1>4, <2>1, NoneAssumption DEF RoleCan, PermittedRoles
    <3>2. MembershipSince(q.room, q.agent, s.roomVersion, seen)
      BY <2>1 DEF MembershipSince
    <3>3. SnapshotPermits(q, s)
      BY <1>2 DEF SnapshotOK
    <3>4. PICK before \in Membership :
            /\ before.version = s.memberVersion
            /\ MembershipSince(q.room, q.agent, s.roomVersion, before)
      BY <3>3 DEF SnapshotPermits
    <3>5. before.version \in Nat /\ seen.version \in Nat
      BY DEF Membership
    <3>6. RevokedSince(q.room, q.agent, s.roomVersion) \/ seen.version >= s.memberVersion
      BY <2>1, <3>4, <3>5 DEF MembershipSince
    <3>7. QED
      BY <3>1, <3>2, <3>6 DEF SelfSeen
  <2>6. RequestOK(v)
    BY <1>2, <2>4 DEF RequestOK
  <2>7. ItemsOK(v, s) /\ KeyOK(v, s)
    BY <1>2, <2>2, <2>4, <2>5 DEF ItemsOK, KeyOK
  <2>8. work' = [work EXCEPT ![c] = v]
    BY <1>2, <2>2, <2>3 DEF DynamoInv, DynamoTypeOK
  <2>9. v.step \notin {"idle", "membership"} /\ v.id = work[c].id /\ v.request = work[c].request
    BY <1>2, <2>4
  <2>10. QED
    BY <1>1, <1>2, <1>4, <2>4, <2>6, <2>7, <2>8, <2>9, GoingOn
<1>5. QED
  BY <1>2, <1>3, <1>4 DEF ReadSelf

(* A key that is found used leads to the guard on what it was used for.    *)
LEMMA ToGuard ==
  ASSUME DynamoInv, UNCHANGED vars, NEW c \in Calls, c \in RunningCalls,
         work[c].step # "membership", NEW q \in Requests, q = work[c].request, q.op = "post",
         KeyRecord(q) # NotUsed, UNCHANGED calls,
         work' = [work EXCEPT ![c].step = "guard", ![c].record = KeyRecord(q)]
  PROVE  DynamoInv'
<1>1. PICK w \in Work, call \in Call, s \in Snapshot :
        /\ w = work[c] /\ call = calls[c] /\ s = call.snapshot /\ RequestOK(w)
  BY Running
<1>2. PICK used \in IdempotencyRecord : used = KeyRecord(q)
  <2>1. q.room \in RoomIDs /\ q.agent \in Agents /\ q.key \in IdempotencyKeys
    BY RequestFields
  <2>2. idempotency \in [RoomIDs -> [Agents -> [IdempotencyKeys -> IdempotencyRecord]]]
    BY DEF DynamoInv, TableInv, StoreInv, TypeOK
  <2>3. idempotency[q.room][q.agent][q.key] \in IdempotencyRecord
    BY <2>1, <2>2
  <2>4. QED
    BY <2>3, Zenon DEF KeyRecord
<1>3. PICK v : v = [w EXCEPT !.step = "guard", !.record = used]
  OBVIOUS
<1>4. v \in Work /\ v.step = "guard" /\ v.request = q /\ v.id = w.id /\ v.record = used
  BY <1>1, <1>3 DEF Work, Steps
<1>5. RequestOK(v) /\ ItemsOK(v, s) /\ KeyOK(v, s)
  BY <1>1, <1>2, <1>4 DEF RequestOK, ItemsOK, KeyOK
<1>6. work' = [work EXCEPT ![c] = v]
  BY <1>1, <1>2, <1>3 DEF DynamoInv, DynamoTypeOK
<1>7. v.step \notin {"idle", "membership"} /\ v.id = work[c].id /\ v.request = work[c].request
  BY <1>1, <1>4
<1>8. QED
  BY <1>1, <1>4, <1>5, <1>6, <1>7, GoingOn

LEMMA ReadKeyInv ==
  ASSUME DynamoInv, NEW c \in Calls, work[c].step = "items",
         work[c].request.op = "post", ReadKey(c), UNCHANGED vars
  PROVE  DynamoInv'
<1>1. c \in RunningCalls
  BY DEF RunningCalls
<1>2. PICK w \in Work, q \in Requests, call \in Call, s \in Snapshot :
        /\ w = work[c] /\ q = w.request /\ call = calls[c] /\ s = call.snapshot
        /\ RequestOK(w)
  BY <1>1, Running
<1>3. CASE KeyRecord(q) # NotUsed
  <2>1. work' = [work EXCEPT ![c].step = "guard", ![c].record = KeyRecord(q)] /\ UNCHANGED calls
    BY <1>2, <1>3 DEF ReadKey, KeyRecord
  <2>2. QED
    BY <1>1, <1>2, <1>3, <2>1, ToGuard
<1>4. CASE KeyRecord(q) = NotUsed
  <2>1. PICK id \in Unminted :
          work' = [work EXCEPT ![c].step = "transaction", ![c].id = id] /\ UNCHANGED calls
    BY <1>2, <1>4 DEF ReadKey, KeyRecord
  <2>2. PICK v : v = [w EXCEPT !.step = "transaction", !.id = id]
    OBVIOUS
  <2>3. id \in MessageIDs
    BY DEF Unminted
  <2>4. v \in Work /\ v.step = "transaction" /\ v.request = q /\ v.id = id
    BY <1>2, <2>2, <2>3 DEF Work, Steps
  <2>5. RequestOK(v) /\ ItemsOK(v, s) /\ KeyOK(v, s)
    BY <1>2, <2>3, <2>4 DEF RequestOK, ItemsOK, KeyOK
  <2>6. work' = [work EXCEPT ![c] = v]
    BY <1>2, <2>1, <2>2 DEF DynamoInv, DynamoTypeOK
  <2>7. v.step \notin {"idle", "membership"} /\ v.id \in Unminted /\ v.request = work[c].request
    BY <1>2, <2>4
  <2>8. QED
    BY <1>1, <1>2, <2>1, <2>4, <2>5, <2>6, <2>7, GoingOn
<1>5. QED
  BY <1>3, <1>4

LEMMA ReadItemsInv == ASSUME DynamoInv, NEW c \in Calls, ReadItems(c) PROVE DynamoInv'
BY ReadTargetInv, ReadSelfInv, ReadKeyInv DEF ReadItems

(* What a transaction was refused for, and who looks at it again.          *)

LEMMA StaysPost ==
  ASSUME DynamoInv, UNCHANGED vars, NEW c \in Calls, work[c].step \in {"transaction", "guard", "recheck"},
         NEW q \in Requests, q = work[c].request, q.op = "post",
         NEW next \in {"recheck", "classify"}, GoTo(c, next),
         NEW s \in Snapshot, s = calls[c].snapshot,
         Outdated(q, s) \/ (next = "recheck" /\ KeyRecord(q) # NotUsed)
  PROVE  DynamoInv'
<1>1. c \in RunningCalls /\ work[c].step # "membership"
  BY DEF RunningCalls
<1>2. PICK w \in Work : w = work[c] /\ RequestOK(w)
  BY <1>1, Running
<1>3. PICK v : v = [w EXCEPT !.step = next]
  OBVIOUS
<1>4. v \in Work /\ v.step = next /\ v.request = q /\ v.id = w.id
  BY <1>2, <1>3 DEF Work, Steps
<1>5. RequestOK(v) /\ ItemsOK(v, s) /\ KeyOK(v, s)
  BY <1>2, <1>4 DEF RequestOK, ItemsOK, KeyOK
<1>6. work' = [work EXCEPT ![c] = v] /\ UNCHANGED calls
  BY <1>2, <1>3 DEF DynamoInv, DynamoTypeOK, GoTo
<1>7. v.step \notin {"idle", "membership"} /\ v.id = work[c].id /\ v.request = work[c].request
  BY <1>2, <1>4
<1>8. QED
  BY <1>1, <1>4, <1>5, <1>6, <1>7, GoingOn

(* An actor whose membership is as it was read still has the permission.   *)
LEMMA CurrentActors ==
  ASSUME DynamoInv, NEW c \in Calls, NEW q \in Requests, NEW s \in Snapshot,
         q = work[c].request, s = calls[c].snapshot, SnapshotPermits(q, s), ~ActorUnchanged(c)
  PROVE  Outdated(q, s)
<1>1. PICK seen \in Membership :
        /\ seen.version = s.memberVersion /\ seen.nickname = s.nickname
        /\ seen.role \in PermittedRoles[ActionOf[q.op]]
        /\ MembershipSince(q.room, q.agent, s.roomVersion, seen)
  BY DEF SnapshotPermits
<1>2. members[q.room][q.agent] # seen
  BY <1>1 DEF ActorUnchanged
<1>3. QED
  BY <1>1, <1>2 DEF MembershipSince, Outdated

(* No message has the id of a transaction that was not committed.          *)
LEMMA CancelInv == ASSUME DynamoInv, NEW c \in Calls, Cancel(c) PROVE DynamoInv'
<1>1. c \in RunningCalls /\ UNCHANGED vars /\ work[c].step = "transaction" /\ ~Conditions(c)
  BY DEF Cancel, RunningCalls
<1>2. PICK w \in Work, q \in Requests, call \in Call, s \in Snapshot :
        /\ w = work[c] /\ q = w.request /\ call = calls[c] /\ s = call.snapshot
        /\ RequestOK(w) /\ SnapshotOK(w, s) /\ KeyOK(w, s)
  BY <1>1, Running
<1>3. CASE q.op # "post" /\ Finish(c, "conflict", None)
  BY <1>1, <1>2, <1>3, FinishedMove DEF Results
<1>4. CASE q.op = "post" /\ GoTo(c, "recheck")
  <2>1. SnapshotPermits(q, s) /\ Exists(q.room) /\ w.id \in MessageIDs
    BY <1>1, <1>2, <1>4 DEF RequestOK, SnapshotOK, KeyOK
  <2>2. RoomOpen(q.room)
    BY <2>1, RequestFields DEF RoomOpen, DynamoInv, TableInv, NothingArchived
  <2>3. \A m \in messages[q.room] : m.id # w.id
    <3>1. w.id \notin UsedMessageIDs
      BY <1>2, <2>1, NoneAssumption DEF DynamoInv, MintedInv
    <3>2. QED
      BY <3>1, RequestFields DEF UsedMessageIDs
  <2>4. ~ActorUnchanged(c) \/ ~KeyFree(q)
    BY <1>1, <1>2, <1>4, <2>2, <2>3 DEF Conditions
  <2>5. Outdated(q, s) \/ KeyRecord(q) # NotUsed
    BY <1>2, <2>1, <2>4, CurrentActors DEF KeyFree, KeyRecord
  <2>6. QED
    BY <1>1, <1>2, <1>4, <2>5, StaysPost
<1>5. QED
  BY <1>2, <1>3, <1>4 DEF Cancel

LEMMA RecheckInv == ASSUME DynamoInv, NEW c \in Calls, Recheck(c) PROVE DynamoInv'
<1>1. c \in RunningCalls /\ UNCHANGED vars /\ work[c].step = "recheck"
  BY DEF Recheck, RunningCalls
<1>2. PICK w \in Work, q \in Requests, call \in Call, s \in Snapshot :
        /\ w = work[c] /\ q = w.request /\ call = calls[c] /\ s = call.snapshot
        /\ RequestOK(w) /\ KeyOK(w, s)
  BY <1>1, Running
<1>3. q.op = "post" /\ (KeyRecord(q) # NotUsed \/ Outdated(q, s))
  BY <1>1, <1>2 DEF RequestOK, KeyOK
<1>4. CASE KeyRecord(q) # NotUsed
  <2>1. work' = [work EXCEPT ![c].step = "guard", ![c].record = KeyRecord(q)] /\ UNCHANGED calls
    BY <1>2, <1>4 DEF Recheck, KeyRecord
  <2>2. QED
    BY <1>1, <1>2, <1>3, <1>4, <2>1, ToGuard
<1>5. CASE KeyRecord(q) = NotUsed
  <2>1. GoTo(c, "classify")
    BY <1>2, <1>5 DEF Recheck, KeyRecord
  <2>2. QED
    BY <1>1, <1>2, <1>3, <1>5, <2>1, StaysPost
<1>6. QED
  BY <1>4, <1>5

LEMMA ClassifyInv == ASSUME DynamoInv, NEW c \in Calls, Classify(c) PROVE DynamoInv'
<1>1. c \in RunningCalls /\ UNCHANGED vars /\ work[c].step = "classify"
  BY DEF Classify, RunningCalls
<1>2. PICK w \in Work, q \in Requests, call \in Call, s \in Snapshot :
        /\ w = work[c] /\ q = w.request /\ call = calls[c] /\ s = call.snapshot
        /\ RequestOK(w) /\ SnapshotOK(w, s) /\ KeyOK(w, s)
  BY <1>1, Running
<1>3. Outdated(q, s) /\ s.roomVersion <= Len(audits[q.room])
  BY <1>1, <1>2 DEF RequestOK, SnapshotOK, KeyOK, SnapshotPermits
<1>4. PICK result \in {"denied", "conflict"} : Finish(c, result, None)
  BY DEF Classify, CheckActor
<1>5. QED
  BY <1>1, <1>2, <1>3, <1>4, FinishedMove DEF Results

LEMMA GuardInv == ASSUME DynamoInv, NEW c \in Calls, Guard(c) PROVE DynamoInv'
<1>1. c \in RunningCalls /\ UNCHANGED vars /\ work[c].step = "guard"
  BY DEF Guard, RunningCalls
<1>2. PICK w \in Work, q \in Requests, call \in Call, s \in Snapshot :
        /\ w = work[c] /\ q = w.request /\ call = calls[c] /\ s = call.snapshot
        /\ RequestOK(w) /\ SnapshotOK(w, s) /\ KeyOK(w, s)
  BY <1>1, Running
<1>3. CASE q.op # "post" /\ (Finish(c, "unchanged", None) \/ Finish(c, "conflict", None))
  BY <1>1, <1>2, <1>3, FinishedMove DEF Results
<1>4. CASE q.op = "post" /\ AnswerReplay(c)
  <2>1. w.record # NotUsed /\ KeyRecord(q) = w.record /\ s.roomVersion <= Len(audits[q.room])
    BY <1>1, <1>2, <1>4 DEF KeyOK, SnapshotOK, SnapshotPermits
  <2>2. w.record.id \in MessageIDs \cup {None}
    BY DEF Work, IdempotencyRecord
  <2>3. w.record.body # None
    <3>1. PICK m \in messages[q.room] : m.body = KeyRecord(q).body
      BY <1>4, <2>1, RequestFields DEF DynamoInv, TableInv, StoreInv, IdempotencyExact, KeyRecord
    <3>2. m.body \in Bodies
      BY RequestFields DEF DynamoInv, TableInv, StoreInv, TypeOK, Message
    <3>3. QED
      BY <2>1, <3>1, <3>2, NoneAssumption
  <2>4. CASE w.record.body # q.body /\ Finish(c, "conflict", None)
    BY <1>1, <1>2, <2>1, <2>3, <2>4, FinishedMove DEF Results
  <2>5. CASE Finish(c, "replay", w.record.id)
    BY <1>1, <2>2, <2>5, FinishedMove DEF Results
  <2>6. CASE Finish(c, "not_found", None)
    BY <1>1, <2>6, FinishedMove DEF Results
  <2>7. QED
    BY <1>2, <1>4, <2>4, <2>5, <2>6 DEF AnswerReplay
<1>5. CASE q.op = "post" /\ GoTo(c, "classify") /\ ~GuardHolds(c)
  <2>1. SnapshotPermits(q, s) /\ Exists(q.room)
    BY <1>1, <1>2, <1>5 DEF RequestOK, SnapshotOK
  <2>2. RoomOpen(q.room)
    BY <2>1, RequestFields DEF RoomOpen, DynamoInv, TableInv, NothingArchived
  <2>3. ~ActorUnchanged(c)
    BY <1>2, <1>5, <2>2 DEF GuardHolds
  <2>4. QED
    BY <1>1, <1>2, <1>5, <2>1, <2>3, CurrentActors, StaysPost
<1>6. QED
  BY <1>2, <1>3, <1>4, <1>5 DEF Guard

LEMMA RejectInv == ASSUME DynamoInv, NEW c \in Calls, Reject(c) PROVE DynamoInv'
BY FinishedMove DEF Reject, RunningCalls, Results

LEMMA FailInv == ASSUME DynamoInv, NEW c \in Calls, Fail(c) PROVE DynamoInv'
BY FinishedMove DEF Fail, Results

-----------------------------------------------------------------------------
(* A transaction that is committed. *)

(* It does in one step what MemoryStore does, or it is the excepted rename. *)
AsStore(c) ==
  \/ Next /\ \E id \in MessageIDs \cup {None} : StoreWrite(c, id)
  \/ /\ calls[c].request.op = "nickname" /\ AnyRename
     /\ \/ \E id \in MessageIDs \cup {None} : StoreWrite(c, id)
        \/ Readmitted(c) \/ Unreserved(c)

LEMMA CommitCreate ==
  ASSUME DynamoInv, NEW c \in Calls, NEW q \in Requests,
         work[c].request = q, calls[c].request = q, q.op = "create", Conditions(c), Effects(c)
  PROVE  AsStore(c)
<1>1. ~Exists(q.room) /\ quotas[q.agent] < MaxRoomsPerAgent
  BY DEF Conditions
<1>2. PutRoom(q)
  BY DEF Effects
<1>3. CreateRoom(q.room, q.agent)
  BY <1>1, <1>2, PutRoomCreates DEF DynamoInv
<1>4. Next
  BY <1>3, RequestFields DEF Next
<1>5. StoreWrite(c, None)
  BY <1>3 DEF StoreWrite
<1>6. QED
  BY <1>4, <1>5 DEF AsStore

(* The versions of a snapshot are values the operations may be given.      *)
LEMMA SnapshotVersions ==
  ASSUME NEW q \in Requests, NEW s \in Snapshot, SnapshotPermits(q, s)
  PROVE  s.memberVersion \in MemberVersions /\ s.roomVersion \in RoomVersions
BY NumberAssumption DEF SnapshotPermits, MemberVersions, Snapshot

LEMMA CommitAllowlist ==
  ASSUME DynamoInv, NEW c \in Calls, NEW w \in Work, NEW q \in Requests, NEW s \in Snapshot,
         w = work[c], w.request = q, calls[c].request = q, calls[c].snapshot = s,
         q.op \in {"grant", "revoke"}, q.op = "grant" => q.role \in MutableRoles,
         SnapshotPermits(q, s), q.target \notin {q.agent, room[q.room].owner},
         Conditions(c), Effects(c)
  PROVE  AsStore(c)
<1>1. /\ q.room \in RoomIDs /\ q.agent \in Agents /\ q.target \in Agents
      /\ s.memberVersion \in MemberVersions /\ s.roomVersion \in RoomVersions
  BY RequestFields, SnapshotVersions
<1>2. ActorUnchanged(c) /\ RoomUnchanged(c)
  BY DEF Conditions
<1>3. AllowlistResult(q.room, q.agent, q.target, s.memberVersion, s.roomVersion) = "ok"
  <2>1. RoomOpen(q.room) /\ room[q.room].version = s.roomVersion
    BY <1>2 DEF RoomUnchanged
  <2>2. /\ members[q.room][q.agent].role \in PermittedRoles["UpdateAllowList"]
        /\ members[q.room][q.agent].version = s.memberVersion
    BY <1>2 DEF ActorUnchanged, ActionOf
  <2>3. QED
    BY <1>1, <2>1, <2>2, ManagerConditions DEF DynamoInv
<1>4. CASE q.op = "grant"
  <2>1. room[q.room].memberCount < MaxMembersPerRoom /\ ~IsMember(q.room, q.target)
    BY <1>4 DEF Conditions
  <2>2. PutMember(q)
    BY <1>4 DEF Effects
  <2>3. GrantAllowlist(q.room, q.agent, q.target, q.role, s.memberVersion, s.roomVersion)
    BY <1>3, <1>4, <2>1, <2>2, PutMemberGrants DEF DynamoInv
  <2>4. Next
    BY <1>1, <1>4, <2>3, RequestFields DEF Next
  <2>5. StoreWrite(c, None)
    BY <1>4, <2>3 DEF StoreWrite
  <2>6. QED
    BY <2>4, <2>5 DEF AsStore
<1>5. CASE q.op = "revoke"
  <2>1. PICK seen \in Membership : seen = w.member
    BY DEF Work
  <2>2. TargetUnchanged(c) /\ DeleteMember(q, seen)
    BY <1>5, <2>1 DEF Conditions, Effects
  <2>3. /\ members[q.room][q.target].role \notin {None, "owner"}
        /\ KeyOf(members[q.room][q.target].nickname) = KeyOf(seen.nickname)
    BY <2>1, <2>2 DEF TargetUnchanged
  <2>4. RevokeAllowlist(q.room, q.agent, q.target, s.memberVersion, s.roomVersion)
    BY <1>3, <1>5, <2>2, <2>3, DeleteMemberRevokes DEF DynamoInv
  <2>5. Next
    BY <1>1, <2>4 DEF Next
  <2>6. StoreWrite(c, None)
    BY <1>5, <2>4 DEF StoreWrite
  <2>7. QED
    BY <2>5, <2>6 DEF AsStore
<1>6. QED
  BY <1>4, <1>5

LEMMA CommitPost ==
  ASSUME DynamoInv, NEW c \in Calls, NEW w \in Work, NEW q \in Requests, NEW s \in Snapshot,
         w = work[c], w.request = q, calls[c].request = q, calls[c].snapshot = s,
         q.op = "post", SnapshotPermits(q, s), w.id \in MessageIDs, Conditions(c), Effects(c)
  PROVE  /\ AsStore(c)
         /\ KeyRecord(q) = NotUsed
         /\ KeyRecord(q)' = [body |-> q.body, id |-> w.id]
<1>1. /\ q.room \in RoomIDs /\ q.agent \in Agents /\ q.key \in IdempotencyKeys
      /\ q.body \in Bodies /\ s.memberVersion \in MemberVersions
      /\ s.nickname \in Nicknames \cup {None}
  BY RequestFields, SnapshotVersions DEF Snapshot
<1>2. PICK id \in MessageIDs : id = w.id
  OBVIOUS
<1>3. id \notin UsedMessageIDs
  BY <1>2, NoneAssumption DEF DynamoInv, MintedInv
<1>4. RoomOpen(q.room) /\ ActorUnchanged(c) /\ KeyFree(q)
  BY DEF Conditions
<1>5. /\ members[q.room][q.agent].role \in PermittedRoles["PostMessage"]
      /\ members[q.room][q.agent].version = s.memberVersion
  BY <1>4 DEF ActorUnchanged, ActionOf
<1>6. PutMessage(c)
  BY DEF Effects
<1>7. PostMessage(q.room, q.agent, q.key, q.body, s.nickname, s.memberVersion, id)
  BY <1>2, <1>3, <1>4, <1>5, <1>6, PutMessagePosts DEF DynamoInv
<1>8. Next
  BY <1>1, <1>7 DEF Next
<1>9. StoreWrite(c, id)
  BY <1>7 DEF StoreWrite
<1>10. AsStore(c)
  BY <1>8, <1>9 DEF AsStore
<1>11. KeyRecord(q) = NotUsed
  BY <1>4 DEF KeyFree, KeyRecord
<1>12. KeyRecord(q)' = [body |-> q.body, id |-> w.id]
  <2>1. idempotency' = [idempotency EXCEPT ![q.room][q.agent][q.key] =
          [body |-> q.body, id |-> w.id]]
    BY <1>6 DEF PutMessage
  <2>2. idempotency \in [RoomIDs -> [Agents -> [IdempotencyKeys -> IdempotencyRecord]]]
    BY DEF DynamoInv, TableInv, StoreInv, TypeOK
  <2>3. QED
    BY <1>1, <2>1, <2>2 DEF KeyRecord
<1>13. QED
  BY <1>10, <1>11, <1>12

LEMMA CommitNickname ==
  ASSUME DynamoInv, NEW c \in Calls, NEW w \in Work, NEW q \in Requests, NEW s \in Snapshot,
         w = work[c], w.request = q, calls[c].request = q, calls[c].snapshot = s,
         q.op = "nickname", SelfSeen(q, s, w.member), w.member.nickname # q.nickname,
         Conditions(c), Effects(c)
  PROVE  AsStore(c)
<1>1. q.room \in RoomIDs /\ q.agent \in Agents /\ q.nickname \in Nicknames /\ TableInv
  BY RequestFields DEF DynamoInv
<1>2. PICK seen \in Membership : seen = w.member
  BY DEF Work
<1>3. RoomOpen(q.room) /\ NicknameClaimable(c) /\ UpdateNickname(c)
  BY DEF Conditions, Effects
<1>4. /\ members[q.room][q.agent].role = seen.role
      /\ members[q.room][q.agent].version = s.memberVersion
      /\ seen.role # None
  BY <1>2, <1>3 DEF NicknameClaimable, SelfSeen
<1>5. AnyRename
  <2>1. IsMember(q.room, q.agent)
    BY <1>4 DEF IsMember
  <2>2. RenameStep(q.room, q.agent, q.nickname)
    BY <1>1, <1>3, <2>1, UpdateNicknameRenames
  <2>3. QED
    BY <1>1, <2>2 DEF AnyRename
<1>6. ASSUME ~Readmitted(c), ~Unreserved(c)
      PROVE  StoreWrite(c, None)
  <2>1. ~RevokedSince(q.room, q.agent, s.roomVersion)
    BY <1>6 DEF Readmitted
  <2>2. seen.version >= s.memberVersion /\ MembershipSince(q.room, q.agent, s.roomVersion, seen)
    BY <1>2, <2>1 DEF SelfSeen
  <2>3. seen.version \in Nat /\ s.memberVersion \in Nat
    BY DEF Membership, Snapshot
  <2>4. members[q.room][q.agent] = seen
    BY <1>4, <2>1, <2>2, <2>3 DEF MembershipSince
  <2>5. seen.nickname # None => nicknames[q.room][NicknameKey[seen.nickname]] = q.agent
    BY <1>6, <2>4 DEF Unreserved
  <2>6. SetNickname(q.room, q.agent, q.nickname, s.memberVersion)
    BY <1>1, <1>2, <1>3, <1>4, <2>4, <2>5, UpdateNicknameSets
  <2>7. QED
    BY <2>6 DEF StoreWrite
<1>7. QED
  BY <1>5, <1>6 DEF AsStore

LEMMA Committed ==
  ASSUME DynamoInv, NEW c \in Calls, Commit(c)
  PROVE  /\ calls[c].phase = "authorized"
         /\ calls[c].request = work[c].request
         /\ AsStore(c)
         /\ UsedMessageIDs' \subseteq UsedMessageIDs \cup {work[c].id}
<1>1. c \in RunningCalls /\ work[c].step = "transaction" /\ Conditions(c) /\ Effects(c)
  BY DEF Commit, RunningCalls
<1>2. PICK w \in Work, q \in Requests, call \in Call, s \in Snapshot :
        /\ w = work[c] /\ q = w.request /\ call = calls[c] /\ s = call.snapshot
        /\ RequestOK(w) /\ SnapshotOK(w, s) /\ ItemsOK(w, s) /\ KeyOK(w, s)
        /\ ControlOK(w, call)
  BY <1>1, Running
<1>3. call.phase = "authorized" /\ call.request = q
  BY <1>1, <1>2 DEF ControlOK
<1>4. q.op # "create" => SnapshotPermits(q, s)
  BY <1>1, <1>2 DEF SnapshotOK
<1>5. AsStore(c)
  <2>1. CASE q.op = "create"
    BY <1>1, <1>2, <1>3, <2>1, CommitCreate
  <2>2. CASE q.op \in {"grant", "revoke"}
    <3>1. /\ q.op = "grant" => q.role \in MutableRoles
          /\ q.target \notin {q.agent, room[q.room].owner}
      BY <1>1, <1>2, <2>2 DEF RequestOK, ItemsOK
    <3>2. QED
      BY <1>1, <1>2, <1>3, <1>4, <2>2, <3>1, CommitAllowlist
  <2>3. CASE q.op = "nickname"
    <3>1. SelfSeen(q, s, w.member) /\ w.member.nickname # q.nickname
      BY <1>1, <1>2, <2>3 DEF ItemsOK
    <3>2. QED
      BY <1>1, <1>2, <1>3, <2>3, <3>1, CommitNickname
  <2>4. CASE q.op = "post"
    <3>1. w.id \in MessageIDs
      BY <1>1, <1>2, <2>4 DEF KeyOK
    <3>2. QED
      BY <1>1, <1>2, <1>3, <1>4, <2>4, <3>1, CommitPost
  <2>5. QED
    BY <2>1, <2>2, <2>3, <2>4, RequestAssumption DEF Request
<1>6. UsedMessageIDs' \subseteq UsedMessageIDs \cup {work[c].id}
  <2>1. CASE q.op # "post"
    <3>1. messages' = messages
      BY <1>1, <1>2, <2>1 DEF Effects, PutRoom, PutMember, DeleteMember, UpdateNickname
    <3>2. QED
      BY <3>1 DEF UsedMessageIDs
  <2>2. CASE q.op = "post"
    <3>1. PICK m : m.id = w.id /\ messages' = [messages EXCEPT ![q.room] = @ \cup {m}]
      BY <1>1, <1>2, <2>2 DEF Effects, PutMessage
    <3>2. messages \in [RoomIDs -> SUBSET Message]
      BY DEF DynamoInv, TableInv, StoreInv, TypeOK
    <3>3. \A r \in RoomIDs : messages'[r] \subseteq messages[r] \cup {m}
      BY <3>1, <3>2
    <3>4. QED
      BY <1>2, <3>1, <3>3 DEF UsedMessageIDs
  <2>3. QED
    BY <2>1, <2>2
<1>7. QED
  BY <1>2, <1>3, <1>5, <1>6

LEMMA CommitInv == ASSUME DynamoInv, NEW c \in Calls, Commit(c) PROVE DynamoInv'
<1>1. PICK result \in {"ok", "internal"}, message \in {work[c].id, None} :
        Finish(c, result, message)
  BY DEF Commit
<1>2. TableStep /\ UsedMessageIDs' \subseteq UsedMessageIDs \cup {work[c].id}
  BY Committed DEF AsStore, TableStep
<1>3. c \in RunningCalls
  BY DEF Commit, RunningCalls
<1>4. PICK w \in Work, q \in Requests, call \in Call, s \in Snapshot :
        w = work[c] /\ q = w.request /\ call = calls[c] /\ s = call.snapshot
  BY <1>3, Running
<1>5. PICK new : new = Answered(q, s, result, message)
  OBVIOUS
<1>6. new \in Call
  BY <1>4, <1>5 DEF Answered, Call, Results, Work
<1>7. NoWork \in Work
  BY DEF NoWork, Work, Steps, Room, Membership, IdempotencyRecord, NoRoom, NotMember, NotUsed
<1>8. work' = [work EXCEPT ![c] = NoWork] /\ calls' = [calls EXCEPT ![c] = new]
  BY <1>1, <1>4, <1>5 DEF Finish
<1>9. ConflictOK(new)
  BY <1>5 DEF ConflictOK, Answered
<1>10. StepOK(NoWork, new.snapshot) /\ ControlOK(NoWork, new) /\ NoWork.id = None
  BY DEF StepOK, ControlOK, NoWork
<1>11. MoveOK(c, NoWork, new)
  BY <1>8, <1>9, <1>10 DEF MoveOK
<1>12. QED
  BY <1>2, <1>6, <1>7, <1>11, MoveKeepsInv

-----------------------------------------------------------------------------
(* The invariant holds always. *)

LEMMA InitDynamoInv == DynamoInit => DynamoInv
<1> SUFFICES ASSUME DynamoInit PROVE DynamoInv
  OBVIOUS
<1>1. Init /\ calls = [c \in Calls |-> IdleCall] /\ work = [c \in Calls |-> NoWork]
  BY DEF DynamoInit, ServerInit
<1>2. TableInv
  BY <1>1, InitTableInv
<1>3. NoWork \in Work /\ NoWork.step = "idle" /\ NoWork.id = None
  BY DEF NoWork, Work, Steps, Room, Membership, IdempotencyRecord, NoRoom, NotMember, NotUsed
<1>4. /\ IdleCall \in Call /\ IdleCall.snapshot \in Snapshot
      /\ IdleCall.phase = "idle" /\ IdleCall.result = None
  BY DEF IdleCall, Call, Snapshot, NoSnapshot
<1>5. DynamoTypeOK
  BY <1>1, <1>2, <1>3, <1>4 DEF DynamoTypeOK, ServerTypeOK, TableInv, StoreInv
<1>6. WorkInv
  BY <1>1, <1>3, <1>4 DEF WorkInv, StepOK
<1>7. ConflictInv
  BY <1>1, <1>4 DEF ConflictInv, ConflictOK
<1>8. ControlInv /\ MintedInv
  BY <1>1, <1>3 DEF ControlInv, ControlOK, MintedInv
<1>9. QED
  BY <1>2, <1>5, <1>6, <1>7, <1>8 DEF DynamoInv

(* Steps that are none of the system's.                                    *)
LEMMA IdleDynamoInv == ASSUME DynamoInv, UNCHANGED dynamoVars PROVE DynamoInv'
<1>1. UNCHANGED vars /\ calls' = calls /\ work' = work
  BY DEF dynamoVars, serverVars
<1>2. CASE Calls = {}
  <2>1. TableInv'
    BY <1>1, NextTableInv DEF DynamoInv, TableStep
  <2>2. DynamoTypeOK'
    BY <1>1, <2>1 DEF DynamoInv, DynamoTypeOK, ServerTypeOK, TableInv, StoreInv
  <2>3. QED
    BY <1>2, <2>1, <2>2 DEF DynamoInv, WorkInv, ConflictInv, ControlInv, MintedInv
<1>3. CASE Calls # {}
  <2>1. PICK c \in Calls : TRUE
    BY <1>3
  <2>2. PICK w \in Work, s \in Snapshot : w = work[c] /\ s = calls[c].snapshot /\ StepOK(w, s)
    BY DEF DynamoInv, WorkInv
  <2>3. PICK call \in Call : call = calls[c] /\ ConflictOK(call)
    BY DEF DynamoInv, ConflictInv
  <2>4. work' = [work EXCEPT ![c] = w] /\ calls' = [calls EXCEPT ![c] = call]
    BY <1>1, <2>2, <2>3 DEF DynamoInv, DynamoTypeOK, ServerTypeOK
  <2>5. StepOK(w, call.snapshot) /\ ControlOK(w, call) /\ w.id \in {None, work[c].id}
    BY <2>2, <2>3 DEF DynamoInv, ControlInv
  <2>6. QED
    BY <1>1, <2>3, <2>4, <2>5, QuietMove
<1>4. QED
  BY <1>2, <1>3

LEMMA NextDynamoInv == ASSUME DynamoInv, [DynamoNext]_dynamoVars PROVE DynamoInv'
<1>1. ASSUME NEW c \in Calls, NEW q \in Requests, Receive(c, q)
      PROVE  DynamoInv'
  BY <1>1, ReceiveInv
<1>2. ASSUME NEW c \in Calls, Proceed(c)
      PROVE  DynamoInv'
  BY <1>2, ReadMembershipInv, ReadItemsInv, CommitInv, CancelInv, RejectInv, GuardInv,
     RecheckInv, ClassifyInv DEF Proceed
<1>3. ASSUME NEW c \in Calls, Fail(c)
      PROVE  DynamoInv'
  BY <1>3, FailInv
<1>4. QED
  BY <1>1, <1>2, <1>3, IdleDynamoInv DEF DynamoNext

LEMMA DynamoInvariant == DynamoSpec => []DynamoInv
<1>1. DynamoInv /\ [DynamoNext]_dynamoVars => DynamoInv'
  BY NextDynamoInv
<1>2. QED
  BY <1>1, InitDynamoInv, PTL DEF DynamoSpec

-----------------------------------------------------------------------------
(* What it says. *)

(* The program's values stay in their types.                               *)
THEOREM DynamoTypeCorrect == DynamoSpec => []DynamoTypeOK
<1>1. DynamoInv => DynamoTypeOK
  BY DEF DynamoInv
<1>2. QED
  BY <1>1, DynamoInvariant, PTL

(* The rows and counters of one room stay in step, though every handler    *)
(* decided on what it had read earlier: one owner, a count and a quota     *)
(* that are exact, an audit log that explains the allowlist, and for every *)
(* key that was used the one message it stands for.                        *)
THEOREM TablesStayExact ==
  DynamoSpec => [](/\ SoleOwner /\ MemberCountExact /\ RoomQuotaExact
                   /\ AuditExplainsAllowlist /\ IdempotencyExact)
<1>1. DynamoInv => SoleOwner /\ MemberCountExact /\ RoomQuotaExact /\ IdempotencyExact
  BY DEF DynamoInv, TableInv, StoreInv
<1>2. DynamoInv => AuditExplainsAllowlist
  BY DEF DynamoInv, TableInv, StoreInv, AuditInv, ExplainedBy, AuditExplainsAllowlist
<1>3. QED
  BY <1>1, <1>2, DynamoInvariant, PTL

(* Every transaction is one operation of the store, allowed by the checks  *)
(* MemoryStore makes, at the moment it is committed.                       *)
THEOREM TransactionsAreStoreOperations == DynamoSpec => CommitsAsStore
<1> DEFINE AsOne == \/ UNCHANGED vars
                    \/ \E c \in Calls :
                         /\ calls[c].phase = "authorized" /\ calls'[c].phase = "answered"
                         /\ \/ \E id \in MessageIDs \cup {None} : StoreWrite(c, id)
                            \/ calls[c].request.op = "nickname" /\ (Readmitted(c) \/ Unreserved(c))
<1>1. ASSUME DynamoInv, NEW c \in Calls, Commit(c)
      PROVE  AsOne
  <2>1. calls[c].phase = "authorized" /\ AsStore(c)
    BY <1>1, Committed
  <2>2. calls'[c].phase = "answered"
    BY <1>1 DEF Commit, Finish, Answered, DynamoInv, DynamoTypeOK, ServerTypeOK
  <2>3. QED
    BY <2>1, <2>2 DEF AsStore
<1>2. ASSUME DynamoInv, DynamoNext, ~(\E c \in Calls : Commit(c))
      PROVE  UNCHANGED vars
  BY <1>2 DEF DynamoNext, Proceed, Receive, ReadMembership, ReadItems, Cancel, Reject, Guard,
     Recheck, Classify, Fail
<1>3. DynamoInv /\ [DynamoNext]_dynamoVars => [AsOne]_dynamoVars
  BY <1>1, <1>2
<1>4. QED
  BY <1>3, DynamoInvariant, PTL DEF DynamoSpec, CommitsAsStore

(* No author is told of a conflict that it has no part in: a post that     *)
(* lost against its own first try is answered with the message.            *)
THEOREM ConflictsHaveACause == DynamoSpec => []PostConflictsHaveACause
<1>1. DynamoInv => PostConflictsHaveACause
  <2>1. SUFFICES ASSUME DynamoInv, NEW c \in Calls, IsAnswered(c),
                        calls[c].request.op = "post", Status(c) = 409
                 PROVE  LET q == calls[c].request IN
                        \/ idempotency[q.room][q.agent][q.key].body \notin {None, q.body}
                        \/ members[q.room][q.agent].version # calls[c].snapshot.memberVersion
                        \/ Readmitted(c)
    BY DEF PostConflictsHaveACause
  <2>2. PICK call \in Call : call = calls[c] /\ ConflictOK(call)
    BY <2>1 DEF DynamoInv, ConflictInv
  <2>3. call.phase = "answered" /\ call.result = "conflict" /\ call.request.op = "post"
    BY <2>1, <2>2 DEF IsAnswered, Status
  <2>4. PICK q \in Requests : q = call.request
    BY <2>2, <2>3 DEF ConflictOK
  <2>5. KeyRecord(q).body \notin {None, q.body} \/ Outdated(q, call.snapshot)
    BY <2>2, <2>3, <2>4 DEF ConflictOK
  <2>6. members[q.room][q.agent].version \in Nat /\ call.snapshot.memberVersion \in Nat
    BY <2>1, RequestFields DEF DynamoInv, DynamoTypeOK, ServerTypeOK, TypeOK, Membership, Call, Snapshot
  <2>7. RevokedSince(q.room, q.agent, call.snapshot.roomVersion) => Readmitted(c)
    BY <2>2, <2>4, Zenon DEF Readmitted
  <2>8. \/ KeyRecord(q).body \notin {None, q.body}
        \/ members[q.room][q.agent].version # call.snapshot.memberVersion
        \/ Readmitted(c)
    BY <2>5, <2>6, <2>7 DEF Outdated
  <2>9. QED
    BY <2>2, <2>4, <2>8 DEF KeyRecord
<1>2. QED
  BY <1>1, DynamoInvariant, PTL

-----------------------------------------------------------------------------
(* Retries, over a table that may fail after it has written. *)

LEMMA TableKeepsKeys == ASSUME DynamoInv, [DynamoNext]_dynamoVars PROVE KeysStay
<1>1. CASE UNCHANGED vars
  BY <1>1 DEF vars, KeysStay
<1>2. ASSUME NEW c \in Calls, Commit(c)
      PROVE  KeysStay
  <2>1. TableStep
    BY <1>2, Committed DEF AsStore, TableStep
  <2>2. QED
    BY <2>1, TableEvolves DEF DynamoInv, Evolves
<1>3. QED
  BY <1>1, <1>2 DEF DynamoNext, Proceed, Receive, ReadMembership, ReadItems, Cancel, Reject,
     Guard, Recheck, Classify, Fail, dynamoVars, serverVars

(* A call that is given no message by its step.                            *)
LEMMA NoMessageGiven ==
  ASSUME RetryInv, KeysStay, calls \in [Calls -> Call], NEW c \in Calls, NEW call \in Call,
         calls' = [calls EXCEPT ![c] = call],
         call.phase = "answered" /\ call.request.op = "post" =>
           call.result \in Results \ {"ok", "unchanged", "replay"}
  PROVE  RetryInv'
<1>1. calls'[c] = call /\ \A d \in Calls : c # d => calls'[d] = calls[d]
  OBVIOUS
<1>2. ~GotMessage(c)'
  BY <1>1 DEF GotMessage, IsAnswered, Status, Call, Results
<1>3. QED
  BY <1>1, <1>2, QuietStep

LEMMA Unchanging ==
  ASSUME RetryInv, KeysStay, calls' = calls
  PROVE  RetryInv'
<1>1. CASE Calls = {}
  BY <1>1 DEF RetryInv, KeysKept, CreatedOnce
<1>2. CASE Calls # {}
  <2>1. PICK c \in Calls : TRUE
    BY <1>2
  <2>2. KeysKept'
    <3>1. ASSUME NEW d \in Calls, GotMessage(d)'
          PROVE  \E q \in Requests :
                   calls'[d].request = q /\ q.op = "post" /\ StandsFor(q, calls[d].message)'
      <4>1. GotMessage(d)
        BY <3>1 DEF GotMessage, IsAnswered, Status
      <4>2. PICK q \in Requests :
              calls[d].request = q /\ q.op = "post" /\ StandsFor(q, calls[d].message)
        BY <4>1 DEF RetryInv, KeysKept
      <4>3. PICK id : id = calls[d].message
        OBVIOUS
      <4>4. StandsFor(q, id)'
        BY <4>2, <4>3, RequestFields DEF KeysStay, StandsFor, KeyRecord
      <4>5. id = calls'[d].message
        BY <4>3
      <4>6. QED
        BY <4>2, <4>4, <4>5 DEF StandsFor
    <3>2. QED
      BY <3>1 DEF KeysKept
  <2>3. CreatedOnce'
    BY DEF RetryInv, CreatedOnce, GotMessage, IsAnswered, Status
  <2>4. QED
    BY <2>2, <2>3 DEF RetryInv
<1>3. QED
  BY <1>1, <1>2

LEMMA CommitRetryInv ==
  ASSUME DynamoInv, RetryInv, KeysStay, NEW c \in Calls, Commit(c)
  PROVE  RetryInv'
<1>1. c \in RunningCalls /\ work[c].step = "transaction" /\ Conditions(c) /\ Effects(c)
  BY DEF Commit, RunningCalls
<1>2. PICK w \in Work, q \in Requests, call \in Call, s \in Snapshot :
        /\ w = work[c] /\ q = w.request /\ call = calls[c] /\ s = call.snapshot
        /\ SnapshotOK(w, s) /\ KeyOK(w, s) /\ ControlOK(w, call)
  BY <1>1, Running
<1>3. calls \in [Calls -> Call]
  BY DEF DynamoInv, DynamoTypeOK, ServerTypeOK
<1>4. PICK result \in {"ok", "internal"}, message \in {w.id, None} :
        /\ calls' = [calls EXCEPT ![c] = Answered(q, s, result, message)]
        /\ result = "ok" => message = w.id
  BY <1>2 DEF Commit, Finish
<1>5. PICK new : new = Answered(q, s, result, message)
  OBVIOUS
<1>6. new \in Call /\ new.request = q /\ new.result = result /\ new.message = message
  BY <1>5 DEF Answered, Call, Results, Work
<1>7. calls' = [calls EXCEPT ![c] = new]
  BY <1>4, <1>5
<1>8. CASE q.op = "post" /\ result = "ok"
  <2>1. call.request = q /\ SnapshotPermits(q, s) /\ w.id \in MessageIDs
    BY <1>1, <1>2, <1>8 DEF SnapshotOK, KeyOK, ControlOK
  <2>2. KeyRecord(q) = NotUsed /\ KeyRecord(q)' = [body |-> q.body, id |-> w.id]
    BY <1>1, <1>2, <1>8, <2>1, CommitPost
  <2>3. /\ calls'[c].request = q /\ calls'[c].message = w.id
        /\ \A d \in Calls : d # c => calls'[d] = calls[d]
    BY <1>3, <1>4, <1>6, <1>7, <1>8
  <2>4. QED
    BY <1>8, <2>2, <2>3, PostStep
<1>9. CASE q.op # "post" \/ result = "internal"
  BY <1>3, <1>6, <1>7, <1>9, NoMessageGiven DEF Results
<1>10. QED
  BY <1>8, <1>9

LEMMA GuardRetryInv ==
  ASSUME DynamoInv, RetryInv, KeysStay, NEW c \in Calls, Guard(c)
  PROVE  RetryInv'
<1>1. c \in RunningCalls /\ work[c].step = "guard" /\ UNCHANGED vars
  BY DEF Guard, RunningCalls
<1>2. PICK w \in Work, q \in Requests, call \in Call, s \in Snapshot :
        w = work[c] /\ q = w.request /\ call = calls[c] /\ s = call.snapshot /\ KeyOK(w, s)
  BY <1>1, Running
<1>3. calls \in [Calls -> Call]
  BY DEF DynamoInv, DynamoTypeOK, ServerTypeOK
<1>4. CASE GoTo(c, "classify")
  BY <1>4, Unchanging DEF GoTo
<1>5. ASSUME NEW result \in Results, Finish(c, result, None),
             q.op = "post" => result \notin {"ok", "unchanged", "replay"}
      PROVE  RetryInv'
  <2>1. PICK new : new = Answered(q, s, result, None)
    OBVIOUS
  <2>2. new \in Call /\ new.request = q /\ new.result = result
    BY <2>1 DEF Answered, Call
  <2>3. calls' = [calls EXCEPT ![c] = new]
    BY <1>2, <1>5, <2>1 DEF Finish
  <2>4. QED
    BY <1>3, <1>5, <2>2, <2>3, NoMessageGiven
<1>6. CASE q.op = "post" /\ w.record.body = q.body /\ Finish(c, "replay", w.record.id)
  <2>1. PICK id : id = w.record.id
    OBVIOUS
  <2>2. PICK new : new = Answered(q, s, "replay", id)
    OBVIOUS
  <2>3. /\ new.request = q /\ new.message = id /\ new.result = "replay"
    BY <2>2 DEF Answered
  <2>4. calls' = [calls EXCEPT ![c] = new]
    BY <1>2, <1>6, <2>1, <2>2 DEF Finish
  <2>5. calls'[c] = new /\ \A d \in Calls : c # d => calls'[d] = calls[d]
    BY <1>3, <2>4
  <2>6. Status(c)' # 201
    BY <2>3, <2>5 DEF Status
  <2>7. w.record # NotUsed /\ KeyRecord(q) = w.record
    BY <1>1, <1>2, <1>6 DEF KeyOK
  <2>8. KeyRecord(q)' = KeyRecord(q)
    BY <1>1 DEF vars, KeyRecord
  <2>9. StandsFor(q, id)'
    BY <1>6, <2>1, <2>7, <2>8 DEF StandsFor
  <2>10. StandsFor(q, calls[c].message)'
    BY <2>3, <2>5, <2>9 DEF StandsFor
  <2>11. QED
    BY <1>6, <2>3, <2>5, <2>6, <2>10, QuietStep
<1>7. CASE AnswerReplay(c) /\ q.op = "post"
  BY <1>2, <1>5, <1>6, <1>7 DEF AnswerReplay, Results
<1>8. CASE q.op # "post" /\ (Finish(c, "unchanged", None) \/ Finish(c, "conflict", None))
  BY <1>5, <1>8 DEF Results
<1>9. QED
  BY <1>2, <1>4, <1>7, <1>8 DEF Guard

(* A handler that ends without a message to give.                          *)
LEMMA FinishRetryInv ==
  ASSUME DynamoInv, RetryInv, KeysStay, NEW c \in Calls, c \in RunningCalls,
         NEW result \in Results \ {"ok", "unchanged", "replay"}, Finish(c, result, None)
  PROVE  RetryInv'
<1>1. PICK q \in Requests, s \in Snapshot : q = work[c].request /\ s = calls[c].snapshot
  BY Running
<1>2. PICK new : new = Answered(q, s, result, None)
  OBVIOUS
<1>3. new \in Call /\ new.result = result
  BY <1>2 DEF Answered, Call
<1>4. calls' = [calls EXCEPT ![c] = new]
  BY <1>1, <1>2 DEF Finish
<1>5. QED
  BY <1>3, <1>4, NoMessageGiven DEF DynamoInv, DynamoTypeOK, ServerTypeOK

LEMMA ReceiveRetryInv ==
  ASSUME DynamoInv, RetryInv, KeysStay, NEW c \in Calls, NEW q \in Requests, Receive(c, q)
  PROVE  RetryInv'
<1>1. \/ calls' = calls
      \/ calls' = [calls EXCEPT ![c] = Authorized(q, NoSnapshot)]
      \/ calls' = [calls EXCEPT ![c] = Answered(q, NoSnapshot, "validation", None)]
      \/ calls' = [calls EXCEPT ![c] = Answered(q, NoSnapshot, "not_found", None)]
  BY DEF Receive
<1>2. ASSUME NEW call, calls' = [calls EXCEPT ![c] = call],
             call \in {Authorized(q, NoSnapshot),
                       Answered(q, NoSnapshot, "validation", None),
                       Answered(q, NoSnapshot, "not_found", None)}
      PROVE  RetryInv'
  <2>1. call \in Call
    BY <1>2 DEF Authorized, Answered, Call, Results, Snapshot, NoSnapshot
  <2>2. call.phase = "answered" => call.result \in {"validation", "not_found"}
    BY <1>2 DEF Authorized, Answered
  <2>3. calls \in [Calls -> Call]
    BY DEF DynamoInv, DynamoTypeOK, ServerTypeOK
  <2>4. QED
    BY <1>2, <2>1, <2>2, <2>3, NoMessageGiven DEF Results
<1>3. QED
  BY <1>1, <1>2, Unchanging

LEMMA ReadRetryInv ==
  ASSUME DynamoInv, RetryInv, KeysStay, NEW c \in Calls, ReadMembership(c)
  PROVE  RetryInv'
<1>1. c \in RunningCalls
  BY DEF ReadMembership, RunningCalls
<1>2. CASE Finish(c, "denied", None)
  BY <1>1, <1>2, FinishRetryInv DEF Results
<1>3. CASE ~Finish(c, "denied", None)
  <2>1. PICK q \in Requests : q = work[c].request
    BY <1>1, Running
  <2>2. PICK rm \in Room : rm = work[c].room
    BY DEF DynamoInv, DynamoTypeOK, Work
  <2>3. PICK member \in Membership : member = members[q.room][q.agent]
    BY RequestFields DEF DynamoInv, DynamoTypeOK, ServerTypeOK, TypeOK
  <2>4. PICK s : s = [roomVersion |-> rm.version, memberVersion |-> member.version,
                      nickname |-> member.nickname]
    OBVIOUS
  <2>5. s \in Snapshot
    BY <2>4 DEF Snapshot, Room, Membership
  <2>6. PICK call : call = Authorized(q, s)
    OBVIOUS
  <2>7. call \in Call /\ call.phase = "authorized"
    BY <2>5, <2>6 DEF Authorized, Call
  <2>8. calls' = [calls EXCEPT ![c] = call]
    BY <1>3, <2>1, <2>2, <2>3, <2>4, <2>6 DEF ReadMembership
  <2>9. calls \in [Calls -> Call]
    BY DEF DynamoInv, DynamoTypeOK, ServerTypeOK
  <2>10. QED
    BY <2>7, <2>8, <2>9, NoMessageGiven
<1>4. QED
  BY <1>2, <1>3

(* All the steps that remain end with a refusal or leave the calls alone.  *)
LEMMA NextDynamoRetryInv ==
  ASSUME DynamoInv, RetryInv, [DynamoNext]_dynamoVars
  PROVE  RetryInv'
<1>1. KeysStay
  BY TableKeepsKeys
<1>2. CASE calls' = calls
  BY <1>1, <1>2, Unchanging
<1>3. ASSUME NEW c \in Calls, NEW q \in Requests, Receive(c, q)
      PROVE  RetryInv'
  BY <1>1, <1>3, ReceiveRetryInv
<1>4. ASSUME NEW c \in Calls, c \in RunningCalls,
             NEW result \in {"denied", "not_found", "conflict", "dependency"},
             Finish(c, result, None)
      PROVE  RetryInv'
  BY <1>1, <1>4, FinishRetryInv DEF Results
<1>5. ASSUME NEW c \in Calls, ReadItems(c)
      PROVE  RetryInv'
  <2>1. c \in RunningCalls
    BY <1>5 DEF ReadItems, RunningCalls
  <2>2. QED
    BY <1>2, <1>4, <1>5, <2>1 DEF ReadItems, ReadTarget, ReadSelf, ReadKey
<1>6. ASSUME NEW c \in Calls, Cancel(c) \/ Reject(c) \/ Fail(c)
      PROVE  RetryInv'
  BY <1>2, <1>4, <1>6 DEF Cancel, Reject, Fail, GoTo, RunningCalls
<1>7. ASSUME NEW c \in Calls, Recheck(c) \/ Classify(c)
      PROVE  RetryInv'
  BY <1>2, <1>4, <1>7 DEF Recheck, Classify, CheckActor, GoTo, RunningCalls
<1>8. ASSUME NEW c \in Calls, Proceed(c)
      PROVE  RetryInv'
  BY <1>1, <1>5, <1>6, <1>7, <1>8, ReadRetryInv, CommitRetryInv, GuardRetryInv DEF Proceed
<1>9. QED
  BY <1>2, <1>3, <1>6, <1>8 DEF DynamoNext, dynamoVars, serverVars

(* All the posts under one key, in however many handlers, and also those   *)
(* that were sent again because the answer was lost, are answered with one *)
(* message, and one of them at most as a new one.                          *)
THEOREM PostsAreIdempotent == DynamoSpec => []RetriesAgree
<1>1. DynamoInit => RetryInv
  BY DEF DynamoInit, ServerInit, IdleCall, RetryInv, KeysKept, CreatedOnce, GotMessage, IsAnswered
<1>2. DynamoInv /\ RetryInv => RetriesAgree
  BY RetriesAgreeOnKeys DEF DynamoInv, TableInv
<1>3. DynamoInv /\ RetryInv /\ [DynamoNext]_dynamoVars => RetryInv'
  BY NextDynamoRetryInv
<1>4. QED
  BY <1>1, <1>2, <1>3, DynamoInvariant, PTL DEF DynamoSpec

=============================================================================
