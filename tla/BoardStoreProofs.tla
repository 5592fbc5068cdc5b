-------------------------- MODULE BoardStoreProofs --------------------------
(***************************************************************************)
(* Proofs about BoardStore, for every value of its constants: the type     *)
(* invariant first, then one inductive invariant per structure, and that   *)
(* together they make the store a Board.  Room quotas, permanence of       *)
(* messages, the authority behind each change of an allowlist, and the     *)
(* audit log follow.                                                       *)
(***************************************************************************)
EXTENDS BoardStore, FiniteSetTheorems, TLAPS

-----------------------------------------------------------------------------
(* Typing. *)

(* The records the operations write are well typed. *)
LEMMA RecordTypes ==
  /\ NoRoom \in Room
  /\ NotMember \in Membership
  /\ NotUsed \in IdempotencyRecord
BY DEF NoRoom, Room, NotMember, Membership, NotUsed, IdempotencyRecord

LEMMA EditedRoomType ==
  ASSUME TypeOK, NEW r \in RoomIDs, NEW change \in Int
  PROVE  EditedRoom(r, change) \in Room
BY DEF TypeOK, Room, EditedRoom

LEMMA ReleasedType ==
  ASSUME TypeOK, NEW r \in RoomIDs, NEW a \in Agents
  PROVE  Released(r, a) \in [NicknameKeys -> Agents \cup {None}]
BY DEF TypeOK, Released

LEMMA InitTypeOK == Init => TypeOK
<1>1. <<>> \in Seq(AuditRecord)
  OBVIOUS
<1>2. QED
  BY <1>1, RecordTypes DEF Init, TypeOK

LEMMA CreateRoomTypeOK ==
  ASSUME TypeOK, NEW r \in RoomIDs, NEW a \in Agents, CreateRoom(r, a)
  PROVE  TypeOK'
<1>1. room' \in [RoomIDs -> Room]
  BY DEF TypeOK, CreateRoom, Room
<1>2. members' \in [RoomIDs -> [Agents -> Membership]]
  BY RecordTypes DEF TypeOK, CreateRoom, Membership, Roles
<1>3. nicknames' \in [RoomIDs -> [NicknameKeys -> Agents \cup {None}]]
  BY DEF TypeOK, CreateRoom
<1>4. messages' \in [RoomIDs -> SUBSET Message]
  BY DEF TypeOK, CreateRoom
<1>5. idempotency' \in [RoomIDs -> [Agents -> [IdempotencyKeys -> IdempotencyRecord]]]
  BY RecordTypes DEF TypeOK, CreateRoom
<1>6. audits' \in [RoomIDs -> Seq(AuditRecord)]
  <2>1. <<Audit("room_created", a, a, "owner")>> \in Seq(AuditRecord)
    BY DEF Audit, AuditRecord, Roles
  <2>2. QED
    BY <2>1 DEF TypeOK, CreateRoom
<1>7. quotas' \in [Agents -> Nat]
  BY DEF TypeOK, CreateRoom
<1>8. QED
  BY <1>1, <1>2, <1>3, <1>4, <1>5, <1>6, <1>7 DEF TypeOK

LEMMA GrantAllowlistTypeOK ==
  ASSUME TypeOK, NEW r \in RoomIDs, NEW a \in Agents, NEW t \in Agents,
         NEW role \in Roles, NEW mv \in MemberVersions, NEW rv \in RoomVersions,
         GrantAllowlist(r, a, t, role, mv, rv)
  PROVE  TypeOK'
<1>1. room' \in [RoomIDs -> Room]
  BY EditedRoomType DEF TypeOK, GrantAllowlist
<1>2. members' \in [RoomIDs -> [Agents -> Membership]]
  <2>1. members[r][t] \in Membership
    BY DEF TypeOK
  <2>2. [role |-> role, version |-> members[r][t].version + 1,
         nickname |-> members[r][t].nickname] \in Membership
    BY <2>1 DEF Membership
  <2>3. QED
    BY <2>2 DEF TypeOK, GrantAllowlist
<1>3. audits' \in [RoomIDs -> Seq(AuditRecord)]
  <2>1. Audit("allowlist_granted", a, t, role) \in AuditRecord
    BY DEF Audit, AuditRecord
  <2>2. QED
    BY <2>1 DEF TypeOK, GrantAllowlist
<1>4. QED
  BY <1>1, <1>2, <1>3 DEF TypeOK, GrantAllowlist

LEMMA RevokeAllowlistTypeOK ==
  ASSUME TypeOK, NEW r \in RoomIDs, NEW a \in Agents, NEW t \in Agents,
         NEW mv \in MemberVersions, NEW rv \in RoomVersions,
         RevokeAllowlist(r, a, t, mv, rv)
  PROVE  TypeOK'
<1>1. room' \in [RoomIDs -> Room]
  BY EditedRoomType DEF TypeOK, RevokeAllowlist
<1>2. members' \in [RoomIDs -> [Agents -> Membership]]
  BY RecordTypes DEF TypeOK, RevokeAllowlist
<1>3. nicknames' \in [RoomIDs -> [NicknameKeys -> Agents \cup {None}]]
  BY ReleasedType DEF TypeOK, RevokeAllowlist
<1>4. audits' \in [RoomIDs -> Seq(AuditRecord)]
  <2>1. Audit("allowlist_revoked", a, t, None) \in AuditRecord
    BY DEF Audit, AuditRecord
  <2>2. QED
    BY <2>1 DEF TypeOK, RevokeAllowlist
<1>5. QED
  BY <1>1, <1>2, <1>3, <1>4 DEF TypeOK, RevokeAllowlist

LEMMA SetNicknameTypeOK ==
  ASSUME TypeOK, NEW r \in RoomIDs, NEW a \in Agents, NEW n \in Nicknames,
         NEW mv \in MemberVersions, SetNickname(r, a, n, mv)
  PROVE  TypeOK'
<1>1. members' \in [RoomIDs -> [Agents -> Membership]]
  <2>1. members[r][a] \in Membership
    BY DEF TypeOK
  <2>2. QED
    BY <2>1 DEF TypeOK, SetNickname, Membership
<1>2. nicknames' \in [RoomIDs -> [NicknameKeys -> Agents \cup {None}]]
  BY ReleasedType DEF TypeOK, SetNickname
<1>3. QED
  BY <1>1, <1>2 DEF TypeOK, SetNickname

LEMMA PostMessageTypeOK ==
  ASSUME TypeOK, NEW r \in RoomIDs, NEW a \in Agents,
         NEW k \in IdempotencyKeys, NEW body \in Bodies,
         NEW n \in Nicknames \cup {None}, NEW mv \in MemberVersions,
         NEW id \in MessageIDs, PostMessage(r, a, k, body, n, mv, id)
  PROVE  TypeOK'
<1>1. messages' \in [RoomIDs -> SUBSET Message]
  BY DEF TypeOK, PostMessage, Message
<1>2. idempotency' \in [RoomIDs -> [Agents -> [IdempotencyKeys -> IdempotencyRecord]]]
  BY DEF TypeOK, PostMessage, IdempotencyRecord
<1>3. QED
  BY <1>1, <1>2 DEF TypeOK, PostMessage

LEMMA NextTypeOK == TypeOK /\ [Next]_vars => TypeOK'
<1>1. SUFFICES ASSUME TypeOK, [Next]_vars PROVE TypeOK'
  OBVIOUS
<1>2. CASE Next
  BY <1>1, <1>2, CreateRoomTypeOK, GrantAllowlistTypeOK, RevokeAllowlistTypeOK,
     SetNicknameTypeOK, PostMessageTypeOK DEF Next
<1>3. CASE UNCHANGED vars
  BY <1>1, <1>3 DEF TypeOK, vars
<1>4. QED
  BY <1>1, <1>2, <1>3

(* The variables keep the shape of the Go structures they stand for.       *)
THEOREM TypeCorrect == Spec => []TypeOK
BY InitTypeOK, NextTypeOK, PTL DEF Spec

-----------------------------------------------------------------------------
(* What a call that returned "ok" has checked. *)

LEMMA ManagerChecked ==
  ASSUME NEW r, NEW a, NEW t, NEW mv, NEW rv, AllowlistResult(r, a, t, mv, rv) = "ok"
  PROVE  /\ Exists(r)
         /\ room[r].version = rv
         /\ t # a
         /\ t # room[r].owner
         /\ IsMember(r, a)
         /\ members[r][a].role \in {"owner", "admin"}
BY DEF AllowlistResult, CheckActor, RoleCan, PermittedRoles

LEMMA GrantChecked ==
  ASSUME NEW r, NEW a, NEW t, NEW role, NEW mv, NEW rv,
         GrantResult(r, a, t, role, mv, rv) = "ok"
  PROVE  /\ AllowlistResult(r, a, t, mv, rv) = "ok"
         /\ role \in MutableRoles
         /\ IsMember(r, t) \/ ~(room[r].memberCount >= MaxMembersPerRoom)
         /\ members[r][t].role # "owner"
BY DEF GrantResult

LEMMA RevokeChecked ==
  ASSUME NEW r, NEW a, NEW t, NEW mv, NEW rv, RevokeResult(r, a, t, mv, rv) = "ok"
  PROVE  /\ AllowlistResult(r, a, t, mv, rv) = "ok"
         /\ IsMember(r, t)
         /\ members[r][t].role # "owner"
BY DEF RevokeResult

LEMMA NicknameChecked ==
  ASSUME NEW r, NEW a, NEW n, NEW mv, SetNicknameResult(r, a, n, mv) = "ok"
  PROVE  /\ Exists(r)
         /\ IsMember(r, a)
         /\ nicknames[r][NicknameKey[n]] \in {None, a}
BY DEF SetNicknameResult, NicknameTaken

LEMMA PostChecked ==
  ASSUME NEW r, NEW a, NEW k, NEW body, NEW mv, PostResult(r, a, k, body, mv) = "ok"
  PROVE  /\ Exists(r)
         /\ IsMember(r, a)
         /\ members[r][a].role \in {"owner", "admin", "poster"}
         /\ idempotency[r][a][k] = NotUsed
BY DEF PostResult, ReplayResult, CheckActor, RoleCan, PermittedRoles

-----------------------------------------------------------------------------
(* One owner for good. *)

LEMMA NextSoleOwner == TypeOK /\ SoleOwner /\ [Next]_vars => SoleOwner'
<1>1. SUFFICES ASSUME TypeOK, SoleOwner, [Next]_vars PROVE SoleOwner'
  OBVIOUS
<1>2. CASE UNCHANGED vars
  BY <1>1, <1>2 DEF SoleOwner, vars
<1>3. ASSUME NEW r \in RoomIDs, NEW a \in Agents, CreateRoom(r, a)
      PROVE  SoleOwner'
  BY <1>1, <1>3, NoneAssumption DEF TypeOK, SoleOwner, CreateRoom, NotMember, Roles
<1>4. ASSUME NEW r \in RoomIDs, NEW a \in Agents, NEW t \in Agents,
             NEW role \in Roles, NEW mv \in MemberVersions, NEW rv \in RoomVersions,
             GrantAllowlist(r, a, t, role, mv, rv)
      PROVE  SoleOwner'
  <2>1. role # "owner" /\ t # room[r].owner
    BY <1>4, GrantChecked, ManagerChecked DEF GrantAllowlist, MutableRoles
  <2>2. \A s \in RoomIDs : room'[s].owner = room[s].owner
    BY <1>1, <1>4 DEF TypeOK, GrantAllowlist, EditedRoom
  <2>3. \A s \in RoomIDs, b \in Agents :
          members'[s][b].role = IF s = r /\ b = t THEN role ELSE members[s][b].role
    BY <1>1, <1>4 DEF TypeOK, GrantAllowlist
  <2>4. QED
    BY <1>1, <2>1, <2>2, <2>3 DEF SoleOwner
<1>5. ASSUME NEW r \in RoomIDs, NEW a \in Agents, NEW t \in Agents,
             NEW mv \in MemberVersions, NEW rv \in RoomVersions,
             RevokeAllowlist(r, a, t, mv, rv)
      PROVE  SoleOwner'
  <2>1. t # room[r].owner
    BY <1>5, RevokeChecked, ManagerChecked DEF RevokeAllowlist
  <2>2. \A s \in RoomIDs : room'[s].owner = room[s].owner
    BY <1>1, <1>5 DEF TypeOK, RevokeAllowlist, EditedRoom
  <2>3. \A s \in RoomIDs, b \in Agents :
          members'[s][b].role = IF s = r /\ b = t THEN None ELSE members[s][b].role
    BY <1>1, <1>5 DEF TypeOK, RevokeAllowlist, NotMember
  <2>4. QED
    BY <1>1, <2>1, <2>2, <2>3, NoneAssumption DEF SoleOwner, Roles
<1>6. ASSUME NEW r \in RoomIDs, NEW a \in Agents, NEW n \in Nicknames,
             NEW mv \in MemberVersions, SetNickname(r, a, n, mv)
      PROVE  SoleOwner'
  BY <1>1, <1>6 DEF TypeOK, SoleOwner, SetNickname
<1>7. ASSUME NEW r \in RoomIDs, NEW a \in Agents, NEW k \in IdempotencyKeys,
             NEW body \in Bodies, NEW n \in Nicknames \cup {None},
             NEW mv \in MemberVersions, NEW id \in MessageIDs,
             PostMessage(r, a, k, body, n, mv, id)
      PROVE  SoleOwner'
  BY <1>1, <1>7 DEF SoleOwner, PostMessage
<1>8. QED
  BY <1>1, <1>2, <1>3, <1>4, <1>5, <1>6, <1>7 DEF Next

(* However the allowlist is edited, exactly the agent the room record      *)
(* names as its owner holds the owner role.                                *)
THEOREM OwnerForGood == Spec => []SoleOwner
<1>1. Init => SoleOwner
  BY NoneAssumption DEF Init, SoleOwner, NoRoom, NotMember, Roles
<1>2. QED
  BY <1>1, NextSoleOwner, TypeCorrect, PTL DEF Spec

-----------------------------------------------------------------------------
(* Nickname reservations.  The invariant is not inductive alone: a grant    *)
(* to a newcomer keeps the nickname found in the entry, so an entry that is *)
(* nobody's must be blank.                                                 *)

NonMembersBlank ==
  \A r \in RoomIDs, a \in Agents : ~IsMember(r, a) => members[r][a] = NotMember

ReservationInv == NonMembersBlank /\ ReservationsMatchMembers

LEMMA NextReservationInv == TypeOK /\ ReservationInv /\ [Next]_vars => ReservationInv'
<1>1. SUFFICES ASSUME TypeOK, ReservationInv, [Next]_vars PROVE ReservationInv'
  OBVIOUS
<1>2. CASE UNCHANGED vars
  BY <1>1, <1>2 DEF ReservationInv, NonMembersBlank, ReservationsMatchMembers, IsMember, Holds, vars
<1>3. ASSUME NEW r \in RoomIDs, NEW a \in Agents, CreateRoom(r, a)
      PROVE  ReservationInv'
  <2>1. \A s \in RoomIDs, b \in Agents :
          members'[s][b] = IF s = r THEN IF b = a
                                         THEN [role |-> "owner", version |-> 1,
                                               nickname |-> None]
                                         ELSE NotMember
                           ELSE members[s][b]
    BY <1>1, <1>3 DEF TypeOK, CreateRoom
  <2>2. \A s \in RoomIDs, k \in NicknameKeys :
          nicknames'[s][k] = IF s = r THEN None ELSE nicknames[s][k]
    BY <1>1, <1>3 DEF TypeOK, CreateRoom
  <2>3. NonMembersBlank'
    BY <1>1, <2>1, NoneAssumption DEF ReservationInv, NonMembersBlank, IsMember, Roles
  <2>4. ReservationsMatchMembers'
    <3>1. SUFFICES ASSUME NEW s \in RoomIDs, NEW k \in NicknameKeys, NEW b \in Agents
                   PROVE  nicknames'[s][k] = b <=> (IsMember(s, b) /\ Holds(s, b, k))'
      BY DEF ReservationsMatchMembers
    <3>2. CASE s = r
      <4>1. members'[s][b].nickname = None
        BY <2>1, <3>2 DEF NotMember
      <4>2. nicknames'[s][k] # b
        BY <2>2, <3>2, NoneAssumption
      <4>3. QED
        BY <4>1, <4>2 DEF Holds
    <3>3. CASE s # r
      BY <1>1, <2>1, <2>2, <3>3
      DEF ReservationInv, ReservationsMatchMembers, IsMember, Holds
    <3>4. QED
      BY <3>2, <3>3
  <2>5. QED
    BY <2>3, <2>4 DEF ReservationInv
<1>4. ASSUME NEW r \in RoomIDs, NEW a \in Agents, NEW t \in Agents,
             NEW role \in Roles, NEW mv \in MemberVersions, NEW rv \in RoomVersions,
             GrantAllowlist(r, a, t, role, mv, rv)
      PROVE  ReservationInv'
  <2>1. members[r][t].nickname = None \/ IsMember(r, t)
    BY <1>1 DEF ReservationInv, NonMembersBlank, NotMember
  <2>2. role # None
    BY NoneAssumption
  <2>3. \A s \in RoomIDs, b \in Agents :
          /\ members'[s][b].nickname = members[s][b].nickname
          /\ s = r /\ b = t => members'[s][b].role = role
          /\ ~(s = r /\ b = t) => members'[s][b] = members[s][b]
    BY <1>1, <1>4 DEF TypeOK, GrantAllowlist
  <2>4. nicknames' = nicknames
    BY <1>4 DEF GrantAllowlist
  <2>5. NonMembersBlank'
    BY <1>1, <2>2, <2>3 DEF ReservationInv, NonMembersBlank, IsMember
  <2>6. ReservationsMatchMembers'
    BY <1>1, <2>1, <2>2, <2>3, <2>4
    DEF ReservationInv, ReservationsMatchMembers, IsMember, Holds
  <2>7. QED
    BY <2>5, <2>6 DEF ReservationInv
<1>5. ASSUME NEW r \in RoomIDs, NEW a \in Agents, NEW t \in Agents,
             NEW mv \in MemberVersions, NEW rv \in RoomVersions,
             RevokeAllowlist(r, a, t, mv, rv)
      PROVE  ReservationInv'
  <2>1. \A s \in RoomIDs, b \in Agents :
          members'[s][b] = IF s = r /\ b = t THEN NotMember ELSE members[s][b]
    BY <1>1, <1>5 DEF TypeOK, RevokeAllowlist
  <2>2. \A s \in RoomIDs, k \in NicknameKeys :
          nicknames'[s][k] = IF s = r /\ Holds(r, t, k) THEN None
                             ELSE nicknames[s][k]
    BY <1>1, <1>5 DEF TypeOK, RevokeAllowlist, Released
  <2>3. NonMembersBlank'
    BY <1>1, <2>1 DEF ReservationInv, NonMembersBlank, IsMember
  <2>4. ReservationsMatchMembers'
    <3>1. SUFFICES ASSUME NEW s \in RoomIDs, NEW k \in NicknameKeys, NEW b \in Agents
                   PROVE  nicknames'[s][k] = b <=> (IsMember(s, b) /\ Holds(s, b, k))'
      BY DEF ReservationsMatchMembers
    <3>2. nicknames[s][k] = b <=> IsMember(s, b) /\ Holds(s, b, k)
      BY <1>1 DEF ReservationInv, ReservationsMatchMembers
    <3>3. nicknames[r][k] = t <=> IsMember(r, t) /\ Holds(r, t, k)
      BY <1>1 DEF ReservationInv, ReservationsMatchMembers
    <3>4. IsMember(r, t)
      BY <1>5, RevokeChecked DEF RevokeAllowlist
    <3>5. CASE s = r /\ b = t
      BY <2>1, <2>2, <3>2, <3>4, <3>5, NoneAssumption DEF IsMember, NotMember
    <3>6. CASE s = r /\ b # t
      BY <2>1, <2>2, <3>2, <3>3, <3>4, <3>6, NoneAssumption DEF IsMember, Holds
    <3>7. CASE s # r
      BY <2>1, <2>2, <3>2, <3>7 DEF IsMember, Holds
    <3>8. QED
      BY <3>5, <3>6, <3>7
  <2>5. QED
    BY <2>3, <2>4 DEF ReservationInv
<1>6. ASSUME NEW r \in RoomIDs, NEW a \in Agents, NEW n \in Nicknames,
             NEW mv \in MemberVersions, SetNickname(r, a, n, mv)
      PROVE  ReservationInv'
  <2>1. \A s \in RoomIDs, b \in Agents :
          /\ members'[s][b].role = members[s][b].role
          /\ s = r /\ b = a => members'[s][b].nickname = n
          /\ ~(s = r /\ b = a) => members'[s][b] = members[s][b]
    BY <1>1, <1>6 DEF TypeOK, SetNickname
  <2>2. \A s \in RoomIDs, k \in NicknameKeys :
          nicknames'[s][k] = IF s # r THEN nicknames[s][k]
                             ELSE IF k = NicknameKey[n] THEN a
                             ELSE IF Holds(r, a, k) THEN None
                             ELSE nicknames[r][k]
    BY <1>1, <1>6 DEF TypeOK, SetNickname, Released
  <2>3. /\ IsMember(r, a)
        /\ nicknames[r][NicknameKey[n]] \in {None, a}
        /\ n # None
        /\ NicknameKey[n] \in NicknameKeys
    BY <1>6, NicknameChecked, NoneAssumption, NicknameAssumption DEF SetNickname
  <2>4. NonMembersBlank'
    BY <1>1, <2>1, <2>3 DEF ReservationInv, NonMembersBlank, IsMember
  <2>5. ReservationsMatchMembers'
    <3>1. SUFFICES ASSUME NEW s \in RoomIDs, NEW k \in NicknameKeys, NEW b \in Agents
                   PROVE  nicknames'[s][k] = b <=> (IsMember(s, b) /\ Holds(s, b, k))'
      BY DEF ReservationsMatchMembers
    <3>2. nicknames[s][k] = b <=> IsMember(s, b) /\ Holds(s, b, k)
      BY <1>1 DEF ReservationInv, ReservationsMatchMembers
    <3>3. nicknames[r][k] = a <=> IsMember(r, a) /\ Holds(r, a, k)
      BY <1>1 DEF ReservationInv, ReservationsMatchMembers
    <3>4. CASE s = r /\ b = a
      BY <2>1, <2>2, <2>3, <3>3, <3>4, NoneAssumption DEF IsMember, Holds
    <3>5. CASE s = r /\ b # a
      <4>1. (IsMember(s, b) /\ Holds(s, b, k))' <=> IsMember(s, b) /\ Holds(s, b, k)
        BY <2>1, <3>5 DEF IsMember, Holds
      <4>2. CASE k = NicknameKey[n]
        BY <2>2, <2>3, <3>2, <3>5, <4>1, <4>2, NoneAssumption
      <4>3. CASE k # NicknameKey[n]
        BY <2>2, <2>3, <3>2, <3>3, <3>5, <4>1, <4>3, NoneAssumption
      <4>4. QED
        BY <4>2, <4>3
    <3>6. CASE s # r
      BY <2>1, <2>2, <3>2, <3>6 DEF IsMember, Holds
    <3>7. QED
      BY <3>4, <3>5, <3>6
  <2>6. QED
    BY <2>4, <2>5 DEF ReservationInv
<1>7. ASSUME NEW r \in RoomIDs, NEW a \in Agents, NEW k \in IdempotencyKeys,
             NEW body \in Bodies, NEW n \in Nicknames \cup {None},
             NEW mv \in MemberVersions, NEW id \in MessageIDs,
             PostMessage(r, a, k, body, n, mv, id)
      PROVE  ReservationInv'
  BY <1>1, <1>7
  DEF ReservationInv, NonMembersBlank, ReservationsMatchMembers, IsMember, Holds, PostMessage
<1>8. QED
  BY <1>1, <1>2, <1>3, <1>4, <1>5, <1>6, <1>7 DEF Next

(* A nickname is reserved for an agent exactly while the agent uses it.     *)
THEOREM ReservationsCorrect == Spec => []ReservationsMatchMembers
<1>1. Init => ReservationInv
  BY NoneAssumption
  DEF Init, ReservationInv, NonMembersBlank, ReservationsMatchMembers, IsMember, NotMember
<1>2. ReservationInv => ReservationsMatchMembers
  BY DEF ReservationInv
<1>3. QED
  BY <1>1, <1>2, NextReservationInv, TypeCorrect, PTL DEF Spec

-----------------------------------------------------------------------------
(* The member counter. *)

LEMMA MembersFinite ==
  ASSUME NEW r \in RoomIDs
  PROVE  /\ IsFiniteSet(MembersOf(r))
         /\ Cardinality(MembersOf(r)) \in Nat
BY FinitenessAssumption, FS_Subset, FS_CardinalityType DEF MembersOf

LEMMA NextMemberCountExact == TypeOK /\ MemberCountExact /\ [Next]_vars => MemberCountExact'
<1>1. SUFFICES ASSUME TypeOK, MemberCountExact, [Next]_vars PROVE MemberCountExact'
  OBVIOUS
<1>2. CASE UNCHANGED vars
  BY <1>1, <1>2 DEF MemberCountExact, MembersOf, IsMember, vars
<1>3. ASSUME NEW r \in RoomIDs, NEW a \in Agents, CreateRoom(r, a)
      PROVE  MemberCountExact'
  <2>1. \A s \in RoomIDs : MembersOf(s)' = IF s = r THEN {a} ELSE MembersOf(s)
    BY <1>1, <1>3, NoneAssumption
    DEF TypeOK, CreateRoom, MembersOf, IsMember, NotMember, Roles
  <2>2. \A s \in RoomIDs :
          room'[s].memberCount = IF s = r THEN 1 ELSE room[s].memberCount
    BY <1>1, <1>3 DEF TypeOK, CreateRoom
  <2>3. Cardinality({a}) = 1
    BY FS_Singleton
  <2>4. 1 <= MaxMembersPerRoom
    BY NumberAssumption
  <2>5. QED
    BY <1>1, <2>1, <2>2, <2>3, <2>4 DEF MemberCountExact
<1>4. ASSUME NEW r \in RoomIDs, NEW a \in Agents, NEW t \in Agents,
             NEW role \in Roles, NEW mv \in MemberVersions, NEW rv \in RoomVersions,
             GrantAllowlist(r, a, t, role, mv, rv)
      PROVE  MemberCountExact'
  <2>1. \A s \in RoomIDs :
          MembersOf(s)' = IF s = r THEN MembersOf(r) \cup {t} ELSE MembersOf(s)
    BY <1>1, <1>4, NoneAssumption DEF TypeOK, GrantAllowlist, MembersOf, IsMember
  <2>2. \A s \in RoomIDs :
          room'[s].memberCount =
            IF s = r THEN room[r].memberCount + (IF IsMember(r, t) THEN 0 ELSE 1)
            ELSE room[s].memberCount
    BY <1>1, <1>4 DEF TypeOK, GrantAllowlist, EditedRoom
  <2>3. IsMember(r, t) \/ ~(room[r].memberCount >= MaxMembersPerRoom)
    BY <1>4, GrantChecked DEF GrantAllowlist
  <2>4. t \in MembersOf(r) <=> IsMember(r, t)
    BY DEF MembersOf
  <2>5. Cardinality(MembersOf(r) \cup {t}) =
          IF t \in MembersOf(r) THEN Cardinality(MembersOf(r))
          ELSE Cardinality(MembersOf(r)) + 1
    BY MembersFinite, FS_AddElement
  <2>6. Cardinality(MembersOf(r)) \in Nat /\ MaxMembersPerRoom \in Nat
    BY MembersFinite, NumberAssumption
  <2>7. QED
    BY <1>1, <2>1, <2>2, <2>3, <2>4, <2>5, <2>6 DEF MemberCountExact
<1>5. ASSUME NEW r \in RoomIDs, NEW a \in Agents, NEW t \in Agents,
             NEW mv \in MemberVersions, NEW rv \in RoomVersions,
             RevokeAllowlist(r, a, t, mv, rv)
      PROVE  MemberCountExact'
  <2>1. \A s \in RoomIDs :
          MembersOf(s)' = IF s = r THEN MembersOf(r) \ {t} ELSE MembersOf(s)
    BY <1>1, <1>5 DEF TypeOK, RevokeAllowlist, MembersOf, IsMember, NotMember
  <2>2. \A s \in RoomIDs :
          room'[s].memberCount =
            IF s = r THEN room[r].memberCount - 1 ELSE room[s].memberCount
    BY <1>1, <1>5 DEF TypeOK, Room, RevokeAllowlist, EditedRoom
  <2>3. t \in MembersOf(r)
    BY <1>5, RevokeChecked DEF RevokeAllowlist, MembersOf
  <2>4. Cardinality(MembersOf(r) \ {t}) = Cardinality(MembersOf(r)) - 1
    BY <2>3, MembersFinite, FS_RemoveElement
  <2>5. Cardinality(MembersOf(r)) \in Nat /\ MaxMembersPerRoom \in Nat
    BY MembersFinite, NumberAssumption
  <2>6. ASSUME NEW s \in RoomIDs
        PROVE  /\ room'[s].memberCount = Cardinality(MembersOf(s)')
               /\ room'[s].memberCount <= MaxMembersPerRoom
    <3>1. CASE s = r
      <4>1. /\ room[r].memberCount = Cardinality(MembersOf(r))
            /\ room[r].memberCount <= MaxMembersPerRoom
        BY <1>1 DEF MemberCountExact
      <4>2. room'[s].memberCount = room[r].memberCount - 1 /\ MembersOf(s)' = MembersOf(r) \ {t}
        BY <2>1, <2>2, <3>1
      <4>3. QED
        BY <2>4, <2>5, <4>1, <4>2
    <3>2. CASE s # r
      BY <1>1, <2>1, <2>2, <3>2 DEF MemberCountExact
    <3>3. QED
      BY <3>1, <3>2
  <2>7. QED
    BY <2>6 DEF MemberCountExact
<1>6. ASSUME NEW r \in RoomIDs, NEW a \in Agents, NEW n \in Nicknames,
             NEW mv \in MemberVersions, SetNickname(r, a, n, mv)
      PROVE  MemberCountExact'
  <2>1. \A s \in RoomIDs : MembersOf(s)' = MembersOf(s)
    BY <1>1, <1>6 DEF TypeOK, SetNickname, MembersOf, IsMember
  <2>2. room' = room
    BY <1>6 DEF SetNickname
  <2>3. QED
    BY <1>1, <2>1, <2>2 DEF MemberCountExact
<1>7. ASSUME NEW r \in RoomIDs, NEW a \in Agents, NEW k \in IdempotencyKeys,
             NEW body \in Bodies, NEW n \in Nicknames \cup {None},
             NEW mv \in MemberVersions, NEW id \in MessageIDs,
             PostMessage(r, a, k, body, n, mv, id)
      PROVE  MemberCountExact'
  BY <1>1, <1>7 DEF MemberCountExact, MembersOf, IsMember, PostMessage
<1>8. QED
  BY <1>1, <1>2, <1>3, <1>4, <1>5, <1>6, <1>7 DEF Next

LEMMA InitMemberCountExact == Init => MemberCountExact
<1>1. Init => \A r \in RoomIDs : MembersOf(r) = {}
  BY DEF Init, MembersOf, IsMember, NotMember
<1>2. Cardinality({}) = 0
  BY FS_EmptySet
<1>3. QED
  <2>1. SUFFICES ASSUME Init, NEW r \in RoomIDs
                 PROVE  /\ room[r].memberCount = Cardinality(MembersOf(r))
                        /\ room[r].memberCount <= MaxMembersPerRoom
    BY DEF MemberCountExact
  <2>2. room[r].memberCount = 0
    BY <2>1 DEF Init, NoRoom
  <2>3. Cardinality(MembersOf(r)) = 0
    BY <1>1, <1>2, <2>1
  <2>4. 0 <= MaxMembersPerRoom
    BY NumberAssumption
  <2>5. QED
    BY <2>2, <2>3, <2>4

(* The counter behind the member quota is exact and never above the quota.  *)
THEOREM MemberCountCorrect == Spec => []MemberCountExact
BY InitMemberCountExact, NextMemberCountExact, TypeCorrect, PTL DEF Spec

-----------------------------------------------------------------------------
(* Versions: within the bounds of the model, of rooms that exist only, and  *)
(* never smaller than they were.                                           *)

VersionsBounded ==
  \A r \in RoomIDs :
    /\ room[r].version <= MaxRoomVersion
    /\ Exists(r) => room[r].version >= 1
    /\ ~Exists(r) => room[r].version = 0
    /\ \A a \in Agents : members[r][a].version <= MaxMemberVersion

LEMMA NextVersionsBounded == TypeOK /\ VersionsBounded /\ [Next]_vars => VersionsBounded'
<1>1. SUFFICES ASSUME TypeOK, VersionsBounded, [Next]_vars PROVE VersionsBounded'
  OBVIOUS
<1>2. CASE UNCHANGED <<room, members>>
  BY <1>1, <1>2 DEF VersionsBounded, Exists
<1>3. ASSUME NEW r \in RoomIDs, NEW a \in Agents, CreateRoom(r, a)
      PROVE  VersionsBounded'
  <2>1. \A s \in RoomIDs :
          /\ s = r => room'[s].version = 1 /\ room'[s].owner = a
          /\ s # r => room'[s] = room[s]
    BY <1>1, <1>3 DEF TypeOK, CreateRoom
  <2>2. \A s \in RoomIDs, b \in Agents :
          \/ members'[s][b].version = members[s][b].version
          \/ members'[s][b].version \in {0, 1}
    BY <1>1, <1>3 DEF TypeOK, CreateRoom, NotMember
  <2>3. a # None /\ 1 <= MaxRoomVersion /\ 1 <= MaxMemberVersion /\ 0 <= MaxMemberVersion
    BY NoneAssumption, NumberAssumption
  <2>4. QED
    BY <1>1, <2>1, <2>2, <2>3 DEF VersionsBounded, Exists
<1>4. ASSUME NEW r \in RoomIDs, NEW a \in Agents, NEW t \in Agents,
             NEW role \in Roles, NEW mv \in MemberVersions, NEW rv \in RoomVersions,
             GrantAllowlist(r, a, t, role, mv, rv)
      PROVE  VersionsBounded'
  <2>1. \A s \in RoomIDs :
          /\ room'[s].owner = room[s].owner
          /\ room'[s].version = IF s = r THEN room[r].version + 1 ELSE room[s].version
    BY <1>1, <1>4 DEF TypeOK, GrantAllowlist, EditedRoom
  <2>2. \A s \in RoomIDs, b \in Agents :
          members'[s][b].version = IF s = r /\ b = t THEN members[r][t].version + 1
                                   ELSE members[s][b].version
    BY <1>1, <1>4 DEF TypeOK, GrantAllowlist
  <2>3. /\ Exists(r)
        /\ room[r].version < MaxRoomVersion
        /\ members[r][t].version < MaxMemberVersion
    BY <1>4, GrantChecked, ManagerChecked DEF GrantAllowlist
  <2>4. /\ room[r].version \in Nat /\ members[r][t].version \in Nat
        /\ MaxRoomVersion \in Nat /\ MaxMemberVersion \in Nat
    BY <1>1, NumberAssumption DEF TypeOK, Room, Membership
  <2>5. \A s \in RoomIDs : room'[s].version <= MaxRoomVersion
    BY <1>1, <2>1, <2>3, <2>4 DEF VersionsBounded
  <2>6. \A s \in RoomIDs, b \in Agents : members'[s][b].version <= MaxMemberVersion
    BY <1>1, <2>2, <2>3, <2>4 DEF VersionsBounded
  <2>7. \A s \in RoomIDs : /\ Exists(s)' => room'[s].version >= 1
                           /\ ~Exists(s)' => room'[s].version = 0
    BY <1>1, <2>1, <2>3, <2>4 DEF VersionsBounded, Exists
  <2>8. QED
    BY <2>5, <2>6, <2>7 DEF VersionsBounded
<1>5. ASSUME NEW r \in RoomIDs, NEW a \in Agents, NEW t \in Agents,
             NEW mv \in MemberVersions, NEW rv \in RoomVersions,
             RevokeAllowlist(r, a, t, mv, rv)
      PROVE  VersionsBounded'
  <2>1. \A s \in RoomIDs :
          /\ room'[s].owner = room[s].owner
          /\ room'[s].version = IF s = r THEN room[r].version + 1 ELSE room[s].version
    BY <1>1, <1>5 DEF TypeOK, RevokeAllowlist, EditedRoom
  <2>2. \A s \in RoomIDs, b \in Agents :
          \/ members'[s][b].version = members[s][b].version
          \/ members'[s][b].version = 0
    BY <1>1, <1>5 DEF TypeOK, RevokeAllowlist, NotMember
  <2>3. Exists(r) /\ room[r].version < MaxRoomVersion
    BY <1>5, RevokeChecked, ManagerChecked DEF RevokeAllowlist
  <2>4. room[r].version \in Nat /\ MaxRoomVersion \in Nat /\ 0 <= MaxMemberVersion
    BY <1>1, NumberAssumption DEF TypeOK, Room
  <2>5. \A s \in RoomIDs : room'[s].version <= MaxRoomVersion
    BY <1>1, <2>1, <2>3, <2>4 DEF VersionsBounded
  <2>6. \A s \in RoomIDs, b \in Agents : members'[s][b].version <= MaxMemberVersion
    BY <1>1, <2>2, <2>4 DEF VersionsBounded
  <2>7. \A s \in RoomIDs : /\ Exists(s)' => room'[s].version >= 1
                           /\ ~Exists(s)' => room'[s].version = 0
    BY <1>1, <2>1, <2>3, <2>4 DEF VersionsBounded, Exists
  <2>8. QED
    BY <2>5, <2>6, <2>7 DEF VersionsBounded
<1>6. ASSUME NEW r \in RoomIDs, NEW a \in Agents, NEW n \in Nicknames,
             NEW mv \in MemberVersions, SetNickname(r, a, n, mv)
      PROVE  VersionsBounded'
  <2>1. \A s \in RoomIDs, b \in Agents :
          members'[s][b].version = IF s = r /\ b = a THEN members[r][a].version + 1
                                   ELSE members[s][b].version
    BY <1>1, <1>6 DEF TypeOK, SetNickname
  <2>2. members[r][a].version < MaxMemberVersion /\ room' = room
    BY <1>6 DEF SetNickname
  <2>3. members[r][a].version \in Nat /\ MaxMemberVersion \in Nat
    BY <1>1, NumberAssumption DEF TypeOK, Membership
  <2>4. \A s \in RoomIDs, b \in Agents : members'[s][b].version <= MaxMemberVersion
    BY <1>1, <2>1, <2>2, <2>3 DEF VersionsBounded
  <2>5. QED
    BY <1>1, <2>2, <2>4 DEF VersionsBounded, Exists
<1>7. ASSUME NEW r, NEW a, NEW k, NEW body, NEW n, NEW mv, NEW id,
             PostMessage(r, a, k, body, n, mv, id)
      PROVE  VersionsBounded'
  BY <1>2, <1>7 DEF PostMessage
<1>8. CASE UNCHANGED vars
  BY <1>2, <1>8 DEF vars
<1>9. QED
  BY <1>1, <1>3, <1>4, <1>5, <1>6, <1>7, <1>8 DEF Next

LEMMA VersionsGrow ==
  ASSUME TypeOK, VersionsBounded, [Next]_vars, NEW s \in RoomIDs
  PROVE  room[s].version \in Nat /\ room'[s].version \in Nat /\ room[s].version <= room'[s].version
<1>1. room[s].version \in Nat /\ room'[s].version \in Nat
  BY NextTypeOK DEF TypeOK, Room
<1>2. CASE room' = room
  BY <1>1, <1>2
<1>3. ASSUME NEW r \in RoomIDs, NEW a \in Agents, CreateRoom(r, a)
      PROVE  room[s].version <= room'[s].version
  <2>1. CASE s = r
    BY <1>1, <1>3, <2>1 DEF CreateRoom, CreateRoomResult, VersionsBounded
  <2>2. CASE s # r
    BY <1>1, <1>3, <2>2 DEF TypeOK, CreateRoom
  <2>3. QED
    BY <2>1, <2>2
<1>4. ASSUME NEW r \in RoomIDs, NEW change,
             room' = [room EXCEPT ![r] = EditedRoom(r, change)]
      PROVE  room[s].version <= room'[s].version
  BY <1>1, <1>4 DEF TypeOK, EditedRoom
<1>5. ASSUME NEW r \in RoomIDs, NEW a, NEW t, NEW role, NEW mv, NEW rv,
             GrantAllowlist(r, a, t, role, mv, rv) \/ RevokeAllowlist(r, a, t, mv, rv)
      PROVE  room[s].version <= room'[s].version
  BY <1>4, <1>5 DEF GrantAllowlist, RevokeAllowlist
<1>6. ASSUME NEW r, NEW a, NEW n, NEW mv, SetNickname(r, a, n, mv)
      PROVE  room' = room
  BY <1>6 DEF SetNickname
<1>7. ASSUME NEW r, NEW a, NEW k, NEW body, NEW n, NEW mv, NEW id,
             PostMessage(r, a, k, body, n, mv, id)
      PROVE  room' = room
  BY <1>7 DEF PostMessage
<1>8. CASE UNCHANGED vars
  BY <1>2, <1>8 DEF vars
<1>9. QED
  BY <1>1, <1>2, <1>3, <1>5, <1>6, <1>7, <1>8 DEF Next

-----------------------------------------------------------------------------
(* A room that was never created has no members and no messages. *)

AbsentRoomsEmpty ==
  \A r \in RoomIDs : ~Exists(r) =>
    /\ \A a \in Agents : members[r][a] = NotMember
    /\ messages[r] = {}

LEMMA NextAbsentRoomsEmpty ==
  TypeOK /\ AbsentRoomsEmpty /\ [Next]_vars => AbsentRoomsEmpty'
<1>1. SUFFICES ASSUME TypeOK, AbsentRoomsEmpty, [Next]_vars PROVE AbsentRoomsEmpty'
  OBVIOUS
<1>2. CASE UNCHANGED vars
  BY <1>1, <1>2 DEF AbsentRoomsEmpty, Exists, vars
<1>3. ASSUME NEW r \in RoomIDs, NEW a \in Agents, CreateRoom(r, a)
      PROVE  AbsentRoomsEmpty'
  <2>1. room'[r].owner # None
    BY <1>1, <1>3, NoneAssumption DEF TypeOK, CreateRoom
  <2>2. \A s \in RoomIDs \ {r} :
          room'[s] = room[s] /\ members'[s] = members[s] /\ messages'[s] = messages[s]
    BY <1>1, <1>3 DEF TypeOK, CreateRoom
  <2>3. QED
    BY <1>1, <2>1, <2>2 DEF AbsentRoomsEmpty, Exists
<1>4. ASSUME NEW r \in RoomIDs, NEW a \in Agents, NEW t \in Agents,
             NEW role \in Roles, NEW mv \in MemberVersions, NEW rv \in RoomVersions,
             GrantAllowlist(r, a, t, role, mv, rv)
      PROVE  AbsentRoomsEmpty'
  <2>1. room[r].owner # None
    BY <1>4, GrantChecked, ManagerChecked DEF GrantAllowlist, Exists
  <2>2. \A s \in RoomIDs : room'[s].owner = room[s].owner
    BY <1>1, <1>4 DEF TypeOK, GrantAllowlist, EditedRoom
  <2>3. \A s \in RoomIDs \ {r} : members'[s] = members[s]
    BY <1>1, <1>4 DEF TypeOK, GrantAllowlist
  <2>4. messages' = messages
    BY <1>4 DEF GrantAllowlist
  <2>5. QED
    BY <1>1, <2>1, <2>2, <2>3, <2>4 DEF AbsentRoomsEmpty, Exists
<1>5. ASSUME NEW r \in RoomIDs, NEW a \in Agents, NEW t \in Agents,
             NEW mv \in MemberVersions, NEW rv \in RoomVersions,
             RevokeAllowlist(r, a, t, mv, rv)
      PROVE  AbsentRoomsEmpty'
  <2>1. room[r].owner # None
    BY <1>5, RevokeChecked, ManagerChecked DEF RevokeAllowlist, Exists
  <2>2. \A s \in RoomIDs : room'[s].owner = room[s].owner
    BY <1>1, <1>5 DEF TypeOK, RevokeAllowlist, EditedRoom
  <2>3. \A s \in RoomIDs \ {r} : members'[s] = members[s]
    BY <1>1, <1>5 DEF TypeOK, RevokeAllowlist
  <2>4. messages' = messages
    BY <1>5 DEF RevokeAllowlist
  <2>5. QED
    BY <1>1, <2>1, <2>2, <2>3, <2>4 DEF AbsentRoomsEmpty, Exists
<1>6. ASSUME NEW r \in RoomIDs, NEW a \in Agents, NEW n \in Nicknames,
             NEW mv \in MemberVersions, SetNickname(r, a, n, mv)
      PROVE  AbsentRoomsEmpty'
  <2>1. room[r].owner # None
    BY <1>6, NicknameChecked DEF SetNickname, Exists
  <2>2. \A s \in RoomIDs \ {r} : members'[s] = members[s]
    BY <1>1, <1>6 DEF TypeOK, SetNickname
  <2>3. room' = room /\ messages' = messages
    BY <1>6 DEF SetNickname
  <2>4. QED
    BY <1>1, <2>1, <2>2, <2>3 DEF AbsentRoomsEmpty, Exists
<1>7. ASSUME NEW r \in RoomIDs, NEW a \in Agents, NEW k \in IdempotencyKeys,
             NEW body \in Bodies, NEW n \in Nicknames \cup {None},
             NEW mv \in MemberVersions, NEW id \in MessageIDs,
             PostMessage(r, a, k, body, n, mv, id)
      PROVE  AbsentRoomsEmpty'
  <2>1. room[r].owner # None
    BY <1>7, PostChecked DEF PostMessage, Exists
  <2>2. \A s \in RoomIDs \ {r} : messages'[s] = messages[s]
    BY <1>1, <1>7 DEF TypeOK, PostMessage
  <2>3. room' = room /\ members' = members
    BY <1>7 DEF PostMessage
  <2>4. QED
    BY <1>1, <2>1, <2>2, <2>3 DEF AbsentRoomsEmpty, Exists
<1>8. QED
  BY <1>1, <1>2, <1>3, <1>4, <1>5, <1>6, <1>7 DEF Next

-----------------------------------------------------------------------------
(* One message for a key. *)

LEMMA NextIdempotencyExact ==
  TypeOK /\ IdempotencyExact /\ [Next]_vars => IdempotencyExact'
<1>1. SUFFICES ASSUME TypeOK, IdempotencyExact, [Next]_vars PROVE IdempotencyExact'
  OBVIOUS
<1>2. CASE UNCHANGED <<messages, idempotency>>
  BY <1>1, <1>2 DEF IdempotencyExact
<1>3. ASSUME NEW r \in RoomIDs, NEW a \in Agents, CreateRoom(r, a)
      PROVE  IdempotencyExact'
  <2>1. \A s \in RoomIDs : messages'[s] = IF s = r THEN {} ELSE messages[s]
    BY <1>1, <1>3 DEF TypeOK, CreateRoom
  <2>2. \A s \in RoomIDs, b \in Agents, k \in IdempotencyKeys :
          idempotency'[s][b][k] = IF s = r THEN NotUsed ELSE idempotency[s][b][k]
    BY <1>1, <1>3 DEF TypeOK, CreateRoom
  <2>3. QED
    BY <1>1, <2>1, <2>2 DEF IdempotencyExact
<1>4. ASSUME NEW r \in RoomIDs, NEW a \in Agents, NEW k \in IdempotencyKeys,
             NEW body \in Bodies, NEW n \in Nicknames \cup {None},
             NEW mv \in MemberVersions, NEW id \in MessageIDs,
             PostMessage(r, a, k, body, n, mv, id)
      PROVE  IdempotencyExact'
  <2> DEFINE new == [id |-> id, author |-> a, nickname |-> n, body |-> body, key |-> k]
             Sent(s, b, j) == {m \in messages[s] : m.author = b /\ m.key = j}
  <2>1. \A s \in RoomIDs :
          messages'[s] = IF s = r THEN messages[r] \cup {new} ELSE messages[s]
    BY <1>1, <1>4 DEF TypeOK, PostMessage
  <2>2. \A s \in RoomIDs, b \in Agents, j \in IdempotencyKeys :
          idempotency'[s][b][j] = IF s = r /\ b = a /\ j = k
                                  THEN [body |-> body, id |-> id]
                                  ELSE idempotency[s][b][j]
    BY <1>1, <1>4 DEF TypeOK, PostMessage
  <2>3. \A s \in RoomIDs, b \in Agents, j \in IdempotencyKeys :
          {m \in messages'[s] : m.author = b /\ m.key = j} =
            IF s = r /\ b = a /\ j = k THEN Sent(r, a, k) \cup {new}
            ELSE Sent(s, b, j)
    BY <2>1
  <2>4. Sent(r, a, k) = {}
    BY <1>1, <1>4, PostChecked DEF IdempotencyExact, PostMessage
  <2>5. [body |-> body, id |-> id] # NotUsed
    BY NoneAssumption DEF NotUsed
  <2>6. ASSUME NEW s \in RoomIDs, NEW b \in Agents, NEW j \in IdempotencyKeys
        PROVE  LET used == idempotency'[s][b][j]
                   sent == {m \in messages'[s] : m.author = b /\ m.key = j} IN
               IF used = NotUsed THEN sent = {}
               ELSE \E m \in sent : sent = {m} /\ m.id = used.id /\ m.body = used.body
    <3>1. CASE s = r /\ b = a /\ j = k
      <4>1. {m \in messages'[s] : m.author = b /\ m.key = j} = {new}
        BY <2>3, <2>4, <3>1
      <4>2. idempotency'[s][b][j] = [body |-> body, id |-> id]
        BY <2>2, <3>1
      <4>3. new.id = id /\ new.body = body
        OBVIOUS
      <4> HIDE DEF new
      <4>4. QED
        BY <2>5, <4>1, <4>2, <4>3
    <3>2. CASE ~(s = r /\ b = a /\ j = k)
      BY <1>1, <2>2, <2>3, <3>2 DEF IdempotencyExact
    <3>3. QED
      BY <3>1, <3>2
  <2>7. QED
    BY <2>6 DEF IdempotencyExact
<1>5. ASSUME NEW r, NEW a, NEW t, NEW role, NEW mv, NEW rv,
             \/ GrantAllowlist(r, a, t, role, mv, rv)
             \/ RevokeAllowlist(r, a, t, mv, rv)
             \/ SetNickname(r, a, t, mv)
      PROVE  IdempotencyExact'
  BY <1>2, <1>5 DEF GrantAllowlist, RevokeAllowlist, SetNickname
<1>6. CASE UNCHANGED vars
  BY <1>2, <1>6 DEF vars
<1>7. QED
  BY <1>1, <1>3, <1>4, <1>5, <1>6 DEF Next

(* Whatever is retried, and whatever happens to the allowlist between, the *)
(* key of an author in a room stands for at most one stored message.       *)
THEOREM IdempotencyCorrect == Spec => []IdempotencyExact
<1>1. Init => IdempotencyExact
  BY DEF Init, IdempotencyExact
<1>2. QED
  BY <1>1, NextIdempotencyExact, TypeCorrect, PTL DEF Spec

-----------------------------------------------------------------------------
(* The simulation: what each operation does to the mapped variables.       *)

(* Two tables that differ in one entry. *)
LEMMA TableUpdate ==
  ASSUME NEW S, NEW T, NEW f, NEW g, NEW r \in S, NEW a \in T, NEW x,
         f = [s \in S |-> [t \in T |-> f[s][t]]],
         g = [s \in S |-> [t \in T |-> g[s][t]]],
         \A s \in S, t \in T : g[s][t] = IF s = r /\ t = a THEN x ELSE f[s][t]
  PROVE  g = [f EXCEPT ![r][a] = x]
<1> DEFINE h == [f EXCEPT ![r][a] = x]
<1>1. h = [s \in S |-> IF s = r THEN [f[r] EXCEPT ![a] = x] ELSE f[s]]
  OBVIOUS
<1>2. [f[r] EXCEPT ![a] = x] = [t \in T |-> IF t = a THEN x ELSE f[r][t]]
  <2>1. f[r] = [t \in T |-> f[r][t]]
    OBVIOUS
  <2>2. QED
    BY <2>1
<1>3. g[r] = [t \in T |-> IF t = a THEN x ELSE f[r][t]]
  <2>1. g[r] = [t \in T |-> g[r][t]]
    OBVIOUS
  <2>2. QED
    BY <2>1
<1>4. ASSUME NEW s \in S, s # r PROVE g[s] = f[s]
  <2>1. g[s] = [t \in T |-> g[s][t]] /\ f[s] = [t \in T |-> f[s][t]]
    OBVIOUS
  <2>2. \A t \in T : g[s][t] = f[s][t]
    BY <1>4
  <2>3. QED
    BY <2>1, <2>2
<1>5. \A s \in S : g[s] = h[s]
  BY <1>1, <1>2, <1>3, <1>4
<1>6. g = [s \in S |-> g[s]]
  OBVIOUS
<1>7. QED
  BY <1>1, <1>5, <1>6

LEMMA RoleUpdate ==
  ASSUME NEW r \in RoomIDs, NEW a \in Agents, NEW x,
         \A s \in RoomIDs, b \in Agents :
           members'[s][b].role = IF s = r /\ b = a THEN x ELSE members[s][b].role
  PROVE  RoleOf' = [RoleOf EXCEPT ![r][a] = x]
<1>1. RoleOf = [s \in RoomIDs |-> [b \in Agents |-> RoleOf[s][b]]]
  BY DEF RoleOf
<1>2. RoleOf' = [s \in RoomIDs |-> [b \in Agents |-> RoleOf'[s][b]]]
  BY DEF RoleOf
<1>3. \A s \in RoomIDs, b \in Agents :
        RoleOf'[s][b] = IF s = r /\ b = a THEN x ELSE RoleOf[s][b]
  BY DEF RoleOf
<1>4. QED
  BY <1>1, <1>2, <1>3, TableUpdate

LEMMA NicknameUpdate ==
  ASSUME NEW r \in RoomIDs, NEW a \in Agents, NEW x,
         \A s \in RoomIDs, b \in Agents :
           members'[s][b].nickname = IF s = r /\ b = a THEN x ELSE members[s][b].nickname
  PROVE  NicknameOf' = [NicknameOf EXCEPT ![r][a] = x]
<1>1. NicknameOf = [s \in RoomIDs |-> [b \in Agents |-> NicknameOf[s][b]]]
  BY DEF NicknameOf
<1>2. NicknameOf' = [s \in RoomIDs |-> [b \in Agents |-> NicknameOf'[s][b]]]
  BY DEF NicknameOf
<1>3. \A s \in RoomIDs, b \in Agents :
        NicknameOf'[s][b] = IF s = r /\ b = a THEN x ELSE NicknameOf[s][b]
  BY DEF NicknameOf
<1>4. QED
  BY <1>1, <1>2, <1>3, TableUpdate

(* Board brings its own copy of the library's definition. *)
LEMMA SameCardinality == \A S : B!Cardinality(S) = Cardinality(S)
BY DEF B!Cardinality, Cardinality


SimulationInv ==
  TypeOK /\ AbsentRoomsEmpty /\ ReservationInv /\ MemberCountExact /\ IdempotencyExact

LEMMA CreateRoomSimulates ==
  ASSUME SimulationInv, NEW r \in RoomIDs, NEW a \in Agents, CreateRoom(r, a)
  PROVE  B!Open(r, a)
<1>1. room[r].owner = None
  BY DEF CreateRoom, CreateRoomResult, Exists
<1>2. (\A b \in Agents : members[r][b] = NotMember) /\ messages[r] = {}
  BY <1>1 DEF SimulationInv, AbsentRoomsEmpty, Exists
<1>3. B!Members(r) = {}
  BY <1>2 DEF B!Members, RoleOf, NotMember
<1>4. RoleOf' = [RoleOf EXCEPT ![r][a] = "owner"]
  <2>1. \A s \in RoomIDs, b \in Agents :
          members'[s][b].role = IF s = r /\ b = a THEN "owner" ELSE members[s][b].role
    BY <1>2 DEF SimulationInv, TypeOK, CreateRoom, NotMember
  <2>2. QED
    BY <2>1, RoleUpdate
<1>5. NicknameOf' = NicknameOf
  <2>1. \A s \in RoomIDs, b \in Agents : members'[s][b].nickname = members[s][b].nickname
    BY <1>2 DEF SimulationInv, TypeOK, CreateRoom, NotMember
  <2>2. QED
    BY <2>1 DEF NicknameOf
<1>6. PostsOf' = PostsOf
  <2>1. \A s \in RoomIDs : messages'[s] = messages[s]
    BY <1>2 DEF SimulationInv, TypeOK, CreateRoom
  <2>2. QED
    BY <2>1 DEF PostsOf
<1>7. QED
  BY <1>3, <1>4, <1>5, <1>6 DEF B!Open

LEMMA GrantSimulates ==
  ASSUME SimulationInv, NEW r \in RoomIDs, NEW a \in Agents, NEW t \in Agents,
         NEW role \in Roles, NEW mv \in MemberVersions, NEW rv \in RoomVersions,
         GrantAllowlist(r, a, t, role, mv, rv)
  PROVE  role \in MutableRoles /\ B!Admit(r, a, t, role)
<1>1. /\ role \in MutableRoles
      /\ t # a
      /\ members[r][a].role \in {"owner", "admin"}
      /\ members[r][t].role # "owner"
      /\ IsMember(r, t) \/ ~(room[r].memberCount >= MaxMembersPerRoom)
  BY GrantChecked, ManagerChecked DEF GrantAllowlist
<1>2. members[r][t].role # role
  BY DEF GrantAllowlist, GrantResult
<1>3. RoleOf' = [RoleOf EXCEPT ![r][t] = role]
  <2>1. \A s \in RoomIDs, b \in Agents :
          members'[s][b].role = IF s = r /\ b = t THEN role ELSE members[s][b].role
    BY DEF SimulationInv, TypeOK, GrantAllowlist
  <2>2. QED
    BY <2>1, RoleUpdate
<1>4. NicknameOf' = NicknameOf
  <2>1. \A s \in RoomIDs, b \in Agents : members'[s][b].nickname = members[s][b].nickname
    BY DEF SimulationInv, TypeOK, GrantAllowlist
  <2>2. QED
    BY <2>1 DEF NicknameOf
<1>5. PostsOf' = PostsOf
  BY DEF GrantAllowlist, PostsOf
<1>6. B!Cardinality(B!Members(r) \cup {t}) <= MaxMembersPerRoom
  <2>1. B!Members(r) = MembersOf(r)
    BY DEF B!Members, MembersOf, IsMember, RoleOf
  <2>2. /\ room[r].memberCount = Cardinality(MembersOf(r))
        /\ room[r].memberCount <= MaxMembersPerRoom
    BY DEF SimulationInv, MemberCountExact
  <2>3. Cardinality(MembersOf(r) \cup {t}) =
          IF t \in MembersOf(r) THEN Cardinality(MembersOf(r))
          ELSE Cardinality(MembersOf(r)) + 1
    BY MembersFinite, FS_AddElement
  <2>4. IsMember(r, t) <=> t \in MembersOf(r)
    BY DEF MembersOf
  <2>5. Cardinality(MembersOf(r)) \in Nat /\ MaxMembersPerRoom \in Nat
    BY MembersFinite, NumberAssumption
  <2>6. QED
    BY <1>1, <2>1, <2>2, <2>3, <2>4, <2>5, SameCardinality
<1>7. RoleOf[r][a] = members[r][a].role /\ RoleOf[r][t] = members[r][t].role
  BY DEF RoleOf
<1>8. QED
  BY <1>1, <1>2, <1>3, <1>4, <1>5, <1>6, <1>7 DEF B!Admit, B!Manages

LEMMA RevokeSimulates ==
  ASSUME SimulationInv, NEW r \in RoomIDs, NEW a \in Agents, NEW t \in Agents,
         NEW mv \in MemberVersions, NEW rv \in RoomVersions,
         RevokeAllowlist(r, a, t, mv, rv)
  PROVE  B!Expel(r, a, t)
<1>1. /\ t # a
      /\ IsMember(r, t)
      /\ members[r][a].role \in {"owner", "admin"}
      /\ members[r][t].role # "owner"
  BY RevokeChecked, ManagerChecked DEF RevokeAllowlist
<1>2. \A s \in RoomIDs, b \in Agents :
        members'[s][b] = IF s = r /\ b = t THEN NotMember ELSE members[s][b]
  BY DEF SimulationInv, TypeOK, RevokeAllowlist
<1>3. RoleOf' = [RoleOf EXCEPT ![r][t] = None]
  <2>1. \A s \in RoomIDs, b \in Agents :
          members'[s][b].role = IF s = r /\ b = t THEN None ELSE members[s][b].role
    BY <1>2 DEF NotMember
  <2>2. QED
    BY <2>1, RoleUpdate
<1>4. NicknameOf' = [NicknameOf EXCEPT ![r][t] = None]
  <2>1. \A s \in RoomIDs, b \in Agents :
          members'[s][b].nickname = IF s = r /\ b = t THEN None ELSE members[s][b].nickname
    BY <1>2 DEF NotMember
  <2>2. QED
    BY <2>1, NicknameUpdate
<1>5. PostsOf' = PostsOf
  BY DEF RevokeAllowlist, PostsOf
<1>6. QED
  BY <1>1, <1>3, <1>4, <1>5 DEF B!Expel, B!Manages, B!Members, RoleOf, IsMember

LEMMA SetNicknameSimulates ==
  ASSUME SimulationInv, NEW r \in RoomIDs, NEW a \in Agents, NEW n \in Nicknames,
         NEW mv \in MemberVersions, SetNickname(r, a, n, mv)
  PROVE  B!Rename(r, a, n)
<1>1. /\ IsMember(r, a)
      /\ nicknames[r][NicknameKey[n]] \in {None, a}
      /\ NicknameKey[n] \in NicknameKeys
  BY NicknameChecked, NicknameAssumption DEF SetNickname
<1>2. RoleOf' = RoleOf
  <2>1. \A s \in RoomIDs, b \in Agents : members'[s][b].role = members[s][b].role
    BY DEF SimulationInv, TypeOK, SetNickname
  <2>2. QED
    BY <2>1 DEF RoleOf
<1>3. NicknameOf' = [NicknameOf EXCEPT ![r][a] = n]
  <2>1. \A s \in RoomIDs, b \in Agents :
          members'[s][b].nickname = IF s = r /\ b = a THEN n ELSE members[s][b].nickname
    BY DEF SimulationInv, TypeOK, SetNickname
  <2>2. QED
    BY <2>1, NicknameUpdate
<1>4. PostsOf' = PostsOf
  BY DEF SetNickname, PostsOf
<1>5. ASSUME NEW b \in Agents \ {a}, members[r][b].nickname # None
      PROVE  NicknameKey[members[r][b].nickname] # NicknameKey[n]
  <2>1. IsMember(r, b)
    BY <1>5 DEF SimulationInv, ReservationInv, NonMembersBlank, NotMember
  <2>2. Holds(r, b, NicknameKey[n]) => nicknames[r][NicknameKey[n]] = b
    BY <1>1, <2>1 DEF SimulationInv, ReservationInv, ReservationsMatchMembers
  <2>3. QED
    BY <1>1, <1>5, <2>2, NoneAssumption DEF Holds
<1>6. QED
  BY <1>1, <1>2, <1>3, <1>4, <1>5
  DEF B!Rename, B!Members, RoleOf, NicknameOf, IsMember

LEMMA PostMessageSimulates ==
  ASSUME SimulationInv, NEW r \in RoomIDs, NEW a \in Agents,
         NEW k \in IdempotencyKeys, NEW body \in Bodies,
         NEW n \in Nicknames \cup {None}, NEW mv \in MemberVersions,
         NEW id \in MessageIDs, PostMessage(r, a, k, body, n, mv, id)
  PROVE  B!Publish(r, a, k, body)
<1> DEFINE new == [id |-> id, author |-> a, nickname |-> n, body |-> body, key |-> k]
<1>1. members[r][a].role \in {"owner", "admin", "poster"} /\ idempotency[r][a][k] = NotUsed
  BY PostChecked DEF PostMessage
<1>2. \A m \in messages[r] : m.author = a => m.key # k
  BY <1>1 DEF SimulationInv, IdempotencyExact
<1>3. \A p \in PostsOf[r] : p.author = a => p.key # k
  BY <1>2 DEF PostsOf, Post
<1>4. PostsOf' = [PostsOf EXCEPT ![r] = @ \cup {[author |-> a, key |-> k, body |-> body]}]
  <2>1. \A s \in RoomIDs :
          messages'[s] = IF s = r THEN messages[r] \cup {new} ELSE messages[s]
    BY DEF SimulationInv, TypeOK, PostMessage
  <2>2. Post(new) = [author |-> a, key |-> k, body |-> body]
    BY DEF Post
  <2> HIDE DEF new
  <2>3. \A s \in RoomIDs :
          {Post(m) : m \in messages'[s]} =
            IF s = r THEN {Post(m) : m \in messages[r]} \cup {Post(new)}
            ELSE {Post(m) : m \in messages[s]}
    BY <2>1
  <2>4. QED
    BY <2>2, <2>3 DEF PostsOf
<1>5. RoleOf' = RoleOf /\ NicknameOf' = NicknameOf
  BY DEF PostMessage, RoleOf, NicknameOf
<1>6. QED
  BY <1>1, <1>3, <1>4, <1>5 DEF B!Publish, RoleOf

LEMMA NextSimulates == SimulationInv /\ [Next]_vars => [B!BoardNext]_(B!boardVars)
<1>1. SUFFICES ASSUME SimulationInv, [Next]_vars PROVE [B!BoardNext]_(B!boardVars)
  OBVIOUS
<1>2. CASE UNCHANGED vars
  BY <1>2 DEF vars, B!boardVars, RoleOf, NicknameOf, PostsOf
<1>3. CASE Next
  <2>1. ASSUME NEW r \in RoomIDs, NEW a \in Agents, CreateRoom(r, a)
        PROVE  B!BoardNext
    BY <1>1, <2>1, CreateRoomSimulates DEF B!BoardNext
  <2>2. ASSUME NEW r \in RoomIDs, NEW a \in Agents, NEW t \in Agents,
               NEW role \in Roles, NEW mv \in MemberVersions, NEW rv \in RoomVersions,
               GrantAllowlist(r, a, t, role, mv, rv)
        PROVE  B!BoardNext
    BY <1>1, <2>2, GrantSimulates DEF B!BoardNext, MutableRoles, Roles
  <2>3. ASSUME NEW r \in RoomIDs, NEW a \in Agents, NEW t \in Agents,
               NEW mv \in MemberVersions, NEW rv \in RoomVersions,
               RevokeAllowlist(r, a, t, mv, rv)
        PROVE  B!BoardNext
    BY <1>1, <2>3, RevokeSimulates DEF B!BoardNext
  <2>4. ASSUME NEW r \in RoomIDs, NEW a \in Agents, NEW n \in Nicknames,
               NEW mv \in MemberVersions, SetNickname(r, a, n, mv)
        PROVE  B!BoardNext
    BY <1>1, <2>4, SetNicknameSimulates DEF B!BoardNext
  <2>5. ASSUME NEW r \in RoomIDs, NEW a \in Agents, NEW k \in IdempotencyKeys,
               NEW body \in Bodies, NEW n \in Nicknames \cup {None},
               NEW mv \in MemberVersions, NEW id \in MessageIDs,
               PostMessage(r, a, k, body, n, mv, id)
        PROVE  B!BoardNext
    BY <1>1, <2>5, PostMessageSimulates DEF B!BoardNext
  <2>6. QED
    BY <1>3, <2>1, <2>2, <2>3, <2>4, <2>5 DEF Next
<1>4. QED
  BY <1>1, <1>2, <1>3

(* The store is an implementation of Board: every behaviour of the code's  *)
(* maps, by forgetting versions, counters, reservations and message ids,   *)
(* to one the abstract specification allows.                               *)
THEOREM StoreImplementsBoard == Spec => ImplementsBoard
<1>1. Init => B!BoardInit
  BY DEF Init, B!BoardInit, RoleOf, NicknameOf, PostsOf, NotMember
<1>2. Init => AbsentRoomsEmpty /\ ReservationInv
  BY NoneAssumption
  DEF Init, AbsentRoomsEmpty, ReservationInv, NonMembersBlank,
      ReservationsMatchMembers, IsMember, NotMember
<1>3. Spec => []AbsentRoomsEmpty
  BY <1>2, NextAbsentRoomsEmpty, TypeCorrect, PTL DEF Spec
<1>4. Spec => []ReservationInv
  BY <1>2, NextReservationInv, TypeCorrect, PTL DEF Spec
<1>5. Spec => []SimulationInv
  BY <1>3, <1>4, TypeCorrect, MemberCountCorrect, IdempotencyCorrect, PTL
  DEF SimulationInv
<1>6. QED
  BY <1>1, <1>5, NextSimulates, PTL DEF Spec, ImplementsBoard, B!BoardSpec

-----------------------------------------------------------------------------
(* The history of the store. *)

(* What every operation but CreateRoom leaves alone. *)
LEMMA OwnersStay ==
  ASSUME TypeOK, NEW r \in RoomIDs, NEW a \in Agents,
         \/ \E t \in Agents, role \in Roles, mv \in MemberVersions, rv \in RoomVersions :
              GrantAllowlist(r, a, t, role, mv, rv)
         \/ \E t \in Agents, mv \in MemberVersions, rv \in RoomVersions :
              RevokeAllowlist(r, a, t, mv, rv)
         \/ \E n \in Nicknames, mv \in MemberVersions : SetNickname(r, a, n, mv)
         \/ \E k \in IdempotencyKeys, body \in Bodies, n \in Nicknames \cup {None},
               mv \in MemberVersions, id \in MessageIDs :
              PostMessage(r, a, k, body, n, mv, id)
  PROVE  quotas' = quotas /\ \A s \in RoomIDs : room'[s].owner = room[s].owner
BY DEF TypeOK, GrantAllowlist, RevokeAllowlist, SetNickname, PostMessage, EditedRoom

-----------------------------------------------------------------------------
(* The rooms of an agent. *)

Owned(a) == {r \in RoomIDs : room[r].owner = a}

LEMMA NextRoomQuotaExact == TypeOK /\ RoomQuotaExact /\ [Next]_vars => RoomQuotaExact'
<1>1. SUFFICES ASSUME TypeOK, RoomQuotaExact, [Next]_vars PROVE RoomQuotaExact'
  OBVIOUS
<1>2. CASE UNCHANGED vars
  BY <1>1, <1>2 DEF RoomQuotaExact, vars
<1>3. ASSUME NEW r \in RoomIDs, NEW a \in Agents, CreateRoom(r, a)
      PROVE  RoomQuotaExact'
  <2>1. room[r].owner = None /\ quotas[a] < MaxRoomsPerAgent
    BY <1>1, <1>3, NumberAssumption DEF CreateRoom, CreateRoomResult, Exists, TypeOK
  <2>2. \A s \in RoomIDs : room'[s].owner = IF s = r THEN a ELSE room[s].owner
    BY <1>1, <1>3 DEF TypeOK, CreateRoom
  <2>3. \A b \in Agents : Owned(b)' = IF b = a THEN Owned(a) \cup {r} ELSE Owned(b)
    BY <2>1, <2>2, NoneAssumption DEF Owned
  <2>4. \A b \in Agents : quotas'[b] = IF b = a THEN quotas[a] + 1 ELSE quotas[b]
    BY <1>1, <1>3 DEF TypeOK, CreateRoom
  <2>5. r \notin Owned(a)
    BY <2>1, NoneAssumption DEF Owned
  <2>6. IsFiniteSet(Owned(a)) /\ Cardinality(Owned(a)) \in Nat
    BY FinitenessAssumption, FS_Subset, FS_CardinalityType DEF Owned
  <2>7. Cardinality(Owned(a) \cup {r}) = Cardinality(Owned(a)) + 1
    BY <2>5, <2>6, FS_AddElement
  <2>8. \A b \in Agents : quotas[b] = Cardinality(Owned(b)) /\ quotas[b] <= MaxRoomsPerAgent
    BY <1>1 DEF RoomQuotaExact, Owned
  <2>9. ASSUME NEW b \in Agents
        PROVE  quotas'[b] = Cardinality(Owned(b)') /\ quotas'[b] <= MaxRoomsPerAgent
    <3>1. CASE b = a
      <4>1. quotas'[b] = quotas[a] + 1 /\ Owned(b)' = Owned(a) \cup {r}
        BY <2>3, <2>4, <3>1
      <4>2. quotas[a] = Cardinality(Owned(a)) /\ quotas[a] \in Nat
        BY <2>6, <2>8
      <4>3. QED
        BY <2>1, <2>7, <4>1, <4>2, NumberAssumption
    <3>2. CASE b # a
      BY <2>3, <2>4, <2>8, <3>2
    <3>3. QED
      BY <3>1, <3>2
  <2>10. QED
    BY <2>9 DEF RoomQuotaExact, Owned
<1>4. ASSUME quotas' = quotas, \A s \in RoomIDs : room'[s].owner = room[s].owner
      PROVE  RoomQuotaExact'
  <2>1. \A b \in Agents : {s \in RoomIDs : room'[s].owner = b} = {s \in RoomIDs : room[s].owner = b}
    BY <1>4
  <2>2. QED
    BY <1>1, <1>4, <2>1 DEF RoomQuotaExact
<1>5. QED
  BY <1>1, <1>2, <1>3, <1>4, OwnersStay DEF Next

LEMMA InitRoomQuotaExact == Init => RoomQuotaExact
<1>1. SUFFICES ASSUME Init, NEW a \in Agents
               PROVE  /\ quotas[a] = Cardinality({r \in RoomIDs : room[r].owner = a})
                      /\ quotas[a] <= MaxRoomsPerAgent
  BY DEF RoomQuotaExact
<1>2. {r \in RoomIDs : room[r].owner = a} = {}
  BY <1>1, NoneAssumption DEF Init, NoRoom
<1>3. quotas[a] = 0
  BY <1>1 DEF Init
<1>4. Cardinality({}) = 0
  BY FS_EmptySet
<1>5. 0 <= MaxRoomsPerAgent
  BY NumberAssumption
<1>6. QED
  BY <1>2, <1>3, <1>4, <1>5

(* The counter behind the room quota is the number of rooms the agent owns, *)
(* and never above the quota.                                              *)
THEOREM RoomQuotaCorrect == Spec => []RoomQuotaExact
BY InitRoomQuotaExact, NextRoomQuotaExact, TypeCorrect, PTL DEF Spec

-----------------------------------------------------------------------------
(* Messages and their keys. *)

LEMMA NextKeepsMessages ==
  ASSUME TypeOK, AbsentRoomsEmpty, IdempotencyExact, [Next]_vars, NEW s \in RoomIDs
  PROVE  /\ messages[s] \subseteq messages'[s]
         /\ \A b \in Agents, j \in IdempotencyKeys :
              idempotency[s][b][j] # NotUsed => idempotency'[s][b][j] = idempotency[s][b][j]
<1>1. CASE UNCHANGED <<messages, idempotency>>
  BY <1>1
<1>2. ASSUME NEW r \in RoomIDs, NEW a \in Agents, CreateRoom(r, a)
      PROVE  UNCHANGED <<messages[s], idempotency[s]>> \/ s = r
  BY <1>2 DEF TypeOK, CreateRoom
<1>3. ASSUME NEW a \in Agents, CreateRoom(s, a)
      PROVE  messages[s] = {} /\ \A b \in Agents, j \in IdempotencyKeys :
                                   idempotency[s][b][j] = NotUsed
  <2>1. ~Exists(s)
    BY <1>3 DEF CreateRoom, CreateRoomResult
  <2>2. messages[s] = {}
    BY <2>1 DEF AbsentRoomsEmpty
  <2>3. QED
    BY <2>2 DEF IdempotencyExact
<1>4. ASSUME NEW r \in RoomIDs, NEW a \in Agents, NEW k \in IdempotencyKeys,
             NEW body \in Bodies, NEW n \in Nicknames \cup {None},
             NEW mv \in MemberVersions, NEW id \in MessageIDs,
             PostMessage(r, a, k, body, n, mv, id)
      PROVE  /\ messages[s] \subseteq messages'[s]
             /\ \A b \in Agents, j \in IdempotencyKeys :
                  idempotency[s][b][j] # NotUsed =>
                    idempotency'[s][b][j] = idempotency[s][b][j]
  <2>1. idempotency[r][a][k] = NotUsed
    BY <1>4, PostChecked DEF PostMessage
  <2>2. messages[s] \subseteq messages'[s]
    BY <1>4 DEF TypeOK, PostMessage
  <2>3. \A b \in Agents, j \in IdempotencyKeys :
          idempotency'[s][b][j] = IF s = r /\ b = a /\ j = k THEN [body |-> body, id |-> id]
                                  ELSE idempotency[s][b][j]
    BY <1>4 DEF TypeOK, PostMessage
  <2>4. QED
    BY <2>1, <2>2, <2>3
<1>5. ASSUME NEW r, NEW a, NEW t, NEW role, NEW mv, NEW rv,
             \/ GrantAllowlist(r, a, t, role, mv, rv)
             \/ RevokeAllowlist(r, a, t, mv, rv)
             \/ SetNickname(r, a, t, mv)
      PROVE  UNCHANGED <<messages, idempotency>>
  BY <1>5 DEF GrantAllowlist, RevokeAllowlist, SetNickname
<1>6. ASSUME NEW r \in RoomIDs, NEW a \in Agents, CreateRoom(r, a)
      PROVE  /\ messages[s] \subseteq messages'[s]
             /\ \A b \in Agents, j \in IdempotencyKeys :
                  idempotency[s][b][j] # NotUsed =>
                    idempotency'[s][b][j] = idempotency[s][b][j]
  BY <1>2, <1>3, <1>6
<1>7. QED
  BY <1>1, <1>4, <1>5, <1>6 DEF Next, vars

(* A stored message stays as it is, and so does what its key stands for,   *)
(* whatever happens to its author's membership afterwards.                 *)
THEOREM MessagesStay == Spec => MessagesPermanent
<1>1. Init => AbsentRoomsEmpty
  BY DEF Init, AbsentRoomsEmpty
<1>2. Spec => []AbsentRoomsEmpty
  BY <1>1, NextAbsentRoomsEmpty, TypeCorrect, PTL DEF Spec
<1>3. TypeOK /\ AbsentRoomsEmpty /\ IdempotencyExact /\ [Next]_vars =>
        [\A r \in RoomIDs :
           /\ messages[r] \subseteq messages'[r]
           /\ \A a \in Agents, k \in IdempotencyKeys :
                idempotency[r][a][k] # NotUsed =>
                  idempotency'[r][a][k] = idempotency[r][a][k]]_vars
  BY NextKeepsMessages
<1>4. QED
  BY <1>2, <1>3, TypeCorrect, IdempotencyCorrect, PTL DEF Spec, MessagesPermanent

-----------------------------------------------------------------------------
(* Who changes the allowlist. *)

LEMMA AppendIsLast ==
  ASSUME NEW S, NEW log \in Seq(S), NEW e \in S
  PROVE  /\ Append(log, e) \in Seq(S)
         /\ Len(Append(log, e)) = Len(log) + 1 /\ Len(log) \in Nat
         /\ Append(log, e)[Len(log) + 1] = e
         /\ \A i \in 1 .. Len(log) : Append(log, e)[i] = log[i]
OBVIOUS

(* What the two operations on the allowlist have in common: manager a makes *)
(* the role of t what it was not, and records it.                          *)
AllowlistEdit(r, a, t, role) ==
  /\ Exists(r) /\ a # t /\ t # room[r].owner
  /\ members[r][a].role \in {"owner", "admin"}
  /\ \A s \in RoomIDs, b \in Agents :
       members'[s][b].role = IF s = r /\ b = t THEN role ELSE members[s][b].role
  /\ \E event \in {"allowlist_granted", "allowlist_revoked"} :
       audits' = [audits EXCEPT ![r] = Append(@, Audit(event, a, t, role))]
  /\ \A s \in RoomIDs :
       room'[s].version = IF s = r THEN room[r].version + 1 ELSE room[s].version

LEMMA GrantEdits ==
  ASSUME TypeOK, NEW r \in RoomIDs, NEW a \in Agents, NEW t \in Agents, NEW role \in Roles,
         NEW mv \in MemberVersions, NEW rv \in RoomVersions,
         GrantAllowlist(r, a, t, role, mv, rv)
  PROVE  AllowlistEdit(r, a, t, role)
<1>1. Exists(r) /\ a # t /\ t # room[r].owner /\ members[r][a].role \in {"owner", "admin"}
  BY GrantChecked, ManagerChecked DEF GrantAllowlist
<1>2. \A s \in RoomIDs, b \in Agents :
        members'[s][b].role = IF s = r /\ b = t THEN role ELSE members[s][b].role
  BY DEF TypeOK, GrantAllowlist
<1>3. \A s \in RoomIDs :
        room'[s].version = IF s = r THEN room[r].version + 1 ELSE room[s].version
  BY DEF TypeOK, GrantAllowlist, EditedRoom
<1>4. QED
  BY <1>1, <1>2, <1>3 DEF AllowlistEdit, GrantAllowlist

LEMMA RevokeEdits ==
  ASSUME TypeOK, NEW r \in RoomIDs, NEW a \in Agents, NEW t \in Agents,
         NEW mv \in MemberVersions, NEW rv \in RoomVersions,
         RevokeAllowlist(r, a, t, mv, rv)
  PROVE  AllowlistEdit(r, a, t, None)
<1>1. Exists(r) /\ a # t /\ t # room[r].owner /\ members[r][a].role \in {"owner", "admin"}
  BY RevokeChecked, ManagerChecked DEF RevokeAllowlist
<1>2. \A s \in RoomIDs, b \in Agents :
        members'[s][b].role = IF s = r /\ b = t THEN None ELSE members[s][b].role
  BY DEF TypeOK, RevokeAllowlist, NotMember
<1>3. \A s \in RoomIDs :
        room'[s].version = IF s = r THEN room[r].version + 1 ELSE room[s].version
  BY DEF TypeOK, RevokeAllowlist, EditedRoom
<1>4. QED
  BY <1>1, <1>2, <1>3 DEF AllowlistEdit, RevokeAllowlist

(* The other operations on rooms that exist.                               *)
LEMMA OthersKeepRoles ==
  ASSUME TypeOK, NEW r \in RoomIDs, NEW a \in Agents,
         \/ \E n \in Nicknames, mv \in MemberVersions : SetNickname(r, a, n, mv)
         \/ \E k \in IdempotencyKeys, body \in Bodies, n \in Nicknames \cup {None},
               mv \in MemberVersions, id \in MessageIDs :
              PostMessage(r, a, k, body, n, mv, id)
  PROVE  /\ \A s \in RoomIDs, b \in Agents : members'[s][b].role = members[s][b].role
         /\ audits' = audits /\ room' = room
<1>1. ASSUME NEW n \in Nicknames, NEW mv \in MemberVersions, SetNickname(r, a, n, mv)
      PROVE  /\ \A s \in RoomIDs, b \in Agents : members'[s][b].role = members[s][b].role
             /\ audits' = audits /\ room' = room
  <2>1. members' = [members EXCEPT ![r][a] =
          [role |-> @.role, version |-> @.version + 1, nickname |-> n]]
        /\ audits' = audits /\ room' = room
    BY <1>1 DEF SetNickname
  <2>2. \A s \in RoomIDs, b \in Agents : members'[s][b].role = members[s][b].role
    BY <2>1 DEF TypeOK
  <2>3. QED
    BY <2>1, <2>2
<1>2. ASSUME NEW k \in IdempotencyKeys, NEW body \in Bodies, NEW n \in Nicknames \cup {None},
             NEW mv \in MemberVersions, NEW id \in MessageIDs,
             PostMessage(r, a, k, body, n, mv, id)
      PROVE  members' = members /\ audits' = audits /\ room' = room
  BY <1>2 DEF PostMessage
<1>3. QED
  BY <1>1, <1>2

(* A step changes roles by creating a room, by an edit, or not at all.     *)
LEMMA RoleChanges ==
  ASSUME TypeOK, [Next]_vars
  PROVE  \/ \E r \in RoomIDs, a \in Agents : CreateRoom(r, a)
         \/ \E r \in RoomIDs, a \in Agents, t \in Agents, role \in Roles \cup {None} :
              AllowlistEdit(r, a, t, role)
         \/ /\ \A s \in RoomIDs, b \in Agents : members'[s][b].role = members[s][b].role
            /\ audits' = audits /\ room' = room
<1>1. CASE UNCHANGED vars
  BY <1>1 DEF vars
<1>2. ASSUME NEW r \in RoomIDs, NEW a \in Agents, NEW t \in Agents,
             NEW role \in Roles, NEW mv \in MemberVersions, NEW rv \in RoomVersions,
             GrantAllowlist(r, a, t, role, mv, rv)
      PROVE  \E u \in Roles \cup {None} : AllowlistEdit(r, a, t, u)
  BY <1>2, GrantEdits
<1>3. ASSUME NEW r \in RoomIDs, NEW a \in Agents, NEW t \in Agents,
             NEW mv \in MemberVersions, NEW rv \in RoomVersions,
             RevokeAllowlist(r, a, t, mv, rv)
      PROVE  \E u \in Roles \cup {None} : AllowlistEdit(r, a, t, u)
  BY <1>3, RevokeEdits
<1>4. QED
  BY <1>1, <1>2, <1>3, OthersKeepRoles DEF Next

(* Nobody's role changes in a room that exists but by a manager other than *)
(* the agent itself, who leaves a record; and never the owner's.           *)
THEOREM AllowlistAuthorized == Spec => AllowlistChangesAuthorized
<1> DEFINE Allowed ==
      \A r \in RoomIDs, t \in Agents :
        Exists(r) /\ members'[r][t].role # members[r][t].role =>
          LET entry == audits'[r][Len(audits'[r])] IN
          /\ Len(audits'[r]) = Len(audits[r]) + 1
          /\ entry.target = t
          /\ entry.actor # t
          /\ members[r][entry.actor].role \in {"owner", "admin"}
          /\ t # room[r].owner
          /\ room'[r].version = room[r].version + 1
<1>1. ASSUME TypeOK, [Next]_vars PROVE Allowed
  <2>1. SUFFICES ASSUME NEW s \in RoomIDs, NEW b \in Agents,
                        Exists(s), members'[s][b].role # members[s][b].role
                 PROVE  LET entry == audits'[s][Len(audits'[s])] IN
                        /\ Len(audits'[s]) = Len(audits[s]) + 1
                        /\ entry.target = b
                        /\ entry.actor # b
                        /\ members[s][entry.actor].role \in {"owner", "admin"}
                        /\ b # room[s].owner
                        /\ room'[s].version = room[s].version + 1
    OBVIOUS
  <2>2. ASSUME NEW r \in RoomIDs, NEW a \in Agents, CreateRoom(r, a) PROVE FALSE
    <3>1. r # s
      BY <2>1, <2>2 DEF CreateRoom, CreateRoomResult
    <3>2. QED
      BY <1>1, <2>1, <2>2, <3>1 DEF CreateRoom, TypeOK
  <2>3. PICK r \in RoomIDs, a \in Agents, t \in Agents, role \in Roles \cup {None} :
          AllowlistEdit(r, a, t, role)
    BY <1>1, <2>1, <2>2, RoleChanges
  <2>4. r = s /\ t = b
    BY <2>1, <2>3 DEF AllowlistEdit
  <2>5. PICK event \in {"allowlist_granted", "allowlist_revoked"} :
          audits' = [audits EXCEPT ![s] = Append(@, Audit(event, a, b, role))]
    BY <2>3, <2>4 DEF AllowlistEdit
  <2>6. audits[s] \in Seq(AuditRecord) /\ audits'[s] = Append(audits[s], Audit(event, a, b, role))
    BY <1>1, <2>5 DEF TypeOK
  <2>7. Audit(event, a, b, role) \in AuditRecord
        /\ Audit(event, a, b, role).actor = a /\ Audit(event, a, b, role).target = b
    BY DEF Audit, AuditRecord
  <2>8. Len(audits'[s]) = Len(audits[s]) + 1
        /\ audits'[s][Len(audits'[s])] = Audit(event, a, b, role)
    BY <2>6, <2>7, AppendIsLast
  <2>9. QED
    BY <2>3, <2>4, <2>7, <2>8 DEF AllowlistEdit
<1>2. QED
  BY <1>1, TypeCorrect, PTL DEF Spec, AllowlistChangesAuthorized

-----------------------------------------------------------------------------
(* The audit log. *)

ExplainedBy(log, role, b) ==
  \/ \E i \in DOMAIN log : LastAbout(log, b, i) /\ role = log[i].role
  \/ role = None /\ \A i \in DOMAIN log : log[i].target # b

(* A record about t explains t's new role and leaves what it says of the   *)
(* others as it was.                                                       *)
LEMMA AppendExplains ==
  ASSUME NEW log \in Seq(AuditRecord), NEW e \in AuditRecord, NEW b \in Agents,
         NEW old, NEW new,
         ExplainedBy(log, old, b),
         new = IF e.target = b THEN e.role ELSE old
  PROVE  ExplainedBy(Append(log, e), new, b)
<1> DEFINE more == Append(log, e)
           n    == Len(log) + 1
<1>1. /\ more \in Seq(AuditRecord) /\ Len(more) = n /\ Len(log) \in Nat
      /\ more[n] = e /\ \A i \in 1 .. Len(log) : more[i] = log[i]
  BY AppendIsLast
<1>2. DOMAIN more = 1 .. n /\ DOMAIN log = 1 .. Len(log)
  BY <1>1
<1> HIDE DEF more
<1>3. CASE e.target = b
  <2>1. LastAbout(more, b, n)
    BY <1>1, <1>2, <1>3 DEF LastAbout
  <2>2. n \in DOMAIN more /\ more[n].role = new
    BY <1>1, <1>2, <1>3
  <2>3. QED
    BY <2>1, <2>2 DEF ExplainedBy, more
<1>4. CASE e.target # b
  <2>1. new = old
    BY <1>4
  <2>2. ASSUME NEW i \in DOMAIN log, LastAbout(log, b, i), old = log[i].role
        PROVE  i \in DOMAIN more /\ LastAbout(more, b, i) /\ old = more[i].role
    BY <1>1, <1>2, <1>4, <2>2 DEF LastAbout
  <2>3. ASSUME \A i \in DOMAIN log : log[i].target # b
        PROVE  \A i \in DOMAIN more : more[i].target # b
    BY <1>1, <1>2, <1>4, <2>3
  <2>4. QED
    BY <2>1, <2>2, <2>3 DEF ExplainedBy, more
<1>5. QED
  BY <1>3, <1>4

AuditInv ==
  \A r \in RoomIDs :
    /\ room[r].version = Len(audits[r])
    /\ \A a \in Agents : ExplainedBy(audits[r], members[r][a].role, a)

LEMMA NextAuditInv == TypeOK /\ AuditInv /\ [Next]_vars => AuditInv'
<1>1. SUFFICES ASSUME TypeOK, AuditInv, [Next]_vars, NEW s \in RoomIDs
               PROVE  /\ room'[s].version = Len(audits'[s])
                      /\ \A b \in Agents : ExplainedBy(audits'[s], members'[s][b].role, b)
  BY DEF AuditInv, ExplainedBy, LastAbout
<1>2. ASSUME \A b \in Agents : members'[s][b].role = members[s][b].role,
             audits'[s] = audits[s], room'[s].version = room[s].version
      PROVE  /\ room'[s].version = Len(audits'[s])
             /\ \A b \in Agents : ExplainedBy(audits'[s], members'[s][b].role, b)
  BY <1>1, <1>2 DEF AuditInv
<1>3. ASSUME NEW r \in RoomIDs, NEW a \in Agents, CreateRoom(r, a)
      PROVE  /\ room'[s].version = Len(audits'[s])
             /\ \A b \in Agents : ExplainedBy(audits'[s], members'[s][b].role, b)
  <2>1. CASE s # r
    BY <1>1, <1>2, <1>3, <2>1 DEF CreateRoom, TypeOK
  <2>2. CASE s = r
    <3> DEFINE e == Audit("room_created", a, a, "owner")
    <3>1. room'[s].version = 1 /\ audits'[s] = <<e>>
      BY <1>1, <1>3, <2>2 DEF CreateRoom, TypeOK
    <3>2. \A b \in Agents : members'[s][b].role = IF b = a THEN "owner" ELSE None
      BY <1>1, <1>3, <2>2 DEF CreateRoom, TypeOK, NotMember
    <3>3. e.target = a /\ e.role = "owner"
      BY DEF Audit
    <3> HIDE DEF e
    <3>4. Len(<<e>>) = 1 /\ DOMAIN <<e>> = {1} /\ <<e>>[1] = e
      OBVIOUS
    <3>5. \A b \in Agents : ExplainedBy(<<e>>, IF b = a THEN "owner" ELSE None, b)
      BY <3>3, <3>4 DEF ExplainedBy, LastAbout
    <3>6. QED
      BY <3>1, <3>2, <3>4, <3>5
  <2>3. QED
    BY <2>1, <2>2
<1>4. ASSUME NEW r \in RoomIDs, NEW a \in Agents, NEW t \in Agents,
             NEW role \in Roles \cup {None}, AllowlistEdit(r, a, t, role)
      PROVE  /\ room'[s].version = Len(audits'[s])
             /\ \A b \in Agents : ExplainedBy(audits'[s], members'[s][b].role, b)
  <2>1. CASE s # r
    BY <1>1, <1>2, <1>4, <2>1 DEF AllowlistEdit, TypeOK
  <2>2. CASE s = r
    <3>1. PICK event \in {"allowlist_granted", "allowlist_revoked"} :
            audits' = [audits EXCEPT ![r] = Append(@, Audit(event, a, t, role))]
      BY <1>4 DEF AllowlistEdit
    <3> DEFINE e == Audit(event, a, t, role)
    <3>2. e \in AuditRecord /\ e.target = t /\ e.role = role
      BY DEF Audit, AuditRecord
    <3>3. audits[s] \in Seq(AuditRecord) /\ audits'[s] = Append(audits[s], e)
      BY <1>1, <2>2, <3>1 DEF TypeOK
    <3>4. room'[s].version = room[s].version + 1
          /\ \A b \in Agents : members'[s][b].role = IF b = t THEN role ELSE members[s][b].role
      BY <1>4, <2>2 DEF AllowlistEdit
    <3> HIDE DEF e
    <3>5. Len(audits'[s]) = Len(audits[s]) + 1
      BY <3>2, <3>3, AppendIsLast
    <3>6. ASSUME NEW b \in Agents PROVE ExplainedBy(audits'[s], members'[s][b].role, b)
      <4>1. ExplainedBy(audits[s], members[s][b].role, b)
        BY <1>1 DEF AuditInv
      <4>2. members'[s][b].role = IF e.target = b THEN e.role ELSE members[s][b].role
        BY <3>2, <3>4
      <4>3. QED
        BY <3>2, <3>3, <4>1, <4>2, AppendExplains
    <3>7. room[s].version = Len(audits[s])
      BY <1>1 DEF AuditInv
    <3>8. QED
      BY <3>4, <3>5, <3>6, <3>7
  <2>3. QED
    BY <2>1, <2>2
<1>5. QED
  BY <1>1, <1>2, <1>3, <1>4, RoleChanges

(* The audit log is the history of the allowlist: the room version counts  *)
(* its records, and everybody's role is that of the last record about him. *)
THEOREM AuditExplains == Spec => []AuditExplainsAllowlist
<1>1. Init => AuditInv
  <2>1. SUFFICES ASSUME Init, NEW r \in RoomIDs
                 PROVE  /\ room[r].version = Len(audits[r])
                        /\ \A a \in Agents : ExplainedBy(audits[r], members[r][a].role, a)
    BY DEF AuditInv
  <2>2. audits[r] = <<>> /\ room[r].version = 0
    BY <2>1 DEF Init, NoRoom
  <2>3. \A a \in Agents : members[r][a].role = None
    BY <2>1 DEF Init, NotMember
  <2>4. QED
    BY <2>2, <2>3 DEF ExplainedBy
<1>2. AuditInv => AuditExplainsAllowlist
  BY DEF AuditInv, ExplainedBy, AuditExplainsAllowlist
<1>3. QED
  BY <1>1, <1>2, NextAuditInv, TypeCorrect, PTL DEF Spec

-----------------------------------------------------------------------------
(* All of it together, and what the store's clients may conclude.          *)

(* Versions tell members from others: an entry that is nobody's is blank,  *)
(* and a member's starts at 1.                                             *)
MembersNumbered ==
  \A r \in RoomIDs, a \in Agents :
    IF IsMember(r, a) THEN members[r][a].version >= 1 ELSE members[r][a] = NotMember

(* A step leaves a membership as it is, moves its version, or removes it    *)
(* with a record.                                                          *)
MembershipStep(r, a) ==
  \/ members'[r][a] = members[r][a]
  \/ /\ members'[r][a].version = members[r][a].version + 1
     /\ members'[r][a].role # None
  \/ /\ members'[r][a] = NotMember
     /\ Len(audits'[r]) = Len(audits[r]) + 1
     /\ audits'[r][Len(audits'[r])].event = "allowlist_revoked"
     /\ audits'[r][Len(audits'[r])].target = a

LEMMA MembershipSteps ==
  ASSUME TypeOK, AbsentRoomsEmpty, [Next]_vars, NEW s \in RoomIDs, NEW b \in Agents
  PROVE  MembershipStep(s, b)
<1>1. CASE members' = members
  BY <1>1 DEF MembershipStep
<1>2. ASSUME NEW r \in RoomIDs, NEW a \in Agents, CreateRoom(r, a)
      PROVE  MembershipStep(s, b)
  <2>1. ~Exists(r)
    BY <1>2 DEF CreateRoom, CreateRoomResult
  <2>2. members[r][b] = NotMember
    BY <2>1 DEF AbsentRoomsEmpty
  <2>3. members'[s][b] = IF s = r THEN IF b = a
                                       THEN [role |-> "owner", version |-> 1,
                                             nickname |-> None]
                                       ELSE NotMember
                         ELSE members[s][b]
    BY <1>2 DEF TypeOK, CreateRoom
  <2>4. QED
    BY <2>2, <2>3, NoneAssumption DEF MembershipStep, NotMember, Roles
<1>3. ASSUME NEW r \in RoomIDs, NEW a \in Agents, NEW t \in Agents,
             NEW role \in Roles, NEW mv \in MemberVersions, NEW rv \in RoomVersions,
             GrantAllowlist(r, a, t, role, mv, rv)
      PROVE  MembershipStep(s, b)
  <2>1. members'[s][b] = IF s = r /\ b = t
                         THEN [role |-> role, version |-> members[r][t].version + 1,
                               nickname |-> members[r][t].nickname]
                         ELSE members[s][b]
    BY <1>3 DEF TypeOK, GrantAllowlist
  <2>2. QED
    BY <2>1, NoneAssumption DEF MembershipStep
<1>4. ASSUME NEW r \in RoomIDs, NEW a \in Agents, NEW t \in Agents,
             NEW mv \in MemberVersions, NEW rv \in RoomVersions,
             RevokeAllowlist(r, a, t, mv, rv)
      PROVE  MembershipStep(s, b)
  <2>1. members'[s][b] = IF s = r /\ b = t THEN NotMember ELSE members[s][b]
    BY <1>4 DEF TypeOK, RevokeAllowlist
  <2>2. Audit("allowlist_revoked", a, t, None) \in AuditRecord
    BY DEF Audit, AuditRecord
  <2>3. audits[r] \in Seq(AuditRecord)
        /\ audits'[r] = Append(audits[r], Audit("allowlist_revoked", a, t, None))
    BY <1>4 DEF TypeOK, RevokeAllowlist
  <2>4. Len(audits'[r]) = Len(audits[r]) + 1
        /\ audits'[r][Len(audits'[r])] = Audit("allowlist_revoked", a, t, None)
    BY <2>2, <2>3, AppendIsLast
  <2>5. QED
    BY <2>1, <2>4 DEF MembershipStep, Audit
<1>5. ASSUME NEW r \in RoomIDs, NEW a \in Agents, NEW n \in Nicknames,
             NEW mv \in MemberVersions, SetNickname(r, a, n, mv)
      PROVE  MembershipStep(s, b)
  <2>1. members'[s][b] = IF s = r /\ b = a
                         THEN [role |-> members[r][a].role,
                               version |-> members[r][a].version + 1, nickname |-> n]
                         ELSE members[s][b]
    BY <1>5 DEF TypeOK, SetNickname
  <2>2. members[r][a].role # None
    BY <1>5, NicknameChecked DEF SetNickname, IsMember
  <2>3. QED
    BY <2>1, <2>2 DEF MembershipStep
<1>6. ASSUME NEW r, NEW a, NEW k, NEW body, NEW n, NEW mv, NEW id,
             PostMessage(r, a, k, body, n, mv, id)
      PROVE  members' = members
  BY <1>6 DEF PostMessage
<1>7. QED
  BY <1>1, <1>2, <1>3, <1>4, <1>5, <1>6 DEF Next, vars

LEMMA NextMembersNumbered ==
  TypeOK /\ AbsentRoomsEmpty /\ MembersNumbered /\ [Next]_vars => MembersNumbered'
<1>1. SUFFICES ASSUME TypeOK, AbsentRoomsEmpty, MembersNumbered, [Next]_vars,
                      NEW r \in RoomIDs, NEW a \in Agents
               PROVE  IF members'[r][a].role # None THEN members'[r][a].version >= 1
                      ELSE members'[r][a] = NotMember
  BY DEF MembersNumbered, IsMember
<1>2. members[r][a].version \in Nat
  BY <1>1 DEF TypeOK, Membership
<1>3. QED
  BY <1>1, <1>2, MembershipSteps DEF MembershipStep, MembersNumbered, IsMember, NotMember

LEMMA EditAppends ==
  ASSUME TypeOK, NEW r \in RoomIDs, NEW a \in Agents, NEW t \in Agents,
         NEW role \in Roles \cup {None}, AllowlistEdit(r, a, t, role)
  PROVE  /\ \E e \in AuditRecord : audits'[r] = Append(audits[r], e)
         /\ \A s \in RoomIDs : s # r => audits'[s] = audits[s]
<1>1. PICK event \in {"allowlist_granted", "allowlist_revoked"} :
        audits' = [audits EXCEPT ![r] = Append(@, Audit(event, a, t, role))]
  BY DEF AllowlistEdit
<1>2. Audit(event, a, t, role) \in AuditRecord
  BY DEF Audit, AuditRecord
<1>3. QED
  BY <1>1, <1>2 DEF TypeOK

(* No record ever leaves the audit log.                                    *)
LEMMA AuditsGrow ==
  ASSUME TypeOK, VersionsBounded, AuditInv, [Next]_vars, NEW s \in RoomIDs
  PROVE  /\ Len(audits[s]) \in Nat /\ Len(audits[s]) <= Len(audits'[s])
         /\ \A i \in DOMAIN audits[s] : i \in DOMAIN audits'[s] /\ audits'[s][i] = audits[s][i]
<1>1. audits[s] \in Seq(AuditRecord) /\ audits'[s] \in Seq(AuditRecord)
  BY NextTypeOK DEF TypeOK
<1>2. Len(audits[s]) \in Nat /\ DOMAIN audits[s] = 1 .. Len(audits[s])
      /\ Len(audits'[s]) \in Nat /\ DOMAIN audits'[s] = 1 .. Len(audits'[s])
  BY <1>1
<1>3. CASE audits'[s] = audits[s]
  BY <1>2, <1>3
<1>4. ASSUME NEW a \in Agents, CreateRoom(s, a)
      PROVE  Len(audits[s]) = 0
  <2>1. ~Exists(s)
    BY <1>4 DEF CreateRoom, CreateRoomResult
  <2>2. QED
    BY <2>1 DEF VersionsBounded, AuditInv
<1>5. ASSUME NEW r \in RoomIDs, NEW a \in Agents, CreateRoom(r, a), r # s
      PROVE  audits'[s] = audits[s]
  BY <1>5 DEF TypeOK, CreateRoom
<1>6. ASSUME NEW r \in RoomIDs, NEW a \in Agents, NEW t \in Agents,
             NEW role \in Roles \cup {None}, AllowlistEdit(r, a, t, role)
      PROVE  \/ audits'[s] = audits[s]
             \/ \E e \in AuditRecord : audits'[s] = Append(audits[s], e)
  BY <1>6, EditAppends
<1>7. ASSUME NEW e \in AuditRecord, audits'[s] = Append(audits[s], e)
      PROVE  /\ Len(audits[s]) <= Len(audits'[s])
             /\ \A i \in DOMAIN audits[s] :
                  i \in DOMAIN audits'[s] /\ audits'[s][i] = audits[s][i]
  BY <1>1, <1>2, <1>7, AppendIsLast
<1>8. QED
  BY <1>2, <1>3, <1>4, <1>5, <1>6, <1>7, RoleChanges

StoreInv == TypeOK /\ VersionsBounded /\ SoleOwner /\ AuditInv /\ AbsentRoomsEmpty
            /\ MembersNumbered /\ IdempotencyExact

LEMMA NextStoreInv == StoreInv /\ [Next]_vars => StoreInv'
BY NextTypeOK, NextVersionsBounded, NextSoleOwner, NextAuditInv, NextAbsentRoomsEmpty,
   NextMembersNumbered, NextIdempotencyExact DEF StoreInv

LEMMA InitStoreInv == Init => StoreInv
<1>1. SUFFICES ASSUME Init PROVE StoreInv
  OBVIOUS
<1>2. \A r \in RoomIDs :
        /\ room[r] = NoRoom /\ audits[r] = <<>> /\ messages[r] = {}
        /\ \A a \in Agents : /\ members[r][a] = NotMember
                             /\ \A k \in IdempotencyKeys : idempotency[r][a][k] = NotUsed
  BY <1>1 DEF Init
<1>3. VersionsBounded
  BY <1>2, NumberAssumption DEF VersionsBounded, Exists, NoRoom, NotMember
<1>4. SoleOwner
  BY <1>2, NoneAssumption DEF SoleOwner, NoRoom, NotMember, Roles
<1>5. AuditInv
  BY <1>2 DEF AuditInv, ExplainedBy, NoRoom, NotMember
<1>6. AbsentRoomsEmpty /\ MembersNumbered
  BY <1>2 DEF AbsentRoomsEmpty, MembersNumbered, IsMember, NotMember
<1>7. IdempotencyExact
  BY <1>2 DEF IdempotencyExact
<1>8. QED
  BY <1>1, <1>3, <1>4, <1>5, <1>6, <1>7, InitTypeOK DEF StoreInv

LEMMA StoreInvariant == Spec => []StoreInv
BY InitStoreInv, NextStoreInv, PTL DEF Spec

=============================================================================
