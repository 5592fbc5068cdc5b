------------------------- MODULE BoardServerProofs -------------------------
(***************************************************************************)
(* Proofs about BoardServer, for every value of its constants: whatever    *)
(* the handlers do is a behaviour of the store, so that the theorems about *)
(* the store hold of the server; concurrent edits of an allowlist are      *)
(* never lost; the two authorizers agree; outsiders learn of no room;      *)
(* retries of a post are given one message; nicknames are current; and     *)
(* the answers account for the messages and the audit log.                 *)
(***************************************************************************)
EXTENDS BoardServer, BoardStoreProofs

-----------------------------------------------------------------------------
(* What a handler kept of the versions it read is within the bounds.       *)

SnapshotsBounded ==
  \A c \in Calls : calls[c].phase = "authorized" =>
    /\ calls[c].request \in Requests
    /\ calls[c].snapshot.memberVersion <= MaxMemberVersion
    /\ calls[c].request.op \in {"grant", "revoke"} =>
         calls[c].snapshot.roomVersion \in RoomVersions

ServerInv == ServerTypeOK /\ VersionsBounded /\ SnapshotsBounded

-----------------------------------------------------------------------------
(* The handlers do to the store only what the store's operations do. *)

LEMMA RequestFields ==
  ASSUME NEW q \in Requests
  PROVE  /\ q.agent \in Agents
         /\ q.room \in RoomIDs
         /\ q.op \in {"grant", "revoke"} => q.target \in Agents
         /\ q.op = "grant" => q.role \in Roles
         /\ q.op = "nickname" => q.nickname \in Nicknames
         /\ q.op = "post" => q.key \in IdempotencyKeys /\ q.body \in Bodies
BY RequestAssumption DEF Request

(* The versions a handler writes with are values the operations take.      *)
LEMMA WriteVersions ==
  ASSUME ServerInv, NEW c \in Calls, Write(c)
  PROVE  /\ calls[c].snapshot.memberVersion \in MemberVersions
         /\ calls[c].snapshot.nickname \in Nicknames \cup {None}
         /\ calls[c].request.op \in {"grant", "revoke"} =>
              calls[c].snapshot.roomVersion \in RoomVersions
<1> DEFINE s == calls[c].snapshot
<1>1. calls[c] \in Call
  BY DEF ServerInv, ServerTypeOK
<1>2. s \in Snapshot
  BY <1>1 DEF Call
<1>3. s.memberVersion <= MaxMemberVersion
  BY DEF ServerInv, SnapshotsBounded, Write
<1>4. s.memberVersion \in Nat /\ MaxMemberVersion \in Nat
  BY <1>2, NumberAssumption DEF Snapshot
<1>5. s.memberVersion \in MemberVersions
  BY <1>3, <1>4 DEF MemberVersions
<1>6. QED
  BY <1>2, <1>5 DEF Snapshot, ServerInv, SnapshotsBounded, Write

LEMMA WriteIsStoreStep ==
  ASSUME ServerInv, NEW c \in Calls, Write(c)
  PROVE  Next
<1> DEFINE q == calls[c].request
           s == calls[c].snapshot
<1>1. q \in Requests
  BY DEF ServerInv, SnapshotsBounded, Write
<1>2. /\ s.memberVersion \in MemberVersions
      /\ s.nickname \in Nicknames \cup {None}
      /\ q.op \in {"grant", "revoke"} => s.roomVersion \in RoomVersions
  BY WriteVersions
<1>3. \/ \E id \in MessageIDs : StoreWrite(c, id)
      \/ StoreWrite(c, None) /\ q.op # "post"
  BY DEF Write
<1>4. CASE q.op = "create" /\ CreateRoom(q.room, q.agent)
  BY <1>1, <1>4, RequestFields DEF Next
<1>5. CASE /\ q.op = "post"
           /\ \E id \in MessageIDs : PostMessage(q.room, q.agent, q.key, q.body,
                                                s.nickname, s.memberVersion, id)
  BY <1>1, <1>2, <1>5, RequestFields DEF Next
<1>6. CASE q.op = "nickname" /\ SetNickname(q.room, q.agent, q.nickname, s.memberVersion)
  BY <1>1, <1>2, <1>6, RequestFields DEF Next
<1>7. CASE /\ q.op = "grant"
           /\ GrantAllowlist(q.room, q.agent, q.target, q.role, s.memberVersion,
                             s.roomVersion)
  BY <1>1, <1>2, <1>7, RequestFields DEF Next
<1>8. CASE /\ q.op = "revoke"
           /\ RevokeAllowlist(q.room, q.agent, q.target, s.memberVersion, s.roomVersion)
  BY <1>1, <1>2, <1>8, RequestFields DEF Next
<1>9. QED
  BY <1>3, <1>4, <1>5, <1>6, <1>7, <1>8 DEF StoreWrite

LEMMA ServerStepIsStoreStep ==
  ServerInv /\ [ServerNext]_serverVars => [Next]_vars
<1>1. SUFFICES ASSUME ServerInv, [ServerNext]_serverVars PROVE [Next]_vars
  OBVIOUS
<1>2. CASE UNCHANGED serverVars
  BY <1>2 DEF serverVars
<1>3. ASSUME NEW c \in Calls, Write(c) PROVE Next
  BY <1>1, <1>3, WriteIsStoreStep
<1>4. ASSUME NEW c \in Calls, Refuse(c) \/ (\E q \in Requests : Arrive(c, q))
      PROVE  UNCHANGED vars
  BY <1>4 DEF Refuse, Arrive
<1>5. QED
  BY <1>1, <1>2, <1>3, <1>4 DEF ServerNext

LEMMA SnapshotOfType ==
  ASSUME TypeOK, NEW r \in RoomIDs, NEW a \in Agents
  PROVE  SnapshotOf(r, a) \in Snapshot
<1>1. room[r] \in Room /\ members[r][a] \in Membership
  BY DEF TypeOK
<1>2. QED
  BY <1>1 DEF SnapshotOf, Snapshot, Room, Membership

LEMMA AnswerType ==
  ASSUME NEW q \in Requests \cup {None}, NEW s \in Snapshot, NEW result \in Results,
         NEW id \in MessageIDs \cup {None}
  PROVE  Answered(q, s, result, id) \in Call
BY DEF Answered, Call

LEMMA ServerInvStep == ServerInv /\ [ServerNext]_serverVars => ServerInv'
<1>1. SUFFICES ASSUME ServerInv, [ServerNext]_serverVars PROVE ServerInv'
  OBVIOUS
<1>2. TypeOK' /\ VersionsBounded'
  BY <1>1, ServerStepIsStoreStep, NextTypeOK, NextVersionsBounded
  DEF ServerInv, ServerTypeOK
<1>3. CASE UNCHANGED calls
  BY <1>1, <1>2, <1>3 DEF ServerInv, ServerTypeOK, SnapshotsBounded
<1>4. ASSUME NEW c \in Calls, NEW call, calls' = [calls EXCEPT ![c] = call],
             call \in Call,
             call.phase = "authorized" =>
               /\ call.request \in Requests
               /\ call.snapshot.memberVersion <= MaxMemberVersion
               /\ call.request.op \in {"grant", "revoke"} =>
                    call.snapshot.roomVersion \in RoomVersions
      PROVE  ServerInv'
  BY <1>1, <1>2, <1>4 DEF ServerInv, ServerTypeOK, SnapshotsBounded
<1>5. ASSUME NEW c \in Calls, NEW q \in Requests, Arrive(c, q)
      PROVE  ServerInv'
  <2> DEFINE s == IF q.op = "create" THEN NoSnapshot ELSE SnapshotOf(q.room, q.agent)
  <2>1. q.room \in RoomIDs /\ q.agent \in Agents
    BY RequestFields
  <2>2. s \in Snapshot
    BY <1>1, <2>1, SnapshotOfType DEF ServerInv, ServerTypeOK, NoSnapshot, Snapshot
  <2>3. CASE AdmitResult(q) = "ok"
    <3>1. calls' = [calls EXCEPT ![c] = Authorized(q, s)]
      BY <1>5, <2>3 DEF Arrive
    <3>2. Authorized(q, s) \in Call
      BY <2>2 DEF Authorized, Call
    <3>3. s.memberVersion <= MaxMemberVersion
      BY <1>1, <2>1, NumberAssumption
      DEF ServerInv, VersionsBounded, NoSnapshot, SnapshotOf
    <3>4. q.op \in {"grant", "revoke"} => s.roomVersion \in RoomVersions
      <4>1. SUFFICES ASSUME q.op \in {"grant", "revoke"}
                     PROVE  s.roomVersion \in RoomVersions
        OBVIOUS
      <4>2. Exists(q.room) /\ s.roomVersion = room[q.room].version
        BY <2>3, <4>1 DEF AdmitResult, SnapshotOf
      <4>3. room[q.room].version \in Nat /\ MaxRoomVersion \in Nat
        BY <1>1, <2>1, NumberAssumption DEF ServerInv, ServerTypeOK, TypeOK, Room
      <4>4. QED
        BY <1>1, <2>1, <4>2, <4>3 DEF ServerInv, VersionsBounded, RoomVersions
    <3>5. QED
      BY <1>4, <3>1, <3>2, <3>3, <3>4 DEF Authorized
  <2>4. CASE AdmitResult(q) # "ok"
    <3>1. calls' = [calls EXCEPT ![c] = Answered(q, s, AdmitResult(q), None)]
      BY <1>5, <2>4 DEF Arrive
    <3>2. AdmitResult(q) \in Results
      BY DEF AdmitResult, Authorize, Results
    <3>3. Answered(q, s, AdmitResult(q), None) \in Call
      BY <2>2, <3>2, AnswerType
    <3>4. QED
      BY <1>4, <3>1, <3>3 DEF Answered
  <2>5. QED
    BY <2>3, <2>4
<1>6. ASSUME NEW c \in Calls, NEW result \in Results, NEW id \in MessageIDs \cup {None},
             Answer(c, result, id)
      PROVE  ServerInv'
  <2>1. calls[c] \in Call
    BY <1>1 DEF ServerInv, ServerTypeOK
  <2>2. Answered(calls[c].request, calls[c].snapshot, result, id) \in Call
    BY <2>1, AnswerType DEF Call
  <2>3. calls' = [calls EXCEPT ![c] =
                    Answered(calls[c].request, calls[c].snapshot, result, id)]
    BY <1>6 DEF Answer
  <2>4. QED
    BY <1>4, <2>2, <2>3 DEF Answered
<1>7. ASSUME NEW c \in Calls, Write(c) PROVE ServerInv'
  BY <1>6, <1>7 DEF Write, Results
<1>8. ASSUME NEW c \in Calls, Refuse(c) PROVE ServerInv'
  <2> DEFINE q == calls[c].request
  <2>1. q \in Requests
    BY <1>1, <1>8 DEF ServerInv, SnapshotsBounded, Refuse
  <2>2. StoreResult(c) \in Results
    <3>1. q.op \in {"create", "post", "nickname", "grant", "revoke"}
      BY <2>1, RequestAssumption DEF Request
    <3>2. QED
      BY <3>1
      DEF StoreResult, CreateRoomResult, PostResult, ReplayResult, SetNicknameResult, GrantResult,
          RevokeResult, AllowlistResult, CheckActor, Results
  <2>3. StoreResult(c) = "replay" => idempotency[q.room][q.agent][q.key].id \in MessageIDs \cup {None}
    <3>1. SUFFICES ASSUME StoreResult(c) = "replay"
                   PROVE  idempotency[q.room][q.agent][q.key].id \in MessageIDs \cup {None}
      OBVIOUS
    <3>2. q.op = "post"
      <4>1. q.op \in {"create", "post", "nickname", "grant", "revoke"}
        BY <2>1, RequestAssumption DEF Request
      <4>2. QED
        BY <3>1, <4>1
        DEF StoreResult, CreateRoomResult, SetNicknameResult, GrantResult,
            RevokeResult, AllowlistResult, CheckActor
    <3>3. idempotency[q.room][q.agent][q.key] \in IdempotencyRecord
      BY <1>1, <2>1, <3>2, RequestFields DEF ServerInv, ServerTypeOK, TypeOK
    <3>4. QED
      BY <3>3 DEF IdempotencyRecord
  <2>4. QED
    BY <1>6, <1>8, <2>2, <2>3 DEF Refuse
<1>9. QED
  BY <1>1, <1>3, <1>5, <1>7, <1>8 DEF ServerNext, serverVars

LEMMA ServerInitInv == ServerInit => ServerInv
<1>1. SUFFICES ASSUME ServerInit PROVE ServerInv
  OBVIOUS
<1>2. TypeOK
  BY <1>1, InitTypeOK DEF ServerInit
<1>3. IdleCall \in Call
  BY DEF IdleCall, NoSnapshot, Call, Snapshot
<1>4. calls = [c \in Calls |-> IdleCall]
  BY <1>1 DEF ServerInit
<1>5. VersionsBounded
  BY <1>1, NumberAssumption DEF ServerInit, Init, VersionsBounded, Exists, NoRoom, NotMember
<1>6. SnapshotsBounded
  BY <1>4 DEF SnapshotsBounded, IdleCall
<1>7. QED
  BY <1>2, <1>3, <1>4, <1>5, <1>6 DEF ServerInv, ServerTypeOK

(* Requests, snapshots and answers keep their shape.                       *)
THEOREM ServerTypeCorrect == ServerSpec => []ServerTypeOK
<1>1. ServerInv => ServerTypeOK
  BY DEF ServerInv
<1>2. QED
  BY <1>1, ServerInitInv, ServerInvStep, PTL DEF ServerSpec

(* Concurrent handlers are a client of the store like any other, so every  *)
(* theorem about the store holds of the server.                            *)
THEOREM ServerUsesStore == ServerSpec => Spec
<1>1. ServerInit => Init
  BY DEF ServerInit
<1>2. QED
  BY <1>1, ServerInitInv, ServerInvStep, ServerStepIsStoreStep, PTL DEF ServerSpec, Spec

-----------------------------------------------------------------------------
(* No lost update.  Inductive: the version a successful editor read is     *)
(* already in the past.                                                    *)

EditorsAreBehind ==
  \A r \in RoomIDs, c \in Calls :
    ChangedAllowlist(c, r) => calls[c].snapshot.roomVersion < room[r].version

UpdateInv == EditorsAreBehind /\ NoLostUpdate

(* A handler that changes the allowlist read the version it moves. *)
LEMMA EditorWrites ==
  ASSUME ServerInv, NEW c \in Calls, Write(c),
         calls[c].request.op \in {"grant", "revoke"}
  PROVE  LET r == calls[c].request.room IN
         /\ r \in RoomIDs
         /\ calls[c].snapshot.roomVersion = room[r].version
         /\ room'[r].version = room[r].version + 1
<1> DEFINE q == calls[c].request
           s == calls[c].snapshot
<1>1. q.room \in RoomIDs
  BY RequestFields DEF ServerInv, SnapshotsBounded, Write
<1>2. StoreWrite(c, None)
  BY DEF Write
<1>3. CASE /\ q.op = "grant"
           /\ GrantAllowlist(q.room, q.agent, q.target, q.role, s.memberVersion,
                             s.roomVersion)
  <2>1. room[q.room].version = s.roomVersion
    <3>1. GrantResult(q.room, q.agent, q.target, q.role, s.memberVersion, s.roomVersion) = "ok"
      BY <1>3 DEF GrantAllowlist
    <3>2. AllowlistResult(q.room, q.agent, q.target, s.memberVersion, s.roomVersion) = "ok"
      BY <3>1, GrantChecked
    <3>3. QED
      BY <3>2, ManagerChecked
  <2>2. room'[q.room].version = room[q.room].version + 1
    BY <1>1, <1>3 DEF ServerInv, ServerTypeOK, TypeOK, GrantAllowlist, EditedRoom
  <2>3. QED
    BY <1>1, <2>1, <2>2
<1>4. CASE /\ q.op = "revoke"
           /\ RevokeAllowlist(q.room, q.agent, q.target, s.memberVersion, s.roomVersion)
  <2>1. room[q.room].version = s.roomVersion
    <3>1. RevokeResult(q.room, q.agent, q.target, s.memberVersion, s.roomVersion) = "ok"
      BY <1>4 DEF RevokeAllowlist
    <3>2. AllowlistResult(q.room, q.agent, q.target, s.memberVersion, s.roomVersion) = "ok"
      BY <3>1, RevokeChecked
    <3>3. QED
      BY <3>2, ManagerChecked
  <2>2. room'[q.room].version = room[q.room].version + 1
    <3>1. room' = [room EXCEPT ![q.room] = EditedRoom(q.room, -1)]
      BY <1>4 DEF RevokeAllowlist
    <3>2. room'[q.room] = EditedRoom(q.room, -1)
      BY <1>1, <3>1 DEF ServerInv, ServerTypeOK, TypeOK
    <3>3. QED
      BY <3>2 DEF EditedRoom
  <2>3. QED
    BY <1>1, <2>1, <2>2
<1>5. QED
  BY <1>2, <1>3, <1>4 DEF StoreWrite

LEMMA UpdateInvStep ==
  ServerInv /\ UpdateInv /\ [ServerNext]_serverVars => UpdateInv'
<1>1. SUFFICES ASSUME ServerInv, UpdateInv, [ServerNext]_serverVars PROVE UpdateInv'
  OBVIOUS
<1>2. \A r \in RoomIDs : /\ room[r].version \in Nat
                          /\ room'[r].version \in Nat
                          /\ room[r].version <= room'[r].version
  BY <1>1, ServerStepIsStoreStep, VersionsGrow DEF ServerInv, ServerTypeOK
<1>3. \A d \in Calls : calls[d].snapshot.roomVersion \in Nat
  <2>1. \A d \in Calls : calls[d] \in Call
    BY <1>1 DEF ServerInv, ServerTypeOK
  <2>2. \A d \in Calls : calls[d].snapshot \in Snapshot
    BY <2>1 DEF Call
  <2>3. QED
    BY <2>2 DEF Snapshot
<1>4. ASSUME \A r \in RoomIDs, d \in Calls :
               ChangedAllowlist(d, r)' =>
                 /\ ChangedAllowlist(d, r)
                 /\ calls'[d].snapshot = calls[d].snapshot
      PROVE  UpdateInv'
  <2>1. EditorsAreBehind'
    BY <1>1, <1>2, <1>3, <1>4 DEF UpdateInv, EditorsAreBehind
  <2>2. NoLostUpdate'
    BY <1>1, <1>4 DEF UpdateInv, NoLostUpdate
  <2>3. QED
    BY <2>1, <2>2 DEF UpdateInv
<1>5. CASE UNCHANGED serverVars
  BY <1>4, <1>5 DEF serverVars, ChangedAllowlist, IsAnswered
<1>6. ASSUME NEW c \in Calls, NEW call, calls' = [calls EXCEPT ![c] = call],
             ~(call.phase = "answered" /\ call.result = "ok"
               /\ call.request.op \in {"grant", "revoke"})
      PROVE  UpdateInv'
  <2>1. \A d \in Calls : calls'[d] = IF d = c THEN call ELSE calls[d]
    BY <1>1, <1>6 DEF ServerInv, ServerTypeOK
  <2>2. QED
    BY <1>4, <1>6, <2>1 DEF ChangedAllowlist, IsAnswered
<1>7. ASSUME NEW c \in Calls, NEW q \in Requests, Arrive(c, q)
      PROVE  UpdateInv'
  BY <1>6, <1>7 DEF Arrive, Answered, Authorized
<1>8. ASSUME NEW c \in Calls, Refuse(c)
      PROVE  UpdateInv'
  BY <1>6, <1>8 DEF Refuse, Answer, Answered
<1>9. ASSUME NEW c \in Calls, Write(c)
      PROVE  UpdateInv'
  <2> DEFINE r0 == calls[c].request.room
  <2>1. PICK id : Answer(c, "ok", id)
    BY <1>9 DEF Write
  <2>2. \A d \in Calls : calls'[d] =
          IF d = c THEN Answered(calls[c].request, calls[c].snapshot, "ok", id)
          ELSE calls[d]
    BY <1>1, <2>1 DEF ServerInv, ServerTypeOK, Answer
  <2>3. CASE calls[c].request.op \notin {"grant", "revoke"}
    BY <1>6, <2>1, <2>3 DEF Answer, Answered
  <2>4. CASE calls[c].request.op \in {"grant", "revoke"}
    <3>1. /\ r0 \in RoomIDs
          /\ calls[c].snapshot.roomVersion = room[r0].version
          /\ room'[r0].version = room[r0].version + 1
      BY <1>1, <1>9, <2>4, EditorWrites
    <3>2. \A d \in Calls : calls'[d].snapshot = calls[d].snapshot
      BY <2>2 DEF Answered
    <3>3. \A r \in RoomIDs, d \in Calls :
            ChangedAllowlist(d, r)' => ChangedAllowlist(d, r) \/ (d = c /\ r = r0)
      BY <2>2 DEF ChangedAllowlist, IsAnswered, Answered
    <3>4. EditorsAreBehind'
      <4>1. SUFFICES ASSUME NEW r \in RoomIDs, NEW d \in Calls, ChangedAllowlist(d, r)'
                     PROVE  calls'[d].snapshot.roomVersion < room'[r].version
        BY DEF EditorsAreBehind
      <4>2. CASE ChangedAllowlist(d, r)
        BY <1>1, <1>2, <1>3, <3>2, <4>2 DEF UpdateInv, EditorsAreBehind
      <4>3. CASE d = c /\ r = r0
        BY <1>2, <3>1, <3>2, <4>3
      <4>4. QED
        BY <3>3, <4>1, <4>2, <4>3
    <3>5. NoLostUpdate'
      <4>1. SUFFICES ASSUME NEW r \in RoomIDs, NEW d \in Calls, NEW e \in Calls,
                            ChangedAllowlist(d, r)', ChangedAllowlist(e, r)',
                            calls'[d].snapshot.roomVersion = calls'[e].snapshot.roomVersion
                     PROVE  d = e
        BY DEF NoLostUpdate
      <4>2. calls[d].snapshot.roomVersion = calls[e].snapshot.roomVersion
        BY <3>2, <4>1
      <4>3. CASE ChangedAllowlist(d, r) /\ ChangedAllowlist(e, r)
        BY <1>1, <4>2, <4>3 DEF UpdateInv, NoLostUpdate
      <4>4. \A f \in Calls : ChangedAllowlist(f, r) =>
              calls[f].snapshot.roomVersion < room[r].version
        BY <1>1 DEF UpdateInv, EditorsAreBehind
      <4>5. QED
        BY <1>2, <1>3, <3>1, <3>3, <4>1, <4>2, <4>3, <4>4
    <3>6. QED
      BY <3>4, <3>5 DEF UpdateInv
  <2>5. QED
    BY <2>3, <2>4
<1>10. QED
  BY <1>1, <1>5, <1>7, <1>8, <1>9 DEF ServerNext

LEMMA ServerInitUpdateInv == ServerInit => UpdateInv
BY DEF ServerInit, IdleCall, UpdateInv, EditorsAreBehind, NoLostUpdate, ChangedAllowlist,
       IsAnswered

(* Of all the handlers that read the same version of a room, however many  *)
(* there are, at most one changes the allowlist.                           *)
THEOREM NoUpdateIsLost == ServerSpec => []NoLostUpdate
<1>1. UpdateInv => NoLostUpdate
  BY DEF UpdateInv
<1>2. QED
  BY <1>1, ServerInitUpdateInv, ServerInitInv, ServerInvStep, UpdateInvStep, PTL DEF ServerSpec

-----------------------------------------------------------------------------
(* The two authorizers.  The role matrix and the policies list the same    *)
(* permissions for every role but the owner's; that the owner holds the    *)
(* role of owners, and nobody else does, is SoleOwner.                     *)

LEMMA SamePermissions ==
  ASSUME NEW action \in RoomActions, NEW role \in Roles \ {"owner"}
  PROVE  /\ role \in DOMAIN CedarPermits
         /\ RoleCan(role, action) <=> action \in CedarPermits[role]
<1>1. action \in {"ConnectRoom", "ReadMessages", "PostMessage", "UpdateNickname",
                  "ViewAllowList", "UpdateAllowList"}
  BY DEF RoomActions, PermittedRoles
<1>2. role \in {"admin", "poster", "reader", "connector"}
  BY DEF Roles
<1>3. DOMAIN CedarPermits = {"admin", "poster", "reader", "connector"}
  BY DEF CedarPermits
<1>4. CASE role = "admin"
  BY <1>1, <1>4 DEF RoleCan, PermittedRoles, CedarPermits, RoomActions, Roles
<1>5. CASE role = "poster"
  BY <1>1, <1>5 DEF RoleCan, PermittedRoles, CedarPermits, Roles
<1>6. CASE role = "reader"
  BY <1>1, <1>6 DEF RoleCan, PermittedRoles, CedarPermits, Roles
<1>7. CASE role = "connector"
  BY <1>1, <1>7 DEF RoleCan, PermittedRoles, CedarPermits, Roles
<1>8. QED
  BY <1>2, <1>3, <1>4, <1>5, <1>6, <1>7

LEMMA OwnersMakeAuthorizersAgree == TypeOK /\ SoleOwner => AuthorizersAgree
<1>1. SUFFICES ASSUME TypeOK, SoleOwner, NEW r \in RoomIDs, NEW a \in Agents,
                      NEW action \in RoomActions, NEW t \in Agents \cup {None},
                      NEW role \in Roles \cup {None}, Exists(r)
               PROVE  LocalAllows(a, action, room[r], members[r][a], t, role)
                        <=> CedarAllows(a, action, room[r], members[r][a], t, role)
  BY DEF AuthorizersAgree
<1> DEFINE held == members[r][a].role
<1>2. held \in Roles \cup {None}
  BY <1>1 DEF TypeOK, Membership
<1>3. held = "owner" <=> room[r].owner = a
  BY <1>1 DEF SoleOwner
<1>4. None \notin DOMAIN CedarPermits /\ "owner" \notin DOMAIN CedarPermits
  BY NoneAssumption DEF CedarPermits, Roles
<1>5. CASE room[r].owner = a
  BY <1>5 DEF LocalAllows, CedarAllows, CedarForbids
<1>6. CASE room[r].owner # a /\ held = None
  BY <1>4, <1>6 DEF LocalAllows, CedarAllows, CedarForbids
<1>7. CASE room[r].owner # a /\ held \in Roles \ {"owner"}
  <2>1. held \in DOMAIN CedarPermits
    BY <1>7, SamePermissions
  <2>2. RoleCan(held, action) <=> action \in CedarPermits[held]
    BY <1>7, SamePermissions
  <2>3. held # None
    BY <1>4, <2>1
  <2>4. QED
    BY <1>7, <2>1, <2>2, <2>3 DEF LocalAllows, CedarAllows, CedarForbids
<1>8. QED
  BY <1>2, <1>3, <1>5, <1>6, <1>7

(* Whatever happens to a room, LocalAuthorizer and the Cedar policies let   *)
(* the same agents do the same things to it.                               *)
THEOREM AuthorizersAlike == Spec => []AuthorizersAgree
  BY TypeCorrect, OwnerForGood, OwnersMakeAuthorizersAgree, PTL

-----------------------------------------------------------------------------
(* The answers of the server. *)

LEMMA ServerStoreInv == ServerSpec => []StoreInv
BY ServerUsesStore, StoreInvariant, PTL

LEMMA ServerInvariant == ServerSpec => []ServerInv
BY ServerInitInv, ServerInvStep, PTL DEF ServerSpec

-----------------------------------------------------------------------------
(* Outsiders. *)

Named(r, a) == \E i \in DOMAIN audits[r] : audits[r][i].target = a

LEMMA MembersNamed ==
  ASSUME StoreInv, NEW r \in RoomIDs, NEW a \in Agents, IsMember(r, a)
  PROVE  Named(r, a)
<1>1. ExplainedBy(audits[r], members[r][a].role, a)
  BY DEF StoreInv, AuditInv
<1>2. QED
  BY <1>1 DEF ExplainedBy, IsMember, LastAbout, Named

LEMMA NamedForGood ==
  ASSUME StoreInv, [Next]_vars, NEW s \in RoomIDs, NEW b \in Agents, Named(s, b)
  PROVE  Named(s, b)'
BY AuditsGrow DEF StoreInv, Named

(* Of a call about a room: it was turned away, or its agent is named.      *)
Hidden(c) ==
  \/ calls[c].result \in {"denied", "not_found"}
  \/ /\ calls[c].result = "validation" /\ calls[c].request.op = "grant"
     /\ calls[c].request.role \notin MutableRoles

OutsiderInv ==
  \A c \in Calls : calls[c].phase # "idle" =>
    \E q \in Requests :
      /\ calls[c].request = q
      /\ q.op # "create" => Named(q.room, q.agent) \/ (IsAnswered(c) /\ Hidden(c))

(* Whoever was admitted is a member, and its membership has a version.     *)
LEMMA AdmittedAreMembers ==
  ASSUME StoreInv, NEW q \in Requests, q.op # "create", AdmitResult(q) = "ok"
  PROVE  Exists(q.room) /\ IsMember(q.room, q.agent)
<1>1. q.room \in RoomIDs /\ q.agent \in Agents
  BY RequestFields
<1>2. /\ Exists(q.room)
      /\ LocalAllows(q.agent, ActionOf[q.op], room[q.room], members[q.room][q.agent],
                     q.target, q.role)
  BY DEF AdmitResult, Authorize
<1>3. CASE room[q.room].owner = q.agent
  BY <1>1, <1>2, <1>3, NoneAssumption DEF StoreInv, SoleOwner, IsMember, Roles
<1>4. CASE members[q.room][q.agent].role # None
  BY <1>2, <1>4 DEF IsMember
<1>5. QED
  BY <1>2, <1>3, <1>4 DEF LocalAllows

LEMMA AdmittedAreNamed ==
  ASSUME StoreInv, NEW q \in Requests, q.op # "create", AdmitResult(q) = "ok"
  PROVE  Named(q.room, q.agent)
BY RequestFields, AdmittedAreMembers, MembersNamed

LEMMA NextOutsiderInv ==
  ServerInv /\ StoreInv /\ OutsiderInv /\ [ServerNext]_serverVars => OutsiderInv'
<1>1. SUFFICES ASSUME ServerInv, StoreInv, OutsiderInv, [ServerNext]_serverVars,
                      NEW d \in Calls, calls'[d].phase # "idle"
               PROVE  \E q \in Requests :
                        /\ calls'[d].request = q
                        /\ q.op # "create" =>
                             Named(q.room, q.agent)' \/ (IsAnswered(d)' /\ Hidden(d)')
  BY DEF OutsiderInv
<1> DEFINE Goal == \E q \in Requests :
                     /\ calls'[d].request = q
                     /\ q.op # "create" =>
                          Named(q.room, q.agent)' \/ (IsAnswered(d)' /\ Hidden(d)')
<1>2. ASSUME NEW q \in Requests, Named(q.room, q.agent) PROVE Named(q.room, q.agent)'
  BY <1>1, <1>2, RequestFields, ServerStepIsStoreStep, NamedForGood
<1>3. \A c \in Calls : calls[c] \in Call /\ calls \in [Calls -> Call]
  BY <1>1 DEF ServerInv, ServerTypeOK
<1>4. CASE calls'[d] = calls[d]
  <2>1. PICK q \in Requests :
          /\ calls[d].request = q
          /\ q.op # "create" => Named(q.room, q.agent) \/ (IsAnswered(d) /\ Hidden(d))
    BY <1>1, <1>4 DEF OutsiderInv
  <2>2. IsAnswered(d) /\ Hidden(d) => IsAnswered(d)' /\ Hidden(d)'
    BY <1>4 DEF IsAnswered, Hidden
  <2>3. QED
    BY <1>2, <1>4, <2>1, <2>2
<1>5. ASSUME NEW q \in Requests, Arrive(d, q) PROVE Goal
  <2> DEFINE s == IF q.op = "create" THEN NoSnapshot ELSE SnapshotOf(q.room, q.agent)
  <2>1. calls'[d] = IF AdmitResult(q) = "ok" THEN Authorized(q, s)
                    ELSE Answered(q, s, AdmitResult(q), None)
    BY <1>3, <1>5 DEF Arrive
  <2>2. calls'[d].request = q
    BY <2>1 DEF Authorized, Answered
  <2>3. CASE AdmitResult(q) = "ok"
    BY <1>1, <1>2, <2>2, <2>3, AdmittedAreNamed
  <2>4. CASE AdmitResult(q) # "ok"
    <3>1. calls'[d].phase = "answered" /\ calls'[d].result = AdmitResult(q)
      BY <2>1, <2>4 DEF Answered
    <3>2. \/ AdmitResult(q) \in {"denied", "not_found"}
          \/ AdmitResult(q) = "validation" /\ q.op = "grant" /\ q.role \notin MutableRoles
      BY <2>4 DEF AdmitResult, Authorize
    <3>3. IsAnswered(d)' /\ Hidden(d)'
      BY <2>2, <3>1, <3>2 DEF IsAnswered, Hidden
    <3>4. QED
      BY <2>2, <3>3
  <2>5. QED
    BY <2>3, <2>4
<1>6. ASSUME calls[d].phase = "authorized", calls'[d].request = calls[d].request PROVE Goal
  <2>1. PICK q \in Requests :
          /\ calls[d].request = q
          /\ q.op # "create" => Named(q.room, q.agent)
    BY <1>1, <1>6 DEF OutsiderInv, IsAnswered
  <2>2. QED
    BY <1>2, <1>6, <2>1
<1>7. ASSUME NEW c \in Calls, Write(c) \/ Refuse(c)
      PROVE  /\ calls[c].phase = "authorized" /\ calls'[c].request = calls[c].request
             /\ d # c => calls'[d] = calls[d]
  <2>1. calls[c].phase = "authorized" /\ \E result, id : Answer(c, result, id)
    BY <1>7 DEF Write, Refuse
  <2>2. QED
    BY <1>3, <2>1 DEF Answer, Answered
<1>8. ASSUME NEW c \in Calls, NEW q \in Requests, Arrive(c, q), d # c
      PROVE  calls'[d] = calls[d]
  BY <1>3, <1>8 DEF Arrive
<1>9. CASE UNCHANGED serverVars
  BY <1>4, <1>9 DEF serverVars
<1> HIDE DEF Goal
<1>10. CASE ServerNext
  BY <1>4, <1>5, <1>6, <1>7, <1>8, <1>10 DEF ServerNext, Goal
<1>11. QED
  BY <1>1, <1>9, <1>10 DEF Goal

(* An edit of a room and a post to it are answered 404 to whoever the      *)
(* audit log of the room never names, as if there were no room.            *)
THEOREM StrangersSee404 == ServerSpec => []OutsidersSee404
<1>1. ServerInit => OutsiderInv
  BY DEF ServerInit, OutsiderInv, IdleCall
<1>2. OutsiderInv => OutsidersSee404
  <2>1. SUFFICES ASSUME OutsiderInv, NEW c \in Calls, IsAnswered(c),
                        calls[c].request.op # "create",
                        ~Named(calls[c].request.room, calls[c].request.agent)
                 PROVE  \/ Status(c) = 404
                        \/ /\ Status(c) = 400 /\ calls[c].request.op = "grant"
                           /\ calls[c].request.role \notin MutableRoles
    BY DEF OutsidersSee404, Named
  <2>2. Hidden(c)
    BY <2>1 DEF OutsiderInv, IsAnswered
  <2>3. QED
    BY <2>2 DEF Hidden, Status
<1>3. QED
  BY <1>1, <1>2, NextOutsiderInv, ServerInvariant, ServerStoreInv, PTL DEF ServerSpec

-----------------------------------------------------------------------------
(* Retries. *)

KeyRecord(q) == idempotency[q.room][q.agent][q.key]

StandsFor(q, id) == KeyRecord(q) # NotUsed /\ KeyRecord(q).id = id /\ KeyRecord(q).body = q.body

KeysKept ==
  \A c \in Calls : GotMessage(c) =>
    \E q \in Requests :
      calls[c].request = q /\ q.op = "post" /\ StandsFor(q, calls[c].message)

(* Of two calls with one key at most one is answered 201.                  *)
CreatedOnce ==
  \A c, d \in Calls : \A q, p \in Requests :
    /\ GotMessage(c) /\ GotMessage(d) /\ calls[c].request = q /\ calls[d].request = p
    /\ <<q.room, q.agent, q.key>> = <<p.room, p.agent, p.key>>
    /\ Status(c) = 201 /\ Status(d) = 201
    => c = d

RetryInv == KeysKept /\ CreatedOnce

(* What a key was used for stays.                                          *)
KeysStay ==
  \A r \in RoomIDs, a \in Agents, k \in IdempotencyKeys :
    idempotency[r][a][k] # NotUsed => idempotency'[r][a][k] = idempotency[r][a][k]

LEMMA StoreKeepsKeys == ASSUME StoreInv, [Next]_vars PROVE KeysStay
BY NextKeepsMessages DEF StoreInv, KeysStay

LEMMA OthersKeepKeys ==
  ASSUME RetryInv, KeysStay, NEW d \in Calls, NEW c \in Calls, c # d,
         calls'[c] = calls[c], GotMessage(c)'
  PROVE  \E q \in Requests :
           calls'[c].request = q /\ q.op = "post" /\ StandsFor(q, calls[c].message)'
<1>1. GotMessage(c)
  BY DEF GotMessage, IsAnswered, Status
<1>2. PICK q \in Requests :
        calls[c].request = q /\ q.op = "post" /\ StandsFor(q, calls[c].message)
  BY <1>1 DEF RetryInv, KeysKept
<1>3. PICK id : id = calls[c].message
  OBVIOUS
<1>4. StandsFor(q, id)'
  BY <1>2, <1>3, RequestFields DEF KeysStay, StandsFor, KeyRecord
<1>5. StandsFor(q, calls[c].message)'
  BY <1>3, <1>4 DEF StandsFor
<1>6. QED
  BY <1>2, <1>5

(* Without a post that wrote, no answer is a new 201 and no key is lost.   *)
LEMMA QuietStep ==
  ASSUME RetryInv, KeysStay, NEW d \in Calls,
         \A c \in Calls : c # d => calls'[c] = calls[c],
         GotMessage(d)' =>
           /\ Status(d)' # 201
           /\ \E q \in Requests :
                /\ calls'[d].request = q /\ q.op = "post"
                /\ StandsFor(q, calls[d].message)'
  PROVE  RetryInv'
<1>1. KeysKept'
  BY OthersKeepKeys DEF KeysKept
<1>2. CreatedOnce'
  <2>1. \A c \in Calls : c # d => /\ GotMessage(c)' <=> GotMessage(c)
                                /\ Status(c)' = Status(c)
                                /\ calls'[c] = calls[c]
    BY DEF GotMessage, IsAnswered, Status
  <2>2. QED
    BY <2>1 DEF RetryInv, CreatedOnce
<1>3. QED
  BY <1>1, <1>2 DEF RetryInv

(* A post that wrote found its key unused.                                 *)
LEMMA PostStep ==
  ASSUME RetryInv, KeysStay, NEW d \in Calls, NEW q \in Requests, NEW id,
         \A c \in Calls : c # d => calls'[c] = calls[c],
         calls'[d].request = q, q.op = "post", calls'[d].message = id,
         KeyRecord(q) = NotUsed, KeyRecord(q)' = [body |-> q.body, id |-> id]
  PROVE  RetryInv'
<1>1. StandsFor(q, id)'
  <2>1. [body |-> q.body, id |-> id] # NotUsed
    BY RequestFields, NoneAssumption DEF NotUsed
  <2>2. QED
    BY <2>1 DEF StandsFor
<1>2. StandsFor(q, calls[d].message)'
  BY <1>1 DEF StandsFor
<1>3. KeysKept'
  BY <1>2, OthersKeepKeys DEF KeysKept
<1>4. ASSUME NEW c \in Calls, NEW p \in Requests, c # d, GotMessage(c)',
             calls'[c].request = p
       PROVE  <<p.room, p.agent, p.key>> # <<q.room, q.agent, q.key>>
  <2>1. GotMessage(c) /\ calls[c].request = p
    BY <1>4 DEF GotMessage, IsAnswered, Status
  <2>2. KeyRecord(p) # NotUsed
    BY <2>1 DEF RetryInv, KeysKept, StandsFor
  <2>3. QED
    BY <2>2 DEF KeyRecord
<1>5. CreatedOnce'
  <2>1. SUFFICES ASSUME NEW c \in Calls, NEW e \in Calls, NEW p \in Requests, NEW o \in Requests,
                        GotMessage(c)', GotMessage(e)', Status(c)' = 201, Status(e)' = 201,
                        calls'[c].request = p, calls'[e].request = o,
                        <<p.room, p.agent, p.key>> = <<o.room, o.agent, o.key>>,
                        c # e
                 PROVE  FALSE
    BY DEF CreatedOnce
  <2>2. CASE c = d
    BY <1>4, <2>1, <2>2
  <2>3. CASE e = d
    BY <1>4, <2>1, <2>3
  <2>4. CASE c # d /\ e # d
    <3>1. /\ GotMessage(c) /\ GotMessage(e) /\ Status(c) = 201 /\ Status(e) = 201
          /\ calls[c].request = p /\ calls[e].request = o
      BY <2>1, <2>4 DEF GotMessage, IsAnswered, Status
    <3>2. QED
      BY <2>1, <3>1 DEF RetryInv, CreatedOnce
  <2>5. QED
    BY <2>2, <2>3, <2>4
<1>6. QED
  BY <1>3, <1>5 DEF RetryInv

LEMMA WritePost ==
  ASSUME ServerInv, StoreInv, RetryInv, KeysStay, NEW d \in Calls, Write(d),
         calls[d].request.op = "post"
  PROVE  RetryInv'
<1>1. calls \in [Calls -> Call]
  BY DEF ServerInv, ServerTypeOK
<1>2. PICK q \in Requests : q = calls[d].request
  BY DEF ServerInv, SnapshotsBounded, Write
<1>3. /\ q.room \in RoomIDs /\ q.agent \in Agents
      /\ q.key \in IdempotencyKeys /\ q.body \in Bodies
  BY <1>2, RequestFields
<1>4. PICK id \in MessageIDs : StoreWrite(d, id) /\ Answer(d, "ok", id)
  BY DEF Write
<1>5. PostMessage(q.room, q.agent, q.key, q.body, calls[d].snapshot.nickname,
                  calls[d].snapshot.memberVersion, id)
  BY <1>2, <1>4 DEF StoreWrite
<1>6. /\ \A c \in Calls : c # d => calls'[c] = calls[c]
      /\ calls'[d].request = q /\ calls'[d].message = id
  BY <1>1, <1>2, <1>4 DEF Answer, Answered
<1>7. KeyRecord(q) = NotUsed
  <2>1. PostResult(q.room, q.agent, q.key, q.body, calls[d].snapshot.memberVersion) = "ok"
    BY <1>5 DEF PostMessage
  <2>2. idempotency[q.room][q.agent][q.key] = NotUsed
    BY <2>1, PostChecked
  <2>3. QED
    BY <2>2 DEF KeyRecord
<1>8. KeyRecord(q)' = [body |-> q.body, id |-> id]
  <2>1. idempotency' = [idempotency EXCEPT ![q.room][q.agent][q.key] = [body |-> q.body, id |-> id]]
    BY <1>5 DEF PostMessage
  <2>2. idempotency \in [RoomIDs -> [Agents -> [IdempotencyKeys -> IdempotencyRecord]]]
    BY DEF StoreInv, TypeOK
  <2>3. QED
    BY <1>3, <2>1, <2>2 DEF KeyRecord
<1>9. QED
  BY <1>2, <1>6, <1>7, <1>8, PostStep

LEMMA RefusedPost ==
  ASSUME ServerInv, StoreInv, NEW d \in Calls, Refuse(d), GotMessage(d)'
  PROVE  /\ Status(d)' # 201
         /\ \E q \in Requests :
              /\ calls'[d].request = q /\ q.op = "post"
              /\ StandsFor(q, calls[d].message)'
<1> DEFINE q == calls[d].request
<1>1. q \in Requests /\ calls \in [Calls -> Call]
  BY DEF ServerInv, ServerTypeOK, SnapshotsBounded, Refuse
<1>2. /\ calls'[d].request = q /\ calls'[d].result = StoreResult(d)
      /\ calls'[d].message = IF StoreResult(d) = "replay" THEN KeyRecord(q).id ELSE None
  BY <1>1 DEF Refuse, Answer, Answered, KeyRecord
<1>3. StoreResult(d) # "ok" /\ idempotency' = idempotency
  BY DEF Refuse, vars
<1>4. q.op = "post" /\ calls'[d].result \notin {"conflict", "denied", "not_found"}
  BY <1>2 DEF GotMessage, Status
<1>5. StoreResult(d) = PostResult(q.room, q.agent, q.key, q.body, calls[d].snapshot.memberVersion)
  BY <1>4 DEF StoreResult
<1>6. ReplayResult(q.room, KeyRecord(q), q.body) = "replay" /\ StoreResult(d) = "replay"
  BY <1>2, <1>3, <1>4, <1>5 DEF PostResult, CheckActor, ReplayResult, KeyRecord
<1>7. KeyRecord(q) # NotUsed /\ KeyRecord(q).body = q.body
  BY <1>6 DEF ReplayResult
<1>8. Status(d)' # 201
  BY <1>2, <1>4, <1>6 DEF Status
<1>9. PICK p \in Requests : p = q
  BY <1>1
<1>10. KeyRecord(p)' = KeyRecord(p)
  BY <1>3 DEF KeyRecord
<1>11. StandsFor(p, calls[d].message)'
  BY <1>2, <1>6, <1>7, <1>9, <1>10 DEF StandsFor
<1>12. QED
  BY <1>2, <1>4, <1>8, <1>9, <1>11

LEMMA NextRetryInv ==
  ServerInv /\ StoreInv /\ RetryInv /\ [ServerNext]_serverVars => RetryInv'
<1>1. SUFFICES ASSUME ServerInv, StoreInv, RetryInv, [ServerNext]_serverVars PROVE RetryInv'
  OBVIOUS
<1>2. KeysStay
  BY <1>1, ServerStepIsStoreStep, StoreKeepsKeys
<1>3. calls \in [Calls -> Call]
  BY <1>1 DEF ServerInv, ServerTypeOK
<1>4. CASE UNCHANGED serverVars
  BY <1>1, <1>4, SMTT(30) DEF serverVars, vars, RetryInv, KeysKept, CreatedOnce, GotMessage, IsAnswered,
                    Status, StandsFor, KeyRecord
<1>5. ASSUME NEW d \in Calls, NEW q \in Requests, Arrive(d, q) PROVE RetryInv'
  <2>1. \A c \in Calls : c # d => calls'[c] = calls[c]
    BY <1>3, <1>5 DEF Arrive
  <2>2. \/ calls'[d].phase = "authorized"
        \/ calls'[d].result = AdmitResult(q) /\ AdmitResult(q) # "ok"
    BY <1>3, <1>5 DEF Arrive, Authorized, Answered
  <2>3. AdmitResult(q) # "ok" => AdmitResult(q) \in {"validation", "not_found", "denied"}
    BY DEF AdmitResult, Authorize
  <2>4. ~GotMessage(d)'
    BY <2>2, <2>3 DEF GotMessage, IsAnswered, Status
  <2>5. QED
    BY <1>1, <1>2, <2>1, <2>4, QuietStep
<1>6. ASSUME NEW d \in Calls, Write(d) PROVE RetryInv'
  <2>1. CASE calls[d].request.op = "post"
    BY <1>1, <1>2, <1>6, <2>1, WritePost
  <2>2. CASE calls[d].request.op # "post"
    <3>1. Answer(d, "ok", None)
      BY <1>6, <2>2 DEF Write
    <3>2. /\ \A c \in Calls : c # d => calls'[c] = calls[c]
          /\ calls'[d].request = calls[d].request
      BY <1>3, <3>1 DEF Answer, Answered
    <3>3. ~GotMessage(d)'
      BY <2>2, <3>2 DEF GotMessage
    <3>4. QED
      BY <1>1, <1>2, <3>2, <3>3, QuietStep
  <2>3. QED
    BY <2>1, <2>2
<1>7. ASSUME NEW d \in Calls, Refuse(d) PROVE RetryInv'
  <2>1. \A c \in Calls : c # d => calls'[c] = calls[c]
    BY <1>3, <1>7 DEF Refuse, Answer
  <2>2. QED
    BY <1>1, <1>2, <1>7, <2>1, RefusedPost, QuietStep
<1>8. QED
  BY <1>1, <1>4, <1>5, <1>6, <1>7 DEF ServerNext

LEMMA RetriesAgreeOnKeys == RetryInv /\ StoreInv => RetriesAgree
<1>1. SUFFICES ASSUME RetryInv, StoreInv, NEW c \in Calls, NEW d \in Calls,
                      GotMessage(c), GotMessage(d)
               PROVE
        LET q == calls[c].request
            p == calls[d].request IN
        /\ \E m \in messages[q.room] :
             /\ m.id = calls[c].message
             /\ <<m.author, m.key, m.body>> = <<q.agent, q.key, q.body>>
        /\ <<q.room, q.agent, q.key>> = <<p.room, p.agent, p.key>> =>
             /\ calls[c].message = calls[d].message
             /\ q.body = p.body
             /\ Status(c) = 201 /\ Status(d) = 201 => c = d
  BY DEF RetriesAgree
<1>2. PICK q \in Requests :
        calls[c].request = q /\ q.op = "post" /\ StandsFor(q, calls[c].message)
  BY <1>1 DEF RetryInv, KeysKept
<1>3. PICK p \in Requests :
        calls[d].request = p /\ p.op = "post" /\ StandsFor(p, calls[d].message)
  BY <1>1 DEF RetryInv, KeysKept
<1>4. PICK m \in {n \in messages[q.room] : n.author = q.agent /\ n.key = q.key} :
        m.id = KeyRecord(q).id /\ m.body = KeyRecord(q).body
  BY <1>1, <1>2, RequestFields DEF StoreInv, IdempotencyExact, StandsFor, KeyRecord
<1>5. /\ m.id = calls[c].message
      /\ <<m.author, m.key, m.body>> = <<q.agent, q.key, q.body>>
  BY <1>2, <1>4 DEF StandsFor
<1>6. ASSUME <<q.room, q.agent, q.key>> = <<p.room, p.agent, p.key>>
      PROVE  /\ calls[c].message = calls[d].message
             /\ q.body = p.body
             /\ Status(c) = 201 /\ Status(d) = 201 => c = d
  <2>1. KeyRecord(q) = KeyRecord(p)
    BY <1>6 DEF KeyRecord
  <2>2. QED
    BY <1>1, <1>2, <1>3, <1>6, <2>1 DEF StandsFor, RetryInv, CreatedOnce
<1>7. QED
  BY <1>2, <1>3, <1>4, <1>5, <1>6

(* Every caller that posted under one key was given the same message, and  *)
(* one of them at most was told that it is new.                            *)
THEOREM RetriesSeeOneMessage == ServerSpec => []RetriesAgree
<1>1. ServerInit => RetryInv
  BY DEF ServerInit, IdleCall, RetryInv, KeysKept, CreatedOnce, GotMessage, IsAnswered
<1>2. QED
  BY <1>1, RetriesAgreeOnKeys, NextRetryInv, ServerInvariant, ServerStoreInv, PTL DEF ServerSpec

-----------------------------------------------------------------------------
(* Stale snapshots.  As long as an agent is not removed, the version of its *)
(* membership only grows, and grows with every change: who finds the       *)
(* version it read finds the membership it read.                           *)

MembershipSince(r, a, version, seen) ==
  \/ RevokedSince(r, a, version)
  \/ members[r][a].version > seen.version
  \/ members[r][a] = seen

LogGrows(r) ==
  /\ Len(audits[r]) \in Nat /\ Len(audits[r]) <= Len(audits'[r])
  /\ \A i \in DOMAIN audits[r] : i \in DOMAIN audits'[r] /\ audits'[r][i] = audits[r][i]

LEMMA RevokedForGood ==
  ASSUME NEW r, NEW a, NEW version, LogGrows(r), RevokedSince(r, a, version)
  PROVE  RevokedSince(r, a, version)'
BY DEF LogGrows, RevokedSince

LEMMA MembershipSinceStep ==
  ASSUME TypeOK, TypeOK', NEW r \in RoomIDs, NEW a \in Agents,
         NEW version \in Nat, version <= Len(audits[r]),
         NEW seen \in Membership,
         LogGrows(r), MembershipStep(r, a), MembershipSince(r, a, version, seen)
  PROVE  MembershipSince(r, a, version, seen)'
<1>1. members[r][a].version \in Nat /\ seen.version \in Nat
  BY DEF TypeOK, Membership
<1>2. CASE RevokedSince(r, a, version)
  BY <1>2, RevokedForGood DEF MembershipSince
<1>3. CASE members'[r][a] = members[r][a] /\ ~RevokedSince(r, a, version)
  BY <1>3 DEF MembershipSince
<1>4. CASE members'[r][a].version = members[r][a].version + 1 /\ ~RevokedSince(r, a, version)
  BY <1>1, <1>4 DEF MembershipSince
<1>5. CASE /\ Len(audits'[r]) = Len(audits[r]) + 1
           /\ audits'[r][Len(audits'[r])].event = "allowlist_revoked"
           /\ audits'[r][Len(audits'[r])].target = a
  <2>1. Len(audits'[r]) \in DOMAIN audits'[r] /\ Len(audits'[r]) > version
    <3>1. audits'[r] \in Seq(AuditRecord) /\ Len(audits[r]) \in Nat
      BY DEF TypeOK, LogGrows
    <3>2. QED
      BY <1>5, <3>1
  <2>2. QED
    BY <1>5, <2>1 DEF RevokedSince, MembershipSince
<1>6. QED
  BY <1>2, <1>3, <1>4, <1>5 DEF MembershipStep

LEMMA LogsGrow == ASSUME StoreInv, [Next]_vars, NEW r \in RoomIDs PROVE LogGrows(r)
BY AuditsGrow DEF StoreInv, LogGrows

(* What a handler that read snapshot s for request q may rely on.          *)
SnapshotKept(q, s) ==
  /\ s.memberVersion >= 1
  /\ s.roomVersion <= Len(audits[q.room])
  /\ \E seen \in Membership :
       /\ seen.version = s.memberVersion /\ seen.nickname = s.nickname
       /\ MembershipSince(q.room, q.agent, s.roomVersion, seen)

LEMMA SnapshotKeptStep ==
  ASSUME TypeOK, TypeOK', NEW q \in Requests, NEW s \in Snapshot, LogGrows(q.room),
         MembershipStep(q.room, q.agent), SnapshotKept(q, s)
  PROVE  SnapshotKept(q, s)'
<1>1. q.room \in RoomIDs /\ q.agent \in Agents /\ s.roomVersion \in Nat
  BY RequestFields DEF Snapshot
<1>2. PICK seen \in Membership :
        /\ seen.version = s.memberVersion /\ seen.nickname = s.nickname
        /\ MembershipSince(q.room, q.agent, s.roomVersion, seen)
  BY DEF SnapshotKept
<1>3. MembershipSince(q.room, q.agent, s.roomVersion, seen)'
  BY <1>1, <1>2, MembershipSinceStep DEF SnapshotKept
<1>4. s.roomVersion <= Len(audits'[q.room])
  <2>1. Len(audits[q.room]) \in Nat /\ Len(audits'[q.room]) \in Nat
    BY <1>1 DEF TypeOK
  <2>2. QED
    BY <1>1, <2>1 DEF SnapshotKept, LogGrows
<1>5. QED
  BY <1>2, <1>3, <1>4 DEF SnapshotKept

SnapshotsKept ==
  \A c \in Calls :
    calls[c].phase = "authorized" /\ calls[c].request.op # "create" =>
      SnapshotKept(calls[c].request, calls[c].snapshot)

LEMMA FreshSnapshot ==
  ASSUME StoreInv, NEW q \in Requests, IsMember(q.room, q.agent)
  PROVE  SnapshotKept(q, SnapshotOf(q.room, q.agent))
<1>1. q.room \in RoomIDs /\ q.agent \in Agents
  BY RequestFields
<1>2. members[q.room][q.agent] \in Membership /\ members[q.room][q.agent].version >= 1
  BY <1>1 DEF StoreInv, TypeOK, MembersNumbered
<1>3. room[q.room].version <= Len(audits[q.room])
  BY <1>1 DEF StoreInv, AuditInv, TypeOK, Room
<1>4. QED
  BY <1>2, <1>3 DEF SnapshotKept, SnapshotOf, MembershipSince

LEMMA NextSnapshotsKept ==
  ServerInv /\ StoreInv /\ SnapshotsKept /\ [ServerNext]_serverVars => SnapshotsKept'
<1>1. SUFFICES ASSUME ServerInv, StoreInv, SnapshotsKept, [ServerNext]_serverVars,
                      NEW d \in Calls, calls'[d].phase = "authorized",
                      calls'[d].request.op # "create"
               PROVE  SnapshotKept(calls[d].request, calls[d].snapshot)'
  BY DEF SnapshotsKept
<1>2. [Next]_vars /\ TypeOK /\ TypeOK'
  BY <1>1, ServerStepIsStoreStep, NextTypeOK DEF StoreInv
<1>3. ASSUME NEW q \in Requests, NEW s \in Snapshot, SnapshotKept(q, s)
      PROVE  SnapshotKept(q, s)'
  <2>1. LogGrows(q.room) /\ MembershipStep(q.room, q.agent)
    BY <1>1, <1>2, RequestFields, LogsGrow, MembershipSteps DEF StoreInv
  <2>2. QED
    BY <1>2, <1>3, <2>1, SnapshotKeptStep
<1>4. calls \in [Calls -> Call]
  BY <1>1 DEF ServerInv, ServerTypeOK
<1>5. CASE calls'[d] = calls[d]
  <2>1. PICK q \in Requests, s \in Snapshot : calls[d].request = q /\ calls[d].snapshot = s
    <3>1. calls[d].request \in Requests
      BY <1>1, <1>5 DEF ServerInv, SnapshotsBounded
    <3>2. calls[d].snapshot \in Snapshot
      BY <1>4 DEF Call
    <3>3. QED
      BY <3>1, <3>2
  <2>2. SnapshotKept(q, s)
    BY <1>1, <1>5, <2>1 DEF SnapshotsKept
  <2>3. SnapshotKept(q, s)'
    BY <1>3, <2>2
  <2>4. calls'[d].request = q /\ calls'[d].snapshot = s
    BY <1>5, <2>1
  <2>5. QED
    BY <2>3, <2>4 DEF SnapshotKept, MembershipSince, RevokedSince
<1>6. ASSUME NEW q \in Requests, Arrive(d, q)
      PROVE  SnapshotKept(calls[d].request, calls[d].snapshot)'
  <2>1. AdmitResult(q) = "ok" /\ q.op # "create"
        /\ calls'[d].request = q /\ calls'[d].snapshot = SnapshotOf(q.room, q.agent)
    BY <1>1, <1>4, <1>6 DEF Arrive, Authorized, Answered
  <2>2. SnapshotKept(q, SnapshotOf(q.room, q.agent))
    BY <1>1, <2>1, AdmittedAreMembers, FreshSnapshot
  <2>3. PICK s \in Snapshot : s = SnapshotOf(q.room, q.agent)
    BY <1>2, RequestFields, SnapshotOfType
  <2>4. SnapshotKept(q, s)'
    BY <1>3, <2>2, <2>3
  <2>5. QED
    BY <2>1, <2>3, <2>4 DEF SnapshotKept, MembershipSince, RevokedSince
<1>7. ASSUME NEW c \in Calls, c # d,
             Write(c) \/ Refuse(c) \/ \E q \in Requests : Arrive(c, q)
      PROVE  calls'[d] = calls[d]
  BY <1>4, <1>7 DEF Write, Refuse, Arrive, Answer
<1>8. Write(d) \/ Refuse(d) => calls'[d].phase = "answered"
  <2>1. ASSUME NEW result, NEW message, Answer(d, result, message)
        PROVE  calls'[d].phase = "answered"
    BY <1>4, <2>1 DEF Answer, Answered
  <2>2. Write(d) \/ Refuse(d) => \E result, message : Answer(d, result, message)
    BY DEF Write, Refuse
  <2>3. QED
    BY <2>1, <2>2
<1>9. CASE UNCHANGED serverVars
  BY <1>5, <1>9 DEF serverVars
<1>10. QED
  BY <1>1, <1>5, <1>6, <1>7, <1>8, <1>9 DEF ServerNext

(* A post that went through found the membership it read, unless its       *)
(* author was removed in between: the name it carries is the author's.     *)
THEOREM NicknamesAreCurrent == ServerSpec => NicknameIsCurrent
<1> DEFINE Current ==
      \A r \in RoomIDs, c \in Calls :
        /\ calls[c].phase = "authorized"
        /\ calls'[c].phase = "answered"
        /\ calls[c].request.op = "post"
        /\ calls[c].request.room = r
        => LET a == calls[c].request.agent IN
           \A m \in messages'[r] \ messages[r] :
             \/ m.nickname = members[r][a].nickname
             \/ RevokedSince(r, a, calls[c].snapshot.roomVersion)
<1>1. ServerInit => SnapshotsKept
  BY DEF ServerInit, IdleCall, SnapshotsKept
<1>2. ASSUME ServerInv, SnapshotsKept, ServerNext PROVE Current
  <2>1. SUFFICES ASSUME NEW c \in Calls, calls[c].phase = "authorized",
                        calls'[c].phase = "answered", calls[c].request.op = "post",
                        NEW m \in messages'[calls[c].request.room] \ messages[calls[c].request.room]
                 PROVE  LET q == calls[c].request IN
                        \/ m.nickname = members[q.room][q.agent].nickname
                        \/ RevokedSince(q.room, q.agent, calls[c].snapshot.roomVersion)
    OBVIOUS
  <2> DEFINE q == calls[c].request
             s == calls[c].snapshot
  <2>2. q \in Requests /\ q.room \in RoomIDs /\ q.agent \in Agents
    <3>1. q \in Requests
      BY <1>2, <2>1 DEF ServerInv, SnapshotsBounded
    <3>2. QED
      BY <3>1, RequestFields
  <2>3. Write(c)
    <3>1. PICK d \in Calls : Write(d)
      BY <1>2, <2>1 DEF ServerNext, Arrive, Refuse, vars
    <3>2. calls \in [Calls -> Call]
      BY <1>2 DEF ServerInv, ServerTypeOK
    <3>3. d # c => calls'[c] = calls[c]
      BY <3>1, <3>2 DEF Write, Answer
    <3>4. QED
      BY <2>1, <3>1, <3>3
  <2>4. PICK id \in MessageIDs : PostMessage(q.room, q.agent, q.key, q.body, s.nickname,
                                              s.memberVersion, id)
    BY <2>1, <2>3 DEF Write, StoreWrite
  <2>5. m.nickname = s.nickname
    BY <1>2, <2>1, <2>2, <2>4 DEF PostMessage, ServerInv, ServerTypeOK, TypeOK
  <2>6. PostResult(q.room, q.agent, q.key, q.body, s.memberVersion) = "ok"
    BY <2>4 DEF PostMessage
  <2>7. ~VersionDiffers(q.room, q.agent, s.memberVersion)
    BY <2>6 DEF PostResult, CheckActor
  <2>8. SnapshotKept(q, s)
    BY <1>2, <2>1 DEF SnapshotsKept
  <2>9. s.memberVersion \in Nat
    <3>1. calls[c] \in Call
      BY <1>2 DEF ServerInv, ServerTypeOK
    <3>2. s \in Snapshot
      BY <3>1 DEF Call
    <3>3. QED
      BY <3>2 DEF Snapshot
  <2>10. members[q.room][q.agent].version = s.memberVersion
    BY <2>7, <2>8, <2>9 DEF VersionDiffers, SnapshotKept
  <2>11. QED
    BY <2>5, <2>8, <2>9, <2>10 DEF SnapshotKept, MembershipSince
<1>3. UNCHANGED serverVars => Current
  BY DEF serverVars
<1>4. QED
  BY <1>1, <1>2, <1>3, NextSnapshotsKept, ServerInvariant, ServerStoreInv, PTL
  DEF ServerSpec, NicknameIsCurrent

-----------------------------------------------------------------------------
(* The answers account for the state.  Each message, and each record of the *)
(* audit log after the first, comes with one more call that was answered   *)
(* so.                                                                     *)

Created(r) == {c \in Calls : /\ GotMessage(c)
                             /\ Status(c) = 201
                             /\ calls[c].request.room = r}

Edits(r) == {c \in Calls : ChangedAllowlist(c, r)}

AccountInv ==
  \A r \in RoomIDs :
    /\ IsFiniteSet(messages[r])
    /\ Cardinality(messages[r]) = Cardinality(Created(r))
    /\ Exists(r) => Len(audits[r]) = 1 + Cardinality(Edits(r))

LEMMA AnsweredFinite ==
  ASSUME NEW r
  PROVE  /\ IsFiniteSet(Created(r)) /\ Cardinality(Created(r)) \in Nat
         /\ IsFiniteSet(Edits(r)) /\ Cardinality(Edits(r)) \in Nat
<1>1. IsFiniteSet(Calls)
  BY FS_Interval, RequestAssumption DEF Calls
<1>2. QED
  BY <1>1, FS_Subset, FS_CardinalityType DEF Created, Edits

(* The call that is answered next is the only one that can be new in them. *)
LEMMA AnsweredNext ==
  ASSUME calls \in [Calls -> Call], NEW d \in Calls, calls[d].phase # "answered",
         NEW call, calls' = [calls EXCEPT ![d] = call], NEW r
  PROVE  /\ d \notin Created(r) /\ d \notin Edits(r)
         /\ Created(r)' = IF /\ call.phase = "answered" /\ call.result = "ok"
                             /\ call.request.op = "post" /\ call.request.room = r
                          THEN Created(r) \cup {d} ELSE Created(r)
         /\ Edits(r)' = IF /\ call.phase = "answered" /\ call.result = "ok"
                           /\ call.request.op \in {"grant", "revoke"}
                           /\ call.request.room = r
                        THEN Edits(r) \cup {d} ELSE Edits(r)
<1>1. /\ calls'[d] = call
      /\ \A c \in Calls : c # d => calls'[c] = calls[c]
  OBVIOUS
<1>2. \A c \in Calls : c \in Created(r) <=>
        /\ calls[c].phase = "answered" /\ calls[c].result = "ok"
        /\ calls[c].request.op = "post" /\ calls[c].request.room = r
  BY DEF Created, GotMessage, IsAnswered, Status
<1>3. \A c \in Calls : c \in Created(r)' <=>
        /\ calls'[c].phase = "answered" /\ calls'[c].result = "ok"
        /\ calls'[c].request.op = "post" /\ calls'[c].request.room = r
  BY DEF Created, GotMessage, IsAnswered, Status
<1>4. Created(r) \subseteq Calls /\ Created(r)' \subseteq Calls
  BY DEF Created
<1>5. \A c \in Calls : c # d => (c \in Created(r)' <=> c \in Created(r))
  BY <1>1, <1>2, <1>3
<1>6. d \notin Created(r)
  BY <1>2
<1>7. d \in Created(r)' <=> /\ call.phase = "answered" /\ call.result = "ok"
                           /\ call.request.op = "post" /\ call.request.room = r
  BY <1>1, <1>3
<1>8. \A c \in Calls :
        /\ c \in Edits(r) <=>
             /\ calls[c].phase = "answered" /\ calls[c].result = "ok"
             /\ calls[c].request.op \in {"grant", "revoke"} /\ calls[c].request.room = r
        /\ c \in Edits(r)' <=>
             /\ calls'[c].phase = "answered" /\ calls'[c].result = "ok"
             /\ calls'[c].request.op \in {"grant", "revoke"} /\ calls'[c].request.room = r
  BY DEF Edits, ChangedAllowlist, IsAnswered
<1>9. Edits(r) \subseteq Calls /\ Edits(r)' \subseteq Calls
  BY DEF Edits
<1>10. \A c \in Calls : c # d => (c \in Edits(r)' <=> c \in Edits(r))
  BY <1>1, <1>8
<1>11. d \notin Edits(r)
  BY <1>8
<1>12. d \in Edits(r)' <=> /\ call.phase = "answered" /\ call.result = "ok"
                          /\ call.request.op \in {"grant", "revoke"}
                          /\ call.request.room = r
  BY <1>1, <1>8
<1>13. Created(r)' = IF /\ call.phase = "answered" /\ call.result = "ok"
                        /\ call.request.op = "post" /\ call.request.room = r
                     THEN Created(r) \cup {d} ELSE Created(r)
  BY <1>4, <1>5, <1>6, <1>7
<1>14. Edits(r)' = IF /\ call.phase = "answered" /\ call.result = "ok"
                      /\ call.request.op \in {"grant", "revoke"}
                      /\ call.request.room = r
                   THEN Edits(r) \cup {d} ELSE Edits(r)
  BY <1>9, <1>10, <1>11, <1>12
<1>15. QED
  BY <1>6, <1>11, <1>13, <1>14

(* Nobody edited a room that was never created.                            *)
LEMMA NoEditsYet ==
  ASSUME ServerInv, StoreInv, UpdateInv, NEW r \in RoomIDs, ~Exists(r)
  PROVE  Edits(r) = {}
<1>1. SUFFICES ASSUME NEW c \in Calls, ChangedAllowlist(c, r) PROVE FALSE
  BY DEF Edits
<1>2. calls[c].snapshot.roomVersion < room[r].version /\ room[r].version = 0
  BY <1>1 DEF UpdateInv, EditorsAreBehind, StoreInv, VersionsBounded
<1>3. calls[c] \in Call
  BY DEF ServerInv, ServerTypeOK
<1>4. calls[c].snapshot \in Snapshot
  BY <1>3 DEF Call
<1>5. QED
  BY <1>2, <1>4 DEF Snapshot

(* A write is accounted for, operation by operation.                       *)
LEMMA WriteAccounted ==
  ASSUME ServerInv, StoreInv, UpdateInv, AccountInv, NEW d \in Calls, Write(d)
  PROVE  AccountInv'
<1>1. calls \in [Calls -> Call] /\ TypeOK
  BY DEF ServerInv, ServerTypeOK
<1>2. PICK q \in Requests, s \in Snapshot : q = calls[d].request /\ s = calls[d].snapshot
  <2>1. calls[d].request \in Requests
    BY DEF ServerInv, SnapshotsBounded, Write
  <2>2. calls[d].snapshot \in Snapshot
    BY <1>1 DEF Call
  <2>3. QED
    BY <2>1, <2>2
<1> q.room \in RoomIDs
  BY RequestFields
<1>3. PICK id \in MessageIDs \cup {None} : Answer(d, "ok", id) /\ StoreWrite(d, id)
  BY DEF Write
<1>4. ASSUME NEW r \in RoomIDs
      PROVE  /\ d \notin Created(r) /\ d \notin Edits(r)
             /\ Created(r)' = IF q.op = "post" /\ q.room = r
                              THEN Created(r) \cup {d} ELSE Created(r)
             /\ Edits(r)' = IF q.op \in {"grant", "revoke"} /\ q.room = r
                            THEN Edits(r) \cup {d} ELSE Edits(r)
  <2>1. PICK call : call = Answered(q, s, "ok", id)
    OBVIOUS
  <2>2. calls[d].phase # "answered" /\ calls' = [calls EXCEPT ![d] = call]
    BY <1>2, <1>3, <2>1 DEF Write, Answer
  <2>3. call.phase = "answered" /\ call.result = "ok" /\ call.request = q
    BY <2>1 DEF Answered
  <2>4. /\ d \notin Created(r) /\ d \notin Edits(r)
        /\ Created(r)' = IF /\ call.phase = "answered" /\ call.result = "ok"
                            /\ call.request.op = "post" /\ call.request.room = r
                         THEN Created(r) \cup {d} ELSE Created(r)
        /\ Edits(r)' = IF /\ call.phase = "answered" /\ call.result = "ok"
                          /\ call.request.op \in {"grant", "revoke"}
                          /\ call.request.room = r
                       THEN Edits(r) \cup {d} ELSE Edits(r)
    BY <1>1, <2>2, AnsweredNext, ZenonT(30)
  <2>5. QED
    BY <2>3, <2>4
<1>5. SUFFICES ASSUME NEW r \in RoomIDs
               PROVE  /\ IsFiniteSet(messages'[r])
                      /\ Cardinality(messages'[r]) = Cardinality(Created(r)')
                      /\ Exists(r)' => Len(audits'[r]) = 1 + Cardinality(Edits(r)')
  BY DEF AccountInv
<1>6. /\ IsFiniteSet(messages[r])
      /\ Cardinality(messages[r]) = Cardinality(Created(r))
      /\ Exists(r) => Len(audits[r]) = 1 + Cardinality(Edits(r))
  BY DEF AccountInv
<1>7. CASE q.op = "create" /\ CreateRoom(q.room, q.agent)
  <2>1. Created(r)' = Created(r) /\ Edits(r)' = Edits(r)
    BY <1>4, <1>7
  <2>2. CASE r # q.room
    BY <1>1, <1>2, <1>6, <1>7, <2>1, <2>2 DEF CreateRoom, TypeOK, Exists
  <2>3. CASE r = q.room
    <3>1. ~Exists(r)
      BY <1>7, <2>3 DEF CreateRoom, CreateRoomResult
    <3>2. messages[r] = {} /\ Edits(r) = {}
      BY <3>1, NoEditsYet DEF StoreInv, AbsentRoomsEmpty
    <3>3. messages'[r] = {} /\ Len(audits'[r]) = 1
      BY <1>1, <1>7, <2>3 DEF CreateRoom, TypeOK
    <3>4. QED
      BY <1>6, <2>1, <3>2, <3>3, FS_EmptySet
  <2>4. QED
    BY <2>2, <2>3
<1>8. CASE /\ q.op = "post"
           /\ PostMessage(q.room, q.agent, q.key, q.body, s.nickname, s.memberVersion, id)
  <2>1. Edits(r)' = Edits(r) /\ audits' = audits /\ room' = room
    BY <1>4, <1>8 DEF PostMessage
  <2>2. CASE r # q.room
    BY <1>1, <1>4, <1>6, <1>8, <2>1, <2>2 DEF PostMessage, TypeOK, Exists
  <2>3. CASE r = q.room
    <3> DEFINE m == [id |-> id, author |-> q.agent, nickname |-> s.nickname,
                     body |-> q.body, key |-> q.key]
    <3>1. messages'[r] = messages[r] \cup {m}
      BY <1>1, <1>8, <2>3 DEF PostMessage, TypeOK
    <3>2. m \notin messages[r]
      BY <1>8 DEF PostMessage, UsedMessageIDs
    <3> HIDE DEF m
    <3>3. /\ IsFiniteSet(messages'[r])
          /\ Cardinality(messages'[r]) = Cardinality(messages[r]) + 1
      BY <1>6, <3>1, <3>2, FS_AddElement, SMTT(30)
    <3>4. Cardinality(Created(r)') = Cardinality(Created(r)) + 1
      BY <1>4, <1>8, <2>3, AnsweredFinite, FS_AddElement, SMTT(30)
    <3>5. QED
      BY <1>6, <2>1, <3>3, <3>4 DEF Exists
  <2>4. QED
    BY <2>2, <2>3
<1>9. CASE q.op = "nickname" /\ SetNickname(q.room, q.agent, q.nickname, s.memberVersion)
  BY <1>4, <1>6, <1>9 DEF SetNickname, Exists
<1>10. CASE /\ q.op \in {"grant", "revoke"} /\ messages' = messages
            /\ \E a, t \in Agents, role \in Roles \cup {None} : AllowlistEdit(q.room, a, t, role)
            /\ \A t \in RoomIDs : room'[t].owner = room[t].owner
  <2>1. Created(r)' = Created(r) /\ messages'[r] = messages[r]
        /\ (Exists(r)' <=> Exists(r))
    BY <1>4, <1>10 DEF Exists
  <2>2. /\ \E e \in AuditRecord : audits'[q.room] = Append(audits[q.room], e)
        /\ \A u \in RoomIDs : u # q.room => audits'[u] = audits[u]
    BY <1>1, <1>10, EditAppends
  <2>3. CASE r # q.room
    <3>1. audits'[r] = audits[r] /\ Edits(r)' = Edits(r)
      BY <1>4, <2>2, <2>3
    <3>2. QED
      BY <1>6, <2>1, <3>1
  <2>4. CASE r = q.room
    <3>1. PICK e \in AuditRecord : audits'[r] = Append(audits[r], e)
      BY <2>2, <2>4
    <3>2. Len(audits'[r]) = Len(audits[r]) + 1 /\ Len(audits[r]) \in Nat
      BY <1>1, <3>1, AppendIsLast DEF TypeOK
    <3>3. Cardinality(Edits(r)') = Cardinality(Edits(r)) + 1
      BY <1>4, <1>10, <2>4, AnsweredFinite, FS_AddElement, SMTT(30)
    <3>4. Cardinality(Edits(r)) \in Nat
      BY AnsweredFinite
    <3>5. QED
      BY <1>6, <2>1, <3>2, <3>3, <3>4
  <2>5. QED
    BY <2>3, <2>4
<1>11. CASE /\ q.op = "grant"
            /\ GrantAllowlist(q.room, q.agent, q.target, q.role, s.memberVersion, s.roomVersion)
  <2>1. q.agent \in Agents /\ q.target \in Agents /\ q.role \in Roles
        /\ s.memberVersion \in MemberVersions /\ s.roomVersion \in RoomVersions
    BY <1>2, <1>11, RequestFields, WriteVersions
  <2>2. AllowlistEdit(q.room, q.agent, q.target, q.role)
    BY <1>1, <1>2, <1>11, <2>1, GrantEdits
  <2>3. messages' = messages /\ \A t \in RoomIDs : room'[t].owner = room[t].owner
    BY <1>1, <1>11 DEF GrantAllowlist, EditedRoom, TypeOK
  <2>4. QED
    BY <1>10, <1>11, <2>1, <2>2, <2>3
<1>12. CASE /\ q.op = "revoke"
            /\ RevokeAllowlist(q.room, q.agent, q.target, s.memberVersion, s.roomVersion)
  <2>1. q.agent \in Agents /\ q.target \in Agents
        /\ s.memberVersion \in MemberVersions /\ s.roomVersion \in RoomVersions
    BY <1>2, <1>12, RequestFields, WriteVersions
  <2>2. AllowlistEdit(q.room, q.agent, q.target, None)
    BY <1>1, <1>2, <1>12, <2>1, RevokeEdits
  <2>3. messages' = messages /\ \A t \in RoomIDs : room'[t].owner = room[t].owner
    BY <1>1, <1>12 DEF RevokeAllowlist, EditedRoom, TypeOK
  <2>4. QED
    BY <1>10, <1>12, <2>1, <2>2, <2>3
<1>13. QED
  BY <1>2, <1>3, <1>7, <1>8, <1>9, <1>11, <1>12 DEF StoreWrite

LEMMA NextAccountInv ==
  ServerInv /\ StoreInv /\ UpdateInv /\ AccountInv /\ [ServerNext]_serverVars => AccountInv'
<1>1. SUFFICES ASSUME ServerInv, StoreInv, UpdateInv, AccountInv, [ServerNext]_serverVars
               PROVE  AccountInv'
  OBVIOUS
<1>2. calls \in [Calls -> Call] /\ TypeOK
  BY <1>1 DEF ServerInv, ServerTypeOK
<1>3. ASSUME NEW r \in RoomIDs, messages'[r] = messages[r], Created(r)' = Created(r),
             Exists(r)' <=> Exists(r), audits'[r] = audits[r], Edits(r)' = Edits(r)
      PROVE  /\ IsFiniteSet(messages'[r])
             /\ Cardinality(messages'[r]) = Cardinality(Created(r)')
             /\ Exists(r)' => Len(audits'[r]) = 1 + Cardinality(Edits(r)')
  BY <1>1, <1>3 DEF AccountInv
<1>4. ASSUME NEW d \in Calls, NEW call, calls[d].phase # "answered",
             calls' = [calls EXCEPT ![d] = call],
             call.phase = "answered" => call.result # "ok", UNCHANGED vars
      PROVE  AccountInv'
  <2>1. ASSUME NEW r \in RoomIDs PROVE Created(r)' = Created(r) /\ Edits(r)' = Edits(r)
    BY <1>2, <1>4, AnsweredNext, ZenonT(30)
  <2>2. QED
    BY <1>3, <1>4, <2>1 DEF AccountInv, Exists, vars
<1>5. ASSUME NEW d \in Calls, NEW q \in Requests, Arrive(d, q) PROVE AccountInv'
  <2> DEFINE s == IF q.op = "create" THEN NoSnapshot ELSE SnapshotOf(q.room, q.agent)
             call == IF AdmitResult(q) = "ok" THEN Authorized(q, s)
                     ELSE Answered(q, s, AdmitResult(q), None)
  <2>1. /\ calls' = [calls EXCEPT ![d] = call]
        /\ calls[d].phase # "answered" /\ UNCHANGED vars
    BY <1>5 DEF Arrive
  <2>2. call.phase = "answered" => call.result # "ok"
    BY DEF Authorized, Answered
  <2> HIDE DEF call
  <2>3. QED
    BY <1>4, <2>1, <2>2
<1>6. ASSUME NEW d \in Calls, Refuse(d) PROVE AccountInv'
  <2>1. \E message : Answer(d, StoreResult(d), message)
    BY <1>6 DEF Refuse
  <2>2. \E call : /\ calls' = [calls EXCEPT ![d] = call]
                  /\ call.phase = "answered" => call.result # "ok"
    BY <1>6, <2>1, ZenonT(30) DEF Refuse, Answer, Answered
  <2>3. calls[d].phase # "answered" /\ UNCHANGED vars
    BY <1>6 DEF Refuse
  <2>4. QED
    BY <1>4, <2>2, <2>3
<1>7. ASSUME NEW d \in Calls, Write(d) PROVE AccountInv'
  BY <1>1, <1>7, WriteAccounted
<1>8. CASE UNCHANGED serverVars
  <2>1. \A r \in RoomIDs : Created(r)' = Created(r) /\ Edits(r)' = Edits(r)
    BY <1>8 DEF Created, Edits, GotMessage, Status, ChangedAllowlist, IsAnswered, serverVars
  <2>2. QED
    BY <1>3, <1>8, <2>1 DEF AccountInv, Exists, serverVars, vars
<1>9. QED
  BY <1>1, <1>5, <1>6, <1>7, <1>8 DEF ServerNext

(* Every message was answered 201 once, and every record after the first   *)
(* is one successful change; what was refused or repeated left no trace.   *)
THEOREM AnswersAccountForEffects == ServerSpec => []AnswersMatchEffects
<1>1. ServerInit => AccountInv
  <2>1. SUFFICES ASSUME ServerInit, NEW r \in RoomIDs
                 PROVE  /\ IsFiniteSet(messages[r])
                        /\ Cardinality(messages[r]) = Cardinality(Created(r))
                        /\ ~Exists(r)
    BY DEF AccountInv
  <2>2. messages[r] = {} /\ ~Exists(r)
    BY <2>1 DEF ServerInit, Init, Exists, NoRoom
  <2>3. Created(r) = {}
    BY <2>1 DEF ServerInit, IdleCall, Created, GotMessage, IsAnswered
  <2>4. QED
    BY <2>2, <2>3, FS_EmptySet
<1>2. AccountInv => AnswersMatchEffects
  BY DEF AccountInv, AnswersMatchEffects, Created, Edits
<1>3. QED
  BY <1>1, <1>2, ServerInitUpdateInv, NextAccountInv, UpdateInvStep, ServerInvariant, ServerStoreInv, PTL
  DEF ServerSpec

=============================================================================
