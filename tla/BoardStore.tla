----------------------------- MODULE BoardStore -----------------------------
(***************************************************************************)
(* The room store of the message board (recipe 29), as implemented by      *)
(* MemoryStore in store/memory.go.  Every operation runs from start to end *)
(* under the store's mutex, so every operation is one action here.         *)
(*                                                                         *)
(* The module describes the store for ANY caller: an operation may be      *)
(* called with any actor, any expected member version and any expected     *)
(* room version.  What the HTTP handlers pass is modelled in BoardServer.  *)
(*                                                                         *)
(* Left out: display names, descriptions, timestamps, token hashes and the *)
(* capability list (a function of the role).  A message body stands for    *)
(* its own request hash.                                                   *)
(*                                                                         *)
(* A definition marked Faulty is a mistake its neighbour below could have  *)
(* contained: nothing uses it, and the properties must tell it apart.      *)
(***************************************************************************)
EXTENDS Integers, FiniteSets, Sequences

CONSTANTS
  Agents,             \* canonical DNS names of the callers
  RoomIDs,            \* normalised room IDs
  Nicknames,          \* valid display nicknames
  NicknameKeys,       \* lower-cased nicknames
  NicknameKey,        \* the key of each nickname
  IdempotencyKeys,    \* values of the Idempotency-Key header
  Bodies,             \* message bodies, each standing for its hash
  MessageIDs,         \* ULIDs, ordered as they sort
  MaxRoomsPerAgent,   \* MemoryStore.MaxRoomsPerAgent
  MaxMembersPerRoom,  \* MemoryStore.MaxMembersPerRoom
  MaxRoomVersion,     \* bound of the model on room versions
  MaxMemberVersion,   \* bound of the model on membership versions
  None                \* an absent map entry or an empty string

Roles == {"owner", "admin", "poster", "reader", "connector"}

(* Faulty: any role can be granted. *)
GrantableRoles == Roles

MutableRoles == Roles \ {"owner"}

ASSUME NicknameAssumption == NicknameKey \in [Nicknames -> NicknameKeys]

ASSUME NumberAssumption ==
  /\ MessageIDs \subseteq Nat
  /\ MaxRoomsPerAgent \in Nat
  /\ MaxMembersPerRoom \in Nat \ {0}
  /\ MaxRoomVersion \in Nat \ {0}
  /\ MaxMemberVersion \in Nat \ {0}

ASSUME NoneAssumption ==
  /\ None \notin Agents
  /\ None \notin Nicknames
  /\ None \notin NicknameKeys
  /\ None \notin Bodies
  /\ None \notin MessageIDs
  /\ None \notin Roles

(* DNS names and room IDs are strings of bounded length. *)
ASSUME FinitenessAssumption == IsFiniteSet(Agents) /\ IsFiniteSet(RoomIDs)

VARIABLES
  room,         \* room[r]: the room's own record
  members,      \* members[r][a]: the membership of agent a in room r
  nicknames,    \* nicknames[r][k]: who holds nickname key k in room r
  messages,     \* messages[r]: the messages of room r, ordered by their id
  idempotency,  \* idempotency[r][a][k]: what the key k of agent a was used for
  audits,       \* audits[r]: the audit records of room r, in order
  quotas        \* quotas[a]: how many rooms agent a has created

vars == <<room, members, nicknames, messages, idempotency, audits, quotas>>

-----------------------------------------------------------------------------
(* Records. *)

NoRoom == [owner |-> None, version |-> 0, archived |-> FALSE, memberCount |-> 0]

NotMember == [role |-> None, version |-> 0, nickname |-> None]

NotUsed == [body |-> None, id |-> None]

Room == [owner : Agents \cup {None}, version : Nat, archived : BOOLEAN,
         memberCount : Int]

Membership == [role : Roles \cup {None}, version : Nat,
               nickname : Nicknames \cup {None}]

Message == [id : MessageIDs, author : Agents, nickname : Nicknames \cup {None},
            body : Bodies, key : IdempotencyKeys]

IdempotencyRecord == [body : Bodies \cup {None}, id : MessageIDs \cup {None}]

AuditRecord == [event : {"room_created", "allowlist_granted", "allowlist_revoked"},
                actor : Agents, target : Agents, role : Roles \cup {None}]

(* One type invariant for the module: every variable has the shape of the  *)
(* Go structure it stands for.                                             *)
TypeOK ==
  /\ room \in [RoomIDs -> Room]
  /\ members \in [RoomIDs -> [Agents -> Membership]]
  /\ nicknames \in [RoomIDs -> [NicknameKeys -> Agents \cup {None}]]
  /\ messages \in [RoomIDs -> SUBSET Message]
  /\ idempotency \in
       [RoomIDs -> [Agents -> [IdempotencyKeys -> IdempotencyRecord]]]
  /\ audits \in [RoomIDs -> Seq(AuditRecord)]
  /\ quotas \in [Agents -> Nat]

Init ==
  /\ room = [r \in RoomIDs |-> NoRoom]
  /\ members = [r \in RoomIDs |-> [a \in Agents |-> NotMember]]
  /\ nicknames = [r \in RoomIDs |-> [k \in NicknameKeys |-> None]]
  /\ messages = [r \in RoomIDs |-> {}]
  /\ idempotency =
       [r \in RoomIDs |-> [a \in Agents |-> [k \in IdempotencyKeys |-> NotUsed]]]
  /\ audits = [r \in RoomIDs |-> <<>>]
  /\ quotas = [a \in Agents |-> 0]

-----------------------------------------------------------------------------
(* Roles and the checks every guarded operation makes. *)

Exists(r) == room[r].owner # None

IsMember(r, a) == members[r][a].role # None

MembersOf(r) == {a \in Agents : IsMember(r, a)}

(* The roles that may perform each action on a room. *)
PermittedRoles ==
  [ConnectRoom     |-> Roles,
   ReadMessages    |-> Roles \ {"connector"},
   PostMessage     |-> {"owner", "admin", "poster"},
   UpdateNickname  |-> Roles,
   ViewAllowList   |-> {"owner", "admin"},
   UpdateAllowList |-> {"owner", "admin"}]

(* Faulty: membership is enough. *)
AnyRoleCan(role, action) == role \in Roles

RoleCan(role, action) == role \in PermittedRoles[action]

(* Faulty: versions are not compared. *)
NeverDiffers(r, a, version) == FALSE

(* A version of 0 skips the comparison, as in the code. *)
VersionDiffers(r, a, version) ==
  version # 0 /\ members[r][a].version # version

(* "ok", or the error the check returns. *)
CheckActor(r, a, version, action) ==
  IF ~IsMember(r, a) THEN "denied"
  ELSE IF VersionDiffers(r, a, version) THEN "conflict"
  ELSE IF ~RoleCan(members[r][a].role, action) THEN "denied"
  ELSE "ok"

(* Faulty: the target and the role trade places. *)
AuditSwapped(event, actor, target, role) ==
  [event |-> event, actor |-> actor, target |-> role, role |-> target]

Audit(event, actor, target, role) ==
  [event |-> event, actor |-> actor, target |-> target, role |-> role]

-----------------------------------------------------------------------------
(* CreateRoom. *)

(* Faulty: the agent with a full quota gets one more. *)
CreateRoomBeyondQuota(r, a) ==
  IF Exists(r) THEN "conflict"
  ELSE IF quotas[a] > MaxRoomsPerAgent THEN "validation"
  ELSE "ok"

CreateRoomResult(r, a) ==
  IF Exists(r) THEN "conflict"
  ELSE IF quotas[a] >= MaxRoomsPerAgent THEN "validation"
  ELSE "ok"

CreateRoom(r, a) ==
  /\ CreateRoomResult(r, a) = "ok"
  /\ room' = [room EXCEPT ![r] =
       [owner |-> a, version |-> 1, archived |-> FALSE, memberCount |-> 1]]
  /\ members' = [members EXCEPT ![r] =
       [b \in Agents |->
          IF b = a THEN [role |-> "owner", version |-> 1, nickname |-> None]
          ELSE NotMember]]
  /\ nicknames' = [nicknames EXCEPT ![r] = [k \in NicknameKeys |-> None]]
  /\ messages' = [messages EXCEPT ![r] = {}]
  /\ idempotency' = [idempotency EXCEPT ![r] =
       [b \in Agents |-> [k \in IdempotencyKeys |-> NotUsed]]]
  /\ audits' = [audits EXCEPT ![r] = <<Audit("room_created", a, a, "owner")>>]
  /\ quotas' = [quotas EXCEPT ![a] = @ + 1]

-----------------------------------------------------------------------------
(* The allowlist.  Both operations share their first four checks. *)

(* Actor a, who saw room version rv and its own membership version mv, asks *)
(* for a change of the entry of target t.                                   *)
AllowlistResult(r, a, t, mv, rv) ==
  IF ~Exists(r) THEN "not_found"
  ELSE IF room[r].archived \/ room[r].version # rv THEN "conflict"
  ELSE IF t = a \/ t = room[r].owner THEN "denied"
  ELSE CheckActor(r, a, mv, "UpdateAllowList")

(* Faulty: the version stays. *)
EditedRoomUnversioned(r, countChange) ==
  [room[r] EXCEPT !.memberCount = @ + countChange]

(* Faulty: a role change counts as a new member. *)
EditedRoomGrowing(r, countChange) ==
  [room[r] EXCEPT !.version = @ + 1,
                  !.memberCount = @ + (IF countChange = 0 THEN 1 ELSE countChange)]

(* Every change of the allowlist moves the version of the room record. *)
EditedRoom(r, countChange) ==
  [owner |-> room[r].owner, version |-> room[r].version + 1,
   archived |-> room[r].archived,
   memberCount |-> room[r].memberCount + countChange]

GrantResult(r, a, t, role, mv, rv) ==
  LET check == AllowlistResult(r, a, t, mv, rv) IN
  IF role \notin MutableRoles THEN "validation"
  ELSE IF check # "ok" THEN check
  ELSE IF ~IsMember(r, t) /\ room[r].memberCount >= MaxMembersPerRoom
    THEN "validation"
  ELSE IF members[r][t].role = role THEN "unchanged"
  ELSE IF members[r][t].role = "owner" THEN "denied"
  ELSE "ok"

(* A new entry starts at version 1; a role change keeps the nickname. *)
GrantAllowlist(r, a, t, role, mv, rv) ==
  /\ GrantResult(r, a, t, role, mv, rv) = "ok"
  /\ room[r].version < MaxRoomVersion
  /\ members[r][t].version < MaxMemberVersion
  /\ members' = [members EXCEPT ![r][t] =
       [role |-> role, version |-> @.version + 1, nickname |-> @.nickname]]
  /\ room' = [room EXCEPT ![r] = EditedRoom(r, IF IsMember(r, t) THEN 0 ELSE 1)]
  /\ audits' = [audits EXCEPT ![r] =
       Append(@, Audit("allowlist_granted", a, t, role))]
  /\ UNCHANGED <<nicknames, messages, idempotency, quotas>>

RevokeResult(r, a, t, mv, rv) ==
  LET check == AllowlistResult(r, a, t, mv, rv) IN
  IF check # "ok" THEN check
  ELSE IF ~IsMember(r, t) THEN "not_found"
  ELSE IF members[r][t].role = "owner" THEN "denied"
  ELSE "ok"

(* Nickname keys are reserved for the agent that holds a nickname with them. *)
Holds(r, a, k) ==
  /\ members[r][a].nickname # None
  /\ NicknameKey[members[r][a].nickname] = k

(* Faulty: the reservation stays. *)
NothingReleased(r, a) == nicknames[r]

(* The reservations of the room without that of agent a. *)
Released(r, a) ==
  [k \in NicknameKeys |-> IF Holds(r, a, k) THEN None ELSE nicknames[r][k]]

(* The entry, its version and its nickname reservation all go. *)
RevokeAllowlist(r, a, t, mv, rv) ==
  /\ RevokeResult(r, a, t, mv, rv) = "ok"
  /\ room[r].version < MaxRoomVersion
  /\ nicknames' = [nicknames EXCEPT ![r] = Released(r, t)]
  /\ members' = [members EXCEPT ![r][t] = NotMember]
  /\ room' = [room EXCEPT ![r] = EditedRoom(r, -1)]
  /\ audits' = [audits EXCEPT ![r] =
       Append(@, Audit("allowlist_revoked", a, t, None))]
  /\ UNCHANGED <<messages, idempotency, quotas>>

-----------------------------------------------------------------------------
(* Nicknames: unique in a room up to case. *)

(* Faulty: case counts. *)
NameTaken(r, a, n) == \E b \in Agents \ {a} : members[r][b].nickname = n

NicknameTaken(r, a, n) == nicknames[r][NicknameKey[n]] \notin {None, a}

SetNicknameResult(r, a, n, mv) ==
  IF ~Exists(r) THEN "not_found"
  ELSE IF room[r].archived \/ ~IsMember(r, a) THEN "denied"
  ELSE IF VersionDiffers(r, a, mv) THEN "conflict"
  ELSE IF ~RoleCan(members[r][a].role, "UpdateNickname") THEN "denied"
  ELSE IF NicknameTaken(r, a, n) THEN "conflict"
  ELSE IF members[r][a].nickname = n THEN "unchanged"
  ELSE "ok"

(* The room's version does not move: nicknames are not the allowlist. *)
SetNickname(r, a, n, mv) ==
  /\ SetNicknameResult(r, a, n, mv) = "ok"
  /\ members[r][a].version < MaxMemberVersion
  /\ nicknames' = [nicknames EXCEPT ![r] =
       [k \in NicknameKeys |->
          IF k = NicknameKey[n] THEN a ELSE Released(r, a)[k]]]
  /\ members' = [members EXCEPT ![r][a] =
       [role |-> @.role, version |-> @.version + 1, nickname |-> n]]
  /\ UNCHANGED <<room, messages, idempotency, audits, quotas>>

-----------------------------------------------------------------------------
(* Messages. *)

UsedMessageIDs == {m.id : m \in UNION {messages[r] : r \in RoomIDs}}

(* Faulty: another body replaces the first. *)
LastBodyWins(r, used, body) ==
  IF used.body = body THEN "replay" ELSE "ok"

(* What the key was used for decides; a replay returns the stored message. *)
ReplayResult(r, used, body) ==
  IF used = NotUsed THEN "ok"
  ELSE IF used.body # body THEN "conflict"
  ELSE IF \E m \in messages[r] : m.id = used.id THEN "replay"
  ELSE "conflict"

PostResult(r, a, k, body, mv) ==
  LET check == CheckActor(r, a, mv, "PostMessage") IN
  IF ~Exists(r) THEN "not_found"
  ELSE IF room[r].archived THEN "denied"
  ELSE IF check # "ok" THEN check
  ELSE ReplayResult(r, idempotency[r][a][k], body)

(* The nickname is the caller's input, not read from the membership.  A     *)
(* ULID is unique but, the wall clock being free to step back, not always  *)
(* the largest so far: the code sorts after every append, and so a room's  *)
(* messages are a set here, read in the order of their ids.                *)
PostMessage(r, a, k, body, n, mv, id) ==
  /\ PostResult(r, a, k, body, mv) = "ok"
  /\ id \in MessageIDs \ UsedMessageIDs
  /\ messages' = [messages EXCEPT ![r] = @ \cup
       {[id |-> id, author |-> a, nickname |-> n, body |-> body, key |-> k]}]
  /\ idempotency' = [idempotency EXCEPT ![r][a][k] = [body |-> body, id |-> id]]
  /\ UNCHANGED <<room, members, nicknames, audits, quotas>>

-----------------------------------------------------------------------------
(* Calls that return an error, a replay or "unchanged" write nothing and    *)
(* are stuttering steps.                                                   *)
MemberVersions == 0 .. MaxMemberVersion

RoomVersions == 1 .. MaxRoomVersion

Next == \E r \in RoomIDs, a \in Agents :
  \/ CreateRoom(r, a)
  \/ \E t \in Agents, role \in Roles, mv \in MemberVersions, rv \in RoomVersions :
       GrantAllowlist(r, a, t, role, mv, rv)
  \/ \E t \in Agents, mv \in MemberVersions, rv \in RoomVersions :
       RevokeAllowlist(r, a, t, mv, rv)
  \/ \E n \in Nicknames, mv \in MemberVersions : SetNickname(r, a, n, mv)
  \/ \E k \in IdempotencyKeys, body \in Bodies, n \in Nicknames \cup {None},
        mv \in MemberVersions, id \in MessageIDs :
       PostMessage(r, a, k, body, n, mv, id)

Spec == Init /\ [][Next]_vars

-----------------------------------------------------------------------------
(* Safety. *)

(* A nickname key is reserved for an agent exactly while that agent is a    *)
(* member whose nickname has this key: a revoke or a rename never leaves a *)
(* reservation behind and never frees one that is in use (the delete and   *)
(* insert calls of SetNickname and RevokeAllowlist on rec.nicknames).      *)
ReservationsMatchMembers ==
  \A r \in RoomIDs, k \in NicknameKeys, a \in Agents :
    nicknames[r][k] = a <=> IsMember(r, a) /\ Holds(r, a, k)

(* The counter the member quota is tested against is the number of entries *)
(* on the allowlist, and no sequence of grants and revokes exceeds the     *)
(* quota (MemberCount is incremented and decremented apart from the map).  *)
MemberCountExact ==
  \A r \in RoomIDs :
    /\ room[r].memberCount = Cardinality(MembersOf(r))
    /\ room[r].memberCount <= MaxMembersPerRoom

(* A room has one owner for good: whoever the room record names holds the  *)
(* owner role and nobody else ever does, although admins may rewrite every *)
(* other entry.                                                            *)
SoleOwner ==
  \A r \in RoomIDs, a \in Agents :
    members[r][a].role = "owner" <=> room[r].owner = a

(* An agent owns as many rooms as its quota counter says, within the limit. *)
RoomQuotaExact ==
  \A a \in Agents :
    /\ quotas[a] = Cardinality({r \in RoomIDs : room[r].owner = a})
    /\ quotas[a] <= MaxRoomsPerAgent

(* The idempotency table and the messages agree in both directions: a used *)
(* key names one stored message of the same room, author, key and body,    *)
(* and every message is the one its key names.  So a key is good for at    *)
(* most one message, whatever is retried, and the lookup loop of           *)
(* PostMessage never falls through to its last return.                     *)
IdempotencyExact ==
  \A r \in RoomIDs, a \in Agents, k \in IdempotencyKeys :
    LET used == idempotency[r][a][k]
        sent == {m \in messages[r] : m.author = a /\ m.key = k} IN
    IF used = NotUsed THEN sent = {}
    ELSE \E m \in sent : sent = {m} /\ m.id = used.id /\ m.body = used.body

(* The audit log explains the allowlist: the room version counts its       *)
(* records, and the role an agent holds is the role of the last record     *)
(* about that agent (a nickname change, which is not audited, changes no   *)
(* role; a refused or repeated grant leaves no record).                    *)
LastAbout(log, a, i) ==
  /\ i \in DOMAIN log
  /\ log[i].target = a
  /\ \A j \in DOMAIN log : log[j].target = a => j <= i

AuditExplainsAllowlist ==
  \A r \in RoomIDs :
    /\ room[r].version = Len(audits[r])
    /\ \A a \in Agents :
         \/ \E i \in DOMAIN audits[r] :
              /\ LastAbout(audits[r], a, i)
              /\ members[r][a].role = audits[r][i].role
         \/ /\ members[r][a].role = None
            /\ \A i \in DOMAIN audits[r] : audits[r][i].target # a

(* No step changes another agent's role, grants or removes it unless the   *)
(* actor it is attributed to managed the room just before the step, is not *)
(* the target, and the target is not the owner; every such step moves the  *)
(* room version.                                                           *)
AllowlistChangesAuthorized ==
  [][\A r \in RoomIDs, t \in Agents :
       Exists(r) /\ members'[r][t].role # members[r][t].role =>
         LET entry == audits'[r][Len(audits'[r])] IN
         /\ Len(audits'[r]) = Len(audits[r]) + 1
         /\ entry.target = t
         /\ entry.actor # t
         /\ members[r][entry.actor].role \in {"owner", "admin"}
         /\ t # room[r].owner
         /\ room'[r].version = room[r].version + 1]_vars

(* What is stored under a key is stored for good: no later call changes or *)
(* drops a message or the key it was sent under, not even after the author *)
(* was revoked and granted again.                                          *)
MessagesPermanent ==
  [][\A r \in RoomIDs :
       /\ messages[r] \subseteq messages'[r]
       /\ \A a \in Agents, k \in IdempotencyKeys :
            idempotency[r][a][k] # NotUsed =>
              idempotency'[r][a][k] = idempotency[r][a][k]]_vars

-----------------------------------------------------------------------------
(* What the store implements. *)

RoleOf == [r \in RoomIDs |-> [a \in Agents |-> members[r][a].role]]

NicknameOf == [r \in RoomIDs |-> [a \in Agents |-> members[r][a].nickname]]

Post(m) == [author |-> m.author, key |-> m.key, body |-> m.body]

PostsOf == [r \in RoomIDs |-> {Post(m) : m \in messages[r]}]

B == INSTANCE Board WITH role <- RoleOf, nickname <- NicknameOf, posts <- PostsOf

(* The store keeps the promises of Board: behind the versions, counters,   *)
(* reservations and keys every step is one of the few abstract ones or     *)
(* changes nothing a client can name.                                      *)
ImplementsBoard == B!BoardSpec

=============================================================================
