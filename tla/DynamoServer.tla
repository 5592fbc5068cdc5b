---------------------------- MODULE DynamoServer ----------------------------
(***************************************************************************)
(* The message board of recipe 29 with BOARD_BACKEND=aws: the handlers of  *)
(* httpapi/server.go with AVPAuthorizer and DynamoDBStore                  *)
(* (store/dynamodb.go), any number of them, in any number of servers, on   *)
(* one table.  The tables of BoardStore are the items of that table:       *)
(* room META, members MEMBER#, nicknames NICK#, messages MSG#, idempotency *)
(* IDEMP#, audits AUDIT#, quotas QUOTA.                                    *)
(*                                                                         *)
(* What MemoryStore does under one mutex is here a few consistent reads    *)
(* and one conditional transaction, which is atomic; between any two of    *)
(* them other handlers go on.  The service may fail at each of them, also  *)
(* after a transaction was committed and before its answer arrives.        *)
(*                                                                         *)
(* Two reads are one step where nothing can tell them apart: META is read  *)
(* again for the owner, who never changes, and a message is read after its *)
(* key, with which it was written for good.                                *)
(*                                                                         *)
(* Left out, besides what BoardServer leaves out: the failure without an   *)
(* answer (500) of a request that wrote nothing, which differs from one    *)
(* the service reports (503) in nothing but the status.                    *)
(***************************************************************************)
EXTENDS BoardServer

CONSTANT Failures  \* whether DynamoDB and Verified Permissions may fail

ASSUME FailuresAssumption == Failures \in BOOLEAN

VARIABLE work  \* work[c]: where the handler of call c is, and what it read

dynamoVars == <<serverVars, work>>

Steps == {"idle", "membership", "items", "transaction", "guard", "recheck",
          "classify"}

Work == [step : Steps, request : Requests \cup {None}, room : Room,
         member : Membership, record : IdempotencyRecord,
         id : MessageIDs \cup {None}]

NoWork == [step |-> "idle", request |-> None, room |-> NoRoom,
           member |-> NotMember, record |-> NotUsed, id |-> None]

DynamoTypeOK == ServerTypeOK /\ work \in [Calls -> Work]

DynamoInit == ServerInit /\ work = [c \in Calls |-> NoWork]

-----------------------------------------------------------------------------
(* How a handler goes on. *)

Finish(c, result, message) ==
  /\ calls' = [calls EXCEPT ![c] =
       Answered(work[c].request, @.snapshot, result, message)]
  /\ work' = [work EXCEPT ![c] = NoWork]

GoTo(c, step) ==
  /\ work' = [work EXCEPT ![c].step = step]
  /\ UNCHANGED calls

RunningCalls == {c \in Calls : work[c].step # "idle"}

(* A request arrives; every route but createRoom reads META. *)
Receive(c, q) ==
  LET begun(step) == [NoWork EXCEPT !.step = step, !.request = q]
      refused(result) == Answered(q, NoSnapshot, result, None) IN
  /\ calls[c].phase = "idle" /\ c \notin RunningCalls
  /\ \A d \in 1 .. c - 1 : calls[d].phase # "idle" \/ d \in RunningCalls
  /\ Cardinality(RunningCalls) < MaxInFlight
  /\ \/ /\ q.op = "create"
        /\ calls' = [calls EXCEPT ![c] = Authorized(q, NoSnapshot)]
        /\ work' = [work EXCEPT ![c] = begun("transaction")]
     \/ /\ q.op = "grant" /\ q.role \notin MutableRoles
        /\ calls' = [calls EXCEPT ![c] = refused("validation")]
        /\ UNCHANGED work
     \/ /\ q.op # "create" /\ (q.op = "grant" => q.role \in MutableRoles)
        /\ IF Exists(q.room)
           THEN /\ work' = [work EXCEPT ![c] =
                     [begun("membership") EXCEPT !.room = room[q.room]]]
                /\ UNCHANGED calls
           ELSE /\ calls' = [calls EXCEPT ![c] = refused("not_found")]
                /\ UNCHANGED work
  /\ UNCHANGED vars

(* The membership is read after META; Verified Permissions decides on both. *)
ReadMembership(c) ==
  LET q      == work[c].request
      rm     == work[c].room
      member == members[q.room][q.agent] IN
  /\ work[c].step = "membership"
  /\ IF CedarAllows(q.agent, ActionOf[q.op], rm, member, q.target, q.role)
     THEN /\ calls' = [calls EXCEPT ![c] = Authorized(q,
               [roomVersion |-> rm.version, memberVersion |-> member.version,
                nickname |-> member.nickname])]
          /\ work' = [work EXCEPT ![c].step = "items"]
     ELSE Finish(c, "denied", None)
  /\ UNCHANGED vars

(* What the store reads before it writes. *)
ReadTarget(c) ==
  LET q    == work[c].request
      seen == members[q.room][q.target]
      next == IF q.op = "grant" /\ seen.role = q.role THEN "guard"
              ELSE "transaction" IN
  IF q.target \in {q.agent, room[q.room].owner} THEN Finish(c, "denied", None)
  ELSE IF q.op = "revoke" /\ seen = NotMember THEN Finish(c, "not_found", None)
  ELSE /\ work' = [work EXCEPT ![c].step = next, ![c].member = seen]
       /\ UNCHANGED calls

ReadSelf(c) ==
  LET q    == work[c].request
      seen == members[q.room][q.agent]
      next == IF seen.nickname = q.nickname THEN "guard" ELSE "transaction" IN
  IF seen = NotMember \/ ~RoleCan(seen.role, "UpdateNickname")
  THEN Finish(c, "denied", None)
  ELSE /\ work' = [work EXCEPT ![c].step = next, ![c].member = seen]
       /\ UNCHANGED calls

(* An id is minted long before the message is stored. *)
Unminted == MessageIDs \ (UsedMessageIDs \cup {work[c].id : c \in Calls})

ReadKey(c) ==
  LET q    == work[c].request
      used == idempotency[q.room][q.agent][q.key] IN
  /\ IF used # NotUsed
     THEN work' = [work EXCEPT ![c].step = "guard", ![c].record = used]
     ELSE \E id \in Unminted :
            /\ \A other \in Unminted : id <= other
            /\ work' = [work EXCEPT ![c].step = "transaction", ![c].id = id]
  /\ UNCHANGED calls

ReadItems(c) ==
  LET op == work[c].request.op IN
  /\ work[c].step = "items"
  /\ \/ op \in {"grant", "revoke"} /\ ReadTarget(c)
     \/ op = "nickname" /\ ReadSelf(c)
     \/ op = "post" /\ ReadKey(c)
  /\ UNCHANGED vars

-----------------------------------------------------------------------------
(* Condition checks. *)

RoomOpen(r) == Exists(r) /\ ~room[r].archived

RoomUnchanged(c) ==
  LET r == work[c].request.room IN
  RoomOpen(r) /\ room[r].version = calls[c].snapshot.roomVersion

(* Faulty: the version is not compared. *)
ActorHasRole(c) ==
  LET q == work[c].request IN
  members[q.room][q.agent].role \in PermittedRoles[ActionOf[q.op]]

(* Here a version of 0 is a version like any other. *)
ActorUnchanged(c) ==
  LET q      == work[c].request
      member == members[q.room][q.agent] IN
  /\ member.role \in PermittedRoles[ActionOf[q.op]]
  /\ member.version = calls[c].snapshot.memberVersion

KeyOf(n) == IF n = None THEN None ELSE NicknameKey[n]

(* Faulty: an unconditional put. *)
AlwaysFree(q) == TRUE

KeyFree(q) == idempotency[q.room][q.agent][q.key] = NotUsed

(* The condition on the membership item to be deleted or updated. *)
TargetUnchanged(c) ==
  LET q      == work[c].request
      seen   == work[c].member
      target == members[q.room][q.target] IN
  /\ target.role \notin {None, "owner"}
  /\ target.version = seen.version
  /\ KeyOf(target.nickname) = KeyOf(seen.nickname)
  /\ seen.nickname # None =>
       nicknames[q.room][KeyOf(seen.nickname)] = q.target

(* The reservation is touched only if the key changes. *)
KeyChanges(c) == KeyOf(work[c].member.nickname) # NicknameKey[work[c].request.nickname]

NicknameClaimable(c) ==
  LET q    == work[c].request
      seen == work[c].member
      self == members[q.room][q.agent] IN
  /\ self.role = seen.role
  /\ self.version = calls[c].snapshot.memberVersion
  /\ KeyChanges(c) =>
       /\ nicknames[q.room][NicknameKey[q.nickname]] \in {None, q.agent}
       /\ seen.nickname # None =>
            nicknames[q.room][KeyOf(seen.nickname)] = q.agent

(* All the conditions of the transaction a call sends. *)
Conditions(c) ==
  LET q == work[c].request
      r == q.room IN
  CASE q.op = "create" ->
         /\ ~Exists(r) /\ ~IsMember(r, q.agent)
         /\ quotas[q.agent] < MaxRoomsPerAgent
    [] q.op = "grant" ->
         /\ ActorUnchanged(c) /\ RoomUnchanged(c)
         /\ room[r].memberCount < MaxMembersPerRoom
         /\ ~IsMember(r, q.target)
    [] q.op = "revoke" ->
         ActorUnchanged(c) /\ RoomUnchanged(c) /\ TargetUnchanged(c)
    [] q.op = "nickname" -> RoomOpen(r) /\ NicknameClaimable(c)
    [] q.op = "post" ->
         /\ RoomOpen(r) /\ ActorUnchanged(c) /\ KeyFree(q)
         /\ \A m \in messages[r] : m.id # work[c].id

-----------------------------------------------------------------------------
(* The writes of the transactions, item by item. *)

PutRoom(q) ==
  /\ room' = [room EXCEPT ![q.room] =
       [owner |-> q.agent, version |-> 1, archived |-> FALSE, memberCount |-> 1]]
  /\ members' = [members EXCEPT ![q.room][q.agent] =
       [role |-> "owner", version |-> 1, nickname |-> None]]
  /\ audits' = [audits EXCEPT ![q.room] =
       Append(@, Audit("room_created", q.agent, q.agent, "owner"))]
  /\ quotas' = [quotas EXCEPT ![q.agent] = @ + 1]
  /\ UNCHANGED <<nicknames, messages, idempotency>>

UpdateRoom(r, countChange) ==
  /\ room[r].version < MaxRoomVersion
  /\ room' = [room EXCEPT ![r].version = @ + 1,
                          ![r].memberCount = @ + countChange]

PutMember(q) ==
  /\ members' = [members EXCEPT ![q.room][q.target] =
       [role |-> q.role, version |-> 1, nickname |-> None]]
  /\ UpdateRoom(q.room, 1)
  /\ audits' = [audits EXCEPT ![q.room] =
       Append(@, Audit("allowlist_granted", q.agent, q.target, q.role))]
  /\ UNCHANGED <<nicknames, messages, idempotency, quotas>>

(* The reservation to delete is the one of the membership that was read. *)
DeleteMember(q, seen) ==
  /\ members' = [members EXCEPT ![q.room][q.target] = NotMember]
  /\ UpdateRoom(q.room, -1)
  /\ audits' = [audits EXCEPT ![q.room] =
       Append(@, Audit("allowlist_revoked", q.agent, q.target, None))]
  /\ nicknames' = [nicknames EXCEPT ![q.room] =
       [k \in NicknameKeys |-> IF k = KeyOf(seen.nickname) THEN None ELSE @[k]]]
  /\ UNCHANGED <<messages, idempotency, quotas>>

Reclaimed(c) ==
  LET q   == work[c].request
      old == KeyOf(work[c].member.nickname)
      new == NicknameKey[q.nickname] IN
  [k \in NicknameKeys |->
     IF ~KeyChanges(c) THEN nicknames[q.room][k]
     ELSE CASE k = new -> q.agent
            [] k = old -> None
            [] OTHER   -> nicknames[q.room][k]]

UpdateNickname(c) ==
  LET q == work[c].request IN
  /\ members[q.room][q.agent].version < MaxMemberVersion
  /\ members' = [members EXCEPT ![q.room][q.agent] =
       [role |-> @.role, version |-> @.version + 1, nickname |-> q.nickname]]
  /\ nicknames' = [nicknames EXCEPT ![q.room] = Reclaimed(c)]
  /\ UNCHANGED <<room, messages, idempotency, audits, quotas>>

PutMessage(c) ==
  LET q == work[c].request IN
  /\ messages' = [messages EXCEPT ![q.room] = @ \cup
       {[id |-> work[c].id, author |-> q.agent, body |-> q.body, key |-> q.key,
         nickname |-> calls[c].snapshot.nickname]}]
  /\ idempotency' = [idempotency EXCEPT ![q.room][q.agent][q.key] =
       [body |-> q.body, id |-> work[c].id]]
  /\ UNCHANGED <<room, members, nicknames, audits, quotas>>

Effects(c) ==
  LET q == work[c].request IN
  \/ q.op = "create" /\ PutRoom(q)
  \/ q.op = "grant" /\ PutMember(q)
  \/ q.op = "revoke" /\ DeleteMember(q, work[c].member)
  \/ q.op = "nickname" /\ UpdateNickname(c)
  \/ q.op = "post" /\ PutMessage(c)

(* DynamoDB refuses a request that defines a value no expression uses.     *)
(* The change of a member's role defines :maxMembers and does not use it.  *)
Malformed(c) ==
  work[c].request.op = "grant" /\ work[c].member # NotMember

Commit(c) ==
  /\ work[c].step = "transaction"
  /\ ~Malformed(c) /\ Conditions(c)
  /\ Effects(c)
  /\ \/ Finish(c, "ok", work[c].id)
     \/ Failures /\ Finish(c, "internal", None)

(* A post looks at its key again; the others are answered. *)
Cancel(c) ==
  /\ work[c].step = "transaction"
  /\ ~Malformed(c) /\ ~Conditions(c)
  /\ IF work[c].request.op = "post" THEN GoTo(c, "recheck")
     ELSE Finish(c, "conflict", None)
  /\ UNCHANGED vars

Reject(c) ==
  /\ work[c].step = "transaction"
  /\ Malformed(c)
  /\ Finish(c, "dependency", None)
  /\ UNCHANGED vars

-----------------------------------------------------------------------------
(* What follows when there is nothing to write, or a post was cancelled. *)

GuardHolds(c) ==
  LET q == work[c].request IN
  /\ ActorUnchanged(c)
  /\ IF q.op = "grant" THEN RoomUnchanged(c) ELSE RoomOpen(q.room)

(* The stored message is the answer, if it has the same body. *)
AnswerReplay(c) ==
  LET q    == work[c].request
      used == work[c].record IN
  IF used.body # q.body THEN Finish(c, "conflict", None)
  ELSE IF \E m \in messages[q.room] : m.id = used.id
  THEN Finish(c, "replay", used.id)
  ELSE Finish(c, "not_found", None)

(* A transaction of condition checks only. *)
Guard(c) ==
  LET isPost == work[c].request.op = "post" IN
  /\ work[c].step = "guard"
  /\ \/ GuardHolds(c) /\ isPost /\ AnswerReplay(c)
     \/ GuardHolds(c) /\ ~isPost /\ Finish(c, "unchanged", None)
     \/ ~GuardHolds(c) /\ isPost /\ GoTo(c, "classify")
     \/ ~GuardHolds(c) /\ ~isPost /\ Finish(c, "conflict", None)
  /\ UNCHANGED vars

(* Faulty: a cancelled post is a conflict. *)
RecheckNothing(c) ==
  /\ work[c].step = "recheck"
  /\ Finish(c, "conflict", None)
  /\ UNCHANGED vars

(* Faulty: without a key to replay the transaction is tried again. *)
RecheckAndRetry(c) ==
  LET q    == work[c].request
      used == idempotency[q.room][q.agent][q.key] IN
  /\ work[c].step = "recheck"
  /\ IF used # NotUsed
     THEN /\ work' = [work EXCEPT ![c].step = "guard", ![c].record = used]
          /\ UNCHANGED calls
     ELSE GoTo(c, "transaction")
  /\ UNCHANGED vars

Recheck(c) ==
  LET q    == work[c].request
      used == idempotency[q.room][q.agent][q.key] IN
  /\ work[c].step = "recheck"
  /\ IF used # NotUsed
     THEN /\ work' = [work EXCEPT ![c].step = "guard", ![c].record = used]
          /\ UNCHANGED calls
     ELSE GoTo(c, "classify")
  /\ UNCHANGED vars

Classify(c) ==
  LET q     == work[c].request
      check == CheckActor(q.room, q.agent, calls[c].snapshot.memberVersion,
                          "PostMessage") IN
  /\ work[c].step = "classify"
  /\ Finish(c, IF ~RoomOpen(q.room) THEN "denied"
               ELSE IF check = "ok" THEN "conflict" ELSE check, None)
  /\ UNCHANGED vars

(* A read, a permission or a transaction fails and nothing is written. *)
Fail(c) ==
  /\ Failures
  /\ c \in RunningCalls
  /\ Finish(c, "dependency", None)
  /\ UNCHANGED vars

Proceed(c) ==
  \/ ReadMembership(c)
  \/ ReadItems(c)
  \/ Commit(c)
  \/ Cancel(c)
  \/ Reject(c)
  \/ Guard(c)
  \/ Recheck(c)
  \/ Classify(c)

DynamoNext ==
  \E c \in Calls :
    \/ \E q \in Requests : Receive(c, q)
    \/ Proceed(c)
    \/ Fail(c)

(* Every request of the service is answered or times out. *)
DynamoFairness == \A c \in Calls : WF_dynamoVars(Proceed(c))

DynamoSpec == DynamoInit /\ [][DynamoNext]_dynamoVars /\ DynamoFairness

-----------------------------------------------------------------------------
(* Properties. *)

(* Call c's agent has been readmitted to the room since c read META. *)
Readmitted(c) ==
  LET q == calls[c].request IN
  RevokedSince(q.room, q.agent, calls[c].snapshot.roomVersion)

(* The nickname of call c's agent is not reserved for it.                  *)
Unreserved(c) ==
  LET q    == calls[c].request
      held == members[q.room][q.agent].nickname IN
  held # None /\ nicknames[q.room][NicknameKey[held]] # q.agent

(* Every transaction is what MemoryStore does in one call with the same    *)
(* arguments, in one atomic step, and its checks would have allowed it:    *)
(* the reads of the handler, however stale, change nothing about that.     *)
(* Except for a member who renames itself while it is removed and admitted *)
(* again, and for the later renames of a member whose nickname such a      *)
(* rename left unreserved: see ReservationsMatchMembers.                   *)
CommitsAsStore ==
  [][\/ UNCHANGED vars
     \/ \E c \in Calls :
          /\ calls[c].phase = "authorized" /\ calls'[c].phase = "answered"
          /\ \/ \E id \in MessageIDs \cup {None} : StoreWrite(c, id)
             \/ calls[c].request.op = "nickname" /\ (Readmitted(c) \/ Unreserved(c))
    ]_dynamoVars

(* A post is answered 409 for a reason its author can do something about:  *)
(* the key is in use for another body, or the author's membership changed  *)
(* while the post was under way.  A retry that loses against its own first *)
(* try is not one (README, step 4: the same key and body return the        *)
(* original message).                                                      *)
PostConflictsHaveACause ==
  \A c \in Calls :
    LET q == calls[c].request IN
    /\ IsAnswered(c)
    /\ q.op = "post"
    /\ Status(c) = 409
    => \/ idempotency[q.room][q.agent][q.key].body \notin {None, q.body}
       \/ members[q.room][q.agent].version # calls[c].snapshot.memberVersion
       \/ Readmitted(c)

(* As long as the services answer, nobody is told that they do not         *)
(* (writeHandlerError: "A required dependency is unavailable.").           *)
UnavailableOnlyInOutage ==
  ~Failures => \A c \in Calls : IsAnswered(c) => Status(c) # 503

(* Every request is answered, whatever the others do and whatever fails.   *)
EveryRequestAnswered ==
  \A c \in Calls : c \in RunningCalls ~> calls[c].phase = "answered"

=============================================================================
