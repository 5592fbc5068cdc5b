---------------------------- MODULE BoardServer ----------------------------
(***************************************************************************)
(* The HTTP handlers of the message board (recipe 29, httpapi/server.go)   *)
(* over the room store.  Handlers of different requests run concurrently.  *)
(* A handler that changes a room takes the store's mutex twice: once to    *)
(* read the room and the caller's membership (GetRoomForAgent), on which   *)
(* LocalAuthorizer decides, and once to write, passing the versions it     *)
(* read.  Anything may happen between the two.                             *)
(*                                                                         *)
(* A call is one HTTP request with its handler: "idle" before it arrives,  *)
(* "authorized" between the two critical sections, "answered" at the end.  *)
(* The retry of a request is another call with the same request.           *)
(*                                                                         *)
(* Left out: reading a token from the request, JSON decoding and name      *)
(* validation, and the read-only routes.                                   *)
(*                                                                         *)
(* A definition marked Faulty is a mistake its neighbour below could have  *)
(* contained: nothing uses it, and the properties must tell it apart.      *)
(***************************************************************************)
EXTENDS BoardAuthorization

CONSTANTS
  MaxCalls,     \* bound of the model: the requests made in a behaviour
  MaxInFlight,  \* bound of the model: the handlers running at a time
  Requests      \* what a request may ask for

(* Calls are numbered as they arrive. *)
Calls == 1 .. MaxCalls

Request == [op : {"create", "post", "nickname", "grant", "revoke"},
            agent : Agents, room : RoomIDs,
            target : Agents \cup {None}, role : Roles \cup {None},
            nickname : Nicknames \cup {None},
            key : IdempotencyKeys \cup {None}, body : Bodies \cup {None}]

(* The fields a request of a given kind carries are filled in.             *)
ASSUME RequestAssumption ==
  /\ MaxCalls \in Nat /\ MaxInFlight \in Nat
  /\ Requests \subseteq Request
  /\ \A q \in Requests :
       /\ q.op \in {"grant", "revoke"} => q.target \in Agents
       /\ q.op = "grant" => q.role \in Roles
       /\ q.op = "nickname" => q.nickname \in Nicknames
       /\ q.op = "post" => q.key \in IdempotencyKeys /\ q.body \in Bodies

VARIABLE calls  \* calls[c]: the progress of call c

serverVars == <<vars, calls>>

Results == {"ok", "unchanged", "replay", "conflict", "denied", "not_found",
            "validation", "dependency", "internal"}

(* What a handler keeps of the room and membership it read. *)
Snapshot == [roomVersion : Nat, memberVersion : Nat,
             nickname : Nicknames \cup {None}]

NoSnapshot == [roomVersion |-> 0, memberVersion |-> 0, nickname |-> None]

Call == [phase : {"idle", "authorized", "answered"},
         request : Requests \cup {None}, snapshot : Snapshot,
         result : Results \cup {None}, message : MessageIDs \cup {None}]

IdleCall == [phase |-> "idle", request |-> None, snapshot |-> NoSnapshot,
             result |-> None, message |-> None]

ServerTypeOK == TypeOK /\ calls \in [Calls -> Call]

ServerInit == Init /\ calls = [c \in Calls |-> IdleCall]

-----------------------------------------------------------------------------
(* The first half of a handler: snapshot and authorization. *)

SnapshotOf(r, a) ==
  [roomVersion |-> room[r].version, memberVersion |-> members[r][a].version,
   nickname |-> members[r][a].nickname]

ActionOf ==
  [post |-> "PostMessage", nickname |-> "UpdateNickname",
   grant |-> "UpdateAllowList", revoke |-> "UpdateAllowList"]

(* Faulty: whoever is not on the allowlist is left to the store. *)
AuthorizeOpen(q) == IF room[q.room].archived THEN "denied" ELSE "ok"

Authorize(q) ==
  IF LocalAllows(q.agent, ActionOf[q.op], room[q.room],
                 members[q.room][q.agent], q.target, q.role)
  THEN "ok" ELSE "denied"

(* The role of a grant is validated before the room is looked at; creating *)
(* a room needs no snapshot and no permission.                             *)
AdmitResult(q) ==
  IF q.op = "create" THEN "ok"
  ELSE IF q.op = "grant" /\ q.role \notin MutableRoles THEN "validation"
  ELSE IF ~Exists(q.room) THEN "not_found"
  ELSE Authorize(q)

Answered(q, snapshot, result, message) ==
  [phase |-> "answered", request |-> q, snapshot |-> snapshot,
   result |-> result, message |-> message]

Authorized(q, snapshot) ==
  [phase |-> "authorized", request |-> q, snapshot |-> snapshot,
   result |-> None, message |-> None]

Arrive(c, q) ==
  LET snapshot == IF q.op = "create" THEN NoSnapshot
                  ELSE SnapshotOf(q.room, q.agent)
      result   == AdmitResult(q) IN
  /\ calls[c].phase = "idle"
  /\ \A d \in 1 .. c - 1 : calls[d].phase # "idle"
  /\ Cardinality({d \in Calls : calls[d].phase = "authorized"}) < MaxInFlight
  /\ calls' = [calls EXCEPT ![c] =
       IF result = "ok" THEN Authorized(q, snapshot)
       ELSE Answered(q, snapshot, result, None)]
  /\ UNCHANGED vars

-----------------------------------------------------------------------------
(* The second half: one call of the store, with the versions of the        *)
(* snapshot, and the answer.                                               *)

StoreResult(c) ==
  LET q == calls[c].request
      s == calls[c].snapshot IN
  CASE q.op = "create"   -> CreateRoomResult(q.room, q.agent)
    [] q.op = "post"     -> PostResult(q.room, q.agent, q.key, q.body,
                                       s.memberVersion)
    [] q.op = "nickname" -> SetNicknameResult(q.room, q.agent, q.nickname,
                                              s.memberVersion)
    [] q.op = "grant"    -> GrantResult(q.room, q.agent, q.target, q.role,
                                        s.memberVersion, s.roomVersion)
    [] q.op = "revoke"   -> RevokeResult(q.room, q.agent, q.target,
                                         s.memberVersion, s.roomVersion)

StoreWrite(c, id) ==
  LET q == calls[c].request
      s == calls[c].snapshot IN
  \/ q.op = "create" /\ CreateRoom(q.room, q.agent)
  \/ q.op = "post" /\ PostMessage(q.room, q.agent, q.key, q.body, s.nickname,
                                  s.memberVersion, id)
  \/ q.op = "nickname" /\ SetNickname(q.room, q.agent, q.nickname,
                                      s.memberVersion)
  \/ q.op = "grant" /\ GrantAllowlist(q.room, q.agent, q.target, q.role,
                                      s.memberVersion, s.roomVersion)
  \/ q.op = "revoke" /\ RevokeAllowlist(q.room, q.agent, q.target,
                                        s.memberVersion, s.roomVersion)

Answer(c, result, message) ==
  calls' = [calls EXCEPT ![c] =
    Answered(@.request, @.snapshot, result, message)]

(* The store changed something. *)
Write(c) ==
  /\ calls[c].phase = "authorized"
  /\ StoreResult(c) = "ok"
  /\ IF calls[c].request.op = "post"
     THEN \E id \in MessageIDs : StoreWrite(c, id) /\ Answer(c, "ok", id)
     ELSE StoreWrite(c, None) /\ Answer(c, "ok", None)

(* The store refused, or found nothing to do. *)
Refuse(c) ==
  LET q == calls[c].request IN
  /\ calls[c].phase = "authorized"
  /\ StoreResult(c) # "ok"
  /\ Answer(c, StoreResult(c),
            IF StoreResult(c) = "replay"
            THEN idempotency[q.room][q.agent][q.key].id ELSE None)
  /\ UNCHANGED vars

ServerNext ==
  \E c \in Calls :
    \/ \E q \in Requests : Arrive(c, q)
    \/ Write(c)
    \/ Refuse(c)

ServerSpec == ServerInit /\ [][ServerNext]_serverVars

-----------------------------------------------------------------------------
(* Faulty: a replay is reported as created. *)
StatusCreated(c) == IF calls[c].result \in {"ok", "replay"} THEN 201 ELSE 404

(* What the callers get.  Denied and not found look the same.              *)
Status(c) ==
  LET result == calls[c].result
      op     == calls[c].request.op IN
  CASE result = "validation"               -> 400
    [] result = "conflict"                 -> 409
    [] result \in {"denied", "not_found"}  -> 404
    [] result = "dependency"               -> 503
    [] result = "internal"                 -> 500
    [] result = "ok" /\ op \in {"create", "post"} -> 201
    [] OTHER                               -> 200

IsAnswered(c) == calls[c].phase = "answered"

(* c changed the allowlist of r. *)
ChangedAllowlist(c, r) ==
  /\ IsAnswered(c)
  /\ calls[c].result = "ok"
  /\ calls[c].request.op \in {"grant", "revoke"}
  /\ calls[c].request.room = r

(* c is a post that was answered with a message. *)
GotMessage(c) ==
  /\ IsAnswered(c)
  /\ calls[c].request.op = "post"
  /\ Status(c) \in {200, 201}

-----------------------------------------------------------------------------
(* Properties. *)

(* No lost update: of all the calls that read the same version of a room,  *)
(* by whichever managers, at most one changes the allowlist, however their *)
(* snapshots and writes interleave.                                        *)
NoLostUpdate ==
  \A r \in RoomIDs : \A c, d \in Calls :
    /\ ChangedAllowlist(c, r)
    /\ ChangedAllowlist(d, r)
    /\ calls[c].snapshot.roomVersion = calls[d].snapshot.roomVersion
    => c = d

(* A key used by one author in one room stands for one message: all posts  *)
(* answered with a message agree on it and on its body, that message is in *)
(* the room, and only one of them was answered 201, however they race.     *)
RetriesAgree ==
  \A c, d \in {e \in Calls : GotMessage(e)} :
    LET q == calls[c].request
        p == calls[d].request IN
    /\ \E m \in messages[q.room] :
         /\ m.id = calls[c].message
         /\ <<m.author, m.key, m.body>> = <<q.agent, q.key, q.body>>
    /\ <<q.room, q.agent, q.key>> = <<p.room, p.agent, p.key>> =>
         /\ calls[c].message = calls[d].message
         /\ q.body = p.body
         /\ Status(c) = 201 /\ Status(d) = 201 => c = d

(* The answers account for the state: every message was answered 201 once, *)
(* every audit record after the first is one successful grant or revoke,   *)
(* and no refused or repeated call left a trace.                           *)
AnswersMatchEffects ==
  \A r \in RoomIDs :
    /\ Cardinality(messages[r]) =
         Cardinality({c \in Calls : /\ GotMessage(c)
                                    /\ Status(c) = 201
                                    /\ calls[c].request.room = r})
    /\ Exists(r) => Len(audits[r]) =
         1 + Cardinality({c \in Calls : ChangedAllowlist(c, r)})

(* Whoever was never on the allowlist of a room gets for every request to  *)
(* edit it or to post to it the 404 of a room that does not exist (or 400  *)
(* for a role no room would accept), also when the room is created, edited *)
(* or posted to while the call is under way.  This is not so of a request  *)
(* to create it: of a room that exists anybody is told by a 409.           *)
OutsidersSee404 ==
  \A c \in Calls :
    LET q == calls[c].request IN
    /\ IsAnswered(c)
    /\ q.op # "create"
    /\ \A i \in DOMAIN audits[q.room] : audits[q.room][i].target # q.agent
    => \/ Status(c) = 404
       \/ Status(c) = 400 /\ q.op = "grant" /\ q.role \notin MutableRoles

(* An entry of agent a was removed from room r after the given version of   *)
(* the room, which is also the number of its audit records.                *)
RevokedSince(r, a, version) ==
  \E i \in DOMAIN audits[r] :
    /\ i > version
    /\ audits[r][i].event = "allowlist_revoked"
    /\ audits[r][i].target = a

(* A message carries the nickname its author has at the moment the message *)
(* is stored, although the handler read it earlier, unless the author was  *)
(* removed and admitted again in between: the version of a membership      *)
(* starts over with the new entry and may come to the value read before.   *)
NicknameIsCurrent ==
  [][\A r \in RoomIDs, c \in Calls :
       /\ calls[c].phase = "authorized"
       /\ calls'[c].phase = "answered"
       /\ calls[c].request.op = "post"
       /\ calls[c].request.room = r
       => LET a == calls[c].request.agent IN
          \A m \in messages'[r] \ messages[r] :
            \/ m.nickname = members[r][a].nickname
            \/ RevokedSince(r, a, calls[c].snapshot.roomVersion)
     ]_serverVars

=============================================================================
