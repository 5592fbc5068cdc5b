------------------------- MODULE BoardAuthorization -------------------------
(***************************************************************************)
(* The two authorizers of the message board (recipe 29): LocalAuthorizer   *)
(* in Go (authorization/authorizer.go) and the Cedar policies that Amazon  *)
(* Verified Permissions evaluates on the entities AVPAuthorizer sends      *)
(* (policy/board.cedar, authorization/avp.go).  A server uses one or the   *)
(* other; both decide on a room, the caller's membership of it and, for a  *)
(* change of the allowlist, the target and the new role.                   *)
(***************************************************************************)
EXTENDS BoardStore

RoomActions == DOMAIN PermittedRoles

LocalAllows(agent, action, rm, member, target, newRole) ==
  /\ action = "UpdateAllowList" => newRole # "owner" /\ target # rm.owner
  /\ ~rm.archived
  /\ \/ rm.owner = agent
     \/ member.role # None /\ RoleCan(member.role, action)

-----------------------------------------------------------------------------
(* The policies.  The membership makes the agent a child of one role; no    *)
(* policy mentions the role of owners, who are known by their name.        *)

CedarPermits ==
  [admin     |-> RoomActions,
   poster    |-> {"ConnectRoom", "ReadMessages", "PostMessage", "UpdateNickname"},
   reader    |-> {"ConnectRoom", "ReadMessages", "UpdateNickname"},
   connector |-> {"ConnectRoom", "UpdateNickname"}]

(* Faulty: only the new role is looked at. *)
CedarForbidsRole(action, rm, target, newRole) ==
  action = "UpdateAllowList" /\ newRole = "owner"

CedarForbids(action, rm, target, newRole) ==
  action = "UpdateAllowList" /\ (target = rm.owner \/ newRole = "owner")

CedarAllows(agent, action, rm, member, target, newRole) ==
  /\ ~rm.archived
  /\ \/ agent = rm.owner
     \/ \E role \in DOMAIN CedarPermits :
          member.role = role /\ action \in CedarPermits[role]
  /\ ~CedarForbids(action, rm, target, newRole)

-----------------------------------------------------------------------------
(* Whichever authorizer a server is started with, it lets the same agents   *)
(* do the same things: on every snapshot of a room that the store can      *)
(* produce the matrix of RoleCan and the policies decide alike.            *)
AuthorizersAgree ==
  \A r \in RoomIDs, a \in Agents, action \in RoomActions,
     t \in Agents \cup {None}, role \in Roles \cup {None} :
    Exists(r) =>
      (LocalAllows(a, action, room[r], members[r][a], t, role)
         <=> CedarAllows(a, action, room[r], members[r][a], t, role))

=============================================================================
