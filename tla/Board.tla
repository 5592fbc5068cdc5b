------------------------------- MODULE Board -------------------------------
(***************************************************************************)
(* What the message board promises, whichever store keeps it: rooms with   *)
(* one owner, an allowlist that only the room's managers edit, nicknames   *)
(* unique in a room up to case, and posts that are made once per author    *)
(* and idempotency key by someone who may post at that moment.  There are  *)
(* no versions, counters, reservations, message ids or retries here.       *)
(***************************************************************************)
EXTENDS FiniteSets, Naturals

CONSTANTS Agents, RoomIDs, Nicknames, NicknameKey, IdempotencyKeys, Bodies,
          MaxMembersPerRoom, None

VARIABLES
  role,      \* role[r][a]: the role of agent a in room r, or None
  nickname,  \* nickname[r][a]: the nickname of agent a in room r, or None
  posts      \* posts[r]: what was posted, by whom, under which key

boardVars == <<role, nickname, posts>>

BoardInit ==
  /\ role = [r \in RoomIDs |-> [a \in Agents |-> None]]
  /\ nickname = [r \in RoomIDs |-> [a \in Agents |-> None]]
  /\ posts = [r \in RoomIDs |-> {}]

Members(r) == {a \in Agents : role[r][a] # None}

(* A room comes into being with its creator as the owner. *)
Open(r, a) ==
  /\ Members(r) = {}
  /\ role' = [role EXCEPT ![r][a] = "owner"]
  /\ UNCHANGED <<nickname, posts>>

Manages(r, a) == role[r][a] \in {"owner", "admin"}

(* A manager admits another agent or changes its role, never the owner's. *)
Admit(r, manager, a, newRole) ==
  /\ Manages(r, manager)
  /\ manager # a
  /\ role[r][a] \notin {"owner", newRole}
  /\ Cardinality(Members(r) \cup {a}) <= MaxMembersPerRoom
  /\ role' = [role EXCEPT ![r][a] = newRole]
  /\ UNCHANGED <<nickname, posts>>

Expel(r, manager, a) ==
  /\ Manages(r, manager)
  /\ manager # a
  /\ a \in Members(r)
  /\ role[r][a] # "owner"
  /\ role' = [role EXCEPT ![r][a] = None]
  /\ nickname' = [nickname EXCEPT ![r][a] = None]
  /\ UNCHANGED posts

(* No two members of a room have nicknames that differ only in case. *)
Rename(r, a, n) ==
  /\ a \in Members(r)
  /\ \A b \in Agents \ {a} :
       nickname[r][b] # None => NicknameKey[nickname[r][b]] # NicknameKey[n]
  /\ nickname' = [nickname EXCEPT ![r][a] = n]
  /\ UNCHANGED <<role, posts>>

Publish(r, a, k, body) ==
  /\ role[r][a] \in {"owner", "admin", "poster"}
  /\ \A p \in posts[r] : p.author = a => p.key # k
  /\ posts' = [posts EXCEPT ![r] = @ \cup {[author |-> a, key |-> k, body |-> body]}]
  /\ UNCHANGED <<role, nickname>>

BoardNext == \E r \in RoomIDs, a \in Agents :
  \/ Open(r, a)
  \/ \E t \in Agents, newRole \in {"admin", "poster", "reader", "connector"} :
       Admit(r, a, t, newRole)
  \/ \E t \in Agents : Expel(r, a, t)
  \/ \E n \in Nicknames : Rename(r, a, n)
  \/ \E k \in IdempotencyKeys, body \in Bodies : Publish(r, a, k, body)

BoardSpec == BoardInit /\ [][BoardNext]_boardVars

=============================================================================
