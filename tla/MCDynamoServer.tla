--------------------------- MODULE MCDynamoServer ---------------------------
(* Small instances of DynamoServer for TLC. *)
EXTENDS DynamoServer, TLC

CONSTANTS boss, deputy, guest, r1, r2, n1, N1, n2, k1, k2, i1, b1, b2

(* n1 and N1 differ only in case. *)
MCNicknames == {n1, N1, n2}
MCNicknameKey == (n1 :> k1) @@ (N1 :> k1) @@ (n2 :> k2)

Ask(op, agent, target, role, nickname, key, body) ==
  [op |-> op, agent |-> agent, room |-> r1, target |-> target, role |-> role,
   nickname |-> nickname, key |-> key, body |-> body]

Create(a) == Ask("create", a, None, None, None, None, None)
Grant(a, t, role) == Ask("grant", a, t, role, None, None, None)
Revoke(a, t) == Ask("revoke", a, t, None, None, None, None)
Rename(a, n) == Ask("nickname", a, None, None, n, None, None)
PostAs(a, body) == Ask("post", a, None, None, None, i1, body)

(* Authors post and retry while they are renamed, removed and readmitted. *)
PosterRequests ==
  {PostAs(guest, b1), PostAs(guest, b2), Rename(guest, n2),
   Revoke(boss, guest), Grant(boss, guest, "poster")}

(* Two managers edit the allowlist while its members change their names,   *)
(* post, and open a room of their own.                                     *)
ManagerRequests ==
  {Grant(boss, guest, "poster"), Grant(boss, guest, "reader"),
   Revoke(boss, guest), Revoke(deputy, guest), Revoke(boss, deputy),
   Rename(guest, N1), Rename(guest, n2), Rename(boss, n1),
   PostAs(guest, b1), [Create(guest) EXCEPT !.room = r2]}

(* The requests of one member and the owner. *)
MemberRequests ==
  {Revoke(boss, guest), Grant(boss, guest, "poster"),
   Rename(guest, N1), Rename(guest, n2)}

(* One of each, and a change of role. *)
EveryRequest ==
  {Create(boss), Grant(boss, guest, "poster"), Grant(boss, guest, "owner"),
   Grant(boss, guest, "reader"), Revoke(boss, guest), Rename(guest, n1),
   PostAs(guest, b1)}

(* r1 after its owner created it, admitted the deputy as an admin and the  *)
(* guest as a poster, and the guest chose the nickname n1.                 *)
EstablishedInit ==
  /\ room = [r \in RoomIDs |-> IF r = r1
       THEN [owner |-> boss, version |-> 3, archived |-> FALSE, memberCount |-> 3]
       ELSE NoRoom]
  /\ members = [r \in RoomIDs |-> IF r = r1
       THEN (boss :> [role |-> "owner", version |-> 1, nickname |-> None])
            @@ (deputy :> [role |-> "admin", version |-> 1, nickname |-> None])
            @@ (guest :> [role |-> "poster", version |-> 2, nickname |-> n1])
       ELSE [a \in Agents |-> NotMember]]
  /\ nicknames = [r \in RoomIDs |->
       (k1 :> IF r = r1 THEN guest ELSE None) @@ (k2 :> None)]
  /\ messages = [r \in RoomIDs |-> {}]
  /\ idempotency =
       [r \in RoomIDs |-> [a \in Agents |-> [k \in IdempotencyKeys |-> NotUsed]]]
  /\ audits = [r \in RoomIDs |-> IF r = r1
       THEN <<Audit("room_created", boss, boss, "owner"),
              Audit("allowlist_granted", boss, deputy, "admin"),
              Audit("allowlist_granted", boss, guest, "poster")>>
       ELSE <<>>]
  /\ quotas = [a \in Agents |-> IF a = boss THEN 1 ELSE 0]
  /\ calls = [c \in Calls |-> IdleCall]
  /\ work = [c \in Calls |-> NoWork]

EstablishedSpec == EstablishedInit /\ [][DynamoNext]_dynamoVars /\ DynamoFairness

(* Calls begin in order: the last one does so only if all are the authors'. *)
RequestOf(c) == IF c \in RunningCalls THEN work[c].request ELSE calls[c].request

LastIsAuthors ==
  RequestOf(MaxCalls) # None => \A c \in Calls : RequestOf(c) \in PosterRequests

AllRequests == PosterRequests \cup ManagerRequests

BusySpec ==
  /\ EstablishedInit
  /\ [][DynamoNext /\ LastIsAuthors']_dynamoVars
  /\ DynamoFairness

=============================================================================
