--------------------------- MODULE MCBoardAnswers ---------------------------
(* A small board for TLC, with either store (BOARD_BACKEND): a client reads *)
(* from the one in memory, or an owner and a guest call the handlers of the *)
(* table.                                                                   *)
EXTENDS DynamoServer, MessageFeed, TLC

CONSTANTS boss, guest, r1, n1, k1, i1, i2, b1, client

VARIABLE backend

boardVars == <<vars, calls, work, sessions, backend>>

MCNicknameKey == n1 :> k1
MCAgentOf == [s \in Sessions |-> guest]
MCRoomOf == [s \in Sessions |-> r1]

ByAgent(op, agent) ==
  [op |-> op, agent |-> agent, room |-> r1, target |-> None, role |-> None,
   nickname |-> None, key |-> None, body |-> None]

SomeRequests ==
  {ByAgent("create", boss),
   [ByAgent("grant", boss) EXCEPT !.target = guest, !.role = "poster"],
   [ByAgent("revoke", boss) EXCEPT !.target = guest],
   [ByAgent("nickname", guest) EXCEPT !.nickname = n1],
   [ByAgent("post", guest) EXCEPT !.key = i1, !.body = b1]}

AnswersInit ==
  /\ backend \in {"memory", "aws"}
  /\ FeedInit /\ DynamoInit

(* The room of the client changes three times, nobody has a nickname, and  *)
(* keys are used in order.                                                 *)
SmallRoom ==
  /\ room[r1].version <= 3
  /\ \A a \in Agents : members[r1][a].version <= 1
  /\ \A m \in messages[r1] : m.nickname = None
  /\ \A a \in Agents :
       idempotency[r1][a][i1] = NotUsed => idempotency[r1][a][i2] = NotUsed

AnswersNext ==
  /\ \/ backend = "memory" /\ FeedNext /\ SmallRoom' /\ UNCHANGED <<calls, work>>
     \/ backend = "aws" /\ DynamoNext /\ UNCHANGED sessions
  /\ UNCHANGED backend

AnswersSpec ==
  AnswersInit /\ [][AnswersNext]_boardVars /\ DynamoFairness /\ FeedFairness

=============================================================================
