---------------------------- MODULE MessageFeed ----------------------------
(***************************************************************************)
(* Reading messages of the board (recipe 29): the handler readMessages     *)
(* (httpapi/server.go) with its long poll, over MemoryStore.ReadMessages   *)
(* (store/memory.go), while others post and edit the allowlist.            *)
(*                                                                         *)
(* A session is a client that reads one room, request after request.  A    *)
(* follower asks for what comes after the last message it has and is       *)
(* willing to wait; its first request may name a message ("after") or      *)
(* none.  A pager starts at the newest messages and goes back with the     *)
(* cursor of each page until there is none.                                *)
(*                                                                         *)
(* The handler looks at the room and its caller (Look), reads in a second  *)
(* critical section (Read), sleeps if there is nothing, and starts over.   *)
(*                                                                         *)
(* Left out: the combination of "after" with a cursor.                     *)
(***************************************************************************)
EXTENDS BoardAuthorization, SequencesExt

CONSTANTS
  Sessions,  \* names of the clients that read
  AgentOf,   \* the agent of each session
  RoomOf,    \* the room it reads
  Limit      \* the page size

ASSUME SessionAssumption ==
  /\ AgentOf \in [Sessions -> Agents]
  /\ RoomOf \in [Sessions -> RoomIDs]
  /\ Limit \in Nat \ {0}

(* An empty "after" is no id, and an empty cursor no position. *)
ASSUME AbsentAssumption == None \notin Nat

VARIABLE sessions  \* sessions[s]: the progress of session s

feedVars == <<vars, sessions>>

(* follows: a follower, or a pager; seen: the ids received, in the order   *)
(* of the room; since: the message a follower starts after, if it names    *)
(* one; cursor: where the pager's next page ends; begun: the version of    *)
(* the room when the handler started or woke up.                           *)
Session == [follows : BOOLEAN,
            step : {"idle", "look", "read", "sleep", "complete", "refused", "gone"},
            seen : Seq(MessageIDs), since : MessageIDs \cup {None},
            cursor : Nat \cup {None}, expired : BOOLEAN, begun : Nat]

NewSession(follows) ==
  [follows |-> follows, step |-> "idle", seen |-> <<>>, since |-> None,
   cursor |-> None, expired |-> FALSE, begun |-> 0]

FeedTypeOK == TypeOK /\ sessions \in [Sessions -> Session]

FeedInit ==
  Init /\ sessions \in [Sessions -> {NewSession(f) : f \in BOOLEAN}]

-----------------------------------------------------------------------------
(* Pages. *)

MessageIDsOf(r) == {m.id : m \in messages[r]}

Ascending(list) == \A i, j \in DOMAIN list : i < j => list[i] < list[j]

(* The ids of a room's messages as the slice the code keeps them in. *)
Ordered(r) ==
  CHOOSE list \in [1 .. Cardinality(MessageIDsOf(r)) -> MessageIDsOf(r)] :
    Ascending(list)

(* Faulty: the search stops one too far. *)
CountUpToNext(list, after) ==
  Cardinality({i \in DOMAIN list : list[i] <= after + 1})

(* How many messages of a room have an id up to after. *)
CountUpTo(list, after) ==
  Cardinality({i \in DOMAIN list : list[i] <= after})

PageEnd(list, cursor) ==
  IF cursor = None \/ cursor > Len(list) THEN Len(list) ELSE cursor

PageStart(list, cursor) ==
  IF PageEnd(list, cursor) > Limit THEN PageEnd(list, cursor) - Limit ELSE 0

(* A pager's page: the Limit messages in front of the cursor; without one  *)
(* the newest.                                                             *)
PageBefore(list, cursor) ==
  SubSeq(list, PageStart(list, cursor) + 1, PageEnd(list, cursor))

(* A follower's page: the first Limit messages with a larger id.  Without  *)
(* an id there is nothing to search for: it gets the newest messages too.  *)
PageAfter(list, after) ==
  LET start == CountUpTo(list, after)
      end   == IF start + Limit > Len(list) THEN Len(list) ELSE start + Limit IN
  IF after = None THEN PageBefore(list, None) ELSE SubSeq(list, start + 1, end)

(* Faulty: pages overlap by one. *)
NextCursorOverlapping(list, cursor) ==
  LET start == PageStart(list, cursor) IN IF start > 0 THEN start + 1 ELSE None

(* A pager's next page ends where this one starts. *)
NextCursor(list, cursor) ==
  LET start == PageStart(list, cursor) IN IF start > 0 THEN start ELSE None

-----------------------------------------------------------------------------
(* The handler. *)

(* A client that knows a message of the room asks for what comes after it. *)
StartAfter(s) ==
  /\ sessions[s].follows /\ sessions[s].step = "idle"
  /\ sessions[s].seen = <<>> /\ sessions[s].since = None
  /\ \E id \in MessageIDsOf(RoomOf[s]) :
       sessions' = [sessions EXCEPT ![s].since = id]
  /\ UNCHANGED vars

(* The "after" of a follower's next request. *)
After(session) == IF session.seen = <<>> THEN session.since ELSE Last(session.seen)

Ask(s) ==
  /\ sessions[s].step = "idle"
  /\ sessions' = [sessions EXCEPT ![s] =
       [@ EXCEPT !.step = "look", !.expired = FALSE,
                 !.begun = room[RoomOf[s]].version]]
  /\ UNCHANGED vars

(* GetRoomForAgent and Authorize.  Whoever may not read gets a 404. *)
Look(s) ==
  LET r       == RoomOf[s]
      a       == AgentOf[s]
      allowed == Exists(r) /\ LocalAllows(a, "ReadMessages", room[r],
                                          members[r][a], None, None) IN
  /\ sessions[s].step = "look"
  /\ sessions' = [sessions EXCEPT ![s].step =
       IF allowed THEN "read" ELSE "refused"]
  /\ UNCHANGED vars

(* Faulty: an empty page is never an answer. *)
HasAnswerOnlyWith(s, page) == page # <<>>

(* A pager does not wait; a follower waits until its time is over. *)
HasAnswer(s, page) == page # <<>> \/ ~sessions[s].follows \/ sessions[s].expired

ReadFollower(s) ==
  LET page == PageAfter(Ordered(RoomOf[s]), After(sessions[s])) IN
  /\ sessions[s].follows /\ sessions[s].step = "read"
  /\ sessions' = [sessions EXCEPT ![s] =
       IF HasAnswer(s, page)
       THEN [@ EXCEPT !.step = "idle", !.seen = sessions[s].seen \o page]
       ELSE [@ EXCEPT !.step = "sleep"]]
  /\ UNCHANGED vars

ReadPager(s) ==
  LET list   == Ordered(RoomOf[s])
      cursor == sessions[s].cursor
      next   == NextCursor(list, cursor) IN
  /\ ~sessions[s].follows /\ sessions[s].step = "read"
  /\ sessions' = [sessions EXCEPT ![s] =
       [@ EXCEPT !.step = IF next = None THEN "complete" ELSE "idle",
                 !.seen = PageBefore(list, cursor) \o sessions[s].seen,
                 !.cursor = next]]
  /\ UNCHANGED vars

(* Faulty: the reader was authorized when it came. *)
WakeAuthorized(s) ==
  /\ sessions[s].step = "sleep"
  /\ sessions' = [sessions EXCEPT ![s] =
       [@ EXCEPT !.step = "read", !.begun = room[RoomOf[s]].version]]
  /\ UNCHANGED vars

(* After half a second everything starts over. *)
Wake(s) ==
  /\ sessions[s].step = "sleep"
  /\ sessions' = [sessions EXCEPT ![s] =
       [@ EXCEPT !.step = "look", !.begun = room[RoomOf[s]].version]]
  /\ UNCHANGED vars

Expire(s) ==
  /\ sessions[s].follows /\ sessions[s].step \in {"look", "read", "sleep"}
  /\ ~sessions[s].expired
  /\ sessions' = [sessions EXCEPT ![s].expired = TRUE]
  /\ UNCHANGED vars

(* The client hangs up. *)
Leave(s) ==
  /\ sessions[s].step = "sleep"
  /\ sessions' = [sessions EXCEPT ![s].step = "gone"]
  /\ UNCHANGED vars

(* ulid.Make gives increasing ids within one process, as long as the clock *)
(* of the machine does not step back.                                      *)
IdsIncrease ==
  \A r \in RoomIDs : \A m \in messages'[r] \ messages[r] :
    \A id \in UsedMessageIDs : id < m.id

Serve(s) == Look(s) \/ ReadFollower(s) \/ ReadPager(s) \/ Wake(s)

FeedNext ==
  \/ Next /\ IdsIncrease /\ UNCHANGED sessions
  \/ \E s \in Sessions : StartAfter(s) \/ Ask(s) \/ Serve(s) \/ Expire(s) \/ Leave(s)

(* The handler goes on, and time passes. *)
FeedFairness ==
  \A s \in Sessions : WF_feedVars(Serve(s)) /\ WF_feedVars(Expire(s))

FeedSpec == FeedInit /\ [][FeedNext]_feedVars /\ FeedFairness

-----------------------------------------------------------------------------
(* Properties. *)

(* A follower that asks for what comes after the last message it has gets  *)
(* every message of the room from where it started, once and in order,     *)
(* however its requests interleave with posts and however small the pages  *)
(* are.  It starts behind the message it named; if it named none, with the *)
(* recent window (ReadMessages with an empty "after"): at the first        *)
(* message of the room, or with at least a page.                           *)
FollowerMissesNothing ==
  \A s \in Sessions : sessions[s].follows =>
    LET list  == Ordered(RoomOf[s])
        seen  == sessions[s].seen
        since == sessions[s].since IN
    \E start \in 0 .. Len(list) - Len(seen) :
      /\ seen = SubSeq(list, start + 1, start + Len(seen))
      /\ IF since = None THEN start = 0 \/ Len(seen) >= Limit
         ELSE start > 0 /\ list[start] = since

(* A pager that went back to the end has, once and in order, every message *)
(* up to the newest it saw, although its cursor counts positions and       *)
(* messages arrived in the meantime.                                       *)
PagerSeesAll ==
  \A s \in Sessions :
    ~sessions[s].follows /\ sessions[s].step = "complete" =>
      IsPrefix(sessions[s].seen, Ordered(RoomOf[s]))

(* Messages go to readers only: whoever is handed a page could read the    *)
(* room at some moment since the handler last woke up.  The handler reads  *)
(* in another critical section than it authorizes in, so a reader removed  *)
(* between the two gets one more page, and no more than that.              *)
RoleAt(log, a, version) ==
  LET about == {i \in 1 .. version : log[i].target = a} IN
  IF about = {} THEN None
  ELSE log[CHOOSE i \in about : \A j \in about : j <= i].role

ServedToReaders ==
  [][\A s \in Sessions :
       sessions'[s].seen # sessions[s].seen =>
         LET r == RoomOf[s] IN
         \E v \in sessions[s].begun .. room[r].version :
           RoleAt(audits[r], AgentOf[s], v) \in PermittedRoles["ReadMessages"]
     ]_feedVars

(* Every request is answered, also the one that waits in an empty room or  *)
(* whose caller is removed while it waits, unless the client hangs up.     *)
EveryReaderAnswered ==
  \A s \in Sessions :
    sessions[s].step \in {"look", "read", "sleep"} ~>
      sessions[s].step \in {"idle", "complete", "refused", "gone"}

=============================================================================
