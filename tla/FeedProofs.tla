----------------------------- MODULE FeedProofs -----------------------------
(***************************************************************************)
(* Proofs about MessageFeed, for every value of its constants: what a      *)
(* session has received is always a stretch of the room's messages, and a  *)
(* page is handed only to somebody who could read the room meanwhile.      *)
(*                                                                         *)
(* The messages of a room are a set, read in the order of their ids.  That *)
(* the CHOOSE in Ordered finds such an order, and always the same one, is  *)
(* part of the invariant: as ids increase, a post appends to it.           *)
(***************************************************************************)
EXTENDS BoardStoreProofs, MessageFeed

-----------------------------------------------------------------------------
(* Sorted lists. *)

(* list holds the elements of S, each once and in order. *)
Sorts(list, S) ==
  /\ list \in Seq(S)
  /\ Ascending(list)
  /\ \A x \in S : \E i \in DOMAIN list : list[i] = x

(* part is what list holds after its first from elements. *)
Stretch(part, list, from) ==
  /\ from + Len(part) <= Len(list)
  /\ \A i \in 1 .. Len(part) : part[i] = list[from + i]

-----------------------------------------------------------------------------
(* The invariant. *)

(* What a follower has starts behind the message it named; if it named     *)
(* none, at the start of the room or with at least a page.                 *)
FollowsFrom(seen, since, list, start) ==
  /\ Stretch(seen, list, start)
  /\ IF since = None THEN start = 0 \/ Len(seen) >= Limit
     ELSE start > 0 /\ list[start] = since

(* A follower has a stretch of the room.  A pager that came to the end has *)
(* a prefix of it, and until then what lies behind its cursor.             *)
Progress(session, list) ==
  IF session.follows THEN
    \E start \in Nat : FollowsFrom(session.seen, session.since, list, start)
  ELSE IF session.step = "complete" THEN Stretch(session.seen, list, 0)
  ELSE IF session.cursor = None THEN session.seen = <<>>
  ELSE session.cursor > 0 /\ Stretch(session.seen, list, session.cursor)

MayRead(role) == role \in PermittedRoles["ReadMessages"]

(* The log says that agent a could read between two versions. *)
CouldRead(log, a, from, to) == \E v \in from .. to : MayRead(RoleAt(log, a, v))

Admitted(session, r, a) ==
  /\ session.step \in {"look", "read", "sleep"} => session.begun <= room[r].version
  /\ session.step = "read" => CouldRead(audits[r], a, session.begun, room[r].version)

FeedInv ==
  /\ StoreInv /\ FeedTypeOK
  /\ \A r \in RoomIDs : Sorts(Ordered(r), MessageIDsOf(r))
  /\ \A s \in Sessions : Progress(sessions[s], Ordered(RoomOf[s]))
  /\ \A s \in Sessions : Admitted(sessions[s], RoomOf[s], AgentOf[s])

-----------------------------------------------------------------------------
(* A set of numbers has one order.                                         *)

LEMMA LeastNumber ==
  ASSUME NEW T \in SUBSET Nat, T # {}
  PROVE  \E x \in T : \A y \in T : x <= y
<1> DEFINE less == {ss \in Nat \X Nat : ss[1] < ss[2]}
<1>1. IsWellFoundedOn(less, Nat)
  BY NatLessThanWellFounded DEF OpToRel
<1>2. \A x, y \in T : x \in Nat /\ y \in Nat /\ (<<y, x>> \in less <=> y < x)
  OBVIOUS
<1> HIDE DEF less
<1>3. PICK x \in T : \A y \in T : <<y, x>> \notin less
  BY <1>1, WFMin
<1>4. ASSUME NEW y \in T PROVE x <= y
  <2>1. x \in Nat /\ y \in Nat /\ ~ y < x
    BY <1>2, <1>3
  <2>2. QED
    BY <2>1
<1>5. QED
  BY <1>4

LEMMA InOrder ==
  ASSUME NEW S \in SUBSET Nat, NEW n \in Nat, NEW p \in [1 .. n -> S], Ascending(p)
  PROVE  /\ \A i \in 1 .. n : p[i] \in Nat
         /\ \A i, j \in 1 .. n : i < j => p[i] < p[j]
         /\ \A i, j \in 1 .. n : p[i] = p[j] => i = j
<1>1. DOMAIN p = 1 .. n /\ \A i \in 1 .. n : p[i] \in Nat
  OBVIOUS
<1>2. \A i, j \in 1 .. n : i < j => p[i] < p[j]
  BY <1>1 DEF Ascending
<1>3. ASSUME NEW i \in 1 .. n, NEW j \in 1 .. n, p[i] = p[j] PROVE i = j
  <2>1. ~ p[i] < p[j] /\ ~ p[j] < p[i]
    BY <1>1, <1>3
  <2>2. ~ i < j /\ ~ j < i
    BY <1>2, <2>1
  <2>3. QED
    BY <2>2
<1>4. QED
  BY <1>1, <1>2, <1>3

(* Where q has its first own number, what p has there comes later in q.    *)
LEMMA FirstDifference ==
  ASSUME NEW n \in Nat, NEW p, NEW q, NEW i \in 1 .. n, NEW j \in 1 .. n,
         \A k \in 1 .. n : p[k] \in Nat /\ q[k] \in Nat,
         \A k, l \in 1 .. n : k < l => p[k] < p[l],
         \A k, l \in 1 .. n : k < l => q[k] < q[l],
         \A k \in 1 .. n : k < i => p[k] = q[k],
         p[i] # q[i], q[j] = p[i]
  PROVE  q[i] < p[i]
<1>1. j > i
  OBVIOUS
<1>2. QED
  BY <1>1

(* Lists that hold the same numbers in order agree at their first place,   *)
(* and so at every place.                                                  *)
LEMMA SameOrder ==
  ASSUME NEW S \in SUBSET Nat, NEW n \in Nat,
         NEW p \in [1 .. n -> S], NEW q \in [1 .. n -> S],
         Ascending(p), Ascending(q),
         \A x \in S : \E i \in 1 .. n : p[i] = x,
         \A x \in S : \E i \in 1 .. n : q[i] = x
  PROVE  p = q
<1> DEFINE Differ == {i \in 1 .. n : p[i] # q[i]}
<1>1. SUFFICES ASSUME Differ # {} PROVE FALSE
  OBVIOUS
<1>2. PICK i \in Differ : \A j \in Differ : i <= j
  <2>1. Differ \in SUBSET Nat
    OBVIOUS
  <2> HIDE DEF Differ
  <2>2. QED
    BY <1>1, <2>1, LeastNumber
<1>3. i \in 1 .. n /\ p[i] \in S /\ q[i] \in S /\ p[i] # q[i]
  OBVIOUS
<1>4. \A j \in 1 .. n : j < i => p[j] = q[j]
  BY <1>2
<1>5. PICK j \in 1 .. n : q[j] = p[i]
  BY <1>3
<1>6. PICK k \in 1 .. n : p[k] = q[i]
  BY <1>3
<1>7. /\ \A l \in 1 .. n : p[l] \in Nat /\ q[l] \in Nat
      /\ \A l, m \in 1 .. n : l < m => p[l] < p[m]
      /\ \A l, m \in 1 .. n : l < m => q[l] < q[m]
  BY InOrder
<1> HIDE DEF Differ
<1>8. q[i] < p[i]
  BY <1>3, <1>4, <1>5, <1>7, FirstDifference
<1>9. p[i] < q[i]
  <2>1. q[i] # p[i] /\ \A l \in 1 .. n : l < i => q[l] = p[l]
    BY <1>3, <1>4
  <2>2. QED
    BY <1>3, <1>6, <1>7, <2>1, FirstDifference
<1>10. p[i] \in Nat /\ q[i] \in Nat
  BY <1>3, <1>7
<1>11. QED
  BY <1>8, <1>9, <1>10

(* What Ordered chooses is the sorted list, if there is one.               *)
LEMMA SortedOnce ==
  ASSUME NEW S \in SUBSET Nat, NEW q, Sorts(q, S)
  PROVE  (CHOOSE list \in [1 .. Cardinality(S) -> S] : Ascending(list)) = q
<1> DEFINE n == Len(q)
           c == CHOOSE list \in [1 .. Cardinality(S) -> S] : Ascending(list)
<1>1. n \in Nat /\ q \in [1 .. n -> S] /\ Ascending(q)
      /\ \A x \in S : \E i \in 1 .. n : q[i] = x
  BY DEF Sorts
<1>2. \A i, j \in 1 .. n : q[i] = q[j] => i = j
  BY <1>1, InOrder, ZenonT(30)
<1>3. q \in Bijection(1 .. n, S)
  BY <1>1, <1>2 DEF Bijection, Injection, Surjection, IsInjective
<1>4. Cardinality(S) = n /\ IsFiniteSet(S)
  <2>1. ExistsBijection(1 .. n, S)
    BY <1>3 DEF ExistsBijection
  <2> HIDE DEF n
  <2>2. QED
    BY <1>1, <2>1, FS_CountingElements, FS_NatBijection
<1>5. c \in [1 .. n -> S] /\ Ascending(c)
  BY <1>1, <1>4
<1> HIDE DEF c
<1>6. \A i, j \in 1 .. n : c[i] = c[j] => i = j
  BY <1>1, <1>5, InOrder, ZenonT(30)
<1>7. c \in Injection(1 .. n, S)
  BY <1>5, <1>6 DEF Injection, IsInjective
<1>8. c \in Surjection(1 .. n, S)
  <2>1. Cardinality(1 .. n) = n
    BY <1>1, 1 \in Int, n \in Int, FS_Interval, SMTT(30)
  <2> HIDE DEF n
  <2>2. QED
    BY <1>4, <1>7, <2>1, FS_Injection
<1>9. \A x \in S : \E i \in 1 .. n : c[i] = x
  BY <1>8 DEF Surjection
<1>10. c = q
  BY <1>1, <1>5, <1>9, SameOrder
<1>11. QED
  BY <1>10 DEF c

LEMMA NothingSorted == Sorts(<<>>, {})
BY DEF Sorts, Ascending

(* A larger number goes to the end.                                        *)
LEMMA AppendSorts ==
  ASSUME NEW S \in SUBSET Nat, NEW q, Sorts(q, S), NEW x \in Nat,
         \A y \in S : y < x
  PROVE  Sorts(Append(q, x), S \cup {x})
<1> DEFINE more == Append(q, x)
           n    == Len(q)
<1>1. n \in Nat /\ q \in Seq(S) /\ Ascending(q) /\ DOMAIN q = 1 .. n
      /\ \A i \in 1 .. n : q[i] \in S
  BY DEF Sorts
<1>2. /\ more \in Seq(S \cup {x}) /\ DOMAIN more = 1 .. n + 1
      /\ more[n + 1] = x /\ \A i \in 1 .. n : more[i] = q[i]
  <2>1. q \in Seq(S \cup {x})
    BY <1>1
  <2>2. QED
    BY <1>1, <2>1, AppendIsLast
<1> HIDE DEF more
<1>3. Ascending(more)
  <2>1. SUFFICES ASSUME NEW i \in 1 .. n + 1, NEW j \in 1 .. n + 1, i < j
                 PROVE  more[i] < more[j]
    BY <1>2 DEF Ascending
  <2>2. i \in 1 .. n /\ more[i] = q[i]
    BY <1>1, <1>2, <2>1
  <2>3. CASE j = n + 1
    BY <1>1, <1>2, <2>2, <2>3
  <2>4. CASE j \in 1 .. n
    BY <1>1, <1>2, <2>1, <2>2, <2>4 DEF Ascending
  <2>5. QED
    BY <1>1, <2>3, <2>4
<1>4. \A y \in S \cup {x} : \E i \in DOMAIN more : more[i] = y
  BY <1>1, <1>2 DEF Sorts
<1>5. QED
  BY <1>2, <1>3, <1>4 DEF Sorts, more

-----------------------------------------------------------------------------
(* Posts append.                                                           *)

LEMMA IDsAreNumbers ==
  ASSUME NEW stored \in SUBSET Message
  PROVE  {m.id : m \in stored} \in SUBSET MessageIDs /\ {m.id : m \in stored} \in SUBSET Nat
<1>1. \A m \in stored : m.id \in MessageIDs /\ m.id \in Nat
  BY NumberAssumption DEF Message
<1>2. QED
  BY <1>1

LEMMA OneNewMessage ==
  ASSUME TypeOK, AbsentRoomsEmpty, [Next]_vars, NEW s \in RoomIDs
  PROVE  \/ MessageIDsOf(s)' = MessageIDsOf(s)
         \/ \E m \in messages'[s] \ messages[s] :
              MessageIDsOf(s)' = MessageIDsOf(s) \cup {m.id}
<1>1. CASE messages'[s] = messages[s]
  BY <1>1 DEF MessageIDsOf
<1>2. ASSUME NEW r \in RoomIDs, NEW a \in Agents, CreateRoom(r, a)
      PROVE  messages'[s] = messages[s]
  <2>1. CASE s = r
    BY <1>2, <2>1 DEF TypeOK, CreateRoom, CreateRoomResult, AbsentRoomsEmpty
  <2>2. CASE s # r
    BY <1>2, <2>2 DEF TypeOK, CreateRoom
  <2>3. QED
    BY <2>1, <2>2
<1>3. ASSUME NEW r \in RoomIDs, NEW a \in Agents, NEW k \in IdempotencyKeys,
             NEW body \in Bodies, NEW n \in Nicknames \cup {None},
             NEW mv \in MemberVersions, NEW id \in MessageIDs,
             PostMessage(r, a, k, body, n, mv, id)
      PROVE  \/ messages'[s] = messages[s]
             \/ \E m \in messages'[s] \ messages[s] : messages'[s] = messages[s] \cup {m}
  <2>1. CASE s # r
    BY <1>3, <2>1 DEF TypeOK, PostMessage
  <2>2. CASE s = r
    <3> DEFINE m == [id |-> id, author |-> a, nickname |-> n, body |-> body, key |-> k]
    <3>1. messages'[s] = messages[s] \cup {m} /\ id \notin UsedMessageIDs
      BY <1>3, <2>2 DEF TypeOK, PostMessage
    <3>2. m \notin messages[s]
      <4>1. m.id = id
        OBVIOUS
      <4> HIDE DEF m
      <4>2. QED
        BY <3>1, <4>1 DEF UsedMessageIDs
    <3>3. QED
      BY <3>1, <3>2
  <2>3. QED
    BY <2>1, <2>2
<1>4. ASSUME NEW m \in messages'[s] \ messages[s], messages'[s] = messages[s] \cup {m}
      PROVE  MessageIDsOf(s)' = MessageIDsOf(s) \cup {m.id}
  BY <1>4 DEF MessageIDsOf
<1>5. CASE messages' = messages
  BY <1>1, <1>5
<1>6. ASSUME NEW r, NEW a, NEW t, NEW role, NEW mv, NEW rv,
             GrantAllowlist(r, a, t, role, mv, rv) \/ RevokeAllowlist(r, a, t, mv, rv)
      PROVE  messages' = messages
  BY <1>6 DEF GrantAllowlist, RevokeAllowlist
<1>7. ASSUME NEW r, NEW a, NEW n, NEW mv, SetNickname(r, a, n, mv)
      PROVE  messages' = messages
  BY <1>7 DEF SetNickname
<1>8. CASE UNCHANGED vars
  BY <1>5, <1>8 DEF vars
<1>9. QED
  BY <1>1, <1>2, <1>3, <1>4, <1>5, <1>6, <1>7, <1>8 DEF Next

(* While ids increase the list of a room only grows at its end.            *)
LEMMA ListGrows ==
  ASSUME TypeOK, AbsentRoomsEmpty, [Next]_vars, IdsIncrease, NEW r \in RoomIDs,
         Sorts(Ordered(r), MessageIDsOf(r))
  PROVE  Sorts(Ordered(r), MessageIDsOf(r))' /\ Stretch(Ordered(r), Ordered(r)', 0)
<1> DEFINE list == Ordered(r)
           ids  == MessageIDsOf(r)
<1>1. ids \in SUBSET Nat /\ MessageIDsOf(r)' \in SUBSET Nat
  <2>1. messages[r] \in SUBSET Message /\ messages'[r] \in SUBSET Message
    BY NextTypeOK DEF TypeOK
  <2>2. QED
    BY <2>1, IDsAreNumbers DEF MessageIDsOf
<1>2. list \in Seq(ids)
  BY DEF Sorts
<1>3. Len(list) \in Nat
  BY <1>2
<1>4. CASE MessageIDsOf(r)' = ids
  <2>1. Ordered(r)' = list
    BY <1>4 DEF Ordered
  <2>2. QED
    BY <1>3, <1>4, <2>1 DEF Sorts, Stretch, Ascending
<1>5. ASSUME NEW m \in messages'[r] \ messages[r], MessageIDsOf(r)' = ids \cup {m.id}
      PROVE  Sorts(Ordered(r), MessageIDsOf(r))' /\ Stretch(list, Ordered(r)', 0)
  <2>1. m.id \in Nat
    BY <1>1, <1>5
  <2>2. \A id \in ids : id < m.id
    BY <1>5 DEF IdsIncrease, UsedMessageIDs, MessageIDsOf
  <2>3. Sorts(Append(list, m.id), MessageIDsOf(r)')
    BY <1>1, <1>5, <2>1, <2>2, AppendSorts
  <2>4. Ordered(r)' = Append(list, m.id)
    BY <1>1, <2>3, SortedOnce DEF Ordered
  <2>5. /\ Len(Append(list, m.id)) = Len(list) + 1
        /\ \A i \in 1 .. Len(list) : Append(list, m.id)[i] = list[i]
    <3>1. list \in Seq(Nat)
      BY <1>1, <1>2
    <3>2. QED
      BY <2>1, <3>1, AppendIsLast
  <2> HIDE DEF list
  <2>6. Stretch(list, Append(list, m.id), 0)
    BY <1>3, <2>5 DEF Stretch
  <2>7. QED
    BY <2>3, <2>4, <2>6 DEF Sorts, Ascending
<1>6. QED
  BY <1>4, <1>5, OneNewMessage

LEMMA InitLists == Init => \A r \in RoomIDs : Sorts(Ordered(r), MessageIDsOf(r))
<1>1. SUFFICES ASSUME Init, NEW r \in RoomIDs PROVE Sorts(Ordered(r), MessageIDsOf(r))
  OBVIOUS
<1>2. MessageIDsOf(r) = {}
  BY <1>1 DEF Init, MessageIDsOf
<1>3. Ordered(r) = <<>>
  BY <1>2, NothingSorted, SortedOnce DEF Ordered
<1>4. QED
  BY <1>2, <1>3, NothingSorted

-----------------------------------------------------------------------------
(* Stretches.                                                              *)

(* A list that grows at its end keeps its stretches.                       *)
LEMMA StretchStays ==
  ASSUME NEW part, NEW list, NEW longer, NEW from \in Nat,
         Len(part) \in Nat, Len(list) \in Nat, Len(longer) \in Nat,
         Stretch(part, list, from), Stretch(list, longer, 0)
  PROVE  Stretch(part, longer, from)
<1>1. \A i \in 1 .. Len(part) : from + i \in 1 .. Len(list)
  BY DEF Stretch
<1>2. \A i \in 1 .. Len(list) : list[i] = longer[i]
  BY DEF Stretch
<1>3. QED
  BY <1>1, <1>2 DEF Stretch

(* What lies between two places of a list, in front of or behind another   *)
(* stretch.                                                                *)
LEMMA SliceIsStretch ==
  ASSUME NEW S, NEW list \in Seq(S), NEW from \in Nat, NEW to \in Nat,
         from <= to, to <= Len(list)
  PROVE  /\ SubSeq(list, from + 1, to) \in Seq(S)
         /\ Len(SubSeq(list, from + 1, to)) = to - from
         /\ Stretch(SubSeq(list, from + 1, to), list, from)
<1>1. Len(SubSeq(list, from + 1, to)) = to - from
  OBVIOUS
<1>2. \A i \in 1 .. to - from : SubSeq(list, from + 1, to)[i] = list[from + i]
  OBVIOUS
<1>3. SubSeq(list, from + 1, to) \in Seq(S)
  OBVIOUS
<1>4. QED
  BY <1>1, <1>2, <1>3 DEF Stretch

LEMMA StretchesJoin ==
  ASSUME NEW S, NEW list \in Seq(S), NEW p \in Seq(S), NEW q \in Seq(S), NEW from \in Nat,
         Stretch(p, list, from), Stretch(q, list, from + Len(p))
  PROVE  Stretch(p \o q, list, from) /\ p \o q \in Seq(S)
<1>1. /\ p \o q \in Seq(S) /\ Len(p \o q) = Len(p) + Len(q)
      /\ Len(p) \in Nat /\ Len(q) \in Nat /\ Len(list) \in Nat
      /\ \A i \in 1 .. Len(p) + Len(q) :
           (p \o q)[i] = IF i <= Len(p) THEN p[i] ELSE q[i - Len(p)]
  OBVIOUS
<1>2. ASSUME NEW i \in 1 .. Len(p) + Len(q) PROVE (p \o q)[i] = list[from + i]
  <2>1. CASE i <= Len(p)
    BY <1>1, <2>1 DEF Stretch
  <2>2. CASE i > Len(p)
    <3>1. i - Len(p) \in 1 .. Len(q) /\ from + Len(p) + (i - Len(p)) = from + i
      BY <1>1, <2>2
    <3>2. q[i - Len(p)] = list[from + Len(p) + (i - Len(p))]
      BY <3>1 DEF Stretch
    <3>3. QED
      BY <1>1, <2>2, <3>1, <3>2
  <2>3. QED
    BY <1>1, <2>1, <2>2
<1>3. QED
  BY <1>1, <1>2 DEF Stretch

-----------------------------------------------------------------------------
(* Pages.                                                                  *)

(* The search of a follower finds what comes after what it has.            *)
LEMMA FollowerStart ==
  ASSUME NEW S \in SUBSET Nat, NEW list \in Seq(S), Ascending(list),
         NEW k \in 1 .. Len(list)
  PROVE  CountUpTo(list, list[k]) = k
<1> DEFINE n == Len(list)
           early == {i \in DOMAIN list : list[i] <= list[k]}
<1>1. n \in Nat /\ k \in 1 .. n /\ list \in [1 .. n -> S] /\ DOMAIN list = 1 .. n
  OBVIOUS
<1> HIDE DEF n
<1>2. /\ \A i \in 1 .. n : list[i] \in Nat
      /\ \A i, j \in 1 .. n : i < j => list[i] < list[j]
  BY <1>1, InOrder, ZenonT(30)
<1>3. \A i \in 1 .. n : list[i] <= list[k] <=> i <= k
  BY <1>1, <1>2
<1>4. early = 1 .. k
  BY <1>1, <1>3
<1>5. Cardinality(1 .. k) = k
  BY <1>1, 1 \in Int, k \in Int, k \in Nat, FS_Interval
<1>6. QED
  BY <1>4, <1>5 DEF CountUpTo

(* The recent window is the end of the room, all of it or a page.          *)
LEMMA RecentWindow ==
  ASSUME NEW S, NEW list \in Seq(S)
  PROVE  /\ PageBefore(list, None) \in Seq(S)
         /\ \E start \in Nat : FollowsFrom(PageBefore(list, None), None, list, start)
<1> DEFINE n    == Len(list)
           from == IF n > Limit THEN n - Limit ELSE 0
           page == SubSeq(list, from + 1, n)
<1>1. n \in Nat /\ Limit \in Nat
  BY SessionAssumption
<1>2. from \in Nat /\ from <= n /\ (from = 0 \/ n - from = Limit)
  BY <1>1
<1>3. PageBefore(list, None) = page
  BY DEF PageBefore, PageStart, PageEnd
<1> HIDE DEF from
<1>4. page \in Seq(S) /\ Len(page) = n - from /\ Stretch(page, list, from)
  BY <1>1, <1>2, SliceIsStretch
<1> HIDE DEF page
<1>5. FollowsFrom(page, None, list, from)
  BY <1>1, <1>2, <1>4 DEF FollowsFrom
<1>6. QED
  BY <1>2, <1>3, <1>4, <1>5

(* A follower's page continues what it has.                                *)
LEMMA FollowerPage ==
  ASSUME NEW S \in SUBSET Nat, NEW list \in Seq(S), Ascending(list),
         NEW session \in Session, session.since # None => session.since \in Nat,
         session.seen \in Seq(S), session.follows, Progress(session, list),
         NEW page, page = PageAfter(list, After(session))
  PROVE  /\ page \in Seq(S) /\ session.seen \o page \in Seq(S)
         /\ \E start \in Nat :
              FollowsFrom(session.seen \o page, session.since, list, start)
<1> DEFINE seen  == session.seen
           since == session.since
           n     == Len(list)
<1>1. PICK start \in Nat : FollowsFrom(seen, since, list, start)
  BY DEF Progress
<1>2. CASE seen = <<>> /\ since = None
  <2>1. page = PageBefore(list, None)
    BY <1>2 DEF After, PageAfter
  <2>2. page \in Seq(S) /\ \E from \in Nat : FollowsFrom(page, None, list, from)
    BY <2>1, RecentWindow
  <2>3. seen \o page = page
    BY <1>2, <2>2
  <2>4. QED
    BY <1>2, <2>2, <2>3
<1>3. CASE ~ (seen = <<>> /\ since = None)
  <2> DEFINE k  == start + Len(seen)
             to == IF k + Limit > n THEN n ELSE k + Limit
  <2>1. n \in Nat /\ Len(seen) \in Nat /\ k \in Nat /\ k <= n /\ Limit \in Nat
    BY <1>1, SessionAssumption DEF FollowsFrom, Stretch
  <2>2. k \in 1 .. n /\ After(session) = list[k]
    <3>1. CASE seen = <<>>
      <4>1. start > 0 /\ list[start] = since /\ Len(seen) = 0 /\ After(session) = since
        BY <1>1, <1>3, <3>1 DEF FollowsFrom, After
      <4> HIDE DEF seen, since, n
      <4>2. QED
        BY <2>1, <4>1
    <3>2. CASE seen # <<>>
      <4>1. Len(seen) \in 1 .. Len(seen) /\ After(session) = seen[Len(seen)]
        BY <2>1, <3>2 DEF After, Last
      <4>2. seen[Len(seen)] = list[k]
        BY <1>1, <4>1 DEF FollowsFrom, Stretch
      <4> HIDE DEF seen, n
      <4>3. k \in 1 .. n
        BY <2>1, <4>1
      <4>4. QED
        BY <4>1, <4>2, <4>3
    <3>3. QED
      BY <3>1, <3>2
  <2>3. After(session) # None
    <3>1. list[k] \in S
      BY <2>2
    <3>2. QED
      BY <2>2, <3>1, AbsentAssumption
  <2>4. page = SubSeq(list, k + 1, to)
    <3>1. CountUpTo(list, After(session)) = k
      BY <2>2, FollowerStart
    <3>2. QED
      BY <2>3, <3>1 DEF PageAfter
  <2>5. to \in Nat /\ k <= to /\ to <= n
    BY <2>1
  <2> HIDE DEF to
  <2>6. page \in Seq(S) /\ Stretch(page, list, k)
    <3> HIDE DEF k
    <3>1. k \in Nat /\ to \in Nat /\ k <= to /\ to <= Len(list)
      BY <2>1, <2>5
    <3>2. /\ SubSeq(list, k + 1, to) \in Seq(S)
          /\ Stretch(SubSeq(list, k + 1, to), list, k)
      BY <3>1, SliceIsStretch
    <3>3. QED
      BY <2>4, <3>2
  <2>7. Stretch(seen \o page, list, start) /\ seen \o page \in Seq(S)
    <3>1. Stretch(seen, list, start) /\ seen \in Seq(S)
      BY <1>1 DEF FollowsFrom
    <3>2. Stretch(page, list, start + Len(seen))
      BY <2>6
    <3> HIDE DEF seen, k
    <3>3. QED
      BY <2>6, <3>1, <3>2, StretchesJoin
  <2>8. Len(seen \o page) >= Len(seen) /\ Len(seen \o page) \in Nat
    <3>1. Len(seen \o page) = Len(seen) + Len(page) /\ Len(page) \in Nat
      BY <2>6
    <3>2. QED
      BY <2>1, <3>1
  <2>9. FollowsFrom(seen \o page, since, list, start)
    <3> HIDE DEF seen, since, n, k
    <3>1. QED
      BY <1>1, <2>1, <2>7, <2>8 DEF FollowsFrom
  <2>10. QED
    BY <2>6, <2>7, <2>9
<1>4. QED
  BY <1>2, <1>3

(* A pager's page lies in front of what it has, and the next one in front  *)
(* of that; without a next one it has everything from the start.           *)
LEMMA PagerPage ==
  ASSUME NEW S, NEW list \in Seq(S), NEW seen \in Seq(S), NEW cursor,
         IF cursor = None THEN seen = <<>>
         ELSE cursor \in Nat /\ cursor > 0 /\ Stretch(seen, list, cursor),
         NEW got, got = PageBefore(list, cursor) \o seen
  PROVE  /\ got \in Seq(S)
         /\ NextCursor(list, cursor) = None => Stretch(got, list, 0)
         /\ NextCursor(list, cursor) # None =>
              /\ NextCursor(list, cursor) \in Nat /\ NextCursor(list, cursor) > 0
              /\ Stretch(got, list, NextCursor(list, cursor))
<1> DEFINE from == PageStart(list, cursor)
           to   == PageEnd(list, cursor)
           page == SubSeq(list, from + 1, to)
<1>1. Len(list) \in Nat /\ Len(seen) \in Nat
  OBVIOUS
<1>2. to \in Nat /\ to <= Len(list) /\ Stretch(seen, list, to)
  BY <1>1 DEF PageEnd, Stretch
<1>3. from \in Nat /\ from <= to
  BY <1>2, SessionAssumption DEF PageStart
<1>4. page \in Seq(S) /\ Len(page) = to - from /\ Stretch(page, list, from)
  BY <1>2, <1>3, SliceIsStretch
<1>5. NextCursor(list, cursor) = IF from > 0 THEN from ELSE None
  BY DEF NextCursor
<1> HIDE DEF from, to, page
<1>6. Stretch(seen, list, from + Len(page))
  BY <1>2, <1>3, <1>4
<1>7. Stretch(page \o seen, list, from) /\ page \o seen \in Seq(S)
  BY <1>3, <1>4, <1>6, StretchesJoin
<1>8. got = page \o seen
  BY DEF page, from, to, PageBefore
<1>9. from > 0 => NextCursor(list, cursor) # None
  BY <1>3, <1>5, AbsentAssumption
<1>10. ~ from > 0 => from = 0
  BY <1>3
<1>11. QED
  BY <1>3, <1>5, <1>7, <1>8, <1>9, <1>10

-----------------------------------------------------------------------------
(* Who may read.                                                           *)

(* Up to a version that both have, two logs tell the same.                 *)
LEMMA RoleStays ==
  ASSUME NEW log, NEW longer, NEW a, NEW v \in Nat,
         \A i \in 1 .. v : longer[i] = log[i]
  PROVE  RoleAt(longer, a, v) = RoleAt(log, a, v)
<1> DEFINE about == {i \in 1 .. v : log[i].target = a}
           last  == CHOOSE i \in about : \A j \in about : j <= i
<1>1. about = {i \in 1 .. v : longer[i].target = a}
  OBVIOUS
<1>2. CASE about = {}
  BY <1>1, <1>2 DEF RoleAt
<1>3. CASE about # {}
  <2>1. \E i \in about : \A j \in about : j <= i
    <3> DEFINE distances == {v - i : i \in about}
    <3>1. distances \in SUBSET Nat /\ distances # {}
      BY <1>3
    <3>2. PICK d \in distances : \A e \in distances : d <= e
      BY <3>1, LeastNumber
    <3>3. PICK i \in about : d = v - i
      BY <3>2
    <3>4. ASSUME NEW j \in about PROVE j <= i
      <4>1. v - i <= v - j
        BY <3>2, <3>3
      <4>2. QED
        BY <4>1
    <3>5. QED
      BY <3>4
  <2>2. last \in about
    BY <2>1
  <2>3. longer[last] = log[last]
    BY <2>2
  <2>4. RoleAt(log, a, v) = log[last].role
    BY <1>3 DEF RoleAt
  <2>5. RoleAt(longer, a, v) = longer[last].role
    BY <1>1, <1>3 DEF RoleAt
  <2>6. QED
    BY <2>3, <2>4, <2>5
<1>4. QED
  BY <1>2, <1>3

(* The log knows everybody's role.                                         *)
LEMMA RoleNow ==
  ASSUME StoreInv, NEW r \in RoomIDs, NEW a \in Agents
  PROVE  RoleAt(audits[r], a, room[r].version) = members[r][a].role
<1> DEFINE log   == audits[r]
           v     == room[r].version
           about == {i \in 1 .. v : log[i].target = a}
<1>1. DOMAIN log = 1 .. v /\ v \in Nat /\ ExplainedBy(log, members[r][a].role, a)
  BY DEF StoreInv, AuditInv, TypeOK, Room
<1> HIDE DEF log, v
<1>2. ASSUME NEW i \in DOMAIN log, LastAbout(log, a, i), members[r][a].role = log[i].role
      PROVE  RoleAt(log, a, v) = members[r][a].role
  <2>1. i \in about /\ \A j \in about : j <= i
    BY <1>1, <1>2 DEF LastAbout
  <2>2. (CHOOSE l \in about : \A j \in about : j <= l) = i
    <3> DEFINE last == CHOOSE l \in about : \A j \in about : j <= l
    <3>1. last \in about /\ \A j \in about : j <= last
      BY <2>1
    <3>2. last <= i /\ i <= last /\ last \in Nat /\ i \in Nat
      BY <1>1, <2>1, <3>1, SMTT(30)
    <3> HIDE DEF last
    <3>3. last = i
      BY <3>2
    <3>4. QED
      BY <3>3 DEF last
  <2>3. QED
    BY <1>2, <2>1, <2>2 DEF RoleAt
<1>3. ASSUME members[r][a].role = None, \A i \in DOMAIN log : log[i].target # a
      PROVE  RoleAt(log, a, v) = members[r][a].role
  <2>1. about = {}
    BY <1>1, <1>3
  <2>2. QED
    BY <1>3, <2>1 DEF RoleAt
<1>4. RoleAt(log, a, v) = members[r][a].role
  BY <1>1, <1>2, <1>3 DEF ExplainedBy
<1>5. QED
  BY <1>4 DEF log, v

LEMMA AllowedReads ==
  ASSUME StoreInv, NEW r \in RoomIDs, NEW a \in Agents, Exists(r),
         LocalAllows(a, "ReadMessages", room[r], members[r][a], None, None)
  PROVE  MayRead(members[r][a].role)
<1>1. room[r].owner = a \/ RoleCan(members[r][a].role, "ReadMessages")
  BY DEF LocalAllows
<1>2. room[r].owner = a => members[r][a].role = "owner"
  BY DEF StoreInv, SoleOwner
<1>3. QED
  BY <1>1, <1>2 DEF MayRead, RoleCan, PermittedRoles, Roles

-----------------------------------------------------------------------------
(* Steps of the store.                                                     *)

(* A session keeps its progress while its room grows.                      *)
LEMMA ProgressStays ==
  ASSUME NEW x \in Session, NEW list, NEW longer, Len(list) \in Nat, Len(longer) \in Nat,
         Stretch(list, longer, 0), Progress(x, list)
  PROVE  Progress(x, longer)
<1>1. /\ Len(x.seen) \in Nat /\ x.follows \in BOOLEAN
      /\ x.cursor # None => x.cursor \in Nat
  BY DEF Session
<1>2. Stretch(x.seen, list, 0) => Stretch(x.seen, longer, 0)
  BY <1>1, StretchStays
<1>3. x.cursor # None =>
        (Stretch(x.seen, list, x.cursor) => Stretch(x.seen, longer, x.cursor))
  BY <1>1, StretchStays
<1>4. ASSUME NEW start \in Nat, FollowsFrom(x.seen, x.since, list, start)
      PROVE  FollowsFrom(x.seen, x.since, longer, start)
  <2>1. Stretch(x.seen, list, start) /\ Stretch(x.seen, longer, start)
    BY <1>1, <1>4, StretchStays DEF FollowsFrom
  <2>2. start > 0 => longer[start] = list[start]
    <3>1. start <= Len(list)
      BY <1>1, <2>1 DEF Stretch
    <3>2. \A i \in 1 .. Len(list) : list[i] = longer[i]
      BY DEF Stretch
    <3>3. QED
      BY <3>1, <3>2
  <2>3. QED
    BY <1>4, <2>1, <2>2 DEF FollowsFrom
<1>5. QED
  BY <1>1, <1>2, <1>3, <1>4 DEF Progress

(* Records stay, and so what could be read before still could.             *)
LEMMA AdmittedStays ==
  ASSUME StoreInv, [Next]_vars, NEW r \in RoomIDs, NEW a \in Agents, NEW x \in Session,
         Admitted(x, r, a)
  PROVE  /\ x.step \in {"look", "read", "sleep"} => x.begun <= room'[r].version
         /\ x.step = "read" => CouldRead(audits'[r], a, x.begun, room'[r].version)
<1>1. /\ x.begun \in Nat /\ room[r].version \in Nat /\ room'[r].version \in Nat
      /\ room[r].version <= room'[r].version
  BY VersionsGrow DEF StoreInv, Session
<1>2. x.step \in {"look", "read", "sleep"} => x.begun <= room'[r].version
  BY <1>1 DEF Admitted
<1>3. \A i \in 1 .. room[r].version : audits'[r][i] = audits[r][i]
  <2>1. DOMAIN audits[r] = 1 .. room[r].version
    BY DEF StoreInv, AuditInv, TypeOK
  <2>2. QED
    BY <2>1, AuditsGrow DEF StoreInv
<1>4. ASSUME x.step = "read"
      PROVE  CouldRead(audits'[r], a, x.begun, room'[r].version)
  <2>1. PICK v \in x.begun .. room[r].version : MayRead(RoleAt(audits[r], a, v))
    BY <1>4 DEF Admitted, CouldRead
  <2>2. v \in Nat /\ v \in x.begun .. room'[r].version
        /\ \A i \in 1 .. v : audits'[r][i] = audits[r][i]
    BY <1>1, <1>3
  <2>3. RoleAt(audits'[r], a, v) = RoleAt(audits[r], a, v)
    BY <2>2, RoleStays
  <2>4. QED
    BY <2>1, <2>2, <2>3 DEF CouldRead
<1>5. QED
  BY <1>2, <1>4

LEMMA AdmittedNext ==
  ASSUME NEW s \in Sessions,
         sessions'[s].step \in {"look", "read", "sleep"} =>
           sessions'[s].begun <= room'[RoomOf[s]].version,
         sessions'[s].step = "read" =>
           CouldRead(audits'[RoomOf[s]], AgentOf[s], sessions'[s].begun,
                     room'[RoomOf[s]].version)
  PROVE  Admitted(sessions[s], RoomOf[s], AgentOf[s])'
<1> DEFINE r == RoomOf[s]
           a == AgentOf[s]
<1>1. ASSUME NEW v PROVE MayRead(RoleAt(audits[r], a, v))' <=> MayRead(RoleAt(audits'[r], a, v))
  <2>1. RoleAt(audits[r], a, v)' = RoleAt(audits'[r], a, v)
    BY DEF RoleAt
  <2>2. QED
    BY <2>1 DEF MayRead
<1>2. CouldRead(audits[r], a, sessions[s].begun, room[r].version)'
        <=> CouldRead(audits'[r], a, sessions'[s].begun, room'[r].version)
  BY <1>1 DEF CouldRead
<1>3. QED
  BY <1>2 DEF Admitted

(* The parts of the invariant about one session.                           *)
LEMMA SessionFacts ==
  ASSUME FeedInv, NEW s \in Sessions
  PROVE  /\ RoomOf[s] \in RoomIDs /\ AgentOf[s] \in Agents
         /\ sessions[s] \in Session
         /\ Ordered(RoomOf[s]) \in Seq(MessageIDsOf(RoomOf[s]))
         /\ Ascending(Ordered(RoomOf[s]))
         /\ MessageIDsOf(RoomOf[s]) \in SUBSET MessageIDs
         /\ MessageIDsOf(RoomOf[s]) \in SUBSET Nat
         /\ Progress(sessions[s], Ordered(RoomOf[s]))
         /\ Admitted(sessions[s], RoomOf[s], AgentOf[s])
<1>1. RoomOf[s] \in RoomIDs /\ AgentOf[s] \in Agents
  BY SessionAssumption
<1>2. messages[RoomOf[s]] \in SUBSET Message
  BY <1>1 DEF FeedInv, StoreInv, TypeOK
<1>3. QED
  BY <1>1, <1>2, IDsAreNumbers DEF FeedInv, FeedTypeOK, Sorts, MessageIDsOf

LEMMA StoreStep ==
  ASSUME FeedInv, Next, IdsIncrease, UNCHANGED sessions
  PROVE  FeedInv'
<1>1. StoreInv /\ TypeOK /\ AbsentRoomsEmpty
  BY DEF FeedInv, StoreInv
<1>2. StoreInv' /\ FeedTypeOK'
  <2>1. StoreInv'
    BY <1>1, NextStoreInv
  <2>2. QED
    BY <2>1 DEF StoreInv, FeedInv, FeedTypeOK
<1>3. \A r \in RoomIDs :
        Sorts(Ordered(r), MessageIDsOf(r))' /\ Stretch(Ordered(r), Ordered(r)', 0)
  BY <1>1, ListGrows DEF FeedInv
<1>4. ASSUME NEW s \in Sessions PROVE Progress(sessions[s], Ordered(RoomOf[s]))'
  <2>1. Len(Ordered(RoomOf[s])) \in Nat
    BY SessionFacts
  <2>2. Len(Ordered(RoomOf[s])') \in Nat
    BY <1>3, SessionFacts DEF Sorts
  <2>3. Progress(sessions[s], Ordered(RoomOf[s])')
    BY <1>3, <2>1, <2>2, SessionFacts, ProgressStays
  <2>4. QED
    BY <2>3 DEF Progress, Stretch
<1>5. ASSUME NEW s \in Sessions PROVE Admitted(sessions[s], RoomOf[s], AgentOf[s])'
  <2>1. Admitted(sessions[s], RoomOf[s], AgentOf[s]) /\ sessions'[s] = sessions[s]
    BY SessionFacts
  <2>2. QED
    BY <1>1, <2>1, SessionFacts, AdmittedStays, AdmittedNext
<1>6. QED
  BY <1>2, <1>3, <1>4, <1>5 DEF FeedInv

-----------------------------------------------------------------------------
(* Steps of a session.                                                     *)

LEMMA SessionStep ==
  ASSUME FeedInv, UNCHANGED vars, NEW s \in Sessions, NEW x \in Session,
         sessions' = [sessions EXCEPT ![s] = x],
         Progress(x, Ordered(RoomOf[s])), Admitted(x, RoomOf[s], AgentOf[s])
  PROVE  FeedInv'
<1>1. UNCHANGED <<room, messages, audits>>
  BY DEF vars
<1>2. StoreInv'
  BY NextStoreInv DEF FeedInv
<1>3. /\ sessions' \in [Sessions -> Session] /\ sessions'[s] = x
      /\ \A t \in Sessions \ {s} : sessions'[t] = sessions[t]
  BY DEF FeedInv, FeedTypeOK
<1>4. \A r : MessageIDsOf(r)' = MessageIDsOf(r) /\ Ordered(r)' = Ordered(r)
  BY <1>1 DEF MessageIDsOf, Ordered, Ascending
<1>5. \A r \in RoomIDs : Sorts(Ordered(r), MessageIDsOf(r))'
  BY <1>4 DEF FeedInv, Sorts, Ascending
<1>6. \A t \in Sessions :
        /\ Progress(sessions'[t], Ordered(RoomOf[t]))
        /\ Admitted(sessions'[t], RoomOf[t], AgentOf[t])
  BY <1>3 DEF FeedInv
<1>7. \A t \in Sessions : Progress(sessions[t], Ordered(RoomOf[t]))'
  BY <1>4, <1>6 DEF Progress, Stretch
<1>8. \A t \in Sessions : Admitted(sessions[t], RoomOf[t], AgentOf[t])'
  BY <1>1, <1>6, AdmittedNext DEF Admitted
<1>9. QED
  BY <1>2, <1>3, <1>5, <1>7, <1>8 DEF FeedInv, FeedTypeOK, StoreInv

LEMMA AskKeepsInv ==
  ASSUME FeedInv, NEW s \in Sessions, Ask(s)
  PROVE  FeedInv'
<1> DEFINE x == [sessions[s] EXCEPT !.step = "look", !.expired = FALSE,
                                    !.begun = room[RoomOf[s]].version]
<1>1. room[RoomOf[s]].version \in Nat
  BY SessionFacts DEF FeedInv, StoreInv, TypeOK, Room
<1>2. x \in Session /\ x.step = "look" /\ x.begun = room[RoomOf[s]].version
      /\ x.follows = sessions[s].follows /\ x.seen = sessions[s].seen
      /\ x.cursor = sessions[s].cursor /\ x.since = sessions[s].since
  BY <1>1, SessionFacts DEF Session
<1>3. sessions' = [sessions EXCEPT ![s] = x] /\ UNCHANGED vars /\ sessions[s].step = "idle"
  BY DEF Ask
<1> HIDE DEF x
<1>4. Progress(x, Ordered(RoomOf[s]))
  BY <1>2, <1>3, SessionFacts DEF Progress
<1>5. Admitted(x, RoomOf[s], AgentOf[s])
  BY <1>1, <1>2 DEF Admitted
<1>6. QED
  BY <1>2, <1>3, <1>4, <1>5, SessionStep

LEMMA LookKeepsInv ==
  ASSUME FeedInv, NEW s \in Sessions, Look(s)
  PROVE  FeedInv'
<1> DEFINE r       == RoomOf[s]
           a       == AgentOf[s]
           allowed == Exists(r) /\ LocalAllows(a, "ReadMessages", room[r],
                                               members[r][a], None, None)
           x       == [sessions[s] EXCEPT !.step = IF allowed THEN "read" ELSE "refused"]
<1>1. x \in Session /\ x.step = (IF allowed THEN "read" ELSE "refused")
      /\ x.begun = sessions[s].begun
      /\ x.follows = sessions[s].follows /\ x.seen = sessions[s].seen
      /\ x.cursor = sessions[s].cursor /\ x.since = sessions[s].since
  BY SessionFacts DEF Session
<1>2. sessions' = [sessions EXCEPT ![s] = x] /\ UNCHANGED vars /\ sessions[s].step = "look"
  BY DEF Look
<1> HIDE DEF x
<1>3. Progress(x, Ordered(r))
  BY <1>1, <1>2, SessionFacts DEF Progress
<1>4. x.begun \in Nat /\ room[r].version \in Nat /\ x.begun <= room[r].version
  BY <1>1, <1>2, SessionFacts DEF Admitted, Session, FeedInv, StoreInv, TypeOK, Room
<1>5. ASSUME allowed PROVE CouldRead(audits[r], a, x.begun, room[r].version)
  <2>1. MayRead(members[r][a].role)
    BY <1>5, AllowedReads, SessionFacts DEF FeedInv
  <2>2. MayRead(RoleAt(audits[r], a, room[r].version))
    BY <2>1, RoleNow, SessionFacts DEF FeedInv
  <2>3. QED
    BY <1>4, <2>2 DEF CouldRead
<1>6. Admitted(x, r, a)
  BY <1>1, <1>4, <1>5 DEF Admitted
<1>7. QED
  BY <1>1, <1>2, <1>3, <1>6, SessionStep

LEMMA StartAfterKeepsInv ==
  ASSUME FeedInv, NEW s \in Sessions, StartAfter(s)
  PROVE  FeedInv'
<1> DEFINE list == Ordered(RoomOf[s])
           ids  == MessageIDsOf(RoomOf[s])
<1>1. PICK id \in ids : sessions' = [sessions EXCEPT ![s].since = id]
  BY DEF StartAfter
<1>2. UNCHANGED vars /\ sessions[s].follows /\ sessions[s].step = "idle"
      /\ sessions[s].seen = <<>>
  BY DEF StartAfter
<1> DEFINE x == [sessions[s] EXCEPT !.since = id]
<1>3. id \in MessageIDs /\ id \in Nat
  BY SessionFacts
<1>4. x \in Session /\ x.step = "idle" /\ x.follows /\ x.seen = <<>> /\ x.since = id
  BY <1>2, <1>3, SessionFacts DEF Session
<1>5. sessions' = [sessions EXCEPT ![s] = x]
  BY <1>1
<1> HIDE DEF x
<1>6. PICK start \in 1 .. Len(list) : list[start] = id
  BY SessionAssumption DEF FeedInv, Sorts
<1>7. Len(list) \in Nat /\ start \in Nat /\ start > 0 /\ start <= Len(list)
  BY <1>6, SessionFacts
<1>8. Progress(x, list)
  <2>1. Stretch(<<>>, list, start)
    BY <1>7 DEF Stretch
  <2>2. id # None
    BY <1>3, AbsentAssumption
  <2>3. FollowsFrom(<<>>, id, list, start)
    BY <1>6, <1>7, <2>1, <2>2 DEF FollowsFrom
  <2>4. QED
    BY <1>4, <1>7, <2>3 DEF Progress
<1>9. Admitted(x, RoomOf[s], AgentOf[s])
  BY <1>4 DEF Admitted
<1>10. QED
  BY <1>2, <1>4, <1>5, <1>8, <1>9, SessionStep

LEMMA ReadFollowerKeepsInv ==
  ASSUME FeedInv, NEW s \in Sessions, ReadFollower(s)
  PROVE  FeedInv'
<1> DEFINE list == Ordered(RoomOf[s])
           ids  == MessageIDsOf(RoomOf[s])
           seen == sessions[s].seen
           page == PageAfter(list, After(sessions[s]))
           x    == IF HasAnswer(s, page)
                   THEN [sessions[s] EXCEPT !.step = "idle", !.seen = seen \o page]
                   ELSE [sessions[s] EXCEPT !.step = "sleep"]
<1>1. sessions' = [sessions EXCEPT ![s] = x] /\ UNCHANGED vars
      /\ sessions[s].step = "read" /\ sessions[s].follows
  BY DEF ReadFollower
<1>2. Progress(sessions[s], list) /\ Admitted(sessions[s], RoomOf[s], AgentOf[s])
  BY SessionFacts
<1>3. list \in Seq(ids) /\ Ascending(list) /\ ids \in SUBSET Nat
      /\ ids \in SUBSET MessageIDs /\ sessions[s] \in Session /\ seen \in Seq(MessageIDs)
      /\ (sessions[s].since # None => sessions[s].since \in Nat)
  BY SessionFacts, NumberAssumption DEF Session
<1>4. seen \in Seq(ids)
  <2>1. PICK start \in Nat : Stretch(seen, list, start)
    BY <1>1, <1>2 DEF Progress, FollowsFrom
  <2> HIDE DEF list, ids, seen
  <2>2. Len(seen) \in Nat /\ Len(list) \in Nat /\ start + Len(seen) <= Len(list)
        /\ \A i \in 1 .. Len(seen) : seen[i] = list[start + i]
    BY <1>3, <2>1 DEF Stretch
  <2>3. \A i \in 1 .. Len(seen) : start + i \in 1 .. Len(list)
    BY <2>2
  <2>4. \A i \in 1 .. Len(seen) : seen[i] \in ids
    BY <1>3, <2>2, <2>3
  <2>5. QED
    BY <1>3, <2>4
<1>5. /\ page \in Seq(ids) /\ seen \o page \in Seq(ids)
      /\ \E start \in Nat : FollowsFrom(seen \o page, sessions[s].since, list, start)
  <2> HIDE DEF list, ids, page
  <2>1. page = PageAfter(list, After(sessions[s]))
    BY DEF page, list
  <2>2. QED
    BY <1>1, <1>2, <1>3, <1>4, <2>1, FollowerPage
<1>6. seen \o page \in Seq(MessageIDs)
  <2> DEFINE both == seen \o page
  <2> HIDE DEF list, ids, seen, page, both
  <2>1. both \in Seq(ids) /\ ids \in SUBSET MessageIDs
    BY <1>3, <1>5 DEF both
  <2>2. both \in Seq(MessageIDs)
    BY <2>1
  <2>3. QED
    BY <2>2 DEF both
<1> HIDE DEF list, ids, page
<1>7. CASE HasAnswer(s, page)
  <2> DEFINE y == [sessions[s] EXCEPT !.step = "idle", !.seen = seen \o page]
  <2>1. y \in Session /\ y.step = "idle" /\ y.follows /\ y.seen = seen \o page
        /\ y.since = sessions[s].since
    BY <1>1, <1>3, <1>6 DEF Session
  <2>2. sessions' = [sessions EXCEPT ![s] = y]
    BY <1>1, <1>7
  <2> HIDE DEF y
  <2>3. Progress(y, list)
    BY <1>5, <2>1 DEF Progress
  <2>4. Admitted(y, RoomOf[s], AgentOf[s])
    BY <2>1 DEF Admitted
  <2>5. QED
    BY <1>1, <2>1, <2>2, <2>3, <2>4, SessionStep DEF list
<1>8. CASE ~HasAnswer(s, page)
  <2> DEFINE y == [sessions[s] EXCEPT !.step = "sleep"]
  <2>1. y \in Session /\ y.step = "sleep" /\ y.follows /\ y.seen = seen
        /\ y.since = sessions[s].since /\ y.begun = sessions[s].begun
    BY <1>1, <1>3 DEF Session
  <2>2. sessions' = [sessions EXCEPT ![s] = y]
    BY <1>1, <1>8
  <2> HIDE DEF y
  <2>3. Progress(y, list)
    BY <1>1, <1>2, <2>1 DEF Progress
  <2>4. Admitted(y, RoomOf[s], AgentOf[s])
    BY <1>1, <1>2, <2>1 DEF Admitted
  <2>5. QED
    BY <1>1, <2>1, <2>2, <2>3, <2>4, SessionStep DEF list
<1>9. QED
  BY <1>7, <1>8

LEMMA ReadPagerKeepsInv ==
  ASSUME FeedInv, NEW s \in Sessions, ReadPager(s)
  PROVE  FeedInv'
<1> DEFINE list   == Ordered(RoomOf[s])
           ids    == MessageIDsOf(RoomOf[s])
           seen   == sessions[s].seen
           cursor == sessions[s].cursor
           next   == NextCursor(list, cursor)
           got    == PageBefore(list, cursor) \o seen
           x      == [sessions[s] EXCEPT !.step = IF next = None THEN "complete" ELSE "idle",
                        !.seen = got, !.cursor = next]
<1>1. sessions' = [sessions EXCEPT ![s] = x] /\ UNCHANGED vars
      /\ sessions[s].step = "read" /\ ~sessions[s].follows
  BY DEF ReadPager
<1>2. list \in Seq(ids) /\ ids \in SUBSET MessageIDs
      /\ sessions[s] \in Session /\ seen \in Seq(MessageIDs)
  BY SessionFacts DEF Session
<1>3. IF cursor = None THEN seen = <<>>
      ELSE cursor \in Nat /\ cursor > 0 /\ Stretch(seen, list, cursor)
  BY <1>1, SessionFacts DEF Progress, Session
<1>4. list \in Seq(MessageIDs)
  <2> HIDE DEF list, ids
  <2>1. QED
    BY <1>2
<1>5. /\ got \in Seq(MessageIDs)
      /\ next = None => Stretch(got, list, 0)
      /\ next # None => next \in Nat /\ next > 0 /\ Stretch(got, list, next)
  <2> HIDE DEF list, seen, cursor
  <2>1. QED
    BY <1>2, <1>3, <1>4, PagerPage
<1> HIDE DEF list, got, next
<1>6. x \in Session /\ x.step = (IF next = None THEN "complete" ELSE "idle")
      /\ x.seen = got /\ x.cursor = next /\ ~x.follows
  BY <1>1, <1>2, <1>5 DEF Session
<1> HIDE DEF x
<1>7. Progress(x, list)
  BY <1>5, <1>6 DEF Progress
<1>8. Admitted(x, RoomOf[s], AgentOf[s])
  BY <1>6 DEF Admitted
<1>9. QED
  BY <1>1, <1>6, <1>7, <1>8, SessionStep DEF list

LEMMA OtherStepsKeepInv ==
  ASSUME FeedInv, NEW s \in Sessions, Wake(s) \/ Expire(s) \/ Leave(s)
  PROVE  FeedInv'
<1>1. room[RoomOf[s]].version \in Nat /\ sessions[s] \in Session
      /\ Progress(sessions[s], Ordered(RoomOf[s]))
      /\ Admitted(sessions[s], RoomOf[s], AgentOf[s])
  BY SessionFacts DEF FeedInv, StoreInv, TypeOK, Room
<1>2. CASE Wake(s)
  <2> DEFINE x == [sessions[s] EXCEPT !.step = "look", !.begun = room[RoomOf[s]].version]
  <2>1. sessions' = [sessions EXCEPT ![s] = x] /\ UNCHANGED vars /\ sessions[s].step = "sleep"
    BY <1>2 DEF Wake
  <2>2. x \in Session /\ x.step = "look" /\ x.begun = room[RoomOf[s]].version
        /\ x.follows = sessions[s].follows /\ x.seen = sessions[s].seen
        /\ x.cursor = sessions[s].cursor /\ x.since = sessions[s].since
    BY <1>1 DEF Session
  <2> HIDE DEF x
  <2>3. Progress(x, Ordered(RoomOf[s])) /\ Admitted(x, RoomOf[s], AgentOf[s])
    BY <1>1, <2>1, <2>2 DEF Progress, Admitted
  <2>4. QED
    BY <2>1, <2>2, <2>3, SessionStep
<1>3. CASE Expire(s)
  <2> DEFINE x == [sessions[s] EXCEPT !.expired = TRUE]
  <2>1. sessions' = [sessions EXCEPT ![s] = x] /\ UNCHANGED vars
    BY <1>3 DEF Expire
  <2>2. x \in Session /\ x.step = sessions[s].step /\ x.begun = sessions[s].begun
        /\ x.follows = sessions[s].follows /\ x.seen = sessions[s].seen
        /\ x.cursor = sessions[s].cursor /\ x.since = sessions[s].since
    BY <1>1 DEF Session
  <2> HIDE DEF x
  <2>3. Progress(x, Ordered(RoomOf[s])) /\ Admitted(x, RoomOf[s], AgentOf[s])
    BY <1>1, <2>2 DEF Progress, Admitted
  <2>4. QED
    BY <2>1, <2>2, <2>3, SessionStep
<1>4. CASE Leave(s)
  <2> DEFINE x == [sessions[s] EXCEPT !.step = "gone"]
  <2>1. sessions' = [sessions EXCEPT ![s] = x] /\ UNCHANGED vars /\ sessions[s].step = "sleep"
    BY <1>4 DEF Leave
  <2>2. x \in Session /\ x.step = "gone"
        /\ x.follows = sessions[s].follows /\ x.seen = sessions[s].seen
        /\ x.cursor = sessions[s].cursor /\ x.since = sessions[s].since
    BY <1>1 DEF Session
  <2> HIDE DEF x
  <2>3. Progress(x, Ordered(RoomOf[s])) /\ Admitted(x, RoomOf[s], AgentOf[s])
    BY <1>1, <2>1, <2>2 DEF Progress, Admitted
  <2>4. QED
    BY <2>1, <2>2, <2>3, SessionStep
<1>5. QED
  BY <1>2, <1>3, <1>4

-----------------------------------------------------------------------------
(* The specification. *)

LEMMA InitFeedInv == FeedInit => FeedInv
<1>1. SUFFICES ASSUME FeedInit PROVE FeedInv
  OBVIOUS
<1>2. StoreInv /\ \A r \in RoomIDs : Sorts(Ordered(r), MessageIDsOf(r))
  BY <1>1, InitStoreInv, InitLists DEF FeedInit
<1>3. ASSUME NEW f \in BOOLEAN
      PROVE  /\ NewSession(f) \in Session /\ NewSession(f).step = "idle"
             /\ NewSession(f).seen = <<>> /\ NewSession(f).since = None
             /\ NewSession(f).cursor = None
  BY DEF NewSession, Session
<1>4. \A s \in Sessions : \E f \in BOOLEAN : sessions[s] = NewSession(f)
  BY <1>1 DEF FeedInit
<1>5. sessions \in [Sessions -> Session]
  BY <1>1, <1>3 DEF FeedInit
<1>6. ASSUME NEW s \in Sessions
      PROVE  /\ Progress(sessions[s], Ordered(RoomOf[s]))
             /\ Admitted(sessions[s], RoomOf[s], AgentOf[s])
  <2>1. sessions[s].step = "idle" /\ sessions[s].seen = <<>> /\ sessions[s].since = None
        /\ sessions[s].cursor = None
    BY <1>3, <1>4
  <2>2. Ordered(RoomOf[s]) \in Seq(MessageIDsOf(RoomOf[s]))
    BY <1>2, SessionAssumption DEF Sorts
  <2>3. Stretch(<<>>, Ordered(RoomOf[s]), 0)
    BY <2>2 DEF Stretch
  <2>4. FollowsFrom(<<>>, None, Ordered(RoomOf[s]), 0)
    BY <2>3 DEF FollowsFrom
  <2>5. QED
    BY <2>1, <2>4 DEF Progress, Admitted
<1>7. QED
  BY <1>2, <1>5, <1>6 DEF FeedInv, FeedTypeOK, StoreInv

LEMMA NextFeedInv == FeedInv /\ [FeedNext]_feedVars => FeedInv'
<1>1. SUFFICES ASSUME FeedInv, [FeedNext]_feedVars PROVE FeedInv'
  OBVIOUS
<1>2. CASE Next /\ IdsIncrease /\ UNCHANGED sessions
  BY <1>1, <1>2, StoreStep
<1>3. ASSUME NEW s \in Sessions,
             StartAfter(s) \/ Ask(s) \/ Serve(s) \/ Expire(s) \/ Leave(s)
      PROVE  FeedInv'
  BY <1>1, <1>3, StartAfterKeepsInv, AskKeepsInv, LookKeepsInv, ReadFollowerKeepsInv, ReadPagerKeepsInv,
     OtherStepsKeepInv DEF Serve
<1>4. CASE UNCHANGED feedVars
  <2>1. CASE Sessions = {}
    <3>1. UNCHANGED vars /\ UNCHANGED sessions
      BY <1>4 DEF feedVars
    <3>2. \A r : MessageIDsOf(r)' = MessageIDsOf(r) /\ Ordered(r)' = Ordered(r)
      BY <3>1 DEF vars, MessageIDsOf, Ordered, Ascending
    <3>3. StoreInv'
      BY <1>1, <3>1, NextStoreInv DEF FeedInv
    <3>4. QED
      BY <1>1, <2>1, <3>1, <3>2, <3>3 DEF FeedInv, FeedTypeOK, Sorts, Ascending, StoreInv
  <2>2. ASSUME NEW s \in Sessions PROVE FeedInv'
    <3>1. UNCHANGED vars /\ sessions' = [sessions EXCEPT ![s] = sessions[s]]
      BY <1>1, <1>4 DEF feedVars, FeedInv, FeedTypeOK
    <3>2. QED
      BY <1>1, <3>1, SessionFacts, SessionStep
  <2>3. QED
    BY <2>1, <2>2
<1>5. QED
  BY <1>1, <1>2, <1>3, <1>4 DEF FeedNext

LEMMA FeedInvariant == FeedSpec => []FeedInv
BY InitFeedInv, NextFeedInv, PTL DEF FeedSpec

(* What readMessages keeps of a session has the type of the handler's       *)
(* variables, and the store below it stays well typed.                     *)
THEOREM FeedTypeCorrect == FeedSpec => []FeedTypeOK
<1>1. FeedInv => FeedTypeOK
  BY DEF FeedInv
<1>2. QED
  BY <1>1, FeedInvariant, PTL

LEMMA StretchIsPrefix ==
  ASSUME NEW S, NEW T, NEW seen \in Seq(S), NEW list \in Seq(T), Stretch(seen, list, 0)
  PROVE  IsPrefix(seen, list)
<1>1. Len(seen) \in Nat /\ Len(list) \in Nat /\ Len(seen) <= Len(list)
      /\ \A i \in 1 .. Len(seen) : seen[i] = list[i]
  BY DEF Stretch
<1>2. SubSeq(seen, 1, Len(seen)) = SubSeq(list, 1, Len(seen))
  BY <1>1
<1>3. QED
  BY <1>1, <1>2 DEF IsPrefix

LEMMA StretchIsSlice ==
  ASSUME NEW S, NEW T, NEW seen \in Seq(S), NEW list \in Seq(T), NEW from \in Nat,
         Stretch(seen, list, from)
  PROVE  /\ from \in 0 .. Len(list) - Len(seen)
         /\ seen = SubSeq(list, from + 1, from + Len(seen))
<1> DEFINE k == Len(seen)
           slice == SubSeq(list, from + 1, from + k)
<1>1. k \in Nat /\ Len(list) \in Nat /\ from + k <= Len(list)
      /\ \A i \in 1 .. k : seen[i] = list[from + i]
  BY DEF Stretch
<1>2. slice \in Seq(T) /\ Len(slice) = k /\ \A i \in 1 .. k : slice[i] = list[from + i]
  <2> HIDE DEF k
  <2>1. from + k \in Nat /\ from <= from + k
    BY <1>1
  <2>2. slice \in Seq(T) /\ Len(slice) = from + k - from /\ Stretch(slice, list, from)
    BY <1>1, <2>1, SliceIsStretch
  <2>3. QED
    BY <1>1, <2>2 DEF Stretch
<1> HIDE DEF slice
<1>3. seen = slice
  BY <1>1, <1>2
<1>4. QED
  BY <1>1, <1>3 DEF slice

(* A follower that pages with the id of its last message ("after") has at  *)
(* any time a gapless part of the room: from the message it named in its   *)
(* first request on, or from the start of the window it was given for none.*)
THEOREM FollowersMissNothing == FeedSpec => []FollowerMissesNothing
<1>1. FeedInv => FollowerMissesNothing
  <2>1. SUFFICES ASSUME FeedInv, NEW s \in Sessions, sessions[s].follows
                 PROVE  \E start \in 0 .. Len(Ordered(RoomOf[s])) - Len(sessions[s].seen) :
                          /\ sessions[s].seen = SubSeq(Ordered(RoomOf[s]), start + 1,
                                                       start + Len(sessions[s].seen))
                          /\ IF sessions[s].since = None
                             THEN start = 0 \/ Len(sessions[s].seen) >= Limit
                             ELSE start > 0 /\ Ordered(RoomOf[s])[start] = sessions[s].since
    BY DEF FollowerMissesNothing
  <2>2. PICK start \in Nat :
          FollowsFrom(sessions[s].seen, sessions[s].since, Ordered(RoomOf[s]), start)
    BY <2>1, SessionFacts DEF Progress
  <2>3. sessions[s].seen \in Seq(MessageIDs)
        /\ Ordered(RoomOf[s]) \in Seq(MessageIDsOf(RoomOf[s]))
    BY <2>1, SessionFacts DEF Session
  <2>4. Stretch(sessions[s].seen, Ordered(RoomOf[s]), start)
    BY <2>2 DEF FollowsFrom
  <2>5. /\ start \in 0 .. Len(Ordered(RoomOf[s])) - Len(sessions[s].seen)
        /\ sessions[s].seen = SubSeq(Ordered(RoomOf[s]), start + 1,
                                     start + Len(sessions[s].seen))
    <3> DEFINE seen == sessions[s].seen
               list == Ordered(RoomOf[s])
    <3>1. \E S, T : seen \in Seq(S) /\ list \in Seq(T) /\ Stretch(seen, list, start)
      BY <2>3, <2>4
    <3> HIDE DEF seen, list
    <3>2. /\ start \in 0 .. Len(list) - Len(seen)
          /\ seen = SubSeq(list, start + 1, start + Len(seen))
      BY <3>1, StretchIsSlice
    <3>3. QED
      BY <3>2 DEF seen, list
  <2>6. QED
    BY <2>2, <2>5 DEF FollowsFrom
<1>2. QED
  BY <1>1, FeedInvariant, PTL

(* A pager that went back with positions ("cursor") until there was none   *)
(* left has a gapless beginning of the room too.                           *)
THEOREM PagersSeeAll == FeedSpec => []PagerSeesAll
<1>1. FeedInv => PagerSeesAll
  <2>1. SUFFICES ASSUME FeedInv, NEW s \in Sessions,
                        ~sessions[s].follows, sessions[s].step = "complete"
                 PROVE  IsPrefix(sessions[s].seen, Ordered(RoomOf[s]))
    BY DEF PagerSeesAll
  <2>2. Stretch(sessions[s].seen, Ordered(RoomOf[s]), 0)
    BY <2>1, SessionFacts DEF Progress
  <2>3. sessions[s].seen \in Seq(MessageIDs)
    BY <2>1, SessionFacts DEF Session
  <2>4. QED
    BY <2>1, <2>2, <2>3, SessionFacts, StretchIsPrefix
<1>2. QED
  BY <1>1, FeedInvariant, PTL

(* Only the two reads hand out messages.                                   *)
LEMMA OnlyReadsHandOut ==
  ASSUME FeedInv, [FeedNext]_feedVars, NEW s \in Sessions,
         sessions'[s].seen # sessions[s].seen
  PROVE  sessions[s].step = "read"
<1>1. ASSUME NEW t \in Sessions, StartAfter(t) \/ Ask(t) \/ Look(t) \/ Wake(t) \/ Expire(t) \/ Leave(t)
      PROVE  sessions'[s].seen = sessions[s].seen
  <2>1. sessions \in [Sessions -> Session]
    BY DEF FeedInv, FeedTypeOK
  <2>2. CASE t # s
    <3>1. PICK x : sessions' = [sessions EXCEPT ![t] = x]
      BY <1>1 DEF StartAfter, Ask, Look, Wake, Expire, Leave
    <3>2. QED
      BY <2>1, <2>2, <3>1
  <2>3. CASE t = s
    <3>1. CASE Ask(s)
      BY <2>1, <3>1 DEF Ask, Session
    <3>2. CASE Look(s)
      BY <2>1, <3>2 DEF Look, Session
    <3>3. CASE Wake(s) \/ Expire(s) \/ Leave(s)
      BY <2>1, <3>3 DEF Wake, Expire, Leave, Session
    <3>4. CASE StartAfter(s)
      BY <2>1, <3>4 DEF StartAfter, Session
    <3>5. QED
      BY <1>1, <2>3, <3>1, <3>2, <3>3, <3>4
  <2>4. QED
    BY <2>2, <2>3
<1>2. ASSUME NEW t \in Sessions, ReadFollower(t) \/ ReadPager(t)
      PROVE  sessions[t].step = "read" /\ t = s
  <2>1. \A u \in Sessions \ {t} : sessions'[u] = sessions[u]
    BY <1>2 DEF FeedInv, FeedTypeOK, ReadFollower, ReadPager
  <2>2. QED
    BY <1>2, <2>1 DEF ReadFollower, ReadPager
<1>3. UNCHANGED sessions => sessions'[s].seen = sessions[s].seen
  OBVIOUS
<1>4. QED
  BY <1>1, <1>2, <1>3 DEF FeedNext, Serve, feedVars

(* A page goes to somebody who could read the room at a moment between the *)
(* handler's last start and the page, by the room's own records.           *)
THEOREM OnlyReadersServed == FeedSpec => ServedToReaders
<1> DEFINE Served ==
      \A s \in Sessions :
        sessions'[s].seen # sessions[s].seen =>
          LET r == RoomOf[s] IN
          \E v \in sessions[s].begun .. room[r].version :
            RoleAt(audits[r], AgentOf[s], v) \in PermittedRoles["ReadMessages"]
<1>1. FeedInv /\ [FeedNext]_feedVars => Served
  BY OnlyReadsHandOut, SessionFacts DEF Admitted, CouldRead, MayRead
<1>2. QED
  BY <1>1, FeedInvariant, PTL DEF FeedSpec, ServedToReaders

=============================================================================
