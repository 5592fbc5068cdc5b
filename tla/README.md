# Verification of the DNSid cookbook

The cookbook is a collection of small programs ("recipes" and examples) that
show how agents with a DNS-anchored identity (DNSid) talk to each other and to
services. This directory holds TLA+ models of them, the TLC configurations
that check the models on small instances, and theorems that TLAPS proves for
every instance. Paths below are relative to the repository.

## The system

| part | state it keeps | operations | what is hard about it |
|---|---|---|---|
| message board, room store in memory (recipe 29, `store/memory.go`) | rooms, allowlists, nickname reservations, messages, idempotency keys, audit records, room quotas | create a room, grant, revoke, set a nickname, post, list, read | seven maps and counters that must agree after any sequence of calls; versions that start over |
| message board, room store in DynamoDB (`store/dynamodb.go`) | the same, as items of one table | the same, each a few consistent reads, one conditional transaction and, after a conflict, more reads | other servers' transactions between any two of these; lost answers |
| message board, HTTP handlers (`httpapi/server.go`, `authorization/`, `policy/board.cedar`) | none of their own; a snapshot of room and membership while a request runs | the eleven routes | the snapshot is read in one critical section and used in another; the long poll repeats it |
| orders gateway (recipe 30) | seen nonces in DynamoDB, a shared secret | verify a signed action, reserve its nonce, hand the order to a function whose API is open | the clock is read before verification; the table forgets late; the secret is renewed one function at a time |
| order desk (recipe 31) | seen nonces in memory, in each of two services | answer a question with tools that a language model chooses; take an order | verification in a thread, recording on the event loop; a model that calls what it was not offered |
| A2A agents (recipe 12) | nothing; their entry at the registry | register, answer the challenge, publish, greet a peer | polling, restarts, revocation, entries that never become active |
| image generation (recipe 07) | images, previews, audit records, a journal | generate, store, audit; locally or through the gateway | each step fails by itself; a lost answer; a target that works on |
| gateway verification (07, 07b) | none | a sequence of requests that must be refused or answered | a request may be refused for another reason than the one it tries |
| gateway deployments (07, 07b, 30) | an AWS account and a state file | some fifteen calls each, and the removal | broken off between any two calls and run again over what is left |
| Cloudflare ingress and egress (recipe 32) | seen nonces in a durable object; a cached setup promise per isolate | verify, claim the nonce, forward | the clock moves while verification awaits; concurrent set-ups that fail |
| message board client, review bot (28), plumbing store, research lab, signed HTTP (06b), JWKS (01), image target of 07b, scripts | little or none | one request or one run | see "What is not modelled" |

In the message board the parts interact as follows. A client sends a request
with a bearer token. The server verifies the token and knows the agent; the
handler asks the store for the room and the agent's membership (one critical
section of the store's mutex), asks the authorizer whether the agent may do
what it asks, and calls the store again (a second critical section) with the
versions it saw. The store checks the versions and the role once more and
writes. Between the two anything may happen: the agent may be removed,
demoted, renamed, removed and admitted again, or send the same request twice.

In the gateway recipes a deployment script makes a gateway with an authorizer,
an interceptor and a target; an application or a client then calls through
the gateway, whose interceptor decides what the target sees, and a script
verifies the result from outside. The guards of recipes 30, 31 and 32 have one
thing in common, a signed message with a nonce, and differ in where and how
long they remember it.

`PROJECT.json` lists every part with its sources and status, and every hazard
at the line where it bites.

## What is modelled

| module | models | kind |
|---|---|---|
| `Board` | what the board promises: roles, nicknames and posts of rooms | abstract specification |
| `BoardStore` | `MemoryStore`: every operation that writes | the store, one action per operation |
| `BoardAuthorization` | `LocalAuthorizer` and the Cedar policies as `AVPAuthorizer` asks them | pure decisions on a room |
| `BoardServer` | the five writing handlers with `LocalAuthorizer`, concurrently, over `BoardStore` | composition |
| `DynamoServer` | the same handlers with `DynamoDBStore` and Verified Permissions | composition; reuses the tables of `BoardStore`, none of its actions |
| `MessageFeed` | `readMessages` with its long poll and `MemoryStore.ReadMessages`, over `BoardStore` | composition |
| `ReplayGuard` | messages, deliveries and time, as the guards of recipes 30, 31 and 32 see them | common part |
| `OrdersGateway` | recipe 30: client, interceptor, reservation table, order function and its secret | over `ReplayGuard` |
| `OrderDesk` | recipe 31: agent, tools API, tool policy, signing client | over `ReplayGuard` |
| `IngressWorker` | recipe 32: the ingress worker, its nonce store, signing by the egress worker | over `ReplayGuard` |
| `Guards` | one of the three | composition |
| `A2A` | recipe 12: processes, messages, and the registry they expect | component with its environment |
| `AwsAccount` | what the deployment scripts find in and do to an account; how a run proceeds and is broken off | common part |
| `ImageDeploy`, `OidcDeploy`, `OrdersDeploy` | the scripts of recipes 07, 07b and 30, with their removal | over `AwsAccount` |
| `Deployments` | one of the three | composition |
| `ImageGateway` | what stands behind the gateway URL of 07 and 07b: authorizer, interceptor, target function, bucket | component |
| `ImageApp` | the web application of 07 | over `ImageGateway` |
| `GatewayVerifier` | the verification scripts of 07 and 07b | over `ImageGateway` |
| `ImageService` | the application or a verification in front of a gateway | composition |
| `MC...` | small instances where a configuration file does not suffice | model checking |
| `...Proofs` | the module they are named after (`DynamoProofs`: `DynamoServer`, `FeedProofs`: `MessageFeed`) | theorems |

### Board

Three functions: the role of every agent in every room, its nickname, and the
set of posts. Five actions: `Open`, `Admit` (a grant), `Expel` (a revoke),
`Rename`, `Publish`. Nothing here has a version, a counter or a reservation:
nicknames differ by their keys because `Rename` says so, a key is used once
because `Publish` says so.

### BoardStore

| variable | code |
|---|---|
| `room` | `roomRecord.room` in `MemoryStore.rooms`; `NoRoom` when `roomKeys` has no entry |
| `members` | `roomRecord.members`; `NotMember` stands for a missing entry |
| `nicknames` | `roomRecord.nicknames` |
| `messages` | `roomRecord.messages`; a set, as the code keeps it sorted by id |
| `idempotency` | `roomRecord.idempotency` |
| `audits` | `roomRecord.audits` |
| `quotas` | `MemoryStore.agentRooms` |

Every operation holds the mutex from its first read to its last write, so it
is one action: `CreateRoom`, `GrantAllowlist`, `RevokeAllowlist`,
`SetNickname`, `PostMessage`. For each there is a `...Result` operator that
follows the order of the code's early returns; the action needs the result
"ok". A call with any other result changes nothing and is a stuttering step.
The module allows any actor, any target and any expected versions, as the
interface does. Message ids are ULIDs: unique, and increasing only as far as
the wall clock is, so `PostMessage` picks any unused one.

`Implementation` of `Board`: `RoleOf`, `NicknameOf` and `PostsOf` are the
refinement mapping, `ImplementsBoard` the property.

### BoardServer

A call is a request with the progress of its handler: `Arrive` is everything
up to authorization (`GetRoomForAgent` and `Authorize`, one critical section),
`Write` and `Refuse` the store operation with the versions of the snapshot and
the answer. Calls are numbered in the order they arrive, which loses nothing
and saves TLC the permutations. `Status` is the HTTP status the caller sees:
`denied` and `not_found` are the same 404.

### DynamoServer

The variables of `BoardStore` are now the items of the table, and `work` says
where the handler of a call is and what it has read. Its steps follow the
requests to DynamoDB: `Receive` (reads META), `ReadMembership` (reads the
membership and asks Verified Permissions about both), `ReadItems` (what the
store operation reads for itself), then the transaction: `Commit` if all its
`Conditions` hold, `Cancel` if not, `Reject` if DynamoDB does not accept it.
`Guard` is the transaction of condition checks that a repeated request sends,
`Recheck` and `Classify` are what a cancelled post does to find out why.
Conditions and writes are spelled out item by item as in the code, so that
`CommitsAsStore` can compare them with the operations of `BoardStore`.

With `Failures` every request may fail (`Fail`), and a transaction may be
committed and its answer lost (the second disjunct of `Commit`). The AWS SDK's
own retries carry a token and change nothing, so they are not shown. Conflicts
between transactions in flight are failures of this kind too
(`transactionCanceledByConditions` does not count them as conflicts).

### MessageFeed

A session is a client reading one room: a follower sends the id of the last
message it has as `after` and waits, a pager goes back by cursor. The first
request of a follower may name a message that it knows of (`StartAfter`), or
none: `After` is then `None`, and `PageAfter` gives it the most recent page, as
`ReadMessages` does. `Look` is the first critical section of an iteration of
the loop in `readMessages`, `ReadFollower` and `ReadPager` the second, `Wake`
the end of the half second, `Expire` the passing of the deadline, `Leave` the
client hanging up. The room is edited by any step of `BoardStore` in the meantime, except that ids
increase (`IdsIncrease`), as they do within one process while its clock does
not step back.

### ReplayGuard, OrdersGateway, OrderDesk, IngressWorker, Guards

A message is signed (`Sign`) with the time of its sender's clock, which may be
`Ahead`, and delivered any number of times, altered or not (`Deliver`). The
guard finds it genuine and fresh (`Judge`), and later remembers its nonce or
finds it remembered, until `Kept` after the message is stale. Any time may pass
(`Tick`) between two steps of a call, up to `LastTick`: nothing in the code
bounds it, apart from the ten seconds after which the ingress worker gives up a
verification.

So no guard serves each message once whatever happens: one that takes long over
a message finds its nonce forgotten, as `guards_late` shows. What the guards
keep is `PassesAgainOnlyLate`: a message passes again only in a call that takes
at least `Kept` from its look at the clock on. That margin is one second in
recipe 31, the skew of five seconds that is granted to clocks in recipe 32 (one
tick of the model in either), and in recipe 30 two seconds and what the sweep of
the table is slow (`SweepLag`).

In `OrdersGateway` the nonce is reserved in the table by one conditional put
(`Reserve`, `DenyReplay`); the table drops expired items some time after they
expire (`Sweep`). A retry of the put by boto3 whose first answer was lost looks
like a replay and is denied, which is a `DenyReplay` too. What passed is
handed on with the secret of the interceptor (`Order`); anybody may call the
function's API without it (`CallDirectly`); a deployment renews the secret of
the function, then of the interceptor (`RenewTarget`, `RenewInterceptor`).

In `OrderDesk`, `CheckReplay` is the purge, look-up and insertion that run on
the event loop without an await between them. `CallTool` is any tool the model
names, offered or not: the tool policy, the signing client and `Route` decide
what comes of it. The table lives in the process and a restart forgets it;
restarts are not modelled, so `PassesAgainOnlyLate` speaks of one life of a
service.

In `IngressWorker` each signer has a durable object, which forgets and claims
in one step (`Claim`). Its answer may be lost, and the origin may be out of
reach (`Forward`): the nonce is used up in either case, so a client that
repeats the same signed request is refused and has to sign anew.

### A2A

`entry` is an agent's entry at the registry, `zone` what DNS and the log show
of it, `process` how far the process is, `message` the greeting it sends, and
`troubles` counts crashes and refusals. `RegisterAndPublish` is
`register_and_publish` of `identity.py`, a call to the registry at a time with
its polling; `Registry` is what the registry does of itself, `Reload` what DNS
does. A process that stops forgets everything (`Crash`) and is started again
(`StartAgent`), with a verification under way or a challenge that is gone.
`register_and_publish` reports "already published" for anything that it cannot
publish; `SelfCheck` is what then keeps such an agent from going on. `Verify`
looks at the entry anew where the code has the status of an earlier look, which
allows more, and `SendHello` is the check of the peer and the sending in one
step: `OnlyPublishedTakePart` is about what was published at some time, which
stays so.

### AwsAccount, ImageDeploy, OidcDeploy, OrdersDeploy, Deployments

`account` is what exists (APIs, functions, grants, roles, table, gateway),
`file` the state file, `run` the script under way with what it knows. Each
call that creates or changes something is an action, named after the helper
that makes it; `Abort` ends a run between any two calls, because a call failed
or the operator stopped it. What a script makes before an abort stays, and what
it knew is lost. Stray resources come about this way and by the loss of the
state file (`LoseState`), an API or gateway removed by hand (`RemoveApi`,
`RemoveGateway` of `ImageDeploy`).

### ImageGateway, ImageApp, GatewayVerifier, ImageService

A caller has one call to `generate_image`, in `target`. `Status` is what the
gateway says to a token and a session, `TrustedHeaders` what the interceptor
makes of them, `Accept`, `Generate`, `WriteImage`, `RecordAudit` what the
function does, each of which may end it, as may its time limit (`StopTarget`),
while the caller has given up or waits. A thread of the web application
validates, calls the model or converses with the gateway, fetches the preview,
and answers (`ThreadStep`). An error outside every handler of exceptions (a
directory that cannot be made, artifacts.py:25) ends a thread unanswered and is
left out. The application meets gateways as the deployment
script makes them (`Deployed`); a verification script meets any `Gateway`,
with or without each of the properties it is to find, and its token may expire
between any two of its requests. It takes any error for the refusal of
`debug_denied`, that of an expired token included (`DebugAnswers`).

## What the runs check

| run | asks | bounds | result |
|---|---|---|---|
| `board_store_allowlist` | do grants, revokes and renames with any versions keep roles, counter, reservations, audit log in step; is every change made by a manager, with the owner out of reach; do the two authorizers judge every such room alike; is all of it a board? | one room, four agents (up to symmetry), two nicknames with one key and a third, room versions up to 4, of members up to 3 | 15,021 states |
| `board_server` | do the answers of concurrent handlers match the store, is no change lost, do keys, quotas and nicknames hold, is an edit or a post answered 404 to whoever was never in the room? | two rooms, three agents, thirteen requests, five calls, three at a time | 1,807,433 states |
| `board_dynamo` | do posts and retries agree, are their conflicts real, and does every transaction, sent on stale reads, do what the memory store does in one step, when the table fails or loses answers? | established room, two calls at a time: four posts, retries, renames and revokes, or any three requests | 1,832,175 states |
| `board_dynamo_readmitted` | are nicknames reserved? | established room, four calls | violated, see below |
| `board_dynamo_role_change` | does a 503 mean that a service failed? | empty table, one call at a time | violated, see below |
| `board_answers` | does a polling reader get everything once, nothing once it is refused, and always an answer; does paging back by position get everything once while messages arrive; does every handler over the table answer? | one client of either kind, three messages in pages of two, room versions up to 3; or, on an empty table, four calls of five requests, two at a time | 49,242 states, liveness |
| `guards` | does a message pass again only if the guard is late; do orders come from whom they may? | three deliveries (up to symmetry) of two messages, fresh for one tick, three ticks, two secrets | 1,863,874 states |
| `guards_late` | does each message pass once? | two deliveries of one message | violated, see below |
| `a2a` | are agents published in the end whatever stops them, and does nobody else take part? | two agents, one greets the other; two troubles | 8,480 states, liveness |
| `deployments` | is the function never exposed, does a complete run leave a working path, does a redeployment keep it working, does a removal leave nothing it knows of? | two APIs, two gateways, three sentinels | 2.1 million states |
| `orders_redeploy` | may the API of a complete deployment run its function? | as above | violated, see below |
| `image_service` | what do answers, audit records and a verification that succeeds say about what happened; does every request end? | two browser requests or a verification, one stranger | 76,464 states, liveness |

The bounds are the smallest at which the interesting cases happen.

- *Board.* Three members let one admin edit another while the owner edits both,
  and a fourth agent meets the quota of three; permuting the agents changes
  nothing. Two nicknames with one key let case folding matter; two bodies under
  one key make the conflict of a retry; a second room lets the room quota
  matter. Five calls let a room be opened, a member admitted and three calls of
  members race. The version bounds `MaxRoomVersion` and `MaxMemberVersion` only
  cut behaviours short.
- *DynamoDB.* The runs on an "established room" start in a state that three or
  four requests lead to (`EstablishedInit`: an owner, an admin, a poster with a
  nickname), so that all the calls of the run can be in the middle of things.
  Two calls at a time suffice for a slow handler to be overtaken by any
  sequence of the others.
- *Feed.* There is room for creation, a grant and a revoke or change of role,
  and for two pages with an odd message; a follower that names no message may
  miss the first, and one that names it starts behind it.
- *Guards.* The third delivery meets a table that has forgotten and remembered
  again. `MaxAge` is one tick, `Ahead` one, `Kept` one (two in recipe 30), so
  that within `LastTick` a message may be signed ahead, expire, be forgotten,
  and pass in a call that began before. Two secrets make a deployment that
  renews them.
- *A2A.* A trouble is a crash, a refusal or a revocation; two let an agent
  crash before and after its refusal, or both agents meet one.
- *Deployments.* A second API or gateway is what a broken run leaves behind or
  an operator's removal makes necessary; a third sentinel is one that neither
  function has. `OverwriteTakesTitle` says whether overwriting an API resets
  its name, which the repository does not tell; the run takes FALSE, and an
  exploration outside the runs found the same with TRUE (2.8 million states).
- *Images.* Two requests let the answer or the record of one be taken for the
  other's; the stranger is any subject but the agent.

`CHECK_DEADLOCK FALSE` is set where a model at its bounds, or with all calls
answered, stops.

`NicknameIsCurrent` has an exemption that is a fact about the code: a
membership that was removed and granted again starts over at version 1, so a
handler that read a membership before may find its version matched by a later
one and post under the old nickname. Reaching it takes seven calls; an
exploration outside the runs (seven calls, two at a time, 5.9 million states)
reached it, and without the exemption the property fails there.

Each property has a mutant in `PROJECT.json`: a definition marked Faulty,
next to the one it replaces, that a plausible mistake in the code would be.

### What is wrong

Four runs find the code at odds with what it says of itself.

- `board_dynamo_readmitted` (`BOARD_BACKEND=aws`): a member with the nickname
  "Bob" sends a request to become "BOB". `SetNickname` reads the membership,
  sees that the key stays "bob", and builds a transaction that touches no
  reservation, on condition that version and role are still what they were.
  Before it is sent the member is removed, granted again (version 1) and
  renamed to "Al" (version 2). The version matches again; the transaction
  stores "BOB" with no reservation and leaves the reservation of "al". The
  tests of the memory store say that nicknames are unique and released.
  `CommitsAsStore` shows that nothing else goes wrong: it exempts the renaming
  of a readmitted member, and later renamings of a member whose nickname such
  a one left unreserved. (The second exemption was found by the proof: it
  takes more calls than the runs have.)
- `board_dynamo_role_change` (`BOARD_BACKEND=aws`): `GrantAllowlist` defines
  the expression value `:maxMembers` also when the condition does not use it,
  which DynamoDB rejects. The role of a member cannot be changed, and the
  caller is told that a dependency is unavailable.
- `orders_redeploy`: `allow_api_gateway` (deploy.py:257 of recipe 30) takes a
  permission of its name as its own. A removal that is broken off after the
  API and before the functions (clean.py:50 and 55) leaves the permission of
  the deleted API. The next deployment imports a new API, keeps that
  permission and completes, and the API may not run the function. The README
  of the recipe calls the deployment idempotent.
- `guards_late`: two deliveries of one message are both found fresh. The first
  is recorded and its nonce forgotten a margin after the message is stale; the
  second, whose verification takes longer, is recorded as new and passes.
  ingress.py:92 says "Accept each nonce once", the README of recipe 31 "Each
  signature works once.", that of recipe 30 "so the same valid action cannot run
  twice".

A fifth was met while modelling and has no run of its own: the README of recipe
29 (line 135) says that outsiders "cannot enumerate room IDs", but creating a
room under an id that is taken is answered 409 to anybody (memory.go:81,
server.go:441). `OutsidersSee404` is about edits and posts, which do not tell.

What else modelling brought to light, against no statement of the repository:

- Recipe 07, `invoke_gateway_mcp.py:51`: any status from 400 on counts as the
  refusal of a wrong audience. The request has no session, which the gateway
  refuses anyway, so the step shows nothing about audiences, and
  `VerifiedIsSound` claims nothing there. The last step takes any error for the
  refusal of `debug_denied` (lines 171 and 471), and the interceptor's 403 for
  a token that expired on the way is one: the tool may be callable, and
  `VerifiedIsSound` claims nothing there either.
- Recipe 29: a reader that starts without an id in a room with more messages
  than a page gets the most recent page (memory.go:473); going back from there
  is what cursors are for.
- Recipes 07b and 30 give a live gateway the provisional audience in every
  redeployment, until the run has got to the update after it.
- The teardown of 07b knows only the gateway of the state file;
  `verify_absent` reports others and leaves them. A run of 07 broken off
  between the import of an API and its naming leaves an API that no run finds
  again. A gateway of 07 that has FAILED stays so. The removal of recipe 30
  leaves a gateway whose targets take longer than two minutes.
- Recipe 12 has no replay protection, and `register_and_publish` reports
  "already published" for whatever it cannot publish.
- A restart of recipe 31 forgets the nonces of messages that are still fresh.

## Fairness

`DynamoSpec` assumes weak fairness of `Proceed(c)`, whatever the handler does
next: every request to the service is answered or times out, and neither
answer is assumed to be the good one. `FeedSpec` assumes that a handler goes
on (`Serve`; it runs on its own goroutine and waits for nothing but the mutex,
which every operation releases) and that time passes (`Expire`). `A2A` assumes
it of `Run(a)`, as a process that stops is started again and each wait of it
ends, and of `Registry(a)`, without which nothing is ever verified; crashes and
refusals are not fair and their number is bounded. `ImageService` assumes it
of `ThreadStep(r)`: every call of the application has a timeout, and the
target is not assumed to answer. No client is assumed to send anything.
`BoardServer`, the guards and the deployments claim no liveness and assume
none: handlers answer in one step, and a deployment may be broken off for good.

## What is proved

Every safety invariant and every action property of every passing run is also
a theorem, proved by TLAPS for every value of the constants under the
assumptions named in the modules. The sets of agents and rooms of the board
are finite (`FinitenessAssumption`: cardinalities are counted), `None` is none
of the values, the bounds are numbers, every nickname has a key, a request
carries the fields of its kind. A session of the feed has an agent, a room and
a page size above zero (`SessionAssumption`); `None` is no number
(`AbsentAssumption`: the parameters `after` and `cursor` of a request are
empty until there is one, server.go:231 of recipe 29). `GuardAssumption`,
`OrdersAssumption` and `GuardsAssumption` are about the guards, `AccountAssumption`,
`A2AAssumption`, `SubjectAssumption`, `AppAssumption` and `VerifierAssumption`
about the rest.

| theorem | states | argument |
|---|---|---|
| `BoardStoreProofs!TypeCorrect` | `TypeOK` | inductive as it stands |
| `BoardStoreProofs!OwnerForGood` | `SoleOwner` | inductive with `TypeOK`: a grant never gives "owner", an allowlist change never has the owner as target |
| `BoardStoreProofs!ReservationsCorrect` | `ReservationsMatchMembers` | needs that non-members have no nickname (`NonMembersBlank`): otherwise a revoke could leave a key and a grant revive it |
| `BoardStoreProofs!MemberCountCorrect` | `MemberCountExact` | the members change by one agent, added or removed |
| `BoardStoreProofs!IdempotencyCorrect` | `IdempotencyExact` | needs that ids of messages are not reused |
| `BoardStoreProofs!StoreImplementsBoard` | `ImplementsBoard` | `SimulationInv`: the invariants above are what the abstract guards need |
| `BoardStoreProofs!RoomQuotaCorrect` | `RoomQuotaExact` | the rooms of an agent grow by one with the counter |
| `BoardStoreProofs!AllowlistAuthorized` | `AllowlistChangesAuthorized` | operation by operation, with `SoleOwner` |
| `BoardStoreProofs!AuditExplains` | `AuditExplainsAllowlist` | an audit record is appended exactly when role or membership changes, so replaying one more yields the new role |
| `BoardStoreProofs!MessagesStay` | messages are never changed | each operation keeps or adds |
| `BoardServerProofs!ServerTypeCorrect` | `ServerTypeOK` | inductive as it stands |
| `BoardServerProofs!ServerUsesStore` | `ServerSpec => Spec` | every step of a handler is a store step or leaves the store alone, so everything above holds of the server |
| `BoardServerProofs!AuthorizersAlike` | `AuthorizersAgree` | the matrix and the policies agree for every role but the owner's (`SamePermissions`); `SoleOwner` says that the owner by role is the owner by name |
| `BoardServerProofs!NoUpdateIsLost` | `NoLostUpdate` | `EditorsAreBehind`: a call that changed the allowlist read a version below the room's current one, so no later one that read the same can pass |
| `BoardServerProofs!StrangersSee404` | `OutsidersSee404` | `OutsiderInv`: whoever got past admission is named in the audit log, for good |
| `BoardServerProofs!RetriesSeeOneMessage` | `RetriesAgree` (of `ServerSpec`) | `RetryInv`: what a call was told stays under its key (`KeysKept`), and only the call that stored it was told it is new (`CreatedOnce`) |
| `BoardServerProofs!NicknamesAreCurrent` | `NicknameIsCurrent` | `SnapshotsKept`: since the snapshot the membership is unchanged, or its version is higher, or a revoke stands in the log |
| `BoardServerProofs!AnswersAccountForEffects` | `AnswersMatchEffects` | a step adds one message and one call answered 201, one record and one successful edit, or none of these; the numbers of calls are cardinalities |
| `DynamoProofs!DynamoTypeCorrect` | `DynamoTypeOK` | part of `DynamoInv`, see below |
| `DynamoProofs!TablesStayExact` | `SoleOwner`, `MemberCountExact`, `RoomQuotaExact`, `AuditExplainsAllowlist`, `IdempotencyExact` (of `DynamoSpec`) | `TableInv` |
| `DynamoProofs!TransactionsAreStoreOperations` | `CommitsAsStore` | one lemma per transaction: its conditions and what the handler has read imply the result "ok" of the operation, and its items are what the operation writes |
| `DynamoProofs!ConflictsHaveACause` | `PostConflictsHaveACause` | `ConflictInv` |
| `DynamoProofs!PostsAreIdempotent` | `RetriesAgree` (of `DynamoSpec`) | `RetryInv` on top of `DynamoInv` |
| `FeedProofs!FeedTypeCorrect` | `FeedTypeOK` | part of `FeedInv`, see below |
| `FeedProofs!FollowersMissNothing`, `PagersSeeAll` | `FollowerMissesNothing`, `PagerSeesAll` | `Progress`, see below |
| `FeedProofs!OnlyReadersServed` | `ServedToReaders` | `Admitted`: a handler about to read was let in by a role that the audit log has for it at a version since it woke up |
| `GuardsProofs!MessagesPassAgainOnlyLate` | `PassesAgainOnlyLate` | a nonce that was claimed is remembered until `Kept` after its message is stale (`LongKept`), and a call on its way looked at the clock before that (`InTime`) |
| `GuardsProofs!OrdersAreVerified` | `OrdersVerified` | `SecretsKept`: only what the interceptor passed carries a secret |
| `GuardsProofs!OrdersAreForPeers` | `OrdersComeFromPeers` | `OrderOrigins`, `DeskServes`: an order that the agent signs has a delivery behind it that passed |
| `DeploymentsProofs!ImageNeverOpen` | `NeverOpen` | in recipe 07 no API is permitted before it is restricted (`NeverPermittedBeforeUse`, `OpenNotPermitted`, `ApiReady`) |
| `DeploymentsProofs!ImageRedeployKeepsServing` | `RedeployKeepsServing` | `ServingInv`, see below |
| `DeploymentsProofs!OidcDeployCompletes`, `OidcTeardownLeavesOnlyStrays` | `DeployCompletes`, `TeardownLeavesOnlyStrays` | `OidcInv`, see below |
| `DeploymentsProofs!OrdersDeployConnects`, `OrdersCleanRemoves` | `DeployConnects`, `CleanRemoves` | `OrdersInv`, see below |
| `A2AProofs!OnlyPublished` | `OnlyPublishedTakePart` | what DNS shows was published (`Resolvable`), so a self check or a verified sender is a proof of it (`SendersChecked`) |
| `ImageServiceProofs!AuditsAreTrue`, `ImagesAreAudited`, `AnswersAreRecorded`, `NothingIsUnasked` | `AuditsNameTheCaller`, `ImageIsAudited`, `AnswersNameRecords`, `NothingUnasked` | a run of the target accounts for what is stored (`RunAccounted`), a thread for what it answers (`ThreadAccounted`), and a call is made once (`CallsOnce`) |
| `ImageServiceProofs!VerificationIsSound` | `VerifiedIsSound` | `Shown`: what each step of the script has shown by then; a token that expires half way makes a later step fail, or, at the last one, show nothing |

Three of the inductive invariants deserve a word.

*The table in DynamoDB.* A handler of `DynamoServer` holds what it read one,
two or three requests ago, while others commit. `DynamoInv` has a part about
the table and a part about each handler. `TableInv` is what the invariants of
the store come to when a nickname may be unreserved; every step of the table is
an operation of the store or a `RenameStep`, the excepted renaming, and both
keep it. `StepOK` is what one handler knows at each of its steps ("the
membership I read is the current one, or its version has risen, or it was
revoked since"). No step of the table takes any of it from the handler
(`StepKept`), because versions, logs and used keys only grow (`TableEvolves`);
so a step of one handler has to be looked at for that handler only
(`MoveKeepsInv`), which is why the proof is linear in the number of actions.
At `Commit`, `StepOK` and the conditions of the transaction give the checks of
the store's operation. An id that was minted and not stored is nobody else's
(`MintedInv`).

*The feed.* The messages of a room are a set, and `Ordered` the list of their
ids. That a set of numbers has one order (`SortedOnce`) and that a post
appends to it, as ids increase (`ListGrows`), turns `FollowerMissesNothing`
into an invariant about stretches of a list that grows at its end
(`Progress`): a follower has a stretch of it from where it started, up to
`after` (`FollowsFrom`, `RecentWindow`); a pager has what lies
behind its cursor, and positions counted from the front do not move.
`Admitted` uses the audit log as the history of the room: the log up to a
version never changes, so a role it once had for an agent it has for good.

*The deployments.* `OidcInv`, `OrdersInv` and `ServingInv` say from which step
of a run on which fact holds of the account (each is a set of steps, named for
the fact), as one operator runs one script at a time. For recipe 30 an API is
imported only when none has the name, so there is never a second one for the
removal to miss (`OneApi`). For recipe 07 what the state file names is kept by
every run (`InstalledKept`): the API that a run finds is that of the file, and
a gateway made anew has an id never used before (`IdsCounted`).

Only model-checked: the four liveness properties `EveryRequestAnswered`,
`EveryReaderAnswered`, `EveryRequestEnds` and `EventuallyPublished`. Fairness
of an action is about where it is ENABLED, which this prover cannot reason
about. Nothing is proved by induction over data except through the library's
theorems on well-founded orders (`LeastNumber` of `FeedProofs`) and on finite
sets (`AnswersAccountForEffects`, the counters of the store).

## What could come next

1. Readers of the DynamoDB table beside its writers: followers under ids that
   do not increase, and the listings with their cursors.
2. `CommitsAsStore` without its exemptions, and `ReservationsMatchMembers`, of
   a DynamoDB store whose renaming is conditional on the nickname it read: the
   rest of the proof would carry over.
3. Restarts of recipe 31, whose nonces do not survive them.

## What is not modelled

- Token verification, signatures and the transparency log belong to the DNSid
  SDKs, which are not in the repository: the models start from a verified
  identity. Nothing remains of recipe 06b but one verified request. What the
  research lab's public data service accepts depends on the clock skew of the
  SDK, which its map of seen signatures must outlast.
- Verified Permissions is modelled by the policies it is given.
- The review bot (28) makes one review after the other; which tools are called
  and in which order is the choice of a language model, and the code promises
  nothing about it.
- The cached set-up of the workers of recipe 32: a guarded reset, after a
  failure, of a promise whose configuration does not change.
- The listings of the board read and write nothing; its client sends one
  request, and again after a 401, which the server answers before it does
  anything.
- The plumbing store makes a quote in one step, never changes it, and loses it
  with its key in a restart. The coordinator of the research lab runs
  researchers that share nothing.
- The image target of 07b and the JWKS server (01) are stateless. Packaging,
  static pages, prompts and scripts have no state to check.

`PROJECT.json` gives the reason for each part.
