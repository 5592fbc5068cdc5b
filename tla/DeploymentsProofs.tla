------------------------- MODULE DeploymentsProofs -------------------------
(***************************************************************************)
(* Proofs about the deployments of the three recipes.                      *)
(*                                                                         *)
(* Recipe 07, first part: an API is permitted to run the function only by  *)
(* the calls that follow the deployment of its restriction.  What makes    *)
(* that enough: the only deployment without restriction is of an API that  *)
(* was just imported, whose id no permission names, and an API found again *)
(* carries the restriction before it is deployed.                          *)
(*                                                                         *)
(* Then for each recipe: a run may count on what its earlier calls did,    *)
(* because one operator runs one script at a time and nothing else touches *)
(* the account meanwhile.  The invariants say so, from which step on which *)
(* fact holds, whatever state the runs broken off before have left.        *)
(***************************************************************************)
EXTENDS Deployments, TLAPS

(* Before these are over a run may not know its API. *)
EarlySteps ==
  {"idle", "bucket", "block public access", "target role", "target policy",
   "interceptor role", "interceptor policy", "target function", "interceptor function",
   "find api", "import api"}

(* Steps whose API is in a certain state. *)
ApiSteps ==
  {"name api", "deploy api", "deploy restriction", "permit first", "permit second"}

LateSteps ==
  {"gateway role first", "gateway policy first", "overwrite api", "gateway role",
   "gateway policy", "restrict api", "gateway", "wait gateway", "authorizer",
   "wait authorizer", "interceptor audience", "target", "wait target", "save"}

ImageSteps == EarlySteps \cup ApiSteps \cup LateSteps

ImageRun == [script : {"none", "deploy"}, step : ImageSteps, api : Nat,
             claims : BOOLEAN, sentinel : Nat]

Typed ==
  /\ account \in Account
  /\ run \in ImageRun
  /\ file \in [api : ApiIDs \cup {0}, gateway : Nat, audience : Nat, claims : BOOLEAN]

NotPermitted(i) == \A t \in Routes : account.grants[t] # i

ApiKnown ==
  run.step \notin EarlySteps =>
    run.api \in ApiIDs /\ account.apis[run.api].status # "unused"

NeverPermittedBeforeUse ==
  \A i \in ApiIDs : account.apis[i].status = "unused" => NotPermitted(i)

OpenNotPermitted ==
  \A i \in ApiIDs : account.apis[i].stage = "open" => NotPermitted(i)

ApiReady ==
  /\ run.step \in {"name api", "deploy api"} =>
       account.apis[run.api].policy \/ NotPermitted(run.api)
  /\ run.step = "deploy restriction" => account.apis[run.api].policy
  /\ run.step \in {"permit first", "permit second"} =>
       account.apis[run.api].stage = "restricted"

ImageInv ==
  Typed /\ ApiKnown /\ NeverPermittedBeforeUse /\ OpenNotPermitted /\ ApiReady

Inv == recipe = "07" => ImageInv

-----------------------------------------------------------------------------

LEMMA AccountFields ==
  ASSUME Typed
  PROVE  /\ account \in Account /\ run \in ImageRun
         /\ account.apis \in [ApiIDs -> Api] /\ account.grants \in [Routes -> Nat]
         /\ account.roles \in [RoleNames -> Role]
         /\ account.functions \in [FunctionNames -> Function]
         /\ account.gateway \in Gateway /\ account.gatewaysMade \in Nat
         /\ run.step \in ImageSteps /\ run.api \in Nat /\ run.claims \in BOOLEAN
         /\ file.api \in ApiIDs \cup {0} /\ file.audience \in Nat
BY DEF Typed, Account, ImageRun

(* A step that touches neither APIs nor permissions.                       *)
LEMMA UnrelatedInv ==
  ASSUME ImageInv, account' \in Account,
         account'.apis = account.apis, account'.grants = account.grants,
         run' \in ImageRun, run'.step \notin ApiSteps,
         run'.step \in EarlySteps \/ (run.step \notin EarlySteps /\ run'.api = run.api),
         file' = file
  PROVE  ImageInv'
<1>1. Typed'  BY DEF ImageInv, Typed
<1>2. ApiKnown'  BY DEF ImageInv, ApiKnown
<1>3. NeverPermittedBeforeUse' /\ OpenNotPermitted'
  BY DEF ImageInv, NeverPermittedBeforeUse, OpenNotPermitted, NotPermitted
<1>4. ApiReady'  BY DEF ApiReady, ApiSteps
<1> QED  BY <1>1, <1>2, <1>3, <1>4 DEF ImageInv

(* A call that does so. *)
LEMMA UnrelatedCallInv ==
  ASSUME ImageInv, NEW step \in ImageSteps, NEW next \in ImageSteps, NEW new \in Account,
         Image!Call(step, new, next),
         new.apis = account.apis, new.grants = account.grants,
         next \notin ApiSteps, next \in EarlySteps \/ step \notin EarlySteps
  PROVE  ImageInv'
<1>1. run \in ImageRun  BY AccountFields DEF ImageInv
<1>2. /\ run.step = step /\ account' = new /\ run' = [run EXCEPT !.step = next]
      /\ file' = file
  BY DEF Image!Call
<1>3. run' \in ImageRun /\ run'.step = next /\ run'.api = run.api
  BY <1>1, <1>2 DEF ImageRun
<1> QED  BY <1>2, <1>3, UnrelatedInv

LEMMA ImageInitInv == AccountInit => ImageInv
<1> SUFFICES ASSUME AccountInit PROVE ImageInv  OBVIOUS
<1> USE DEF AccountInit, EmptyAccount
<1>1. Typed
  <2>1. account \in Account
    BY DEF Account, NoRole, NoFunction, NoApi, NoGateway, Role, Function, Api, Gateway
  <2>2. run \in ImageRun  BY DEF Idle, ImageRun, ImageSteps, EarlySteps
  <2> QED  BY <2>1, <2>2 DEF Typed, NoFile
<1>2. run.step = "idle"  BY DEF Idle
<1>3. ApiKnown /\ ApiReady  BY <1>2 DEF ApiKnown, ApiReady, EarlySteps
<1>4. \A i \in ApiIDs : NotPermitted(i)
  BY AccountAssumption DEF NotPermitted
<1> QED
  BY <1>1, <1>3, <1>4 DEF ImageInv, NeverPermittedBeforeUse, OpenNotPermitted

-----------------------------------------------------------------------------
(* What the calls leave alone. *)

LEMMA AnotherRole ==
  ASSUME Typed, NEW n \in RoleNames, NEW r \in Role
  PROVE  /\ [account EXCEPT !.roles[n] = r] \in Account
         /\ [account EXCEPT !.roles[n] = r].apis = account.apis
         /\ [account EXCEPT !.roles[n] = r].grants = account.grants
<1>1. [account.roles EXCEPT ![n] = r] \in [RoleNames -> Role]  BY AccountFields
<1> DEFINE roles == [account.roles EXCEPT ![n] = r]
<1>2. [account EXCEPT !.roles[n] = r] = [account EXCEPT !.roles = roles]  OBVIOUS
<1> HIDE DEF roles
<1> QED  BY <1>1, <1>2, AccountFields DEF Account, roles

LEMMA WithRoleKeeps ==
  ASSUME Typed, NEW n \in RoleNames
  PROVE  /\ Image!WithRole(n) \in Account
         /\ Image!WithRole(n).apis = account.apis
         /\ Image!WithRole(n).grants = account.grants
<1> DEFINE r == [account.roles[n] EXCEPT !.exists = TRUE]
<1>1. account.roles[n] \in Role  BY AccountFields
<1>2. r \in Role  BY <1>1 DEF Role
<1>3. Image!WithRole(n) = [account EXCEPT !.roles[n] = r]  BY DEF Image!WithRole
<1> HIDE DEF r
<1> QED  BY <1>2, <1>3, AnotherRole

LEMMA WithPolicyKeeps ==
  ASSUME Typed, NEW n \in RoleNames,
         NEW policy \in SUBSET ({"api", "function", "logs", "table"} \X Nat)
  PROVE  /\ Image!WithPolicy(n, policy) \in Account
         /\ Image!WithPolicy(n, policy).apis = account.apis
         /\ Image!WithPolicy(n, policy).grants = account.grants
<1> DEFINE r == [account.roles[n] EXCEPT !.policy = policy]
<1>1. account.roles[n] \in Role  BY AccountFields
<1>2. r \in Role  BY <1>1 DEF Role
<1>3. Image!WithPolicy(n, policy) = [account EXCEPT !.roles[n] = r]  BY DEF Image!WithPolicy
<1> HIDE DEF r
<1> QED  BY <1>2, <1>3, AnotherRole

LEMMA WithFunctionKeeps ==
  ASSUME Typed, NEW f \in FunctionNames, NEW env \in Nat
  PROVE  /\ Image!WithFunction(f, env) \in Account
         /\ Image!WithFunction(f, env).apis = account.apis
         /\ Image!WithFunction(f, env).grants = account.grants
BY AccountFields DEF Image!WithFunction, Account, Function

LEMMA WithGatewayKeeps ==
  ASSUME Typed, NEW id \in Nat, NEW audience \in Nat, NEW claims \in BOOLEAN,
         NEW status \in {"READY", "FAILED"}
  PROVE  /\ Image!WithCreatedGateway(id, audience, claims, status) \in Account
         /\ Image!WithCreatedGateway(id, audience, claims, status).apis = account.apis
         /\ Image!WithCreatedGateway(id, audience, claims, status).grants = account.grants
         /\ Image!WithAuthorizer(audience, claims, status) \in Account
         /\ Image!WithAuthorizer(audience, claims, status).apis = account.apis
         /\ Image!WithAuthorizer(audience, claims, status).grants = account.grants
         /\ Image!WithTarget(id) \in Account
         /\ Image!WithTarget(id).apis = account.apis
         /\ Image!WithTarget(id).grants = account.grants
BY AccountFields
DEF Image!WithCreatedGateway, Image!WithAuthorizer, Image!WithTarget, Account, Gateway

LEMMA ImagePolicies ==
  ASSUME NEW api \in Nat
  PROVE  /\ Image!Policies["target"] \in SUBSET ({"api", "function", "logs", "table"} \X Nat)
         /\ Image!Policies["interceptor"] \in SUBSET ({"api", "function", "logs", "table"} \X Nat)
         /\ Image!GatewayPolicy(api) \in SUBSET ({"api", "function", "logs", "table"} \X Nat)
BY DEF Image!Policies, Image!GatewayPolicy

-----------------------------------------------------------------------------
(* The calls that leave APIs and permissions alone. *)

LEMMA BucketInv ==
  ASSUME ImageInv, Image!CreateBucket \/ Image!BlockPublicAccess
  PROVE  ImageInv'
<1>1. Typed  BY DEF ImageInv
<1>2. /\ [account EXCEPT !.bucket = IF @ = "none" THEN "open" ELSE @] \in Account
      /\ [account EXCEPT !.bucket = "private"] \in Account
  BY <1>1, AccountFields DEF Account
<1>3. /\ [account EXCEPT !.bucket = IF @ = "none" THEN "open" ELSE @].apis = account.apis
      /\ [account EXCEPT !.bucket = IF @ = "none" THEN "open" ELSE @].grants = account.grants
      /\ [account EXCEPT !.bucket = "private"].apis = account.apis
      /\ [account EXCEPT !.bucket = "private"].grants = account.grants
  BY <1>1, AccountFields DEF Account
<1> QED
  BY <1>2, <1>3, UnrelatedCallInv
  DEF Image!CreateBucket, Image!BlockPublicAccess, ImageSteps, EarlySteps, ApiSteps

LEMMA RolesInv == ASSUME ImageInv, Image!Roles \/ Image!GatewayRoleFirst \/ Image!GatewayRole
                  PROVE  ImageInv'
<1>1. Typed /\ run.api \in Nat  BY AccountFields DEF ImageInv
<1> USE DEF ImageSteps, EarlySteps, ApiSteps, LateSteps, RoleNames
<1>2. CASE Image!Roles
  BY <1>1, <1>2, WithRoleKeeps, WithPolicyKeeps, ImagePolicies, UnrelatedCallInv
  DEF Image!Roles, Image!CreateRole, Image!PutRolePolicy, Image!Policies
<1>3. CASE Image!GatewayRoleFirst \/ Image!GatewayRole
  BY <1>1, <1>3, WithRoleKeeps, WithPolicyKeeps, ImagePolicies, UnrelatedCallInv
  DEF Image!GatewayRoleFirst, Image!GatewayRole
<1> QED  BY <1>2, <1>3

LEMMA FunctionsInv ==
  ASSUME ImageInv,
         \/ Image!TargetFunction \/ Image!InterceptorFunction \/ Image!UpdateInterceptorAudience
  PROVE  ImageInv'
<1>1. Typed  BY DEF ImageInv
<1>2. Image!VerifiedAudience \in Nat /\ Image!KnownAudience \in Nat /\ 0 \in Nat
  BY <1>1, AccountFields DEF Image!VerifiedAudience, Image!KnownAudience, Gateway
<1> USE DEF ImageSteps, EarlySteps, ApiSteps, LateSteps, FunctionNames
<1>3. CASE Image!TargetFunction
  BY <1>1, <1>2, <1>3, WithFunctionKeeps, UnrelatedCallInv DEF Image!TargetFunction
<1>4. CASE Image!InterceptorFunction
  BY <1>1, <1>2, <1>4, WithFunctionKeeps, UnrelatedCallInv DEF Image!InterceptorFunction
<1>5. CASE Image!UpdateInterceptorAudience
  BY <1>1, <1>2, <1>5, WithFunctionKeeps, UnrelatedCallInv DEF Image!UpdateInterceptorAudience
<1> QED  BY <1>3, <1>4, <1>5

LEMMA GatewayInv ==
  ASSUME ImageInv,
         \/ Image!EnsureGateway \/ Image!WaitGateways \/ Image!UpdateAuthorizer
         \/ Image!EnsureGatewayTarget \/ Image!WaitTarget
  PROVE  ImageInv'
<1> USE DEF ImageSteps, EarlySteps, ApiSteps, LateSteps
<1>1. Typed /\ account \in Account /\ run \in ImageRun /\ run.api \in Nat
      /\ run.claims \in BOOLEAN /\ account.gatewaysMade \in Nat /\ account.gateway \in Gateway
  BY AccountFields DEF ImageInv
<1>2. CASE Image!EnsureGateway
  <2>1. run.step = "gateway" /\ file' = file  BY <1>2 DEF Image!EnsureGateway
  <2>2. PICK known \in BOOLEAN : run' = [run EXCEPT !.claims = known, !.step = "wait gateway"]
    BY <1>2 DEF Image!EnsureGateway
  <2>3. run' \in ImageRun /\ run'.step = "wait gateway" /\ run'.api = run.api
    BY <1>1, <2>2 DEF ImageRun
  <2>4. /\ account' \in Account /\ account'.apis = account.apis
        /\ account'.grants = account.grants
    <3>1. CASE account' = account  BY <1>1, <3>1
    <3>2. CASE \E g \in Image!FreshGateways, claims \in BOOLEAN, status \in {"READY", "FAILED"} :
                 account' = Image!WithCreatedGateway(g, 0, claims, status)
      <4>1. Image!FreshGateways \subseteq Nat
        BY <1>1 DEF Image!FreshGateways
      <4> QED  BY <1>1, <3>2, <4>1, WithGatewayKeeps
    <3> QED  BY <1>2, <3>1, <3>2 DEF Image!EnsureGateway
  <2> QED  BY <2>1, <2>3, <2>4, UnrelatedInv
<1>3. CASE Image!WaitGateways \/ Image!WaitTarget
  BY <1>1, <1>3, UnrelatedCallInv
  DEF Image!WaitGateways, Image!WaitGateway, Image!WaitTarget
<1>4. CASE Image!UpdateAuthorizer
  <2>1. PICK claims \in BOOLEAN, status \in {"READY", "FAILED"} :
          /\ account' = Image!WithAuthorizer(Image!VerifiedAudience, claims, status)
          /\ run' = [run EXCEPT !.claims = claims, !.step = "wait authorizer"]
    BY <1>1, <1>4 DEF Image!UpdateAuthorizer
  <2>2. run.step = "authorizer" /\ file' = file  BY <1>4 DEF Image!UpdateAuthorizer
  <2>3. Image!VerifiedAudience \in Nat  BY <1>1 DEF Image!VerifiedAudience, Gateway
  <2>4. run' \in ImageRun /\ run'.step = "wait authorizer" /\ run'.api = run.api
    BY <1>1, <2>1 DEF ImageRun
  <2> QED  BY <1>1, <2>1, <2>2, <2>3, <2>4, WithGatewayKeeps, UnrelatedInv
<1>5. CASE Image!EnsureGatewayTarget
  BY <1>1, <1>5, WithGatewayKeeps, UnrelatedCallInv DEF Image!EnsureGatewayTarget
<1> QED  BY <1>2, <1>3, <1>4, <1>5

(* A run begins, ends or is broken off; the operator removes the gateway.  *)
LEMMA OutsideInv ==
  ASSUME ImageInv,
         \/ Image!StartDeploy \/ Image!SaveState \/ Image!Abort \/ Image!LoseState
         \/ Image!RemoveGateway
  PROVE  ImageInv'
<1>1. Typed /\ ApiKnown /\ account \in Account /\ run \in ImageRun /\ account.gateway \in Gateway
      /\ run.claims \in BOOLEAN
  BY AccountFields DEF ImageInv
<1>2. Image!Idle \in ImageRun /\ Image!Idle.step = "idle"
  BY DEF Image!Idle, ImageRun, ImageSteps, EarlySteps
<1>3. CASE Image!StartDeploy
  <2>1. run' \in ImageRun /\ run'.step = "bucket" /\ UNCHANGED <<account, file>>
    BY <1>3 DEF Image!StartDeploy, Image!Start, Image!Idle, ImageRun, ImageSteps, EarlySteps
  <2> QED  BY <1>1, <2>1, UnrelatedInv DEF EarlySteps, ApiSteps
<1>4. CASE Image!Abort
  BY <1>1, <1>2, <1>4, UnrelatedInv DEF Image!Abort, EarlySteps, ApiSteps
<1>5. CASE Image!SaveState \/ Image!LoseState
  <2>1. run' = Image!Idle /\ account' = account
    BY <1>5 DEF Image!SaveState, Image!LoseState
  <2>2. file' \in [api : ApiIDs \cup {0}, gateway : Nat, audience : Nat, claims : BOOLEAN]
    <3>1. CASE Image!SaveState
      <4>1. run.api \in ApiIDs  BY <1>1, <3>1 DEF Image!SaveState, ApiKnown, EarlySteps
      <4> QED  BY <1>1, <3>1, <4>1 DEF Image!SaveState, Gateway
    <3>2. CASE Image!LoseState  BY <3>2 DEF Image!LoseState, Image!NoFile
    <3> QED  BY <1>5, <3>1, <3>2
  <2>3. Typed'  BY <1>1, <1>2, <2>1, <2>2 DEF Typed
  <2>4. ApiKnown' /\ ApiReady'  BY <1>2, <2>1 DEF ApiKnown, ApiReady, EarlySteps
  <2> QED
    BY <2>1, <2>3, <2>4
    DEF ImageInv, NeverPermittedBeforeUse, OpenNotPermitted, NotPermitted
<1>6. CASE Image!RemoveGateway
  <2>1. run = Image!Idle /\ run' = run /\ file' = file
    BY <1>6 DEF Image!RemoveGateway
  <2>2. account' \in Account /\ account'.apis = account.apis /\ account'.grants = account.grants
    BY <1>1, <1>6, AccountFields
    DEF Image!RemoveGateway, Image!NoGateway, Account, Gateway
  <2> QED  BY <1>1, <1>2, <2>1, <2>2, UnrelatedInv DEF EarlySteps, ApiSteps
<1> QED  BY <1>3, <1>4, <1>5, <1>6

-----------------------------------------------------------------------------
(* The calls about an API. *)

(* A step that makes a of the API i.                                       *)
LEMMA ApiChangeInv ==
  ASSUME ImageInv, NEW i \in ApiIDs, NEW a \in Api,
         account' = [account EXCEPT !.apis[i] = a], file' = file,
         run' \in ImageRun, run'.step \notin EarlySteps => run'.api = i,
         a.status # "unused", a.stage = "open" => NotPermitted(i),
         run'.step \in {"name api", "deploy api"} => a.policy \/ NotPermitted(i),
         run'.step = "deploy restriction" => a.policy,
         run'.step \in {"permit first", "permit second"} => a.stage = "restricted"
  PROVE  ImageInv'
<1> DEFINE apis == [account.apis EXCEPT ![i] = a]
<1>1. Typed /\ account \in Account /\ account.apis \in [ApiIDs -> Api]
  BY AccountFields DEF ImageInv
<1>2. /\ apis \in [ApiIDs -> Api] /\ apis[i] = a
      /\ \A j \in ApiIDs : j # i => apis[j] = account.apis[j]
  BY <1>1
<1>3. account' = [account EXCEPT !.apis = apis]  OBVIOUS
<1> HIDE DEF apis
<1>4. account' \in Account /\ account'.apis = apis /\ account'.grants = account.grants
  BY <1>1, <1>2, <1>3 DEF Account
<1>5. Typed'  BY <1>1, <1>4 DEF Typed
<1>6. ApiKnown'  BY <1>2, <1>4 DEF ApiKnown
<1>7. \A j \in ApiIDs : NotPermitted(j)' <=> NotPermitted(j)  BY <1>4 DEF NotPermitted
<1>8. NeverPermittedBeforeUse' /\ OpenNotPermitted'
  <2> SUFFICES ASSUME NEW j \in ApiIDs, apis[j].status = "unused" \/ apis[j].stage = "open"
               PROVE  NotPermitted(j)
    BY <1>4, <1>7 DEF NeverPermittedBeforeUse, OpenNotPermitted
  <2>1. CASE j = i  BY <2>1, <1>2
  <2>2. CASE j # i
    BY <2>2, <1>2 DEF ImageInv, NeverPermittedBeforeUse, OpenNotPermitted
  <2> QED  BY <2>1, <2>2
<1>9. ApiReady'  BY <1>2, <1>4, <1>7 DEF ApiReady, EarlySteps
<1> QED  BY <1>5, <1>6, <1>8, <1>9 DEF ImageInv

(* The same of a call about the API of the run. *)
LEMMA ApiCallInv ==
  ASSUME ImageInv, NEW step \in ImageSteps \ EarlySteps, NEW next \in ImageSteps \ EarlySteps,
         NEW a \in Api,
         Image!Call(step, [account EXCEPT !.apis[run.api] = a], next),
         a.status = account.apis[run.api].status, a.stage = "open" => NotPermitted(run.api),
         next \in {"name api", "deploy api"} => a.policy \/ NotPermitted(run.api),
         next = "deploy restriction" => a.policy,
         next \in {"permit first", "permit second"} => a.stage = "restricted"
  PROVE  ImageInv'
<1>1. run.step = step /\ run' = [run EXCEPT !.step = next] /\ file' = file
      /\ account' = [account EXCEPT !.apis[run.api] = a]
  BY DEF Image!Call
<1>2. run.api \in ApiIDs /\ run \in ImageRun /\ a.status # "unused"
  BY <1>1 DEF ImageInv, ApiKnown, Typed
<1>3. run' \in ImageRun /\ run'.step = next /\ run'.api = run.api
  BY <1>1, <1>2 DEF ImageRun
<1> QED  BY <1>1, <1>2, <1>3, ApiChangeInv

LEMMA FindApiInv == ASSUME ImageInv, Image!FindApi PROVE ImageInv'
<1>1. Typed /\ account \in Account /\ run \in ImageRun /\ file.api \in ApiIDs \cup {0}
  BY AccountFields DEF ImageInv
<1>2. UNCHANGED <<account, file>>  BY DEF Image!FindApi
<1>3. \A i \in Image!ExistingApis : i \in ApiIDs /\ account.apis[i].status = "live"
  BY <1>1 DEF Image!ExistingApis, Image!FoundByName
<1>4. /\ run' \in ImageRun
      /\ \/ /\ run'.api \in ApiIDs /\ account.apis[run'.api].status # "unused"
            /\ run'.step = "gateway role first"
         \/ run'.step = "import api"
  BY <1>1, <1>3, AccountAssumption
  DEF Image!FindApi, ImageRun, ImageSteps, EarlySteps, LateSteps
<1>5. Typed' /\ ApiKnown' /\ ApiReady'
  BY <1>1, <1>2, <1>4 DEF Typed, ApiKnown, ApiReady, EarlySteps
<1> QED
  BY <1>2, <1>5 DEF ImageInv, NeverPermittedBeforeUse, OpenNotPermitted, NotPermitted

LEMMA ApisInv ==
  ASSUME ImageInv,
         \/ Image!OverwriteApi \/ Image!ImportApi \/ Image!NameApi \/ Image!DeployApi
         \/ Image!RestrictApi \/ Image!DeployRestriction \/ Image!RemoveApi
  PROVE  ImageInv'
<1> USE DEF ImageSteps, EarlySteps, ApiSteps, LateSteps
<1> DEFINE a == account.apis[run.api]
<1>1. Typed /\ account \in Account /\ account.apis \in [ApiIDs -> Api] /\ run \in ImageRun
  BY AccountFields DEF ImageInv
<1>2. run.step \notin EarlySteps => run.api \in ApiIDs /\ a \in Api
  BY <1>1 DEF ImageInv, ApiKnown
<1>3. run.step \notin EarlySteps => (a.stage = "open" => NotPermitted(run.api))
  BY <1>2 DEF ImageInv, OpenNotPermitted
<1>4. CASE Image!OverwriteApi
  <2> DEFINE new == [a EXCEPT !.policy = TRUE, !.named = @ /\ ~OverwriteTakesTitle]
  <2>1. run.step = "overwrite api"  BY <1>4 DEF Image!OverwriteApi, Image!Call
  <2>2. a \in Api  BY <1>2, <2>1
  <2>3. new \in Api /\ new.policy /\ new.status = a.status /\ new.stage = a.stage
    BY <2>2 DEF Api
  <2>4. Image!Call("overwrite api", [account EXCEPT !.apis[run.api] = new], "name api")
    BY <1>4 DEF Image!OverwriteApi, Image!WithOverwritten, Image!GatewayRoleOnly
  <2> HIDE DEF new
  <2> QED  BY <1>3, <2>1, <2>3, <2>4, ApiCallInv
<1>5. CASE Image!ImportApi
  <2>1. PICK i \in Image!FreshApis :
          /\ account' = Image!WithImported(i, FALSE)
          /\ run' = [run EXCEPT !.api = i, !.step = "name api"] /\ file' = file
    BY <1>5 DEF Image!ImportApi
  <2>2. i \in ApiIDs /\ NotPermitted(i) /\ i \in Nat
    BY <2>1, AccountAssumption DEF Image!FreshApis, ImageInv, NeverPermittedBeforeUse
  <2> DEFINE new == [status |-> "live", named |-> FALSE, policy |-> FALSE, stage |-> "none"]
  <2>3. new \in Api /\ new.stage = "none" /\ new.status = "live"  BY DEF Api
  <2>4. account' = [account EXCEPT !.apis[i] = new]  BY <2>1 DEF Image!WithImported
  <2>5. run' \in ImageRun /\ run'.step = "name api" /\ run'.api = i
    BY <1>1, <2>1, <2>2 DEF ImageRun
  <2> HIDE DEF new
  <2> QED  BY <2>1, <2>2, <2>3, <2>4, <2>5, ApiChangeInv
<1>6. CASE Image!NameApi
  <2> DEFINE new == [a EXCEPT !.named = TRUE]
  <2>1. run.step = "name api"  BY <1>6 DEF Image!NameApi, Image!Call
  <2>2. a \in Api /\ (a.policy \/ NotPermitted(run.api))
    BY <1>2, <2>1 DEF ImageInv, ApiReady
  <2>3. new \in Api /\ new.policy = a.policy /\ new.status = a.status /\ new.stage = a.stage
    BY <2>2 DEF Api
  <2>4. Image!Call("name api", [account EXCEPT !.apis[run.api] = new], "deploy api")
    BY <1>6 DEF Image!NameApi, Image!WithNamed
  <2>5. new.policy \/ NotPermitted(run.api)  BY <2>2, <2>3
  <2>6. new.stage = "open" => NotPermitted(run.api)  BY <1>3, <2>1, <2>3
  <2>7. "name api" \in ImageSteps \ EarlySteps /\ "deploy api" \in ImageSteps \ EarlySteps
    OBVIOUS
  <2> HIDE DEF new, ImageSteps, EarlySteps, ApiSteps, LateSteps
  <2> QED  BY <2>3, <2>4, <2>5, <2>6, <2>7, ApiCallInv
<1>7. CASE Image!DeployApi
  <2> DEFINE new  == [a EXCEPT !.stage = IF a.policy THEN "restricted" ELSE "open"]
             next == IF <<"api", run.api>> \in account.roles["gateway"].policy
                     THEN "restrict api" ELSE "gateway role"
  <2>1. run.step = "deploy api"  BY <1>7 DEF Image!DeployApi, Image!Call
  <2>2. a \in Api /\ (a.policy \/ NotPermitted(run.api))
    BY <1>2, <2>1 DEF ImageInv, ApiReady
  <2>3. new \in Api /\ new.status = a.status /\ (new.stage = "open" => ~a.policy)
    BY <2>2 DEF Api
  <2>4. Image!Call("deploy api", [account EXCEPT !.apis[run.api] = new], next)
    BY <1>7 DEF Image!DeployApi, Image!WithStage
  <2>5. next \in {"restrict api", "gateway role"}  OBVIOUS
  <2> HIDE DEF new, next
  <2> QED  BY <1>3, <2>1, <2>2, <2>3, <2>4, <2>5, ApiCallInv
<1>8. CASE Image!RestrictApi
  <2> DEFINE new == [a EXCEPT !.policy = TRUE]
  <2>1. run.step = "restrict api"  BY <1>8 DEF Image!RestrictApi, Image!Call
  <2>2. a \in Api  BY <1>2, <2>1
  <2>3. new \in Api /\ new.policy /\ new.status = a.status /\ new.stage = a.stage
    BY <2>2 DEF Api
  <2>4. Image!Call("restrict api", [account EXCEPT !.apis[run.api] = new], "deploy restriction")
    BY <1>8 DEF Image!RestrictApi, Image!GatewayRoleOnly
  <2> HIDE DEF new
  <2> QED  BY <1>3, <2>1, <2>3, <2>4, ApiCallInv
<1>9. CASE Image!DeployRestriction
  <2> DEFINE new == [a EXCEPT !.stage = "restricted"]
  <2>1. run.step = "deploy restriction"  BY <1>9 DEF Image!DeployRestriction, Image!Call
  <2>2. a \in Api /\ a.policy  BY <1>2, <2>1 DEF ImageInv, ApiReady
  <2>3. new \in Api /\ new.status = a.status /\ new.stage = "restricted"
    BY <2>2 DEF Api
  <2>4. Image!Call("deploy restriction", [account EXCEPT !.apis[run.api] = new], "permit first")
    BY <1>9, <2>2 DEF Image!DeployRestriction, Image!WithStage
  <2> HIDE DEF new
  <2> QED  BY <1>3, <2>1, <2>3, <2>4, ApiCallInv
<1>10. CASE Image!RemoveApi
  <2>1. PICK i \in ApiIDs :
          /\ run = Image!Idle /\ UNCHANGED <<run, file>>
          /\ account' = [account EXCEPT !.apis[i] = [Image!NoApi EXCEPT !.status = "gone"]]
    BY <1>10 DEF Image!RemoveApi
  <2> DEFINE new == [Image!NoApi EXCEPT !.status = "gone"]
  <2>2. new \in Api /\ new.status = "gone" /\ new.stage = "none"  BY DEF Image!NoApi, Api
  <2>3. run.step = "idle"  BY <2>1 DEF Image!Idle
  <2> HIDE DEF new
  <2> QED  BY <1>1, <2>1, <2>2, <2>3, ApiChangeInv DEF new
<1> QED  BY <1>4, <1>5, <1>6, <1>7, <1>8, <1>9, <1>10

(* Permissions are given to an API whose restriction is deployed.          *)
LEMMA PermitInv == ASSUME ImageInv, Image!PermitRoutes PROVE ImageInv'
<1>1. Typed /\ account \in Account /\ run \in ImageRun
      /\ account.apis \in [ApiIDs -> Api] /\ account.grants \in [Routes -> Nat]
  BY AccountFields DEF ImageInv
<1>2. PICK t \in Routes, i \in {0, run.api} :
        /\ run.step \in {"permit first", "permit second"}
        /\ account' = [account EXCEPT !.grants[t] = i]
        /\ \E next \in {"permit first", "permit second", "gateway"} :
             run' = [run EXCEPT !.step = next]
        /\ file' = file
  BY DEF Image!PermitRoutes, Image!Permit, Image!Call, Routes
<1>3. /\ run.api \in ApiIDs /\ account.apis[run.api].stage = "restricted"
      /\ account.apis[run.api].status # "unused"
  BY <1>2 DEF ImageInv, ApiKnown, ApiReady, EarlySteps
<1>4. /\ run' \in ImageRun /\ run'.api = run.api
      /\ run'.step \in {"permit first", "permit second", "gateway"}
  BY <1>1, <1>2 DEF ImageRun, ImageSteps, ApiSteps, LateSteps
<1> DEFINE grants == [account.grants EXCEPT ![t] = i]
<1>5. /\ grants \in [Routes -> Nat]
      /\ \A u \in Routes : grants[u] \in {account.grants[u], 0, run.api}
  <2>1. i = 0 \/ i = run.api  OBVIOUS
  <2>2. run.api \in Nat  BY <1>3, AccountAssumption
  <2>3. i \in Nat  BY <2>1, <2>2
  <2>4. \A u \in Routes : grants[u] = IF u = t THEN i ELSE account.grants[u]  BY <1>1
  <2> QED  BY <1>1, <2>1, <2>3, <2>4
<1>6. account' = [account EXCEPT !.grants = grants]  BY <1>2
<1> HIDE DEF grants
<1>7. account' \in Account /\ account'.apis = account.apis /\ account'.grants = grants
  BY <1>1, <1>5, <1>6 DEF Account
<1>8. Typed' /\ ApiKnown'  BY <1>1, <1>2, <1>3, <1>4, <1>7 DEF Typed, ApiKnown
<1>9. ApiReady'  BY <1>3, <1>4, <1>7 DEF ApiReady
<1>10. NeverPermittedBeforeUse' /\ OpenNotPermitted'
  <2> SUFFICES ASSUME NEW j \in ApiIDs,
                      account.apis[j].status = "unused" \/ account.apis[j].stage = "open",
                      NEW u \in Routes
               PROVE  grants[u] # j
    BY <1>7 DEF NeverPermittedBeforeUse, OpenNotPermitted, NotPermitted
  <2>1. account.grants[u] # j
    BY DEF ImageInv, NeverPermittedBeforeUse, OpenNotPermitted, NotPermitted
  <2>2. j # 0  BY AccountAssumption
  <2>3. j # run.api  BY <1>3
  <2> QED  BY <1>5, <2>1, <2>2, <2>3
<1> QED  BY <1>8, <1>9, <1>10 DEF ImageInv

-----------------------------------------------------------------------------

LEMMA ImageNextInv == ASSUME ImageInv, Image!Next PROVE ImageInv'
<1>1. CASE Image!CreateBucket \/ Image!BlockPublicAccess  BY <1>1, BucketInv
<1>2. CASE Image!Roles \/ Image!GatewayRoleFirst \/ Image!GatewayRole  BY <1>2, RolesInv
<1>3. CASE Image!TargetFunction \/ Image!InterceptorFunction \/ Image!UpdateInterceptorAudience
  BY <1>3, FunctionsInv
<1>4. CASE \/ Image!EnsureGateway \/ Image!WaitGateways \/ Image!UpdateAuthorizer
           \/ Image!EnsureGatewayTarget \/ Image!WaitTarget
  BY <1>4, GatewayInv
<1>5. CASE \/ Image!StartDeploy \/ Image!SaveState \/ Image!Abort \/ Image!LoseState
           \/ Image!RemoveGateway
  BY <1>5, OutsideInv
<1>6. CASE \/ Image!OverwriteApi \/ Image!ImportApi \/ Image!NameApi \/ Image!DeployApi
           \/ Image!RestrictApi \/ Image!DeployRestriction \/ Image!RemoveApi
  BY <1>6, ApisInv
<1>7. CASE Image!FindApi  BY <1>7, FindApiInv
<1>8. CASE Image!PermitRoutes  BY <1>8, PermitInv
<1> QED
  BY <1>1, <1>2, <1>3, <1>4, <1>5, <1>6, <1>7, <1>8 DEF Image!Next, Image!Deploy

LEMMA NextInv == Inv /\ [Next]_<<deployVars, recipe>> => Inv'
<1> SUFFICES ASSUME Inv, [Next]_<<deployVars, recipe>>, recipe' = "07" PROVE ImageInv'
  BY DEF Inv
<1>1. recipe = "07" /\ ImageInv
  BY DEF Inv, Next
<1>2. CASE Image!Next  BY <1>1, <1>2, ImageNextInv
<1>3. CASE UNCHANGED <<deployVars, recipe>>
  BY <1>1, <1>3
  DEF deployVars, ImageInv, Typed, ApiKnown, NeverPermittedBeforeUse, OpenNotPermitted,
      NotPermitted, ApiReady
<1> QED  BY <1>1, <1>2, <1>3 DEF Next

LEMMA DeploymentsInvariant == Spec => []Inv
<1>1. Init => Inv  BY ImageInitInv DEF Init, Inv
<1> QED  BY <1>1, NextInv, PTL DEF Spec

(* Recipe 07: wherever runs of deploy_gateway_phase3.py are broken off, and *)
(* whatever the operator removes or loses in between, an API that is       *)
(* deployed without its restriction may not run the image function.        *)
THEOREM ImageNeverOpen == Spec => []NeverOpen
<1>1. Inv => NeverOpen
  BY DEF Inv, ImageInv, OpenNotPermitted, NotPermitted, NeverOpen, Image!NeverOpen,
         Image!Routes, Routes
<1> QED  BY <1>1, DeploymentsInvariant, PTL

-----------------------------------------------------------------------------
(* What a call changes, and that it changes nothing else. *)

LEMMA Fields ==
  ASSUME account \in Account
  PROVE  /\ account.roles \in [RoleNames -> Role]
         /\ account.functions \in [FunctionNames -> Function]
         /\ account.apis \in [ApiIDs -> Api] /\ account.grants \in [Routes -> Nat]
         /\ account.gateway \in Gateway /\ account.table \in BOOLEAN
         /\ account.gatewaysMade \in Nat
BY DEF Account

LEMMA RoleChange ==
  ASSUME account \in Account, NEW n \in RoleNames, NEW role \in Role,
         NEW new, new = [account EXCEPT !.roles[n] = role]
  PROVE  /\ new \in Account
         /\ new.roles = [account.roles EXCEPT ![n] = role]
         /\ new.functions = account.functions /\ new.apis = account.apis
         /\ new.grants = account.grants /\ new.gateway = account.gateway
         /\ new.table = account.table
         /\ new.gatewaysMade = account.gatewaysMade
<1> DEFINE roles == [account.roles EXCEPT ![n] = role]
<1>1. roles \in [RoleNames -> Role]
  BY Fields
<1>2. new = [account EXCEPT !.roles = roles]
  OBVIOUS
<1>3. QED
  BY <1>1, <1>2 DEF Account

LEMMA ApiChange ==
  ASSUME account \in Account, NEW i \in ApiIDs, NEW api \in Api,
         account' = [account EXCEPT !.apis[i] = api]
  PROVE  /\ account' \in Account /\ account'.apis[i] = api
         /\ \A j \in ApiIDs : j # i => account'.apis[j] = account.apis[j]
         /\ account'.roles = account.roles /\ account'.functions = account.functions
         /\ account'.grants = account.grants /\ account'.gateway = account.gateway
         /\ account'.table = account.table /\ account'.gatewaysMade = account.gatewaysMade
<1>1. PICK apis : apis = [account.apis EXCEPT ![i] = api]
  OBVIOUS
<1>2. /\ apis \in [ApiIDs -> Api] /\ apis[i] = api
      /\ \A j \in ApiIDs : j # i => apis[j] = account.apis[j]
  BY <1>1, Fields
<1>3. account' = [account EXCEPT !.apis = apis]
  BY <1>1
<1>4. QED
  BY <1>2, <1>3 DEF Account

PolicyValues == SUBSET ({"api", "function", "logs", "table"} \X Nat)

LEMMA WithRoleChange ==
  ASSUME account \in Account, NEW n \in RoleNames, account' = WithRole(n)
  PROVE  /\ account' \in Account
         /\ account'.roles[n].exists /\ account'.roles[n].policy = account.roles[n].policy
         /\ \A m \in RoleNames : m # n => account'.roles[m] = account.roles[m]
         /\ account'.functions = account.functions /\ account'.apis = account.apis
         /\ account'.grants = account.grants /\ account'.gateway = account.gateway
         /\ account'.table = account.table /\ account'.gatewaysMade = account.gatewaysMade
<1>1. PICK role : role = [account.roles[n] EXCEPT !.exists = TRUE]
  OBVIOUS
<1>2. role \in Role /\ role.exists /\ role.policy = account.roles[n].policy
  BY <1>1, Fields DEF Role
<1>3. account' = [account EXCEPT !.roles[n] = role]
  BY <1>1 DEF WithRole
<1>4. QED
  BY <1>2, <1>3, RoleChange, Fields

LEMMA WithPolicyChange ==
  ASSUME account \in Account, NEW n \in RoleNames, NEW policy \in PolicyValues,
         account' = WithPolicy(n, policy)
  PROVE  /\ account' \in Account
         /\ (account'.roles[n].exists <=> account.roles[n].exists) /\ account'.roles[n].policy = policy
         /\ \A m \in RoleNames : m # n => account'.roles[m] = account.roles[m]
         /\ account'.functions = account.functions /\ account'.apis = account.apis
         /\ account'.grants = account.grants /\ account'.gateway = account.gateway
         /\ account'.table = account.table /\ account'.gatewaysMade = account.gatewaysMade
<1>1. PICK role : role = [account.roles[n] EXCEPT !.policy = policy]
  OBVIOUS
<1>2. role \in Role /\ role.exists = account.roles[n].exists /\ role.policy = policy
  BY <1>1, Fields DEF Role, PolicyValues
<1>3. account' = [account EXCEPT !.roles[n] = role]
  BY <1>1 DEF WithPolicy
<1>4. QED
  BY <1>2, <1>3, RoleChange, Fields

LEMMA WithoutRoleChange ==
  ASSUME account \in Account, NEW n \in RoleNames,
         account' = [account EXCEPT !.roles[n] = NoRole]
  PROVE  /\ account' \in Account
         /\ ~account'.roles[n].exists
         /\ \A m \in RoleNames : m # n => account'.roles[m] = account.roles[m]
         /\ account'.functions = account.functions /\ account'.apis = account.apis
         /\ account'.grants = account.grants /\ account'.gateway = account.gateway
         /\ account'.table = account.table /\ account'.gatewaysMade = account.gatewaysMade
<1>1. NoRole \in Role /\ ~NoRole.exists
  BY DEF NoRole, Role
<1>2. QED
  BY <1>1, RoleChange, Fields

LEMMA WithFunctionChange ==
  ASSUME account \in Account, NEW f \in FunctionNames, NEW env \in Nat,
         account' = WithFunction(f, env)
  PROVE  /\ account' \in Account
         /\ account'.functions[f] = [exists |-> TRUE, env |-> env]
         /\ \A g \in FunctionNames : g # f => account'.functions[g] = account.functions[g]
         /\ account'.roles = account.roles /\ account'.apis = account.apis
         /\ account'.grants = account.grants /\ account'.gateway = account.gateway
         /\ account'.table = account.table /\ account'.gatewaysMade = account.gatewaysMade
<1>1. PICK functions :
        functions = [account.functions EXCEPT ![f] = [exists |-> TRUE, env |-> env]]
  OBVIOUS
<1>2. [exists |-> TRUE, env |-> env] \in Function
  BY DEF Function
<1>3. /\ functions \in [FunctionNames -> Function]
      /\ \A g \in FunctionNames :
           functions[g] = IF g = f THEN [exists |-> TRUE, env |-> env] ELSE account.functions[g]
  BY <1>1, <1>2, Fields
<1>4. account' = [account EXCEPT !.functions = functions]
  BY <1>1 DEF WithFunction
<1>5. /\ account' \in Account /\ account'.functions = functions
      /\ account'.roles = account.roles /\ account'.apis = account.apis
      /\ account'.grants = account.grants /\ account'.gateway = account.gateway
      /\ account'.table = account.table
         /\ account'.gatewaysMade = account.gatewaysMade
  BY <1>3, <1>4 DEF Account
<1>6. QED
  BY <1>3, <1>5

LEMMA WithoutFunctionChange ==
  ASSUME account \in Account, NEW f \in FunctionNames, account' = WithoutFunction(f)
  PROVE  /\ account' \in Account
         /\ ~account'.functions[f].exists
         /\ \A g \in FunctionNames : g # f => account'.functions[g] = account.functions[g]
         /\ account'.roles = account.roles /\ account'.apis = account.apis
         /\ account'.gateway = account.gateway /\ account'.table = account.table
         /\ account'.gatewaysMade = account.gatewaysMade
<1>1. PICK functions : functions = [account.functions EXCEPT ![f] = NoFunction]
  OBVIOUS
<1>2. PICK grants : grants = IF f = "target" THEN [t \in Routes |-> 0] ELSE account.grants
  OBVIOUS
<1>3. NoFunction \in Function /\ ~NoFunction.exists
  BY DEF NoFunction, Function
<1>4. functions \in [FunctionNames -> Function]
  BY <1>1, <1>3, Fields
<1>5. grants \in [Routes -> Nat]
  BY <1>2, Fields
<1>6. account' = [account EXCEPT !.functions = functions, !.grants = grants]
  BY <1>1, <1>2 DEF WithoutFunction
<1>7. account' \in Account /\ account'.functions = functions
  BY <1>4, <1>5, <1>6 DEF Account
<1>8. \A g \in FunctionNames : functions[g] = IF g = f THEN NoFunction ELSE account.functions[g]
  BY <1>1, Fields
<1>9. /\ account'.roles = account.roles /\ account'.apis = account.apis
      /\ account'.gateway = account.gateway /\ account'.table = account.table
         /\ account'.gatewaysMade = account.gatewaysMade
  BY <1>6 DEF Account
<1>10. QED
  BY <1>3, <1>7, <1>8, <1>9

LEMMA NewGatewayChange ==
  ASSUME account \in Account, NEW id \in Nat, NEW audience \in Nat, NEW claims \in BOOLEAN,
         NEW status \in {"READY", "FAILED"}, account' = WithCreatedGateway(id, audience, claims, status)
  PROVE  /\ account' \in Account
         /\ account'.gateway = [id |-> id, audience |-> audience, claims |-> claims,
                           status |-> status, target |-> 0]
         /\ account'.roles = account.roles /\ account'.functions = account.functions
         /\ account'.apis = account.apis /\ account'.grants = account.grants
         /\ account'.table = account.table
         /\ account'.gatewaysMade = id
<1>1. account.gateway \in Gateway /\ account.gatewaysMade \in Nat
  BY Fields
<1>2. account'.gateway = [id |-> id, audience |-> audience, claims |-> claims,
                           status |-> status, target |-> 0]
  BY <1>1 DEF WithCreatedGateway, Account, Gateway
<1>3. account' \in Account
  BY <1>1 DEF WithCreatedGateway, Account, Gateway
<1>4. /\ account'.roles = account.roles /\ account'.functions = account.functions
      /\ account'.apis = account.apis /\ account'.grants = account.grants
      /\ account'.table = account.table
         /\ account'.gatewaysMade = id
  BY <1>1 DEF WithCreatedGateway, Account
<1>5. QED
  BY <1>2, <1>3, <1>4

LEMMA AuthorizerChange ==
  ASSUME account \in Account, NEW audience \in Nat, NEW claims \in BOOLEAN,
         NEW status \in {"READY", "FAILED"}, account' = WithAuthorizer(audience, claims, status)
  PROVE  /\ account' \in Account
         /\ account'.gateway = [id |-> account.gateway.id, audience |-> audience, claims |-> claims,
                           status |-> status, target |-> account.gateway.target]
         /\ account'.roles = account.roles /\ account'.functions = account.functions
         /\ account'.apis = account.apis /\ account'.grants = account.grants
         /\ account'.table = account.table /\ account'.gatewaysMade = account.gatewaysMade
<1>1. account.gateway \in Gateway /\ account.gatewaysMade \in Nat
  BY Fields
<1>2. account'.gateway = [id |-> account.gateway.id, audience |-> audience, claims |-> claims,
                           status |-> status, target |-> account.gateway.target]
  BY <1>1 DEF WithAuthorizer, Account, Gateway
<1>3. account' \in Account
  BY <1>1 DEF WithAuthorizer, Account, Gateway
<1>4. /\ account'.roles = account.roles /\ account'.functions = account.functions
      /\ account'.apis = account.apis /\ account'.grants = account.grants
      /\ account'.table = account.table
         /\ account'.gatewaysMade = account.gatewaysMade
  BY <1>1 DEF WithAuthorizer, Account
<1>5. QED
  BY <1>2, <1>3, <1>4

LEMMA TargetChange ==
  ASSUME account \in Account, NEW target \in Nat, account' = WithTarget(target)
  PROVE  /\ account' \in Account
         /\ account'.gateway = [id |-> account.gateway.id, audience |-> account.gateway.audience,
                           claims |-> account.gateway.claims,
                           status |-> account.gateway.status, target |-> target]
         /\ account'.roles = account.roles /\ account'.functions = account.functions
         /\ account'.apis = account.apis /\ account'.grants = account.grants
         /\ account'.table = account.table /\ account'.gatewaysMade = account.gatewaysMade
<1>1. account.gateway \in Gateway /\ account.gatewaysMade \in Nat
  BY Fields
<1>2. account'.gateway = [id |-> account.gateway.id, audience |-> account.gateway.audience,
                           claims |-> account.gateway.claims,
                           status |-> account.gateway.status, target |-> target]
  BY <1>1 DEF WithTarget, Account, Gateway
<1>3. account' \in Account
  BY <1>1 DEF WithTarget, Account, Gateway
<1>4. /\ account'.roles = account.roles /\ account'.functions = account.functions
      /\ account'.apis = account.apis /\ account'.grants = account.grants
      /\ account'.table = account.table
         /\ account'.gatewaysMade = account.gatewaysMade
  BY <1>1 DEF WithTarget, Account
<1>5. QED
  BY <1>2, <1>3, <1>4

LEMMA NoGatewayChange ==
  ASSUME account \in Account, account' = [account EXCEPT !.gateway = NoGateway]
  PROVE  /\ account' \in Account
         /\ account'.gateway = NoGateway
         /\ account'.roles = account.roles /\ account'.functions = account.functions
         /\ account'.apis = account.apis /\ account'.grants = account.grants
         /\ account'.table = account.table /\ account'.gatewaysMade = account.gatewaysMade
<1>1. NoGateway \in Gateway
  BY DEF NoGateway, Gateway
<1>2. QED
  BY <1>1 DEF Account

LEMMA GrantChange ==
  ASSUME account \in Account, NEW t \in Routes, NEW i \in Nat,
         account' = [account EXCEPT !.grants[t] = i]
  PROVE  /\ account' \in Account /\ account'.grants[t] = i
         /\ \A u \in Routes : u # t => account'.grants[u] = account.grants[u]
         /\ account'.roles = account.roles /\ account'.functions = account.functions
         /\ account'.apis = account.apis /\ account'.gateway = account.gateway
         /\ account'.table = account.table /\ account'.gatewaysMade = account.gatewaysMade
<1>1. PICK grants : grants = [account.grants EXCEPT ![t] = i]
  OBVIOUS
<1>2. /\ grants \in [Routes -> Nat] /\ grants[t] = i
      /\ \A u \in Routes : u # t => grants[u] = account.grants[u]
      /\ account' = [account EXCEPT !.grants = grants]
  BY <1>1, Fields
<1>3. QED
  BY <1>2 DEF Account

LEMMA BucketChange ==
  ASSUME account \in Account, NEW bucket \in {"none", "open", "private"},
         account' = [account EXCEPT !.bucket = bucket]
  PROVE  /\ account' \in Account
         /\ account'.roles = account.roles /\ account'.functions = account.functions
         /\ account'.apis = account.apis /\ account'.grants = account.grants
         /\ account'.gateway = account.gateway /\ account'.table = account.table
         /\ account'.gatewaysMade = account.gatewaysMade
BY DEF Account

LEMMA TableChange ==
  ASSUME account \in Account, NEW table \in BOOLEAN,
         account' = [account EXCEPT !.table = table]
  PROVE  /\ account' \in Account /\ (account'.table <=> table)
         /\ account'.roles = account.roles /\ account'.functions = account.functions
         /\ account'.apis = account.apis /\ account'.grants = account.grants
         /\ account'.gateway = account.gateway
BY DEF Account

-----------------------------------------------------------------------------
(* Recipe 07b.  What a step may count on is named by the steps from which  *)
(* on it holds.  The interceptor is of another recipe, and a state file    *)
(* names the gateway it was written for.                                   *)

OidcTargetSet   == {"wait target", "save"}
OidcReady       == {"target"} \cup OidcTargetSet
OidcAudience    == {"wait authorizer"} \cup OidcReady
OidcGatewayMade == {"wait gateway", "authorizer"} \cup OidcAudience
OidcPermitted   == {"gateway"} \cup OidcGatewayMade
OidcGatewayRole == {"gateway policy"} \cup OidcPermitted
OidcFunction    == {"gateway role"} \cup OidcGatewayRole
OidcTargetRole  == {"target policy", "target function"} \cup OidcFunction

OidcDeploying ==
  /\ run.step \in OidcTargetRole => account.roles["target"].exists
  /\ run.step \in OidcFunction => account.functions["target"].exists
  /\ run.step \in OidcGatewayRole => account.roles["gateway"].exists
  /\ run.step \in OidcPermitted => account.roles["gateway"].policy = Oidc!GatewayPolicy
  /\ run.step \in OidcGatewayMade => account.gateway.id # 0
  /\ run.step \in OidcAudience => account.gateway.audience = account.gateway.id
  /\ run.step \in OidcReady => account.gateway.status = "READY"
  /\ run.step \in OidcTargetSet => account.gateway.target = Oidc!TheFunction

OidcNoGatewayRole == {"verify absent"}
OidcNoTargetRole  == {"remove gateway policy", "remove gateway role"} \cup OidcNoGatewayRole
OidcNoFunction    == {"remove target policy", "remove target role"} \cup OidcNoTargetRole
OidcNoGateway     == {"remove function"} \cup OidcNoFunction
OidcRemoval       == {"remove target", "remove gateway"} \cup OidcNoGateway

OidcRemoving ==
  /\ run.step \in OidcRemoval => file.gateway # 0
  /\ run.step \in OidcNoGateway => account.gateway.id # file.gateway
  /\ run.step \in OidcNoFunction => ~account.functions["target"].exists
  /\ run.step \in OidcNoTargetRole => ~account.roles["target"].exists
  /\ run.step \in OidcNoGatewayRole => ~account.roles["gateway"].exists

OidcRun == [script : {"none", "deploy", "remove"},
            step : {"idle", "target role"} \cup OidcTargetRole \cup OidcRemoval,
            api : Nat, claims : BOOLEAN, sentinel : Nat]

FileType == [api : Nat, gateway : Nat, audience : Nat, claims : BOOLEAN]

OidcInv ==
  /\ account \in Account /\ run \in OidcRun /\ file \in FileType
  /\ ~account.functions["interceptor"].exists /\ ~account.roles["interceptor"].exists
  /\ file # NoFile => file.gateway # 0
  /\ OidcDeploying
  /\ OidcRemoving

LEMMA EmptyAccountType == EmptyAccount \in Account
BY DEF EmptyAccount, Account, NoRole, NoFunction, NoApi, NoGateway, Role, Function, Api, Gateway

LEMMA OidcInitInv == AccountInit => OidcInv
<1> SUFFICES ASSUME AccountInit PROVE OidcInv
  OBVIOUS
<1> USE DEF OidcTargetRole, OidcFunction, OidcGatewayRole, OidcPermitted, OidcGatewayMade,
            OidcAudience, OidcReady, OidcTargetSet, OidcRemoval, OidcNoGateway, OidcNoFunction,
            OidcNoTargetRole, OidcNoGatewayRole
<1>1. account \in Account
  BY EmptyAccountType DEF AccountInit
<1>2. run \in OidcRun /\ run.step = "idle"
  BY DEF AccountInit, Idle, OidcRun
<1>3. file \in FileType /\ file = NoFile
  BY DEF AccountInit, NoFile, FileType
<1>4. ~account.functions["interceptor"].exists /\ ~account.roles["interceptor"].exists
  BY DEF AccountInit, EmptyAccount, NoRole, NoFunction, FunctionNames, RoleNames
<1>5. QED
  BY <1>1, <1>2, <1>3, <1>4 DEF OidcInv, OidcDeploying, OidcRemoving

(* A run that goes on. *)
LEMMA OidcGoesOn ==
  ASSUME OidcInv, NEW next \in {"idle", "target role"} \cup OidcTargetRole \cup OidcRemoval,
         run' = [run EXCEPT !.step = next]
  PROVE  run'.step = next /\ run' \in OidcRun
BY DEF OidcInv, OidcRun

LEMMA OidcCreateRolesInv == ASSUME OidcInv, Oidc!CreateRoles PROVE OidcInv'
<1> USE DEF OidcTargetRole, OidcFunction, OidcGatewayRole, OidcPermitted, OidcGatewayMade,
            OidcAudience, OidcReady, OidcTargetSet, OidcRemoval, OidcNoGateway, OidcNoFunction,
            OidcNoTargetRole, OidcNoGatewayRole
<1>1. /\ account \in Account
      /\ "target" \in RoleNames /\ "interceptor" \in RoleNames /\ "gateway" \in RoleNames
      /\ Oidc!TargetPolicy \in PolicyValues /\ Oidc!GatewayPolicy \in PolicyValues
  BY DEF OidcInv, RoleNames, PolicyValues, Oidc!TargetPolicy, Oidc!GatewayPolicy
<1>2. CASE /\ run.step = "target role" /\ account' = WithRole("target")
            /\ run' = [run EXCEPT !.step = "target policy"] /\ file' = file
  <2>1. run'.step = "target policy" /\ run' \in OidcRun
    BY <1>2, OidcGoesOn
  <2>2. /\ account' \in Account
        /\ account'.roles["target"].exists
        /\ account'.roles["target"].policy = account.roles["target"].policy
        /\ \A m \in RoleNames : m # "target" => account'.roles[m] = account.roles[m]
        /\ account'.functions = account.functions /\ account'.gateway = account.gateway
    BY <1>1, <1>2, WithRoleChange
  <2>3. OidcDeploying'
    BY <1>1, <1>2, <2>1, <2>2 DEF OidcInv, OidcDeploying
  <2>4. OidcRemoving'
    BY <1>1, <1>2, <2>1, <2>2 DEF OidcInv, OidcRemoving
  <2>5. QED
    BY <1>1, <1>2, <2>1, <2>2, <2>3, <2>4 DEF OidcInv
<1>3. CASE /\ run.step = "gateway role" /\ account' = WithRole("gateway")
            /\ run' = [run EXCEPT !.step = "gateway policy"] /\ file' = file
  <2>1. run'.step = "gateway policy" /\ run' \in OidcRun
    BY <1>3, OidcGoesOn
  <2>2. /\ account' \in Account
        /\ account'.roles["gateway"].exists
        /\ account'.roles["gateway"].policy = account.roles["gateway"].policy
        /\ \A m \in RoleNames : m # "gateway" => account'.roles[m] = account.roles[m]
        /\ account'.functions = account.functions /\ account'.gateway = account.gateway
    BY <1>1, <1>3, WithRoleChange
  <2>3. OidcDeploying'
    BY <1>1, <1>3, <2>1, <2>2 DEF OidcInv, OidcDeploying
  <2>4. OidcRemoving'
    BY <1>1, <1>3, <2>1, <2>2 DEF OidcInv, OidcRemoving
  <2>5. QED
    BY <1>1, <1>3, <2>1, <2>2, <2>3, <2>4 DEF OidcInv
<1>4. CASE /\ run.step = "target policy"
            /\ account' = WithPolicy("target", Oidc!TargetPolicy)
            /\ run' = [run EXCEPT !.step = "target function"] /\ file' = file
  <2>1. run'.step = "target function" /\ run' \in OidcRun
    BY <1>4, OidcGoesOn
  <2>2. /\ account' \in Account
        /\ (account'.roles["target"].exists <=> account.roles["target"].exists)
        /\ account'.roles["target"].policy = Oidc!TargetPolicy
        /\ \A m \in RoleNames : m # "target" => account'.roles[m] = account.roles[m]
        /\ account'.functions = account.functions /\ account'.gateway = account.gateway
    BY <1>1, <1>4, WithPolicyChange
  <2>3. OidcDeploying'
    BY <1>1, <1>4, <2>1, <2>2 DEF OidcInv, OidcDeploying
  <2>4. OidcRemoving'
    BY <1>1, <1>4, <2>1, <2>2 DEF OidcInv, OidcRemoving
  <2>5. QED
    BY <1>1, <1>4, <2>1, <2>2, <2>3, <2>4 DEF OidcInv
<1>5. CASE /\ run.step = "gateway policy"
            /\ account' = WithPolicy("gateway", Oidc!GatewayPolicy)
            /\ run' = [run EXCEPT !.step = "gateway"] /\ file' = file
  <2>1. run'.step = "gateway" /\ run' \in OidcRun
    BY <1>5, OidcGoesOn
  <2>2. /\ account' \in Account
        /\ (account'.roles["gateway"].exists <=> account.roles["gateway"].exists)
        /\ account'.roles["gateway"].policy = Oidc!GatewayPolicy
        /\ \A m \in RoleNames : m # "gateway" => account'.roles[m] = account.roles[m]
        /\ account'.functions = account.functions /\ account'.gateway = account.gateway
    BY <1>1, <1>5, WithPolicyChange
  <2>3. OidcDeploying'
    BY <1>1, <1>5, <2>1, <2>2 DEF OidcInv, OidcDeploying
  <2>4. OidcRemoving'
    BY <1>1, <1>5, <2>1, <2>2 DEF OidcInv, OidcRemoving
  <2>5. QED
    BY <1>1, <1>5, <2>1, <2>2, <2>3, <2>4 DEF OidcInv
<1>6. QED
  BY <1>2, <1>3, <1>4, <1>5
  DEF Oidc!CreateRoles, Oidc!Call, Oidc!WithRole, Oidc!WithPolicy, WithRole, WithPolicy

LEMMA OidcTargetFunctionInv == ASSUME OidcInv, Oidc!TargetFunction PROVE OidcInv'
<1> USE DEF OidcTargetRole, OidcFunction, OidcGatewayRole, OidcPermitted, OidcGatewayMade,
            OidcAudience, OidcReady, OidcTargetSet, OidcRemoval, OidcNoGateway, OidcNoFunction,
            OidcNoTargetRole, OidcNoGatewayRole
<1>1. /\ account \in Account
      /\ "target" \in RoleNames /\ "interceptor" \in RoleNames /\ "gateway" \in RoleNames
      /\ "target" \in FunctionNames /\ "interceptor" \in FunctionNames
      /\ {} \in PolicyValues /\ 0 \in Nat /\ 1 \in Nat
      /\ account.gateway \in Gateway /\ account.gateway.id \in Nat
  BY Fields DEF OidcInv, RoleNames, FunctionNames, PolicyValues, Gateway
<1>2. CASE /\ run.step = "target function" /\ account' = WithFunction("target", 0)
            /\ run' = [run EXCEPT !.step = "gateway role"] /\ file' = file
  <2>0. /\ account' \in Account
        /\ account'.functions["target"] = [exists |-> TRUE, env |-> 0]
        /\ \A g \in FunctionNames : g # "target" =>
             account'.functions[g] = account.functions[g]
        /\ account'.roles = account.roles /\ account'.gateway = account.gateway
    BY <1>1, <1>2, WithFunctionChange
  <2>1. run'.step = "gateway role" /\ run' \in OidcRun
    BY <1>2, OidcGoesOn
  <2>2. /\ account' \in Account
        /\ account'.functions["target"].exists
        /\ account'.functions["interceptor"] = account.functions["interceptor"]
        /\ account'.roles = account.roles /\ account'.gateway = account.gateway
    BY <2>0, <1>1
  <2>3. OidcDeploying'
    BY <1>1, <1>2, <2>1, <2>2 DEF OidcInv, OidcDeploying
  <2>4. OidcRemoving'
    BY <1>1, <1>2, <2>1, <2>2 DEF OidcInv, OidcRemoving
  <2>5. QED
    BY <1>1, <1>2, <2>1, <2>2, <2>3, <2>4 DEF OidcInv
<1>3. QED
  BY <1>2 DEF Oidc!TargetFunction, Oidc!Call, Oidc!WithFunction, WithFunction


LEMMA OidcWaitInv == ASSUME OidcInv, Oidc!WaitGateways \/ Oidc!WaitTarget PROVE OidcInv'
<1> USE DEF OidcTargetRole, OidcFunction, OidcGatewayRole, OidcPermitted, OidcGatewayMade,
            OidcAudience, OidcReady, OidcTargetSet, OidcRemoval, OidcNoGateway, OidcNoFunction,
            OidcNoTargetRole, OidcNoGatewayRole
<1>1. /\ account \in Account
      /\ "target" \in RoleNames /\ "interceptor" \in RoleNames /\ "gateway" \in RoleNames
      /\ "target" \in FunctionNames /\ "interceptor" \in FunctionNames
      /\ {} \in PolicyValues /\ 0 \in Nat /\ 1 \in Nat
      /\ account.gateway \in Gateway /\ account.gateway.id \in Nat
  BY Fields DEF OidcInv, RoleNames, FunctionNames, PolicyValues, Gateway
<1>2. CASE /\ run.step = "wait gateway" /\ account' = account
            /\ run' = [run EXCEPT !.step = "authorizer"] /\ file' = file
  <2>1. run'.step = "authorizer" /\ run' \in OidcRun
    BY <1>2, OidcGoesOn
  <2>2. /\ account' \in Account
        /\ account'.roles = account.roles /\ account'.functions = account.functions
        /\ account'.gateway = account.gateway
    BY <1>1, <1>2
  <2>3. OidcDeploying'
    BY <1>1, <1>2, <2>1, <2>2 DEF OidcInv, OidcDeploying
  <2>4. OidcRemoving'
    BY <1>1, <1>2, <2>1, <2>2 DEF OidcInv, OidcRemoving
  <2>5. QED
    BY <1>1, <1>2, <2>1, <2>2, <2>3, <2>4 DEF OidcInv
<1>3. CASE /\ run.step = "wait authorizer" /\ account' = account
            /\ run' = [run EXCEPT !.step = "target"] /\ file' = file
            /\ account.gateway.status = "READY"
  <2>1. run'.step = "target" /\ run' \in OidcRun
    BY <1>3, OidcGoesOn
  <2>2. /\ account' \in Account
        /\ account'.roles = account.roles /\ account'.functions = account.functions
        /\ account'.gateway = account.gateway
    BY <1>1, <1>3
  <2>3. OidcDeploying'
    BY <1>1, <1>3, <2>1, <2>2 DEF OidcInv, OidcDeploying
  <2>4. OidcRemoving'
    BY <1>1, <1>3, <2>1, <2>2 DEF OidcInv, OidcRemoving
  <2>5. QED
    BY <1>1, <1>3, <2>1, <2>2, <2>3, <2>4 DEF OidcInv
<1>4. CASE /\ run.step = "wait target" /\ account' = account
            /\ run' = [run EXCEPT !.step = "save"] /\ file' = file
  <2>1. run'.step = "save" /\ run' \in OidcRun
    BY <1>4, OidcGoesOn
  <2>2. /\ account' \in Account
        /\ account'.roles = account.roles /\ account'.functions = account.functions
        /\ account'.gateway = account.gateway
    BY <1>1, <1>4
  <2>3. OidcDeploying'
    BY <1>1, <1>4, <2>1, <2>2 DEF OidcInv, OidcDeploying
  <2>4. OidcRemoving'
    BY <1>1, <1>4, <2>1, <2>2 DEF OidcInv, OidcRemoving
  <2>5. QED
    BY <1>1, <1>4, <2>1, <2>2, <2>3, <2>4 DEF OidcInv
<1>5. QED
  BY <1>2, <1>3, <1>4 DEF Oidc!WaitGateways, Oidc!WaitGateway, Oidc!WaitTarget, Oidc!Call


LEMMA OidcTargetInv == ASSUME OidcInv, Oidc!EnsureGatewayTarget PROVE OidcInv'
<1> USE DEF OidcTargetRole, OidcFunction, OidcGatewayRole, OidcPermitted, OidcGatewayMade,
            OidcAudience, OidcReady, OidcTargetSet, OidcRemoval, OidcNoGateway, OidcNoFunction,
            OidcNoTargetRole, OidcNoGatewayRole
<1>1. /\ account \in Account
      /\ "target" \in RoleNames /\ "interceptor" \in RoleNames /\ "gateway" \in RoleNames
      /\ "target" \in FunctionNames /\ "interceptor" \in FunctionNames
      /\ {} \in PolicyValues /\ 0 \in Nat /\ 1 \in Nat
      /\ account.gateway \in Gateway /\ account.gateway.id \in Nat
  BY Fields DEF OidcInv, RoleNames, FunctionNames, PolicyValues, Gateway
<1>2. CASE /\ run.step = "target" /\ account' = WithTarget(1)
            /\ run' = [run EXCEPT !.step = "wait target"] /\ file' = file
  <2>0. /\ account' \in Account
        /\ account'.gateway = [id |-> account.gateway.id, audience |-> account.gateway.audience,
                               claims |-> account.gateway.claims,
                               status |-> account.gateway.status, target |-> 1]
        /\ account'.roles = account.roles /\ account'.functions = account.functions
    BY <1>1, <1>2, TargetChange
  <2>1. run'.step = "wait target" /\ run' \in OidcRun
    BY <1>2, OidcGoesOn
  <2>2. /\ account' \in Account
        /\ account'.gateway.target = 1
        /\ account'.gateway.id = account.gateway.id
        /\ account'.gateway.audience = account.gateway.audience
        /\ account'.gateway.status = account.gateway.status
        /\ account'.roles = account.roles /\ account'.functions = account.functions
    BY <2>0, <1>1
  <2>3. OidcDeploying'
    BY <1>1, <1>2, <2>1, <2>2 DEF OidcInv, OidcDeploying, Oidc!TheFunction
  <2>4. OidcRemoving'
    BY <1>1, <1>2, <2>1, <2>2 DEF OidcInv, OidcRemoving
  <2>5. QED
    BY <1>1, <1>2, <2>1, <2>2, <2>3, <2>4 DEF OidcInv
<1>3. QED
  BY <1>2
  DEF Oidc!EnsureGatewayTarget, Oidc!TheFunction, Oidc!Call, Oidc!WithTarget, WithTarget


LEMMA OidcRemoveGatewayInv == ASSUME OidcInv, Oidc!RemoveGateway PROVE OidcInv'
<1> USE DEF OidcTargetRole, OidcFunction, OidcGatewayRole, OidcPermitted, OidcGatewayMade,
            OidcAudience, OidcReady, OidcTargetSet, OidcRemoval, OidcNoGateway, OidcNoFunction,
            OidcNoTargetRole, OidcNoGatewayRole
<1>1. /\ account \in Account
      /\ "target" \in RoleNames /\ "interceptor" \in RoleNames /\ "gateway" \in RoleNames
      /\ "target" \in FunctionNames /\ "interceptor" \in FunctionNames
      /\ {} \in PolicyValues /\ 0 \in Nat /\ 1 \in Nat
      /\ account.gateway \in Gateway /\ account.gateway.id \in Nat
  BY Fields DEF OidcInv, RoleNames, FunctionNames, PolicyValues, Gateway
<1>2. CASE /\ run.step = "remove target" /\ account' = WithTarget(0)
            /\ run' = [run EXCEPT !.step = "remove gateway"] /\ file' = file
  <2>1. run'.step = "remove gateway" /\ run' \in OidcRun
    BY <1>2, OidcGoesOn
  <2>2. /\ account' \in Account
        /\ account'.roles = account.roles /\ account'.functions = account.functions
    BY <1>1, <1>2, TargetChange
  <2>3. OidcDeploying'
    BY <1>1, <1>2, <2>1, <2>2 DEF OidcInv, OidcDeploying
  <2>4. OidcRemoving'
    BY <1>1, <1>2, <2>1, <2>2 DEF OidcInv, OidcRemoving
  <2>5. QED
    BY <1>1, <1>2, <2>1, <2>2, <2>3, <2>4 DEF OidcInv
<1>3. CASE /\ run.step = "remove target" /\ account' = account
            /\ run' = [run EXCEPT !.step = "remove gateway"] /\ file' = file
  <2>1. run'.step = "remove gateway" /\ run' \in OidcRun
    BY <1>3, OidcGoesOn
  <2>2. /\ account' \in Account
        /\ account'.roles = account.roles /\ account'.functions = account.functions
    BY <1>1, <1>3
  <2>3. OidcDeploying'
    BY <1>1, <1>3, <2>1, <2>2 DEF OidcInv, OidcDeploying
  <2>4. OidcRemoving'
    BY <1>1, <1>3, <2>1, <2>2 DEF OidcInv, OidcRemoving
  <2>5. QED
    BY <1>1, <1>3, <2>1, <2>2, <2>3, <2>4 DEF OidcInv
<1>4. CASE /\ run.step = "remove gateway"
            /\ account' = [account EXCEPT !.gateway = NoGateway]
            /\ run' = [run EXCEPT !.step = "remove function"] /\ file' = file
  <2>0. /\ account' \in Account
        /\ account'.roles = account.roles /\ account'.functions = account.functions
        /\ account'.gateway = NoGateway
    BY <1>1, <1>4, NoGatewayChange
  <2>1. run'.step = "remove function" /\ run' \in OidcRun
    BY <1>4, OidcGoesOn
  <2>2. /\ account' \in Account
        /\ account'.roles = account.roles /\ account'.functions = account.functions
        /\ account'.gateway.id = 0
    BY <2>0, <1>1 DEF NoGateway
  <2>3. OidcDeploying'
    BY <1>1, <1>4, <2>1, <2>2 DEF OidcInv, OidcDeploying
  <2>4. OidcRemoving'
    BY <1>1, <1>4, <2>1, <2>2 DEF OidcInv, OidcRemoving
  <2>5. QED
    BY <1>1, <1>4, <2>1, <2>2, <2>3, <2>4 DEF OidcInv
<1>5. CASE /\ run.step = "remove gateway" /\ account' = account
            /\ run' = [run EXCEPT !.step = "remove function"] /\ file' = file
            /\ account.gateway.id # file.gateway
  <2>1. run'.step = "remove function" /\ run' \in OidcRun
    BY <1>5, OidcGoesOn
  <2>2. /\ account' \in Account
        /\ account'.roles = account.roles /\ account'.functions = account.functions
        /\ account'.gateway = account.gateway
    BY <1>1, <1>5
  <2>3. OidcDeploying'
    BY <1>1, <1>5, <2>1, <2>2 DEF OidcInv, OidcDeploying
  <2>4. OidcRemoving'
    BY <1>1, <1>5, <2>1, <2>2 DEF OidcInv, OidcRemoving
  <2>5. QED
    BY <1>1, <1>5, <2>1, <2>2, <2>3, <2>4 DEF OidcInv
<1>6. QED
  BY <1>2, <1>3, <1>4, <1>5
  DEF Oidc!RemoveGateway, Oidc!Named, Oidc!Call, Oidc!WithTarget, WithTarget,
      Oidc!NoGateway, NoGateway


LEMMA OidcRemoveRestInv ==
  ASSUME OidcInv, Oidc!RemoveFunction \/ Oidc!RemoveRoles
  PROVE  OidcInv'
<1> USE DEF OidcTargetRole, OidcFunction, OidcGatewayRole, OidcPermitted, OidcGatewayMade,
            OidcAudience, OidcReady, OidcTargetSet, OidcRemoval, OidcNoGateway, OidcNoFunction,
            OidcNoTargetRole, OidcNoGatewayRole
<1>1. /\ account \in Account
      /\ "target" \in RoleNames /\ "interceptor" \in RoleNames /\ "gateway" \in RoleNames
      /\ "target" \in FunctionNames /\ "interceptor" \in FunctionNames
      /\ {} \in PolicyValues /\ 0 \in Nat /\ 1 \in Nat
      /\ account.gateway \in Gateway /\ account.gateway.id \in Nat
  BY Fields DEF OidcInv, RoleNames, FunctionNames, PolicyValues, Gateway
<1>2. CASE /\ run.step = "remove function" /\ account' = WithoutFunction("target")
            /\ run' = [run EXCEPT !.step = "remove target policy"] /\ file' = file
  <2>1. run'.step = "remove target policy" /\ run' \in OidcRun
    BY <1>2, OidcGoesOn
  <2>2. /\ account' \in Account
        /\ ~account'.functions["target"].exists
        /\ account'.functions["interceptor"] = account.functions["interceptor"]
        /\ account'.roles = account.roles /\ account'.gateway = account.gateway
    BY <1>1, <1>2, WithoutFunctionChange
  <2>3. OidcDeploying'
    BY <1>1, <1>2, <2>1, <2>2 DEF OidcInv, OidcDeploying
  <2>4. OidcRemoving'
    BY <1>1, <1>2, <2>1, <2>2 DEF OidcInv, OidcRemoving
  <2>5. QED
    BY <1>1, <1>2, <2>1, <2>2, <2>3, <2>4 DEF OidcInv
<1>3. CASE /\ run.step = "remove target policy" /\ account' = WithPolicy("target", {})
            /\ run' = [run EXCEPT !.step = "remove target role"] /\ file' = file
  <2>1. run'.step = "remove target role" /\ run' \in OidcRun
    BY <1>3, OidcGoesOn
  <2>2. /\ account' \in Account
        /\ \A m \in RoleNames : m # "target" => account'.roles[m] = account.roles[m]
        /\ account'.functions = account.functions /\ account'.gateway = account.gateway
    BY <1>1, <1>3, WithPolicyChange
  <2>3. OidcDeploying'
    BY <1>1, <1>3, <2>1, <2>2 DEF OidcInv, OidcDeploying
  <2>4. OidcRemoving'
    BY <1>1, <1>3, <2>1, <2>2 DEF OidcInv, OidcRemoving
  <2>5. QED
    BY <1>1, <1>3, <2>1, <2>2, <2>3, <2>4 DEF OidcInv
<1>4. CASE /\ run.step = "remove target role"
            /\ account' = [account EXCEPT !.roles["target"] = NoRole]
            /\ run' = [run EXCEPT !.step = "remove gateway policy"] /\ file' = file
  <2>1. run'.step = "remove gateway policy" /\ run' \in OidcRun
    BY <1>4, OidcGoesOn
  <2>2. /\ account' \in Account
        /\ ~account'.roles["target"].exists
        /\ \A m \in RoleNames : m # "target" => account'.roles[m] = account.roles[m]
        /\ account'.functions = account.functions /\ account'.gateway = account.gateway
    BY <1>1, <1>4, WithoutRoleChange
  <2>3. OidcDeploying'
    BY <1>1, <1>4, <2>1, <2>2 DEF OidcInv, OidcDeploying
  <2>4. OidcRemoving'
    BY <1>1, <1>4, <2>1, <2>2 DEF OidcInv, OidcRemoving
  <2>5. QED
    BY <1>1, <1>4, <2>1, <2>2, <2>3, <2>4 DEF OidcInv
<1>5. CASE /\ run.step = "remove gateway policy" /\ account' = WithPolicy("gateway", {})
            /\ run' = [run EXCEPT !.step = "remove gateway role"] /\ file' = file
  <2>1. run'.step = "remove gateway role" /\ run' \in OidcRun
    BY <1>5, OidcGoesOn
  <2>2. /\ account' \in Account
        /\ \A m \in RoleNames : m # "gateway" => account'.roles[m] = account.roles[m]
        /\ account'.functions = account.functions /\ account'.gateway = account.gateway
    BY <1>1, <1>5, WithPolicyChange
  <2>3. OidcDeploying'
    BY <1>1, <1>5, <2>1, <2>2 DEF OidcInv, OidcDeploying
  <2>4. OidcRemoving'
    BY <1>1, <1>5, <2>1, <2>2 DEF OidcInv, OidcRemoving
  <2>5. QED
    BY <1>1, <1>5, <2>1, <2>2, <2>3, <2>4 DEF OidcInv
<1>6. CASE /\ run.step = "remove gateway role"
            /\ account' = [account EXCEPT !.roles["gateway"] = NoRole]
            /\ run' = [run EXCEPT !.step = "verify absent"] /\ file' = file
  <2>1. run'.step = "verify absent" /\ run' \in OidcRun
    BY <1>6, OidcGoesOn
  <2>2. /\ account' \in Account
        /\ ~account'.roles["gateway"].exists
        /\ \A m \in RoleNames : m # "gateway" => account'.roles[m] = account.roles[m]
        /\ account'.functions = account.functions /\ account'.gateway = account.gateway
    BY <1>1, <1>6, WithoutRoleChange
  <2>3. OidcDeploying'
    BY <1>1, <1>6, <2>1, <2>2 DEF OidcInv, OidcDeploying
  <2>4. OidcRemoving'
    BY <1>1, <1>6, <2>1, <2>2 DEF OidcInv, OidcRemoving
  <2>5. QED
    BY <1>1, <1>6, <2>1, <2>2, <2>3, <2>4 DEF OidcInv
<1>7. QED
  BY <1>2, <1>3, <1>4, <1>5, <1>6
  DEF Oidc!RemoveFunction, Oidc!RemoveRoles, Oidc!Call, Oidc!WithoutFunction, WithoutFunction,
      Oidc!WithPolicy, WithPolicy, Oidc!NoRole, NoRole, Oidc!NoFunction, NoFunction,
      Oidc!Routes, Routes


(* An existing gateway gets the audience; without one a gateway is made that  *)
(* has it.                                                                    *)
LEMMA OidcUpsertChange ==
  ASSUME account \in Account, NEW audience \in Nat, NEW step, NEW next,
         Oidc!UpsertGateway(audience, step, next)
  PROVE  /\ account' \in Account /\ account'.gateway.id # 0
         /\ account'.gateway.audience = audience
         /\ account.gateway.id # 0 => account'.gateway.id = account.gateway.id
         /\ account'.roles = account.roles /\ account'.functions = account.functions
<1>1. PICK status \in {"READY", "FAILED"} :
        \/ account.gateway.id # 0 /\ account' = WithAuthorizer(audience, TRUE, status)
        \/ \E g \in FreshGateways :
             account.gateway.id = 0 /\ account' = WithCreatedGateway(g, audience, TRUE, status)
  BY DEF Oidc!UpsertGateway, Oidc!Call, Oidc!HasGateway, Oidc!FreshGateways, FreshGateways,
         Oidc!WithAuthorizer, WithAuthorizer, Oidc!WithCreatedGateway, WithCreatedGateway
<1>2. CASE account.gateway.id # 0 /\ account' = WithAuthorizer(audience, TRUE, status)
  <2>1. /\ account' \in Account
        /\ account'.gateway = [id |-> account.gateway.id, audience |-> audience,
                               claims |-> TRUE, status |-> status,
                               target |-> account.gateway.target]
        /\ account'.roles = account.roles /\ account'.functions = account.functions
    BY <1>2, AuthorizerChange
  <2>2. account'.gateway.id = account.gateway.id /\ account'.gateway.audience = audience
    BY <2>1
  <2>3. QED
    BY <1>2, <2>1, <2>2
<1>3. CASE \E g \in FreshGateways :
             account.gateway.id = 0 /\ account' = WithCreatedGateway(g, audience, TRUE, status)
  <2>1. PICK g \in FreshGateways : account' = WithCreatedGateway(g, audience, TRUE, status)
    BY <1>3
  <2>2. g \in Nat /\ g # 0
    BY AccountAssumption DEF FreshGateways
  <2>3. /\ account' \in Account
        /\ account'.gateway = [id |-> g, audience |-> audience, claims |-> TRUE,
                               status |-> status, target |-> 0]
        /\ account'.roles = account.roles /\ account'.functions = account.functions
    BY <2>1, <2>2, NewGatewayChange
  <2>4. account'.gateway.id = g /\ account'.gateway.audience = audience
    BY <2>3
  <2>5. QED
    BY <1>3, <2>2, <2>3, <2>4
<1>4. QED
  BY <1>1, <1>2, <1>3

LEMMA OidcGatewaysInv == ASSUME OidcInv, Oidc!Gateways PROVE OidcInv'
<1> USE DEF OidcTargetRole, OidcFunction, OidcGatewayRole, OidcPermitted, OidcGatewayMade,
            OidcAudience, OidcReady, OidcTargetSet, OidcRemoval, OidcNoGateway, OidcNoFunction,
            OidcNoTargetRole, OidcNoGatewayRole
<1>1. /\ account \in Account
      /\ "target" \in RoleNames /\ "interceptor" \in RoleNames /\ "gateway" \in RoleNames
      /\ "target" \in FunctionNames /\ "interceptor" \in FunctionNames
      /\ {} \in PolicyValues /\ 0 \in Nat /\ 1 \in Nat
      /\ account.gateway \in Gateway /\ account.gateway.id \in Nat
  BY Fields DEF OidcInv, RoleNames, FunctionNames, PolicyValues, Gateway
<1>2. CASE Oidc!UpsertGateway(0, "gateway", "wait gateway")
  <2>1. run.step = "gateway" /\ run' = [run EXCEPT !.step = "wait gateway"] /\ file' = file
    BY <1>2 DEF Oidc!UpsertGateway, Oidc!Call
  <2>2. run'.step = "wait gateway" /\ run' \in OidcRun
    BY <2>1, OidcGoesOn
  <2>3. /\ account' \in Account /\ account'.gateway.id # 0
        /\ account'.roles = account.roles /\ account'.functions = account.functions
    BY <1>1, <1>2, OidcUpsertChange
  <2>4. OidcDeploying'
    BY <1>1, <2>1, <2>2, <2>3 DEF OidcInv, OidcDeploying
  <2>5. OidcRemoving'
    BY <1>1, <2>1, <2>2, <2>3 DEF OidcInv, OidcRemoving
  <2>6. QED
    BY <1>1, <2>1, <2>2, <2>3, <2>4, <2>5 DEF OidcInv
<1>3. CASE Oidc!UpsertGateway(Oidc!VerifiedAudience, "authorizer", "wait authorizer")
  <2>1. /\ run.step = "authorizer" /\ run' = [run EXCEPT !.step = "wait authorizer"]
        /\ file' = file
    BY <1>3 DEF Oidc!UpsertGateway, Oidc!Call
  <2>2. run'.step = "wait authorizer" /\ run' \in OidcRun
    BY <2>1, OidcGoesOn
  <2>3. account.gateway.id # 0
    BY <2>1 DEF OidcInv, OidcDeploying
  <2>4. /\ account' \in Account /\ account'.gateway.id # 0
        /\ account'.gateway.audience = account.gateway.id
        /\ account'.gateway.id = account.gateway.id
        /\ account'.roles = account.roles /\ account'.functions = account.functions
    BY <1>1, <1>3, <2>3, OidcUpsertChange DEF Oidc!VerifiedAudience
  <2>5. OidcDeploying'
    BY <1>1, <2>1, <2>2, <2>4 DEF OidcInv, OidcDeploying
  <2>6. OidcRemoving'
    BY <1>1, <2>1, <2>2, <2>4 DEF OidcInv, OidcRemoving
  <2>7. QED
    BY <1>1, <2>1, <2>2, <2>4, <2>5, <2>6 DEF OidcInv
<1>4. QED
  BY <1>2, <1>3 DEF Oidc!Gateways


LEMMA OidcStartInv == ASSUME OidcInv, Oidc!StartDeploy \/ Oidc!StartTeardown PROVE OidcInv'
<1> USE DEF OidcTargetRole, OidcFunction, OidcGatewayRole, OidcPermitted, OidcGatewayMade,
            OidcAudience, OidcReady, OidcTargetSet, OidcRemoval, OidcNoGateway, OidcNoFunction,
            OidcNoTargetRole, OidcNoGatewayRole
<1>1. account' = account /\ file' = file
  BY DEF Oidc!StartDeploy, Oidc!StartTeardown, Oidc!Start
<1>2. /\ run' \in OidcRun
      /\ run'.step = "target role" \/ (run'.step = "remove target" /\ file # NoFile)
  <2>1. CASE Oidc!StartDeploy
    <3>1. run' = [script |-> "deploy", step |-> "target role", api |-> 0, claims |-> FALSE,
                  sentinel |-> 0]
      BY <2>1 DEF Oidc!StartDeploy, Oidc!Start, Oidc!Idle
    <3>2. QED
      BY <3>1 DEF OidcRun
  <2>2. CASE Oidc!StartTeardown
    <3>1. /\ file # NoFile
          /\ run' = [script |-> "remove", step |-> "remove target", api |-> 0, claims |-> FALSE,
                     sentinel |-> 0]
      BY <2>2 DEF Oidc!StartTeardown, Oidc!Start, Oidc!Idle, Oidc!NoFile, NoFile
    <3>2. QED
      BY <3>1 DEF OidcRun
  <2>3. QED
    BY <2>1, <2>2
<1>3. OidcDeploying'
  BY <1>1, <1>2 DEF OidcInv, OidcDeploying
<1>4. OidcRemoving'
  BY <1>1, <1>2 DEF OidcInv, OidcRemoving
<1>5. QED
  BY <1>1, <1>2, <1>3, <1>4 DEF OidcInv

LEMMA OidcEndInv ==
  ASSUME OidcInv, Oidc!SaveState \/ Oidc!VerifyAbsent \/ Oidc!Abort
  PROVE  OidcInv'
<1> USE DEF OidcTargetRole, OidcFunction, OidcGatewayRole, OidcPermitted, OidcGatewayMade,
            OidcAudience, OidcReady, OidcTargetSet, OidcRemoval, OidcNoGateway, OidcNoFunction,
            OidcNoTargetRole, OidcNoGatewayRole
<1>1. account' = account /\ run' = Idle
  BY DEF Oidc!SaveState, Oidc!VerifyAbsent, Oidc!Abort, Oidc!Idle, Idle
<1>2. run' \in OidcRun /\ run'.step = "idle"
  BY <1>1 DEF Idle, OidcRun
<1>3. file' \in FileType /\ (file' # NoFile => file'.gateway # 0)
  <2>1. CASE Oidc!SaveState
    <3>1. account.gateway \in Gateway /\ account.gateway.id # 0
      BY <2>1, Fields DEF Oidc!SaveState, OidcInv, OidcDeploying
    <3>2. file' = [api |-> 0, gateway |-> account.gateway.id,
                   audience |-> account.gateway.audience, claims |-> TRUE]
      BY <2>1 DEF Oidc!SaveState
    <3>3. QED
      BY <3>1, <3>2 DEF FileType, Gateway
  <2>2. CASE Oidc!VerifyAbsent \/ Oidc!Abort
    BY <2>2 DEF Oidc!VerifyAbsent, Oidc!Abort, OidcInv
  <2>3. QED
    BY <2>1, <2>2
<1>4. OidcDeploying'
  BY <1>2 DEF OidcDeploying
<1>5. OidcRemoving'
  BY <1>2 DEF OidcRemoving
<1>6. QED
  BY <1>1, <1>2, <1>3, <1>4, <1>5 DEF OidcInv

LEMMA OidcNextInv == ASSUME OidcInv, Oidc!Next PROVE OidcInv'
BY OidcStartInv, OidcCreateRolesInv, OidcTargetFunctionInv, OidcGatewaysInv, OidcWaitInv,
   OidcTargetInv, OidcRemoveGatewayInv, OidcRemoveRestInv, OidcEndInv
DEF Oidc!Next, Oidc!Deploy, Oidc!Teardown

LEMMA OidcInvariant == Spec => [](recipe = "07b" => OidcInv)
<1>1. Init => (recipe = "07b" => OidcInv)
  BY OidcInitInv DEF Init
<1>2. (recipe = "07b" => OidcInv) /\ [Next]_<<deployVars, recipe>>
      => (recipe = "07b" => OidcInv)'
  <2> SUFFICES ASSUME recipe = "07b" => OidcInv, [Next]_<<deployVars, recipe>>, recipe' = "07b"
               PROVE  OidcInv'
    OBVIOUS
  <2>1. recipe = "07b"
    BY DEF Next
  <2>2. CASE Next
    <3>1. Oidc!Next
      BY <2>1, <2>2 DEF Next
    <3>2. QED
      BY <2>1, <3>1, OidcNextInv
  <2>3. CASE UNCHANGED <<deployVars, recipe>>
    BY <2>1, <2>3 DEF deployVars, OidcInv, OidcDeploying, OidcRemoving
  <2>4. QED
    BY <2>2, <2>3
<1>3. QED
  BY <1>1, <1>2, PTL DEF Spec

(* Recipe 07b: a deployment that gets as far as its state file leaves a       *)
(* gateway that serves, whatever runs were broken off before it.              *)
THEOREM OidcDeployCompletes == Spec => DeployCompletes
<1>1. (recipe = "07b" => OidcInv) => (recipe = "07b" /\ Oidc!SaveState => Oidc!Works)
  <2> SUFFICES ASSUME OidcInv, Oidc!SaveState PROVE Oidc!Works
    OBVIOUS
  <2>1. run.step = "save"
    BY DEF Oidc!SaveState
  <2>2. /\ account.gateway.id # 0 /\ account.gateway.status = "READY"
        /\ account.gateway.audience = account.gateway.id
        /\ account.gateway.target = Oidc!TheFunction
        /\ account.functions["target"].exists /\ account.roles["target"].exists
        /\ account.roles["gateway"].exists
        /\ account.roles["gateway"].policy = Oidc!GatewayPolicy
    BY <2>1
    DEF OidcInv, OidcDeploying, OidcTargetRole, OidcFunction, OidcGatewayRole, OidcPermitted,
        OidcGatewayMade, OidcAudience, OidcReady, OidcTargetSet
  <2>3. account.roles["gateway"] \in Role
    BY Fields DEF OidcInv, RoleNames
  <2>4. account.roles["gateway"] = [exists |-> TRUE, policy |-> Oidc!GatewayPolicy]
    BY <2>2, <2>3 DEF Role
  <2>5. QED
    BY <2>2, <2>4 DEF Oidc!Works
<1>2. QED
  BY <1>1, OidcInvariant, PTL DEF DeployCompletes

(* Recipe 07b: a teardown that completes leaves only gateways that its state  *)
(* file does not name.                                                        *)
THEOREM OidcTeardownLeavesOnlyStrays == Spec => TeardownLeavesOnlyStrays
<1>1. (recipe = "07b" => OidcInv) => (recipe = "07b" /\ Oidc!VerifyAbsent => Oidc!OnlyStrays)
  <2> SUFFICES ASSUME OidcInv, Oidc!VerifyAbsent PROVE Oidc!OnlyStrays
    OBVIOUS
  <2>1. run.step = "verify absent"
    BY DEF Oidc!VerifyAbsent
  <2>2. QED
    BY <2>1
    DEF OidcInv, OidcRemoving, OidcRemoval, OidcNoGateway, OidcNoFunction, OidcNoTargetRole,
        OidcNoGatewayRole, Oidc!OnlyStrays, Oidc!Named, Oidc!FunctionNames, Oidc!RoleNames
<1>2. QED
  BY <1>1, OidcInvariant, PTL DEF TeardownLeavesOnlyStrays

-----------------------------------------------------------------------------
(* Recipe 30, in the same way.  Besides, an API is imported only when none *)
(* has the name, so there is never a second one for a removal to miss.     *)

OrdersSaving      == {"save"}
OrdersReady       == {"target"} \cup OrdersSaving
OrdersAudience    == {"wait authorizer"} \cup OrdersReady
OrdersGatewayMade == {"wait gateway", "authorizer"} \cup OrdersAudience
OrdersPermitted   == {"gateway"} \cup OrdersGatewayMade
OrdersGatewayRole == {"gateway policy"} \cup OrdersPermitted
OrdersStaged      == {"permission", "gateway role"} \cup OrdersGatewayRole
OrdersApi         == {"name api", "deploy api"} \cup OrdersStaged
OrdersInterceptor == {"api"} \cup OrdersApi
OrdersTarget      == {"interceptor function"} \cup OrdersInterceptor
OrdersTable       ==
  {"target role", "target policy", "interceptor role", "interceptor policy",
   "target function"} \cup OrdersTarget

Armed(f) ==
  account.functions[f].exists /\ account.functions[f].env = run.sentinel

OrdersDeploying ==
  /\ run.step \in OrdersTable => account.table
  /\ run.step \in OrdersTarget => Armed("target")
  /\ run.step \in OrdersInterceptor => Armed("interceptor")
  /\ run.step \in OrdersApi =>
       run.api \in ApiIDs /\ account.apis[run.api].status = "live"
  /\ run.step \in OrdersStaged => account.apis[run.api].stage # "none"
  /\ run.step \in OrdersGatewayRole => account.roles["gateway"].exists
  /\ run.step \in OrdersPermitted =>
       account.roles["gateway"].policy = Orders!GatewayPolicy(run.api)
  /\ run.step \in OrdersGatewayMade => account.gateway.id # 0
  /\ run.step \in OrdersAudience => account.gateway.audience = account.gateway.id
  /\ run.step \in OrdersReady => account.gateway.status = "READY"
  /\ run.step \in OrdersSaving => account.gateway.target = run.api

OrdersNoGatewayRole     == {"remove files"}
OrdersNoInterceptorRole == {"remove gateway role"} \cup OrdersNoGatewayRole
OrdersNoTargetRole      == {"remove interceptor role"} \cup OrdersNoInterceptorRole
OrdersNoTable           == {"remove target role"} \cup OrdersNoTargetRole
OrdersNoInterceptor     == {"remove table"} \cup OrdersNoTable
OrdersNoTarget          == {"remove interceptor"} \cup OrdersNoInterceptor
OrdersNoApi             == {"remove functions"} \cup OrdersNoTarget
OrdersNoGateway         == {"remove api"} \cup OrdersNoApi
OrdersRemoval           == {"remove target", "remove gateway"} \cup OrdersNoGateway

Findable(i) == account.apis[i].status = "live" /\ account.apis[i].named

OrdersRemoving ==
  /\ run.step \in OrdersNoGateway =>
       (account.gateway.id # 0 => account.gateway.target # 0)
  /\ run.step \in OrdersNoApi => \A i \in ApiIDs : ~Findable(i)
  /\ run.step \in OrdersNoTarget => ~account.functions["target"].exists
  /\ run.step \in OrdersNoInterceptor => ~account.functions["interceptor"].exists
  /\ run.step \in OrdersNoTable => ~account.table
  /\ run.step \in OrdersNoTargetRole => ~account.roles["target"].exists
  /\ run.step \in OrdersNoInterceptorRole => ~account.roles["interceptor"].exists
  /\ run.step \in OrdersNoGatewayRole => ~account.roles["gateway"].exists

OneApi ==
  /\ \A i, j \in ApiIDs : Findable(i) /\ Findable(j) => i = j
  /\ run.step = "name api" => \A i \in ApiIDs : ~Findable(i)

OrdersRun == [script : {"none", "deploy", "remove"},
              step : {"idle", "table"} \cup OrdersTable \cup OrdersRemoval,
              api : Nat, claims : BOOLEAN, sentinel : Nat]

OrdersInv ==
  /\ account \in Account /\ run \in OrdersRun
  /\ OrdersDeploying
  /\ OrdersRemoving
  /\ OneApi

LEMMA OrdersInitInv == AccountInit => OrdersInv
<1> SUFFICES ASSUME AccountInit PROVE OrdersInv
  OBVIOUS
<1> USE DEF OrdersSaving, OrdersReady, OrdersAudience, OrdersGatewayMade, OrdersPermitted,
            OrdersGatewayRole, OrdersStaged, OrdersApi, OrdersInterceptor, OrdersTarget,
            OrdersTable, OrdersNoGatewayRole, OrdersNoInterceptorRole, OrdersNoTargetRole,
            OrdersNoTable, OrdersNoInterceptor, OrdersNoTarget, OrdersNoApi, OrdersNoGateway,
            OrdersRemoval
<1>1. account \in Account
  BY EmptyAccountType DEF AccountInit
<1>2. run \in OrdersRun /\ run.step = "idle"
  BY DEF AccountInit, Idle, OrdersRun
<1>3. \A i \in ApiIDs : ~Findable(i)
  BY DEF AccountInit, EmptyAccount, NoApi, Findable
<1>4. QED
  BY <1>1, <1>2, <1>3 DEF OrdersInv, OrdersDeploying, OrdersRemoving, OneApi

LEMMA OrdersGoesOn ==
  ASSUME OrdersInv, NEW next \in {"idle", "table"} \cup OrdersTable \cup OrdersRemoval,
         run' = [run EXCEPT !.step = next]
  PROVE  /\ run'.step = next /\ run' \in OrdersRun
         /\ run'.api = run.api /\ run'.sentinel = run.sentinel
BY DEF OrdersInv, OrdersRun

LEMMA OrdersRolesInv ==
  ASSUME OrdersInv, Orders!EnsureRoles
  PROVE  OrdersInv'
<1> USE DEF OrdersSaving, OrdersReady, OrdersAudience, OrdersGatewayMade, OrdersPermitted,
            OrdersGatewayRole, OrdersStaged, OrdersApi, OrdersInterceptor, OrdersTarget,
            OrdersTable, OrdersNoGatewayRole, OrdersNoInterceptorRole, OrdersNoTargetRole,
            OrdersNoTable, OrdersNoInterceptor, OrdersNoTarget, OrdersNoApi, OrdersNoGateway,
            OrdersRemoval
<1>1. /\ account \in Account /\ run.sentinel \in Nat /\ run.api \in Nat
      /\ "target" \in RoleNames /\ "interceptor" \in RoleNames /\ "gateway" \in RoleNames
      /\ "target" \in FunctionNames /\ "interceptor" \in FunctionNames
      /\ {} \in PolicyValues /\ 0 \in Nat
      /\ account.gateway \in Gateway /\ account.gateway.id \in Nat
  BY Fields DEF OrdersInv, OrdersRun, RoleNames, FunctionNames, PolicyValues, Gateway
<1>2. /\ Orders!TargetPolicy \in PolicyValues /\ Orders!InterceptorPolicy \in PolicyValues
      /\ Orders!GatewayPolicy(run.api) \in PolicyValues
  BY <1>1
  DEF PolicyValues, Orders!TargetPolicy, Orders!InterceptorPolicy, Orders!GatewayPolicy
<1>3. CASE /\ run.step = "target role" /\ account' = WithRole("target")
            /\ run' = [run EXCEPT !.step = "target policy"]
  <2>1. /\ run'.step = "target policy" /\ run' \in OrdersRun
        /\ run'.api = run.api /\ run'.sentinel = run.sentinel
    BY <1>3, OrdersGoesOn
  <2>2. /\ account' \in Account
        /\ account'.roles["target"].exists
        /\ account'.roles["target"].policy = account.roles["target"].policy
        /\ \A m \in RoleNames : m # "target" => account'.roles[m] = account.roles[m]
        /\ account'.apis = account.apis /\ account'.functions = account.functions
        /\ account'.gateway = account.gateway /\ (account'.table <=> account.table)
    BY <1>1, <1>3, WithRoleChange
  <2>3. OrdersDeploying'
    BY <1>1, <1>3, <2>1, <2>2 DEF OrdersInv, OrdersDeploying, Armed
  <2>4. OrdersRemoving'
    BY <1>1, <1>3, <2>1, <2>2 DEF OrdersInv, OrdersRemoving, Findable
  <2>5. OneApi'
    BY <2>1, <2>2 DEF OrdersInv, OneApi, Findable
  <2>6. QED
    BY <2>1, <2>2, <2>3, <2>4, <2>5 DEF OrdersInv
<1>4. CASE /\ run.step = "target policy"
            /\ account' = WithPolicy("target", Orders!TargetPolicy)
            /\ run' = [run EXCEPT !.step = "interceptor role"]
  <2>1. /\ run'.step = "interceptor role" /\ run' \in OrdersRun
        /\ run'.api = run.api /\ run'.sentinel = run.sentinel
    BY <1>4, OrdersGoesOn
  <2>2. /\ account' \in Account
        /\ (account'.roles["target"].exists <=> account.roles["target"].exists)
        /\ account'.roles["target"].policy = Orders!TargetPolicy
        /\ \A m \in RoleNames : m # "target" => account'.roles[m] = account.roles[m]
        /\ account'.apis = account.apis /\ account'.functions = account.functions
        /\ account'.gateway = account.gateway /\ (account'.table <=> account.table)
    BY <1>1, <1>2, <1>4, WithPolicyChange
  <2>3. OrdersDeploying'
    BY <1>1, <1>4, <2>1, <2>2 DEF OrdersInv, OrdersDeploying, Armed
  <2>4. OrdersRemoving'
    BY <1>1, <1>4, <2>1, <2>2 DEF OrdersInv, OrdersRemoving, Findable
  <2>5. OneApi'
    BY <2>1, <2>2 DEF OrdersInv, OneApi, Findable
  <2>6. QED
    BY <2>1, <2>2, <2>3, <2>4, <2>5 DEF OrdersInv
<1>5. CASE /\ run.step = "interceptor role" /\ account' = WithRole("interceptor")
            /\ run' = [run EXCEPT !.step = "interceptor policy"]
  <2>1. /\ run'.step = "interceptor policy" /\ run' \in OrdersRun
        /\ run'.api = run.api /\ run'.sentinel = run.sentinel
    BY <1>5, OrdersGoesOn
  <2>2. /\ account' \in Account
        /\ account'.roles["interceptor"].exists
        /\ account'.roles["interceptor"].policy = account.roles["interceptor"].policy
        /\ \A m \in RoleNames : m # "interceptor" => account'.roles[m] = account.roles[m]
        /\ account'.apis = account.apis /\ account'.functions = account.functions
        /\ account'.gateway = account.gateway /\ (account'.table <=> account.table)
    BY <1>1, <1>5, WithRoleChange
  <2>3. OrdersDeploying'
    BY <1>1, <1>5, <2>1, <2>2 DEF OrdersInv, OrdersDeploying, Armed
  <2>4. OrdersRemoving'
    BY <1>1, <1>5, <2>1, <2>2 DEF OrdersInv, OrdersRemoving, Findable
  <2>5. OneApi'
    BY <2>1, <2>2 DEF OrdersInv, OneApi, Findable
  <2>6. QED
    BY <2>1, <2>2, <2>3, <2>4, <2>5 DEF OrdersInv
<1>6. CASE /\ run.step = "interceptor policy"
            /\ account' = WithPolicy("interceptor", Orders!InterceptorPolicy)
            /\ run' = [run EXCEPT !.step = "target function"]
  <2>1. /\ run'.step = "target function" /\ run' \in OrdersRun
        /\ run'.api = run.api /\ run'.sentinel = run.sentinel
    BY <1>6, OrdersGoesOn
  <2>2. /\ account' \in Account
        /\ (account'.roles["interceptor"].exists <=> account.roles["interceptor"].exists)
        /\ account'.roles["interceptor"].policy = Orders!InterceptorPolicy
        /\ \A m \in RoleNames : m # "interceptor" => account'.roles[m] = account.roles[m]
        /\ account'.apis = account.apis /\ account'.functions = account.functions
        /\ account'.gateway = account.gateway /\ (account'.table <=> account.table)
    BY <1>1, <1>2, <1>6, WithPolicyChange
  <2>3. OrdersDeploying'
    BY <1>1, <1>6, <2>1, <2>2 DEF OrdersInv, OrdersDeploying, Armed
  <2>4. OrdersRemoving'
    BY <1>1, <1>6, <2>1, <2>2 DEF OrdersInv, OrdersRemoving, Findable
  <2>5. OneApi'
    BY <2>1, <2>2 DEF OrdersInv, OneApi, Findable
  <2>6. QED
    BY <2>1, <2>2, <2>3, <2>4, <2>5 DEF OrdersInv
<1>7. CASE /\ run.step = "gateway role" /\ account' = WithRole("gateway")
            /\ run' = [run EXCEPT !.step = "gateway policy"]
  <2>1. /\ run'.step = "gateway policy" /\ run' \in OrdersRun
        /\ run'.api = run.api /\ run'.sentinel = run.sentinel
    BY <1>7, OrdersGoesOn
  <2>2. /\ account' \in Account
        /\ account'.roles["gateway"].exists
        /\ account'.roles["gateway"].policy = account.roles["gateway"].policy
        /\ \A m \in RoleNames : m # "gateway" => account'.roles[m] = account.roles[m]
        /\ account'.apis = account.apis /\ account'.functions = account.functions
        /\ account'.gateway = account.gateway /\ (account'.table <=> account.table)
    BY <1>1, <1>7, WithRoleChange
  <2>3. OrdersDeploying'
    BY <1>1, <1>7, <2>1, <2>2 DEF OrdersInv, OrdersDeploying, Armed
  <2>4. OrdersRemoving'
    BY <1>1, <1>7, <2>1, <2>2 DEF OrdersInv, OrdersRemoving, Findable
  <2>5. OneApi'
    BY <2>1, <2>2 DEF OrdersInv, OneApi, Findable
  <2>6. QED
    BY <2>1, <2>2, <2>3, <2>4, <2>5 DEF OrdersInv
<1>8. CASE /\ run.step = "gateway policy"
            /\ account' = WithPolicy("gateway", Orders!GatewayPolicy(run.api))
            /\ run' = [run EXCEPT !.step = "gateway"]
  <2>1. /\ run'.step = "gateway" /\ run' \in OrdersRun
        /\ run'.api = run.api /\ run'.sentinel = run.sentinel
    BY <1>8, OrdersGoesOn
  <2>2. /\ account' \in Account
        /\ (account'.roles["gateway"].exists <=> account.roles["gateway"].exists)
        /\ account'.roles["gateway"].policy = Orders!GatewayPolicy(run.api)
        /\ \A m \in RoleNames : m # "gateway" => account'.roles[m] = account.roles[m]
        /\ account'.apis = account.apis /\ account'.functions = account.functions
        /\ account'.gateway = account.gateway /\ (account'.table <=> account.table)
    BY <1>1, <1>2, <1>8, WithPolicyChange
  <2>3. OrdersDeploying'
    BY <1>1, <1>8, <2>1, <2>2 DEF OrdersInv, OrdersDeploying, Armed
  <2>4. OrdersRemoving'
    BY <1>1, <1>8, <2>1, <2>2 DEF OrdersInv, OrdersRemoving, Findable
  <2>5. OneApi'
    BY <2>1, <2>2 DEF OrdersInv, OneApi, Findable
  <2>6. QED
    BY <2>1, <2>2, <2>3, <2>4, <2>5 DEF OrdersInv
<1>9. QED
  BY <1>3, <1>4, <1>5, <1>6, <1>7, <1>8
  DEF Orders!EnsureRoles, Orders!Call, Orders!WithRole, WithRole, Orders!WithPolicy,
      WithPolicy

LEMMA OrdersFunctionsInv ==
  ASSUME OrdersInv, Orders!EnsureFunctions
  PROVE  OrdersInv'
<1> USE DEF OrdersSaving, OrdersReady, OrdersAudience, OrdersGatewayMade, OrdersPermitted,
            OrdersGatewayRole, OrdersStaged, OrdersApi, OrdersInterceptor, OrdersTarget,
            OrdersTable, OrdersNoGatewayRole, OrdersNoInterceptorRole, OrdersNoTargetRole,
            OrdersNoTable, OrdersNoInterceptor, OrdersNoTarget, OrdersNoApi, OrdersNoGateway,
            OrdersRemoval
<1>1. /\ account \in Account /\ run.sentinel \in Nat /\ run.api \in Nat
      /\ "target" \in RoleNames /\ "interceptor" \in RoleNames /\ "gateway" \in RoleNames
      /\ "target" \in FunctionNames /\ "interceptor" \in FunctionNames
      /\ {} \in PolicyValues /\ 0 \in Nat
      /\ account.gateway \in Gateway /\ account.gateway.id \in Nat
  BY Fields DEF OrdersInv, OrdersRun, RoleNames, FunctionNames, PolicyValues, Gateway
<1>2. CASE /\ run.step = "target function"
            /\ account' = WithFunction("target", run.sentinel)
            /\ run' = [run EXCEPT !.step = "interceptor function"]
  <2>1. /\ account' \in Account
        /\ account'.functions["target"] = [exists |-> TRUE, env |-> run.sentinel]
        /\ \A g \in FunctionNames : g # "target" =>
             account'.functions[g] = account.functions[g]
        /\ account'.apis = account.apis /\ account'.gateway = account.gateway
        /\ account'.roles = account.roles /\ (account'.table <=> account.table)
    BY <1>1, <1>2, WithFunctionChange
  <2>2. /\ run'.step = "interceptor function" /\ run' \in OrdersRun
        /\ run'.api = run.api /\ run'.sentinel = run.sentinel
    BY <1>2, OrdersGoesOn
  <2>3. /\ account' \in Account
        /\ account'.functions["target"].exists
        /\ account'.functions["target"].env = run.sentinel
        /\ account'.functions["interceptor"] = account.functions["interceptor"]
        /\ account'.apis = account.apis /\ account'.gateway = account.gateway
        /\ account'.roles = account.roles /\ (account'.table <=> account.table)
    BY <1>1, <2>1
  <2>4. OrdersDeploying'
    BY <1>1, <1>2, <2>2, <2>3 DEF OrdersInv, OrdersDeploying, Armed
  <2>5. OrdersRemoving'
    BY <1>1, <1>2, <2>2, <2>3 DEF OrdersInv, OrdersRemoving, Findable
  <2>6. OneApi'
    BY <2>2, <2>3 DEF OrdersInv, OneApi, Findable
  <2>7. QED
    BY <2>2, <2>3, <2>4, <2>5, <2>6 DEF OrdersInv
<1>3. CASE /\ run.step = "interceptor function"
            /\ account' = WithFunction("interceptor", run.sentinel)
            /\ run' = [run EXCEPT !.step = "api"]
  <2>1. /\ account' \in Account
        /\ account'.functions["interceptor"] = [exists |-> TRUE, env |-> run.sentinel]
        /\ \A g \in FunctionNames : g # "interceptor" =>
             account'.functions[g] = account.functions[g]
        /\ account'.apis = account.apis /\ account'.gateway = account.gateway
        /\ account'.roles = account.roles /\ (account'.table <=> account.table)
    BY <1>1, <1>3, WithFunctionChange
  <2>2. /\ run'.step = "api" /\ run' \in OrdersRun
        /\ run'.api = run.api /\ run'.sentinel = run.sentinel
    BY <1>3, OrdersGoesOn
  <2>3. /\ account' \in Account
        /\ account'.functions["interceptor"].exists
        /\ account'.functions["interceptor"].env = run.sentinel
        /\ account'.functions["target"] = account.functions["target"]
        /\ account'.apis = account.apis /\ account'.gateway = account.gateway
        /\ account'.roles = account.roles /\ (account'.table <=> account.table)
    BY <1>1, <2>1
  <2>4. OrdersDeploying'
    BY <1>1, <1>3, <2>2, <2>3 DEF OrdersInv, OrdersDeploying, Armed
  <2>5. OrdersRemoving'
    BY <1>1, <1>3, <2>2, <2>3 DEF OrdersInv, OrdersRemoving, Findable
  <2>6. OneApi'
    BY <2>2, <2>3 DEF OrdersInv, OneApi, Findable
  <2>7. QED
    BY <2>2, <2>3, <2>4, <2>5, <2>6 DEF OrdersInv
<1>4. QED
  BY <1>2, <1>3 DEF Orders!EnsureFunctions, Orders!Call, Orders!WithFunction, WithFunction

LEMMA OrdersWaitInv ==
  ASSUME OrdersInv, Orders!WaitGateways
  PROVE  OrdersInv'
<1> USE DEF OrdersSaving, OrdersReady, OrdersAudience, OrdersGatewayMade, OrdersPermitted,
            OrdersGatewayRole, OrdersStaged, OrdersApi, OrdersInterceptor, OrdersTarget,
            OrdersTable, OrdersNoGatewayRole, OrdersNoInterceptorRole, OrdersNoTargetRole,
            OrdersNoTable, OrdersNoInterceptor, OrdersNoTarget, OrdersNoApi, OrdersNoGateway,
            OrdersRemoval
<1>1. /\ account \in Account /\ run.sentinel \in Nat /\ run.api \in Nat
      /\ "target" \in RoleNames /\ "interceptor" \in RoleNames /\ "gateway" \in RoleNames
      /\ "target" \in FunctionNames /\ "interceptor" \in FunctionNames
      /\ {} \in PolicyValues /\ 0 \in Nat
      /\ account.gateway \in Gateway /\ account.gateway.id \in Nat
  BY Fields DEF OrdersInv, OrdersRun, RoleNames, FunctionNames, PolicyValues, Gateway
<1>2. CASE /\ run.step = "wait gateway" /\ account' = account
            /\ run' = [run EXCEPT !.step = "authorizer"]
  <2>1. /\ run'.step = "authorizer" /\ run' \in OrdersRun
        /\ run'.api = run.api /\ run'.sentinel = run.sentinel
    BY <1>2, OrdersGoesOn
  <2>2. /\ account' \in Account
        /\ account'.apis = account.apis /\ account'.functions = account.functions
        /\ account'.gateway = account.gateway /\ account'.roles = account.roles
        /\ (account'.table <=> account.table)
    BY <1>1, <1>2
  <2>3. OrdersDeploying'
    BY <1>1, <1>2, <2>1, <2>2 DEF OrdersInv, OrdersDeploying, Armed
  <2>4. OrdersRemoving'
    BY <1>1, <1>2, <2>1, <2>2 DEF OrdersInv, OrdersRemoving, Findable
  <2>5. OneApi'
    BY <2>1, <2>2 DEF OrdersInv, OneApi, Findable
  <2>6. QED
    BY <2>1, <2>2, <2>3, <2>4, <2>5 DEF OrdersInv
<1>3. CASE /\ run.step = "wait authorizer" /\ account' = account
            /\ run' = [run EXCEPT !.step = "target"]
            /\ account.gateway.status = "READY"
  <2>1. /\ run'.step = "target" /\ run' \in OrdersRun
        /\ run'.api = run.api /\ run'.sentinel = run.sentinel
    BY <1>3, OrdersGoesOn
  <2>2. /\ account' \in Account
        /\ account'.apis = account.apis /\ account'.functions = account.functions
        /\ account'.gateway = account.gateway /\ account'.roles = account.roles
        /\ (account'.table <=> account.table)
    BY <1>1, <1>3
  <2>3. OrdersDeploying'
    BY <1>1, <1>3, <2>1, <2>2 DEF OrdersInv, OrdersDeploying, Armed
  <2>4. OrdersRemoving'
    BY <1>1, <1>3, <2>1, <2>2 DEF OrdersInv, OrdersRemoving, Findable
  <2>5. OneApi'
    BY <2>1, <2>2 DEF OrdersInv, OneApi, Findable
  <2>6. QED
    BY <2>1, <2>2, <2>3, <2>4, <2>5 DEF OrdersInv
<1>4. QED
  BY <1>2, <1>3 DEF Orders!WaitGateways, Orders!WaitGateway, Orders!Call

LEMMA OrdersTargetInv ==
  ASSUME OrdersInv, Orders!EnsureTarget
  PROVE  OrdersInv'
<1> USE DEF OrdersSaving, OrdersReady, OrdersAudience, OrdersGatewayMade, OrdersPermitted,
            OrdersGatewayRole, OrdersStaged, OrdersApi, OrdersInterceptor, OrdersTarget,
            OrdersTable, OrdersNoGatewayRole, OrdersNoInterceptorRole, OrdersNoTargetRole,
            OrdersNoTable, OrdersNoInterceptor, OrdersNoTarget, OrdersNoApi, OrdersNoGateway,
            OrdersRemoval
<1>1. /\ account \in Account /\ run.sentinel \in Nat /\ run.api \in Nat
      /\ "target" \in RoleNames /\ "interceptor" \in RoleNames /\ "gateway" \in RoleNames
      /\ "target" \in FunctionNames /\ "interceptor" \in FunctionNames
      /\ {} \in PolicyValues /\ 0 \in Nat
      /\ account.gateway \in Gateway /\ account.gateway.id \in Nat
  BY Fields DEF OrdersInv, OrdersRun, RoleNames, FunctionNames, PolicyValues, Gateway
<1>2. CASE /\ run.step = "target" /\ account' = WithTarget(run.api)
            /\ run' = [run EXCEPT !.step = "save"]
  <2>1. /\ account' \in Account
        /\ account'.gateway = [id |-> account.gateway.id, audience |-> account.gateway.audience,
                               claims |-> account.gateway.claims,
                               status |-> account.gateway.status, target |-> run.api]
        /\ account'.apis = account.apis /\ account'.functions = account.functions
        /\ account'.roles = account.roles /\ (account'.table <=> account.table)
    BY <1>1, <1>2, TargetChange
  <2>2. /\ run'.step = "save" /\ run' \in OrdersRun
        /\ run'.api = run.api /\ run'.sentinel = run.sentinel
    BY <1>2, OrdersGoesOn
  <2>3. /\ account' \in Account
        /\ account'.gateway.target = run.api
        /\ account'.gateway.id = account.gateway.id
        /\ account'.gateway.audience = account.gateway.audience
        /\ account'.gateway.status = account.gateway.status
        /\ account'.apis = account.apis /\ account'.functions = account.functions
        /\ account'.roles = account.roles /\ (account'.table <=> account.table)
    BY <1>1, <2>1
  <2>4. OrdersDeploying'
    BY <1>1, <1>2, <2>2, <2>3 DEF OrdersInv, OrdersDeploying, Armed
  <2>5. OrdersRemoving'
    BY <1>1, <1>2, <2>2, <2>3 DEF OrdersInv, OrdersRemoving, Findable
  <2>6. OneApi'
    BY <2>2, <2>3 DEF OrdersInv, OneApi, Findable
  <2>7. QED
    BY <2>2, <2>3, <2>4, <2>5, <2>6 DEF OrdersInv
<1>3. QED
  BY <1>2 DEF Orders!EnsureTarget, Orders!Call, Orders!WithTarget, WithTarget

LEMMA OrdersRemoveGatewayInv ==
  ASSUME OrdersInv, Orders!RemoveGateway
  PROVE  OrdersInv'
<1> USE DEF OrdersSaving, OrdersReady, OrdersAudience, OrdersGatewayMade, OrdersPermitted,
            OrdersGatewayRole, OrdersStaged, OrdersApi, OrdersInterceptor, OrdersTarget,
            OrdersTable, OrdersNoGatewayRole, OrdersNoInterceptorRole, OrdersNoTargetRole,
            OrdersNoTable, OrdersNoInterceptor, OrdersNoTarget, OrdersNoApi, OrdersNoGateway,
            OrdersRemoval
<1>1. /\ account \in Account /\ run.sentinel \in Nat /\ run.api \in Nat
      /\ "target" \in RoleNames /\ "interceptor" \in RoleNames /\ "gateway" \in RoleNames
      /\ "target" \in FunctionNames /\ "interceptor" \in FunctionNames
      /\ {} \in PolicyValues /\ 0 \in Nat
      /\ account.gateway \in Gateway /\ account.gateway.id \in Nat
  BY Fields DEF OrdersInv, OrdersRun, RoleNames, FunctionNames, PolicyValues, Gateway
<1>2. CASE /\ run.step = "remove target" /\ account' = WithTarget(0)
            /\ run' = [run EXCEPT !.step = "remove gateway"]
  <2>1. /\ run'.step = "remove gateway" /\ run' \in OrdersRun
        /\ run'.api = run.api /\ run'.sentinel = run.sentinel
    BY <1>2, OrdersGoesOn
  <2>2. /\ account' \in Account
        /\ account'.apis = account.apis /\ account'.functions = account.functions
        /\ account'.roles = account.roles /\ (account'.table <=> account.table)
    BY <1>1, <1>2, TargetChange
  <2>3. OrdersDeploying'
    BY <1>1, <1>2, <2>1, <2>2 DEF OrdersInv, OrdersDeploying, Armed
  <2>4. OrdersRemoving'
    BY <1>1, <1>2, <2>1, <2>2 DEF OrdersInv, OrdersRemoving, Findable
  <2>5. OneApi'
    BY <2>1, <2>2 DEF OrdersInv, OneApi, Findable
  <2>6. QED
    BY <2>1, <2>2, <2>3, <2>4, <2>5 DEF OrdersInv
<1>3. CASE /\ run.step = "remove target" /\ account' = account
            /\ run' = [run EXCEPT !.step = "remove gateway"]
  <2>1. /\ run'.step = "remove gateway" /\ run' \in OrdersRun
        /\ run'.api = run.api /\ run'.sentinel = run.sentinel
    BY <1>3, OrdersGoesOn
  <2>2. /\ account' \in Account
        /\ account'.apis = account.apis /\ account'.functions = account.functions
        /\ account'.roles = account.roles /\ (account'.table <=> account.table)
    BY <1>1, <1>3
  <2>3. OrdersDeploying'
    BY <1>1, <1>3, <2>1, <2>2 DEF OrdersInv, OrdersDeploying, Armed
  <2>4. OrdersRemoving'
    BY <1>1, <1>3, <2>1, <2>2 DEF OrdersInv, OrdersRemoving, Findable
  <2>5. OneApi'
    BY <2>1, <2>2 DEF OrdersInv, OneApi, Findable
  <2>6. QED
    BY <2>1, <2>2, <2>3, <2>4, <2>5 DEF OrdersInv
<1>4. CASE /\ run.step = "remove gateway"
            /\ account' = [account EXCEPT !.gateway = NoGateway]
            /\ run' = [run EXCEPT !.step = "remove api"]
  <2>1. /\ account' \in Account
        /\ account'.apis = account.apis /\ account'.functions = account.functions
        /\ account'.roles = account.roles /\ (account'.table <=> account.table)
        /\ account'.gateway = NoGateway
    BY <1>1, <1>4, NoGatewayChange
  <2>2. /\ run'.step = "remove api" /\ run' \in OrdersRun
        /\ run'.api = run.api /\ run'.sentinel = run.sentinel
    BY <1>4, OrdersGoesOn
  <2>3. /\ account' \in Account
        /\ account'.apis = account.apis /\ account'.functions = account.functions
        /\ account'.roles = account.roles /\ (account'.table <=> account.table)
        /\ account'.gateway.id = 0
    BY <1>1, <2>1 DEF NoGateway
  <2>4. OrdersDeploying'
    BY <1>1, <1>4, <2>2, <2>3 DEF OrdersInv, OrdersDeploying, Armed
  <2>5. OrdersRemoving'
    BY <1>1, <1>4, <2>2, <2>3 DEF OrdersInv, OrdersRemoving, Findable
  <2>6. OneApi'
    BY <2>2, <2>3 DEF OrdersInv, OneApi, Findable
  <2>7. QED
    BY <2>2, <2>3, <2>4, <2>5, <2>6 DEF OrdersInv
<1>5. CASE /\ run.step = "remove gateway" /\ account' = account
            /\ run' = [run EXCEPT !.step = "remove api"]
            /\ account.gateway.target # 0
  <2>1. /\ run'.step = "remove api" /\ run' \in OrdersRun
        /\ run'.api = run.api /\ run'.sentinel = run.sentinel
    BY <1>5, OrdersGoesOn
  <2>2. /\ account' \in Account
        /\ account'.apis = account.apis /\ account'.functions = account.functions
        /\ account'.gateway = account.gateway /\ account'.roles = account.roles
        /\ (account'.table <=> account.table)
    BY <1>1, <1>5
  <2>3. OrdersDeploying'
    BY <1>1, <1>5, <2>1, <2>2 DEF OrdersInv, OrdersDeploying, Armed
  <2>4. OrdersRemoving'
    BY <1>1, <1>5, <2>1, <2>2 DEF OrdersInv, OrdersRemoving, Findable
  <2>5. OneApi'
    BY <2>1, <2>2 DEF OrdersInv, OneApi, Findable
  <2>6. QED
    BY <2>1, <2>2, <2>3, <2>4, <2>5 DEF OrdersInv
<1>6. QED
  BY <1>2, <1>3, <1>4, <1>5
  DEF Orders!RemoveGateway, Orders!Call, Orders!WithTarget, WithTarget, Orders!NoGateway,
      NoGateway

LEMMA OrdersRemoveFunctionsInv ==
  ASSUME OrdersInv, Orders!RemoveFunctions \/ Orders!RemoveTable
  PROVE  OrdersInv'
<1> USE DEF OrdersSaving, OrdersReady, OrdersAudience, OrdersGatewayMade, OrdersPermitted,
            OrdersGatewayRole, OrdersStaged, OrdersApi, OrdersInterceptor, OrdersTarget,
            OrdersTable, OrdersNoGatewayRole, OrdersNoInterceptorRole, OrdersNoTargetRole,
            OrdersNoTable, OrdersNoInterceptor, OrdersNoTarget, OrdersNoApi, OrdersNoGateway,
            OrdersRemoval
<1>1. /\ account \in Account /\ run.sentinel \in Nat /\ run.api \in Nat
      /\ "target" \in RoleNames /\ "interceptor" \in RoleNames /\ "gateway" \in RoleNames
      /\ "target" \in FunctionNames /\ "interceptor" \in FunctionNames
      /\ {} \in PolicyValues /\ 0 \in Nat
      /\ account.gateway \in Gateway /\ account.gateway.id \in Nat
  BY Fields DEF OrdersInv, OrdersRun, RoleNames, FunctionNames, PolicyValues, Gateway
<1>2. CASE /\ run.step = "remove functions" /\ account' = WithoutFunction("target")
            /\ run' = [run EXCEPT !.step = "remove interceptor"]
  <2>1. /\ run'.step = "remove interceptor" /\ run' \in OrdersRun
        /\ run'.api = run.api /\ run'.sentinel = run.sentinel
    BY <1>2, OrdersGoesOn
  <2>2. /\ account' \in Account
        /\ ~account'.functions["target"].exists
        /\ account'.functions["interceptor"] = account.functions["interceptor"]
        /\ account'.apis = account.apis /\ account'.gateway = account.gateway
        /\ account'.roles = account.roles /\ (account'.table <=> account.table)
    BY <1>1, <1>2, WithoutFunctionChange
  <2>3. OrdersDeploying'
    BY <1>1, <1>2, <2>1, <2>2 DEF OrdersInv, OrdersDeploying, Armed
  <2>4. OrdersRemoving'
    BY <1>1, <1>2, <2>1, <2>2 DEF OrdersInv, OrdersRemoving, Findable
  <2>5. OneApi'
    BY <2>1, <2>2 DEF OrdersInv, OneApi, Findable
  <2>6. QED
    BY <2>1, <2>2, <2>3, <2>4, <2>5 DEF OrdersInv
<1>3. CASE /\ run.step = "remove interceptor" /\ account' = WithoutFunction("interceptor")
            /\ run' = [run EXCEPT !.step = "remove table"]
  <2>1. /\ run'.step = "remove table" /\ run' \in OrdersRun
        /\ run'.api = run.api /\ run'.sentinel = run.sentinel
    BY <1>3, OrdersGoesOn
  <2>2. /\ account' \in Account
        /\ ~account'.functions["interceptor"].exists
        /\ account'.functions["target"] = account.functions["target"]
        /\ account'.apis = account.apis /\ account'.gateway = account.gateway
        /\ account'.roles = account.roles /\ (account'.table <=> account.table)
    BY <1>1, <1>3, WithoutFunctionChange
  <2>3. OrdersDeploying'
    BY <1>1, <1>3, <2>1, <2>2 DEF OrdersInv, OrdersDeploying, Armed
  <2>4. OrdersRemoving'
    BY <1>1, <1>3, <2>1, <2>2 DEF OrdersInv, OrdersRemoving, Findable
  <2>5. OneApi'
    BY <2>1, <2>2 DEF OrdersInv, OneApi, Findable
  <2>6. QED
    BY <2>1, <2>2, <2>3, <2>4, <2>5 DEF OrdersInv
<1>4. CASE /\ run.step = "remove table" /\ account' = [account EXCEPT !.table = FALSE]
            /\ run' = [run EXCEPT !.step = "remove target role"]
  <2>1. /\ run'.step = "remove target role" /\ run' \in OrdersRun
        /\ run'.api = run.api /\ run'.sentinel = run.sentinel
    BY <1>4, OrdersGoesOn
  <2>2. /\ account' \in Account
        /\ ~account'.table
        /\ account'.apis = account.apis /\ account'.functions = account.functions
        /\ account'.gateway = account.gateway /\ account'.roles = account.roles
    BY <1>1, <1>4, TableChange
  <2>3. OrdersDeploying'
    BY <1>1, <1>4, <2>1, <2>2 DEF OrdersInv, OrdersDeploying, Armed
  <2>4. OrdersRemoving'
    BY <1>1, <1>4, <2>1, <2>2 DEF OrdersInv, OrdersRemoving, Findable
  <2>5. OneApi'
    BY <2>1, <2>2 DEF OrdersInv, OneApi, Findable
  <2>6. QED
    BY <2>1, <2>2, <2>3, <2>4, <2>5 DEF OrdersInv
<1>5. QED
  BY <1>2, <1>3, <1>4
  DEF Orders!RemoveFunctions, Orders!RemoveTable, Orders!Call, Orders!WithoutFunction,
      WithoutFunction,
      Orders!NoFunction, NoFunction, Orders!Routes, Routes

LEMMA OrdersRemoveRolesInv ==
  ASSUME OrdersInv, Orders!RemoveRoles
  PROVE  OrdersInv'
<1> USE DEF OrdersSaving, OrdersReady, OrdersAudience, OrdersGatewayMade, OrdersPermitted,
            OrdersGatewayRole, OrdersStaged, OrdersApi, OrdersInterceptor, OrdersTarget,
            OrdersTable, OrdersNoGatewayRole, OrdersNoInterceptorRole, OrdersNoTargetRole,
            OrdersNoTable, OrdersNoInterceptor, OrdersNoTarget, OrdersNoApi, OrdersNoGateway,
            OrdersRemoval
<1>1. /\ account \in Account /\ run.sentinel \in Nat /\ run.api \in Nat
      /\ "target" \in RoleNames /\ "interceptor" \in RoleNames /\ "gateway" \in RoleNames
      /\ "target" \in FunctionNames /\ "interceptor" \in FunctionNames
      /\ {} \in PolicyValues /\ 0 \in Nat
      /\ account.gateway \in Gateway /\ account.gateway.id \in Nat
  BY Fields DEF OrdersInv, OrdersRun, RoleNames, FunctionNames, PolicyValues, Gateway
<1>2. CASE /\ run.step = "remove target role" /\ account' = WithPolicy("target", {})
            /\ run' = [run EXCEPT !.step = "remove target role"]
  <2>1. /\ run'.step = "remove target role" /\ run' \in OrdersRun
        /\ run'.api = run.api /\ run'.sentinel = run.sentinel
    BY <1>2, OrdersGoesOn
  <2>2. /\ account' \in Account
        /\ (account'.roles["target"].exists <=> account.roles["target"].exists)
        /\ account'.roles["target"].policy = {}
        /\ \A m \in RoleNames : m # "target" => account'.roles[m] = account.roles[m]
        /\ account'.apis = account.apis /\ account'.functions = account.functions
        /\ account'.gateway = account.gateway /\ (account'.table <=> account.table)
    BY <1>1, <1>2, WithPolicyChange
  <2>3. OrdersDeploying'
    BY <1>1, <1>2, <2>1, <2>2 DEF OrdersInv, OrdersDeploying, Armed
  <2>4. OrdersRemoving'
    BY <1>1, <1>2, <2>1, <2>2, ZenonT(30) DEF OrdersInv, OrdersRemoving, Findable
  <2>5. OneApi'
    BY <2>1, <2>2 DEF OrdersInv, OneApi, Findable
  <2>6. QED
    BY <2>1, <2>2, <2>3, <2>4, <2>5 DEF OrdersInv
<1>3. CASE /\ run.step = "remove target role"
            /\ account' = [account EXCEPT !.roles["target"] = NoRole]
            /\ run' = [run EXCEPT !.step = "remove interceptor role"]
  <2>1. /\ run'.step = "remove interceptor role" /\ run' \in OrdersRun
        /\ run'.api = run.api /\ run'.sentinel = run.sentinel
    BY <1>3, OrdersGoesOn
  <2>2. /\ account' \in Account
        /\ ~account'.roles["target"].exists
        /\ \A m \in RoleNames : m # "target" => account'.roles[m] = account.roles[m]
        /\ account'.apis = account.apis /\ account'.functions = account.functions
        /\ account'.gateway = account.gateway /\ (account'.table <=> account.table)
    BY <1>1, <1>3, WithoutRoleChange
  <2>3. OrdersDeploying'
    BY <1>1, <1>3, <2>1, <2>2 DEF OrdersInv, OrdersDeploying, Armed
  <2>4. OrdersRemoving'
    BY <1>1, <1>3, <2>1, <2>2 DEF OrdersInv, OrdersRemoving, Findable
  <2>5. OneApi'
    BY <2>1, <2>2 DEF OrdersInv, OneApi, Findable
  <2>6. QED
    BY <2>1, <2>2, <2>3, <2>4, <2>5 DEF OrdersInv
<1>4. CASE /\ run.step = "remove interceptor role"
            /\ account' = WithPolicy("interceptor", {})
            /\ run' = [run EXCEPT !.step = "remove interceptor role"]
  <2>1. /\ run'.step = "remove interceptor role" /\ run' \in OrdersRun
        /\ run'.api = run.api /\ run'.sentinel = run.sentinel
    BY <1>4, OrdersGoesOn
  <2>2. /\ account' \in Account
        /\ (account'.roles["interceptor"].exists <=> account.roles["interceptor"].exists)
        /\ account'.roles["interceptor"].policy = {}
        /\ \A m \in RoleNames : m # "interceptor" => account'.roles[m] = account.roles[m]
        /\ account'.apis = account.apis /\ account'.functions = account.functions
        /\ account'.gateway = account.gateway /\ (account'.table <=> account.table)
    BY <1>1, <1>4, WithPolicyChange
  <2>3. OrdersDeploying'
    BY <1>1, <1>4, <2>1, <2>2 DEF OrdersInv, OrdersDeploying, Armed
  <2>4. OrdersRemoving'
    BY <1>1, <1>4, <2>1, <2>2, ZenonT(30) DEF OrdersInv, OrdersRemoving, Findable
  <2>5. OneApi'
    BY <2>1, <2>2 DEF OrdersInv, OneApi, Findable
  <2>6. QED
    BY <2>1, <2>2, <2>3, <2>4, <2>5 DEF OrdersInv
<1>5. CASE /\ run.step = "remove interceptor role"
            /\ account' = [account EXCEPT !.roles["interceptor"] = NoRole]
            /\ run' = [run EXCEPT !.step = "remove gateway role"]
  <2>1. /\ run'.step = "remove gateway role" /\ run' \in OrdersRun
        /\ run'.api = run.api /\ run'.sentinel = run.sentinel
    BY <1>5, OrdersGoesOn
  <2>2. /\ account' \in Account
        /\ ~account'.roles["interceptor"].exists
        /\ \A m \in RoleNames : m # "interceptor" => account'.roles[m] = account.roles[m]
        /\ account'.apis = account.apis /\ account'.functions = account.functions
        /\ account'.gateway = account.gateway /\ (account'.table <=> account.table)
    BY <1>1, <1>5, WithoutRoleChange
  <2>3. OrdersDeploying'
    BY <1>1, <1>5, <2>1, <2>2 DEF OrdersInv, OrdersDeploying, Armed
  <2>4. OrdersRemoving'
    BY <1>1, <1>5, <2>1, <2>2 DEF OrdersInv, OrdersRemoving, Findable
  <2>5. OneApi'
    BY <2>1, <2>2 DEF OrdersInv, OneApi, Findable
  <2>6. QED
    BY <2>1, <2>2, <2>3, <2>4, <2>5 DEF OrdersInv
<1>6. CASE /\ run.step = "remove gateway role" /\ account' = WithPolicy("gateway", {})
            /\ run' = [run EXCEPT !.step = "remove gateway role"]
  <2>1. /\ run'.step = "remove gateway role" /\ run' \in OrdersRun
        /\ run'.api = run.api /\ run'.sentinel = run.sentinel
    BY <1>6, OrdersGoesOn
  <2>2. /\ account' \in Account
        /\ (account'.roles["gateway"].exists <=> account.roles["gateway"].exists)
        /\ account'.roles["gateway"].policy = {}
        /\ \A m \in RoleNames : m # "gateway" => account'.roles[m] = account.roles[m]
        /\ account'.apis = account.apis /\ account'.functions = account.functions
        /\ account'.gateway = account.gateway /\ (account'.table <=> account.table)
    BY <1>1, <1>6, WithPolicyChange
  <2>3. OrdersDeploying'
    BY <1>1, <1>6, <2>1, <2>2 DEF OrdersInv, OrdersDeploying, Armed
  <2>4. OrdersRemoving'
    BY <1>1, <1>6, <2>1, <2>2, ZenonT(30) DEF OrdersInv, OrdersRemoving, Findable
  <2>5. OneApi'
    BY <2>1, <2>2 DEF OrdersInv, OneApi, Findable
  <2>6. QED
    BY <2>1, <2>2, <2>3, <2>4, <2>5 DEF OrdersInv
<1>7. CASE /\ run.step = "remove gateway role"
            /\ account' = [account EXCEPT !.roles["gateway"] = NoRole]
            /\ run' = [run EXCEPT !.step = "remove files"]
  <2>1. /\ run'.step = "remove files" /\ run' \in OrdersRun
        /\ run'.api = run.api /\ run'.sentinel = run.sentinel
    BY <1>7, OrdersGoesOn
  <2>2. /\ account' \in Account
        /\ ~account'.roles["gateway"].exists
        /\ \A m \in RoleNames : m # "gateway" => account'.roles[m] = account.roles[m]
        /\ account'.apis = account.apis /\ account'.functions = account.functions
        /\ account'.gateway = account.gateway /\ (account'.table <=> account.table)
    BY <1>1, <1>7, WithoutRoleChange
  <2>3. OrdersDeploying'
    BY <1>1, <1>7, <2>1, <2>2 DEF OrdersInv, OrdersDeploying, Armed
  <2>4. OrdersRemoving'
    BY <1>1, <1>7, <2>1, <2>2 DEF OrdersInv, OrdersRemoving, Findable
  <2>5. OneApi'
    BY <2>1, <2>2 DEF OrdersInv, OneApi, Findable
  <2>6. QED
    BY <2>1, <2>2, <2>3, <2>4, <2>5 DEF OrdersInv
<1>8. QED
  BY <1>2, <1>3, <1>4, <1>5, <1>6, <1>7
  DEF Orders!RemoveRoles, Orders!RemoveRole, Orders!Call, Orders!WithPolicy, WithPolicy,
      Orders!NoRole, NoRole

LEMMA OrdersTableInv ==
  ASSUME OrdersInv, Orders!EnsureReplayTable
  PROVE  OrdersInv'
<1> USE DEF OrdersSaving, OrdersReady, OrdersAudience, OrdersGatewayMade, OrdersPermitted,
            OrdersGatewayRole, OrdersStaged, OrdersApi, OrdersInterceptor, OrdersTarget,
            OrdersTable, OrdersNoGatewayRole, OrdersNoInterceptorRole, OrdersNoTargetRole,
            OrdersNoTable, OrdersNoInterceptor, OrdersNoTarget, OrdersNoApi, OrdersNoGateway,
            OrdersRemoval
<1>1. /\ account \in Account /\ run.sentinel \in Nat /\ run.api \in Nat
      /\ "target" \in RoleNames /\ "interceptor" \in RoleNames /\ "gateway" \in RoleNames
      /\ "target" \in FunctionNames /\ "interceptor" \in FunctionNames
      /\ {} \in PolicyValues /\ 0 \in Nat
      /\ account.gateway \in Gateway /\ account.gateway.id \in Nat
  BY Fields DEF OrdersInv, OrdersRun, RoleNames, FunctionNames, PolicyValues, Gateway
<1>2. PICK s \in Sentinels :
        /\ run.step = "table" /\ account' = [account EXCEPT !.table = TRUE]
        /\ run' = [run EXCEPT !.sentinel = s, !.step = "target role"]
  BY DEF Orders!EnsureReplayTable
<1>3. /\ account' \in Account /\ account'.table
      /\ account'.apis = account.apis
  BY <1>1, <1>2, TableChange
<1>4. run' \in OrdersRun /\ run'.step = "target role"
  BY <1>2, AccountAssumption DEF OrdersInv, OrdersRun
<1>5. OrdersDeploying' /\ OrdersRemoving' /\ OneApi'
  BY <1>3, <1>4 DEF OrdersInv, OrdersDeploying, OrdersRemoving, OneApi, Findable
<1>6. QED
  BY <1>3, <1>4, <1>5 DEF OrdersInv

LEMMA OrdersApiInv ==
  ASSUME OrdersInv, Orders!EnsureApi
  PROVE  OrdersInv'
<1> USE DEF OrdersSaving, OrdersReady, OrdersAudience, OrdersGatewayMade, OrdersPermitted,
            OrdersGatewayRole, OrdersStaged, OrdersApi, OrdersInterceptor, OrdersTarget,
            OrdersTable, OrdersNoGatewayRole, OrdersNoInterceptorRole, OrdersNoTargetRole,
            OrdersNoTable, OrdersNoInterceptor, OrdersNoTarget, OrdersNoApi, OrdersNoGateway,
            OrdersRemoval
<1>1. /\ account \in Account /\ run.sentinel \in Nat /\ run.api \in Nat
      /\ "target" \in RoleNames /\ "interceptor" \in RoleNames /\ "gateway" \in RoleNames
      /\ "target" \in FunctionNames /\ "interceptor" \in FunctionNames
      /\ {} \in PolicyValues /\ 0 \in Nat
      /\ account.gateway \in Gateway /\ account.gateway.id \in Nat
  BY Fields DEF OrdersInv, OrdersRun, RoleNames, FunctionNames, PolicyValues, Gateway
<1>2. account.apis \in [ApiIDs -> Api] /\ \A i \in ApiIDs : i \in Nat
  BY <1>1, Fields, AccountAssumption
(* An API that was found keeps its name, or loses it. *)
<1>3. CASE \E i \in Orders!FoundByName :
             /\ run.step = "api" /\ account' = WithOverwritten(i, FALSE)
             /\ run' = [run EXCEPT !.api = i, !.step = "deploy api"]
  <2>1. PICK i \in ApiIDs :
          /\ account.apis[i].status = "live" /\ run.step = "api"
          /\ account' = WithOverwritten(i, FALSE)
          /\ run' = [run EXCEPT !.api = i, !.step = "deploy api"]
    BY <1>3 DEF Orders!FoundByName
  <2>2. PICK api : api = [account.apis[i] EXCEPT !.policy = FALSE,
                                                 !.named = @ /\ ~OverwriteTakesTitle]
    OBVIOUS
  <2>3. /\ api \in Api /\ api.status = "live"
        /\ (api.named => account.apis[i].named)
    BY <1>2, <2>1, <2>2 DEF Api
  <2>4. account' = [account EXCEPT !.apis[i] = api]
    BY <2>1, <2>2 DEF WithOverwritten
  <2>5. /\ account' \in Account /\ account'.apis[i] = api
        /\ \A j \in ApiIDs : j # i => account'.apis[j] = account.apis[j]
        /\ account'.functions = account.functions /\ (account'.table <=> account.table)
    BY <1>1, <2>3, <2>4, ApiChange
  <2>6. /\ run' \in OrdersRun /\ run'.step = "deploy api" /\ run'.api = i
        /\ run'.sentinel = run.sentinel
    BY <1>2, <2>1 DEF OrdersInv, OrdersRun
  <2>7. OrdersDeploying'
    BY <2>1, <2>3, <2>5, <2>6 DEF OrdersInv, OrdersDeploying, Armed
  <2>8. OrdersRemoving'
    BY <2>6 DEF OrdersRemoving
  <2>9. \A j \in ApiIDs : Findable(j)' => Findable(j)
    BY <2>1, <2>3, <2>5 DEF Findable
  <2>10. OneApi'
    BY <2>6, <2>9 DEF OrdersInv, OneApi
  <2>11. QED
    BY <2>5, <2>6, <2>7, <2>8, <2>10 DEF OrdersInv
(* An API is imported when none was found, and has no name yet. *)
<1>4. CASE \E i \in Orders!FreshApis :
             /\ run.step = "api" /\ Orders!FoundByName = {}
             /\ account' = WithImported(i, FALSE)
             /\ run' = [run EXCEPT !.api = i, !.step = "name api"]
  <2>1. PICK i \in ApiIDs :
          /\ run.step = "api" /\ account' = WithImported(i, FALSE)
          /\ run' = [run EXCEPT !.api = i, !.step = "name api"]
    BY <1>4 DEF Orders!FreshApis
  <2>2. \A j \in ApiIDs : ~Findable(j)
    BY <1>4 DEF Orders!FoundByName, Findable
  <2>3. PICK api :
          api = [status |-> "live", named |-> FALSE, policy |-> FALSE, stage |-> "none"]
    OBVIOUS
  <2>4. api \in Api /\ api.status = "live" /\ ~api.named
    BY <2>3 DEF Api
  <2>5. account' = [account EXCEPT !.apis[i] = api]
    BY <2>1, <2>3 DEF WithImported
  <2>6. /\ account' \in Account /\ account'.apis[i] = api
        /\ \A j \in ApiIDs : j # i => account'.apis[j] = account.apis[j]
        /\ account'.functions = account.functions /\ (account'.table <=> account.table)
    BY <1>1, <2>4, <2>5, ApiChange
  <2>7. /\ run' \in OrdersRun /\ run'.step = "name api" /\ run'.api = i
        /\ run'.sentinel = run.sentinel
    BY <1>2, <2>1 DEF OrdersInv, OrdersRun
  <2>8. OrdersDeploying'
    BY <2>1, <2>4, <2>6, <2>7 DEF OrdersInv, OrdersDeploying, Armed
  <2>9. OrdersRemoving'
    BY <2>7 DEF OrdersRemoving
  <2>10. OneApi'
    BY <2>2, <2>4, <2>6, <2>7 DEF OneApi, Findable
  <2>11. QED
    BY <2>6, <2>7, <2>8, <2>9, <2>10 DEF OrdersInv
<1>5. CASE /\ run.step = "name api" /\ account' = WithNamed(run.api)
           /\ run' = [run EXCEPT !.step = "deploy api"]
  <2>1. run.api \in ApiIDs /\ account.apis[run.api].status = "live"
    BY <1>5 DEF OrdersInv, OrdersDeploying
  <2>2. PICK api : api = [account.apis[run.api] EXCEPT !.named = TRUE]
    OBVIOUS
  <2>3. api \in Api /\ api.status = "live"
    BY <1>2, <2>1, <2>2, ZenonT(30) DEF Api
  <2>4. account' = [account EXCEPT !.apis[run.api] = api]
    BY <1>5, <2>2 DEF WithNamed
  <2>5. /\ account' \in Account /\ account'.apis[run.api] = api
        /\ \A j \in ApiIDs : j # run.api => account'.apis[j] = account.apis[j]
        /\ account'.functions = account.functions /\ (account'.table <=> account.table)
    BY <1>1, <2>1, <2>3, <2>4, ApiChange
  <2>6. /\ run'.step = "deploy api" /\ run' \in OrdersRun
        /\ run'.api = run.api /\ run'.sentinel = run.sentinel
    BY <1>5, OrdersGoesOn
  <2>7. OrdersDeploying'
    BY <1>5, <2>1, <2>3, <2>5, <2>6 DEF OrdersInv, OrdersDeploying, Armed
  <2>8. OrdersRemoving'
    BY <2>6 DEF OrdersRemoving
  <2>9. \A j \in ApiIDs : j # run.api => ~Findable(j)'
    BY <1>5, <2>5 DEF OrdersInv, OneApi, Findable
  <2>10. OneApi'
    BY <2>6, <2>9 DEF OneApi
  <2>11. QED
    BY <2>5, <2>6, <2>7, <2>8, <2>10 DEF OrdersInv
<1>6. CASE /\ run.step = "deploy api" /\ account' = WithStage(run.api)
           /\ run' = [run EXCEPT !.step = "permission"]
  <2>1. run.api \in ApiIDs /\ account.apis[run.api].status = "live"
    BY <1>6 DEF OrdersInv, OrdersDeploying
  <2>2. PICK api : api = [account.apis[run.api] EXCEPT !.stage =
                            IF account.apis[run.api].policy THEN "restricted" ELSE "open"]
    OBVIOUS
  <2>3. /\ api \in Api /\ api.status = "live" /\ api.stage # "none"
        /\ (api.named <=> account.apis[run.api].named)
    BY <1>2, <2>1, <2>2 DEF Api
  <2>4. account' = [account EXCEPT !.apis[run.api] = api]
    BY <1>6, <2>2 DEF WithStage
  <2>5. /\ account' \in Account /\ account'.apis[run.api] = api
        /\ \A j \in ApiIDs : j # run.api => account'.apis[j] = account.apis[j]
        /\ account'.functions = account.functions /\ (account'.table <=> account.table)
    BY <1>1, <2>1, <2>3, <2>4, ApiChange
  <2>6. /\ run'.step = "permission" /\ run' \in OrdersRun
        /\ run'.api = run.api /\ run'.sentinel = run.sentinel
    BY <1>6, OrdersGoesOn
  <2>7. OrdersDeploying'
    BY <1>6, <2>1, <2>3, <2>5, <2>6 DEF OrdersInv, OrdersDeploying, Armed
  <2>8. OrdersRemoving'
    BY <2>6 DEF OrdersRemoving
  <2>9. \A j \in ApiIDs : Findable(j)' => Findable(j)
    BY <2>1, <2>3, <2>5 DEF Findable
  <2>10. OneApi'
    BY <2>6, <2>9 DEF OrdersInv, OneApi
  <2>11. QED
    BY <2>5, <2>6, <2>7, <2>8, <2>10 DEF OrdersInv
<1>7. QED
  BY <1>3, <1>4, <1>5, <1>6
  DEF Orders!EnsureApi, Orders!Call, Orders!WithOverwritten, WithOverwritten,
      Orders!WithImported, WithImported, Orders!WithNamed, WithNamed, Orders!WithStage,
      WithStage

LEMMA OrdersPermissionInv ==
  ASSUME OrdersInv, Orders!AllowApiGateway
  PROVE  OrdersInv'
<1> USE DEF OrdersSaving, OrdersReady, OrdersAudience, OrdersGatewayMade, OrdersPermitted,
            OrdersGatewayRole, OrdersStaged, OrdersApi, OrdersInterceptor, OrdersTarget,
            OrdersTable, OrdersNoGatewayRole, OrdersNoInterceptorRole, OrdersNoTargetRole,
            OrdersNoTable, OrdersNoInterceptor, OrdersNoTarget, OrdersNoApi, OrdersNoGateway,
            OrdersRemoval
<1>1. /\ account \in Account /\ run.sentinel \in Nat /\ run.api \in Nat
      /\ "target" \in RoleNames /\ "interceptor" \in RoleNames /\ "gateway" \in RoleNames
      /\ "target" \in FunctionNames /\ "interceptor" \in FunctionNames
      /\ {} \in PolicyValues /\ 0 \in Nat
      /\ account.gateway \in Gateway /\ account.gateway.id \in Nat
  BY Fields DEF OrdersInv, OrdersRun, RoleNames, FunctionNames, PolicyValues, Gateway
<1>2. CASE /\ run.step = "permission" /\ account' = account
            /\ run' = [run EXCEPT !.step = "gateway role"]
  <2>1. /\ run'.step = "gateway role" /\ run' \in OrdersRun
        /\ run'.api = run.api /\ run'.sentinel = run.sentinel
    BY <1>2, OrdersGoesOn
  <2>2. /\ account' \in Account
        /\ account'.apis = account.apis /\ account'.functions = account.functions
        /\ account'.gateway = account.gateway /\ account'.roles = account.roles
        /\ (account'.table <=> account.table)
    BY <1>1, <1>2
  <2>3. OrdersDeploying'
    BY <1>1, <1>2, <2>1, <2>2 DEF OrdersInv, OrdersDeploying, Armed
  <2>4. OrdersRemoving'
    BY <1>1, <1>2, <2>1, <2>2 DEF OrdersInv, OrdersRemoving, Findable
  <2>5. OneApi'
    BY <2>1, <2>2 DEF OrdersInv, OneApi, Findable
  <2>6. QED
    BY <2>1, <2>2, <2>3, <2>4, <2>5 DEF OrdersInv
<1>3. CASE /\ run.step = "permission"
            /\ account' = [account EXCEPT !.grants["first"] = run.api]
            /\ run' = [run EXCEPT !.step = "gateway role"]
  <2>1. /\ run'.step = "gateway role" /\ run' \in OrdersRun
        /\ run'.api = run.api /\ run'.sentinel = run.sentinel
    BY <1>3, OrdersGoesOn
  <2>2. /\ account' \in Account
        /\ account'.apis = account.apis /\ account'.functions = account.functions
        /\ account'.gateway = account.gateway /\ account'.roles = account.roles
        /\ (account'.table <=> account.table)
    BY <1>1, <1>3, GrantChange DEF Routes
  <2>3. OrdersDeploying'
    BY <1>1, <1>3, <2>1, <2>2 DEF OrdersInv, OrdersDeploying, Armed
  <2>4. OrdersRemoving'
    BY <1>1, <1>3, <2>1, <2>2 DEF OrdersInv, OrdersRemoving, Findable
  <2>5. OneApi'
    BY <2>1, <2>2 DEF OrdersInv, OneApi, Findable
  <2>6. QED
    BY <2>1, <2>2, <2>3, <2>4, <2>5 DEF OrdersInv
<1>4. QED
  BY <1>2, <1>3 DEF Orders!AllowApiGateway, Orders!Call

LEMMA OrdersGatewayChange ==
  ASSUME account \in Account, NEW audience \in Nat, NEW step, NEW next,
         Orders!EnsureGateway(audience, step, next)
  PROVE  /\ account' \in Account /\ account'.gateway.id # 0
         /\ account'.gateway.audience = audience
         /\ account.gateway.id # 0 => account'.gateway.id = account.gateway.id
         /\ account'.roles = account.roles /\ account'.functions = account.functions
         /\ account'.apis = account.apis /\ account'.table = account.table
<1>1. PICK claims \in BOOLEAN, status \in {"READY", "FAILED"} :
        \/ account.gateway.id # 0 /\ account' = WithAuthorizer(audience, claims, status)
        \/ \E g \in FreshGateways :
             account.gateway.id = 0 /\ account' = WithCreatedGateway(g, audience, claims, status)
  BY DEF Orders!EnsureGateway, Orders!Call, Orders!HasGateway, Orders!FreshGateways,
      FreshGateways,
         Orders!WithAuthorizer, WithAuthorizer, Orders!WithCreatedGateway, WithCreatedGateway
<1>2. CASE account.gateway.id # 0 /\ account' = WithAuthorizer(audience, claims, status)
  <2>1. /\ account' \in Account
        /\ account'.gateway = [id |-> account.gateway.id, audience |-> audience,
                               claims |-> claims, status |-> status,
                               target |-> account.gateway.target]
        /\ account'.roles = account.roles /\ account'.functions = account.functions
        /\ account'.apis = account.apis /\ account'.table = account.table
    BY <1>2, AuthorizerChange
  <2>2. account'.gateway.id = account.gateway.id /\ account'.gateway.audience = audience
    BY <2>1
  <2>3. QED
    BY <1>2, <2>1, <2>2
<1>3. CASE \E g \in FreshGateways :
             account.gateway.id = 0 /\ account' = WithCreatedGateway(g, audience, claims, status)
  <2>1. PICK g \in FreshGateways : account' = WithCreatedGateway(g, audience, claims, status)
    BY <1>3
  <2>2. g \in Nat /\ g # 0
    BY AccountAssumption DEF FreshGateways
  <2>3. /\ account' \in Account
        /\ account'.gateway = [id |-> g, audience |-> audience, claims |-> claims,
                               status |-> status, target |-> 0]
        /\ account'.roles = account.roles /\ account'.functions = account.functions
        /\ account'.apis = account.apis /\ account'.table = account.table
    BY <2>1, <2>2, NewGatewayChange
  <2>4. account'.gateway.id = g /\ account'.gateway.audience = audience
    BY <2>3
  <2>5. QED
    BY <1>3, <2>2, <2>3, <2>4
<1>4. QED
  BY <1>1, <1>2, <1>3

LEMMA OrdersGatewaysInv ==
  ASSUME OrdersInv, Orders!Gateways
  PROVE  OrdersInv'
<1> USE DEF OrdersSaving, OrdersReady, OrdersAudience, OrdersGatewayMade, OrdersPermitted,
            OrdersGatewayRole, OrdersStaged, OrdersApi, OrdersInterceptor, OrdersTarget,
            OrdersTable, OrdersNoGatewayRole, OrdersNoInterceptorRole, OrdersNoTargetRole,
            OrdersNoTable, OrdersNoInterceptor, OrdersNoTarget, OrdersNoApi, OrdersNoGateway,
            OrdersRemoval
<1>1. /\ account \in Account /\ run.sentinel \in Nat /\ run.api \in Nat
      /\ "target" \in RoleNames /\ "interceptor" \in RoleNames /\ "gateway" \in RoleNames
      /\ "target" \in FunctionNames /\ "interceptor" \in FunctionNames
      /\ {} \in PolicyValues /\ 0 \in Nat
      /\ account.gateway \in Gateway /\ account.gateway.id \in Nat
  BY Fields DEF OrdersInv, OrdersRun, RoleNames, FunctionNames, PolicyValues, Gateway
<1>2. CASE Orders!EnsureGateway(0, "gateway", "wait gateway")
  <2>1. run.step = "gateway" /\ run' = [run EXCEPT !.step = "wait gateway"]
    BY <1>2 DEF Orders!EnsureGateway, Orders!Call
  <2>2. /\ run'.step = "wait gateway" /\ run' \in OrdersRun
        /\ run'.api = run.api /\ run'.sentinel = run.sentinel
    BY <2>1, OrdersGoesOn
  <2>3. run.step = "authorizer" => account.gateway.id # 0
    BY DEF OrdersInv, OrdersDeploying
  <2>4. /\ account' \in Account /\ account'.gateway.id # 0
        /\ account'.roles = account.roles /\ account'.functions = account.functions
        /\ account'.apis = account.apis /\ (account'.table <=> account.table)
    BY <1>1, <1>2, <2>1, <2>3, OrdersGatewayChange
  <2>5. OrdersDeploying'
    BY <1>1, <2>1, <2>2, <2>4 DEF OrdersInv, OrdersDeploying, Armed
  <2>6. OrdersRemoving'
    BY <2>2 DEF OrdersRemoving
  <2>7. OneApi'
    BY <2>2, <2>4 DEF OrdersInv, OneApi, Findable
  <2>8. QED
    BY <2>2, <2>4, <2>5, <2>6, <2>7 DEF OrdersInv
<1>3. CASE Orders!EnsureGateway(Orders!GatewayAudience, "authorizer", "wait authorizer")
  <2>1. run.step = "authorizer" /\ run' = [run EXCEPT !.step = "wait authorizer"]
    BY <1>3 DEF Orders!EnsureGateway, Orders!Call
  <2>2. /\ run'.step = "wait authorizer" /\ run' \in OrdersRun
        /\ run'.api = run.api /\ run'.sentinel = run.sentinel
    BY <2>1, OrdersGoesOn
  <2>3. run.step = "authorizer" => account.gateway.id # 0
    BY DEF OrdersInv, OrdersDeploying
  <2>4. /\ account' \in Account /\ account'.gateway.id # 0
        /\ account'.gateway.audience = account.gateway.id
        /\ account'.gateway.id = account.gateway.id
        /\ account'.roles = account.roles /\ account'.functions = account.functions
        /\ account'.apis = account.apis /\ (account'.table <=> account.table)
    BY <1>1, <1>3, <2>1, <2>3, OrdersGatewayChange DEF Orders!GatewayAudience
  <2>5. OrdersDeploying'
    BY <1>1, <2>1, <2>2, <2>4 DEF OrdersInv, OrdersDeploying, Armed
  <2>6. OrdersRemoving'
    BY <2>2 DEF OrdersRemoving
  <2>7. OneApi'
    BY <2>2, <2>4 DEF OrdersInv, OneApi, Findable
  <2>8. QED
    BY <2>2, <2>4, <2>5, <2>6, <2>7 DEF OrdersInv
<1>4. QED
  BY <1>2, <1>3 DEF Orders!Gateways

LEMMA OrdersRemoveApiInv ==
  ASSUME OrdersInv, Orders!RemoveApi
  PROVE  OrdersInv'
<1> USE DEF OrdersSaving, OrdersReady, OrdersAudience, OrdersGatewayMade, OrdersPermitted,
            OrdersGatewayRole, OrdersStaged, OrdersApi, OrdersInterceptor, OrdersTarget,
            OrdersTable, OrdersNoGatewayRole, OrdersNoInterceptorRole, OrdersNoTargetRole,
            OrdersNoTable, OrdersNoInterceptor, OrdersNoTarget, OrdersNoApi, OrdersNoGateway,
            OrdersRemoval
<1>1. /\ account \in Account /\ run.sentinel \in Nat /\ run.api \in Nat
      /\ "target" \in RoleNames /\ "interceptor" \in RoleNames /\ "gateway" \in RoleNames
      /\ "target" \in FunctionNames /\ "interceptor" \in FunctionNames
      /\ {} \in PolicyValues /\ 0 \in Nat
      /\ account.gateway \in Gateway /\ account.gateway.id \in Nat
  BY Fields DEF OrdersInv, OrdersRun, RoleNames, FunctionNames, PolicyValues, Gateway
<1>2. /\ run.step = "remove api" /\ run' = [run EXCEPT !.step = "remove functions"]
  BY DEF Orders!RemoveApi, Orders!Call
<1>3. /\ run'.step = "remove functions" /\ run' \in OrdersRun
  BY <1>2, OrdersGoesOn
<1>4. /\ account' \in Account /\ account'.gateway = account.gateway
      /\ \A j \in ApiIDs : ~Findable(j)'
  <2>1. CASE \E i \in Orders!FoundByName :
               account' = [account EXCEPT !.apis[i] = [NoApi EXCEPT !.status = "gone"]]
    <3>1. PICK i \in ApiIDs :
            /\ Findable(i)
            /\ account' = [account EXCEPT !.apis[i] = [NoApi EXCEPT !.status = "gone"]]
      BY <2>1 DEF Orders!FoundByName, Findable
    <3>2. PICK api : api = [NoApi EXCEPT !.status = "gone"]
      OBVIOUS
    <3>3. api \in Api /\ api.status = "gone"
      BY <3>2 DEF NoApi, Api
    <3>4. account' = [account EXCEPT !.apis[i] = api]
      BY <3>1, <3>2
    <3>5. /\ account' \in Account /\ account'.apis[i] = api
          /\ \A j \in ApiIDs : j # i => account'.apis[j] = account.apis[j]
          /\ account'.gateway = account.gateway
      BY <1>1, <3>3, <3>4, ApiChange
    <3>6. \A j \in ApiIDs : j # i => ~Findable(j)
      BY <3>1 DEF OrdersInv, OneApi
    <3>7. QED
      BY <3>3, <3>5, <3>6 DEF Findable
  <2>2. CASE Orders!FoundByName = {} /\ account' = account
    BY <1>1, <2>2 DEF Orders!FoundByName, Findable
  <2>3. QED
    BY <2>1, <2>2 DEF Orders!RemoveApi, Orders!Call, Orders!NoApi, NoApi
<1>5. OrdersDeploying'
  BY <1>3 DEF OrdersDeploying
<1>6. OrdersRemoving'
  BY <1>2, <1>3, <1>4 DEF OrdersInv, OrdersRemoving
<1>7. OneApi'
  BY <1>4 DEF OneApi
<1>8. QED
  BY <1>3, <1>4, <1>5, <1>6, <1>7 DEF OrdersInv

LEMMA OrdersStartInv ==
  ASSUME OrdersInv, Orders!StartDeploy \/ Orders!StartClean
  PROVE  OrdersInv'
<1> USE DEF OrdersSaving, OrdersReady, OrdersAudience, OrdersGatewayMade, OrdersPermitted,
            OrdersGatewayRole, OrdersStaged, OrdersApi, OrdersInterceptor, OrdersTarget,
            OrdersTable, OrdersNoGatewayRole, OrdersNoInterceptorRole, OrdersNoTargetRole,
            OrdersNoTable, OrdersNoInterceptor, OrdersNoTarget, OrdersNoApi, OrdersNoGateway,
            OrdersRemoval
<1>1. account' = account
  BY DEF Orders!StartDeploy, Orders!StartClean, Orders!Start
<1>2. run' \in OrdersRun /\ run'.step \in {"table", "remove target"}
  <2>1. CASE Orders!StartDeploy
    <3>1. run' = [script |-> "deploy", step |-> "table", api |-> 0, claims |-> FALSE,
                  sentinel |-> 0]
      BY <2>1 DEF Orders!StartDeploy, Orders!Start, Orders!Idle
    <3>2. QED
      BY <3>1 DEF OrdersRun
  <2>2. CASE Orders!StartClean
    <3>1. run' = [script |-> "remove", step |-> "remove target", api |-> 0, claims |-> FALSE,
                  sentinel |-> 0]
      BY <2>2 DEF Orders!StartClean, Orders!Start, Orders!Idle
    <3>2. QED
      BY <3>1 DEF OrdersRun
  <2>3. QED
    BY <2>1, <2>2
<1>3. OrdersDeploying' /\ OrdersRemoving'
  BY <1>2 DEF OrdersDeploying, OrdersRemoving
<1>4. OneApi'
  BY <1>1, <1>2 DEF OrdersInv, OneApi, Findable
<1>5. QED
  BY <1>1, <1>2, <1>3, <1>4 DEF OrdersInv

LEMMA OrdersEndInv ==
  ASSUME OrdersInv, Orders!SaveState \/ Orders!FinishClean \/ Orders!Abort
  PROVE  OrdersInv'
<1> USE DEF OrdersSaving, OrdersReady, OrdersAudience, OrdersGatewayMade, OrdersPermitted,
            OrdersGatewayRole, OrdersStaged, OrdersApi, OrdersInterceptor, OrdersTarget,
            OrdersTable, OrdersNoGatewayRole, OrdersNoInterceptorRole, OrdersNoTargetRole,
            OrdersNoTable, OrdersNoInterceptor, OrdersNoTarget, OrdersNoApi, OrdersNoGateway,
            OrdersRemoval
<1>1. account' = account /\ run' = Idle
  BY DEF Orders!SaveState, Orders!FinishClean, Orders!Abort, Orders!Idle, Idle
<1>2. run' \in OrdersRun /\ run'.step = "idle"
  BY <1>1 DEF Idle, OrdersRun
<1>3. OrdersDeploying' /\ OrdersRemoving'
  BY <1>2 DEF OrdersDeploying, OrdersRemoving
<1>4. OneApi'
  BY <1>1, <1>2 DEF OrdersInv, OneApi, Findable
<1>5. QED
  BY <1>1, <1>2, <1>3, <1>4 DEF OrdersInv

LEMMA OrdersNextInv == ASSUME OrdersInv, Orders!Next PROVE OrdersInv'
BY OrdersStartInv, OrdersTableInv, OrdersRolesInv, OrdersFunctionsInv, OrdersApiInv,
   OrdersPermissionInv, OrdersGatewaysInv, OrdersWaitInv, OrdersTargetInv,
   OrdersRemoveGatewayInv, OrdersRemoveApiInv, OrdersRemoveFunctionsInv, OrdersRemoveRolesInv,
   OrdersEndInv
DEF Orders!Next, Orders!Deploy, Orders!Clean

LEMMA OrdersInvariant == Spec => [](recipe = "30" => OrdersInv)
<1>1. Init => (recipe = "30" => OrdersInv)
  BY OrdersInitInv DEF Init
<1>2. (recipe = "30" => OrdersInv) /\ [Next]_<<deployVars, recipe>>
      => (recipe = "30" => OrdersInv)'
  <2> SUFFICES ASSUME recipe = "30" => OrdersInv, [Next]_<<deployVars, recipe>>, recipe' = "30"
               PROVE  OrdersInv'
    OBVIOUS
  <2>1. recipe = "30"
    BY DEF Next
  <2>2. CASE Next
    <3>1. Orders!Next
      BY <2>1, <2>2 DEF Next
    <3>2. QED
      BY <2>1, <3>1, OrdersNextInv
  <2>3. CASE UNCHANGED <<deployVars, recipe>>
    <3>1. account' = account /\ run' = run /\ OrdersInv
      BY <2>1, <2>3 DEF deployVars
    <3>2. OrdersDeploying'
      BY <3>1 DEF OrdersInv, OrdersDeploying, Armed
    <3>3. OrdersRemoving'
      BY <3>1 DEF OrdersInv, OrdersRemoving, Findable
    <3>4. OneApi'
      BY <3>1 DEF OrdersInv, OneApi, Findable
    <3>5. QED
      BY <3>1, <3>2, <3>3, <3>4 DEF OrdersInv
  <2>4. QED
    BY <2>2, <2>3
<1>3. QED
  BY <1>1, <1>2, PTL DEF Spec

(* Recipe 30: a deployment that gets as far as its state file leaves a     *)
(* gateway that is ready for callers with its audience, an API behind it   *)
(* that it may call, the table, and both functions with one secret,        *)
(* whatever runs were broken off before it.                                *)
THEOREM OrdersDeployConnects == Spec => DeployConnects
<1>1. (recipe = "30" => OrdersInv) => (recipe = "30" /\ Orders!SaveState => Orders!Connected)
  <2> SUFFICES ASSUME OrdersInv, Orders!SaveState PROVE Orders!Connected
    OBVIOUS
  <2>1. run.step = "save"
    BY DEF Orders!SaveState
  <2>2. /\ account.gateway.id # 0 /\ account.gateway.status = "READY"
        /\ account.gateway.audience = account.gateway.id
        /\ account.gateway.target = run.api
        /\ account.table /\ Armed("target") /\ Armed("interceptor")
        /\ run.api \in ApiIDs /\ account.apis[run.api].status = "live"
        /\ account.apis[run.api].stage # "none"
        /\ account.roles["gateway"].exists
        /\ account.roles["gateway"].policy = Orders!GatewayPolicy(run.api)
    BY <2>1
    DEF OrdersInv, OrdersDeploying, OrdersTable, OrdersTarget, OrdersInterceptor, OrdersApi,
        OrdersStaged, OrdersGatewayRole, OrdersPermitted, OrdersGatewayMade, OrdersAudience,
        OrdersReady, OrdersSaving
  <2>3. account.roles["gateway"] \in Role
    BY Fields DEF OrdersInv, RoleNames
  <2>4. account.roles["gateway"] = [exists |-> TRUE, policy |-> Orders!GatewayPolicy(run.api)]
    BY <2>2, <2>3 DEF Role
  <2>5. \A f \in Orders!FunctionNames : account.functions[f].exists
    BY <2>2 DEF Armed, Orders!FunctionNames
  <2>6. account.functions["target"].env = account.functions["interceptor"].env
    BY <2>2 DEF Armed
  <2>7. QED
    BY <2>2, <2>4, <2>5, <2>6 DEF Orders!Connected
<1>2. QED
  BY <1>1, OrdersInvariant, PTL DEF DeployConnects

(* Recipe 30: a removal that completes leaves at most a gateway whose      *)
(* target was slow to go, whatever was broken off before it.               *)
THEOREM OrdersCleanRemoves == Spec => CleanRemoves
<1>1. (recipe = "30" => OrdersInv) => (recipe = "30" /\ Orders!FinishClean => Orders!Removed)
  <2> SUFFICES ASSUME OrdersInv, Orders!FinishClean PROVE Orders!Removed
    OBVIOUS
  <2>1. run.step = "remove files"
    BY DEF Orders!FinishClean
  <2>2. /\ account.gateway.id # 0 => account.gateway.target # 0
        /\ \A i \in ApiIDs : ~Findable(i)
        /\ ~account.functions["target"].exists /\ ~account.functions["interceptor"].exists
        /\ ~account.table /\ ~account.roles["target"].exists
        /\ ~account.roles["interceptor"].exists /\ ~account.roles["gateway"].exists
    BY <2>1
    DEF OrdersInv, OrdersRemoving, OrdersNoGateway, OrdersNoApi, OrdersNoTarget,
        OrdersNoInterceptor, OrdersNoTable, OrdersNoTargetRole, OrdersNoInterceptorRole,
        OrdersNoGatewayRole
  <2>3. QED
    BY <2>2
    DEF Orders!Removed, Orders!FunctionNames, Orders!RoleNames, Orders!FoundByName,
        Orders!HasGateway, Findable
<1>2. QED
  BY <1>1, OrdersInvariant, PTL DEF CleanRemoves

-----------------------------------------------------------------------------
(* Recipe 07, redeployments.  What a run may count on, by its steps, is as  *)
(* above.  Besides, as long as what the state file names is there, all of  *)
(* the path is, and a run works on nothing else: the API it found is the   *)
(* one of the file, and a gateway made anew has another id.                *)

ImageTargeted    == {"wait target", "save"}
ImageExpected    == {"target"} \cup ImageTargeted
ImageAudience    == {"wait authorizer", "interceptor audience"} \cup ImageExpected
ImageGatewayMade == {"wait gateway", "authorizer"} \cup ImageAudience
ImagePermitted   == {"gateway"} \cup ImageGatewayMade
ImageFirst       == {"permit second"} \cup ImagePermitted
ImageRestricted  == {"permit first"} \cup ImageFirst
ImageRestriction == {"deploy restriction"} \cup ImageRestricted
ImageGatewayRole == {"restrict api"} \cup ImageRestriction
ImageTargetMade  == {"interceptor function", "find api", "import api"} \cup ApiSteps \cup LateSteps

ImageDeploying ==
  /\ run.step \in ImageTargetMade => account.functions["target"].exists
  /\ run.step \notin EarlySteps => account.apis[run.api].status = "live"
  /\ run.step \in {"gateway policy first", "gateway policy"} => account.roles["gateway"].exists
  /\ run.step \in ImageGatewayRole =>
       account.roles["gateway"].policy = Image!GatewayPolicy(run.api)
  /\ run.step \in ImageRestriction => account.apis[run.api].policy
  /\ run.step \in ImageRestricted => account.apis[run.api].stage = "restricted"
  /\ run.step \in ImageFirst => account.grants["first"] = run.api
  /\ run.step \in ImagePermitted => account.grants["second"] = run.api
  /\ run.step \in ImageGatewayMade => account.gateway.id # 0
  /\ run.step \in ImageAudience => account.gateway.audience = account.gateway.id
  /\ run.step \in ImageExpected =>
       account.functions["interceptor"] = [exists |-> TRUE, env |-> account.gateway.id]
  /\ run.step \in ImageTargeted => account.gateway.target = run.api

(* The gateway's role never gets another policy. *)
GatewayRoleShape ==
  \/ account.roles["gateway"].policy = {}
  \/ /\ account.roles["gateway"].exists
     /\ \E i \in Nat : account.roles["gateway"].policy = Image!GatewayPolicy(i)

(* Ids are not used again. *)
IdsCounted ==
  /\ account.gateway.id <= account.gatewaysMade /\ file.gateway <= account.gatewaysMade
  /\ file.api # 0 => account.apis[file.api].status # "unused"

FileMatches == file.api # 0 => file.gateway # 0 /\ file.audience = file.gateway

(* The path, but for the status of the gateway. *)
PathOf(i) ==
  /\ account.gateway.audience = account.gateway.id /\ account.gateway.target = i
  /\ account.functions["target"].exists
  /\ account.functions["interceptor"] = [exists |-> TRUE, env |-> account.gateway.id]
  /\ account.apis[i].policy /\ account.apis[i].stage = "restricted"
  /\ account.roles["gateway"].exists
  /\ account.roles["gateway"].policy = Image!GatewayPolicy(i)
  /\ account.grants["first"] = i /\ account.grants["second"] = i

InstalledKept ==
  Image!Installed =>
    /\ PathOf(file.api)
    /\ run.step \notin EarlySteps => run.api = file.api
    /\ run.step # "import api"

ServingInv ==
  ImageDeploying /\ GatewayRoleShape /\ IdsCounted /\ FileMatches /\ InstalledKept

LEMMA ServingInit == AccountInit => ServingInv
<1> SUFFICES ASSUME AccountInit PROVE ServingInv
  OBVIOUS
<1> USE DEF ImageSteps, EarlySteps, ApiSteps, LateSteps, ImageTargeted, ImageExpected,
            ImageAudience, ImageGatewayMade, ImagePermitted, ImageFirst, ImageRestricted,
            ImageRestriction, ImageGatewayRole, ImageTargetMade
<1>1. run.step = "idle" /\ file.api = 0 /\ file.gateway = 0
  BY DEF AccountInit, Idle, NoFile
<1>2. /\ account.roles["gateway"].policy = {} /\ account.gateway.id = 0
      /\ account.gatewaysMade = 0
  BY DEF AccountInit, EmptyAccount, RoleNames, NoRole, NoGateway
<1>3. QED
  BY <1>1, <1>2
  DEF ServingInv, ImageDeploying, GatewayRoleShape, IdsCounted, FileMatches, InstalledKept,
      Image!Installed

LEMMA ImageGoesOn ==
  ASSUME ImageInv, NEW next \in ImageSteps, run' = [run EXCEPT !.step = next]
  PROVE  run'.step = next /\ run'.api = run.api
<1>1. run \in ImageRun
  BY DEF ImageInv, Typed
<1>2. QED
  BY <1>1 DEF ImageRun

LEMMA ServingRoles ==
  ASSUME ImageInv, ServingInv, Image!Roles
  PROVE  ServingInv'
<1> USE DEF ImageSteps, EarlySteps, ApiSteps, LateSteps, ImageTargeted, ImageExpected,
            ImageAudience, ImageGatewayMade, ImagePermitted, ImageFirst, ImageRestricted,
            ImageRestriction, ImageGatewayRole, ImageTargetMade
<1>1. /\ account \in Account /\ run \in ImageRun /\ run.api \in Nat /\ file.audience \in Nat
      /\ "target" \in RoleNames /\ "interceptor" \in RoleNames /\ "gateway" \in RoleNames
      /\ "target" \in FunctionNames /\ "interceptor" \in FunctionNames
      /\ "first" \in Routes /\ "second" \in Routes /\ 0 \in Nat
      /\ account.gateway \in Gateway /\ account.gateway.id \in Nat
      /\ account.gatewaysMade \in Nat
  BY AccountFields DEF ImageInv, RoleNames, FunctionNames, Routes, Gateway
<1>2. {<<"logs", 0>>} \in PolicyValues
  BY DEF PolicyValues
<1>3. CASE /\ run.step = "target role" /\ account' = WithRole("target")
            /\ run' = [run EXCEPT !.step = "target policy"] /\ file' = file
  <2>1. run'.step = "target policy" /\ run'.api = run.api
    BY <1>3, ImageGoesOn
  <2>2. /\ account' \in Account
        /\ account'.roles["gateway"] = account.roles["gateway"]
        /\ account'.functions = account.functions /\ account'.apis = account.apis
        /\ account'.grants = account.grants /\ account'.gateway = account.gateway
        /\ account'.gatewaysMade = account.gatewaysMade
    BY <1>1, <1>3, WithRoleChange
  <2>3. ImageDeploying'
    BY <1>1, <1>3, <2>1, <2>2 DEF ServingInv, ImageDeploying
  <2>4. GatewayRoleShape' /\ IdsCounted' /\ FileMatches'
    BY <1>1, <1>3, <2>1, <2>2 DEF ServingInv, GatewayRoleShape, IdsCounted, FileMatches
  <2>5. InstalledKept'
    BY <1>1, <1>3, <2>1, <2>2
    DEF ServingInv, InstalledKept, FileMatches, PathOf, Image!Installed
  <2>6. QED
    BY <2>3, <2>4, <2>5 DEF ServingInv
<1>4. CASE /\ run.step = "target policy" /\ account' = WithPolicy("target", {<<"logs", 0>>})
            /\ run' = [run EXCEPT !.step = "interceptor role"] /\ file' = file
  <2>1. run'.step = "interceptor role" /\ run'.api = run.api
    BY <1>4, ImageGoesOn
  <2>2. /\ account' \in Account
        /\ account'.roles["gateway"] = account.roles["gateway"]
        /\ account'.functions = account.functions /\ account'.apis = account.apis
        /\ account'.grants = account.grants /\ account'.gateway = account.gateway
        /\ account'.gatewaysMade = account.gatewaysMade
    BY <1>1, <1>4, <1>2, WithPolicyChange
  <2>3. ImageDeploying'
    BY <1>1, <1>4, <2>1, <2>2 DEF ServingInv, ImageDeploying
  <2>4. GatewayRoleShape' /\ IdsCounted' /\ FileMatches'
    BY <1>1, <1>4, <2>1, <2>2 DEF ServingInv, GatewayRoleShape, IdsCounted, FileMatches
  <2>5. InstalledKept'
    BY <1>1, <1>4, <2>1, <2>2
    DEF ServingInv, InstalledKept, FileMatches, PathOf, Image!Installed
  <2>6. QED
    BY <2>3, <2>4, <2>5 DEF ServingInv
<1>5. CASE /\ run.step = "interceptor role" /\ account' = WithRole("interceptor")
            /\ run' = [run EXCEPT !.step = "interceptor policy"] /\ file' = file
  <2>1. run'.step = "interceptor policy" /\ run'.api = run.api
    BY <1>5, ImageGoesOn
  <2>2. /\ account' \in Account
        /\ account'.roles["gateway"] = account.roles["gateway"]
        /\ account'.functions = account.functions /\ account'.apis = account.apis
        /\ account'.grants = account.grants /\ account'.gateway = account.gateway
        /\ account'.gatewaysMade = account.gatewaysMade
    BY <1>1, <1>5, WithRoleChange
  <2>3. ImageDeploying'
    BY <1>1, <1>5, <2>1, <2>2 DEF ServingInv, ImageDeploying
  <2>4. GatewayRoleShape' /\ IdsCounted' /\ FileMatches'
    BY <1>1, <1>5, <2>1, <2>2 DEF ServingInv, GatewayRoleShape, IdsCounted, FileMatches
  <2>5. InstalledKept'
    BY <1>1, <1>5, <2>1, <2>2
    DEF ServingInv, InstalledKept, FileMatches, PathOf, Image!Installed
  <2>6. QED
    BY <2>3, <2>4, <2>5 DEF ServingInv
<1>6. CASE /\ run.step = "interceptor policy"
            /\ account' = WithPolicy("interceptor", {<<"logs", 0>>})
            /\ run' = [run EXCEPT !.step = "target function"] /\ file' = file
  <2>1. run'.step = "target function" /\ run'.api = run.api
    BY <1>6, ImageGoesOn
  <2>2. /\ account' \in Account
        /\ account'.roles["gateway"] = account.roles["gateway"]
        /\ account'.functions = account.functions /\ account'.apis = account.apis
        /\ account'.grants = account.grants /\ account'.gateway = account.gateway
        /\ account'.gatewaysMade = account.gatewaysMade
    BY <1>1, <1>6, <1>2, WithPolicyChange
  <2>3. ImageDeploying'
    BY <1>1, <1>6, <2>1, <2>2 DEF ServingInv, ImageDeploying
  <2>4. GatewayRoleShape' /\ IdsCounted' /\ FileMatches'
    BY <1>1, <1>6, <2>1, <2>2 DEF ServingInv, GatewayRoleShape, IdsCounted, FileMatches
  <2>5. InstalledKept'
    BY <1>1, <1>6, <2>1, <2>2
    DEF ServingInv, InstalledKept, FileMatches, PathOf, Image!Installed
  <2>6. QED
    BY <2>3, <2>4, <2>5 DEF ServingInv
<1>7. QED
  BY <1>3, <1>4, <1>5, <1>6
  DEF Image!Roles, Image!CreateRole, Image!PutRolePolicy, Image!Policies, Image!Call,
      Image!WithRole, WithRole, Image!WithPolicy, WithPolicy

LEMMA ServingBucket ==
  ASSUME ImageInv, ServingInv, Image!CreateBucket \/ Image!BlockPublicAccess
  PROVE  ServingInv'
<1> USE DEF ImageSteps, EarlySteps, ApiSteps, LateSteps, ImageTargeted, ImageExpected,
            ImageAudience, ImageGatewayMade, ImagePermitted, ImageFirst, ImageRestricted,
            ImageRestriction, ImageGatewayRole, ImageTargetMade
<1>1. /\ account \in Account /\ run \in ImageRun /\ run.api \in Nat /\ file.audience \in Nat
      /\ "target" \in RoleNames /\ "interceptor" \in RoleNames /\ "gateway" \in RoleNames
      /\ "target" \in FunctionNames /\ "interceptor" \in FunctionNames
      /\ "first" \in Routes /\ "second" \in Routes /\ 0 \in Nat
      /\ account.gateway \in Gateway /\ account.gateway.id \in Nat
      /\ account.gatewaysMade \in Nat
  BY AccountFields DEF ImageInv, RoleNames, FunctionNames, Routes, Gateway
<1>2. CASE /\ run.step = "bucket" /\ \E bucket \in {"none", "open", "private"} :
                 account' = [account EXCEPT !.bucket = bucket]
            /\ run' = [run EXCEPT !.step = "block public access"] /\ file' = file
  <2>1. run'.step = "block public access" /\ run'.api = run.api
    BY <1>2, ImageGoesOn
  <2>2. /\ account' \in Account
        /\ account'.roles = account.roles /\ account'.functions = account.functions
        /\ account'.apis = account.apis /\ account'.grants = account.grants
        /\ account'.gateway = account.gateway
        /\ account'.gatewaysMade = account.gatewaysMade
    BY <1>1, <1>2, BucketChange
  <2>3. ImageDeploying'
    BY <1>1, <1>2, <2>1, <2>2 DEF ServingInv, ImageDeploying
  <2>4. GatewayRoleShape' /\ IdsCounted' /\ FileMatches'
    BY <1>1, <1>2, <2>1, <2>2, ZenonT(30) DEF ServingInv, GatewayRoleShape, IdsCounted, FileMatches
  <2>5. InstalledKept'
    BY <1>1, <1>2, <2>1, <2>2, ZenonT(30)
    DEF ServingInv, InstalledKept, FileMatches, PathOf, Image!Installed
  <2>6. QED
    BY <2>3, <2>4, <2>5 DEF ServingInv
<1>3. CASE /\ run.step = "block public access" /\ \E bucket \in {"none", "open", "private"} :
                 account' = [account EXCEPT !.bucket = bucket]
            /\ run' = [run EXCEPT !.step = "target role"] /\ file' = file
  <2>1. run'.step = "target role" /\ run'.api = run.api
    BY <1>3, ImageGoesOn
  <2>2. /\ account' \in Account
        /\ account'.roles = account.roles /\ account'.functions = account.functions
        /\ account'.apis = account.apis /\ account'.grants = account.grants
        /\ account'.gateway = account.gateway
        /\ account'.gatewaysMade = account.gatewaysMade
    BY <1>1, <1>3, BucketChange
  <2>3. ImageDeploying'
    BY <1>1, <1>3, <2>1, <2>2 DEF ServingInv, ImageDeploying
  <2>4. GatewayRoleShape' /\ IdsCounted' /\ FileMatches'
    BY <1>1, <1>3, <2>1, <2>2, ZenonT(30) DEF ServingInv, GatewayRoleShape, IdsCounted, FileMatches
  <2>5. InstalledKept'
    BY <1>1, <1>3, <2>1, <2>2, ZenonT(30)
    DEF ServingInv, InstalledKept, FileMatches, PathOf, Image!Installed
  <2>6. QED
    BY <2>3, <2>4, <2>5 DEF ServingInv
<1>4. account.bucket \in {"none", "open", "private"}
  BY <1>1 DEF Account
<1>5. QED
  BY <1>2, <1>3, <1>4 DEF Image!CreateBucket, Image!BlockPublicAccess, Image!Call

LEMMA ServingFunctions ==
  ASSUME ImageInv, ServingInv, 
         Image!TargetFunction \/ Image!InterceptorFunction \/ Image!UpdateInterceptorAudience
  PROVE  ServingInv'
<1> USE DEF ImageSteps, EarlySteps, ApiSteps, LateSteps, ImageTargeted, ImageExpected,
            ImageAudience, ImageGatewayMade, ImagePermitted, ImageFirst, ImageRestricted,
            ImageRestriction, ImageGatewayRole, ImageTargetMade
<1>1. /\ account \in Account /\ run \in ImageRun /\ run.api \in Nat /\ file.audience \in Nat
      /\ "target" \in RoleNames /\ "interceptor" \in RoleNames /\ "gateway" \in RoleNames
      /\ "target" \in FunctionNames /\ "interceptor" \in FunctionNames
      /\ "first" \in Routes /\ "second" \in Routes /\ 0 \in Nat
      /\ account.gateway \in Gateway /\ account.gateway.id \in Nat
      /\ account.gatewaysMade \in Nat
  BY AccountFields DEF ImageInv, RoleNames, FunctionNames, Routes, Gateway
<1>2. CASE /\ run.step = "target function" /\ account' = WithFunction("target", 0)
            /\ run' = [run EXCEPT !.step = "interceptor function"] /\ file' = file
  <2>1. /\ account' \in Account
        /\ account'.functions["target"] = [exists |-> TRUE, env |-> 0]
        /\ \A g \in FunctionNames : g # "target" =>
             account'.functions[g] = account.functions[g]
        /\ account'.roles = account.roles /\ account'.apis = account.apis
        /\ account'.grants = account.grants /\ account'.gateway = account.gateway
        /\ account'.gatewaysMade = account.gatewaysMade
    BY <1>1, <1>2, WithFunctionChange
  <2>2. run'.step = "interceptor function" /\ run'.api = run.api
    BY <1>2, ImageGoesOn
  <2>3. /\ account' \in Account
        /\ account'.functions["target"] = [exists |-> TRUE, env |-> 0]
        /\ account'.functions["target"].exists
        /\ account'.functions["interceptor"] = account.functions["interceptor"]
        /\ account'.roles = account.roles /\ account'.apis = account.apis
        /\ account'.grants = account.grants /\ account'.gateway = account.gateway
        /\ account'.gatewaysMade = account.gatewaysMade
    BY <1>1, <2>1
  <2>4. ImageDeploying'
    BY <1>1, <1>2, <2>2, <2>3 DEF ServingInv, ImageDeploying
  <2>5. GatewayRoleShape' /\ IdsCounted' /\ FileMatches'
    BY <1>1, <1>2, <2>2, <2>3 DEF ServingInv, GatewayRoleShape, IdsCounted, FileMatches
  <2>6. InstalledKept'
    BY <1>1, <1>2, <2>2, <2>3, ZenonT(30)
    DEF ServingInv, InstalledKept, FileMatches, PathOf, Image!Installed
  <2>7. QED
    BY <2>4, <2>5, <2>6 DEF ServingInv
<1>3. CASE /\ run.step = "interceptor function"
            /\ account' = WithFunction("interceptor", file.audience)
            /\ run' = [run EXCEPT !.step = "find api"] /\ file' = file
  <2>1. /\ account' \in Account
        /\ account'.functions["interceptor"] = [exists |-> TRUE, env |-> file.audience]
        /\ \A g \in FunctionNames : g # "interceptor" =>
             account'.functions[g] = account.functions[g]
        /\ account'.roles = account.roles /\ account'.apis = account.apis
        /\ account'.grants = account.grants /\ account'.gateway = account.gateway
        /\ account'.gatewaysMade = account.gatewaysMade
    BY <1>1, <1>3, WithFunctionChange
  <2>2. run'.step = "find api" /\ run'.api = run.api
    BY <1>3, ImageGoesOn
  <2>3. /\ account' \in Account
        /\ account'.functions["interceptor"] = [exists |-> TRUE, env |-> file.audience]
        /\ account'.functions["interceptor"].exists
        /\ account'.functions["target"] = account.functions["target"]
        /\ account'.roles = account.roles /\ account'.apis = account.apis
        /\ account'.grants = account.grants /\ account'.gateway = account.gateway
        /\ account'.gatewaysMade = account.gatewaysMade
    BY <1>1, <2>1
  <2>4. ImageDeploying'
    BY <1>1, <1>3, <2>2, <2>3 DEF ServingInv, ImageDeploying
  <2>5. GatewayRoleShape' /\ IdsCounted' /\ FileMatches'
    BY <1>1, <1>3, <2>2, <2>3 DEF ServingInv, GatewayRoleShape, IdsCounted, FileMatches
  <2>6. InstalledKept'
    <3>1. Image!Installed => file.audience = account.gateway.id
      BY DEF ServingInv, FileMatches, Image!Installed
    <3>2. Image!Installed =>
            account'.functions["interceptor"] = [exists |-> TRUE, env |-> account.gateway.id]
      BY <2>3, <3>1
    <3>3. QED
      BY <1>1, <1>3, <2>2, <2>3, <3>2 DEF ServingInv, InstalledKept, PathOf, Image!Installed
  <2>7. QED
    BY <2>4, <2>5, <2>6 DEF ServingInv
<1>4. CASE /\ run.step = "interceptor audience"
            /\ account' = WithFunction("interceptor", account.gateway.id)
            /\ run' = [run EXCEPT !.step = "target"] /\ file' = file
  <2>1. /\ account' \in Account
        /\ account'.functions["interceptor"] = [exists |-> TRUE, env |-> account.gateway.id]
        /\ \A g \in FunctionNames : g # "interceptor" =>
             account'.functions[g] = account.functions[g]
        /\ account'.roles = account.roles /\ account'.apis = account.apis
        /\ account'.grants = account.grants /\ account'.gateway = account.gateway
        /\ account'.gatewaysMade = account.gatewaysMade
    BY <1>1, <1>4, WithFunctionChange
  <2>2. run'.step = "target" /\ run'.api = run.api
    BY <1>4, ImageGoesOn
  <2>3. /\ account' \in Account
        /\ account'.functions["interceptor"] = [exists |-> TRUE, env |-> account.gateway.id]
        /\ account'.functions["interceptor"].exists
        /\ account'.functions["target"] = account.functions["target"]
        /\ account'.roles = account.roles /\ account'.apis = account.apis
        /\ account'.grants = account.grants /\ account'.gateway = account.gateway
        /\ account'.gatewaysMade = account.gatewaysMade
    BY <1>1, <2>1
  <2>4. ImageDeploying'
    BY <1>1, <1>4, <2>2, <2>3 DEF ServingInv, ImageDeploying
  <2>5. GatewayRoleShape' /\ IdsCounted' /\ FileMatches'
    BY <1>1, <1>4, <2>2, <2>3 DEF ServingInv, GatewayRoleShape, IdsCounted, FileMatches
  <2>6. InstalledKept'
    BY <1>1, <1>4, <2>2, <2>3, ZenonT(30)
    DEF ServingInv, InstalledKept, FileMatches, PathOf, Image!Installed
  <2>7. QED
    BY <2>4, <2>5, <2>6 DEF ServingInv
<1>5. QED
  BY <1>2, <1>3, <1>4
  DEF Image!TargetFunction, Image!InterceptorFunction, Image!UpdateInterceptorAudience,
      Image!KnownAudience, Image!VerifiedAudience, Image!Call, Image!WithFunction, WithFunction

LEMMA ServingGatewayRole ==
  ASSUME ImageInv, ServingInv, Image!GatewayRoleFirst \/ Image!GatewayRole
  PROVE  ServingInv'
<1> USE DEF ImageSteps, EarlySteps, ApiSteps, LateSteps, ImageTargeted, ImageExpected,
            ImageAudience, ImageGatewayMade, ImagePermitted, ImageFirst, ImageRestricted,
            ImageRestriction, ImageGatewayRole, ImageTargetMade
<1>1. /\ account \in Account /\ run \in ImageRun /\ run.api \in Nat /\ file.audience \in Nat
      /\ "target" \in RoleNames /\ "interceptor" \in RoleNames /\ "gateway" \in RoleNames
      /\ "target" \in FunctionNames /\ "interceptor" \in FunctionNames
      /\ "first" \in Routes /\ "second" \in Routes /\ 0 \in Nat
      /\ account.gateway \in Gateway /\ account.gateway.id \in Nat
      /\ account.gatewaysMade \in Nat
  BY AccountFields DEF ImageInv, RoleNames, FunctionNames, Routes, Gateway
<1>2. Image!GatewayPolicy(run.api) \in PolicyValues
  BY <1>1 DEF PolicyValues, Image!GatewayPolicy
<1>3. CASE /\ run.step = "gateway role first" /\ account' = WithRole("gateway")
            /\ run' = [run EXCEPT !.step = "gateway policy first"] /\ file' = file
  <2>1. run'.step = "gateway policy first" /\ run'.api = run.api
    BY <1>3, ImageGoesOn
  <2>2. /\ account' \in Account
        /\ account'.roles["gateway"].exists
        /\ account'.roles["gateway"].policy = account.roles["gateway"].policy
        /\ account'.functions = account.functions /\ account'.apis = account.apis
        /\ account'.grants = account.grants /\ account'.gateway = account.gateway
        /\ account'.gatewaysMade = account.gatewaysMade
    BY <1>1, <1>3, WithRoleChange
  <2>3. ImageDeploying'
    BY <1>1, <1>3, <2>1, <2>2 DEF ServingInv, ImageDeploying
  <2>4. GatewayRoleShape' /\ IdsCounted' /\ FileMatches'
    BY <1>1, <1>3, <2>1, <2>2 DEF ServingInv, GatewayRoleShape, IdsCounted, FileMatches
  <2>5. InstalledKept'
    BY <1>1, <1>3, <2>1, <2>2, ZenonT(30)
    DEF ServingInv, InstalledKept, FileMatches, PathOf, Image!Installed
  <2>6. QED
    BY <2>3, <2>4, <2>5 DEF ServingInv
<1>4. CASE /\ run.step = "gateway policy first"
            /\ account' = WithPolicy("gateway", Image!GatewayPolicy(run.api))
            /\ run' = [run EXCEPT !.step = "overwrite api"] /\ file' = file
  <2>1. run'.step = "overwrite api" /\ run'.api = run.api
    BY <1>4, ImageGoesOn
  <2>2. /\ account' \in Account
        /\ (account'.roles["gateway"].exists <=> account.roles["gateway"].exists)
        /\ account'.roles["gateway"].policy = Image!GatewayPolicy(run.api)
        /\ account'.functions = account.functions /\ account'.apis = account.apis
        /\ account'.grants = account.grants /\ account'.gateway = account.gateway
        /\ account'.gatewaysMade = account.gatewaysMade
    BY <1>1, <1>4, <1>2, WithPolicyChange
  <2>3. ImageDeploying'
    BY <1>1, <1>4, <2>1, <2>2 DEF ServingInv, ImageDeploying
  <2>4. GatewayRoleShape' /\ IdsCounted' /\ FileMatches'
    <3>1. account'.roles["gateway"].exists
      BY <1>4, <2>2 DEF ServingInv, ImageDeploying
    <3>2. GatewayRoleShape'
      BY <1>1, <2>2, <3>1 DEF GatewayRoleShape
    <3>3. QED
      BY <1>4, <2>2, <3>2 DEF ServingInv, IdsCounted, FileMatches
  <2>5. InstalledKept'
    BY <1>1, <1>4, <2>1, <2>2
    DEF ServingInv, InstalledKept, FileMatches, PathOf, Image!Installed
  <2>6. QED
    BY <2>3, <2>4, <2>5 DEF ServingInv
<1>5. CASE /\ run.step = "gateway role" /\ account' = WithRole("gateway")
            /\ run' = [run EXCEPT !.step = "gateway policy"] /\ file' = file
  <2>1. run'.step = "gateway policy" /\ run'.api = run.api
    BY <1>5, ImageGoesOn
  <2>2. /\ account' \in Account
        /\ account'.roles["gateway"].exists
        /\ account'.roles["gateway"].policy = account.roles["gateway"].policy
        /\ account'.functions = account.functions /\ account'.apis = account.apis
        /\ account'.grants = account.grants /\ account'.gateway = account.gateway
        /\ account'.gatewaysMade = account.gatewaysMade
    BY <1>1, <1>5, WithRoleChange
  <2>3. ImageDeploying'
    BY <1>1, <1>5, <2>1, <2>2 DEF ServingInv, ImageDeploying
  <2>4. GatewayRoleShape' /\ IdsCounted' /\ FileMatches'
    BY <1>1, <1>5, <2>1, <2>2 DEF ServingInv, GatewayRoleShape, IdsCounted, FileMatches
  <2>5. InstalledKept'
    BY <1>1, <1>5, <2>1, <2>2
    DEF ServingInv, InstalledKept, FileMatches, PathOf, Image!Installed
  <2>6. QED
    BY <2>3, <2>4, <2>5 DEF ServingInv
<1>6. CASE /\ run.step = "gateway policy"
            /\ account' = WithPolicy("gateway", Image!GatewayPolicy(run.api))
            /\ run' = [run EXCEPT !.step = "restrict api"] /\ file' = file
  <2>1. run'.step = "restrict api" /\ run'.api = run.api
    BY <1>6, ImageGoesOn
  <2>2. /\ account' \in Account
        /\ (account'.roles["gateway"].exists <=> account.roles["gateway"].exists)
        /\ account'.roles["gateway"].policy = Image!GatewayPolicy(run.api)
        /\ account'.functions = account.functions /\ account'.apis = account.apis
        /\ account'.grants = account.grants /\ account'.gateway = account.gateway
        /\ account'.gatewaysMade = account.gatewaysMade
    BY <1>1, <1>6, <1>2, WithPolicyChange
  <2>3. ImageDeploying'
    BY <1>1, <1>6, <2>1, <2>2 DEF ServingInv, ImageDeploying
  <2>4. GatewayRoleShape' /\ IdsCounted' /\ FileMatches'
    <3>1. account'.roles["gateway"].exists
      BY <1>6, <2>2 DEF ServingInv, ImageDeploying
    <3>2. GatewayRoleShape'
      BY <1>1, <2>2, <3>1 DEF GatewayRoleShape
    <3>3. QED
      BY <1>6, <2>2, <3>2 DEF ServingInv, IdsCounted, FileMatches
  <2>5. InstalledKept'
    BY <1>1, <1>6, <2>1, <2>2
    DEF ServingInv, InstalledKept, FileMatches, PathOf, Image!Installed
  <2>6. QED
    BY <2>3, <2>4, <2>5 DEF ServingInv
<1>7. QED
  BY <1>3, <1>4, <1>5, <1>6
  DEF Image!GatewayRoleFirst, Image!GatewayRole, Image!Call,
      Image!WithRole, WithRole, Image!WithPolicy, WithPolicy

LEMMA ServingWait ==
  ASSUME ImageInv, ServingInv, Image!WaitGateways \/ Image!WaitTarget
  PROVE  ServingInv'
<1> USE DEF ImageSteps, EarlySteps, ApiSteps, LateSteps, ImageTargeted, ImageExpected,
            ImageAudience, ImageGatewayMade, ImagePermitted, ImageFirst, ImageRestricted,
            ImageRestriction, ImageGatewayRole, ImageTargetMade
<1>1. /\ account \in Account /\ run \in ImageRun /\ run.api \in Nat /\ file.audience \in Nat
      /\ "target" \in RoleNames /\ "interceptor" \in RoleNames /\ "gateway" \in RoleNames
      /\ "target" \in FunctionNames /\ "interceptor" \in FunctionNames
      /\ "first" \in Routes /\ "second" \in Routes /\ 0 \in Nat
      /\ account.gateway \in Gateway /\ account.gateway.id \in Nat
      /\ account.gatewaysMade \in Nat
  BY AccountFields DEF ImageInv, RoleNames, FunctionNames, Routes, Gateway
<1>2. CASE /\ run.step = "wait gateway" /\ account' = account
            /\ run' = [run EXCEPT !.step = "authorizer"] /\ file' = file
  <2>1. run'.step = "authorizer" /\ run'.api = run.api
    BY <1>2, ImageGoesOn
  <2>2. /\ account' \in Account
        /\ account'.roles = account.roles /\ account'.functions = account.functions
        /\ account'.apis = account.apis /\ account'.grants = account.grants
        /\ account'.gateway = account.gateway
        /\ account'.gatewaysMade = account.gatewaysMade
    BY <1>1, <1>2
  <2>3. ImageDeploying'
    BY <1>1, <1>2, <2>1, <2>2 DEF ServingInv, ImageDeploying
  <2>4. GatewayRoleShape' /\ IdsCounted' /\ FileMatches'
    BY <1>1, <1>2, <2>1, <2>2 DEF ServingInv, GatewayRoleShape, IdsCounted, FileMatches
  <2>5. InstalledKept'
    BY <1>1, <1>2, <2>1, <2>2
    DEF ServingInv, InstalledKept, FileMatches, PathOf, Image!Installed
  <2>6. QED
    BY <2>3, <2>4, <2>5 DEF ServingInv
<1>3. CASE /\ run.step = "wait authorizer" /\ account' = account
            /\ run' = [run EXCEPT !.step = "interceptor audience"] /\ file' = file
  <2>1. run'.step = "interceptor audience" /\ run'.api = run.api
    BY <1>3, ImageGoesOn
  <2>2. /\ account' \in Account
        /\ account'.roles = account.roles /\ account'.functions = account.functions
        /\ account'.apis = account.apis /\ account'.grants = account.grants
        /\ account'.gateway = account.gateway
        /\ account'.gatewaysMade = account.gatewaysMade
    BY <1>1, <1>3
  <2>3. ImageDeploying'
    BY <1>1, <1>3, <2>1, <2>2 DEF ServingInv, ImageDeploying
  <2>4. GatewayRoleShape' /\ IdsCounted' /\ FileMatches'
    BY <1>1, <1>3, <2>1, <2>2 DEF ServingInv, GatewayRoleShape, IdsCounted, FileMatches
  <2>5. InstalledKept'
    BY <1>1, <1>3, <2>1, <2>2
    DEF ServingInv, InstalledKept, FileMatches, PathOf, Image!Installed
  <2>6. QED
    BY <2>3, <2>4, <2>5 DEF ServingInv
<1>4. CASE /\ run.step = "wait target" /\ account' = account
            /\ run' = [run EXCEPT !.step = "save"] /\ file' = file
  <2>1. run'.step = "save" /\ run'.api = run.api
    BY <1>4, ImageGoesOn
  <2>2. /\ account' \in Account
        /\ account'.roles = account.roles /\ account'.functions = account.functions
        /\ account'.apis = account.apis /\ account'.grants = account.grants
        /\ account'.gateway = account.gateway
        /\ account'.gatewaysMade = account.gatewaysMade
    BY <1>1, <1>4
  <2>3. ImageDeploying'
    BY <1>1, <1>4, <2>1, <2>2 DEF ServingInv, ImageDeploying
  <2>4. GatewayRoleShape' /\ IdsCounted' /\ FileMatches'
    BY <1>1, <1>4, <2>1, <2>2 DEF ServingInv, GatewayRoleShape, IdsCounted, FileMatches
  <2>5. InstalledKept'
    BY <1>1, <1>4, <2>1, <2>2
    DEF ServingInv, InstalledKept, FileMatches, PathOf, Image!Installed
  <2>6. QED
    BY <2>3, <2>4, <2>5 DEF ServingInv
<1>5. QED
  BY <1>2, <1>3, <1>4
  DEF Image!WaitGateways, Image!WaitGateway, Image!WaitTarget, Image!Call

LEMMA ServingTarget ==
  ASSUME ImageInv, ServingInv, Image!EnsureGatewayTarget
  PROVE  ServingInv'
<1> USE DEF ImageSteps, EarlySteps, ApiSteps, LateSteps, ImageTargeted, ImageExpected,
            ImageAudience, ImageGatewayMade, ImagePermitted, ImageFirst, ImageRestricted,
            ImageRestriction, ImageGatewayRole, ImageTargetMade
<1>1. /\ account \in Account /\ run \in ImageRun /\ run.api \in Nat /\ file.audience \in Nat
      /\ "target" \in RoleNames /\ "interceptor" \in RoleNames /\ "gateway" \in RoleNames
      /\ "target" \in FunctionNames /\ "interceptor" \in FunctionNames
      /\ "first" \in Routes /\ "second" \in Routes /\ 0 \in Nat
      /\ account.gateway \in Gateway /\ account.gateway.id \in Nat
      /\ account.gatewaysMade \in Nat
  BY AccountFields DEF ImageInv, RoleNames, FunctionNames, Routes, Gateway
<1>2. CASE /\ run.step = "target" /\ account' = WithTarget(run.api)
            /\ run' = [run EXCEPT !.step = "wait target"] /\ file' = file
  <2>1. /\ account' \in Account
        /\ account'.gateway = [id |-> account.gateway.id, audience |-> account.gateway.audience,
                               claims |-> account.gateway.claims,
                               status |-> account.gateway.status, target |-> run.api]
        /\ account'.roles = account.roles /\ account'.functions = account.functions
        /\ account'.apis = account.apis /\ account'.grants = account.grants
        /\ account'.gatewaysMade = account.gatewaysMade
    BY <1>1, <1>2, TargetChange
  <2>2. run'.step = "wait target" /\ run'.api = run.api
    BY <1>2, ImageGoesOn
  <2>3. /\ account' \in Account
        /\ account'.gateway.target = run.api
        /\ account'.gateway.id = account.gateway.id
        /\ account'.gateway.audience = account.gateway.audience
        /\ account'.roles = account.roles /\ account'.functions = account.functions
        /\ account'.apis = account.apis /\ account'.grants = account.grants
        /\ account'.gatewaysMade = account.gatewaysMade
    BY <1>1, <2>1
  <2>4. ImageDeploying'
    BY <1>1, <1>2, <2>2, <2>3 DEF ServingInv, ImageDeploying
  <2>5. GatewayRoleShape' /\ IdsCounted' /\ FileMatches'
    BY <1>1, <1>2, <2>2, <2>3 DEF ServingInv, GatewayRoleShape, IdsCounted, FileMatches
  <2>6. InstalledKept'
    BY <1>1, <1>2, <2>2, <2>3
    DEF ServingInv, InstalledKept, FileMatches, PathOf, Image!Installed
  <2>7. QED
    BY <2>4, <2>5, <2>6 DEF ServingInv
<1>3. QED
  BY <1>2 DEF Image!EnsureGatewayTarget, Image!Call, Image!WithTarget, WithTarget

(* A call about the API of the run, which stays as it was where the state  *)
(* file names it.                                                          *)
LEMMA ServingApiChange ==
  ASSUME ImageInv, ServingInv, run.step \notin EarlySteps, NEW api \in Api,
         account' = [account EXCEPT !.apis[run.api] = api], file' = file,
         run'.api = run.api, run'.step # "import api",
         api.status = account.apis[run.api].status,
         Image!Installed => api.policy /\ api.stage = "restricted"
  PROVE  /\ account'.apis[run.api] = api
         /\ account'.roles = account.roles /\ account'.functions = account.functions
         /\ account'.grants = account.grants /\ account'.gateway = account.gateway
         /\ GatewayRoleShape' /\ IdsCounted' /\ FileMatches' /\ InstalledKept'
<1>1. account \in Account /\ run.api \in ApiIDs /\ file.api \in ApiIDs \cup {0}
  BY AccountFields DEF ImageInv, ApiKnown
<1>2. /\ account'.apis[run.api] = api
      /\ \A j \in ApiIDs : j # run.api => account'.apis[j] = account.apis[j]
      /\ account'.roles = account.roles /\ account'.functions = account.functions
      /\ account'.grants = account.grants /\ account'.gateway = account.gateway
      /\ account'.gatewaysMade = account.gatewaysMade
  BY <1>1, ApiChange
<1>3. GatewayRoleShape' /\ FileMatches'
  BY <1>2 DEF ServingInv, GatewayRoleShape, FileMatches
<1>4. IdsCounted'
  BY <1>1, <1>2, ZenonT(30) DEF ServingInv, IdsCounted
<1>5. Image!Installed' => Image!Installed
  BY <1>1, <1>2 DEF Image!Installed
<1>6. InstalledKept'
  BY <1>1, <1>2, <1>5, ZenonT(30) DEF ServingInv, InstalledKept, PathOf
<1>7. QED
  BY <1>2, <1>3, <1>4, <1>6

LEMMA ServingApis ==
  ASSUME ImageInv, ServingInv, 
         \/ Image!OverwriteApi \/ Image!NameApi \/ Image!DeployApi \/ Image!RestrictApi
         \/ Image!DeployRestriction
  PROVE  ServingInv'
<1> USE DEF ImageSteps, EarlySteps, ApiSteps, LateSteps, ImageTargeted, ImageExpected,
            ImageAudience, ImageGatewayMade, ImagePermitted, ImageFirst, ImageRestricted,
            ImageRestriction, ImageGatewayRole, ImageTargetMade
<1>1. /\ account \in Account /\ run \in ImageRun /\ run.api \in Nat /\ file.audience \in Nat
      /\ "target" \in RoleNames /\ "interceptor" \in RoleNames /\ "gateway" \in RoleNames
      /\ "target" \in FunctionNames /\ "interceptor" \in FunctionNames
      /\ "first" \in Routes /\ "second" \in Routes /\ 0 \in Nat
      /\ account.gateway \in Gateway /\ account.gateway.id \in Nat
      /\ account.gatewaysMade \in Nat
  BY AccountFields DEF ImageInv, RoleNames, FunctionNames, Routes, Gateway
<1>2. account.apis \in [ApiIDs -> Api]
  BY <1>1, Fields
<1>3. CASE /\ run.step = "overwrite api" /\ account' = WithOverwritten(run.api, TRUE)
            /\ run' = [run EXCEPT !.step = "name api"] /\ file' = file
  <2>1. run'.step = "name api" /\ run'.api = run.api
    BY <1>3, ImageGoesOn
  <2>2. run.api \in ApiIDs /\ run.step \notin EarlySteps
    BY <1>3 DEF ImageInv, ApiKnown
  <2>3. PICK api : api = [account.apis[run.api] EXCEPT !.policy = TRUE,
                                            !.named = @ /\ ~OverwriteTakesTitle]
    OBVIOUS
  <2>4. /\ api \in Api /\ api.status = account.apis[run.api].status
        /\ api.policy /\ api.stage = account.apis[run.api].stage
    BY <1>2, <2>2, <2>3 DEF Api
  <2>5. account' = [account EXCEPT !.apis[run.api] = api]
    BY <1>3, <2>3 DEF WithOverwritten, WithNamed, WithStage
  <2>6. Image!Installed => api.policy /\ api.stage = "restricted"
    BY <1>3, <2>2, <2>4 DEF ServingInv, InstalledKept, PathOf
  <2>7. /\ account'.apis[run.api] = api
        /\ account'.roles = account.roles /\ account'.functions = account.functions
        /\ account'.grants = account.grants /\ account'.gateway = account.gateway
        /\ GatewayRoleShape' /\ IdsCounted' /\ FileMatches' /\ InstalledKept'
    BY <1>3, <2>1, <2>2, <2>4, <2>5, <2>6, ServingApiChange
  <2>8. ImageDeploying'
    BY <1>1, <1>3, <2>1, <2>2, <2>4, <2>7 DEF ServingInv, ImageDeploying
  <2>9. QED
    BY <2>7, <2>8 DEF ServingInv
<1>4. CASE /\ run.step = "name api" /\ account' = WithNamed(run.api)
            /\ run' = [run EXCEPT !.step = "deploy api"] /\ file' = file
  <2>1. run'.step = "deploy api" /\ run'.api = run.api
    BY <1>4, ImageGoesOn
  <2>2. run.api \in ApiIDs /\ run.step \notin EarlySteps
    BY <1>4 DEF ImageInv, ApiKnown
  <2>3. PICK api : api = [account.apis[run.api] EXCEPT !.named = TRUE]
    OBVIOUS
  <2>4. /\ api \in Api /\ api.status = account.apis[run.api].status
        /\ (api.policy <=> account.apis[run.api].policy)
        /\ api.stage = account.apis[run.api].stage
    BY <1>2, <2>2, <2>3 DEF Api
  <2>5. account' = [account EXCEPT !.apis[run.api] = api]
    BY <1>4, <2>3 DEF WithOverwritten, WithNamed, WithStage
  <2>6. Image!Installed => api.policy /\ api.stage = "restricted"
    BY <1>4, <2>2, <2>4 DEF ServingInv, InstalledKept, PathOf
  <2>7. /\ account'.apis[run.api] = api
        /\ account'.roles = account.roles /\ account'.functions = account.functions
        /\ account'.grants = account.grants /\ account'.gateway = account.gateway
        /\ GatewayRoleShape' /\ IdsCounted' /\ FileMatches' /\ InstalledKept'
    BY <1>4, <2>1, <2>2, <2>4, <2>5, <2>6, ServingApiChange
  <2>8. ImageDeploying'
    BY <1>1, <1>4, <2>1, <2>2, <2>4, <2>7 DEF ServingInv, ImageDeploying
  <2>9. QED
    BY <2>7, <2>8 DEF ServingInv
<1>5. CASE /\ run.step = "deploy api" /\ account' = WithStage(run.api)
            /\ run' = [run EXCEPT !.step = "gateway role"] /\ file' = file
  <2>1. run'.step = "gateway role" /\ run'.api = run.api
    BY <1>5, ImageGoesOn
  <2>2. run.api \in ApiIDs /\ run.step \notin EarlySteps
    BY <1>5 DEF ImageInv, ApiKnown
  <2>3. PICK api : api = [account.apis[run.api] EXCEPT !.stage =
                      IF account.apis[run.api].policy THEN "restricted" ELSE "open"]
    OBVIOUS
  <2>4. /\ api \in Api /\ api.status = account.apis[run.api].status
        /\ (api.policy <=> account.apis[run.api].policy)
        /\ (api.policy => api.stage = "restricted")
    BY <1>2, <2>2, <2>3 DEF Api
  <2>5. account' = [account EXCEPT !.apis[run.api] = api]
    BY <1>5, <2>3 DEF WithOverwritten, WithNamed, WithStage
  <2>6. Image!Installed => api.policy /\ api.stage = "restricted"
    BY <1>5, <2>2, <2>4 DEF ServingInv, InstalledKept, PathOf
  <2>7. /\ account'.apis[run.api] = api
        /\ account'.roles = account.roles /\ account'.functions = account.functions
        /\ account'.grants = account.grants /\ account'.gateway = account.gateway
        /\ GatewayRoleShape' /\ IdsCounted' /\ FileMatches' /\ InstalledKept'
    BY <1>5, <2>1, <2>2, <2>4, <2>5, <2>6, ServingApiChange
  <2>8. ImageDeploying'
    BY <1>1, <1>5, <2>1, <2>2, <2>4, <2>7 DEF ServingInv, ImageDeploying
  <2>9. QED
    BY <2>7, <2>8 DEF ServingInv
(* The policy of the gateway's role is about this API, so it is all of it. *)
<1>6. CASE /\ run.step = "deploy api" /\ account' = WithStage(run.api)
            /\ run' = [run EXCEPT !.step = "restrict api"] /\ file' = file
            /\ <<"api", run.api>> \in account.roles["gateway"].policy
  <2>1. run'.step = "restrict api" /\ run'.api = run.api
    BY <1>6, ImageGoesOn
  <2>2. run.api \in ApiIDs /\ run.step \notin EarlySteps
    BY <1>6 DEF ImageInv, ApiKnown
  <2>3. PICK api : api = [account.apis[run.api] EXCEPT !.stage =
                      IF account.apis[run.api].policy THEN "restricted" ELSE "open"]
    OBVIOUS
  <2>4. /\ api \in Api /\ api.status = account.apis[run.api].status
        /\ (api.policy <=> account.apis[run.api].policy)
        /\ (api.policy => api.stage = "restricted")
    BY <1>2, <2>2, <2>3 DEF Api
  <2>5. account' = [account EXCEPT !.apis[run.api] = api]
    BY <1>6, <2>3 DEF WithOverwritten, WithNamed, WithStage
  <2>6. Image!Installed => api.policy /\ api.stage = "restricted"
    BY <1>6, <2>2, <2>4 DEF ServingInv, InstalledKept, PathOf
  <2>7. /\ account'.apis[run.api] = api
        /\ account'.roles = account.roles /\ account'.functions = account.functions
        /\ account'.grants = account.grants /\ account'.gateway = account.gateway
        /\ GatewayRoleShape' /\ IdsCounted' /\ FileMatches' /\ InstalledKept'
    BY <1>6, <2>1, <2>2, <2>4, <2>5, <2>6, ServingApiChange
  <2>8. account.roles["gateway"].policy = Image!GatewayPolicy(run.api)
    BY <1>6 DEF ServingInv, GatewayRoleShape, Image!GatewayPolicy
  <2>9. ImageDeploying'
    BY <1>1, <1>6, <2>1, <2>2, <2>4, <2>7, <2>8 DEF ServingInv, ImageDeploying
  <2>10. QED
    BY <2>7, <2>9 DEF ServingInv
<1>7. CASE /\ run.step = "restrict api"
            /\ account' = [account EXCEPT !.apis[run.api].policy = TRUE]
            /\ run' = [run EXCEPT !.step = "deploy restriction"] /\ file' = file
  <2>1. run'.step = "deploy restriction" /\ run'.api = run.api
    BY <1>7, ImageGoesOn
  <2>2. run.api \in ApiIDs /\ run.step \notin EarlySteps
    BY <1>7 DEF ImageInv, ApiKnown
  <2>3. PICK api : api = [account.apis[run.api] EXCEPT !.policy = TRUE]
    OBVIOUS
  <2>4. /\ api \in Api /\ api.status = account.apis[run.api].status
        /\ api.policy /\ api.stage = account.apis[run.api].stage
    BY <1>2, <2>2, <2>3 DEF Api
  <2>5. account' = [account EXCEPT !.apis[run.api] = api]
    BY <1>7, <2>3 DEF WithOverwritten, WithNamed, WithStage
  <2>6. Image!Installed => api.policy /\ api.stage = "restricted"
    BY <1>7, <2>2, <2>4 DEF ServingInv, InstalledKept, PathOf
  <2>7. /\ account'.apis[run.api] = api
        /\ account'.roles = account.roles /\ account'.functions = account.functions
        /\ account'.grants = account.grants /\ account'.gateway = account.gateway
        /\ GatewayRoleShape' /\ IdsCounted' /\ FileMatches' /\ InstalledKept'
    BY <1>7, <2>1, <2>2, <2>4, <2>5, <2>6, ServingApiChange
  <2>8. ImageDeploying'
    BY <1>1, <1>7, <2>1, <2>2, <2>4, <2>7 DEF ServingInv, ImageDeploying
  <2>9. QED
    BY <2>7, <2>8 DEF ServingInv
<1>8. CASE /\ run.step = "deploy restriction" /\ account' = WithStage(run.api)
            /\ run' = [run EXCEPT !.step = "permit first"] /\ file' = file
  <2>1. run'.step = "permit first" /\ run'.api = run.api
    BY <1>8, ImageGoesOn
  <2>2. run.api \in ApiIDs /\ run.step \notin EarlySteps /\ account.apis[run.api].policy
    BY <1>8 DEF ImageInv, ApiKnown, ServingInv, ImageDeploying
  <2>3. PICK api : api = [account.apis[run.api] EXCEPT !.stage =
                      IF account.apis[run.api].policy THEN "restricted" ELSE "open"]
    OBVIOUS
  <2>4. /\ api \in Api /\ api.status = account.apis[run.api].status
        /\ api.policy /\ api.stage = "restricted"
    BY <1>2, <2>2, <2>3 DEF Api
  <2>5. account' = [account EXCEPT !.apis[run.api] = api]
    BY <1>8, <2>3 DEF WithOverwritten, WithNamed, WithStage
  <2>6. Image!Installed => api.policy /\ api.stage = "restricted"
    BY <1>8, <2>2, <2>4 DEF ServingInv, InstalledKept, PathOf
  <2>7. /\ account'.apis[run.api] = api
        /\ account'.roles = account.roles /\ account'.functions = account.functions
        /\ account'.grants = account.grants /\ account'.gateway = account.gateway
        /\ GatewayRoleShape' /\ IdsCounted' /\ FileMatches' /\ InstalledKept'
    BY <1>8, <2>1, <2>2, <2>4, <2>5, <2>6, ServingApiChange
  <2>8. ImageDeploying'
    BY <1>1, <1>8, <2>1, <2>2, <2>4, <2>7 DEF ServingInv, ImageDeploying
  <2>9. QED
    BY <2>7, <2>8 DEF ServingInv
<1>9. CASE Image!DeployApi
  <2>1. \/ ~(<<"api", run.api>> \in account.roles["gateway"].policy)
        \/ <<"api", run.api>> \in account.roles["gateway"].policy
    OBVIOUS
  <2>2. QED
    BY <1>5, <1>6, <1>9, <2>1 DEF Image!DeployApi, Image!Call, Image!WithStage, WithStage
<1>10. QED
  BY <1>3, <1>4, <1>7, <1>8, <1>9
  DEF Image!OverwriteApi, Image!NameApi, Image!RestrictApi, Image!DeployRestriction,
      Image!GatewayRoleOnly, Image!Call, Image!WithOverwritten, WithOverwritten,
      Image!WithNamed, WithNamed, Image!WithStage, WithStage

LEMMA ServingFindApi ==
  ASSUME ImageInv, ServingInv, Image!FindApi
  PROVE  ServingInv'
<1> USE DEF ImageSteps, EarlySteps, ApiSteps, LateSteps, ImageTargeted, ImageExpected,
            ImageAudience, ImageGatewayMade, ImagePermitted, ImageFirst, ImageRestricted,
            ImageRestriction, ImageGatewayRole, ImageTargetMade
<1>1. /\ account \in Account /\ run \in ImageRun /\ run.api \in Nat /\ file.audience \in Nat
      /\ "target" \in RoleNames /\ "interceptor" \in RoleNames /\ "gateway" \in RoleNames
      /\ "target" \in FunctionNames /\ "interceptor" \in FunctionNames
      /\ "first" \in Routes /\ "second" \in Routes /\ 0 \in Nat
      /\ account.gateway \in Gateway /\ account.gateway.id \in Nat
      /\ account.gatewaysMade \in Nat
  BY AccountFields DEF ImageInv, RoleNames, FunctionNames, Routes, Gateway
<1>2. run.step = "find api" /\ account' = account /\ file' = file /\ run \in ImageRun
  BY <1>1 DEF Image!FindApi
<1>3. /\ \A i \in Image!ExistingApis : i \in Nat /\ account.apis[i].status = "live"
      /\ Image!Installed => Image!ExistingApis = {file.api}
  BY AccountAssumption, AccountFields
  DEF ImageInv, Image!ExistingApis, Image!FoundByName, Image!Installed
<1>4. CASE \E i \in Image!ExistingApis :
             run' = [run EXCEPT !.api = i, !.step = "gateway role first"]
  <2>1. /\ run'.step = "gateway role first" /\ account.apis[run'.api].status = "live"
        /\ Image!Installed => run'.api = file.api
    <3>1. PICK i \in Image!ExistingApis : run' = [run EXCEPT !.api = i, !.step = "gateway role first"]
      BY <1>4
    <3>2. run'.step = "gateway role first" /\ run'.api = i
      BY <1>2, <1>3, <3>1 DEF ImageRun
    <3>3. QED
      BY <1>3, <3>2
  <2>2. ImageDeploying'
    BY <1>2, <2>1 DEF ServingInv, ImageDeploying
  <2>3. GatewayRoleShape' /\ IdsCounted' /\ FileMatches'
    BY <1>2 DEF ServingInv, GatewayRoleShape, IdsCounted, FileMatches
  <2>4. InstalledKept'
    BY <1>2, <2>1 DEF ServingInv, InstalledKept, PathOf, Image!Installed
  <2>5. QED
    BY <2>2, <2>3, <2>4 DEF ServingInv
<1>5. CASE Image!ExistingApis = {} /\ run' = [run EXCEPT !.step = "import api"]
  <2>1. run'.step = "import api" /\ ~Image!Installed
    BY <1>2, <1>3, <1>5 DEF ImageRun
  <2>2. ImageDeploying'
    BY <1>2, <2>1 DEF ServingInv, ImageDeploying
  <2>3. GatewayRoleShape' /\ IdsCounted' /\ FileMatches'
    BY <1>2 DEF ServingInv, GatewayRoleShape, IdsCounted, FileMatches
  <2>4. InstalledKept'
    BY <1>2, <2>1 DEF InstalledKept, Image!Installed
  <2>5. QED
    BY <2>2, <2>3, <2>4 DEF ServingInv
<1>6. QED
  BY <1>4, <1>5 DEF Image!FindApi

LEMMA ServingImportApi ==
  ASSUME ImageInv, ServingInv, Image!ImportApi
  PROVE  ServingInv'
<1> USE DEF ImageSteps, EarlySteps, ApiSteps, LateSteps, ImageTargeted, ImageExpected,
            ImageAudience, ImageGatewayMade, ImagePermitted, ImageFirst, ImageRestricted,
            ImageRestriction, ImageGatewayRole, ImageTargetMade
<1>1. /\ account \in Account /\ run \in ImageRun /\ run.api \in Nat /\ file.audience \in Nat
      /\ "target" \in RoleNames /\ "interceptor" \in RoleNames /\ "gateway" \in RoleNames
      /\ "target" \in FunctionNames /\ "interceptor" \in FunctionNames
      /\ "first" \in Routes /\ "second" \in Routes /\ 0 \in Nat
      /\ account.gateway \in Gateway /\ account.gateway.id \in Nat
      /\ account.gatewaysMade \in Nat
  BY AccountFields DEF ImageInv, RoleNames, FunctionNames, Routes, Gateway
<1>2. PICK i \in ApiIDs :
        /\ run.step = "import api" /\ account.apis[i].status = "unused" /\ file' = file
        /\ account' = WithImported(i, FALSE)
        /\ run' = [run EXCEPT !.api = i, !.step = "name api"]
  BY DEF Image!ImportApi, Image!FreshApis, Image!WithImported, WithImported
<1>3. PICK api : api = [status |-> "live", named |-> FALSE, policy |-> FALSE, stage |-> "none"]
  OBVIOUS
<1>4. api \in Api /\ api.status = "live"
  BY <1>3 DEF Api
<1>5. account' = [account EXCEPT !.apis[i] = api]
  BY <1>2, <1>3 DEF WithImported
<1>6. /\ account'.apis[i].status = "live"
      /\ \A j \in ApiIDs : j # i => account'.apis[j] = account.apis[j]
      /\ account'.roles = account.roles /\ account'.functions = account.functions
      /\ account'.grants = account.grants /\ account'.gateway = account.gateway
      /\ account'.gatewaysMade = account.gatewaysMade
  BY <1>1, <1>4, <1>5, ApiChange
<1>7. run'.step = "name api" /\ run'.api = i
  BY <1>1, <1>2, AccountAssumption DEF ImageRun
<1>8. file.api \in ApiIDs \cup {0} /\ (file.api # 0 => file.api # i)
  BY <1>2, AccountFields DEF ImageInv, ServingInv, IdsCounted
<1>9. ImageDeploying'
  BY <1>2, <1>6, <1>7 DEF ServingInv, ImageDeploying
<1>10. GatewayRoleShape' /\ IdsCounted' /\ FileMatches'
  BY <1>2, <1>6, <1>8 DEF ServingInv, GatewayRoleShape, IdsCounted, FileMatches
<1>11. ~Image!Installed'
  BY <1>2, <1>6, <1>8 DEF ServingInv, InstalledKept, Image!Installed
<1>12. QED
  BY <1>9, <1>10, <1>11 DEF ServingInv, InstalledKept

LEMMA ServingPermit ==
  ASSUME ImageInv, ServingInv, Image!PermitRoutes
  PROVE  ServingInv'
<1> USE DEF ImageSteps, EarlySteps, ApiSteps, LateSteps, ImageTargeted, ImageExpected,
            ImageAudience, ImageGatewayMade, ImagePermitted, ImageFirst, ImageRestricted,
            ImageRestriction, ImageGatewayRole, ImageTargetMade
<1>1. /\ account \in Account /\ run \in ImageRun /\ run.api \in Nat /\ file.audience \in Nat
      /\ "target" \in RoleNames /\ "interceptor" \in RoleNames /\ "gateway" \in RoleNames
      /\ "target" \in FunctionNames /\ "interceptor" \in FunctionNames
      /\ "first" \in Routes /\ "second" \in Routes /\ 0 \in Nat
      /\ account.gateway \in Gateway /\ account.gateway.id \in Nat
      /\ account.gatewaysMade \in Nat
  BY AccountFields DEF ImageInv, RoleNames, FunctionNames, Routes, Gateway
<1>2. CASE /\ run.step = "permit first"
            /\ account' = [account EXCEPT !.grants["first"] = run.api]
            /\ run' = [run EXCEPT !.step = "permit second"] /\ file' = file
  <2>1. run'.step = "permit second" /\ run'.api = run.api
    BY <1>2, ImageGoesOn
  <2>2. /\ account' \in Account
        /\ account'.grants["first"] = run.api
        /\ account'.grants["second"] = account.grants["second"]
        /\ account'.roles = account.roles /\ account'.functions = account.functions
        /\ account'.apis = account.apis /\ account'.gateway = account.gateway
        /\ account'.gatewaysMade = account.gatewaysMade
    BY <1>1, <1>2, GrantChange
  <2>3. ImageDeploying'
    BY <1>1, <1>2, <2>1, <2>2 DEF ServingInv, ImageDeploying
  <2>4. GatewayRoleShape' /\ IdsCounted' /\ FileMatches'
    BY <1>1, <1>2, <2>1, <2>2 DEF ServingInv, GatewayRoleShape, IdsCounted, FileMatches
  <2>5. InstalledKept'
    BY <1>1, <1>2, <2>1, <2>2
    DEF ServingInv, InstalledKept, FileMatches, PathOf, Image!Installed
  <2>6. QED
    BY <2>3, <2>4, <2>5 DEF ServingInv
<1>3. CASE /\ run.step = "permit first" /\ account' = [account EXCEPT !.grants["first"] = 0]
            /\ run' = [run EXCEPT !.step = "permit first"] /\ file' = file
            /\ account.grants["first"] # run.api
  <2>1. run'.step = "permit first" /\ run'.api = run.api
    BY <1>3, ImageGoesOn
  <2>2. /\ account' \in Account
        /\ account'.grants["first"] = 0
        /\ account'.grants["second"] = account.grants["second"]
        /\ account'.roles = account.roles /\ account'.functions = account.functions
        /\ account'.apis = account.apis /\ account'.gateway = account.gateway
        /\ account'.gatewaysMade = account.gatewaysMade
    BY <1>1, <1>3, GrantChange
  <2>3. ImageDeploying'
    BY <1>1, <1>3, <2>1, <2>2 DEF ServingInv, ImageDeploying
  <2>4. GatewayRoleShape' /\ IdsCounted' /\ FileMatches'
    BY <1>1, <1>3, <2>1, <2>2 DEF ServingInv, GatewayRoleShape, IdsCounted, FileMatches
  <2>5. InstalledKept'
    BY <1>1, <1>3, <2>1, <2>2
    DEF ServingInv, InstalledKept, FileMatches, PathOf, Image!Installed
  <2>6. QED
    BY <2>3, <2>4, <2>5 DEF ServingInv
<1>4. CASE /\ run.step = "permit second"
            /\ account' = [account EXCEPT !.grants["second"] = run.api]
            /\ run' = [run EXCEPT !.step = "gateway"] /\ file' = file
  <2>1. run'.step = "gateway" /\ run'.api = run.api
    BY <1>4, ImageGoesOn
  <2>2. /\ account' \in Account
        /\ account'.grants["second"] = run.api
        /\ account'.grants["first"] = account.grants["first"]
        /\ account'.roles = account.roles /\ account'.functions = account.functions
        /\ account'.apis = account.apis /\ account'.gateway = account.gateway
        /\ account'.gatewaysMade = account.gatewaysMade
    BY <1>1, <1>4, GrantChange
  <2>3. ImageDeploying'
    BY <1>1, <1>4, <2>1, <2>2 DEF ServingInv, ImageDeploying
  <2>4. GatewayRoleShape' /\ IdsCounted' /\ FileMatches'
    BY <1>1, <1>4, <2>1, <2>2 DEF ServingInv, GatewayRoleShape, IdsCounted, FileMatches
  <2>5. InstalledKept'
    BY <1>1, <1>4, <2>1, <2>2
    DEF ServingInv, InstalledKept, FileMatches, PathOf, Image!Installed
  <2>6. QED
    BY <2>3, <2>4, <2>5 DEF ServingInv
<1>5. CASE /\ run.step = "permit second"
            /\ account' = [account EXCEPT !.grants["second"] = 0]
            /\ run' = [run EXCEPT !.step = "permit second"] /\ file' = file
            /\ account.grants["second"] # run.api
  <2>1. run'.step = "permit second" /\ run'.api = run.api
    BY <1>5, ImageGoesOn
  <2>2. /\ account' \in Account
        /\ account'.grants["second"] = 0
        /\ account'.grants["first"] = account.grants["first"]
        /\ account'.roles = account.roles /\ account'.functions = account.functions
        /\ account'.apis = account.apis /\ account'.gateway = account.gateway
        /\ account'.gatewaysMade = account.gatewaysMade
    BY <1>1, <1>5, GrantChange
  <2>3. ImageDeploying'
    BY <1>1, <1>5, <2>1, <2>2 DEF ServingInv, ImageDeploying
  <2>4. GatewayRoleShape' /\ IdsCounted' /\ FileMatches'
    BY <1>1, <1>5, <2>1, <2>2 DEF ServingInv, GatewayRoleShape, IdsCounted, FileMatches
  <2>5. InstalledKept'
    BY <1>1, <1>5, <2>1, <2>2
    DEF ServingInv, InstalledKept, FileMatches, PathOf, Image!Installed
  <2>6. QED
    BY <2>3, <2>4, <2>5 DEF ServingInv
<1>6. QED
  BY <1>2, <1>3, <1>4, <1>5
  DEF Image!PermitRoutes, Image!Permit, Image!PermissionSource, Image!Call

LEMMA ServingEnsureGateway ==
  ASSUME ImageInv, ServingInv, Image!EnsureGateway
  PROVE  ServingInv'
<1> USE DEF ImageSteps, EarlySteps, ApiSteps, LateSteps, ImageTargeted, ImageExpected,
            ImageAudience, ImageGatewayMade, ImagePermitted, ImageFirst, ImageRestricted,
            ImageRestriction, ImageGatewayRole, ImageTargetMade
<1>1. /\ account \in Account /\ run \in ImageRun /\ run.api \in Nat /\ file.audience \in Nat
      /\ "target" \in RoleNames /\ "interceptor" \in RoleNames /\ "gateway" \in RoleNames
      /\ "target" \in FunctionNames /\ "interceptor" \in FunctionNames
      /\ "first" \in Routes /\ "second" \in Routes /\ 0 \in Nat
      /\ account.gateway \in Gateway /\ account.gateway.id \in Nat
      /\ account.gatewaysMade \in Nat
  BY AccountFields DEF ImageInv, RoleNames, FunctionNames, Routes, Gateway
<1>2. run.step = "gateway" /\ file' = file /\ run \in ImageRun
  BY <1>1 DEF Image!EnsureGateway
<1>3. PICK known \in BOOLEAN : run' = [run EXCEPT !.claims = known, !.step = "wait gateway"]
  BY DEF Image!EnsureGateway
<1>4. run'.step = "wait gateway" /\ run'.api = run.api
  BY <1>2, <1>3 DEF ImageRun
(* A gateway made anew is not the one of the file. *)
<1>5. CASE \E g \in FreshGateways, claims \in BOOLEAN, status \in {"READY", "FAILED"} :
             account' = WithCreatedGateway(g, 0, claims, status)
  <2>1. PICK g \in FreshGateways, claims \in BOOLEAN, status \in {"READY", "FAILED"} :
          account' = WithCreatedGateway(g, 0, claims, status)
    BY <1>5
  <2>2. g \in Nat /\ g # 0 /\ g = account.gatewaysMade + 1
    BY <1>1 DEF FreshGateways
  <2>3. account \in Account /\ g \in Nat /\ 0 \in Nat
    BY <1>1, <2>2
  <2>4. /\ account' \in Account
        /\ account'.gateway = [id |-> g, audience |-> 0, claims |-> claims,
                               status |-> status, target |-> 0]
        /\ account'.roles = account.roles /\ account'.functions = account.functions
        /\ account'.apis = account.apis /\ account'.grants = account.grants
        /\ account'.gatewaysMade = g
    BY <2>3, <2>1, NewGatewayChange
  <2>5. account'.gateway.id = g
    BY <2>4
  <2>6. file.gateway \in Nat /\ file.gateway <= account.gatewaysMade
    BY DEF ImageInv, Typed, ServingInv, IdsCounted
  <2>7. ImageDeploying'
    BY <1>2, <1>4, <2>2, <2>4, <2>5 DEF ServingInv, ImageDeploying
  <2>8. GatewayRoleShape' /\ FileMatches'
    BY <1>2, <2>4 DEF ServingInv, GatewayRoleShape, FileMatches
  <2>9. IdsCounted'
    BY <1>1, <1>2, <2>2, <2>4, <2>5, <2>6 DEF ServingInv, IdsCounted
  <2>10. ~Image!Installed'
    BY <1>1, <1>2, <2>2, <2>5, <2>6 DEF Image!Installed
  <2>11. QED
    BY <2>7, <2>8, <2>9, <2>10 DEF ServingInv, InstalledKept
<1>6. CASE account.gateway.id # 0 /\ account' = account
  <2>1. ImageDeploying'
    BY <1>2, <1>4, <1>6 DEF ServingInv, ImageDeploying
  <2>2. GatewayRoleShape' /\ IdsCounted' /\ FileMatches'
    BY <1>2, <1>6 DEF ServingInv, GatewayRoleShape, IdsCounted, FileMatches
  <2>3. InstalledKept'
    BY <1>2, <1>4, <1>6 DEF ServingInv, InstalledKept, PathOf, Image!Installed
  <2>4. QED
    BY <2>1, <2>2, <2>3 DEF ServingInv
<1>7. QED
  BY <1>5, <1>6
  DEF Image!EnsureGateway, Image!HasGateway, Image!FreshGateways, FreshGateways,
      Image!WithCreatedGateway, WithCreatedGateway

LEMMA ServingAuthorizer ==
  ASSUME ImageInv, ServingInv, Image!UpdateAuthorizer
  PROVE  ServingInv'
<1> USE DEF ImageSteps, EarlySteps, ApiSteps, LateSteps, ImageTargeted, ImageExpected,
            ImageAudience, ImageGatewayMade, ImagePermitted, ImageFirst, ImageRestricted,
            ImageRestriction, ImageGatewayRole, ImageTargetMade
<1>1. /\ account \in Account /\ run \in ImageRun /\ run.api \in Nat /\ file.audience \in Nat
      /\ "target" \in RoleNames /\ "interceptor" \in RoleNames /\ "gateway" \in RoleNames
      /\ "target" \in FunctionNames /\ "interceptor" \in FunctionNames
      /\ "first" \in Routes /\ "second" \in Routes /\ 0 \in Nat
      /\ account.gateway \in Gateway /\ account.gateway.id \in Nat
      /\ account.gatewaysMade \in Nat
  BY AccountFields DEF ImageInv, RoleNames, FunctionNames, Routes, Gateway
<1>2. PICK claims \in BOOLEAN, status \in {"READY", "FAILED"} :
        /\ run.step = "authorizer" /\ file' = file
        /\ account' = WithAuthorizer(account.gateway.id, claims, status)
        /\ run' = [run EXCEPT !.claims = claims, !.step = "wait authorizer"]
  <2>1. run.claims \in BOOLEAN
    BY AccountFields DEF ImageInv
  <2>2. QED
    BY <2>1
    DEF Image!UpdateAuthorizer, Image!VerifiedAudience, Image!WithAuthorizer, WithAuthorizer
<1>3. run'.step = "wait authorizer" /\ run'.api = run.api
  BY <1>1, <1>2 DEF ImageRun
<1>4. /\ account'.gateway = [id |-> account.gateway.id, audience |-> account.gateway.id,
                             claims |-> claims, status |-> status,
                             target |-> account.gateway.target]
      /\ account'.roles = account.roles /\ account'.functions = account.functions
      /\ account'.apis = account.apis /\ account'.grants = account.grants
      /\ account'.gatewaysMade = account.gatewaysMade
  BY <1>1, <1>2, AuthorizerChange
<1>5. /\ account'.gateway.id = account.gateway.id
      /\ account'.gateway.audience = account.gateway.id
      /\ account'.gateway.target = account.gateway.target
  BY <1>4
<1>6. ImageDeploying'
  BY <1>2, <1>3, <1>4, <1>5 DEF ServingInv, ImageDeploying
<1>7. GatewayRoleShape' /\ IdsCounted' /\ FileMatches'
  BY <1>2, <1>4, <1>5 DEF ServingInv, GatewayRoleShape, IdsCounted, FileMatches
<1>8. InstalledKept'
  BY <1>2, <1>3, <1>4, <1>5 DEF ServingInv, InstalledKept, PathOf, Image!Installed
<1>9. QED
  BY <1>6, <1>7, <1>8 DEF ServingInv

LEMMA ServingSave ==
  ASSUME ImageInv, ServingInv, Image!SaveState
  PROVE  ServingInv'
<1> USE DEF ImageSteps, EarlySteps, ApiSteps, LateSteps, ImageTargeted, ImageExpected,
            ImageAudience, ImageGatewayMade, ImagePermitted, ImageFirst, ImageRestricted,
            ImageRestriction, ImageGatewayRole, ImageTargetMade
<1>1. /\ account \in Account /\ run \in ImageRun /\ run.api \in Nat /\ file.audience \in Nat
      /\ "target" \in RoleNames /\ "interceptor" \in RoleNames /\ "gateway" \in RoleNames
      /\ "target" \in FunctionNames /\ "interceptor" \in FunctionNames
      /\ "first" \in Routes /\ "second" \in Routes /\ 0 \in Nat
      /\ account.gateway \in Gateway /\ account.gateway.id \in Nat
      /\ account.gatewaysMade \in Nat
  BY AccountFields DEF ImageInv, RoleNames, FunctionNames, Routes, Gateway
<1>2. /\ run.step = "save" /\ account' = account /\ run'.step = "idle"
      /\ file'.api = run.api /\ file'.gateway = account.gateway.id
      /\ file'.audience = account.gateway.audience
  BY DEF Image!SaveState, Image!Idle
<1>3. /\ account.apis[run.api].status = "live" /\ PathOf(run.api)
      /\ account.gateway.id # 0
  <2>1. account.roles["gateway"].exists
    BY <1>2 DEF ServingInv, ImageDeploying, GatewayRoleShape, Image!GatewayPolicy
  <2>2. QED
    BY <1>2, <2>1 DEF ServingInv, ImageDeploying, PathOf
<1>4. ImageDeploying'
  BY <1>2 DEF ImageDeploying
<1>5. GatewayRoleShape' /\ IdsCounted' /\ FileMatches'
  BY <1>2, <1>3 DEF ServingInv, GatewayRoleShape, IdsCounted, FileMatches, PathOf
<1>6. InstalledKept'
  BY <1>2, <1>3 DEF InstalledKept, PathOf
<1>7. QED
  BY <1>4, <1>5, <1>6 DEF ServingInv

LEMMA ServingRuns ==
  ASSUME ImageInv, ServingInv, Image!StartDeploy \/ Image!Abort \/ Image!LoseState
  PROVE  ServingInv'
<1> USE DEF ImageSteps, EarlySteps, ApiSteps, LateSteps, ImageTargeted, ImageExpected,
            ImageAudience, ImageGatewayMade, ImagePermitted, ImageFirst, ImageRestricted,
            ImageRestriction, ImageGatewayRole, ImageTargetMade
<1>1. /\ account \in Account /\ run \in ImageRun /\ run.api \in Nat /\ file.audience \in Nat
      /\ "target" \in RoleNames /\ "interceptor" \in RoleNames /\ "gateway" \in RoleNames
      /\ "target" \in FunctionNames /\ "interceptor" \in FunctionNames
      /\ "first" \in Routes /\ "second" \in Routes /\ 0 \in Nat
      /\ account.gateway \in Gateway /\ account.gateway.id \in Nat
      /\ account.gatewaysMade \in Nat
  BY AccountFields DEF ImageInv, RoleNames, FunctionNames, Routes, Gateway
<1>2. /\ account' = account /\ run'.step \in {"idle", "bucket"}
      /\ file' = file \/ (file'.api = 0 /\ file'.gateway = 0)
  <2>1. CASE Image!StartDeploy
    BY <2>1 DEF Image!StartDeploy, Image!Start, Image!Idle
  <2>2. CASE Image!Abort
    BY <2>2 DEF Image!Abort, Image!Idle
  <2>3. CASE Image!LoseState
    BY <2>3 DEF Image!LoseState, Image!Idle, Image!NoFile
  <2>4. QED
    BY <2>1, <2>2, <2>3
<1>3. ImageDeploying'
  BY <1>2 DEF ImageDeploying
<1>4. GatewayRoleShape' /\ FileMatches'
  BY <1>2 DEF ServingInv, GatewayRoleShape, FileMatches
<1>5. IdsCounted'
  BY <1>1, <1>2 DEF ServingInv, IdsCounted
<1>6. InstalledKept'
  BY <1>2 DEF ServingInv, InstalledKept, PathOf, Image!Installed
<1>7. QED
  BY <1>3, <1>4, <1>5, <1>6 DEF ServingInv

LEMMA ServingRemovals ==
  ASSUME ImageInv, ServingInv, Image!RemoveApi \/ Image!RemoveGateway
  PROVE  ServingInv'
<1> USE DEF ImageSteps, EarlySteps, ApiSteps, LateSteps, ImageTargeted, ImageExpected,
            ImageAudience, ImageGatewayMade, ImagePermitted, ImageFirst, ImageRestricted,
            ImageRestriction, ImageGatewayRole, ImageTargetMade
<1>1. /\ account \in Account /\ run \in ImageRun /\ run.api \in Nat /\ file.audience \in Nat
      /\ "target" \in RoleNames /\ "interceptor" \in RoleNames /\ "gateway" \in RoleNames
      /\ "target" \in FunctionNames /\ "interceptor" \in FunctionNames
      /\ "first" \in Routes /\ "second" \in Routes /\ 0 \in Nat
      /\ account.gateway \in Gateway /\ account.gateway.id \in Nat
      /\ account.gatewaysMade \in Nat
  BY AccountFields DEF ImageInv, RoleNames, FunctionNames, Routes, Gateway
<1>2. run'.step = "idle" /\ file' = file /\ run.step = "idle"
  BY DEF Image!RemoveApi, Image!RemoveGateway, Image!Idle
<1>3. ImageDeploying'
  BY <1>2 DEF ImageDeploying
<1>4. CASE Image!RemoveApi
  <2>1. PICK i \in ApiIDs :
          account' = [account EXCEPT !.apis[i] = [NoApi EXCEPT !.status = "gone"]]
    BY <1>4 DEF Image!RemoveApi, Image!NoApi, NoApi
  <2>2. PICK api : api = [NoApi EXCEPT !.status = "gone"]
    OBVIOUS
  <2>3. api \in Api /\ api.status = "gone"
    BY <2>2 DEF NoApi, Api
  <2>4. account' = [account EXCEPT !.apis[i] = api]
    BY <2>1, <2>2
  <2>5. /\ account'.apis[i] = api
        /\ \A j \in ApiIDs : j # i => account'.apis[j] = account.apis[j]
        /\ account'.roles = account.roles /\ account'.functions = account.functions
        /\ account'.grants = account.grants /\ account'.gateway = account.gateway
        /\ account'.gatewaysMade = account.gatewaysMade
    BY <1>1, <2>3, <2>4, ApiChange
  <2>6. file.api \in ApiIDs \cup {0}
    BY AccountFields DEF ImageInv
  <2>7. GatewayRoleShape' /\ IdsCounted' /\ FileMatches'
    BY <1>2, <2>3, <2>5, <2>6 DEF ServingInv, GatewayRoleShape, IdsCounted, FileMatches
  <2>8. Image!Installed' => Image!Installed /\ file.api # i
    BY <1>2, <2>3, <2>5, <2>6 DEF Image!Installed
  <2>9. InstalledKept'
    BY <1>2, <2>5, <2>6, <2>8 DEF ServingInv, InstalledKept, PathOf, Image!Installed
  <2>10. QED
    BY <1>3, <2>7, <2>9 DEF ServingInv
<1>5. CASE Image!RemoveGateway
  <2>1. account' = [account EXCEPT !.gateway = NoGateway]
    BY <1>5 DEF Image!RemoveGateway, Image!NoGateway, NoGateway
  <2>2. /\ account'.gateway = NoGateway
        /\ account'.roles = account.roles /\ account'.apis = account.apis
        /\ account'.gatewaysMade = account.gatewaysMade
    BY <1>1, <2>1, NoGatewayChange
  <2>3. account'.gateway.id = 0
    BY <2>2 DEF NoGateway
  <2>4. GatewayRoleShape' /\ IdsCounted' /\ FileMatches'
    BY <1>1, <1>2, <2>2, <2>3 DEF ServingInv, GatewayRoleShape, IdsCounted, FileMatches
  <2>5. ~Image!Installed'
    BY <1>2, <2>3 DEF ServingInv, FileMatches, Image!Installed
  <2>6. QED
    BY <1>3, <2>4, <2>5 DEF ServingInv, InstalledKept
<1>6. QED
  BY <1>4, <1>5

LEMMA ServingNext == ASSUME ImageInv, ServingInv, Image!Next PROVE ServingInv'
BY ServingRuns, ServingBucket, ServingRoles, ServingFunctions, ServingFindApi,
   ServingGatewayRole, ServingApis, ServingImportApi, ServingPermit, ServingEnsureGateway,
   ServingWait, ServingAuthorizer, ServingTarget, ServingSave, ServingRemovals
DEF Image!Next, Image!Deploy

LEMMA ServingInvariant == Spec => [](recipe = "07" => ServingInv)
<1>1. Init => (recipe = "07" => ServingInv)
  BY ServingInit DEF Init
<1>2. Inv /\ (recipe = "07" => ServingInv) /\ [Next]_<<deployVars, recipe>>
      => (recipe = "07" => ServingInv)'
  <2> SUFFICES ASSUME Inv, recipe = "07" => ServingInv, [Next]_<<deployVars, recipe>>,
                      recipe' = "07"
               PROVE  ServingInv'
    OBVIOUS
  <2>1. recipe = "07" /\ ImageInv /\ ServingInv
    BY DEF Next, Inv
  <2>2. CASE Next
    <3>1. Image!Next
      BY <2>1, <2>2 DEF Next
    <3>2. QED
      BY <2>1, <3>1, ServingNext
  <2>3. CASE UNCHANGED <<deployVars, recipe>>
    <3>1. account' = account /\ run' = run /\ file' = file
      BY <2>3 DEF deployVars
    <3>2. ImageDeploying'
      BY <2>1, <3>1, ZenonT(60) DEF ServingInv, ImageDeploying
    <3>3. GatewayRoleShape' /\ IdsCounted' /\ FileMatches'
      BY <2>1, <3>1 DEF ServingInv, GatewayRoleShape, IdsCounted, FileMatches
    <3>4. InstalledKept'
      BY <2>1, <3>1 DEF ServingInv, InstalledKept, PathOf, Image!Installed
    <3>5. QED
      BY <3>2, <3>3, <3>4 DEF ServingInv
  <2>4. QED
    BY <2>2, <2>3
<1>3. QED
  BY <1>1, <1>2, DeploymentsInvariant, PTL DEF Spec

(* Recipe 07: once a run has completed the path works, and the next runs   *)
(* do not break it, wherever they are broken off, as long as the API and   *)
(* the gateway that the state file names are not removed and updates of    *)
(* the gateway do not fail.                                                *)
THEOREM ImageRedeployKeepsServing == Spec => []RedeployKeepsServing
<1>1. Inv /\ (recipe = "07" => ServingInv) => RedeployKeepsServing
  <2> SUFFICES ASSUME ImageInv, ServingInv, Image!Installed, account.gateway.status = "READY"
               PROVE  Image!Works
    BY DEF Inv, RedeployKeepsServing, Image!RedeployKeepsServing
  <2>1. /\ PathOf(file.api) /\ account.gateway.id # 0 /\ file.api \in ApiIDs
        /\ account.apis[file.api].status = "live"
    BY AccountFields DEF ImageInv, ServingInv, InstalledKept, FileMatches, Image!Installed
  <2>2. account.roles["gateway"] \in Role
    BY AccountFields DEF ImageInv, RoleNames
  <2>3. account.roles["gateway"] = [exists |-> TRUE, policy |-> Image!GatewayPolicy(file.api)]
    BY <2>1, <2>2 DEF PathOf, Role
  <2>4. QED
    BY <2>1, <2>3 DEF PathOf, Image!Works, Image!Routes
<1>2. QED
  BY <1>1, DeploymentsInvariant, ServingInvariant, PTL

=============================================================================
