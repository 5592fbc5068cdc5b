---------------------------- MODULE ImageDeploy ----------------------------
(***************************************************************************)
(* scripts/deploy_gateway_phase3.py and gateway_resources.py of recipe 07: *)
(* a gateway with a request interceptor in front of an API that runs the   *)
(* image function.  The API is for the gateway's role only.                *)
(*                                                                         *)
(* Left out: stale policies and permissions of earlier versions of the     *)
(* recipe, which the script prunes.                                        *)
(***************************************************************************)
EXTENDS AwsAccount

Policies == [target |-> {<<"logs", 0>>}, interceptor |-> {<<"logs", 0>>}]

(* gateway_role_policy: the API and the interceptor. *)
GatewayPolicy(api) == {<<"api", api>>, <<"function", 0>>}

StartDeploy == Start("deploy", "bucket")

CreateBucket ==
  Call("bucket", [account EXCEPT !.bucket = IF @ = "none" THEN "open" ELSE @],
       "block public access")

BlockPublicAccess ==
  Call("block public access", [account EXCEPT !.bucket = "private"], "target role")

(* create_or_update_role: the role, then its one policy.                   *)
CreateRole(n, step, next) == Call(step, WithRole(n), next)
PutRolePolicy(n, policy, step, next) == Call(step, WithPolicy(n, policy), next)

Roles ==
  \/ CreateRole("target", "target role", "target policy")
  \/ PutRolePolicy("target", Policies.target, "target policy", "interceptor role")
  \/ CreateRole("interceptor", "interceptor role", "interceptor policy")
  \/ PutRolePolicy("interceptor", Policies.interceptor, "interceptor policy", "target function")

TargetFunction ==
  Call("target function", WithFunction("target", 0), "interceptor function")

(* Faulty: the audience is always discovered anew. *)
KnownAudienceNever == 0

(* What the interceptor expects until the gateway's audience is known.     *)
KnownAudience == file.audience

InterceptorFunction ==
  Call("interceptor function", WithFunction("interceptor", KnownAudience), "find api")

(* existing_rest_api_id_by_state_or_name.                                  *)
ExistingApis ==
  IF file.api # 0 /\ account.apis[file.api].status = "live"
  THEN {file.api} ELSE FoundByName

FindApi ==
  /\ run.step = "find api"
  /\ \/ \E i \in ExistingApis :
          run' = [run EXCEPT !.api = i, !.step = "gateway role first"]
     \/ /\ ExistingApis = {}
        /\ run' = [run EXCEPT !.step = "import api"]
  /\ UNCHANGED <<account, file>>

(* With an API there is something to put into the role's policy, and a     *)
(* role to put into the policy of the API.                                 *)
GatewayRoleFirst ==
  \/ Call("gateway role first", WithRole("gateway"), "gateway policy first")
  \/ Call("gateway policy first", WithPolicy("gateway", GatewayPolicy(run.api)),
          "overwrite api")

(* Faulty: the definition comes without the resource policy. *)
OverwriteApiPlain == Call("overwrite api", WithOverwritten(run.api, FALSE), "name api")

(* rest_api_gateway_policy: everybody but the gateway's role is refused.   *)
GatewayRoleOnly == TRUE

(* put_rest_api with a definition that carries the policy.                 *)
OverwriteApi ==
  Call("overwrite api", WithOverwritten(run.api, GatewayRoleOnly), "name api")

ImportApi ==
  \E i \in FreshApis :
    /\ run.step = "import api"
    /\ account' = WithImported(i, FALSE)
    /\ run' = [run EXCEPT !.api = i, !.step = "name api"]
    /\ UNCHANGED file

NameApi == Call("name api", WithNamed(run.api), "deploy api")

(* create_rest_api_deployment: tried up to six times while throttled.      *)
DeployApi ==
  Call("deploy api", WithStage(run.api),
       IF <<"api", run.api>> \in account.roles["gateway"].policy
       THEN "restrict api" ELSE "gateway role")

GatewayRole ==
  \/ Call("gateway role", WithRole("gateway"), "gateway policy")
  \/ Call("gateway policy", WithPolicy("gateway", GatewayPolicy(run.api)), "restrict api")

RestrictApi ==
  Call("restrict api", [account EXCEPT !.apis[run.api].policy = GatewayRoleOnly],
       "deploy restriction")

DeployRestriction == Call("deploy restriction", WithStage(run.api), "permit first")

(* The API whose calls the statement of a route permits, or 0.             *)
PermissionSource(t) == account.grants[t]

(* ensure_lambda_permission: a permission for another API is removed, then *)
(* the right one is added, in two calls.                                   *)
Permit(t, step, next) ==
  IF PermissionSource(t) \in {0, run.api}
  THEN Call(step, [account EXCEPT !.grants[t] = run.api], next)
  ELSE Call(step, [account EXCEPT !.grants[t] = 0], step)

PermitRoutes ==
  \/ Permit("first", "permit first", "permit second")
  \/ Permit("second", "permit second", "gateway")

(* The control plane may reject the custom claims; then they are left out. *)
EnsureGateway ==
  \/ \E g \in FreshGateways, claims \in BOOLEAN, status \in {"READY", "FAILED"} :
       /\ ~HasGateway
       /\ run.step = "gateway"
       /\ account' = WithCreatedGateway(g, 0, claims, status)
       /\ run' = [run EXCEPT !.claims = claims, !.step = "wait gateway"]
       /\ UNCHANGED file
  \/ /\ HasGateway
     /\ run.step = "gateway"
     /\ run' = [run EXCEPT !.claims = TRUE, !.step = "wait gateway"]
     /\ UNCHANGED <<account, file>>

(* wait_gateway_ready: a failed gateway ends the run (Abort).              *)
WaitGateway(step, next) ==
  account.gateway.status = "READY" /\ Call(step, account, next)

WaitGateways ==
  \/ WaitGateway("wait gateway", "authorizer")
  \/ WaitGateway("wait authorizer", "interceptor audience")

(* Its own URL, as the metadata of the gateway says.                       *)
VerifiedAudience == account.gateway.id

UpdateAuthorizer ==
  \E claims \in {run.claims, FALSE}, status \in {"READY", "FAILED"} :
    /\ run.step = "authorizer"
    /\ account' = WithAuthorizer(VerifiedAudience, claims, status)
    /\ run' = [run EXCEPT !.claims = claims, !.step = "wait authorizer"]
    /\ UNCHANGED file

UpdateInterceptorAudience ==
  Call("interceptor audience", WithFunction("interceptor", VerifiedAudience), "target")

(* The target is created, or updated to what target_params says.           *)
EnsureGatewayTarget == Call("target", WithTarget(run.api), "wait target")

(* It is ready, synchronized, and ready again. *)
WaitTarget == Call("wait target", account, "save")

SaveState ==
  /\ run.step = "save"
  /\ file' = [api |-> run.api, gateway |-> account.gateway.id,
              audience |-> account.gateway.audience, claims |-> run.claims]
  /\ run' = Idle
  /\ UNCHANGED account

Deploy ==
  \/ StartDeploy \/ CreateBucket \/ BlockPublicAccess \/ Roles \/ TargetFunction
  \/ InterceptorFunction \/ FindApi \/ GatewayRoleFirst \/ OverwriteApi \/ ImportApi
  \/ NameApi \/ DeployApi \/ GatewayRole \/ RestrictApi \/ DeployRestriction
  \/ PermitRoutes \/ EnsureGateway \/ WaitGateways \/ UpdateAuthorizer
  \/ UpdateInterceptorAudience \/ EnsureGatewayTarget \/ WaitTarget \/ SaveState

(* The state file is lost, or unreadable (load_state starts with nothing). *)
LoseState == run = Idle /\ file' = NoFile /\ UNCHANGED <<account, run>>

(* The operator removes resources in the console. *)
RemoveApi ==
  \E i \in ApiIDs :
    /\ run = Idle /\ account.apis[i].status = "live"
    /\ account' = [account EXCEPT !.apis[i] = [NoApi EXCEPT !.status = "gone"]]
    /\ UNCHANGED <<run, file>>

RemoveGateway ==
  /\ run = Idle /\ HasGateway
  /\ account' = [account EXCEPT !.gateway = NoGateway]
  /\ UNCHANGED <<run, file>>

Next == Deploy \/ Abort \/ LoseState \/ RemoveApi \/ RemoveGateway

Spec == AccountInit /\ [][Next]_deployVars

-----------------------------------------------------------------------------
(* Properties. *)

(* The whole path works: the gateway is ready and takes tokens for itself, *)
(* the interceptor expects the same, the gateway may call the API it       *)
(* targets, which is deployed for nobody else and may run the function.    *)
Works ==
  LET g == account.gateway
      i == g.target IN
  /\ g.id # 0 /\ g.status = "READY" /\ g.audience = g.id
  /\ account.functions["target"].exists
  /\ account.functions["interceptor"] = [exists |-> TRUE, env |-> g.id]
  /\ i \in ApiIDs /\ account.apis[i].status = "live"
  /\ account.apis[i].stage = "restricted"
  /\ account.roles["gateway"] = [exists |-> TRUE, policy |-> GatewayPolicy(i)]
  /\ \A t \in Routes : account.grants[t] = i

(* What the state file names still exists. *)
Installed ==
  /\ file.api # 0 /\ account.apis[file.api].status = "live"
  /\ file.gateway = account.gateway.id

(* Nobody but the gateway can have the function run: as long as an API is  *)
(* deployed for everybody, also between two calls of a run and after any   *)
(* run that was broken off, the function does not accept its calls.        *)
NeverOpen ==
  \A i \in ApiIDs :
    account.apis[i].stage = "open" => \A t \in Routes : account.grants[t] # i

(* Once a run has completed the path works, and the next runs do not break *)
(* it, wherever they are broken off, as long as what the state file names  *)
(* is not removed and updates of the gateway do not fail.                  *)
RedeployKeepsServing ==
  Installed /\ account.gateway.status = "READY" => Works

=============================================================================
