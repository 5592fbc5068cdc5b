---------------------------- MODULE OrdersDeploy ----------------------------
(***************************************************************************)
(* scripts/deploy.py and clean.py of recipe 30: a gateway with a request   *)
(* interceptor in front of an API that runs the order function, made and   *)
(* removed.  A random sentinel, new in every run, proves to the function   *)
(* that a request came through the interceptor.                            *)
(*                                                                         *)
(* Resources are found by name; the state file is written for the client.  *)
(***************************************************************************)
EXTENDS AwsAccount

(* The interceptor reserves nonces in the replay table.                    *)
InterceptorPolicy  == {<<"logs", 0>>, <<"table", 0>>}
TargetPolicy       == {<<"logs", 0>>}
GatewayPolicy(api) == {<<"api", api>>, <<"function", 0>>}

StartDeploy == Start("deploy", "table")

EnsureReplayTable ==
  \E s \in Sentinels \ {account.functions[f].env : f \in FunctionNames} :
    /\ run.step = "table"
    /\ account' = [account EXCEPT !.table = TRUE]
    /\ run' = [run EXCEPT !.sentinel = s, !.step = "target role"]
    /\ UNCHANGED file

(* ensure_role: the role, then its policy. *)
EnsureRoles ==
  \/ Call("target role", WithRole("target"), "target policy")
  \/ Call("target policy", WithPolicy("target", TargetPolicy), "interceptor role")
  \/ Call("interceptor role", WithRole("interceptor"), "interceptor policy")
  \/ Call("interceptor policy", WithPolicy("interceptor", InterceptorPolicy), "target function")
  \/ Call("gateway role", WithRole("gateway"), "gateway policy")
  \/ Call("gateway policy", WithPolicy("gateway", GatewayPolicy(run.api)), "gateway")

(* Faulty: a function that exists keeps its environment. *)
EnsureFunctionsOnce ==
  \/ Call("target function",
          IF account.functions["target"].exists THEN account
          ELSE WithFunction("target", run.sentinel), "interceptor function")
  \/ Call("interceptor function", WithFunction("interceptor", run.sentinel), "api")

EnsureFunctions ==
  \/ Call("target function", WithFunction("target", run.sentinel), "interceptor function")
  \/ Call("interceptor function", WithFunction("interceptor", run.sentinel), "api")

(* ensure_api: only an API that was just imported gets its name.           *)
EnsureApi ==
  \/ \E i \in FoundByName :
       /\ run.step = "api"
       /\ account' = WithOverwritten(i, FALSE)
       /\ run' = [run EXCEPT !.api = i, !.step = "deploy api"]
       /\ UNCHANGED file
  \/ \E i \in FreshApis :
       /\ run.step = "api" /\ FoundByName = {}
       /\ account' = WithImported(i, FALSE)
       /\ run' = [run EXCEPT !.api = i, !.step = "name api"]
       /\ UNCHANGED file
  \/ Call("name api", WithNamed(run.api), "deploy api")
  \/ Call("deploy api", WithStage(run.api), "permission")

(* A permission of this name that exists is left as it is.                 *)
AllowApiGateway ==
  Call("permission",
       IF account.grants["first"] = 0
       THEN [account EXCEPT !.grants["first"] = run.api] ELSE account, "gateway role")

(* If the control plane rejects the custom claims they are left out.       *)
EnsureGateway(audience, step, next) ==
  \E claims \in BOOLEAN, status \in {"READY", "FAILED"} :
    \/ HasGateway /\ Call(step, WithAuthorizer(audience, claims, status), next)
    \/ \E g \in FreshGateways :
         ~HasGateway /\ Call(step, WithCreatedGateway(g, audience, claims, status), next)

(* Its own URL, as the metadata of the gateway says.                       *)
GatewayAudience == account.gateway.id

Gateways ==
  \/ EnsureGateway(0, "gateway", "wait gateway")
  \/ EnsureGateway(GatewayAudience, "authorizer", "wait authorizer")

WaitGateway(step, next) ==
  account.gateway.status = "READY" /\ Call(step, account, next)

WaitGateways ==
  \/ WaitGateway("wait gateway", "authorizer")
  \/ WaitGateway("wait authorizer", "target")

EnsureTarget == Call("target", WithTarget(run.api), "save")

SaveState ==
  /\ run.step = "save"
  /\ file' = [api |-> run.api, gateway |-> account.gateway.id,
              audience |-> account.gateway.audience, claims |-> account.gateway.claims]
  /\ run' = Idle
  /\ UNCHANGED account

Deploy ==
  \/ StartDeploy \/ EnsureReplayTable \/ EnsureRoles \/ EnsureFunctions \/ EnsureApi
  \/ AllowApiGateway \/ Gateways \/ WaitGateways \/ EnsureTarget \/ SaveState

StartClean == Start("remove", "remove target")

(* Deleting targets takes time.  After two minutes the gateway is deleted  *)
(* all the same, and the refusal because of its targets is ignored.        *)
RemoveGateway ==
  \/ Call("remove target", WithTarget(0), "remove gateway")
  \/ Call("remove target", account, "remove gateway")
  \/ Call("remove gateway",
          IF account.gateway.target = 0
          THEN [account EXCEPT !.gateway = NoGateway] ELSE account, "remove api")

(* The first API of that name, if there is one. *)
RemoveApi ==
  \/ \E i \in FoundByName :
       Call("remove api", [account EXCEPT !.apis[i] = [NoApi EXCEPT !.status = "gone"]],
            "remove functions")
  \/ FoundByName = {} /\ Call("remove api", account, "remove functions")

(* Faulty: the interceptor is forgotten. *)
RemoveTargetOnly ==
  \/ Call("remove functions", WithoutFunction("target"), "remove interceptor")
  \/ Call("remove interceptor", account, "remove table")

RemoveFunctions ==
  \/ Call("remove functions", WithoutFunction("target"), "remove interceptor")
  \/ Call("remove interceptor", WithoutFunction("interceptor"), "remove table")

RemoveTable ==
  Call("remove table", [account EXCEPT !.table = FALSE], "remove target role")

(* A role goes after its policy. *)
RemoveRole(n, step, next) ==
  IF account.roles[n].policy # {}
  THEN Call(step, WithPolicy(n, {}), step)
  ELSE Call(step, [account EXCEPT !.roles[n] = NoRole], next)

RemoveRoles ==
  \/ RemoveRole("target", "remove target role", "remove interceptor role")
  \/ RemoveRole("interceptor", "remove interceptor role", "remove gateway role")
  \/ RemoveRole("gateway", "remove gateway role", "remove files")

FinishClean ==
  /\ run.step = "remove files"
  /\ run' = Idle
  /\ file' = NoFile
  /\ UNCHANGED account

Clean ==
  \/ StartClean \/ RemoveGateway \/ RemoveApi \/ RemoveFunctions \/ RemoveTable
  \/ RemoveRoles \/ FinishClean

Next == Deploy \/ Clean \/ Abort

Spec == AccountInit /\ [][Next]_deployVars

-----------------------------------------------------------------------------
(* Properties. *)

Connected ==
  LET g == account.gateway
      i == g.target IN
  /\ g.id # 0 /\ g.status = "READY" /\ g.audience = g.id
  /\ account.table
  /\ \A f \in FunctionNames : account.functions[f].exists
  /\ account.functions["target"].env = account.functions["interceptor"].env
  /\ i \in ApiIDs /\ account.apis[i].status = "live" /\ account.apis[i].stage # "none"
  /\ account.roles["gateway"] = [exists |-> TRUE, policy |-> GatewayPolicy(i)]

(* After a clean nothing is left that a later deployment could mistake for *)
(* its own, other than a gateway whose targets were slow to go.            *)
Removed ==
  /\ \A f \in FunctionNames : ~account.functions[f].exists
  /\ ~account.table
  /\ \A n \in RoleNames : ~account.roles[n].exists
  /\ FoundByName = {}
  /\ HasGateway => account.gateway.target # 0

(* "This idempotently creates one Gateway, one API Gateway route, two      *)
(* Lambdas, ..." (README.md:122): after a run that completes the API may   *)
(* run the function.                                                       *)
DeployedApiMayRun ==
  [][SaveState => account.grants["first"] = run.api]_deployVars

=============================================================================
