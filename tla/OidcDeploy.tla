----------------------------- MODULE OidcDeploy -----------------------------
(***************************************************************************)
(* scripts/deploy_gateway.py, teardown_gateway.py and gateway_resources.py *)
(* of recipe 07b: a gateway whose target is a function, made and removed.  *)
(*                                                                         *)
(* Resources of the same name that carry other tags (require_recipe_owned) *)
(* end a run before it changes them, as any failing call does (Abort).     *)
(* Left out: the log group.                                                *)
(***************************************************************************)
EXTENDS AwsAccount

TargetPolicy  == {<<"logs", 0>>}
GatewayPolicy == {<<"function", 0>>}

(* The target of the gateway: the one function.                            *)
TheFunction == 1

StartDeploy == Start("deploy", "target role")

CreateRoles ==
  \/ Call("target role", WithRole("target"), "target policy")
  \/ Call("target policy", WithPolicy("target", TargetPolicy), "target function")
  \/ Call("gateway role", WithRole("gateway"), "gateway policy")
  \/ Call("gateway policy", WithPolicy("gateway", GatewayPolicy), "gateway")

TargetFunction == Call("target function", WithFunction("target", 0), "gateway role")

(* Its own URL, as the metadata of the gateway says.                       *)
VerifiedAudience == account.gateway.id

(* create_or_update_gateway, for which custom claims are not optional.     *)
UpsertGateway(audience, step, next) ==
  \E status \in {"READY", "FAILED"} :
    \/ HasGateway /\ Call(step, WithAuthorizer(audience, TRUE, status), next)
    \/ \E g \in FreshGateways :
         ~HasGateway /\ Call(step, WithCreatedGateway(g, audience, TRUE, status), next)

(* Faulty: the audience that was found is not put in force. *)
GatewaysOnce ==
  \/ UpsertGateway(0, "gateway", "wait gateway")
  \/ Call("authorizer", account, "wait authorizer")

(* Also an existing gateway gets the provisional audience first.           *)
Gateways ==
  \/ UpsertGateway(0, "gateway", "wait gateway")
  \/ UpsertGateway(VerifiedAudience, "authorizer", "wait authorizer")

WaitGateway(step, next) ==
  account.gateway.status = "READY" /\ Call(step, account, next)

WaitGateways ==
  \/ WaitGateway("wait gateway", "authorizer")
  \/ WaitGateway("wait authorizer", "target")

(* The target is created, or updated to what target_params says.           *)
EnsureGatewayTarget == Call("target", WithTarget(TheFunction), "wait target")

(* It is ready, synchronized, and ready again. *)
WaitTarget == Call("wait target", account, "save")

SaveState ==
  /\ run.step = "save"
  /\ file' = [api |-> 0, gateway |-> account.gateway.id,
              audience |-> account.gateway.audience, claims |-> TRUE]
  /\ run' = Idle
  /\ UNCHANGED account

Deploy ==
  \/ StartDeploy \/ CreateRoles \/ TargetFunction \/ Gateways \/ WaitGateways
  \/ EnsureGatewayTarget \/ WaitTarget \/ SaveState

(* Without a state file there is nothing to do. *)
StartTeardown == file # NoFile /\ Start("remove", "remove target")

(* The gateway is the one of the state file; if it is gone that is fine.   *)
Named == account.gateway.id = file.gateway

(* Faulty: the target is not deleted first, so the gateway stays.          *)
RemoveGatewayOnly ==
  \/ Call("remove target", account, "remove gateway")
  \/ Call("remove gateway",
          IF Named /\ account.gateway.target = 0
          THEN [account EXCEPT !.gateway = NoGateway] ELSE account, "remove function")

RemoveGateway ==
  \/ Call("remove target", IF Named THEN WithTarget(0) ELSE account, "remove gateway")
  \/ Call("remove gateway",
          IF Named THEN [account EXCEPT !.gateway = NoGateway] ELSE account,
          "remove function")

RemoveFunction == Call("remove function", WithoutFunction("target"), "remove target policy")

(* delete_role refuses a role that still has a policy.                     *)
RemoveRoles ==
  \/ Call("remove target policy", WithPolicy("target", {}), "remove target role")
  \/ Call("remove target role", [account EXCEPT !.roles["target"] = NoRole],
          "remove gateway policy")
  \/ Call("remove gateway policy", WithPolicy("gateway", {}), "remove gateway role")
  \/ Call("remove gateway role", [account EXCEPT !.roles["gateway"] = NoRole], "verify absent")

(* Looks for the gateway of the state file, the function and the roles, and *)
(* prints what it finds.                                                   *)
VerifyAbsent ==
  /\ run.step = "verify absent"
  /\ run' = Idle
  /\ UNCHANGED <<account, file>>

Teardown ==
  StartTeardown \/ RemoveGateway \/ RemoveFunction \/ RemoveRoles \/ VerifyAbsent

Next == Deploy \/ Teardown \/ Abort

Spec == AccountInit /\ [][Next]_deployVars

-----------------------------------------------------------------------------
(* Properties. *)

Works ==
  LET g == account.gateway IN
  /\ g.id # 0 /\ g.status = "READY" /\ g.audience = g.id
  /\ account.functions["target"].exists
  /\ account.roles["target"].exists
  /\ account.roles["gateway"] = [exists |-> TRUE, policy |-> GatewayPolicy]
  /\ g.target = TheFunction

(* Nothing is left of the recipe, apart from a gateway that the state file *)
(* does not know, from a deployment that was broken off.                   *)
OnlyStrays ==
  /\ ~Named
  /\ \A f \in FunctionNames : ~account.functions[f].exists
  /\ \A n \in RoleNames : ~account.roles[n].exists

=============================================================================
