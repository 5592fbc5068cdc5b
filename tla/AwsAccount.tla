----------------------------- MODULE AwsAccount -----------------------------
(***************************************************************************)
(* What the deployment scripts of recipes 07, 07b and 30 find in and do to *)
(* an AWS account, and how a run of such a script proceeds.                *)
(*                                                                         *)
(* A script is a sequence of calls.  A call that fails raises, which ends  *)
(* the run; so does an interrupt.  Whatever was done stays done, and what  *)
(* the run knew is lost, apart from the state file.  One operator runs one *)
(* script at a time, so the calls that only read belong to the step of the *)
(* next call that writes.                                                  *)
(*                                                                         *)
(* Left out: what is the same in every run (regions, names, code, trust    *)
(* policies, tags where the script does not look at them).                 *)
(***************************************************************************)
EXTENDS Naturals, FiniteSets

CONSTANTS
  ApiIDs,              \* ids that API Gateway hands out
  GatewayIDs,          \* ids that AgentCore hands out
  Sentinels,           \* random tokens
  OverwriteTakesTitle  \* whether put_rest_api renames an API to its title

ASSUME AccountAssumption ==
  /\ ApiIDs \subseteq Nat \ {0}
  /\ GatewayIDs \subseteq Nat \ {0}
  /\ Sentinels \subseteq Nat \ {0}
  /\ OverwriteTakesTitle \in BOOLEAN

VARIABLES
  account,  \* the resources
  run,      \* the script that is running and what it knows
  file      \* the state file, as the last complete run left it

deployVars == <<account, run, file>>

RoleNames     == {"target", "interceptor", "gateway"}
FunctionNames == {"target", "interceptor"}
Routes        == {"first", "second"}

(* What a role may use: <<"api", id>>, or <<kind, 0>> if there is only one. *)
Role     == [exists : BOOLEAN,
             policy : SUBSET ({"api", "function", "logs", "table"} \X Nat)]
(* The environment of a function, or 0.                                    *)
Function == [exists : BOOLEAN, env : Nat]
(* stage: what is deployed.  policy: only the gateway may call it.         *)
Api      == [status : {"unused", "live", "gone"}, named : BOOLEAN,
             policy : BOOLEAN, stage : {"none", "open", "restricted"}]
(* id 0: none.  Its URL, and so the audience of its tokens, is its own.    *)
(* Audience 0 is the provisional one; target is the id of what it invokes. *)
Gateway  == [id : Nat, audience : Nat, claims : BOOLEAN,
             status : {"READY", "FAILED"}, target : Nat]

Account == [bucket : {"none", "open", "private"}, table : BOOLEAN,
            roles : [RoleNames -> Role], functions : [FunctionNames -> Function],
            grants : [Routes -> Nat], apis : [ApiIDs -> Api], gateway : Gateway,
            gatewaysMade : Nat]

NoRole     == [exists |-> FALSE, policy |-> {}]
NoFunction == [exists |-> FALSE, env |-> 0]
NoApi      == [status |-> "unused", named |-> FALSE, policy |-> FALSE, stage |-> "none"]
NoGateway  == [id |-> 0, audience |-> 0, claims |-> FALSE, status |-> "READY", target |-> 0]

EmptyAccount ==
  [bucket |-> "none", table |-> FALSE, roles |-> [n \in RoleNames |-> NoRole],
   functions |-> [f \in FunctionNames |-> NoFunction],
   grants |-> [t \in Routes |-> 0], apis |-> [i \in ApiIDs |-> NoApi],
   gateway |-> NoGateway, gatewaysMade |-> 0]

(* script: which one; step: its next call; api, claims, sentinel: what it  *)
(* has found out.                                                          *)
Run == [script : {"none", "deploy", "remove"}, step : STRING, api : Nat,
        claims : BOOLEAN, sentinel : Nat]

Idle   == [script |-> "none", step |-> "idle", api |-> 0, claims |-> FALSE, sentinel |-> 0]
NoFile == [api |-> 0, gateway |-> 0, audience |-> 0, claims |-> FALSE]

AccountTypeOK ==
  /\ account \in Account
  /\ run \in Run
  /\ file \in [api : Nat, gateway : Nat, audience : Nat, claims : BOOLEAN]

AccountInit == account = EmptyAccount /\ run = Idle /\ file = NoFile

-----------------------------------------------------------------------------
(* Runs. *)

Start(script, first) ==
  /\ run = Idle
  /\ run' = [Idle EXCEPT !.script = script, !.step = first]
  /\ UNCHANGED <<account, file>>

(* The call of a step, which leaves the account as new.                    *)
Call(step, new, next) ==
  /\ run.step = step
  /\ account' = new
  /\ run' = [run EXCEPT !.step = next]
  /\ UNCHANGED file

(* A call failed, gave up waiting, or the operator interrupted the script. *)
Abort ==
  /\ run.script # "none"
  /\ run' = Idle
  /\ UNCHANGED <<account, file>>

-----------------------------------------------------------------------------
(* What the calls do to the account. *)

WithRole(n) == [account EXCEPT !.roles[n].exists = TRUE]

WithPolicy(n, policy) == [account EXCEPT !.roles[n].policy = policy]

WithFunction(f, env) ==
  [account EXCEPT !.functions[f] = [exists |-> TRUE, env |-> env]]

FreshApis == {i \in ApiIDs : account.apis[i].status = "unused"}

(* import_rest_api names the API by the title of its definition.           *)
WithImported(i, policy) ==
  [account EXCEPT !.apis[i] =
     [status |-> "live", named |-> FALSE, policy |-> policy, stage |-> "none"]]

WithOverwritten(i, policy) ==
  [account EXCEPT !.apis[i].policy = policy,
                  !.apis[i].named = @ /\ ~OverwriteTakesTitle]

WithNamed(i) == [account EXCEPT !.apis[i].named = TRUE]

(* A deployment is a copy of the definition and its policy.                *)
WithStage(i) ==
  [account EXCEPT !.apis[i].stage =
     IF account.apis[i].policy THEN "restricted" ELSE "open"]

(* The pages of get_rest_apis come in no particular order.                 *)
FoundByName == {i \in ApiIDs : account.apis[i].status = "live" /\ account.apis[i].named}

HasGateway == account.gateway.id # 0

(* Ids are not used again. *)
FreshGateways == {account.gatewaysMade + 1} \cap GatewayIDs

(* A gateway that is created or updated becomes ready, or fails.           *)
WithCreatedGateway(id, audience, claims, status) ==
  [account EXCEPT !.gateway = [id |-> id, audience |-> audience, claims |-> claims,
                               status |-> status, target |-> 0],
                    !.gatewaysMade = id]

WithAuthorizer(audience, claims, status) ==
  [account EXCEPT !.gateway.audience = audience, !.gateway.claims = claims,
                  !.gateway.status = status]

WithTarget(target) == [account EXCEPT !.gateway.target = target]

(* A function's permissions go with it. *)
WithoutFunction(f) ==
  [account EXCEPT !.functions[f] = NoFunction,
                  !.grants = IF f = "target" THEN [t \in Routes |-> 0] ELSE @]

=============================================================================
