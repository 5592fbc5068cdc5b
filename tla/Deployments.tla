---------------------------- MODULE Deployments ----------------------------
(***************************************************************************)
(* The three recipes that deploy to AWS, each in an account of its own:    *)
(* their resources have different names, so what the scripts of one recipe *)
(* do does not touch another.  The account of one of them is looked at.    *)
(***************************************************************************)
EXTENDS AwsAccount

VARIABLE recipe

Image  == INSTANCE ImageDeploy
Oidc   == INSTANCE OidcDeploy
Orders == INSTANCE OrdersDeploy

Init == AccountInit /\ recipe \in {"07", "07b", "30"}

Next ==
  /\ \/ recipe = "07" /\ Image!Next
     \/ recipe = "07b" /\ Oidc!Next
     \/ recipe = "30" /\ Orders!Next
  /\ UNCHANGED recipe

Spec == Init /\ [][Next]_<<deployVars, recipe>>

-----------------------------------------------------------------------------
(* Properties: those of the recipes, of their own accounts. *)

(* An API that anybody may call never runs the image function.             *)
NeverOpen == recipe = "07" => Image!NeverOpen

(* Redeploying over a complete deployment never takes it down.             *)
RedeployKeepsServing == recipe = "07" => Image!RedeployKeepsServing

(* A deployment of recipe 07b that gets as far as its state file leaves a  *)
(* gateway that serves, whatever runs were broken off before it.           *)
DeployCompletes == [][recipe = "07b" /\ Oidc!SaveState => Oidc!Works]_deployVars

(* A deployment of recipe 30 that gets as far as its state file leaves a   *)
(* gateway that is ready for callers with its audience, an API behind it   *)
(* that it may call, the table, and both functions with one secret.        *)
DeployConnects == [][recipe = "30" /\ Orders!SaveState => Orders!Connected]_deployVars

(* A teardown of recipe 07b that completes leaves only gateways that its   *)
(* state file does not name.                                               *)
TeardownLeavesOnlyStrays ==
  [][recipe = "07b" /\ Oidc!VerifyAbsent => Oidc!OnlyStrays]_deployVars

(* A removal of recipe 30 that completes leaves at most a gateway whose    *)
(* target was slow to go, whatever was broken off before it.               *)
CleanRemoves == [][recipe = "30" /\ Orders!FinishClean => Orders!Removed]_deployVars

=============================================================================
