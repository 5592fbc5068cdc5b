-------------------------- MODULE GatewayVerifier --------------------------
(***************************************************************************)
(* The scripts that verify a deployed gateway from outside:                *)
(* scripts/invoke_gateway_mcp.py of recipe 07, which spoofs headers and    *)
(* arguments and reads the audit record, and scripts/verify_gateway.py of  *)
(* recipe 07b.  They raise on the first answer that is not as it should be.*)
(***************************************************************************)
EXTENDS ImageGateway

CONSTANTS Verifier   \* the script as a caller

ASSUME VerifierAssumption == Verifier \in Callers

VARIABLE script      \* the next step of the script

VerifierInit == script = "missing token"

ThisAgent     == TokenOf(Verifier, Agent)
WrongAudience == [ThisAgent EXCEPT !.audience = FALSE]
Unsigned      == [ThisAgent EXCEPT !.signed = FALSE]
Spoofed       == [sub |-> CHOOSE s \in Others : TRUE, jti |-> Verifier]

(* One request and what its answer must be.  It may also fail to arrive.   *)
Check(step, right, next) ==
  /\ script = step
  /\ script' \in IF right THEN {next, "failed"} ELSE {"failed"}
  /\ UNCHANGED gatewayVars

(* assert_auth_denied. *)
AuthDenied(status) == status \in {401, 403}

DeniesUnsigned == AuthDenied(Status(Unsigned, TRUE))

(* Faulty: a token for another audience is not tried. *)
DeniesOutsidersLess ==
  \/ Check("missing token", Status(NoToken, FALSE) = 401, "wrong audience")
  \/ Check("wrong audience", TRUE, "unsigned")
  \/ Check("unsigned", DeniesUnsigned, "initialize")

(* Without a token and with one for another audience a tool list is asked  *)
(* for, without a session; with an unsigned token a session.               *)
DeniesOutsiders ==
  \/ Check("missing token", Status(NoToken, FALSE) = 401, "wrong audience")
  \/ Check("wrong audience",
           IF gateway.recipe = "07" THEN Status(WrongAudience, FALSE) >= 400
           ELSE AuthDenied(Status(WrongAudience, FALSE)), "unsigned")
  \/ Check("unsigned", DeniesUnsigned, "initialize")

(* Only recipe 07 tries a call without a session.                          *)
OpensSession ==
  \/ Check("initialize", Status(ThisAgent, TRUE) < 400, "initialized")
  \/ Check("initialized", Status(ThisAgent, TRUE) < 400,
           IF gateway.recipe = "07" THEN "no session" ELSE "list")
  \/ Check("no session", Status(ThisAgent, FALSE) >= 400, "list")

(* Recipe 07b looks for its tool and does not mind others.                 *)
ListsTools ==
  Check("list",
        /\ Status(ThisAgent, TRUE) < 400
        /\ IF gateway.recipe = "07" THEN ListedTools = {"generate_image", "whoami_dnsid"}
           ELSE "generate_image" \in ListedTools,
        IF gateway.recipe = "07" THEN "whoami" ELSE "call")

(* With a header that names somebody else. *)
AsksWhoami ==
  Check("whoami",
        Status(ThisAgent, TRUE) < 400 /\ Whoami(ThisAgent, Spoofed) = {Agent}, "call")

(* Recipe 07: with an argument that names somebody else. *)
CallsGenerate ==
  /\ script = "call"
  /\ \/ /\ Status(ThisAgent, TRUE) < 400
        /\ Pass(Verifier, ThisAgent, NoHeaders, TRUE, gateway.recipe = "07")
        /\ script' = "called"
     \/ script' = "failed" /\ UNCHANGED target
  /\ UNCHANGED <<gateway, expired, images, audits>>

(* assert_generated_contract: the subject and the ignored argument are     *)
(* reported.  Recipe 07b has the image in the answer.                      *)
ChecksResult ==
  Check("called", target[Verifier].step = "succeeded",
        IF gateway.recipe = "07" THEN "fetch" ELSE "ok")

(* assert_audit_contract. *)
ChecksStored ==
  \/ Check("fetch", Verifier \in images, "audit")
  \/ Check("audit", [image |-> Verifier, sub |-> Agent, jti |-> Verifier,
                     ignored |-> TRUE] \in audits, "debug")

(* What a call of the tool that is not to be called comes back as.  If it  *)
(* reaches the target, that answers with 403 (aws_handler.py:40); what the *)
(* gateway makes of such an answer is not in the repository.               *)
DebugAnswers ==
  IF Status(ThisAgent, TRUE) >= 400 \/ ~Callable("debug_denied") THEN {"error"}
  ELSE {"error", "result"}

(* assert_json_rpc_error: any error will do, with whatever status, that    *)
(* for a token which has expired included.                                 *)
TriesDebug == \E answer \in DebugAnswers : Check("debug", answer = "error", "ok")

VerifierStep ==
  \/ DeniesOutsiders \/ OpensSession \/ ListsTools \/ AsksWhoami \/ CallsGenerate
  \/ ChecksResult \/ ChecksStored \/ TriesDebug

-----------------------------------------------------------------------------
(* Properties. *)

(* What a successful verification shows, whatever the gateway is like and  *)
(* whenever the token of the script expires: signatures are verified, the  *)
(* tool is there; in recipe 07b, tokens are for this gateway; in recipe    *)
(* 07, the interceptor is at work, calls need a session and no other tools *)
(* are listed.  It does not show that the authorizer looks at the subject, *)
(* nor in recipe 07 at the audience: the request that tries it is refused  *)
(* for want of a session anyhow.  Nor does it show that a tool which is    *)
(* not listed cannot be called: what the script takes for the refusal of   *)
(* debug_denied may be that of its expired token.                          *)
VerifiedIsSound ==
  script = "ok" =>
    /\ gateway.signatures
    /\ "generate_image" \in gateway.tools
    /\ gateway.recipe = "07b" => gateway.audience
    /\ gateway.recipe = "07" =>
         /\ gateway.interceptor /\ gateway.sessions
         /\ ListedTools = {"generate_image", "whoami_dnsid"}

=============================================================================
