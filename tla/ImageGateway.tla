---------------------------- MODULE ImageGateway ----------------------------
(***************************************************************************)
(* What stands behind the gateway URL of recipe 07: the gateway with its   *)
(* authorizer, the interceptor (interceptor.py), the target function       *)
(* (aws_handler.py, trusted_context.py) and its bucket (s3_store.py); and  *)
(* of recipe 07b, whose gateway calls the target (lambda_handler.py)       *)
(* without an interceptor and which stores nothing.                        *)
(*                                                                         *)
(* A caller has one call to generate_image.  The caller may stop waiting;  *)
(* the target works on.                                                    *)
(***************************************************************************)
EXTENDS Naturals, FiniteSets

CONSTANTS Callers,  \* programs, or threads of one, that call the gateway
          Agent,    \* the subject the deployment is for
          Others    \* other subjects

ASSUME SubjectAssumption == Others # {} /\ Agent \notin Others

VARIABLES
  gateway,   \* how the gateway is configured
  expired,   \* the callers whose tokens have expired
  target,    \* the target's run for the call of a caller
  images,    \* the callers whose image is in the bucket
  audits     \* the audit records in the bucket

gatewayVars == <<gateway, expired, target, images, audits>>

Subjects == {Agent} \cup Others

(* recipe 07b has no interceptor.  tools: what the target offers.          *)
Gateway == [recipe : {"07", "07b"}, signatures : BOOLEAN, audience : BOOLEAN,
            claims : BOOLEAN, sessions : BOOLEAN, interceptor : BOOLEAN,
            filter : BOOLEAN, tools : SUBSET {"generate_image", "whoami_dnsid", "debug_denied"}]

(* As the deployment script configures it: see ImageDeploy.                *)
Deployed(recipe) ==
  {g \in Gateway : /\ g.recipe = recipe /\ g.signatures /\ g.audience /\ g.sessions
                   /\ g.interceptor = g.filter
                   /\ recipe = "07" => g.interceptor
                   /\ recipe = "07b" => g.claims /\ ~g.interceptor
                   /\ g.tools = {"generate_image", "whoami_dnsid"}}

(* jti: the caller it was issued to; the script mangles tokens.            *)
Token   == [signed : BOOLEAN, audience : BOOLEAN, sub : Subjects, jti : Callers]
TokenOf(c, sub) == [signed |-> TRUE, audience |-> TRUE, sub |-> sub, jti |-> c]
NoToken == <<>>

NoHeaders == <<>>

IdleRun == [step |-> "idle", headers |-> NoHeaders, valid |-> TRUE, identity |-> FALSE]

GatewayInit ==
  /\ expired = {}
  /\ target = [c \in Callers |-> IdleRun]
  /\ images = {}
  /\ audits = {}

-----------------------------------------------------------------------------
(* The way in. *)

(* Does the authorizer accept the token? *)
Authorized(token) ==
  \/ ~gateway.signatures
  \/ /\ token # NoToken /\ token.signed /\ token.jti \notin expired
     /\ gateway.audience => token.audience
     /\ gateway.claims => token.sub = Agent

(* validate_claims: the interceptor looks at the claims again, but not at  *)
(* the signature.                                                          *)
ValidClaims(token) ==
  /\ token # NoToken
  /\ token.sub = Agent /\ token.audience /\ token.jti \notin expired

(* session: the request has one, or is the one that opens it.              *)
Status(token, session) ==
  IF ~Authorized(token) THEN 401
  ELSE IF gateway.interceptor /\ ~ValidClaims(token) THEN 403
  ELSE IF gateway.sessions /\ ~session THEN 400
  ELSE 200

(* transform_request: the interceptor replaces all headers.                *)
TrustedHeaders(token, headers) ==
  IF gateway.interceptor THEN [sub |-> token.sub, jti |-> token.jti] ELSE headers

(* filter_tools_body keeps the tools with the two known names.             *)
ListedTools ==
  IF gateway.filter THEN gateway.tools \cap {"generate_image", "whoami_dnsid"}
  ELSE gateway.tools

(* The target configuration filters by path. *)
Callable(tool) == tool \in gateway.tools

(* parse_trusted_context, with the subject the target is deployed for.     *)
Trusted(headers) == headers # NoHeaders /\ headers.sub = Agent

(* handle_whoami: the subject, or an error. *)
Whoami(token, headers) ==
  LET h == TrustedHeaders(token, headers) IN
  IF Trusted(h) THEN {h.sub} ELSE {}

-----------------------------------------------------------------------------
(* The target. *)

(* The gateway passes a call on.  valid: the arguments are; identity: they *)
(* name an identity.                                                       *)
Pass(c, token, headers, valid, identity) ==
  target' = [target EXCEPT ![c] =
    [step |-> "received", headers |-> TrustedHeaders(token, headers),
     valid |-> valid, identity |-> identity]]

Goto(c, step) == target' = [target EXCEPT ![c].step = step]

(* handle_generate: identity first, then the arguments.  The target of     *)
(* recipe 07b does not know who calls.                                     *)
Accept(c) ==
  /\ target[c].step = "received"
  /\ Goto(c, IF (gateway.recipe = "07" /\ ~Trusted(target[c].headers)) \/ ~target[c].valid
             THEN "refused" ELSE "generate")
  /\ UNCHANGED <<gateway, expired, images, audits>>

(* generate: one call of the model, which may refuse or send no image.     *)
Generate(c) ==
  /\ target[c].step = "generate"
  /\ \/ Goto(c, IF gateway.recipe = "07" THEN "store" ELSE "succeeded")
     \/ Goto(c, "failed")
  /\ UNCHANGED <<gateway, expired, images, audits>>

(* Faulty: the answer does not wait for the audit record. *)
WriteImageOnly(c) ==
  /\ target[c].step = "store"
  /\ \/ images' = images \cup {c} /\ Goto(c, "succeeded")
     \/ images' \in {images, images \cup {c}} /\ Goto(c, "failed")
  /\ UNCHANGED <<gateway, expired, audits>>

(* Faulty: a failing put_object goes unnoticed. *)
WriteImageUnnoticed(c) ==
  /\ target[c].step = "store"
  /\ images' \in {images, images \cup {c}}
  /\ Goto(c, "audit")
  /\ UNCHANGED <<gateway, expired, audits>>

(* put_object may fail and have stored the object all the same.            *)
WriteImage(c) ==
  /\ target[c].step = "store"
  /\ \/ images' = images \cup {c} /\ Goto(c, "audit")
     \/ images' \in {images, images \cup {c}} /\ Goto(c, "failed")
  /\ UNCHANGED <<gateway, expired, audits>>

AuditRecord(c) ==
  [image |-> c, sub |-> target[c].headers.sub, jti |-> target[c].headers.jti,
   ignored |-> target[c].identity]

RecordAudit(c) ==
  /\ target[c].step = "audit"
  /\ \/ audits' = audits \cup {AuditRecord(c)} /\ Goto(c, "succeeded")
     \/ audits' \in {audits, audits \cup {AuditRecord(c)}} /\ Goto(c, "failed")
  /\ UNCHANGED <<gateway, expired, images>>

Running == {"received", "generate", "store", "audit"}

(* The function is stopped when its time is up. *)
StopTarget(c) ==
  /\ target[c].step \in Running
  /\ Goto(c, "failed")
  /\ UNCHANGED <<gateway, expired, images, audits>>

TargetStep(c) == Accept(c) \/ Generate(c) \/ WriteImage(c) \/ RecordAudit(c)

(* The token of a caller expires. *)
Expire(c) ==
  /\ c \notin expired
  /\ expired' = expired \cup {c}
  /\ UNCHANGED <<gateway, target, images, audits>>

-----------------------------------------------------------------------------
(* Properties. *)

(* Whatever a caller writes into headers and arguments, and whichever call *)
(* was lost: an audit record is of an image that is in the bucket, and it  *)
(* names the subject of the token that paid for it and that token.         *)
AuditsNameTheCaller ==
  \A a \in audits : a.image \in images /\ a.sub = Agent /\ a.jti = a.image

=============================================================================
