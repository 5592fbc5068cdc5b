----------------------------- MODULE OrderDesk -----------------------------
(***************************************************************************)
(* Recipe 31: two services behind DnsidAuthMiddleware (ingress.py): the    *)
(* agent, which answers questions and may place orders, and the tools API, *)
(* which takes orders from the agent.  The agent's model chooses tools,    *)
(* also such as it was not offered; DnsidToolPolicyMiddleware (agent.py)   *)
(* and the signing client (egress.py) decide what comes of it.             *)
(*                                                                         *)
(* Left out: what is asked, ordered and answered; the conversations, one   *)
(* for each caller.                                                        *)
(***************************************************************************)
EXTENDS ReplayGuard

CONSTANTS
  Peer,    \* PLACE_ORDER_ALLOWLIST
  Desk     \* the agent's own identity, ORDERING_AGENT

DeskAssumption ==
  /\ Desk \in Identities /\ {"agent", "tools"} \subseteq Services
  /\ \A s \in {"agent", "tools"} : Kept[s] = 1

(* Who is not the agent asks it, or orders from the tools API.             *)
SendSigned(n) ==
  \E from \in Identities \ {Desk} :
    \/ Sign(n, from, "agent", "question", NoCall)
    \/ Sign(n, from, "tools", "order", NoCall)

Request(c) == \E n \in Nonces, altered \in BOOLEAN : Deliver(c, n, altered)

(* A second longer than the signature is valid. *)
RememberedUntil(c) == MessageOf(c).created + MaxAge + 1

(* _check_replay: forgets, looks and records at once.                      *)
CheckReplay(c) ==
  LET s    == Service(c)
      kept == [n \in Nonces |-> IF seen[s][n] > clock THEN seen[s][n] ELSE 0]
      new  == kept[calls[c].nonce] = 0 IN
  /\ At(c, "judged")
  /\ seen' = [seen EXCEPT ![s] =
       IF new THEN [kept EXCEPT ![calls[c].nonce] = RememberedUntil(c)] ELSE kept]
  /\ IF new THEN GoTo(c, "passed") ELSE GoDenied(c)
  /\ UNCHANGED <<clock, messages>>

(* request.state.dnsid_caller. *)
Caller(c) == MessageOf(c).from

(* Faulty: tools are only hidden from the model. *)
AllowedWhateverOffered(tool, c) == TRUE

(* _allowed, asked again when a tool is called. *)
Allowed(tool, c) == tool = "order" => Caller(c) = Peer

(* The agent calls a tool: its client verifies the peer, signs, and sends. *)
CallTool(c, n) ==
  \E tool \in {"order", "fetch"} :
    /\ At(c, "passed") /\ Service(c) = "agent"
    /\ Allowed(tool, c)
    /\ Sign(n, Desk, "tools", tool, c)

Reply(c) ==
  /\ At(c, "passed") /\ Service(c) = "agent"
  /\ GoTo(c, "served")
  /\ UNCHANGED <<clock, messages, seen>>

(* The route: only the agent may place orders.                             *)
Route(c) ==
  /\ At(c, "passed") /\ Service(c) = "tools"
  /\ GoTo(c, IF MessageOf(c).ask = "order" /\ Caller(c) # Desk THEN "refused" ELSE "served")
  /\ UNCHANGED <<clock, messages, seen>>

DeskNext ==
  \/ \E n \in Nonces : SendSigned(n)
  \/ \E c \in Calls :
       \/ Request(c) \/ Judge(c) \/ Deny(c) \/ CheckReplay(c) \/ Reply(c) \/ Route(c)
       \/ \E n \in Nonces : CallTool(c, n)
  \/ Tick

-----------------------------------------------------------------------------
(* Properties. *)

(* Whatever the model and the callers come up with: an order that the      *)
(* tools API takes was placed by the agent, for a question of a caller     *)
(* that is on the list and whose message the agent has accepted.           *)
OrdersComeFromPeers ==
  \A c \in Calls :
    At(c, "served") /\ MessageOf(c).to = "tools" /\ MessageOf(c).ask = "order" =>
      LET o == MessageOf(c).origin IN
      /\ Caller(c) = Desk /\ o \in Calls
      /\ calls[o].step \in Accepted
      /\ Service(o) = "agent" /\ Caller(o) = Peer

=============================================================================
