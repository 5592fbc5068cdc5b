--------------------------- MODULE IngressWorker ---------------------------
(***************************************************************************)
(* Recipe 32: a worker in front of a service (ingress.ts).  It verifies a  *)
(* signed request, claims its nonce in a durable object (shared/replay.ts) *)
(* and forwards it.  Each signer has an object of its own, whose claims    *)
(* come one at a time.  Another worker (egress.ts) signs for clients that  *)
(* cannot.                                                                 *)
(*                                                                         *)
(* Left out: headers and paths; how a worker sets itself up.               *)
(***************************************************************************)
EXTENDS ReplayGuard

WorkerAssumption == "origin" \in Services /\ Kept["origin"] = 1

(* Agents sign themselves, or have the egress worker sign for the agent    *)
(* whose token they show.                                                  *)
SignRequest(n) == \E from \in Identities : Sign(n, from, "origin", "fetch", NoCall)

Request(c) == \E n \in Nonces, altered \in BOOLEAN : Deliver(c, n, altered)

(* Remembered until the signature has expired, the skew that is granted to *)
(* clocks included.                                                        *)
ClaimedUntil(c) == MessageOf(c).created + MaxAge + 1

(* claim: the object of the signer forgets what has expired and records    *)
(* the nonce, unless it has it.  It counts in milliseconds: within the     *)
(* tick in which a nonce expires it is as good as gone.  The answer may be *)
(* lost, after which the worker fails the request.                         *)
Claim(c) ==
  LET n    == calls[c].nonce
      kept == [m \in Nonces |->
                 IF messages[m].from = MessageOf(c).from /\ seen["origin"][m] <= clock
                 THEN 0 ELSE seen["origin"][m]]
      new  == kept[n] = 0 IN
  /\ At(c, "judged")
  /\ seen' = [seen EXCEPT !["origin"] =
       IF new THEN [kept EXCEPT ![n] = ClaimedUntil(c)] ELSE kept]
  /\ \/ new /\ GoTo(c, "passed")
     \/ GoDenied(c)
  /\ UNCHANGED <<clock, messages>>

(* The request goes to the service.  Its nonce is used up, whatever the    *)
(* service answers, also if it is out of reach.                            *)
Forward(c) ==
  /\ At(c, "passed")
  /\ GoTo(c, "served")
  /\ UNCHANGED <<clock, messages, seen>>

WorkerNext ==
  \/ \E n \in Nonces : SignRequest(n)
  \/ \E c \in Calls :
       Request(c) \/ Judge(c) \/ Deny(c) \/ Claim(c) \/ Forward(c)
  \/ Tick

=============================================================================
