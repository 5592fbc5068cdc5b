--------------------------- MODULE OrdersGateway ---------------------------
(***************************************************************************)
(* Recipe 30: the gateway's interceptor (orders_interceptor) verifies a    *)
(* signed action before the gateway calls the order function               *)
(* (orders_target).  Nonces are reserved in a table whose expired items    *)
(* the database removes some time later.  The function's API is open; a    *)
(* secret, which a deployment renews, shows that a request has passed the  *)
(* interceptor.                                                            *)
(*                                                                         *)
(* Left out: tokens, sessions and other methods than tools/call, which do  *)
(* not reach the function; the checks of quantities.                       *)
(***************************************************************************)
EXTENDS ReplayGuard

CONSTANTS
  Peer,       \* the subject the interceptor expects
  SweepLag,   \* how long the database takes at least to remove an item
  Secrets

ASSUME OrdersAssumption ==
  /\ Peer \in Identities /\ SweepLag \in Nat /\ Secrets \subseteq Nat \ {0}
  /\ "interceptor" \in Services /\ Kept["interceptor"] = SweepLag + 2

VARIABLES
  secret,   \* that of the interceptor and that of the function
  header    \* the secret that a call carries to the function, or 0

orderVars == <<secret, header>>

OrdersInit ==
  /\ secret \in {[interceptor |-> s, target |-> s] : s \in Secrets}
  /\ header = [c \in Calls |-> 0]

(* sign_action, with the clock of the client. *)
SignAction(n) ==
  /\ Sign(n, Peer, "interceptor", "order", NoCall)
  /\ UNCHANGED orderVars

Request(c) ==
  /\ \E n \in Nonces, altered \in BOOLEAN : Deliver(c, n, altered)
  /\ UNCHANGED orderVars

(* verify_request and ProofVerifier.verify: the time is read first, then   *)
(* the signature is verified, then everything is compared.                 *)
VerifyRequest(c) ==
  /\ MessageOf(c).from = Peer
  /\ Judge(c)
  /\ UNCHANGED orderVars

DenyRequest(c) == Deny(c) /\ UNCHANGED orderVars

(* Faulty: a nonce is kept for the usual time. *)
ExpiresFromNow(c) == calls[c].now + MaxAge

(* The time to live, from the time that was read. *)
ExpiresAt(c) ==
  LET rest == MessageOf(c).created + MaxAge + 1 IN
  IF rest > calls[c].now + 1 THEN rest ELSE calls[c].now + 1

(* reserve: a conditional put, which may be lost, or stored and its answer *)
(* lost.                                                                   *)
Reserve(c) ==
  LET n == calls[c].nonce IN
  /\ At(c, "judged") /\ ~Remembers("interceptor", n)
  /\ \/ /\ seen' = [seen EXCEPT !["interceptor"][n] = ExpiresAt(c)]
        /\ \/ GoTo(c, "passed") /\ header' = [header EXCEPT ![c] = secret.interceptor]
           \/ GoDenied(c) /\ UNCHANGED header
     \/ GoDenied(c) /\ UNCHANGED <<header, seen>>
  /\ UNCHANGED <<clock, messages, secret>>

DenyReplay(c) ==
  /\ At(c, "judged") /\ Remembers("interceptor", calls[c].nonce)
  /\ GoDenied(c)
  /\ UNCHANGED <<clock, messages, seen, orderVars>>

(* A request that does not come through the gateway. *)
CallDirectly(c) ==
  /\ At(c, "idle")
  /\ \E n \in Nonces :
       calls' = [calls EXCEPT ![c] =
         [step |-> "received", nonce |-> n, altered |-> TRUE, now |-> 0]]
  /\ UNCHANGED <<clock, messages, seen, orderVars>>

(* Faulty: whoever reaches the function is served. *)
FromAnybody(c) == TRUE

(* compare_digest. *)
FromInterceptor(c) == header[c] = secret.target

(* The order function. *)
Order(c) ==
  /\ At(c, "passed") \/ (At(c, "received") /\ calls[c].altered)
  /\ \/ FromInterceptor(c) /\ GoTo(c, "served")
     \/ ~FromInterceptor(c) /\ At(c, "passed") /\ GoTo(c, "refused")
     \/ ~FromInterceptor(c) /\ At(c, "received") /\ GoDenied(c)
  /\ UNCHANGED <<clock, messages, seen, orderVars>>

(* The database removes items whose time is over. *)
Sweep(n) ==
  /\ Remembers("interceptor", n) /\ seen["interceptor"][n] + SweepLag < clock
  /\ seen' = [seen EXCEPT !["interceptor"][n] = 0]
  /\ UNCHANGED <<clock, messages, calls, orderVars>>

(* A deployment renews the secret, first of the function.                  *)
RenewTarget ==
  /\ secret.target = secret.interceptor
  /\ \E s \in Secrets : s > secret.target /\ secret' = [secret EXCEPT !.target = s]
  /\ UNCHANGED <<guardVars, header>>

RenewInterceptor ==
  /\ secret.target # secret.interceptor
  /\ secret' = [secret EXCEPT !.interceptor = secret.target]
  /\ UNCHANGED <<guardVars, header>>

OrdersNext ==
  \/ \E n \in Nonces : SignAction(n) \/ Sweep(n)
  \/ \E c \in Calls :
       \/ Request(c) \/ VerifyRequest(c) \/ DenyRequest(c) \/ Reserve(c) \/ DenyReplay(c)
       \/ CallDirectly(c) \/ Order(c)
  \/ RenewTarget \/ RenewInterceptor
  \/ Tick /\ UNCHANGED orderVars

-----------------------------------------------------------------------------
(* Properties. *)

(* An order is the one that was signed, for the subject that signed it,    *)
(* and it has passed the interceptor, also while secrets are renewed and   *)
(* although anybody may call the API.                                      *)
OrdersVerified ==
  \A c \in Calls :
    At(c, "served") /\ MessageOf(c).to = "interceptor" =>
      /\ MessageOf(c).made /\ MessageOf(c).from = Peer /\ ~calls[c].altered
      /\ header[c] # 0

=============================================================================
