---------------------------- MODULE ReplayGuard ----------------------------
(***************************************************************************)
(* Services that serve a signed message once.  A message carries the time  *)
(* it was signed and a random nonce; a service takes it while it is fresh  *)
(* and remembers its nonce for longer than that.                           *)
(*                                                                         *)
(* The order interceptor of recipe 30 (OrdersGateway), the two services of *)
(* recipe 31 (OrderDesk) and the worker of recipe 32 (IngressWorker) do so *)
(* each in its own way.  What they share is here: messages, their          *)
(* deliveries, and time.  A message may be delivered any number of times,  *)
(* at any time, and handled concurrently.  Any time may pass between two   *)
(* steps of a call: verifying looks up names and waits for them.           *)
(*                                                                         *)
(* Left out: the signatures.  An altered message does not verify.          *)
(***************************************************************************)
EXTENDS Naturals

CONSTANTS
  Calls,       \* deliveries
  NoCall,
  Nonces,
  Services,
  Identities,
  Asks,        \* what messages ask for
  MaxAge,      \* for how long a message is fresh
  Ahead,       \* how far clocks of senders are ahead
  Kept,        \* for how long a service remembers a nonce after the message is stale
  LastTick

ASSUME GuardAssumption ==
  /\ MaxAge \in Nat /\ Ahead \in Nat /\ Ahead <= MaxAge
  /\ Kept \in [Services -> Nat]
  /\ LastTick \in Nat
  /\ NoCall \notin Calls /\ Nonces # {} /\ Identities # {}
  /\ {"question", "order", "fetch"} \subseteq Asks

VARIABLES clock, messages, calls,
          seen   \* for each service and nonce, until when it is remembered, or 0

guardVars == <<clock, messages, calls, seen>>

(* origin: in whose service a service signs.                               *)
Message == [made : BOOLEAN, from : Identities, to : Services, ask : Asks,
            origin : Calls \cup {NoCall}, created : Nat]

(* judged: found fresh at the time now.  denied: by the guard; refused and *)
(* served: by what it guards.                                              *)
Steps    == {"idle", "received", "judged", "passed", "denied", "refused", "served"}
Accepted == {"passed", "refused", "served"}

Call == [step : Steps, nonce : Nonces, altered : BOOLEAN, now : Nat]

GuardTypeOK ==
  /\ clock \in Nat
  /\ messages \in [Nonces -> Message]
  /\ calls \in [Calls -> Call]
  /\ seen \in [Services -> [Nonces -> Nat]]

Some(S) == CHOOSE x \in S : TRUE

NoCallYet == [step |-> "idle", nonce |-> Some(Nonces), altered |-> FALSE, now |-> 0]
Denied    == [NoCallYet EXCEPT !.step = "denied"]

GuardInit ==
  /\ clock = 0
  /\ messages = [n \in Nonces |->
       [made |-> FALSE, from |-> Some(Identities), to |-> Some(Services), ask |-> Some(Asks),
        origin |-> NoCall, created |-> 0]]
  /\ calls = [c \in Calls |-> NoCallYet]
  /\ seen = [s \in Services |-> [n \in Nonces |-> 0]]

At(c, step) == calls[c].step = step

MessageOf(c) == messages[calls[c].nonce]

Service(c) == MessageOf(c).to

GoTo(c, step) == calls' = [calls EXCEPT ![c].step = step, ![c].now = 0]

(* What was denied is of no interest any more. *)
GoDenied(c) == calls' = [calls EXCEPT ![c] = Denied]

-----------------------------------------------------------------------------

(* Nonces are random, so they are new. *)
Sign(n, from, to, ask, origin) ==
  \E created \in clock .. clock + Ahead :
    /\ ~messages[n].made
    /\ messages' = [messages EXCEPT ![n] =
         [made |-> TRUE, from |-> from, to |-> to, ask |-> ask, origin |-> origin,
          created |-> created]]
    /\ UNCHANGED <<clock, calls, seen>>

Deliver(c, n, altered) ==
  /\ At(c, "idle") /\ messages[n].made
  /\ calls' = [calls EXCEPT ![c] =
       [step |-> "received", nonce |-> n, altered |-> altered, now |-> 0]]
  /\ UNCHANGED <<clock, messages, seen>>

Fresh(n, now) ==
  /\ now <= messages[n].created + MaxAge
  /\ messages[n].created <= now + MaxAge

(* The guard looks at the clock and finds the message genuine and fresh.   *)
Judge(c) ==
  /\ At(c, "received") /\ ~calls[c].altered /\ Fresh(calls[c].nonce, clock)
  /\ calls' = [calls EXCEPT ![c].step = "judged", ![c].now = clock]
  /\ UNCHANGED <<clock, messages, seen>>

(* The guard refuses, cannot verify the sender, or the call breaks off.    *)
Deny(c) ==
  /\ calls[c].step \in {"received", "judged"}
  /\ GoDenied(c)
  /\ UNCHANGED <<clock, messages, seen>>

Remembers(s, n) == seen[s][n] # 0

Tick ==
  /\ clock < LastTick
  /\ clock' = clock + 1
  /\ UNCHANGED <<messages, calls, seen>>

-----------------------------------------------------------------------------
(* Properties. *)

(* What the recipes say: "Accept each nonce once" (ingress.py:92), "Each   *)
(* signature works once." (31, README.md:126), "so the same valid action   *)
(* cannot run twice" (30, README.md:37): of all deliveries of a message    *)
(* one passes the guard at most.  The code does not keep this: a guard     *)
(* that takes long over a message may find its nonce forgotten.            *)
NonceOnce ==
  \A c, d \in Calls :
    /\ calls[c].step \in Accepted /\ calls[d].step \in Accepted
    /\ calls[c].nonce = calls[d].nonce
    => c = d

(* What the code does keep: a message of which a delivery has passed       *)
(* passes again only in a call that takes at least as long, from its look  *)
(* at the clock on, as nonces outlast their messages, however deliveries   *)
(* interleave, whatever is swept and whichever answers get lost.  A guard  *)
(* that is quicker accepts each nonce once.                                *)
PassesAgainOnlyLate ==
  [][\A c, d \in Calls :
       /\ c # d /\ calls[d].step \in Accepted /\ calls[d].nonce = calls[c].nonce
       /\ At(c, "judged") /\ calls'[c].step = "passed"
       => clock >= calls[c].now + Kept[Service(c)]]_guardVars

=============================================================================
