-------------------------------- MODULE A2A --------------------------------
(***************************************************************************)
(* Recipe 12: agents that register and publish their identities            *)
(* (identity.py), start and stop (main.py, server.py), and send each other *)
(* signed messages (client.py, middleware.py, executor.py).                *)
(*                                                                         *)
(* An agent keeps nothing: when it is started again it finds out from the  *)
(* registry how far it has come.  The registry is outside; what it does is *)
(* what identity.py expects of it.                                         *)
(*                                                                         *)
(* Left out: agent cards, loading of the configuration, what messages say. *)
(***************************************************************************)
EXTENDS Naturals

CONSTANTS
  Agents,
  Peer,         \* the agent that the others send a message to
  MaxTroubles   \* how often something goes wrong

ASSUME A2AAssumption == Peer \in Agents /\ MaxTroubles \in Nat

VARIABLES
  entry,     \* the entry of an agent in the registry
  zone,      \* the agents that can be resolved
  process,   \* the process of an agent
  message,   \* the message of an agent to Peer
  troubles

vars == <<entry, zone, process, message, troubles>>

Steps == {"down", "look", "register", "look again", "verify", "challenge", "submit",
          "verified", "recheck", "publish", "self check", "ready", "sent", "finished"}

(* The registry reports "verification", "challenged" and "submitted" alike *)
(* as VERIFICATION; only the second with a challenge.                      *)
InVerification == {"verification", "challenged", "submitted"}
Entries == {"none", "registered", "verified", "published", "failed", "revoked", "withdrawn"}
           \cup InVerification

TypeOK ==
  /\ entry \in [Agents -> Entries]
  /\ zone \subseteq Agents
  /\ process \in [Agents -> Steps]
  /\ message \in [Agents -> {"none", "sent", "verified", "handled", "lost"}]
  /\ troubles \in 0 .. MaxTroubles

Init ==
  /\ entry = [a \in Agents |-> "none"]
  /\ zone = {}
  /\ process = [a \in Agents |-> "down"]
  /\ message = [a \in Agents |-> "none"]
  /\ troubles = 0

At(a, step) == process[a] = step

GoTo(a, step) == process' = [process EXCEPT ![a] = step]

(* What a process reads or decides changes nothing but the process.        *)
Alone == UNCHANGED <<entry, zone, message, troubles>>

(* An entry changes, and the process that asked for it goes on.            *)
Ask(a, new, step) ==
  /\ entry' = [entry EXCEPT ![a] = new]
  /\ GoTo(a, step)
  /\ UNCHANGED <<zone, message, troubles>>

-----------------------------------------------------------------------------
(* register_and_publish. *)

(* The server is up before the agent registers. *)
StartAgent(a) == At(a, "down") /\ GoTo(a, "look") /\ Alone

Proceed(a) ==
  GoTo(a, CASE entry[a] = "published" -> "self check"
            [] entry[a] = "verified"  -> "publish"
            [] OTHER                  -> "verify")

(* Faulty: an agent that starts always registers. *)
LookNever(a) == At(a, "look") /\ GoTo(a, "register") /\ Alone

Look(a) ==
  /\ At(a, "look")
  /\ IF entry[a] = "none" THEN GoTo(a, "register") ELSE Proceed(a)
  /\ Alone

Register(a) == At(a, "register") /\ Ask(a, "registered", "look again")

LookAgain(a) == At(a, "look again") /\ Proceed(a) /\ Alone

(* _verify_with_challenge: a verification that is under way is not asked   *)
(* for again.  It goes by the status of the last look, and the model by    *)
(* the entry: if that has changed since, the polls that follow see it.     *)
Verify(a) ==
  /\ At(a, "verify")
  /\ CASE entry[a] \in InVerification       -> GoTo(a, "challenge") /\ Alone
       [] entry[a] \in {"registered", "failed"} -> Ask(a, "verification", "challenge")
       [] OTHER                              -> GoTo(a, "down") /\ Alone

(* poll: it waits for what it wants to see, gives up at once when the      *)
(* agent is failed or revoked, or when it has looked in vain many times.   *)
Poll(a, step, seen, next) ==
  /\ At(a, step)
  /\ GoTo(a, IF seen THEN next ELSE "down")
  /\ Alone

AwaitChallenge(a) == Poll(a, "challenge", entry[a] = "challenged", "submit")

(* A challenge that is not current any more is refused.                    *)
SubmitSignature(a) ==
  /\ At(a, "submit")
  /\ IF entry[a] = "challenged" THEN Ask(a, "submitted", "verified")
     ELSE GoTo(a, "down") /\ Alone

AwaitVerified(a) ==
  Poll(a, "verified", entry[a] \in {"verified", "published"}, "recheck")

(* Whatever it is now, if it is not to be published it is reported as      *)
(* published.                                                              *)
Recheck(a) ==
  /\ At(a, "recheck")
  /\ GoTo(a, IF entry[a] = "verified" THEN "publish" ELSE "self check")
  /\ Alone

Publish(a) ==
  /\ At(a, "publish")
  /\ IF entry[a] = "verified" THEN Ask(a, "published", "self check")
     ELSE GoTo(a, "down") /\ Alone

(* Faulty: the agent goes on when it cannot verify itself.                 *)
SelfCheckInVain(a) == Poll(a, "self check", TRUE, "ready")

(* await_self_resolvable. *)
SelfCheck(a) == Poll(a, "self check", a \in zone, "ready")

RegisterAndPublish(a) ==
  \/ Look(a) \/ Register(a) \/ LookAgain(a) \/ Verify(a) \/ AwaitChallenge(a)
  \/ SubmitSignature(a) \/ AwaitVerified(a) \/ Recheck(a) \/ Publish(a) \/ SelfCheck(a)

-----------------------------------------------------------------------------
(* Messages. *)

(* send_hello: verifies the peer, many times if need be, then sends one    *)
(* message; when it cannot be verified the program ends.  The two are one  *)
(* step: who sends is looked at again by the peer, who receives is not.    *)
SendHello(a) ==
  /\ a # Peer /\ At(a, "ready")
  /\ \/ /\ Peer \in zone
        /\ GoTo(a, "sent")
        /\ message' = [message EXCEPT ![a] = "sent"]
     \/ Peer \notin zone /\ GoTo(a, "down") /\ UNCHANGED message
  /\ UNCHANGED <<entry, zone, troubles>>

Pass(a, step) ==
  /\ message' = [message EXCEPT ![a] = step]
  /\ UNCHANGED <<entry, zone, process, troubles>>

(* DnsidSignatureMiddleware, in another thread.  The peer answers as soon  *)
(* as its server is up.                                                    *)
VerifySender(a) ==
  /\ message[a] = "sent" /\ ~At(Peer, "down")
  /\ Pass(a, IF a \in zone THEN "verified" ELSE "lost")

(* The executor. *)
Echo(a) == message[a] = "verified" /\ ~At(Peer, "down") /\ Pass(a, "handled")

(* The peer cannot be reached. *)
Lose(a) == message[a] = "sent" /\ At(Peer, "down") /\ Pass(a, "lost")

(* The reply arrives and the agent stops, or an error and it ends.         *)
Finish(a) ==
  /\ At(a, "sent")
  /\ \/ message[a] = "handled" /\ GoTo(a, "finished")
     \/ message[a] = "lost" /\ GoTo(a, "down")
  /\ Alone

-----------------------------------------------------------------------------
(* The registry and its zone. *)

Registry(a) ==
  /\ \/ entry[a] = "verification" /\ entry' = [entry EXCEPT ![a] = "challenged"]
     \/ entry[a] = "submitted" /\ entry' = [entry EXCEPT ![a] = "verified"]
  /\ UNCHANGED <<zone, process, message, troubles>>

Reload ==
  /\ zone # {a \in Agents : entry[a] = "published"}
  /\ zone' = {a \in Agents : entry[a] = "published"}
  /\ UNCHANGED <<entry, process, message, troubles>>

-----------------------------------------------------------------------------
(* Troubles. *)

(* A process stops; a message that it was handling is lost.                *)
Crash(a) ==
  /\ ~At(a, "down")
  /\ GoTo(a, "down")
  /\ message' = [b \in Agents |->
       IF message[b] \in {"sent", "verified"} /\ a \in {b, Peer} THEN "lost" ELSE message[b]]
  /\ UNCHANGED <<entry, zone>>

(* A verification fails, or an agent is revoked, before it has been        *)
(* published or after.                                                     *)
Refuse(a) ==
  /\ \/ entry[a] \in InVerification /\ entry' = [entry EXCEPT ![a] = "failed"]
     \/ /\ entry[a] # "none"
        /\ entry' = [entry EXCEPT ![a] =
             IF @ \in {"published", "withdrawn"} THEN "withdrawn" ELSE "revoked"]
  /\ UNCHANGED <<zone, process, message>>

Trouble ==
  /\ troubles < MaxTroubles
  /\ troubles' = troubles + 1
  /\ \E a \in Agents : Crash(a) \/ Refuse(a)

Run(a) == StartAgent(a) \/ RegisterAndPublish(a)

Next ==
  \/ \E a \in Agents :
       \/ Run(a) \/ Registry(a)
       \/ SendHello(a) \/ VerifySender(a) \/ Echo(a) \/ Lose(a) \/ Finish(a)
  \/ Reload \/ Trouble

(* Processes run, and are started again when they have stopped; the        *)
(* registry does its work.                                                 *)
Spec ==
  /\ Init /\ [][Next]_vars
  /\ \A a \in Agents : WF_vars(Run(a)) /\ WF_vars(Registry(a))

-----------------------------------------------------------------------------
(* Properties. *)

(* "Idempotent" (identity.py:248): wherever an agent was stopped, if it is *)
(* started again it is published in the end, unless it is revoked.         *)
EventuallyPublished ==
  \A a \in Agents : <>(entry[a] \in {"published", "withdrawn", "revoked"})

(* An agent that goes on to serve or to send has been published, also when *)
(* register_and_publish has reported as published what it is not; and a    *)
(* message is handled only if its sender has been.                         *)
OnlyPublishedTakePart ==
  \A a \in Agents :
    \/ process[a] \in {"ready", "sent", "finished"}
    \/ message[a] = "handled"
    => entry[a] \in {"published", "withdrawn"}

=============================================================================
