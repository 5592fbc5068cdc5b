----------------------------- MODULE A2AProofs -----------------------------
(***************************************************************************)
(* Who takes part in recipe 12 has been published.                         *)
(*                                                                         *)
(* The self check is what it rests on: an agent that finds itself in the   *)
(* zone has been published, and stays so until it is withdrawn.  That an   *)
(* entry does not start over needs that a process registers only where     *)
(* there is nothing: it looked, and nobody else registers this agent.      *)
(***************************************************************************)
EXTENDS A2A, TLAPS

WasPublished(a) == entry[a] \in {"published", "withdrawn"}

Typed == /\ entry \in [Agents -> Entries] /\ process \in [Agents -> Steps]
         /\ message \in [Agents -> {"none", "sent", "verified", "handled", "lost"}]

Resolvable == \A a \in zone : a \in Agents /\ WasPublished(a)

RegistersOnce == \A a \in Agents : At(a, "register") => entry[a] = "none"

SendersChecked == \A a \in Agents : message[a] = "verified" => WasPublished(a)

Inv == Typed /\ Resolvable /\ RegistersOnce /\ SendersChecked /\ OnlyPublishedTakePart

(* What a step does to one agent, if it is none that matters: its entry    *)
(* does not start over, and neither its process nor its message gets where *)
(* they must not be.                                                       *)
Harmless(a) ==
  /\ WasPublished(a) => WasPublished(a)'
  /\ At(a, "register")' => entry'[a] = "none"
  /\ process'[a] \in {"ready", "sent", "finished"} => WasPublished(a)'
  /\ message'[a] \in {"verified", "handled"} => WasPublished(a)'

LEMMA HarmlessSteps ==
  ASSUME Inv, Typed', zone' = zone \/ Resolvable', \A a \in Agents : Harmless(a)
  PROVE  Inv'
<1>1. Resolvable'
  BY DEF Inv, Resolvable, Harmless, WasPublished
<1>2. QED
  BY <1>1 DEF Inv, Harmless, WasPublished, RegistersOnce, SendersChecked,
              OnlyPublishedTakePart, At

(* Steps of a process that changes no entry and no message.                *)
LEMMA AloneStep ==
  ASSUME Inv, NEW a \in Agents, NEW step \in Steps, GoTo(a, step), Alone,
         step = "register" => entry[a] = "none",
         step \in {"ready", "sent", "finished"} => WasPublished(a)
  PROVE  Inv'
<1>1. \A b \in Agents : process'[b] = IF b = a THEN step ELSE process[b]
  BY DEF Inv, Typed, GoTo
<1>2. Typed'
  BY DEF Inv, Typed, GoTo, Alone
<1>3. \A b \in Agents : Harmless(b)
  BY <1>1 DEF Inv, Harmless, Alone, WasPublished, RegistersOnce, SendersChecked,
              OnlyPublishedTakePart, At
<1>4. QED
  BY <1>2, <1>3, HarmlessSteps DEF Alone

(* Steps of a process that change the agent's own entry.                   *)
LEMMA AskStep ==
  ASSUME Inv, NEW a \in Agents, NEW new \in Entries, NEW step \in Steps, Ask(a, new, step),
         step \notin {"register", "ready", "sent", "finished"},
         WasPublished(a) => new \in {"published", "withdrawn"}
  PROVE  Inv'
<1>1. /\ \A b \in Agents : process'[b] = IF b = a THEN step ELSE process[b]
      /\ \A b \in Agents : entry'[b] = IF b = a THEN new ELSE entry[b]
  BY DEF Inv, Typed, Ask, GoTo
<1>2. Typed'
  BY DEF Inv, Typed, Ask, GoTo
<1>3. \A b \in Agents : Harmless(b)
  BY <1>1 DEF Inv, Harmless, Ask, WasPublished, RegistersOnce, SendersChecked,
              OnlyPublishedTakePart, At
<1>4. QED
  BY <1>2, <1>3, HarmlessSteps DEF Ask

(* Steps that change one entry and nothing else.                           *)
LEMMA EntryStep ==
  ASSUME Inv, NEW a \in Agents, NEW new \in Entries, entry' = [entry EXCEPT ![a] = new],
         entry[a] # "none", WasPublished(a) => new \in {"published", "withdrawn"},
         zone' = zone, message' = message, process' = process
  PROVE  Inv'
<1>1. \A b \in Agents : entry'[b] = IF b = a THEN new ELSE entry[b]
  BY DEF Inv, Typed
<1>2. Typed'
  BY DEF Inv, Typed
<1>3. \A b \in Agents : Harmless(b)
  BY <1>1 DEF Inv, Harmless, WasPublished, RegistersOnce, SendersChecked,
              OnlyPublishedTakePart, At
<1>4. QED
  BY <1>2, <1>3, HarmlessSteps

LEMMA RegisterAndPublishInv ==
  ASSUME Inv, NEW a \in Agents, RegisterAndPublish(a)
  PROVE  Inv'
<1> USE DEF Steps, Entries, InVerification
<1>1. CASE Look(a)
  <2>1. CASE entry[a] = "none"
    BY <1>1, <2>1, AloneStep DEF Look
  <2>2. CASE entry[a] # "none"
    BY <1>1, <2>2, AloneStep DEF Look, Proceed
  <2>3. QED
    BY <2>1, <2>2
<1>2. CASE Register(a)
  <2>1. entry[a] = "none"
    BY <1>2 DEF Register, Inv, RegistersOnce
  <2>2. QED
    BY <1>2, <2>1, AskStep DEF Register, WasPublished
<1>3. CASE LookAgain(a)
  BY <1>3, AloneStep DEF LookAgain, Proceed
<1>4. CASE Verify(a)
  <2>1. CASE entry[a] \in {"registered", "failed"}
    <3>1. Ask(a, "verification", "challenge")
      BY <1>4, <2>1 DEF Verify
    <3>2. QED
      BY <2>1, <3>1, AskStep DEF WasPublished
  <2>2. CASE entry[a] \notin {"registered", "failed"}
    <3>1. Alone /\ \E step \in {"challenge", "down"} : GoTo(a, step)
      BY <1>4, <2>2 DEF Verify
    <3>2. QED
      BY <3>1, AloneStep
  <2>3. QED
    BY <2>1, <2>2
<1>5. CASE AwaitChallenge(a)
  BY <1>5, AloneStep DEF AwaitChallenge, Poll
<1>6. CASE SubmitSignature(a)
  <2>1. CASE entry[a] = "challenged"
    BY <1>6, <2>1, AskStep DEF SubmitSignature, WasPublished
  <2>2. CASE entry[a] # "challenged"
    BY <1>6, <2>2, AloneStep DEF SubmitSignature
  <2>3. QED
    BY <2>1, <2>2
<1>7. CASE AwaitVerified(a)
  BY <1>7, AloneStep DEF AwaitVerified, Poll
<1>8. CASE Recheck(a)
  BY <1>8, AloneStep DEF Recheck
<1>9. CASE Publish(a)
  <2>1. CASE entry[a] = "verified"
    BY <1>9, <2>1, AskStep DEF Publish
  <2>2. CASE entry[a] # "verified"
    BY <1>9, <2>2, AloneStep DEF Publish
  <2>3. QED
    BY <2>1, <2>2
<1>10. CASE SelfCheck(a)
  <2>1. a \in zone => WasPublished(a)
    BY DEF Inv, Resolvable
  <2>2. QED
    BY <1>10, <2>1, AloneStep DEF SelfCheck, Poll
<1>11. QED
  BY <1>1, <1>2, <1>3, <1>4, <1>5, <1>6, <1>7, <1>8, <1>9, <1>10 DEF RegisterAndPublish

LEMMA MessageInv ==
  ASSUME Inv, NEW a \in Agents,
         SendHello(a) \/ VerifySender(a) \/ Echo(a) \/ Lose(a) \/ Finish(a)
  PROVE  Inv'
<1> USE DEF Steps
<1>1. CASE SendHello(a)
  <2>1. \E step \in {"sent", "down"} : process' = [process EXCEPT ![a] = step]
    BY <1>1 DEF SendHello, GoTo
  <2>2. \E m \in {"sent", message[a]} : message' = [message EXCEPT ![a] = m]
    BY <1>1 DEF SendHello, Inv, Typed
  <2>3. WasPublished(a) /\ entry' = entry /\ zone' = zone
    BY <1>1 DEF SendHello, Inv, OnlyPublishedTakePart, WasPublished, At
  <2>4. Typed'
    BY <2>1, <2>2, <2>3 DEF Inv, Typed
  <2>5. \A b \in Agents : Harmless(b)
    BY <2>1, <2>2, <2>3 DEF Inv, Typed, Harmless, WasPublished, RegistersOnce,
                            SendersChecked, OnlyPublishedTakePart, At
  <2>6. QED
    BY <2>3, <2>4, <2>5, HarmlessSteps
<1>2. ASSUME NEW step \in {"verified", "lost", "handled"}, Pass(a, step),
             step # "lost" => WasPublished(a)
      PROVE  Inv'
  <2>1. \A b \in Agents : message'[b] = IF b = a THEN step ELSE message[b]
    BY <1>2 DEF Inv, Typed, Pass
  <2>2. Typed'
    BY <1>2 DEF Inv, Typed, Pass
  <2>3. \A b \in Agents : Harmless(b)
    BY <1>2, <2>1 DEF Inv, Harmless, Pass, WasPublished, RegistersOnce, SendersChecked,
                      OnlyPublishedTakePart, At
  <2>4. QED
    BY <1>2, <2>2, <2>3, HarmlessSteps DEF Pass
<1>3. CASE VerifySender(a)
  <2>1. a \in zone => WasPublished(a)
    BY DEF Inv, Resolvable
  <2>2. QED
    BY <1>2, <1>3, <2>1 DEF VerifySender
<1>4. CASE Echo(a)
  <2>1. WasPublished(a)
    BY <1>4 DEF Echo, Inv, SendersChecked
  <2>2. QED
    BY <1>2, <1>4, <2>1 DEF Echo
<1>5. CASE Lose(a)
  BY <1>2, <1>5 DEF Lose
<1>6. CASE Finish(a)
  <2>1. WasPublished(a)
    BY <1>6 DEF Finish, Inv, OnlyPublishedTakePart, WasPublished, At
  <2>2. QED
    BY <1>6, <2>1, AloneStep DEF Finish
<1>7. QED
  BY <1>1, <1>3, <1>4, <1>5, <1>6

LEMMA OutsideInv ==
  ASSUME Inv, NEW a \in Agents, Registry(a) \/ Reload \/ Trouble
  PROVE  Inv'
<1> USE DEF Steps, Entries, InVerification
<1>1. CASE Registry(a)
  BY <1>1, EntryStep DEF Registry, WasPublished
<1>2. CASE Reload
  <2>1. Typed'
    BY <1>2 DEF Inv, Typed, Reload
  <2>2. Resolvable'
    BY <1>2 DEF Resolvable, Reload, WasPublished
  <2>3. \A b \in Agents : Harmless(b)
    BY <1>2 DEF Inv, Harmless, Reload, WasPublished, RegistersOnce, SendersChecked,
                OnlyPublishedTakePart, At
  <2>4. QED
    BY <2>1, <2>2, <2>3, HarmlessSteps
<1>3. ASSUME NEW b \in Agents, Crash(b) PROVE Inv'
  <2>1. \A c \in Agents : process'[c] = IF c = b THEN "down" ELSE process[c]
    BY <1>3 DEF Crash, GoTo, Inv, Typed
  <2>2. \A c \in Agents : message'[c] \in {message[c], "lost"}
    BY <1>3 DEF Crash
  <2>3. Typed'
    BY <1>3 DEF Inv, Typed, Crash, GoTo
  <2>4. \A c \in Agents : Harmless(c)
    BY <1>3, <2>1, <2>2 DEF Inv, Harmless, Crash, WasPublished, RegistersOnce,
                            SendersChecked, OnlyPublishedTakePart, At
  <2>5. QED
    BY <1>3, <2>3, <2>4, HarmlessSteps DEF Crash
<1>4. ASSUME NEW b \in Agents, Refuse(b) PROVE Inv'
  <2>1. PICK new \in {"failed", "withdrawn", "revoked"} :
          /\ entry' = [entry EXCEPT ![b] = new] /\ entry[b] # "none"
          /\ WasPublished(b) => new = "withdrawn"
    <3>1. CASE entry[b] \in InVerification /\ entry' = [entry EXCEPT ![b] = "failed"]
      BY <3>1 DEF WasPublished
    <3>2. CASE /\ entry[b] # "none"
               /\ entry' = [entry EXCEPT ![b] =
                    IF @ \in {"published", "withdrawn"} THEN "withdrawn" ELSE "revoked"]
      BY <3>2 DEF WasPublished, Inv, Typed
    <3>3. QED
      BY <1>4, <3>1, <3>2 DEF Refuse
  <2>2. QED
    BY <1>4, <2>1, EntryStep DEF Refuse
<1>5. QED
  BY <1>1, <1>2, <1>3, <1>4 DEF Trouble

LEMMA NextInv == Inv /\ [Next]_vars => Inv'
<1>1. SUFFICES ASSUME Inv, [Next]_vars PROVE Inv'
  OBVIOUS
<1>2. CASE UNCHANGED vars
  BY <1>1, <1>2 DEF vars, Inv, Typed, Resolvable, RegistersOnce, SendersChecked,
                    OnlyPublishedTakePart, WasPublished, At
<1>3. ASSUME NEW a \in Agents, StartAgent(a) PROVE Inv'
  BY <1>1, <1>3, AloneStep DEF StartAgent, Steps
<1>4. CASE Next
  BY <1>1, <1>3, <1>4, RegisterAndPublishInv, MessageInv, OutsideInv, A2AAssumption
  DEF Next, Run
<1>5. QED
  BY <1>1, <1>2, <1>4

(* However often agents are stopped, refused or revoked: who serves or     *)
(* sends has been published, and so has the sender of what is handled.     *)
THEOREM OnlyPublished == Spec => []OnlyPublishedTakePart
<1>1. Init => Inv
  BY DEF Init, Inv, Typed, Resolvable, RegistersOnce, SendersChecked, OnlyPublishedTakePart,
         At, Entries, Steps
<1>2. Inv => OnlyPublishedTakePart
  BY DEF Inv
<1>3. QED
  BY <1>1, <1>2, NextInv, PTL DEF Spec

=============================================================================
