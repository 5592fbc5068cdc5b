---------------------------- MODULE GuardsProofs ----------------------------
(***************************************************************************)
(* Proofs about the guards of recipes 30, 31 and 32.                       *)
(*                                                                         *)
(* A message passes again only late because a service forgets a nonce only *)
(* some time after the message has gone stale: LongKept says when a nonce  *)
(* may be gone, InTime when a message may have been judged fresh.  The     *)
(* rest says whose messages there are, and that only calls that have       *)
(* passed carry a secret.                                                  *)
(***************************************************************************)
EXTENDS Guards, TLAPS

Typed ==
  /\ GuardTypeOK
  /\ secret \in [interceptor : Secrets, target : Secrets]
  /\ header \in [Calls -> Nat]
  /\ recipe \in {"30", "31", "32"}

(* What is judged or has passed was signed and has not been altered. *)
Genuine ==
  \A c \in Calls :
    /\ calls[c].step = "received" /\ ~calls[c].altered => messages[calls[c].nonce].made
    /\ calls[c].step \in Accepted \cup {"judged"} =>
         messages[calls[c].nonce].made /\ ~calls[c].altered

InTime ==
  \A c \in Calls :
    calls[c].step = "judged" =>
      calls[c].now <= messages[calls[c].nonce].created + MaxAge

LongKept ==
  \A c \in Calls :
    calls[c].step \in Accepted =>
      LET m == messages[calls[c].nonce] IN
      \/ seen[m.to][calls[c].nonce] >= m.created + MaxAge + 1
      \/ clock >= m.created + MaxAge + Kept[m.to]

Addressed ==
  \A n \in Nonces :
    messages[n].made =>
      \/ recipe = "30" /\ messages[n].to = "interceptor" /\ messages[n].from = Peer
      \/ recipe = "31" /\ messages[n].to \in {"agent", "tools"}
      \/ recipe = "32" /\ messages[n].to = "origin"

(* Calls carry a secret if they have passed. *)
SecretsKept ==
  \A c \in Calls :
    /\ header[c] # 0 => calls[c].step \in Accepted
    /\ recipe = "30" /\ calls[c].step \in Accepted => header[c] # 0

OrderOrigins ==
  \A n \in Nonces :
    messages[n].made /\ messages[n].to = "tools" /\ messages[n].ask = "order"
      /\ messages[n].from = Desk =>
        LET o == messages[n].origin IN
        /\ o \in Calls
        /\ calls[o].step \in Accepted
        /\ messages[calls[o].nonce].to = "agent"
        /\ messages[calls[o].nonce].from = Peer

DeskServes ==
  \A c \in Calls :
    LET m == messages[calls[c].nonce] IN
    calls[c].step = "served" /\ m.to = "tools" /\ m.ask = "order" => m.from = Desk

(* Of a step: a service forgets only what is of no use any more. *)
ForgetsInTime ==
  \A s \in Services, n \in Nonces :
    \/ seen'[s][n] >= seen[s][n]
    \/ messages[n].to = s /\ seen[s][n] >= messages[n].created + MaxAge + 1 =>
         clock >= messages[n].created + MaxAge + Kept[s]

Inv ==
  /\ Typed /\ Genuine /\ InTime /\ LongKept /\ Addressed
  /\ SecretsKept /\ OrderOrigins /\ DeskServes

(* What PassesAgainOnlyLate says of a step. *)
AgainOnlyLate ==
  \A c, d \in Calls :
    /\ c # d /\ calls[d].step \in Accepted /\ calls[d].nonce = calls[c].nonce
    /\ At(c, "judged") /\ calls'[c].step = "passed"
    => clock >= calls[c].now + Kept[Service(c)]

(* What is shown of every step. *)
StepOK == Inv' /\ AgainOnlyLate

-----------------------------------------------------------------------------
(* What the assumptions say, in one place. *)

LEMMA Constants ==
  /\ MaxAge \in Nat /\ Ahead \in Nat /\ SweepLag \in Nat
  /\ Kept \in [Services -> Nat]
  /\ NoCall \notin Calls
  /\ {"question", "order", "fetch"} \subseteq Asks
  /\ {"interceptor", "agent", "tools", "origin"} \subseteq Services
  /\ Kept["interceptor"] = SweepLag + 2
  /\ Kept["agent"] = 1 /\ Kept["tools"] = 1 /\ Kept["origin"] = 1
  /\ Peer \in Identities /\ Desk \in Identities
  /\ Secrets \subseteq Nat \ {0}
BY GuardAssumption, OrdersAssumption, GuardsAssumption
DEF OrderDesk!DeskAssumption, Worker!WorkerAssumption

LEMMA SomeIn == ASSUME NEW S, S # {} PROVE Some(S) \in S
BY DEF Some

LEMMA NoCallYetTyped == NoCallYet \in Call /\ Denied \in Call /\ NoCallYet.step = "idle"
                        /\ Denied.step = "denied"
<1>1. Some(Nonces) \in Nonces  BY SomeIn, GuardAssumption
<1>2. NoCallYet \in Call  BY <1>1 DEF NoCallYet, Call, Steps
<1>3. Denied \in Call  BY <1>2 DEF Denied, Call, Steps
<1> QED  BY <1>2, <1>3 DEF NoCallYet, Denied

LEMMA InitInv == Init => Inv
<1> SUFFICES ASSUME Init PROVE Inv  OBVIOUS
<1> USE DEF Init, GuardInit, OrdersInit
<1>1. \A c \in Calls : calls[c].step = "idle"  BY NoCallYetTyped
<1>2. Typed
  <2>1. Some(Nonces) \in Nonces /\ Some(Identities) \in Identities
        /\ Some(Services) \in Services /\ Some(Asks) \in Asks
    BY SomeIn, GuardAssumption, Constants
  <2>2. messages \in [Nonces -> Message]  BY <2>1 DEF Message
  <2>3. calls \in [Calls -> Call]  BY NoCallYetTyped
  <2>4. seen \in [Services -> [Nonces -> Nat]]  OBVIOUS
  <2>5. secret \in [interceptor : Secrets, target : Secrets]  OBVIOUS
  <2> QED  BY <2>2, <2>3, <2>4, <2>5 DEF Typed, GuardTypeOK
<1>3. Genuine /\ InTime /\ LongKept /\ DeskServes
  BY <1>1 DEF Genuine, InTime, LongKept, DeskServes, Accepted
<1>4. Addressed /\ OrderOrigins  BY DEF Addressed, OrderOrigins
<1>5. SecretsKept  BY <1>1 DEF SecretsKept, Accepted
<1> QED  BY <1>2, <1>3, <1>4, <1>5 DEF Inv

-----------------------------------------------------------------------------
(* The steps of ReplayGuard. *)

(* A signed message is new, so no call that matters carries its nonce yet. *)
LEMMA SignInv ==
  ASSUME Inv,
         NEW n \in Nonces, NEW from \in Identities, NEW to \in Services, NEW ask \in Asks,
         NEW origin \in Calls \cup {NoCall},
         Sign(n, from, to, ask, origin), UNCHANGED <<orderVars, recipe>>,
         \/ recipe = "30" /\ to = "interceptor" /\ from = Peer
         \/ recipe = "31" /\ to \in {"agent", "tools"}
         \/ recipe = "32" /\ to = "origin",
         to = "tools" /\ ask = "order" /\ from = Desk =>
           /\ origin \in Calls /\ calls[origin].step \in Accepted
           /\ messages[calls[origin].nonce].to = "agent"
           /\ messages[calls[origin].nonce].from = Peer
  PROVE  StepOK
<1>1. PICK created \in clock .. clock + Ahead :
        messages' = [messages EXCEPT ![n] =
          [made |-> TRUE, from |-> from, to |-> to, ask |-> ask, origin |-> origin,
           created |-> created]]
  BY DEF Sign
<1>2. /\ ~messages[n].made
      /\ clock' = clock /\ calls' = calls /\ seen' = seen
      /\ header' = header /\ secret' = secret /\ recipe' = recipe
  BY DEF Sign, orderVars
<1>3. Typed  BY DEF Inv
<1>4. created \in Nat  BY <1>3, Constants DEF Typed, GuardTypeOK
<1>5. Typed'
  <2>1. messages' \in [Nonces -> Message]  BY <1>1, <1>3, <1>4 DEF Typed, GuardTypeOK, Message
  <2> QED  BY <2>1, <1>2, <1>3 DEF Typed, GuardTypeOK
<1>6. \A m \in Nonces : m # n => messages'[m] = messages[m]
  BY <1>1, <1>3 DEF Typed, GuardTypeOK
<1>7. /\ messages'[n].made /\ messages'[n].from = from /\ messages'[n].to = to
      /\ messages'[n].ask = ask /\ messages'[n].origin = origin
  BY <1>1, <1>3 DEF Typed, GuardTypeOK
<1>8. \A c \in Calls : calls[c].nonce \in Nonces
  BY <1>3 DEF Typed, GuardTypeOK, Call
<1>9. \A c \in Calls : calls[c].step \in Accepted \cup {"judged"} =>
        messages'[calls[c].nonce] = messages[calls[c].nonce]
  BY <1>2, <1>6, <1>8 DEF Inv, Genuine
<1>10. Genuine'
  <2> SUFFICES ASSUME NEW c \in Calls
               PROVE  messages[calls[c].nonce].made => messages'[calls[c].nonce].made
    BY <1>2 DEF Inv, Genuine
  <2> QED  BY <1>6, <1>7, <1>8
<1>11. InTime'  BY <1>2, <1>9 DEF Inv, InTime, Accepted
<1>12. LongKept'  BY <1>2, <1>9 DEF Inv, LongKept
<1>13. Addressed'  BY <1>2, <1>6, <1>7 DEF Inv, Addressed
<1>14. SecretsKept' /\ AgainOnlyLate  BY <1>2 DEF Inv, SecretsKept, AgainOnlyLate, At
<1>15. OrderOrigins'
  <2> SUFFICES ASSUME NEW m \in Nonces,
                      messages'[m].made, messages'[m].to = "tools", messages'[m].ask = "order",
                      messages'[m].from = Desk
               PROVE  LET o == messages'[m].origin IN
                      /\ o \in Calls /\ calls[o].step \in Accepted
                      /\ messages'[calls[o].nonce].to = "agent"
                      /\ messages'[calls[o].nonce].from = Peer
    BY <1>2 DEF OrderOrigins
  <2>1. CASE m = n  BY <2>1, <1>7, <1>9
  <2>2. CASE m # n  BY <2>2, <1>6, <1>9 DEF Inv, OrderOrigins
  <2> QED  BY <2>1, <2>2
<1>16. DeskServes'  BY <1>2, <1>9 DEF Inv, DeskServes, Accepted
<1> QED
  BY <1>5, <1>10, <1>11, <1>12, <1>13, <1>14, <1>15, <1>16 DEF StepOK, Inv

(* A step of a call that accepts nothing: a call that has passed stays so, *)
(* and what is judged or served is so for a reason.                        *)
LEMMA CallInv ==
  ASSUME Inv, NEW c \in Calls, NEW r \in Call,
         calls' = [calls EXCEPT ![c] = r],
         UNCHANGED <<clock, messages, seen, orderVars, recipe>>,
         r.step \in Accepted <=> calls[c].step \in Accepted,
         calls[c].step \in Accepted => r.nonce = calls[c].nonce /\ ~r.altered,
         r.step \in {"received", "judged"} /\ ~r.altered => messages[r.nonce].made,
         r.step = "judged" =>
           /\ ~r.altered /\ r.now = clock
           /\ clock <= messages[r.nonce].created + MaxAge,
         r.step = "served" /\ messages[r.nonce].to = "tools" /\ messages[r.nonce].ask = "order"
           => messages[r.nonce].from = Desk
  PROVE  StepOK
<1>1. Typed  BY DEF Inv
<1>2. /\ clock' = clock /\ messages' = messages /\ seen' = seen
      /\ secret' = secret /\ header' = header /\ recipe' = recipe
  BY DEF orderVars
<1>3. Typed'  BY <1>1, <1>2 DEF Typed, GuardTypeOK
<1>4. calls'[c] = r /\ \A d \in Calls : d # c => calls'[d] = calls[d]
  BY <1>1 DEF Typed, GuardTypeOK
<1>5. \A d \in Calls : /\ calls'[d].step \in Accepted <=> calls[d].step \in Accepted
                       /\ calls[d].step \in Accepted => calls'[d].nonce = calls[d].nonce
  BY <1>4
<1>6. Genuine'
  <2> SUFFICES ASSUME NEW d \in Calls
               PROVE  /\ calls'[d].step = "received" /\ ~calls'[d].altered
                           => messages[calls'[d].nonce].made
                      /\ calls'[d].step \in Accepted \cup {"judged"} =>
                           messages[calls'[d].nonce].made /\ ~calls'[d].altered
    BY <1>2 DEF Genuine
  <2>1. CASE d = c  BY <2>1, <1>4 DEF Inv, Genuine
  <2>2. CASE d # c  BY <2>2, <1>4 DEF Inv, Genuine
  <2> QED  BY <2>1, <2>2
<1>7. InTime'
  <2> SUFFICES ASSUME NEW d \in Calls, calls'[d].step = "judged"
               PROVE  calls'[d].now <= messages[calls'[d].nonce].created + MaxAge
    BY <1>2 DEF InTime
  <2>1. CASE d = c  BY <2>1, <1>4
  <2>2. CASE d # c  BY <2>2, <1>4 DEF Inv, InTime
  <2> QED  BY <2>1, <2>2
<1>8. LongKept'  BY <1>2, <1>5 DEF Inv, LongKept
<1>9. Addressed'  BY <1>2 DEF Inv, Addressed
<1>10. SecretsKept'  BY <1>2, <1>5 DEF Inv, SecretsKept
<1>11. OrderOrigins'  BY <1>2, <1>5 DEF Inv, OrderOrigins
<1>12. DeskServes'
  <2> SUFFICES ASSUME NEW d \in Calls, calls'[d].step = "served",
                      messages[calls'[d].nonce].to = "tools",
                      messages[calls'[d].nonce].ask = "order"
               PROVE  messages[calls'[d].nonce].from = Desk
    BY <1>2 DEF DeskServes
  <2> QED  BY <1>4 DEF Inv, DeskServes
<1>13. AgainOnlyLate  BY <1>5 DEF AgainOnlyLate, At, Accepted
<1> QED
  BY <1>3, <1>6, <1>7, <1>8, <1>9, <1>10, <1>11, <1>12, <1>13 DEF StepOK, Inv

(* A service that forgets nothing too early accepts a call whose nonce it  *)
(* does not remember, or may have forgotten, and remembers it.             *)
LEMMA AcceptInv ==
  ASSUME Inv, NEW c \in Calls, At(c, "judged"),
         NEW r \in Call, r.step = "passed", r.nonce = calls[c].nonce, ~r.altered,
         calls' = [calls EXCEPT ![c] = r],
         UNCHANGED <<clock, messages, secret, recipe>>,
         seen' \in [Services -> [Nonces -> Nat]], header' \in [Calls -> Nat],
         \A d \in Calls : d # c => header'[d] = header[d],
         recipe = "30" <=> header'[c] # 0,
         \/ seen[Service(c)][calls[c].nonce] < MessageOf(c).created + MaxAge + 1
         \/ clock >= MessageOf(c).created + MaxAge + Kept[Service(c)],
         seen'[Service(c)][calls[c].nonce] >= MessageOf(c).created + MaxAge + 1,
         ForgetsInTime
  PROVE  StepOK
<1>1. Typed  BY DEF Inv
<1>2. /\ clock' = clock /\ messages' = messages /\ secret' = secret /\ recipe' = recipe
  OBVIOUS
<1>3. Typed'  BY <1>1, <1>2 DEF Typed, GuardTypeOK
<1>4. calls'[c] = r /\ \A d \in Calls : d # c => calls'[d] = calls[d]
  BY <1>1 DEF Typed, GuardTypeOK
<1>5. /\ messages[calls[c].nonce].made /\ calls[c].step = "judged"
      /\ calls[c].nonce \in Nonces /\ MessageOf(c) = messages[calls[c].nonce]
      /\ MessageOf(c).to = Service(c) /\ Service(c) \in Services
      /\ MessageOf(c).created \in Nat /\ clock \in Nat /\ calls[c].now \in Nat
  BY <1>1 DEF Inv, Genuine, At, MessageOf, Service, Typed, GuardTypeOK, Call, Message
<1>6. Kept[Service(c)] \in Nat /\ MaxAge \in Nat  BY <1>5, Constants
<1>7. calls[c].now <= MessageOf(c).created + MaxAge  BY <1>5 DEF Inv, InTime
<1>8. AgainOnlyLate
  <2> SUFFICES ASSUME NEW e \in Calls, NEW d \in Calls,
                      e # d, calls[d].step \in Accepted, calls[d].nonce = calls[e].nonce,
                      At(e, "judged"), calls'[e].step = "passed"
               PROVE  clock >= calls[e].now + Kept[Service(e)]
    BY DEF AgainOnlyLate
  <2>1. e = c  BY <1>4 DEF At
  <2>2. \/ seen[Service(c)][calls[c].nonce] >= MessageOf(c).created + MaxAge + 1
        \/ clock >= MessageOf(c).created + MaxAge + Kept[Service(c)]
    BY <1>5, <2>1 DEF Inv, LongKept
  <2>3. seen[Service(c)][calls[c].nonce] \in Nat
    BY <1>1, <1>5 DEF Typed, GuardTypeOK
  <2> QED  BY <2>1, <2>2, <2>3, <1>5, <1>6, <1>7
<1>10. Genuine'  BY <1>2, <1>4, <1>5 DEF Inv, Genuine
<1>11. InTime'  BY <1>2, <1>4 DEF Inv, InTime
<1>12. LongKept'
  <2> SUFFICES ASSUME NEW d \in Calls, calls'[d].step \in Accepted
               PROVE  LET m == messages[calls'[d].nonce] IN
                      \/ seen'[m.to][calls'[d].nonce] >= m.created + MaxAge + 1
                      \/ clock >= m.created + MaxAge + Kept[m.to]
    BY <1>2 DEF LongKept
  <2>1. CASE d = c  BY <2>1, <1>4, <1>5
  <2>2. CASE d # c
    <3> DEFINE n == calls[d].nonce
               t == messages[n].to
    <3>1. calls'[d] = calls[d] /\ calls[d].step \in Accepted  BY <2>2, <1>4
    <3>2. n \in Nonces /\ t \in Services /\ messages[n].created \in Nat
      BY <1>1 DEF Typed, GuardTypeOK, Call, Message
    <3>3. seen[t][n] \in Nat /\ seen'[t][n] \in Nat
      BY <3>2, <1>1 DEF Typed, GuardTypeOK
    <3>4. \/ seen[t][n] >= messages[n].created + MaxAge + 1
          \/ clock >= messages[n].created + MaxAge + Kept[t]
      BY <3>1 DEF Inv, LongKept
    <3>5. \/ seen'[t][n] >= seen[t][n]
          \/ seen[t][n] >= messages[n].created + MaxAge + 1 =>
               clock >= messages[n].created + MaxAge + Kept[t]
      BY <3>1, <3>2 DEF ForgetsInTime
    <3> HIDE DEF n, t
    <3>6. \/ seen'[t][n] >= messages[n].created + MaxAge + 1
          \/ clock >= messages[n].created + MaxAge + Kept[t]
      BY <3>2, <3>3, <3>4, <3>5, <1>6
    <3> QED  BY <3>6, <3>1 DEF n, t
  <2> QED  BY <2>1, <2>2
<1>13. Addressed'  BY <1>2 DEF Inv, Addressed
<1>14. SecretsKept'
  <2> SUFFICES ASSUME NEW d \in Calls
               PROVE  /\ header'[d] # 0 => calls'[d].step \in Accepted
                      /\ recipe = "30" /\ calls'[d].step \in Accepted => header'[d] # 0
    BY <1>2 DEF SecretsKept
  <2>1. CASE d = c  BY <2>1, <1>4 DEF Accepted
  <2>2. CASE d # c  BY <2>2, <1>4 DEF Inv, SecretsKept
  <2> QED  BY <2>1, <2>2
<1>15. \A d \in Calls : calls[d].step \in Accepted =>
         calls'[d].step \in Accepted /\ calls'[d].nonce = calls[d].nonce
  BY <1>4 DEF Accepted
<1>16. OrderOrigins'  BY <1>2, <1>15 DEF Inv, OrderOrigins
<1>17. DeskServes'  BY <1>2, <1>4 DEF Inv, DeskServes
<1> QED
  BY <1>3, <1>8, <1>10, <1>11, <1>12, <1>13, <1>14, <1>16, <1>17 DEF StepOK, Inv

(* What is forgotten because time passes is forgotten by a step of its own. *)
LEMMA TickInv == ASSUME Inv, Tick, UNCHANGED <<orderVars, recipe>> PROVE StepOK
<1>1. /\ clock' = clock + 1 /\ messages' = messages /\ calls' = calls /\ seen' = seen
      /\ secret' = secret /\ header' = header /\ recipe' = recipe
  BY DEF Tick, orderVars
<1>2. Typed /\ clock \in Nat  BY DEF Inv, Typed, GuardTypeOK
<1>3. Typed'  BY <1>1, <1>2 DEF Typed, GuardTypeOK
<1>4. \A c \in Calls : messages[calls[c].nonce].to \in Services
                       /\ messages[calls[c].nonce].created \in Nat /\ calls[c].now \in Nat
  BY <1>2 DEF Typed, GuardTypeOK, Call, Message
<1>5. InTime' /\ AgainOnlyLate  BY <1>1 DEF Inv, InTime, AgainOnlyLate, At
<1>6. LongKept'
  <2> SUFFICES ASSUME NEW c \in Calls, calls[c].step \in Accepted
               PROVE  LET m == messages[calls[c].nonce] IN
                      \/ seen[m.to][calls[c].nonce] >= m.created + MaxAge + 1
                      \/ clock + 1 >= m.created + MaxAge + Kept[m.to]
    BY <1>1 DEF LongKept
  <2>1. Kept[messages[calls[c].nonce].to] \in Nat  BY <1>4, Constants
  <2> QED  BY <2>1, <1>2, <1>4, Constants DEF Inv, LongKept
<1> QED
  BY <1>1, <1>3, <1>5, <1>6
  DEF StepOK, Inv, Genuine, Addressed, SecretsKept, OrderOrigins, DeskServes

LEMMA DeliverInv ==
  ASSUME Inv, NEW c \in Calls, NEW n \in Nonces, NEW altered \in BOOLEAN,
         Deliver(c, n, altered), UNCHANGED <<orderVars, recipe>>
  PROVE  StepOK
<1> DEFINE r == [step |-> "received", nonce |-> n, altered |-> altered, now |-> 0]
<1>1. r \in Call  BY DEF Call, Steps
<1>2. calls[c].step = "idle" /\ messages[n].made /\ calls' = [calls EXCEPT ![c] = r]
      /\ UNCHANGED <<clock, messages, seen>>
  BY DEF Deliver, At
<1>3. r.step = "received" /\ r.nonce = n  OBVIOUS
<1> HIDE DEF r
<1> QED  BY <1>1, <1>2, <1>3, CallInv DEF Accepted

LEMMA JudgeInv ==
  ASSUME Inv, NEW c \in Calls, Judge(c), UNCHANGED <<orderVars, recipe>>
  PROVE  StepOK
<1> DEFINE r == [calls[c] EXCEPT !.step = "judged", !.now = clock]
<1>1. Typed  BY DEF Inv
<1>2. calls[c] \in Call /\ clock \in Nat  BY <1>1 DEF Typed, GuardTypeOK
<1>3. r \in Call /\ r.step = "judged" /\ r.nonce = calls[c].nonce /\ r.now = clock
      /\ r.altered = calls[c].altered
  BY <1>2 DEF Call, Steps
<1>4. /\ calls[c].step = "received" /\ ~calls[c].altered
      /\ clock <= messages[calls[c].nonce].created + MaxAge
      /\ UNCHANGED <<clock, messages, seen>>
  BY DEF Judge, At, Fresh
<1>5. calls' = [calls EXCEPT ![c] = r]  BY <1>1, <1>2 DEF Judge
<1>6. messages[calls[c].nonce].made  BY <1>4 DEF Inv, Genuine
<1> HIDE DEF r
<1> QED  BY <1>3, <1>4, <1>5, <1>6, CallInv DEF Accepted

(* A step that accepts nothing, and may deny and forget. *)
LEMMA NothingAcceptedInv ==
  ASSUME Inv, UNCHANGED <<clock, messages, orderVars, recipe>>,
         calls' \in [Calls -> Call],
         \A c \in Calls : \/ calls'[c] = calls[c]
                          \/ calls'[c] = Denied /\ calls[c].step \notin Accepted,
         seen' \in [Services -> [Nonces -> Nat]], ForgetsInTime
  PROVE  StepOK
<1>1. Typed  BY DEF Inv
<1>2. /\ clock' = clock /\ messages' = messages
      /\ secret' = secret /\ header' = header /\ recipe' = recipe
  BY DEF orderVars
<1>3. Typed'  BY <1>1, <1>2 DEF Typed, GuardTypeOK
<1>4. Denied.step = "denied"  BY NoCallYetTyped
<1>5. \A c \in Calls :
        /\ calls'[c].step \in Accepted <=> calls[c].step \in Accepted
        /\ calls'[c].step # "denied" \/ calls[c].step \in Accepted => calls'[c] = calls[c]
  BY <1>4 DEF Accepted
<1>6. Genuine'  BY <1>2, <1>4, <1>5 DEF Inv, Genuine, Accepted
<1>7. InTime'  BY <1>2, <1>5 DEF Inv, InTime
<1>8. LongKept'
  <2> SUFFICES ASSUME NEW d \in Calls, calls[d].step \in Accepted
               PROVE  LET m == messages[calls[d].nonce] IN
                      \/ seen'[m.to][calls[d].nonce] >= m.created + MaxAge + 1
                      \/ clock >= m.created + MaxAge + Kept[m.to]
    BY <1>2, <1>5 DEF LongKept
  <2> DEFINE n == calls[d].nonce
             t == messages[n].to
  <2>1. n \in Nonces /\ t \in Services /\ messages[n].created \in Nat
    BY <1>1 DEF Typed, GuardTypeOK, Call, Message
  <2>2. seen[t][n] \in Nat /\ seen'[t][n] \in Nat
    BY <2>1, <1>1 DEF Typed, GuardTypeOK
  <2>3. \/ seen[t][n] >= messages[n].created + MaxAge + 1
        \/ clock >= messages[n].created + MaxAge + Kept[t]
    BY DEF Inv, LongKept
  <2>4. \/ seen'[t][n] >= seen[t][n]
        \/ seen[t][n] >= messages[n].created + MaxAge + 1 =>
             clock >= messages[n].created + MaxAge + Kept[t]
    BY <2>1 DEF ForgetsInTime
  <2> HIDE DEF n, t
  <2>5. \/ seen'[t][n] >= messages[n].created + MaxAge + 1
        \/ clock >= messages[n].created + MaxAge + Kept[t]
    BY <2>1, <2>2, <2>3, <2>4, Constants
  <2> QED  BY <2>5 DEF n, t
<1>9. Addressed'  BY <1>2 DEF Inv, Addressed
<1>10. SecretsKept'  BY <1>2, <1>5 DEF Inv, SecretsKept
<1>11. OrderOrigins'  BY <1>2, <1>5 DEF Inv, OrderOrigins
<1>12. DeskServes'  BY <1>2, <1>5 DEF Inv, DeskServes
<1>13. AgainOnlyLate  BY <1>5 DEF AgainOnlyLate, At, Accepted
<1> QED
  BY <1>3, <1>6, <1>7, <1>8, <1>9, <1>10, <1>11, <1>12, <1>13 DEF StepOK, Inv

(* What is judged, or has not been looked at, may be denied.               *)
LEMMA DeniedInv ==
  ASSUME Inv, NEW c \in Calls, calls[c].step \notin Accepted, GoDenied(c),
         UNCHANGED <<clock, messages, orderVars, recipe>>,
         seen' \in [Services -> [Nonces -> Nat]], ForgetsInTime
  PROVE  StepOK
<1>1. calls \in [Calls -> Call]  BY DEF Inv, Typed, GuardTypeOK
<1>2. /\ calls' \in [Calls -> Call]
      /\ calls'[c] = Denied /\ \A d \in Calls : d # c => calls'[d] = calls[d]
  BY <1>1, NoCallYetTyped DEF GoDenied
<1> QED  BY <1>2, NothingAcceptedInv

(* Nothing is forgotten. *)
LEMMA NothingForgotten ==
  ASSUME Inv, seen' = seen
  PROVE  seen' \in [Services -> [Nonces -> Nat]] /\ ForgetsInTime
<1>1. seen \in [Services -> [Nonces -> Nat]]  BY DEF Inv, Typed, GuardTypeOK
<1>2. \A s \in Services, n \in Nonces : seen[s][n] \in Nat  BY <1>1
<1> QED  BY <1>1, <1>2 DEF ForgetsInTime

LEMMA DenyInv ==
  ASSUME Inv, NEW c \in Calls, Deny(c), UNCHANGED <<orderVars, recipe>>
  PROVE  StepOK
<1>1. calls[c].step \notin Accepted /\ GoDenied(c) /\ UNCHANGED <<clock, messages, seen>>
  BY DEF Deny, Accepted
<1> QED  BY <1>1, NothingForgotten, DeniedInv

(* What passed is served, if it is an order to the desk then of the agent. *)
LEMMA DoneInv ==
  ASSUME Inv, NEW c \in Calls, At(c, "passed"), NEW step \in {"served", "refused"},
         GoTo(c, step), UNCHANGED <<clock, messages, seen, orderVars, recipe>>,
         step = "served" /\ Service(c) = "tools" /\ MessageOf(c).ask = "order" =>
           MessageOf(c).from = Desk
  PROVE  StepOK
<1> DEFINE r == [calls[c] EXCEPT !.step = step, !.now = 0]
<1>1. Typed  BY DEF Inv
<1>2. calls[c] \in Call  BY <1>1 DEF Typed, GuardTypeOK
<1>3. r \in Call /\ r.step = step /\ r.nonce = calls[c].nonce /\ r.altered = calls[c].altered
  BY <1>2 DEF Call, Steps
<1>4. calls[c].step = "passed" /\ messages[calls[c].nonce].made /\ ~calls[c].altered
  BY DEF At, Inv, Genuine, Accepted
<1>5. calls' = [calls EXCEPT ![c] = r]  BY <1>1, <1>2 DEF GoTo
<1> HIDE DEF r
<1> QED  BY <1>3, <1>4, <1>5, CallInv DEF Accepted, Service, MessageOf

-----------------------------------------------------------------------------
(* The steps of OrdersGateway. *)

LEMMA ReserveInv ==
  ASSUME Inv, recipe = "30", NEW c \in Calls, Reserve(c), UNCHANGED recipe
  PROVE  StepOK
<1> DEFINE n == calls[c].nonce
<1>1. Typed  BY DEF Inv
<1>2. /\ calls[c].step = "judged" /\ seen["interceptor"][n] = 0
      /\ UNCHANGED <<clock, messages, secret>>
  BY DEF Reserve, At, Remembers
<1>3. /\ n \in Nonces /\ calls[c] \in Call /\ messages[n] \in Message
      /\ messages[n].created \in Nat /\ calls[c].now \in Nat
  BY <1>1 DEF Typed, GuardTypeOK, Call, Message
<1>4. messages[n].to = "interceptor" /\ messages[n].made /\ ~calls[c].altered
  BY <1>2, <1>3 DEF Inv, Genuine, Addressed
<1>5. ExpiresAt(c) \in Nat /\ ExpiresAt(c) >= messages[n].created + MaxAge + 1
  <2> DEFINE rest == messages[n].created + MaxAge + 1
  <2>1. ExpiresAt(c) = IF rest > calls[c].now + 1 THEN rest ELSE calls[c].now + 1
    BY DEF ExpiresAt, MessageOf
  <2> QED  BY <2>1, <1>3, Constants
<1>6. /\ "interceptor" \in Services /\ seen["interceptor"][n] \in Nat
      /\ seen \in [Services -> [Nonces -> Nat]]
  BY <1>1, <1>3, Constants DEF Typed, GuardTypeOK
<1>7. CASE /\ seen' = [seen EXCEPT !["interceptor"][n] = ExpiresAt(c)]
           /\ GoTo(c, "passed") /\ header' = [header EXCEPT ![c] = secret.interceptor]
  <2> DEFINE r == [calls[c] EXCEPT !.step = "passed", !.now = 0]
  <2>1. r \in Call /\ r.step = "passed" /\ r.nonce = n /\ ~r.altered
    BY <1>3, <1>4 DEF Call, Steps
  <2>2. calls' = [calls EXCEPT ![c] = r]  BY <1>7, <1>1, <1>3 DEF GoTo
  <2>3. /\ seen' \in [Services -> [Nonces -> Nat]]
        /\ seen'["interceptor"][n] = ExpiresAt(c)
        /\ ForgetsInTime
    BY <1>7, <1>2, <1>3, <1>5, <1>6 DEF ForgetsInTime
  <2>4. secret.interceptor \in Nat \ {0}  BY <1>1, Constants DEF Typed
  <2>5. /\ header' \in [Calls -> Nat] /\ header'[c] # 0
        /\ \A d \in Calls : d # c => header'[d] = header[d]
    BY <1>7, <2>4, <1>1 DEF Typed
  <2>6. Service(c) = "interceptor" /\ MessageOf(c) = messages[n] /\ At(c, "judged")
    BY <1>2, <1>4 DEF Service, MessageOf, At
  <2>7. seen["interceptor"][n] < messages[n].created + MaxAge + 1
    BY <1>2, <1>3, Constants
  <2> HIDE DEF r
  <2> QED  BY <1>2, <1>5, <2>1, <2>2, <2>3, <2>5, <2>6, <2>7, AcceptInv
<1>8. CASE /\ seen' = [seen EXCEPT !["interceptor"][n] = ExpiresAt(c)]
           /\ GoDenied(c) /\ UNCHANGED header
  <2>1. seen' \in [Services -> [Nonces -> Nat]] /\ ForgetsInTime
    BY <1>8, <1>2, <1>3, <1>5, <1>6 DEF ForgetsInTime
  <2> QED  BY <1>2, <1>8, <2>1, DeniedInv DEF Accepted, orderVars
<1>9. CASE GoDenied(c) /\ UNCHANGED <<header, seen>>
  BY <1>2, <1>9, NothingForgotten, DeniedInv DEF Accepted, orderVars
<1> QED  BY <1>7, <1>8, <1>9 DEF Reserve

LEMMA DenyReplayInv ==
  ASSUME Inv, NEW c \in Calls, DenyReplay(c), UNCHANGED recipe
  PROVE  StepOK
<1>1. /\ calls[c].step \notin Accepted /\ GoDenied(c)
      /\ UNCHANGED <<clock, messages, seen, orderVars>>
  BY DEF DenyReplay, At, Accepted
<1> QED  BY <1>1, NothingForgotten, DeniedInv

LEMMA CallDirectlyInv ==
  ASSUME Inv, NEW c \in Calls, CallDirectly(c), UNCHANGED recipe
  PROVE  StepOK
<1>1. PICK n \in Nonces :
        calls' = [calls EXCEPT ![c] =
          [step |-> "received", nonce |-> n, altered |-> TRUE, now |-> 0]]
  BY DEF CallDirectly
<1> DEFINE r == [step |-> "received", nonce |-> n, altered |-> TRUE, now |-> 0]
<1>2. r \in Call /\ r.step = "received" /\ r.altered  BY DEF Call, Steps
<1>3. calls' = [calls EXCEPT ![c] = r]  BY <1>1
<1>4. calls[c].step = "idle" /\ UNCHANGED <<clock, messages, seen, orderVars>>
  BY DEF CallDirectly, At
<1> HIDE DEF r
<1> QED  BY <1>2, <1>3, <1>4, CallInv DEF Accepted

LEMMA OrderInv ==
  ASSUME Inv, recipe = "30", NEW c \in Calls, Order(c), UNCHANGED recipe
  PROVE  StepOK
<1>1. UNCHANGED <<clock, messages, seen, orderVars>>  BY DEF Order
<1>2. Typed  BY DEF Inv
<1>3. secret.target \in Nat \ {0}  BY <1>2, Constants DEF Typed
<1>4. At(c, "received") => header[c] = 0
  BY DEF Inv, SecretsKept, At, Accepted
<1>5. At(c, "passed") => Service(c) = "interceptor"
  BY <1>2 DEF At, Service, MessageOf, Inv, Genuine, Addressed, Accepted, Typed, GuardTypeOK, Call
<1>6. CASE FromInterceptor(c) /\ GoTo(c, "served")
  <2>1. At(c, "passed")  BY <1>3, <1>4, <1>6 DEF Order, FromInterceptor
  <2> QED  BY <1>1, <1>5, <1>6, <2>1, DoneInv
<1>7. CASE ~FromInterceptor(c) /\ At(c, "passed") /\ GoTo(c, "refused")
  BY <1>1, <1>7, DoneInv
<1>8. CASE ~FromInterceptor(c) /\ At(c, "received") /\ GoDenied(c)
  <2>1. calls[c].step \notin Accepted  BY <1>8 DEF At, Accepted
  <2> QED  BY <1>1, <1>8, <2>1, NothingForgotten, DeniedInv
<1> QED  BY <1>6, <1>7, <1>8 DEF Order

LEMMA SweepInv ==
  ASSUME Inv, recipe = "30", NEW n \in Nonces, Sweep(n), UNCHANGED recipe
  PROVE  StepOK
<1>1. Typed  BY DEF Inv
<1>2. /\ UNCHANGED <<clock, messages, calls, orderVars>>
      /\ seen["interceptor"][n] + SweepLag < clock
      /\ seen' = [seen EXCEPT !["interceptor"][n] = 0]
  BY DEF Sweep
<1>3. seen \in [Services -> [Nonces -> Nat]] /\ calls' \in [Calls -> Call] /\ clock \in Nat
  BY <1>1, <1>2 DEF Typed, GuardTypeOK
<1>4. messages[n].created \in Nat  BY <1>1 DEF Typed, GuardTypeOK, Message
<1>5. seen' \in [Services -> [Nonces -> Nat]]  BY <1>2, <1>3
<1>6. \A s \in Services, m \in Nonces :
        s # "interceptor" \/ m # n => seen'[s][m] = seen[s][m] /\ seen[s][m] \in Nat
  BY <1>2, <1>3, Constants
<1>7. seen["interceptor"][n] >= messages[n].created + MaxAge + 1 =>
        clock >= messages[n].created + MaxAge + Kept["interceptor"]
  <2>1. seen["interceptor"][n] \in Nat  BY <1>3, Constants
  <2> QED  BY <1>2, <1>3, <1>4, <2>1, Constants
<1>8. ForgetsInTime
  <2> SUFFICES ASSUME NEW s \in Services, NEW m \in Nonces
               PROVE  \/ seen'[s][m] >= seen[s][m]
                      \/ seen[s][m] >= messages[m].created + MaxAge + 1 =>
                           clock >= messages[m].created + MaxAge + Kept[s]
    BY DEF ForgetsInTime
  <2>1. CASE s = "interceptor" /\ m = n  BY <2>1, <1>7
  <2>2. CASE s # "interceptor" \/ m # n  BY <2>2, <1>6
  <2> QED  BY <2>1, <2>2
<1> QED  BY <1>2, <1>3, <1>5, <1>8, NothingAcceptedInv

(* A renewed secret is a secret, and no call has it yet. *)
LEMMA RenewInv ==
  ASSUME Inv, RenewTarget \/ RenewInterceptor, UNCHANGED recipe
  PROVE  StepOK
<1>1. /\ clock' = clock /\ messages' = messages /\ calls' = calls /\ seen' = seen
      /\ header' = header /\ recipe' = recipe
  BY DEF RenewTarget, RenewInterceptor, guardVars
<1>2. Typed'
  <2>1. secret' \in [interceptor : Secrets, target : Secrets]
    BY DEF Inv, Typed, RenewTarget, RenewInterceptor
  <2> QED  BY <2>1, <1>1 DEF Inv, Typed, GuardTypeOK
<1> QED
  BY <1>1, <1>2
  DEF StepOK, Inv, Genuine, InTime, LongKept, Addressed, SecretsKept, OrderOrigins, DeskServes,
      AgainOnlyLate, At

LEMMA OrdersInv == ASSUME Inv, recipe = "30", OrdersNext, UNCHANGED recipe PROVE StepOK
<1>1. ASSUME NEW n \in Nonces, SignAction(n)  PROVE StepOK
  <2>1. Sign(n, Peer, "interceptor", "order", NoCall) /\ UNCHANGED orderVars
    BY <1>1 DEF SignAction
  <2> QED  BY <2>1, SignInv, Constants
<1>2. ASSUME NEW n \in Nonces, Sweep(n)  PROVE StepOK  BY <1>2, SweepInv
<1>3. ASSUME NEW c \in Calls, Request(c)  PROVE StepOK
  BY <1>3, DeliverInv DEF Request
<1>4. ASSUME NEW c \in Calls, VerifyRequest(c)  PROVE StepOK
  BY <1>4, JudgeInv DEF VerifyRequest
<1>5. ASSUME NEW c \in Calls, DenyRequest(c)  PROVE StepOK
  BY <1>5, DenyInv DEF DenyRequest
<1>6. ASSUME NEW c \in Calls, Reserve(c)  PROVE StepOK  BY <1>6, ReserveInv
<1>7. ASSUME NEW c \in Calls, DenyReplay(c)  PROVE StepOK  BY <1>7, DenyReplayInv
<1>8. ASSUME NEW c \in Calls, CallDirectly(c)  PROVE StepOK  BY <1>8, CallDirectlyInv
<1>9. ASSUME NEW c \in Calls, Order(c)  PROVE StepOK  BY <1>9, OrderInv
<1>10. CASE RenewTarget \/ RenewInterceptor  BY <1>10, RenewInv
<1>11. CASE Tick /\ UNCHANGED orderVars  BY <1>11, TickInv
<1> QED
  BY <1>1, <1>2, <1>3, <1>4, <1>5, <1>6, <1>7, <1>8, <1>9, <1>10, <1>11 DEF OrdersNext

-----------------------------------------------------------------------------
(* Services that forget and remember in one step. *)

(* What a service forgets in the step in which it looks up a nonce is past *)
(* its time; it remembers the nonce that it passes.                        *)
LEMMA PurgeInv ==
  ASSUME Inv, recipe # "30", NEW c \in Calls, NEW kept \in [Nonces -> Nat],
         UNCHANGED <<clock, messages, orderVars, recipe>>,
         At(c, "judged"), Kept[Service(c)] = 1,
         \A m \in Nonces : \/ kept[m] = seen[Service(c)][m]
                           \/ kept[m] = 0 /\ seen[Service(c)][m] <= clock,
         seen' = [seen EXCEPT ![Service(c)] =
           IF kept[calls[c].nonce] = 0
           THEN [kept EXCEPT ![calls[c].nonce] = MessageOf(c).created + MaxAge + 1] ELSE kept],
         \/ kept[calls[c].nonce] = 0 /\ GoTo(c, "passed")
         \/ GoDenied(c)
  PROVE  StepOK
<1> DEFINE n    == calls[c].nonce
           s    == Service(c)
           until == messages[n].created + MaxAge + 1
<1>1. Typed  BY DEF Inv
<1>2. /\ calls[c].step = "judged" /\ UNCHANGED <<clock, messages>>
      /\ seen' = [seen EXCEPT ![s] =
           IF kept[n] = 0 THEN [kept EXCEPT ![n] = until] ELSE kept]
  BY DEF At, MessageOf
<1>3. /\ n \in Nonces /\ calls[c] \in Call /\ messages[n] \in Message
      /\ messages[n].created \in Nat /\ clock \in Nat /\ until \in Nat
      /\ seen \in [Services -> [Nonces -> Nat]] /\ MaxAge \in Nat
  BY <1>1, Constants DEF Typed, GuardTypeOK, Call, Message
<1>4. messages[n].made /\ ~calls[c].altered /\ s = messages[n].to
  BY <1>2, <1>3 DEF Inv, Genuine, Service, MessageOf
<1>5. s \in Services /\ Kept[s] = 1  BY <1>3, <1>4 DEF Message
<1>6. \A m \in Nonces : seen[s][m] \in Nat  BY <1>3, <1>5
<1>7. kept \in [Nonces -> Nat] /\ \A m \in Nonces :
        \/ kept[m] = seen[s][m]
        \/ kept[m] = 0 /\ seen[s][m] <= clock
  OBVIOUS
<1> DEFINE k == IF kept[n] = 0 THEN [kept EXCEPT ![n] = until] ELSE kept
<1>8. k \in [Nonces -> Nat] /\ \A m \in Nonces : k[m] >= kept[m]
  BY <1>3, <1>7
<1>9. /\ seen' \in [Services -> [Nonces -> Nat]] /\ seen'[s] = k
      /\ \A t \in Services : t # s => seen'[t] = seen[t]
  BY <1>2, <1>3, <1>5, <1>8
<1>10. ForgetsInTime
  <2> SUFFICES ASSUME NEW t \in Services, NEW m \in Nonces
               PROVE  \/ seen'[t][m] >= seen[t][m]
                      \/ seen[t][m] >= messages[m].created + MaxAge + 1 =>
                           clock >= messages[m].created + MaxAge + Kept[t]
    BY DEF ForgetsInTime
  <2>1. seen[t][m] \in Nat /\ messages[m].created \in Nat
    BY <1>1 DEF Typed, GuardTypeOK, Message
  <2>2. CASE t # s  BY <2>1, <2>2, <1>9
  <2>3. CASE t = s
    <3>1. seen'[t][m] >= kept[m] /\ seen'[t][m] \in Nat  BY <2>3, <1>8, <1>9
    <3>2. kept[m] = seen[t][m] \/ seen[t][m] <= clock  BY <2>3, <1>7
    <3> HIDE DEF s
    <3> QED  BY <2>1, <2>3, <3>1, <3>2, <1>3, <1>5
  <2> QED  BY <2>2, <2>3
<1>11. CASE kept[n] = 0 /\ GoTo(c, "passed")
  <2> DEFINE r == [calls[c] EXCEPT !.step = "passed", !.now = 0]
  <2>1. r \in Call /\ r.step = "passed" /\ r.nonce = n /\ ~r.altered
    BY <1>3, <1>4 DEF Call, Steps
  <2>2. calls' = [calls EXCEPT ![c] = r]  BY <1>11, <1>2, <1>1, <1>3 DEF GoTo
  <2>3. seen'[s][n] = until  BY <1>11, <1>3, <1>7, <1>9
  <2>4. seen[s][n] < until \/ clock >= messages[n].created + MaxAge + Kept[s]
    <3>1. seen[s][n] = 0 \/ seen[s][n] <= clock  BY <1>11, <1>3, <1>7
    <3> HIDE DEF s
    <3> QED  BY <3>1, <1>3, <1>5, <1>6
  <2>5. header' = header /\ header' \in [Calls -> Nat] /\ header'[c] = 0 /\ secret' = secret
    BY <1>1, <1>2 DEF orderVars, Typed, Inv, SecretsKept, Accepted
  <2>6. MessageOf(c) = messages[n] /\ At(c, "judged")  BY <1>2 DEF MessageOf, At
  <2>7. /\ \/ seen[Service(c)][calls[c].nonce] < MessageOf(c).created + MaxAge + 1
           \/ clock >= MessageOf(c).created + MaxAge + Kept[Service(c)]
        /\ seen'[Service(c)][calls[c].nonce] >= MessageOf(c).created + MaxAge + 1
    BY <2>3, <2>4, <2>6, <1>3
  <2>8. recipe' = recipe /\ clock' = clock /\ messages' = messages  BY <1>2
  <2>9. seen' \in [Services -> [Nonces -> Nat]]  BY <1>9
  <2> HIDE DEF r, k, s, until, n
  <2> QED
    BY <1>10, <2>1, <2>2, <2>5, <2>6, <2>7, <2>8, <2>9, AcceptInv DEF n
<1>12. CASE GoDenied(c)
  <2>1. calls[c].step \notin Accepted /\ UNCHANGED <<clock, messages>>
    BY <1>2 DEF Accepted
  <2> QED  BY <1>9, <1>10, <1>12, <2>1, DeniedInv
<1> QED  BY <1>11, <1>12

-----------------------------------------------------------------------------
(* The steps of OrderDesk. *)

(* Both recipes share the definitions of ReplayGuard. *)
LEMMA SameGuard ==
  /\ \A n \in Nonces, from \in Identities, to \in Services, ask \in Asks,
        origin \in Calls \cup {NoCall} :
       OrderDesk!Sign(n, from, to, ask, origin) <=> Sign(n, from, to, ask, origin)
  /\ \A c \in Calls, n \in Nonces, altered \in BOOLEAN :
       OrderDesk!Deliver(c, n, altered) <=> Deliver(c, n, altered)
  /\ \A c \in Calls :
       /\ OrderDesk!Judge(c) <=> Judge(c)
       /\ OrderDesk!Deny(c) <=> Deny(c)
       /\ OrderDesk!GoDenied(c) <=> GoDenied(c)
       /\ OrderDesk!MessageOf(c) = MessageOf(c) /\ OrderDesk!Service(c) = Service(c)
       /\ OrderDesk!Caller(c) = MessageOf(c).from
       /\ \A step \in Steps : /\ OrderDesk!At(c, step) <=> At(c, step)
                              /\ OrderDesk!GoTo(c, step) <=> GoTo(c, step)
  /\ OrderDesk!Tick <=> Tick
<1> USE DEF OrderDesk!MessageOf, MessageOf, OrderDesk!Service, Service, OrderDesk!At, At
<1>1. \A c \in Calls : /\ OrderDesk!MessageOf(c) = MessageOf(c)
                       /\ OrderDesk!Service(c) = Service(c)
                       /\ OrderDesk!Caller(c) = MessageOf(c).from
  BY DEF OrderDesk!Caller
<1>2. \A c \in Calls, step \in Steps : /\ OrderDesk!At(c, step) <=> At(c, step)
                                       /\ OrderDesk!GoTo(c, step) <=> GoTo(c, step)
  BY DEF OrderDesk!GoTo, GoTo
<1>3. \A n \in Nonces, from \in Identities, to \in Services, ask \in Asks,
         origin \in Calls \cup {NoCall} :
        OrderDesk!Sign(n, from, to, ask, origin) <=> Sign(n, from, to, ask, origin)
  BY DEF OrderDesk!Sign, Sign
<1>4. \A c \in Calls, n \in Nonces, altered \in BOOLEAN :
        OrderDesk!Deliver(c, n, altered) <=> Deliver(c, n, altered)
  BY DEF OrderDesk!Deliver, Deliver
<1>5. \A c \in Calls : OrderDesk!Judge(c) <=> Judge(c)
  BY DEF OrderDesk!Judge, Judge, OrderDesk!Fresh, Fresh
<1>6. \A c \in Calls : OrderDesk!GoDenied(c) <=> GoDenied(c)
  BY DEF OrderDesk!GoDenied, GoDenied, OrderDesk!Denied, Denied, OrderDesk!NoCallYet, NoCallYet,
         OrderDesk!Some, Some
<1>7. \A c \in Calls : OrderDesk!Deny(c) <=> Deny(c)
  BY <1>6 DEF OrderDesk!Deny, Deny
<1>8. OrderDesk!Tick <=> Tick  BY DEF OrderDesk!Tick, Tick
<1> QED  BY <1>1, <1>2, <1>3, <1>4, <1>5, <1>6, <1>7, <1>8

LEMMA CheckReplayInv ==
  ASSUME Inv, recipe = "31", NEW c \in Calls, OrderDesk!CheckReplay(c),
         UNCHANGED <<orderVars, recipe>>
  PROVE  StepOK
<1> DEFINE n    == calls[c].nonce
           s    == Service(c)
           kept == [m \in Nonces |-> IF seen[s][m] > clock THEN seen[s][m] ELSE 0]
<1>1. /\ At(c, "judged") /\ UNCHANGED <<clock, messages>>
      /\ seen' = [seen EXCEPT ![s] =
           IF kept[n] = 0 THEN [kept EXCEPT ![n] = MessageOf(c).created + MaxAge + 1] ELSE kept]
      /\ IF kept[n] = 0 THEN GoTo(c, "passed") ELSE GoDenied(c)
  BY SameGuard
  DEF OrderDesk!CheckReplay, OrderDesk!RememberedUntil, Steps
<1>2. /\ n \in Nonces /\ clock \in Nat /\ seen \in [Services -> [Nonces -> Nat]]
      /\ messages[n] \in Message
  BY DEF Inv, Typed, GuardTypeOK, Call
<1>3. s \in {"agent", "tools"}
  BY <1>1, <1>2 DEF Inv, Genuine, Addressed, Service, MessageOf, At
<1>4. s \in Services /\ Kept[s] = 1  BY <1>3, Constants
<1>5. \A m \in Nonces : seen[s][m] \in Nat  BY <1>2, <1>4
<1>6. kept \in [Nonces -> Nat] /\ \A m \in Nonces :
        \/ kept[m] = seen[s][m]
        \/ kept[m] = 0 /\ seen[s][m] <= clock
  BY <1>2, <1>5
<1> HIDE DEF kept
<1> QED  BY <1>1, <1>4, <1>6, PurgeInv

(* The agent orders only for a caller that it has accepted and may serve.  *)
LEMMA CallToolInv ==
  ASSUME Inv, recipe = "31", NEW c \in Calls, NEW n \in Nonces, OrderDesk!CallTool(c, n),
         UNCHANGED <<orderVars, recipe>>
  PROVE  StepOK
<1>1. PICK tool \in {"order", "fetch"} :
        /\ OrderDesk!At(c, "passed") /\ OrderDesk!Service(c) = "agent"
        /\ OrderDesk!Allowed(tool, c)
        /\ OrderDesk!Sign(n, Desk, "tools", tool, c)
  BY DEF OrderDesk!CallTool
<1>2. tool \in Asks /\ "tools" \in Services /\ Desk \in Identities  BY Constants
<1>3. Sign(n, Desk, "tools", tool, c)  BY <1>1, <1>2, SameGuard
<1>4. /\ calls[c].step = "passed"
      /\ messages[calls[c].nonce].to = "agent"
      /\ tool = "order" => messages[calls[c].nonce].from = Peer
  BY <1>1, SameGuard DEF OrderDesk!At, Service, MessageOf, OrderDesk!Allowed
<1> QED  BY <1>2, <1>3, <1>4, SignInv DEF Accepted

LEMMA DeskInv ==
  ASSUME Inv, recipe = "31", OrderDesk!DeskNext, UNCHANGED <<orderVars, recipe>>
  PROVE  StepOK
<1>1. ASSUME NEW n \in Nonces, OrderDesk!SendSigned(n)  PROVE StepOK
  <2>1. PICK from \in Identities \ {Desk} :
          \/ OrderDesk!Sign(n, from, "agent", "question", NoCall)
          \/ OrderDesk!Sign(n, from, "tools", "order", NoCall)
    BY <1>1 DEF OrderDesk!SendSigned
  <2>2. {"question", "order"} \subseteq Asks /\ {"agent", "tools"} \subseteq Services
    BY Constants
  <2>3. \/ Sign(n, from, "agent", "question", NoCall)
        \/ Sign(n, from, "tools", "order", NoCall)
    BY <2>1, <2>2, SameGuard
  <2> QED  BY <2>2, <2>3, SignInv
<1>2. ASSUME NEW c \in Calls, OrderDesk!Request(c)  PROVE StepOK
  BY <1>2, SameGuard, DeliverInv DEF OrderDesk!Request
<1>3. ASSUME NEW c \in Calls, OrderDesk!Judge(c)  PROVE StepOK  BY <1>3, SameGuard, JudgeInv
<1>4. ASSUME NEW c \in Calls, OrderDesk!Deny(c)  PROVE StepOK  BY <1>4, SameGuard, DenyInv
<1>5. ASSUME NEW c \in Calls, OrderDesk!CheckReplay(c)  PROVE StepOK  BY <1>5, CheckReplayInv
<1>6. ASSUME NEW c \in Calls, OrderDesk!Reply(c)  PROVE StepOK
  <2>1. /\ At(c, "passed") /\ Service(c) = "agent" /\ GoTo(c, "served")
        /\ UNCHANGED <<clock, messages, seen>>
    BY <1>6, SameGuard DEF OrderDesk!Reply, Steps
  <2> QED  BY <2>1, DoneInv
<1>7. ASSUME NEW c \in Calls, OrderDesk!Route(c)  PROVE StepOK
  <2>1. /\ At(c, "passed") /\ UNCHANGED <<clock, messages, seen>>
        /\ GoTo(c, IF MessageOf(c).ask = "order" /\ MessageOf(c).from # Desk
                   THEN "refused" ELSE "served")
    BY <1>7, SameGuard DEF OrderDesk!Route, Steps
  <2> QED  BY <2>1, DoneInv
<1>8. ASSUME NEW c \in Calls, NEW n \in Nonces, OrderDesk!CallTool(c, n)  PROVE StepOK
  BY <1>8, CallToolInv
<1>9. CASE OrderDesk!Tick  BY <1>9, SameGuard, TickInv
<1> QED
  BY <1>1, <1>2, <1>3, <1>4, <1>5, <1>6, <1>7, <1>8, <1>9 DEF OrderDesk!DeskNext

-----------------------------------------------------------------------------
(* The steps of IngressWorker. *)

(* The worker, too, shares the definitions of ReplayGuard. *)
LEMMA SameGuardOfWorker ==
  /\ \A n \in Nonces, from \in Identities, to \in Services, ask \in Asks,
        origin \in Calls \cup {NoCall} :
       Worker!Sign(n, from, to, ask, origin) <=> Sign(n, from, to, ask, origin)
  /\ \A c \in Calls, n \in Nonces, altered \in BOOLEAN :
       Worker!Deliver(c, n, altered) <=> Deliver(c, n, altered)
  /\ \A c \in Calls :
       /\ Worker!Judge(c) <=> Judge(c)
       /\ Worker!Deny(c) <=> Deny(c)
       /\ Worker!GoDenied(c) <=> GoDenied(c)
       /\ Worker!MessageOf(c) = MessageOf(c)
       /\ \A step \in Steps : /\ Worker!At(c, step) <=> At(c, step)
                              /\ Worker!GoTo(c, step) <=> GoTo(c, step)
  /\ Worker!Tick <=> Tick
<1> USE DEF Worker!MessageOf, MessageOf, Worker!Service, Service, Worker!At, At
<1>1. \A c \in Calls : Worker!MessageOf(c) = MessageOf(c)  OBVIOUS
<1>2. \A c \in Calls, step \in Steps : /\ Worker!At(c, step) <=> At(c, step)
                                       /\ Worker!GoTo(c, step) <=> GoTo(c, step)
  BY DEF Worker!GoTo, GoTo
<1>3. \A n \in Nonces, from \in Identities, to \in Services, ask \in Asks,
         origin \in Calls \cup {NoCall} :
        Worker!Sign(n, from, to, ask, origin) <=> Sign(n, from, to, ask, origin)
  BY DEF Worker!Sign, Sign
<1>4. \A c \in Calls, n \in Nonces, altered \in BOOLEAN :
        Worker!Deliver(c, n, altered) <=> Deliver(c, n, altered)
  BY DEF Worker!Deliver, Deliver
<1>5. \A c \in Calls : Worker!Judge(c) <=> Judge(c)
  BY DEF Worker!Judge, Judge, Worker!Fresh, Fresh
<1>6. \A c \in Calls : Worker!GoDenied(c) <=> GoDenied(c)
  BY DEF Worker!GoDenied, GoDenied, Worker!Denied, Denied, Worker!NoCallYet, NoCallYet,
         Worker!Some, Some
<1>7. \A c \in Calls : Worker!Deny(c) <=> Deny(c)
  BY <1>6 DEF Worker!Deny, Deny
<1>8. Worker!Tick <=> Tick  BY DEF Worker!Tick, Tick
<1> QED  BY <1>1, <1>2, <1>3, <1>4, <1>5, <1>6, <1>7, <1>8

LEMMA ClaimInv ==
  ASSUME Inv, recipe = "32", NEW c \in Calls, Worker!Claim(c),
         UNCHANGED <<orderVars, recipe>>
  PROVE  StepOK
<1> DEFINE n    == calls[c].nonce
           kept == [m \in Nonces |->
                     IF messages[m].from = MessageOf(c).from /\ seen["origin"][m] <= clock
                     THEN 0 ELSE seen["origin"][m]]
<1>1. /\ At(c, "judged") /\ UNCHANGED <<clock, messages>>
      /\ seen' = [seen EXCEPT !["origin"] =
           IF kept[n] = 0 THEN [kept EXCEPT ![n] = MessageOf(c).created + MaxAge + 1] ELSE kept]
      /\ \/ kept[n] = 0 /\ GoTo(c, "passed")
         \/ GoDenied(c)
  BY SameGuardOfWorker DEF Worker!Claim, Worker!ClaimedUntil, Steps
<1>2. /\ n \in Nonces /\ clock \in Nat /\ seen \in [Services -> [Nonces -> Nat]]
      /\ messages[n] \in Message
  BY DEF Inv, Typed, GuardTypeOK, Call
<1>3. Service(c) = "origin"
  BY <1>1, <1>2 DEF Inv, Genuine, Addressed, Service, MessageOf, At
<1>4. "origin" \in Services /\ Kept["origin"] = 1  BY Constants
<1>5. \A m \in Nonces : seen["origin"][m] \in Nat  BY <1>2, <1>4
<1>6. kept \in [Nonces -> Nat] /\ \A m \in Nonces :
        \/ kept[m] = seen["origin"][m]
        \/ kept[m] = 0 /\ seen["origin"][m] <= clock
  BY <1>2, <1>5
<1> HIDE DEF kept
<1> QED  BY <1>1, <1>3, <1>4, <1>6, PurgeInv, ZenonT(30)

LEMMA WorkerInv ==
  ASSUME Inv, recipe = "32", Worker!WorkerNext, UNCHANGED <<orderVars, recipe>>
  PROVE  StepOK
<1>1. ASSUME NEW n \in Nonces, Worker!SignRequest(n)  PROVE StepOK
  <2>1. PICK from \in Identities : Worker!Sign(n, from, "origin", "fetch", NoCall)
    BY <1>1 DEF Worker!SignRequest
  <2>2. "fetch" \in Asks /\ "origin" \in Services  BY Constants
  <2>3. Sign(n, from, "origin", "fetch", NoCall)  BY <2>1, <2>2, SameGuardOfWorker
  <2> QED  BY <2>2, <2>3, SignInv
<1>2. ASSUME NEW c \in Calls, Worker!Request(c)  PROVE StepOK
  BY <1>2, SameGuardOfWorker, DeliverInv DEF Worker!Request
<1>3. ASSUME NEW c \in Calls, Worker!Judge(c)  PROVE StepOK
  BY <1>3, SameGuardOfWorker, JudgeInv
<1>4. ASSUME NEW c \in Calls, Worker!Deny(c)  PROVE StepOK
  BY <1>4, SameGuardOfWorker, DenyInv
<1>5. ASSUME NEW c \in Calls, Worker!Claim(c)  PROVE StepOK  BY <1>5, ClaimInv
<1>6. ASSUME NEW c \in Calls, Worker!Forward(c)  PROVE StepOK
  <2>1. /\ At(c, "passed") /\ UNCHANGED <<clock, messages, seen>>
        /\ GoTo(c, "served")
    BY <1>6, SameGuardOfWorker DEF Worker!Forward, Steps
  <2>2. Service(c) = "origin"
    <3>1. calls[c].nonce \in Nonces  BY DEF Inv, Typed, GuardTypeOK, Call
    <3> QED  BY <2>1, <3>1 DEF Inv, Genuine, Addressed, Service, MessageOf, At, Accepted
  <2> QED  BY <2>1, <2>2, DoneInv
<1>7. CASE Worker!Tick  BY <1>7, SameGuardOfWorker, TickInv
<1> QED
  BY <1>1, <1>2, <1>3, <1>4, <1>5, <1>6, <1>7 DEF Worker!WorkerNext

-----------------------------------------------------------------------------

LEMMA StutterInv == ASSUME Inv, UNCHANGED vars PROVE StepOK
BY DEF vars, guardVars, orderVars, Inv, Typed, GuardTypeOK, Genuine, InTime, LongKept,
       Addressed, SecretsKept, OrderOrigins, DeskServes, StepOK, AgainOnlyLate, At

LEMMA NextInv == Inv /\ [Next]_vars => StepOK
<1> SUFFICES ASSUME Inv, [Next]_vars PROVE StepOK  OBVIOUS
<1>1. CASE recipe = "30" /\ OrdersNext /\ UNCHANGED recipe  BY <1>1, OrdersInv
<1>2. CASE recipe = "31" /\ OrderDesk!DeskNext /\ UNCHANGED <<orderVars, recipe>>
  BY <1>2, DeskInv
<1>3. CASE recipe = "32" /\ Worker!WorkerNext /\ UNCHANGED <<orderVars, recipe>>
  BY <1>3, WorkerInv
<1>4. CASE UNCHANGED vars  BY <1>4, StutterInv
<1> QED  BY <1>1, <1>2, <1>3, <1>4 DEF Next

LEMMA GuardsInvariant == Spec => []Inv
<1>1. Inv /\ [Next]_vars => Inv'  BY NextInv DEF StepOK
<1> QED  BY InitInv, <1>1, PTL DEF Spec

(* In whatever order deliveries of a signed message come and however the  *)
(* database sweeps, a message that has passed the guard passes again only  *)
(* in a call that has held it for as long as nonces outlast their messages *)
(* (recipe 30's reserve, recipe 31's _check_replay, recipe 32's claim).    *)
THEOREM MessagesPassAgainOnlyLate == Spec => PassesAgainOnlyLate
<1>1. Inv /\ [Next]_vars => [AgainOnlyLate]_guardVars  BY NextInv DEF StepOK
<1> QED
  BY <1>1, GuardsInvariant, PTL DEF Spec, PassesAgainOnlyLate, AgainOnlyLate

(* An order that the function of recipe 30 serves was signed by the        *)
(* expected subject, is unaltered, and came through the interceptor, also  *)
(* while a deployment renews the secret.                                   *)
THEOREM OrdersAreVerified == Spec => []OrdersVerified
<1>1. Inv => OrdersVerified
  <2> SUFFICES ASSUME Inv, NEW c \in Calls,
                      At(c, "served"), MessageOf(c).to = "interceptor"
               PROVE  /\ MessageOf(c).made /\ MessageOf(c).from = Peer /\ ~calls[c].altered
                      /\ header[c] # 0
    BY DEF OrdersVerified
  <2>1. MessageOf(c).made /\ ~calls[c].altered  BY DEF Inv, Genuine, At, Accepted, MessageOf
  <2>2. calls[c].nonce \in Nonces  BY DEF Inv, Typed, GuardTypeOK, Call
  <2>3. recipe = "30" /\ MessageOf(c).from = Peer
    BY <2>1, <2>2 DEF Inv, Addressed, MessageOf
  <2>4. header[c] # 0  BY <2>3 DEF Inv, SecretsKept, At, Accepted
  <2> QED  BY <2>1, <2>3, <2>4
<1> QED  BY <1>1, GuardsInvariant, PTL

(* Recipe 31: whatever the model asks for, an order that the tools API     *)
(* takes was placed by the agent for a caller on the list whose message    *)
(* the agent accepted.                                                     *)
THEOREM OrdersAreForPeers == Spec => []OrdersComeFromPeers
<1>1. Inv => OrdersComeFromPeers
  <2> SUFFICES ASSUME Inv, NEW c \in Calls,
                      OrderDesk!At(c, "served"), OrderDesk!MessageOf(c).to = "tools",
                      OrderDesk!MessageOf(c).ask = "order"
               PROVE  LET o == OrderDesk!MessageOf(c).origin IN
                      /\ OrderDesk!Caller(c) = Desk /\ o \in Calls
                      /\ calls[o].step \in OrderDesk!Accepted
                      /\ OrderDesk!Service(o) = "agent" /\ OrderDesk!Caller(o) = Peer
    BY DEF OrdersComeFromPeers, OrderDesk!OrdersComeFromPeers
  <2> DEFINE m == messages[calls[c].nonce]
  <2>1. /\ calls[c].step = "served" /\ m.to = "tools" /\ m.ask = "order"
        /\ OrderDesk!MessageOf(c) = m
    BY SameGuard DEF OrderDesk!At, MessageOf
  <2>2. m.made /\ m.from = Desk  BY <2>1 DEF Inv, Genuine, DeskServes, Accepted
  <2>3. calls[c].nonce \in Nonces  BY DEF Inv, Typed, GuardTypeOK, Call
  <2>4. /\ m.origin \in Calls /\ calls[m.origin].step \in Accepted
        /\ messages[calls[m.origin].nonce].to = "agent"
        /\ messages[calls[m.origin].nonce].from = Peer
    BY <2>1, <2>2, <2>3 DEF Inv, OrderOrigins
  <2> HIDE DEF m
  <2> QED
    BY <2>1, <2>2, <2>4, SameGuard
    DEF OrderDesk!Accepted, Accepted, OrderDesk!Caller, OrderDesk!Service, OrderDesk!MessageOf
<1> QED  BY <1>1, GuardsInvariant, PTL

=============================================================================
