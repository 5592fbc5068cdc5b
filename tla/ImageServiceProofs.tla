------------------------- MODULE ImageServiceProofs -------------------------
(***************************************************************************)
(* What the image service of recipe 07 answers, stores and records, and    *)
(* what a verification of its gateway shows.                               *)
(*                                                                         *)
(* An answer to a browser, an image and an audit record come about in      *)
(* different places: the thread, the target and the bucket.  What ties     *)
(* them together is that a caller makes one call (CallsOnce): so the       *)
(* headers of a target's run are those of the token of its caller, and a   *)
(* run that has succeeded stays so.                                        *)
(***************************************************************************)
EXTENDS ImageService, TLAPS

RunSteps == Running \cup {"idle", "refused", "failed", "succeeded"}

Records == {"record 200", "record 400", "record 500", "record 502"}
LocalSteps == {"model", "write"} \cup Records
GatewaySteps == {"mint", "initialize", "initialized", "list", "whoami", "call", "called",
                 "fetch", "preview"}
ThreadSteps == {"waiting", "validate", "done"} \cup LocalSteps \cup GatewaySteps

TargetRun == [step : RunSteps, headers : {NoHeaders} \cup [sub : Subjects, jti : Callers],
              valid : BOOLEAN, identity : BOOLEAN]

Thread == [step : ThreadSteps, valid : BOOLEAN, sub : Subjects,
           answer : [status : Nat, audited : BOOLEAN]]

Typed ==
  /\ gateway \in Gateway /\ mode \in Modes
  /\ expired \subseteq Callers /\ images \subseteq Callers
  /\ target \in [Callers -> TargetRun]
  /\ thread \in [Requests -> Thread]
  /\ previews \subseteq Requests

(* The gateways that the application and the scripts meet.                 *)
GatewayMet ==
  /\ mode # "none" => script = "none" /\ gateway.recipe = "07" /\ gateway.interceptor
  /\ mode = "none" /\ gateway.recipe = "07b" => ~gateway.interceptor /\ ~gateway.filter

(* The run of the target for c.                                            *)
RunAccounted ==
  \A c \in Callers :
    LET t == target[c] IN
    /\ t.headers = NoHeaders \/ t.headers.jti = c
    /\ t.step \in {"generate", "store", "audit", "succeeded"} /\ gateway.recipe = "07" =>
         Trusted(t.headers)
    /\ t.step \in {"store", "audit"} => gateway.recipe = "07"
    /\ t.step = "audit" => c \in images
    /\ t.step = "succeeded" /\ gateway.recipe = "07" => AuditRecord(c) \in audits
    /\ c \in images => t.step # "idle" /\ Trusted(t.headers)
    /\ mode # "none" => ~t.identity

BeforeCall == {"missing token", "wrong audience", "unsigned", "initialize", "initialized",
               "no session", "list", "whoami", "call"}

CallsOnce ==
  \A c \in Callers : target[c].step # "idle" =>
    /\ mode = "none" => script \notin BeforeCall
    /\ mode # "none" =>
         /\ mode = "gateway" /\ c \in Requests
         /\ thread[c].step \in {"called", "fetch", "preview", "done"}
         /\ thread[c].valid
         /\ target[c].headers.sub = thread[c].sub

(* The thread of r: its steps are those of the mode, and what it has done  *)
(* so far.                                                                 *)
ThreadAccounted ==
  \A r \in Requests :
    LET t == thread[r] IN
    /\ mode = "none" => t = NewThread
    /\ t.step \in LocalSteps => mode = "local"
    /\ t.step \in GatewaySteps => mode = "gateway"
    /\ t.step \in {"model", "write", "record 200"} \cup GatewaySteps => t.valid
    /\ t.step = "record 200" => r \in previews
    /\ t.step \in {"fetch", "preview"} => target[r].step = "succeeded"
    /\ r \in previews => t.step # "waiting" /\ t.valid /\ (mode = "gateway" => t.sub = Agent)
    /\ t.step # "done" => t.answer = NoAnswer

Inv == /\ Typed /\ GatewayMet /\ RunAccounted /\ CallsOnce /\ ThreadAccounted
       /\ AuditsNameTheCaller /\ ImageIsAudited /\ AnswersNameRecords

-----------------------------------------------------------------------------
(* The target. *)

(* A step of the run of c: nothing else happens, except to the bucket.     *)
LEMMA RunStep ==
  ASSUME Inv, NEW c \in Callers, NEW step \in RunSteps \ {"idle"}, Goto(c, step),
         target[c].step # "idle", target[c].step # "succeeded",
         UNCHANGED <<gateway, expired, appVars, script>>,
         images' \subseteq Callers, images \subseteq images', audits \subseteq audits',
         \A d \in images' \ images : d = c /\ Trusted(target[c].headers),
         \A a \in audits' \ audits : a = AuditRecord(c) /\ Trusted(target[c].headers)
                                     /\ c \in images /\ target[c].headers # NoHeaders,
         step \in {"generate", "store", "audit", "succeeded"} /\ gateway.recipe = "07" =>
           Trusted(target[c].headers),
         step \in {"store", "audit"} => gateway.recipe = "07",
         step = "audit" => c \in images',
         step = "succeeded" /\ gateway.recipe = "07" => AuditRecord(c) \in audits'
  PROVE  Inv'
<1>1. \A d \in Callers :
        target'[d] = IF d = c THEN [target[c] EXCEPT !.step = step] ELSE target[d]
  BY DEF Inv, Typed, Goto
<1>2. target[c] \in TargetRun
  BY DEF Inv, Typed
<1>3. /\ target'[c].step = step /\ target'[c].headers = target[c].headers
      /\ target'[c].identity = target[c].identity
  BY <1>1, <1>2 DEF TargetRun
<1>4. \A d \in Callers : /\ target'[d].headers = target[d].headers
                         /\ target'[d].identity = target[d].identity
                         /\ d # c => target'[d] = target[d]
  BY <1>1, <1>3
<1>5. \A d \in Callers : AuditRecord(d)' = AuditRecord(d)
  BY <1>4 DEF AuditRecord
<1>6. Typed'
  <2>1. target'[c] \in TargetRun
    BY <1>1, <1>2 DEF TargetRun
  <2>2. target' \in [Callers -> TargetRun]
    BY <1>1, <2>1 DEF Inv, Typed, Goto
  <2>3. QED
    BY <2>2 DEF Inv, Typed, appVars
<1>7. GatewayMet'
  BY DEF Inv, GatewayMet, appVars
<1>8. RunAccounted'
  <2>1. SUFFICES ASSUME NEW d \in Callers
                 PROVE
          LET t == target'[d] IN
          /\ t.headers = NoHeaders \/ t.headers.jti = d
          /\ t.step \in {"generate", "store", "audit", "succeeded"} /\ gateway'.recipe = "07" =>
               Trusted(t.headers)
          /\ t.step \in {"store", "audit"} => gateway'.recipe = "07"
          /\ t.step = "audit" => d \in images'
          /\ t.step = "succeeded" /\ gateway'.recipe = "07" => AuditRecord(d)' \in audits'
          /\ d \in images' => t.step # "idle" /\ Trusted(t.headers)
          /\ mode' # "none" => ~t.identity
    BY DEF RunAccounted, Trusted
  <2>2. CASE d = c
    BY <1>3, <1>5, <2>2 DEF Inv, RunAccounted, appVars
  <2>3. CASE d # c
    BY <1>4, <1>5, <2>3 DEF Inv, RunAccounted, appVars
  <2>4. QED
    BY <2>2, <2>3
<1>9. CallsOnce'
  BY <1>3, <1>4 DEF Inv, CallsOnce, appVars
<1>10. ThreadAccounted'
  BY <1>4, AppAssumption DEF Inv, ThreadAccounted, appVars
<1>11. AuditsNameTheCaller'
  <2>1. SUFFICES ASSUME NEW a \in audits', a \notin audits
                 PROVE  a.image \in images' /\ a.sub = Agent /\ a.jti = a.image
    BY DEF Inv, AuditsNameTheCaller
  <2>2. a = AuditRecord(c) /\ Trusted(target[c].headers) /\ c \in images
        /\ target[c].headers # NoHeaders
    BY <2>1
  <2>3. target[c].headers.jti = c
    BY <2>2 DEF Inv, RunAccounted
  <2>4. QED
    BY <2>2, <2>3 DEF AuditRecord, Trusted
<1>12. ImageIsAudited' /\ AnswersNameRecords'
  BY DEF Inv, ImageIsAudited, AnswersNameRecords, appVars
<1>13. QED
  BY <1>6, <1>7, <1>8, <1>9, <1>10, <1>11, <1>12 DEF Inv

LEMMA TargetInv ==
  ASSUME Inv, TheTarget, UNCHANGED <<appVars, script>>
  PROVE  Inv'
<1> USE DEF RunSteps, Running
<1>1. ASSUME NEW c \in Callers, target[c].step # "idle", target[c].step # "succeeded"
      PROVE  /\ target[c].step \in {"generate", "store", "audit"} /\ gateway.recipe = "07" =>
                  Trusted(target[c].headers)
             /\ target[c].step \in {"store", "audit"} => gateway.recipe = "07"
             /\ target[c].step = "audit" => c \in images
             /\ Trusted(target[c].headers) => target[c].headers # NoHeaders
             /\ images \subseteq Callers
  BY DEF Inv, Typed, RunAccounted, Trusted
<1>2. ASSUME NEW c \in Callers, Accept(c) PROVE Inv'
  <2>1. CASE (gateway.recipe = "07" /\ ~Trusted(target[c].headers)) \/ ~target[c].valid
    BY <1>1, <1>2, <2>1, RunStep DEF Accept
  <2>2. CASE ~((gateway.recipe = "07" /\ ~Trusted(target[c].headers)) \/ ~target[c].valid)
    BY <1>1, <1>2, <2>2, RunStep DEF Accept
  <2>3. QED
    BY <2>1, <2>2
<1>3. ASSUME NEW c \in Callers, Generate(c) PROVE Inv'
  <2>1. gateway.recipe \in {"07", "07b"}
    BY DEF Inv, Typed, Gateway
  <2>2. CASE Goto(c, "failed")
    BY <1>1, <1>3, <2>2, RunStep DEF Generate
  <2>3. CASE gateway.recipe = "07" /\ Goto(c, "store")
    BY <1>1, <1>3, <2>3, RunStep DEF Generate
  <2>4. CASE gateway.recipe # "07" /\ Goto(c, "succeeded")
    BY <1>1, <1>3, <2>4, RunStep DEF Generate
  <2>5. QED
    BY <1>3, <2>2, <2>3, <2>4 DEF Generate
<1>4. ASSUME NEW c \in Callers, WriteImage(c) PROVE Inv'
  <2>1. \E step \in {"audit", "failed"} : Goto(c, step) /\ (step = "audit" => c \in images')
    BY <1>4 DEF WriteImage
  <2>2. images' \in {images, images \cup {c}}
    BY <1>4 DEF WriteImage
  <2>3. QED
    BY <1>1, <1>4, <2>1, <2>2, RunStep DEF WriteImage
<1>5. ASSUME NEW c \in Callers, RecordAudit(c) PROVE Inv'
  <2>1. \E step \in {"succeeded", "failed"} :
          Goto(c, step) /\ (step = "succeeded" => AuditRecord(c) \in audits')
    BY <1>5 DEF RecordAudit
  <2>2. audits' \in {audits, audits \cup {AuditRecord(c)}}
    BY <1>5 DEF RecordAudit
  <2>3. QED
    BY <1>1, <1>5, <2>1, <2>2, RunStep DEF RecordAudit
<1>6. ASSUME NEW c \in Callers, StopTarget(c) PROVE Inv'
  BY <1>1, <1>6, RunStep DEF StopTarget
<1>7. ASSUME NEW c \in Callers, Expire(c) PROVE Inv'
  <2>1. \A d \in Callers : AuditRecord(d)' = AuditRecord(d)
    BY <1>7 DEF Expire, AuditRecord
  <2>2. RunAccounted'
    BY <1>7, <2>1 DEF Expire, Inv, RunAccounted, Trusted, appVars
  <2>3. Typed' /\ GatewayMet'
    BY <1>7 DEF Expire, Inv, Typed, GatewayMet, appVars
  <2>4. CallsOnce' /\ ThreadAccounted'
    BY <1>7 DEF Expire, Inv, CallsOnce, ThreadAccounted, appVars
  <2>5. AuditsNameTheCaller' /\ ImageIsAudited' /\ AnswersNameRecords'
    BY <1>7 DEF Expire, Inv, AuditsNameTheCaller, ImageIsAudited, AnswersNameRecords, appVars
  <2>6. QED
    BY <2>2, <2>3, <2>4, <2>5 DEF Inv
<1>8. QED
  BY <1>2, <1>3, <1>4, <1>5, <1>6, <1>7 DEF TheTarget, TargetStep

-----------------------------------------------------------------------------
(* The application. *)

(* A step of the thread of r that leaves the gateway alone.                *)
LEMMA ThreadSteps1 ==
  ASSUME Inv, NEW r \in Requests, NEW t \in Thread, thread' = [thread EXCEPT ![r] = t],
         mode # "none", UNCHANGED <<mode, gatewayVars, script>>,
         previews' \subseteq Requests, previews \subseteq previews', journal \subseteq journal',
         \A s \in previews' \ previews : s = r,
         target[r].step # "idle" =>
           /\ t.step \in {"called", "fetch", "preview", "done"}
           /\ t.valid /\ t.sub = thread[r].sub,
         t.step \in LocalSteps => mode = "local",
         t.step \in GatewaySteps => mode = "gateway",
         t.step \in {"model", "write", "record 200"} \cup GatewaySteps => t.valid,
         t.step = "record 200" => r \in previews',
         t.step \in {"fetch", "preview"} => target[r].step = "succeeded",
         r \in previews' => t.step # "waiting" /\ t.valid /\ (mode = "gateway" => t.sub = Agent),
         t.step # "done" => t.answer = NoAnswer,
         t.answer.status = 200 =>
           /\ r \in previews'
           /\ mode = "local" => [request |-> r, ok |-> TRUE] \in journal'
           /\ mode = "gateway" => /\ t.sub = Agent
                                  /\ \E a \in audits : a.image = r /\ a.sub = t.sub /\ ~a.ignored,
         t.answer.audited => [request |-> r, ok |-> t.answer.status = 200] \in journal'
  PROVE  Inv'
<1>1. \A s \in Requests : thread'[s] = IF s = r THEN t ELSE thread[s]
  BY DEF Inv, Typed
<1>2. UNCHANGED <<gateway, expired, target, images, audits>>
  BY DEF gatewayVars
<1>3. Typed'
  BY <1>2 DEF Inv, Typed
<1>4. \A d \in Callers : AuditRecord(d)' = AuditRecord(d)
  BY <1>2 DEF AuditRecord
<1>5. RunAccounted' /\ GatewayMet' /\ AuditsNameTheCaller'
  <2>1. RunAccounted'
    BY <1>2, <1>4 DEF Inv, RunAccounted, Trusted
  <2>2. GatewayMet'
    BY <1>2 DEF Inv, GatewayMet
  <2>3. AuditsNameTheCaller'
    BY <1>2 DEF Inv, AuditsNameTheCaller
  <2>4. QED
    BY <2>1, <2>2, <2>3
<1> DEFINE Called(u, c) == /\ u.step \in {"called", "fetch", "preview", "done"}
                           /\ u.valid
                           /\ target[c].headers.sub = u.sub
           Accounted(u, s) ==
             /\ u.step \in LocalSteps => mode = "local"
             /\ u.step \in GatewaySteps => mode = "gateway"
             /\ u.step \in {"model", "write", "record 200"} \cup GatewaySteps => u.valid
             /\ u.step = "record 200" => s \in previews'
             /\ u.step \in {"fetch", "preview"} => target[s].step = "succeeded"
             /\ s \in previews' =>
                  u.step # "waiting" /\ u.valid /\ (mode = "gateway" => u.sub = Agent)
             /\ u.step # "done" => u.answer = NoAnswer
           Told(u, s) ==
             u.answer.status = 200 =>
               /\ s \in previews'
               /\ mode = "local" => [request |-> s, ok |-> TRUE] \in journal'
               /\ mode = "gateway" =>
                    /\ u.sub = Agent
                    /\ \E a \in audits : a.image = s /\ a.sub = u.sub /\ ~a.ignored
<1>6. CallsOnce'
  <2>1. ASSUME NEW c \in Callers, target[c].step # "idle"
        PROVE  /\ mode = "gateway" /\ c \in Requests
               /\ Called(thread[c], c)
    BY <2>1 DEF Inv, CallsOnce
  <2>2. ASSUME target[r].step # "idle" PROVE Called(t, r)
    BY <2>1, <2>2, AppAssumption
  <2>3. ASSUME NEW c \in Callers, target[c].step # "idle"
        PROVE  Called(thread'[c], c)
    <3> HIDE DEF Called
    <3>1. CASE c = r
      <4>1. thread'[c] = t
        BY <1>1, <3>1
      <4>2. QED
        BY <2>2, <2>3, <3>1, <4>1
    <3>2. CASE c # r
      <4>1. c \in Requests /\ Called(thread[c], c)
        BY <2>1, <2>3
      <4>2. thread'[c] = thread[c]
        BY <1>1, <3>2, <4>1
      <4>3. QED
        BY <4>1, <4>2
    <3>3. QED
      BY <3>1, <3>2
  <2>4. QED
    BY <1>2, <2>1, <2>3 DEF CallsOnce
<1>7. ThreadAccounted'
  <2>1. Accounted(t, r)
    OBVIOUS
  <2>2. ASSUME NEW s \in Requests, s # r PROVE Accounted(thread[s], s)
    <3>1. s \in previews' => s \in previews
      BY <2>2
    <3>2. s \in previews => s \in previews'
      OBVIOUS
    <3>3. QED
      BY <3>1, <3>2 DEF Inv, ThreadAccounted
  <2>3. ASSUME NEW s \in Requests PROVE Accounted(thread'[s], s)
    <3> HIDE DEF Accounted
    <3>1. CASE s = r
      BY <1>1, <2>1, <3>1
    <3>2. CASE s # r
      BY <1>1, <2>2, <3>2
    <3>3. QED
      BY <3>1, <3>2
  <2>4. QED
    BY <1>2, <2>3 DEF ThreadAccounted
<1>8. ImageIsAudited'
  <2>1. Told(t, r)
    OBVIOUS
  <2>2. ASSUME NEW s \in Requests PROVE Told(thread[s], s)
    BY DEF Inv, ImageIsAudited
  <2>3. ASSUME NEW s \in Requests PROVE Told(thread'[s], s)
    <3> HIDE DEF Told
    <3>1. CASE s = r
      BY <1>1, <2>1, <3>1
    <3>2. CASE s # r
      BY <1>1, <2>2, <3>2
    <3>3. QED
      BY <3>1, <3>2
  <2>4. QED
    BY <1>2, <2>3 DEF ImageIsAudited
<1>9. AnswersNameRecords'
  <2>1. thread'[r].answer.audited =>
          [request |-> r, ok |-> thread'[r].answer.status = 200] \in journal'
    <3>1. thread'[r] = t
      BY <1>1
    <3>2. QED
      BY <3>1, Zenon
  <2>2. ASSUME NEW s \in Requests, s # r, thread'[s].answer.audited
        PROVE  [request |-> s, ok |-> thread'[s].answer.status = 200] \in journal'
    <3>1. thread'[s] = thread[s]
      BY <1>1, <2>2
    <3>2. [request |-> s, ok |-> thread[s].answer.status = 200] \in journal
      BY <2>2, <3>1, Zenon DEF Inv, AnswersNameRecords
    <3>3. [request |-> s, ok |-> thread[s].answer.status = 200] \in journal'
      BY <3>2
    <3>4. QED
      BY <3>1, <3>3, Zenon
  <2>3. QED
    BY <2>1, <2>2, Zenon DEF AnswersNameRecords
<1>10. QED
  BY <1>3, <1>5, <1>6, <1>7, <1>8, <1>9 DEF Inv

LEMMA ThreadBegins == NewThread.step = "waiting" /\ NewThread.valid
BY DEF NewThread

LEMMA NotAnswered == NoAnswer.status # 200 /\ ~NoAnswer.audited
BY DEF NoAnswer

(* The thread of r goes on to a step before the last.                      *)
LEMMA MoveInv ==
  ASSUME Inv, NEW r \in Requests, NEW step \in ThreadSteps \ {"waiting", "done"}, Move(r, step),
         mode # "none", ~At(r, "done"), UNCHANGED <<mode, gatewayVars, script, journal>>,
         previews' \in {previews, previews \cup {r}},
         r \in previews' => thread[r].valid /\ (mode = "gateway" => thread[r].sub = Agent),
         target[r].step # "idle" => step \in {"called", "fetch", "preview"},
         step \in LocalSteps => mode = "local",
         step \in GatewaySteps => mode = "gateway",
         step \in {"model", "write", "record 200"} \cup GatewaySteps => thread[r].valid,
         step = "record 200" => r \in previews',
         step \in {"fetch", "preview"} => target[r].step = "succeeded"
  PROVE  Inv'
<1> DEFINE t == [thread[r] EXCEPT !.step = step]
<1>1. thread[r] \in Thread /\ thread[r].answer = NoAnswer
  BY DEF Inv, Typed, ThreadAccounted, At
<1>2. /\ t \in Thread /\ t.step = step /\ t.valid = thread[r].valid
      /\ t.sub = thread[r].sub /\ t.answer = NoAnswer
  BY <1>1 DEF Thread
<1>3. thread' = [thread EXCEPT ![r] = t]
  BY DEF Move
<1>4. target[r].step # "idle" => thread[r].valid
  BY AppAssumption DEF Inv, CallsOnce
<1> HIDE DEF t
<1>5. /\ t.answer.status = 200 =>
           /\ r \in previews'
           /\ mode = "local" => [request |-> r, ok |-> TRUE] \in journal'
           /\ mode = "gateway" =>
                /\ t.sub = Agent
                /\ \E a \in audits : a.image = r /\ a.sub = t.sub /\ ~a.ignored
      /\ t.answer.audited => [request |-> r, ok |-> t.answer.status = 200] \in journal'
  <2>1. t.answer = NoAnswer
    BY <1>2
  <2>2. t.answer.status # 200 /\ ~t.answer.audited
    BY <2>1, NotAnswered, Zenon
  <2>3. QED
    BY <2>2, Zenon
<1>6. previews' \subseteq Requests /\ previews \subseteq previews' /\ journal \subseteq journal'
  BY DEF Inv, Typed
<1>7. \A s \in previews' \ previews : s = r
  OBVIOUS
<1>8. r \in previews' => t.step # "waiting" /\ t.valid /\ (mode = "gateway" => t.sub = Agent)
  BY <1>2
<1>9. target[r].step # "idle" =>
        /\ t.step \in {"called", "fetch", "preview", "done"}
        /\ t.valid /\ t.sub = thread[r].sub
  BY <1>2, <1>4
<1>10. /\ t.step \in LocalSteps => mode = "local"
       /\ t.step \in GatewaySteps => mode = "gateway"
       /\ t.step \in {"model", "write", "record 200"} \cup GatewaySteps => t.valid
       /\ t.step = "record 200" => r \in previews'
       /\ t.step \in {"fetch", "preview"} => target[r].step = "succeeded"
       /\ t.step # "done" => t.answer = NoAnswer
  BY <1>2
<1>11. QED
  BY <1>2, <1>3, <1>5, <1>6, <1>7, <1>8, <1>9, <1>10, ThreadSteps1

(* The thread of r answers.                                                *)
LEMMA ReplyInv ==
  ASSUME Inv, NEW r \in Requests, NEW status \in Nat, NEW audited \in BOOLEAN,
         Reply(r, status, audited), mode # "none",
         UNCHANGED <<mode, gatewayVars, script>>,
         previews' \in {previews, previews \cup {r}}, journal \subseteq journal',
         r \in previews' => thread[r].valid /\ (mode = "gateway" => thread[r].sub = Agent),
         status = 200 =>
           /\ r \in previews'
           /\ mode = "local" => [request |-> r, ok |-> TRUE] \in journal'
           /\ mode = "gateway" =>
                /\ thread[r].sub = Agent
                /\ \E a \in audits : a.image = r /\ a.sub = thread[r].sub /\ ~a.ignored,
         audited => [request |-> r, ok |-> status = 200] \in journal'
  PROVE  Inv'
<1> DEFINE t == [thread[r] EXCEPT !.step = "done",
                                  !.answer = [status |-> status, audited |-> audited]]
<1>1. thread[r] \in Thread
  BY DEF Inv, Typed
<1>2. /\ t \in Thread /\ t.step = "done" /\ t.valid = thread[r].valid
      /\ t.sub = thread[r].sub /\ t.answer.status = status /\ t.answer.audited = audited
  BY <1>1 DEF Thread, ThreadSteps
<1>3. thread' = [thread EXCEPT ![r] = t]
  BY DEF Reply
<1>4. target[r].step # "idle" => thread[r].valid
  BY AppAssumption DEF Inv, CallsOnce
<1>5. previews' \subseteq Requests /\ previews \subseteq previews'
  BY DEF Inv, Typed
<1> HIDE DEF t
<1>6. \A s \in previews' \ previews : s = r
  OBVIOUS
<1>7. r \in previews' => t.step # "waiting" /\ t.valid /\ (mode = "gateway" => t.sub = Agent)
  BY <1>2
<1>8. target[r].step # "idle" =>
        /\ t.step \in {"called", "fetch", "preview", "done"}
        /\ t.valid /\ t.sub = thread[r].sub
  BY <1>2, <1>4
<1>9. /\ t.step \in LocalSteps => mode = "local"
      /\ t.step \in GatewaySteps => mode = "gateway"
      /\ t.step \in {"model", "write", "record 200"} \cup GatewaySteps => t.valid
      /\ t.step = "record 200" => r \in previews'
      /\ t.step \in {"fetch", "preview"} => target[r].step = "succeeded"
      /\ t.step # "done" => t.answer = NoAnswer
  BY <1>2 DEF LocalSteps, GatewaySteps, Records
<1>10. t.answer.status = 200 =>
         /\ r \in previews'
         /\ mode = "local" => [request |-> r, ok |-> TRUE] \in journal'
         /\ mode = "gateway" => /\ t.sub = Agent
                                /\ \E a \in audits : a.image = r /\ a.sub = t.sub /\ ~a.ignored
  BY <1>2
<1>11. t.answer.audited => [request |-> r, ok |-> t.answer.status = 200] \in journal'
  BY <1>2
<1>12. QED
  BY <1>2, <1>3, <1>5, <1>6, <1>7, <1>8, <1>9, <1>10, <1>11, ThreadSteps1

(* An answer that is an error.                                             *)
Failed(r) ==
  \E status \in Nat \ {200}, audited \in BOOLEAN : ~audited /\ Reply(r, status, audited)

LEMMA Failure ==
  ASSUME NEW r, NEW status \in Nat, status # 200, Reply(r, status, FALSE)
  PROVE  Failed(r)
<1>1. PICK audited \in BOOLEAN : audited = FALSE
  OBVIOUS
<1>2. Reply(r, status, audited)
  BY <1>1
<1>3. ~audited
  BY <1>1, Zenon
<1>4. QED
  BY <1>2, <1>3 DEF Failed

LEMMA Failures ==
  ASSUME NEW r
  PROVE  /\ Reply(r, 400, FALSE) => Failed(r)
         /\ Reply(r, 500, FALSE) => Failed(r)
         /\ Reply(r, 502, FALSE) => Failed(r)
         /\ Reply(r, 503, FALSE) => Failed(r)
<1>1. ASSUME NEW status \in Nat, NEW audited \in BOOLEAN, status # 200, ~audited,
             Reply(r, status, audited)
      PROVE  Failed(r)
  BY <1>1 DEF Failed
<1>2. ASSUME NEW status \in {400, 500, 502, 503}, Reply(r, status, FALSE) PROVE Failed(r)
  <2>1. PICK audited \in BOOLEAN : audited = FALSE
    OBVIOUS
  <2>2. Reply(r, status, audited)
    BY <1>2, <2>1
  <2>3. ~audited
    BY <2>1, Zenon
  <2>4. status \in Nat /\ status # 200
    OBVIOUS
  <2>5. QED
    BY <1>1, <2>2, <2>3, <2>4
<1>3. QED
  BY <1>2 DEF Reply

LEMMA ErrorInv ==
  ASSUME Inv, NEW r \in Requests, Failed(r), mode # "none", ~At(r, "waiting"),
         UNCHANGED <<mode, gatewayVars, script, previews>>, journal \subseteq journal'
  PROVE  Inv'
<1>1. r \in previews => thread[r].valid /\ (mode = "gateway" => thread[r].sub = Agent)
  BY DEF Inv, ThreadAccounted
<1>2. previews' \in {previews, previews \cup {r}}
  OBVIOUS
<1>3. r \in previews' => thread[r].valid /\ (mode = "gateway" => thread[r].sub = Agent)
  BY <1>1
<1>4. ASSUME NEW status \in Nat, NEW audited \in BOOLEAN, status # 200, ~audited,
             Reply(r, status, audited)
      PROVE  Inv'
  <2>1. UNCHANGED <<mode, gatewayVars, script>>
    OBVIOUS
  <2>2. audited => [request |-> r, ok |-> status = 200] \in journal'
    BY <1>4, Zenon
  <2>3. QED
    BY <1>2, <1>3, <1>4, <2>1, <2>2, ReplyInv
<1>5. QED
  BY <1>4 DEF Failed

(* A call that the gateway passes on: the run of the target starts.        *)
LEMMA PassAccounted ==
  ASSUME Inv, NEW c \in Callers, NEW run \in TargetRun, target[c].step = "idle",
         target' = [target EXCEPT ![c] = run],
         UNCHANGED <<mode, gateway, expired, images, audits>>,
         run.step = "received", run.headers = NoHeaders \/ run.headers.jti = c,
         mode # "none" => ~run.identity
  PROVE  target' \in [Callers -> TargetRun] /\ RunAccounted' /\ AuditsNameTheCaller'
<1>1. \A d \in Callers : target'[d] = IF d = c THEN run ELSE target[d]
  BY DEF Inv, Typed
<1>2. target' \in [Callers -> TargetRun]
  BY DEF Inv, Typed
<1>3. c \notin images
  BY DEF Inv, RunAccounted
<1>4. \A d \in Callers : d # c => AuditRecord(d)' = AuditRecord(d)
  BY <1>1 DEF AuditRecord
<1>5. RunAccounted'
  <2>1. SUFFICES ASSUME NEW d \in Callers
                 PROVE
          LET t == target'[d] IN
          /\ t.headers = NoHeaders \/ t.headers.jti = d
          /\ t.step \in {"generate", "store", "audit", "succeeded"} /\ gateway.recipe = "07" =>
               Trusted(t.headers)
          /\ t.step \in {"store", "audit"} => gateway.recipe = "07"
          /\ t.step = "audit" => d \in images
          /\ t.step = "succeeded" /\ gateway.recipe = "07" => AuditRecord(d)' \in audits
          /\ d \in images => t.step # "idle" /\ Trusted(t.headers)
          /\ mode # "none" => ~t.identity
    BY DEF RunAccounted, Trusted
  <2>2. CASE d = c
    <3>1. target'[d] = run
      BY <1>1, <2>2
    <3>2. QED
      BY <1>3, <2>2, <3>1
  <2>3. CASE d # c
    <3>1. target'[d] = target[d] /\ AuditRecord(d)' = AuditRecord(d)
      BY <1>1, <1>4, <2>3
    <3>2. QED
      BY <3>1 DEF Inv, RunAccounted
  <2>4. QED
    BY <2>2, <2>3
<1>6. QED
  BY <1>2, <1>5 DEF Inv, AuditsNameTheCaller

LEMMA CallGenerateInv ==
  ASSUME Inv, NEW r \in Requests, CallGenerate(r), mode # "none", UNCHANGED script
  PROVE  Inv'
<1>1. r \in Callers /\ thread[r] \in Thread /\ thread[r].step = "call"
      /\ thread[r].valid /\ mode = "gateway" /\ target[r].step = "idle"
      /\ thread[r].answer = NoAnswer
  BY AppAssumption DEF Inv, Typed, CallGenerate, At, ThreadAccounted, CallsOnce, GatewaySteps
<1>2. CASE Reply(r, 502, FALSE) /\ UNCHANGED target
  <2>1. UNCHANGED <<mode, gatewayVars, script, previews, journal>>
    BY <1>2 DEF CallGenerate, gatewayVars
  <2>2. ~At(r, "waiting")
    BY <1>1 DEF At
  <2>3. Failed(r)
    BY <1>2, Failures
  <2>4. QED
    BY <2>1, <2>2, <2>3, ErrorInv
<1>3. CASE Pass(r, TheToken(r), NoHeaders, TRUE, FALSE) /\ Move(r, "called")
  <2> DEFINE run == [step |-> "received", headers |-> [sub |-> thread[r].sub, jti |-> r],
                     valid |-> TRUE, identity |-> FALSE]
             t == [thread[r] EXCEPT !.step = "called"]
  <2>1. target' = [target EXCEPT ![r] = run]
    <3>1. gateway.interceptor
      BY <1>1 DEF Inv, GatewayMet
    <3>2. TheToken(r).sub = thread[r].sub /\ TheToken(r).jti = r
      BY DEF TheToken, TokenOf
    <3>3. TrustedHeaders(TheToken(r), NoHeaders) = [sub |-> thread[r].sub, jti |-> r]
      BY <3>1, <3>2 DEF TrustedHeaders
    <3>4. QED
      BY <1>3, <3>3 DEF Pass
  <2>2. run \in TargetRun /\ run.step = "received" /\ run.headers.jti = r /\ ~run.identity
        /\ run.headers.sub = thread[r].sub
    BY <1>1 DEF TargetRun, RunSteps, Running, Thread
  <2>3. thread' = [thread EXCEPT ![r] = t]
    BY <1>3 DEF Move
  <2>4. /\ t \in Thread /\ t.step = "called" /\ t.valid = thread[r].valid
        /\ t.sub = thread[r].sub /\ t.answer = thread[r].answer
    BY <1>1 DEF Thread, ThreadSteps, GatewaySteps
  <2> HIDE DEF run, t
  <2>5. UNCHANGED <<mode, gateway, expired, images, audits, previews, journal, script>>
    BY DEF CallGenerate
  <2>6. target' \in [Callers -> TargetRun] /\ RunAccounted' /\ AuditsNameTheCaller'
    BY <1>1, <2>1, <2>2, <2>5, PassAccounted
  <2>7. Typed' /\ GatewayMet'
    <3>1. thread' \in [Requests -> Thread]
      BY <2>3, <2>4 DEF Inv, Typed
    <3>2. QED
      BY <2>5, <2>6, <3>1 DEF Inv, Typed, GatewayMet
  <2>8. \A s \in Requests : thread'[s] = IF s = r THEN t ELSE thread[s]
    BY <2>3 DEF Inv, Typed
  <2>9. \A c \in Callers : target'[c] = IF c = r THEN run ELSE target[c]
    BY <1>1, <2>1 DEF Inv, Typed
  <2>10. CallsOnce'
    <3>1. SUFFICES ASSUME NEW c \in Callers, target'[c].step # "idle"
                   PROVE  /\ mode = "gateway" /\ c \in Requests
                          /\ thread'[c].step \in {"called", "fetch", "preview", "done"}
                          /\ thread'[c].valid
                          /\ target'[c].headers.sub = thread'[c].sub
      BY <1>1, <2>5 DEF CallsOnce
    <3>2. CASE c = r
      <4>1. thread'[c] = t /\ target'[c] = run
        BY <2>8, <2>9, <3>2
      <4>2. QED
        BY <1>1, <2>2, <2>4, <3>2, <4>1
    <3>3. CASE c # r
      <4>1. target'[c] = target[c]
        BY <2>9, <3>3
      <4>2. c \in Requests
        BY <1>1, <3>1, <4>1 DEF Inv, CallsOnce
      <4>3. thread'[c] = thread[c]
        BY <2>8, <3>3, <4>2
      <4>4. QED
        BY <1>1, <3>1, <4>1, <4>3 DEF Inv, CallsOnce
    <3>4. QED
      BY <3>2, <3>3
  <2>11. ThreadAccounted'
    <3>1. SUFFICES ASSUME NEW s \in Requests
                   PROVE
            LET u == thread'[s] IN
            /\ u.step \in LocalSteps => mode = "local"
            /\ u.step \in GatewaySteps => mode = "gateway"
            /\ u.step \in {"model", "write", "record 200"} \cup GatewaySteps => u.valid
            /\ u.step = "record 200" => s \in previews
            /\ u.step \in {"fetch", "preview"} => target'[s].step = "succeeded"
            /\ s \in previews =>
                 u.step # "waiting" /\ u.valid /\ (mode = "gateway" => u.sub = Agent)
            /\ u.step # "done" => u.answer = NoAnswer
      BY <1>1, <2>5 DEF ThreadAccounted
    <3>2. CASE s = r
      <4>1. thread'[s] = t
        BY <2>8, <3>2
      <4>2. r \in previews => thread[r].sub = Agent
        BY <1>1 DEF Inv, ThreadAccounted
      <4>3. QED
        BY <1>1, <2>4, <3>2, <4>1, <4>2 DEF LocalSteps, Records
    <3>3. CASE s # r
      <4>1. thread'[s] = thread[s] /\ target'[s] = target[s]
        BY <2>8, <2>9, <3>3, AppAssumption
      <4>2. QED
        BY <4>1 DEF Inv, ThreadAccounted
    <3>4. QED
      BY <3>2, <3>3
  <2>12. \A s \in Requests : thread'[s].answer = thread[s].answer /\ thread'[s].sub = thread[s].sub
    BY <2>4, <2>8
  <2>13. ImageIsAudited' /\ AnswersNameRecords'
    BY <2>5, <2>12 DEF Inv, ImageIsAudited, AnswersNameRecords
  <2>14. QED
    BY <2>6, <2>7, <2>10, <2>11, <2>13 DEF Inv
<1>4. QED
  BY <1>2, <1>3 DEF CallGenerate

LEMMA PostInv ==
  ASSUME Inv, NEW r \in Requests, Post(r), UNCHANGED script
  PROVE  Inv'
<1>1. thread[r].step = "waiting" /\ mode # "none" /\ r \notin previews
      /\ target[r].step = "idle"
  BY AppAssumption DEF Inv, ThreadAccounted, CallsOnce, Post, At
<1>2. PICK valid \in BOOLEAN, sub \in Subjects :
        thread' = [thread EXCEPT ![r] =
          [step |-> "validate", valid |-> valid, sub |-> sub, answer |-> NoAnswer]]
  BY DEF Post
<1> DEFINE t == [step |-> "validate", valid |-> valid, sub |-> sub, answer |-> NoAnswer]
<1>3. t.step = "validate" /\ t.answer = NoAnswer
  OBVIOUS
<1>4. t \in Thread
  BY DEF Thread, ThreadSteps, NoAnswer
<1>5. thread' = [thread EXCEPT ![r] = t]
  BY <1>2
<1> HIDE DEF t
<1>6. UNCHANGED <<mode, gatewayVars, script>> /\ previews' = previews /\ journal' = journal
  BY DEF Post
<1>7. previews' \subseteq Requests /\ previews \subseteq previews' /\ journal \subseteq journal'
  BY <1>6 DEF Inv, Typed
<1>8. /\ t.step \in LocalSteps => mode = "local"
      /\ t.step \in GatewaySteps => mode = "gateway"
      /\ t.step \in {"model", "write", "record 200"} \cup GatewaySteps => t.valid
      /\ t.step = "record 200" => r \in previews'
      /\ t.step \in {"fetch", "preview"} => target[r].step = "succeeded"
      /\ t.step # "done" => t.answer = NoAnswer
  BY <1>3 DEF LocalSteps, GatewaySteps, Records
<1>9. t.answer.status # 200 /\ ~t.answer.audited
  BY <1>3, NotAnswered, Zenon
<1>10. /\ t.answer.status = 200 =>
            /\ r \in previews'
            /\ mode = "local" => [request |-> r, ok |-> TRUE] \in journal'
            /\ mode = "gateway" =>
                 /\ t.sub = Agent
                 /\ \E a \in audits : a.image = r /\ a.sub = t.sub /\ ~a.ignored
       /\ t.answer.audited => [request |-> r, ok |-> t.answer.status = 200] \in journal'
  BY <1>9, Zenon
<1>11. /\ target[r].step # "idle" =>
            /\ t.step \in {"called", "fetch", "preview", "done"}
            /\ t.valid /\ t.sub = thread[r].sub
       /\ r \in previews' =>
            t.step # "waiting" /\ t.valid /\ (mode = "gateway" => t.sub = Agent)
       /\ \A s \in previews' \ previews : s = r
  BY <1>1, <1>6
<1>12. QED
  BY <1>1, <1>4, <1>5, <1>6, <1>7, <1>8, <1>10, <1>11, ThreadSteps1

(* A thread that does no more than go on or fail.                          *)
LEMMA OnwardInv ==
  ASSUME Inv, NEW r \in Requests, NEW step \in ThreadSteps \ {"waiting", "done", "record 200"},
         mode # "none", ~At(r, "waiting"), ~At(r, "done"),
         Failed(r) \/ Move(r, step), UNCHANGED <<mode, gatewayVars, script, previews, journal>>,
         Move(r, step) =>
           /\ target[r].step # "idle" => step \in {"called", "fetch", "preview"}
           /\ step \in LocalSteps => mode = "local"
           /\ step \in GatewaySteps => mode = "gateway"
           /\ step \in {"model", "write"} \cup GatewaySteps => thread[r].valid
           /\ step \in {"fetch", "preview"} => target[r].step = "succeeded"
  PROVE  Inv'
<1>1. CASE Failed(r)
  BY <1>1, ErrorInv
<1>2. CASE Move(r, step)
  <2>1. r \in previews => thread[r].valid /\ (mode = "gateway" => thread[r].sub = Agent)
    BY DEF Inv, ThreadAccounted
  <2>2. r \in previews' => thread[r].valid /\ (mode = "gateway" => thread[r].sub = Agent)
    BY <2>1
  <2>3. previews' \in {previews, previews \cup {r}} /\ UNCHANGED <<mode, gatewayVars, script, journal>>
    OBVIOUS
  <2>4. /\ step # "record 200"
        /\ step \in {"model", "write", "record 200"} \cup GatewaySteps => thread[r].valid
    BY <1>2
  <2>5. QED
    BY <1>2, <2>2, <2>3, <2>4, MoveInv
<1>3. QED
  BY <1>1, <1>2

LEMMA LocalInv ==
  ASSUME Inv, NEW r \in Requests, mode # "none", UNCHANGED script,
         Validate(r) \/ CallModel(r) \/ WriteLocal(r)
  PROVE  Inv'
<1>1. thread[r] \in Thread /\ mode \in Modes
  BY DEF Inv, Typed
<1>2. thread[r].step \in {"validate", "model", "write"} => target[r].step = "idle"
  BY AppAssumption DEF Inv, CallsOnce
<1>3. thread[r].step \in {"model", "write"} => mode = "local" /\ thread[r].valid
  BY DEF Inv, ThreadAccounted, LocalSteps
<1>4. {"mint", "model", "write", "record 400", "record 500", "record 502"}
        \subseteq ThreadSteps \ {"waiting", "done", "record 200"}
  BY DEF ThreadSteps, LocalSteps, GatewaySteps, Records
<1>5. /\ "mint" \in GatewaySteps /\ "mint" \notin LocalSteps
      /\ {"model", "write"} \subseteq LocalSteps /\ Records \subseteq LocalSteps
      /\ "model" \notin GatewaySteps /\ "write" \notin GatewaySteps
      /\ "record 400" \in Records \ GatewaySteps /\ "record 500" \in Records \ GatewaySteps
      /\ "record 502" \in Records \ GatewaySteps /\ "record 200" \in Records \ GatewaySteps
  BY DEF LocalSteps, GatewaySteps, Records
<1>6. CASE Validate(r)
  <2>1. /\ UNCHANGED <<mode, gatewayVars, script, previews, journal>>
        /\ ~At(r, "waiting") /\ ~At(r, "done") /\ target[r].step = "idle"
    BY <1>2, <1>6 DEF Validate, At
  <2>2. CASE Reply(r, 503, FALSE) \/ Reply(r, 400, FALSE)
    <3>1. Failed(r)
      BY <2>2, Failures
    <3>2. QED
      BY <2>1, <3>1, ErrorInv
  <2>3. CASE mode = "local" /\ Move(r, IF thread[r].valid THEN "model" ELSE "record 400")
    <3>1. CASE thread[r].valid
      <4>1. Move(r, "model")
        BY <2>3, <3>1
      <4>2. QED
        BY <1>4, <1>5, <2>1, <2>3, <3>1, <4>1, OnwardInv
    <3>2. CASE ~thread[r].valid
      <4>1. Move(r, "record 400")
        BY <2>3, <3>2
      <4>2. QED
        BY <1>4, <1>5, <2>1, <2>3, <4>1, OnwardInv
    <3>3. QED
      BY <3>1, <3>2
  <2>4. CASE mode = "gateway" /\ thread[r].valid /\ Move(r, "mint")
    BY <1>4, <1>5, <2>1, <2>4, OnwardInv
  <2>5. QED
    BY <1>6, <2>2, <2>3, <2>4, ZenonT(30) DEF Validate
<1>7. CASE CallModel(r)
  <2>1. /\ UNCHANGED <<mode, gatewayVars, script, previews, journal>>
        /\ ~At(r, "waiting") /\ ~At(r, "done") /\ target[r].step = "idle"
        /\ mode = "local" /\ thread[r].valid
    BY <1>2, <1>3, <1>7 DEF CallModel, At
  <2>2. CASE Move(r, "write")
    BY <1>4, <1>5, <2>1, <2>2, OnwardInv
  <2>3. CASE Move(r, "record 502")
    BY <1>4, <1>5, <2>1, <2>3, OnwardInv
  <2>4. QED
    BY <1>7, <2>2, <2>3 DEF CallModel
<1>8. CASE WriteLocal(r)
  <2>1. /\ UNCHANGED <<mode, gatewayVars, script, journal>>
        /\ ~At(r, "waiting") /\ ~At(r, "done") /\ target[r].step = "idle"
        /\ mode = "local" /\ thread[r].valid
    BY <1>2, <1>3, <1>8 DEF WriteLocal, At
  <2>2. CASE previews' = previews \cup {r} /\ Move(r, "record 200")
    <3>1. /\ "record 200" \in ThreadSteps \ {"waiting", "done"}
          /\ previews' \in {previews, previews \cup {r}} /\ r \in previews'
      BY <2>2 DEF ThreadSteps, LocalSteps, Records
    <3>2. QED
      BY <1>5, <2>1, <2>2, <3>1, MoveInv
  <2>3. CASE Move(r, "record 500") /\ UNCHANGED previews
    <3>1. UNCHANGED <<mode, gatewayVars, script, previews, journal>>
      BY <2>1, <2>3
    <3>2. QED
      BY <1>4, <1>5, <2>1, <2>3, <3>1, OnwardInv
  <2>4. QED
    BY <1>8, <2>2, <2>3 DEF WriteLocal
<1>9. QED
  BY <1>6, <1>7, <1>8

LEMMA RecordInv ==
  ASSUME Inv, NEW r \in Requests, mode # "none", UNCHANGED script,
         NEW step \in Records, NEW status \in Nat, Record(r, step, status),
         status = 200 => step = "record 200"
  PROVE  Inv'
<1>1. UNCHANGED <<mode, gatewayVars, script, previews>> /\ thread[r].step = step
  BY DEF Record, At
<1>2. mode = "local" /\ ~At(r, "waiting")
  <2>1. step \in LocalSteps /\ step # "waiting"
    BY DEF LocalSteps, Records
  <2>2. mode = "local"
    BY <1>1, <2>1 DEF Inv, ThreadAccounted
  <2>3. QED
    BY <1>1, <2>1, <2>2 DEF At
<1>3. status = 200 => r \in previews
  BY <1>1 DEF Inv, ThreadAccounted
<1>4. r \in previews' => thread[r].valid /\ (mode = "gateway" => thread[r].sub = Agent)
  BY <1>1, <1>2 DEF Inv, ThreadAccounted
<1>5. CASE journal' = journal \cup {LocalRecord(r, status)} /\ Reply(r, status, TRUE)
  <2>1. PICK audited \in BOOLEAN : audited = TRUE
    OBVIOUS
  <2>2. Reply(r, status, audited)
    BY <1>5, <2>1
  <2>3. [request |-> r, ok |-> status = 200] \in journal' /\ journal \subseteq journal'
    BY <1>5 DEF LocalRecord
  <2>4. status = 200 => [request |-> r, ok |-> TRUE] \in journal'
    BY <2>3
  <2>5. status = 200 => r \in previews'
    BY <1>1, <1>3
  <2>6. previews' \in {previews, previews \cup {r}} /\ UNCHANGED <<mode, gatewayVars, script>>
    BY <1>1
  <2>7. status = 200 =>
          /\ r \in previews'
          /\ mode = "local" => [request |-> r, ok |-> TRUE] \in journal'
          /\ mode = "gateway" =>
               /\ thread[r].sub = Agent
               /\ \E a \in audits : a.image = r /\ a.sub = thread[r].sub /\ ~a.ignored
    BY <1>2, <2>4, <2>5
  <2>8. audited => [request |-> r, ok |-> status = 200] \in journal'
    BY <2>3
  <2>9. journal \subseteq journal'
    BY <2>3
  <2>10. QED
    BY <1>4, <2>2, <2>6, <2>7, <2>8, <2>9, ReplyInv
<1>6. CASE /\ journal' \in {journal, journal \cup {LocalRecord(r, status)}}
           /\ Reply(r, IF status = 200 THEN 500 ELSE status, FALSE)
  <2>1. CASE status = 200
    <3>1. Reply(r, 500, FALSE)
      BY <1>6, <2>1
    <3>2. QED
      BY <1>1, <1>2, <1>6, <3>1, Failures, ErrorInv
  <2>2. CASE status # 200
    <3>1. Failed(r)
      BY <1>6, <2>2, Failure
    <3>2. QED
      BY <1>1, <1>2, <1>6, <3>1, ErrorInv
  <2>3. QED
    BY <2>1, <2>2
<1>7. QED
  BY <1>5, <1>6 DEF Record

LEMMA ConverseInv ==
  ASSUME Inv, NEW r \in Requests, mode # "none", UNCHANGED script,
         MintToken(r) \/ Converse(r) \/ TakeResult(r) \/ GiveUp(r) \/ Fetch(r)
  PROVE  Inv'
<1>1. /\ UNCHANGED <<mode, gatewayVars, script, previews, journal>>
      /\ ~At(r, "waiting") /\ ~At(r, "done") /\ thread[r].step \in GatewaySteps
  <2>1. UNCHANGED <<mode, gatewayVars, script, previews, journal>>
    BY DEF MintToken, Converse, Rpc, TakeResult, GiveUp, Fetch
  <2>2. thread[r].step \in {"mint", "initialize", "initialized", "list", "whoami",
                            "called", "fetch"}
    BY DEF MintToken, Converse, Rpc, TakeResult, GiveUp, Fetch, At
  <2>3. QED
    BY <2>1, <2>2 DEF At, GatewaySteps
<1>2. mode = "gateway" /\ thread[r].valid
  BY <1>1 DEF Inv, ThreadAccounted
<1>3. CASE Reply(r, 502, FALSE)
  <2>1. Failed(r) /\ journal \subseteq journal'
    BY <1>1, <1>3, Failures
  <2>2. QED
    BY <1>1, <2>1, ErrorInv
<1>4. ASSUME NEW step \in {"initialize", "initialized", "list", "whoami", "call"},
             target[r].step = "idle", Move(r, step)
      PROVE  Inv'
  <2>1. step \in ThreadSteps \ {"waiting", "done", "record 200"} /\ step \notin LocalSteps
    BY DEF ThreadSteps, GatewaySteps, LocalSteps, Records
  <2>2. QED
    BY <1>1, <1>2, <1>4, <2>1, OnwardInv
<1>5. ASSUME NEW step \in {"fetch", "preview"}, target[r].step = "succeeded", Move(r, step)
      PROVE  Inv'
  <2>1. step \in ThreadSteps \ {"waiting", "done", "record 200"} /\ step \notin LocalSteps
        /\ step \notin {"model", "write"}
    BY DEF ThreadSteps, GatewaySteps, LocalSteps, Records
  <2>2. QED
    BY <1>1, <1>2, <1>5, <2>1, OnwardInv
<1>6. thread[r].step \in {"mint", "initialize", "initialized", "list", "whoami"} =>
        target[r].step = "idle"
  BY AppAssumption DEF Inv, CallsOnce
<1>7. CASE MintToken(r) \/ Converse(r)
  BY <1>3, <1>4, <1>6, <1>7 DEF MintToken, Converse, Rpc, At
<1>8. CASE TakeResult(r)
  BY <1>3, <1>5, <1>8 DEF TakeResult
<1>9. CASE GiveUp(r)
  BY <1>3, <1>9 DEF GiveUp
<1>10. CASE Fetch(r)
  <2>1. target[r].step = "succeeded"
    BY <1>10 DEF Inv, ThreadAccounted, Fetch, At
  <2>2. QED
    BY <1>3, <1>5, <1>10, <2>1 DEF Fetch
<1>11. QED
  BY <1>7, <1>8, <1>9, <1>10

(* A preview is of an image whose audit record names the application.      *)
LEMMA WritePreviewInv ==
  ASSUME Inv, NEW r \in Requests, mode # "none", UNCHANGED script, WritePreview(r)
  PROVE  Inv'
<1>1. /\ UNCHANGED <<mode, gatewayVars, script, journal>> /\ ~At(r, "waiting")
      /\ thread[r].step = "preview"
  BY DEF WritePreview, At
<1>2. mode = "gateway" /\ thread[r].valid /\ target[r].step = "succeeded" /\ r \in Callers
  BY <1>1, AppAssumption DEF Inv, ThreadAccounted, GatewaySteps
<1>3. gateway.recipe = "07"
  BY <1>2 DEF Inv, GatewayMet
<1>4. /\ AuditRecord(r) \in audits /\ Trusted(target[r].headers)
      /\ target[r].headers.sub = thread[r].sub /\ ~target[r].identity
  BY <1>2, <1>3 DEF Inv, RunAccounted, CallsOnce
<1>5. thread[r].sub = Agent
  BY <1>4 DEF Trusted
<1>6. CASE previews' = previews \cup {r} /\ Reply(r, 200, FALSE)
  <2>1. PICK status \in Nat, audited \in BOOLEAN : status = 200 /\ audited = FALSE
    BY ZenonT(30)
  <2>2. Reply(r, status, audited)
    BY <1>6, <2>1
  <2>3. audited => [request |-> r, ok |-> status = 200] \in journal'
    <3>1. ~audited
      BY <2>1, Zenon
    <3>2. QED
      BY <3>1, Zenon
  <2>4. r \in previews' /\ previews' \in {previews, previews \cup {r}} /\ journal \subseteq journal'
    BY <1>1, <1>6
  <2>5. \E a \in audits : a.image = r /\ a.sub = thread[r].sub /\ ~a.ignored
    <3>1. /\ AuditRecord(r).image = r /\ AuditRecord(r).sub = thread[r].sub
          /\ ~AuditRecord(r).ignored
      BY <1>4 DEF AuditRecord
    <3>2. QED
      BY <1>4, <3>1
  <2>6. UNCHANGED <<mode, gatewayVars, script>> /\ mode # "local"
    BY <1>1, <1>2
  <2>7. QED
    BY <1>2, <1>5, <2>2, <2>3, <2>4, <2>5, <2>6, ReplyInv
<1>7. CASE Reply(r, 500, FALSE) /\ UNCHANGED previews
  <2>1. Failed(r)
    BY <1>7, Failures
  <2>2. UNCHANGED <<mode, gatewayVars, script, previews>> /\ journal \subseteq journal'
    BY <1>1, <1>7
  <2>3. QED
    BY <1>1, <2>1, <2>2, ErrorInv
<1>8. QED
  BY <1>6, <1>7 DEF WritePreview

LEMMA AppInv ==
  ASSUME Inv, TheApp, UNCHANGED script
  PROVE  Inv'
<1>1. PICK r \in Requests : Post(r) \/ ThreadStep(r)
  BY DEF TheApp
<1>2. CASE Post(r)
  BY <1>2, PostInv
<1>3. CASE ThreadStep(r)
  <2>1. ~At(r, "waiting")
    <3>1. Validate(r) \/ CallModel(r) \/ WriteLocal(r) => ~At(r, "waiting")
      BY DEF Validate, CallModel, WriteLocal, At
    <3>2. RecordLocal(r) => ~At(r, "waiting")
      BY DEF RecordLocal, Record, At
    <3>3. MintToken(r) \/ Converse(r) => ~At(r, "waiting")
      BY DEF MintToken, Converse, Rpc, At
    <3>4. CallGenerate(r) \/ TakeResult(r) \/ GiveUp(r) => ~At(r, "waiting")
      BY DEF CallGenerate, TakeResult, GiveUp, At
    <3>5. Fetch(r) \/ WritePreview(r) => ~At(r, "waiting")
      BY DEF Fetch, WritePreview, At
    <3>6. QED
      BY <1>3, <3>1, <3>2, <3>3, <3>4, <3>5 DEF ThreadStep
  <2>2. mode # "none"
    BY <2>1, ThreadBegins DEF Inv, ThreadAccounted, At
  <2>3. CASE RecordLocal(r)
    <3>1. ASSUME NEW step \in Records, NEW status \in Nat, Record(r, step, status),
                 status = 200 => step = "record 200"
          PROVE  Inv'
      BY <2>2, <3>1, RecordInv
    <3>2. /\ "record 200" \in Records /\ "record 400" \in Records
          /\ "record 500" \in Records /\ "record 502" \in Records
      BY DEF Records
    <3>3. CASE Record(r, "record 200", 200)
      <4>1. PICK status \in Nat : status = 200
        OBVIOUS
      <4>2. Record(r, "record 200", status)
        BY <3>3, <4>1
      <4>3. QED
        BY <3>1, <3>2, <4>2
    <3>4. CASE Record(r, "record 400", 400)
      <4>1. PICK status \in Nat : status = 400
        OBVIOUS
      <4>2. Record(r, "record 400", status)
        BY <3>4, <4>1
      <4>3. status = 200 => "record 400" = "record 200"
        BY <4>1
      <4>4. QED
        BY <3>1, <3>2, <4>2, <4>3
    <3>5. CASE Record(r, "record 500", 500)
      <4>1. PICK status \in Nat : status = 500
        OBVIOUS
      <4>2. Record(r, "record 500", status)
        BY <3>5, <4>1
      <4>3. status = 200 => "record 500" = "record 200"
        BY <4>1
      <4>4. QED
        BY <3>1, <3>2, <4>2, <4>3
    <3>6. CASE Record(r, "record 502", 502)
      <4>1. PICK status \in Nat : status = 502
        OBVIOUS
      <4>2. Record(r, "record 502", status)
        BY <3>6, <4>1
      <4>3. status = 200 => "record 502" = "record 200"
        BY <4>1
      <4>4. QED
        BY <3>1, <3>2, <4>2, <4>3
    <3>7. QED
      BY <2>3, <3>3, <3>4, <3>5, <3>6 DEF RecordLocal
  <2>4. CASE CallGenerate(r)
    BY <2>2, <2>4, CallGenerateInv
  <2>5. CASE WritePreview(r)
    BY <2>2, <2>5, WritePreviewInv
  <2>6. CASE Validate(r) \/ CallModel(r) \/ WriteLocal(r)
    BY <2>2, <2>6, LocalInv
  <2>7. CASE MintToken(r) \/ Converse(r) \/ TakeResult(r) \/ GiveUp(r) \/ Fetch(r)
    BY <2>2, <2>7, ConverseInv
  <2>8. QED
    BY <1>3, <2>3, <2>4, <2>5, <2>6, <2>7 DEF ThreadStep
<1>4. QED
  BY <1>1, <1>2, <1>3

-----------------------------------------------------------------------------
(* The verification. *)

LEMMA CheckInv ==
  ASSUME Inv, script # "none", UNCHANGED <<gatewayVars, appVars>>,
         script \notin BeforeCall => script' \notin BeforeCall
  PROVE  Inv'
<1>1. mode = "none"
  BY DEF Inv, GatewayMet
<1>2. UNCHANGED <<gateway, expired, target, images, audits, mode, thread, previews, journal>>
  BY DEF gatewayVars, appVars
<1>3. Typed' /\ GatewayMet'
  BY <1>1, <1>2 DEF Inv, Typed, GatewayMet
<1>4. \A c \in Callers : AuditRecord(c)' = AuditRecord(c)
  BY <1>2 DEF AuditRecord
<1>5. RunAccounted'
  BY <1>2, <1>4 DEF Inv, RunAccounted, Trusted
<1>6. CallsOnce'
  BY <1>1, <1>2 DEF Inv, CallsOnce
<1>7. ThreadAccounted'
  BY <1>2 DEF Inv, ThreadAccounted
<1>8. AuditsNameTheCaller' /\ ImageIsAudited' /\ AnswersNameRecords'
  BY <1>2 DEF Inv, AuditsNameTheCaller, ImageIsAudited, AnswersNameRecords
<1>9. QED
  BY <1>3, <1>5, <1>6, <1>7, <1>8 DEF Inv

(* The verifier's one call.                                                *)
LEMMA CallsGenerateInv ==
  ASSUME Inv, CallsGenerate, UNCHANGED appVars
  PROVE  Inv'
<1>1. script = "call" /\ mode = "none"
  BY DEF Inv, GatewayMet, CallsGenerate
<1>2. \A c \in Callers : target[c].step = "idle"
  BY <1>1 DEF Inv, CallsOnce, BeforeCall
<1>3. UNCHANGED <<gateway, expired, images, audits, mode, thread, previews, journal>>
  BY DEF CallsGenerate, appVars
<1>4. CASE script' = "failed" /\ UNCHANGED target
  <2>1. UNCHANGED gatewayVars
    BY <1>3, <1>4 DEF gatewayVars
  <2>2. script # "none" /\ script' \notin BeforeCall
    BY <1>1, <1>4 DEF BeforeCall
  <2>3. QED
    BY <2>1, <2>2, CheckInv
<1>5. CASE /\ Pass(Verifier, ThisAgent, NoHeaders, TRUE, gateway.recipe = "07")
           /\ script' = "called"
  <2> DEFINE run == [step |-> "received", headers |-> TrustedHeaders(ThisAgent, NoHeaders),
                     valid |-> TRUE, identity |-> gateway.recipe = "07"]
  <2>1. target' = [target EXCEPT ![Verifier] = run]
    BY <1>5 DEF Pass
  <2>2. \/ TrustedHeaders(ThisAgent, NoHeaders) = NoHeaders
        \/ /\ TrustedHeaders(ThisAgent, NoHeaders) \in [sub : Subjects, jti : Callers]
           /\ TrustedHeaders(ThisAgent, NoHeaders).jti = Verifier
    BY VerifierAssumption DEF TrustedHeaders, ThisAgent, TokenOf, Subjects
  <2>3. (gateway.recipe = "07") \in BOOLEAN
    OBVIOUS
  <2>4. run \in TargetRun /\ run.step = "received"
        /\ (run.headers = NoHeaders \/ run.headers.jti = Verifier)
    BY <2>2, <2>3 DEF TargetRun, RunSteps, Running
  <2> HIDE DEF run
  <2>5. target' \in [Callers -> TargetRun] /\ RunAccounted' /\ AuditsNameTheCaller'
    BY <1>1, <1>2, <1>3, <2>1, <2>4, VerifierAssumption, PassAccounted
  <2>6. Typed' /\ GatewayMet'
    BY <1>1, <1>3, <2>5 DEF Inv, Typed, GatewayMet
  <2>7. CallsOnce'
    BY <1>1, <1>3, <1>5 DEF CallsOnce, BeforeCall
  <2>8. ThreadAccounted'
    <3>1. \A r \in Requests : thread[r].step \notin {"fetch", "preview"}
      BY <1>1, ThreadBegins DEF Inv, ThreadAccounted
    <3>2. QED
      BY <1>3, <3>1 DEF Inv, ThreadAccounted
  <2>9. ImageIsAudited' /\ AnswersNameRecords'
    BY <1>3 DEF Inv, ImageIsAudited, AnswersNameRecords
  <2>10. QED
    BY <2>5, <2>6, <2>7, <2>8, <2>9 DEF Inv
<1>6. QED
  BY <1>4, <1>5 DEF CallsGenerate

LEMMA VerifierInv ==
  ASSUME Inv, TheVerifier
  PROVE  Inv'
<1>1. UNCHANGED appVars
  BY DEF TheVerifier
<1>2. CASE CallsGenerate
  BY <1>1, <1>2, CallsGenerateInv
<1>3. ASSUME script # "none" /\ UNCHANGED gatewayVars
             /\ (script \notin BeforeCall => script' \notin BeforeCall)
      PROVE  Inv'
  BY <1>1, <1>3, CheckInv
<1>4. CASE DeniesOutsiders
  BY <1>3, <1>4 DEF DeniesOutsiders, Check, BeforeCall
<1>5. CASE OpensSession
  BY <1>3, <1>5 DEF OpensSession, Check, BeforeCall
<1>6. CASE ListsTools \/ AsksWhoami
  BY <1>3, <1>6 DEF ListsTools, AsksWhoami, Check, BeforeCall
<1>7. CASE ChecksResult \/ ChecksStored \/ TriesDebug
  BY <1>3, <1>7 DEF ChecksResult, ChecksStored, TriesDebug, Check, BeforeCall
<1>8. QED
  BY <1>2, <1>4, <1>5, <1>6, <1>7 DEF TheVerifier, VerifierStep

-----------------------------------------------------------------------------
(* The invariant. *)

LEMMA Begins ==
  /\ NewThread \in Thread /\ NewThread.answer = NoAnswer
  /\ IdleRun \in TargetRun /\ IdleRun.step = "idle" /\ IdleRun.headers = NoHeaders
  /\ ~IdleRun.identity
<1>1. NoAnswer \in [status : Nat, audited : BOOLEAN]
  BY DEF NoAnswer
<1>2. "waiting" \in ThreadSteps /\ Agent \in Subjects
  BY DEF ThreadSteps, Subjects
<1>3. NewThread \in Thread /\ NewThread.answer = NoAnswer
  BY <1>1, <1>2 DEF NewThread, Thread
<1>4. IdleRun \in TargetRun /\ IdleRun.step = "idle" /\ IdleRun.headers = NoHeaders
  BY DEF IdleRun, TargetRun, RunSteps
<1>5. ~IdleRun.identity
  BY DEF IdleRun
<1>6. QED
  BY <1>3, <1>4, <1>5

LEMMA InitInv == Init => Inv
<1> SUFFICES ASSUME Init PROVE Inv
  OBVIOUS
<1>1. /\ expired = {} /\ images = {} /\ audits = {} /\ previews = {} /\ journal = {}
      /\ target = [c \in Callers |-> IdleRun] /\ thread = [r \in Requests |-> NewThread]
  BY DEF Init, GatewayInit, AppInit
<1>2. /\ gateway \in Gateway /\ mode \in Modes
      /\ mode # "none" => script = "none" /\ gateway \in Deployed("07")
      /\ mode = "none" /\ gateway.recipe = "07b" => ~gateway.interceptor /\ ~gateway.filter
  BY DEF Init, Deployed, Modes
<1>3. GatewayMet
  BY <1>2 DEF GatewayMet, Deployed
<1>4. \A c \in Callers : target[c] = IdleRun
  BY <1>1
<1>5. \A r \in Requests : thread[r] = NewThread
  BY <1>1
<1>6. Typed
  BY <1>1, <1>2, Begins DEF Typed
<1>7. RunAccounted
  BY <1>1, <1>4, Begins DEF RunAccounted
<1>8. CallsOnce
  BY <1>4, Begins DEF CallsOnce
<1>9. ThreadAccounted
  BY <1>1, <1>5, Begins, ThreadBegins DEF ThreadAccounted, LocalSteps, GatewaySteps, Records
<1>10. AuditsNameTheCaller
  BY <1>1 DEF AuditsNameTheCaller
<1>11. ImageIsAudited /\ AnswersNameRecords
  <2>1. \A r \in Requests : thread[r].answer = NoAnswer
    BY <1>5, Begins
  <2>2. \A r \in Requests : thread[r].answer.status # 200 /\ ~thread[r].answer.audited
    BY <2>1, NotAnswered, Zenon
  <2>3. QED
    BY <2>2, Zenon DEF ImageIsAudited, AnswersNameRecords
<1>12. QED
  BY <1>3, <1>6, <1>7, <1>8, <1>9, <1>10, <1>11 DEF Inv

LEMMA NextInv == Inv /\ [Next]_vars => Inv'
<1> SUFFICES ASSUME Inv, [Next]_vars PROVE Inv'
  OBVIOUS
<1>1. CASE TheApp /\ UNCHANGED script
  BY <1>1, AppInv
<1>2. CASE TheVerifier
  BY <1>2, VerifierInv
<1>3. CASE TheTarget /\ UNCHANGED <<appVars, script>>
  BY <1>3, TargetInv
<1>4. CASE UNCHANGED vars
  <2>1. UNCHANGED <<gateway, expired, target, images, audits, mode, thread, previews, journal, script>>
    BY <1>4 DEF vars, gatewayVars, appVars
  <2>2. \A c \in Callers : AuditRecord(c)' = AuditRecord(c)
    BY <2>1 DEF AuditRecord
  <2>3. Typed' /\ GatewayMet' /\ CallsOnce'
    BY <2>1 DEF Inv, Typed, GatewayMet, CallsOnce
  <2>4. RunAccounted' /\ ThreadAccounted'
    BY <2>1, <2>2 DEF Inv, RunAccounted, ThreadAccounted, Trusted
  <2>5. AuditsNameTheCaller' /\ ImageIsAudited' /\ AnswersNameRecords'
    BY <2>1 DEF Inv, AuditsNameTheCaller, ImageIsAudited, AnswersNameRecords
  <2>6. QED
    BY <2>3, <2>4, <2>5 DEF Inv
<1>5. QED
  BY <1>1, <1>2, <1>3, <1>4 DEF Next

LEMMA InvAlways == Spec => []Inv
BY InitInv, NextInv, PTL DEF Spec

(* Whatever a caller writes into headers and arguments, an audit record of *)
(* the gateway is of an image that is stored and names the subject whose   *)
(* token paid for it (trusted_context.py, aws_handler.py).                 *)
THEOREM AuditsAreTrue == Spec => []AuditsNameTheCaller
<1>1. Inv => AuditsNameTheCaller
  BY DEF Inv
<1>2. QED
  BY <1>1, InvAlways, PTL

(* An image that a browser is told of is there, and on record with the     *)
(* subject the application has (app.py, gateway_mcp.py).                   *)
THEOREM ImagesAreAudited == Spec => []ImageIsAudited
<1>1. Inv => ImageIsAudited
  BY DEF Inv
<1>2. QED
  BY <1>1, InvAlways, PTL

(* An audit record that an answer names is there and says the same as the  *)
(* answer (_record_failure of app.py).                                     *)
THEOREM AnswersAreRecorded == Spec => []AnswersNameRecords
<1>1. Inv => AnswersNameRecords
  BY DEF Inv
<1>2. QED
  BY <1>1, InvAlways, PTL

(* Nothing is generated for a request that is not valid, nor for another   *)
(* subject than the one the gateway is for (validate_generate_payload,     *)
(* parse_trusted_context).                                                 *)
THEOREM NothingIsUnasked == Spec => []NothingUnasked
<1>1. Inv => NothingUnasked
  <2>1. SUFFICES ASSUME Inv, NEW r \in Requests, r \in images \cup previews
                 PROVE  thread[r].valid /\ (mode = "gateway" => thread[r].sub = Agent)
    BY DEF NothingUnasked
  <2>2. CASE r \in previews
    BY <2>1, <2>2 DEF Inv, ThreadAccounted
  <2>3. CASE r \in images /\ mode = "none"
    BY <2>1, <2>3, ThreadBegins DEF Inv, ThreadAccounted
  <2>4. CASE r \in images /\ mode # "none"
    <3>1. target[r].step # "idle" /\ target[r].headers.sub = Agent
      BY <2>1, <2>4, AppAssumption DEF Inv, RunAccounted, Trusted
    <3>2. QED
      BY <2>1, <2>4, <3>1, AppAssumption DEF Inv, CallsOnce
  <2>5. QED
    BY <2>1, <2>2, <2>3, <2>4
<1>2. QED
  BY <1>1, InvAlways, PTL

-----------------------------------------------------------------------------
(* What a verification shows. *)

(* The steps from one on. *)
FromCalled      == {"called", "fetch", "audit", "debug", "ok"}
FromCall        == {"call"} \cup FromCalled
FromWhoami      == {"whoami"} \cup FromCall
FromList        == {"list"} \cup FromWhoami
FromInitialized == {"initialized", "no session"} \cup FromList
FromInitialize  == {"initialize"} \cup FromInitialized
FromUnsigned    == {"unsigned"} \cup FromInitialize

(* A check may pass because the token of the script has expired: the next  *)
(* one, which needs the token, tells.                                      *)
Shown ==
  /\ script \in FromUnsigned /\ gateway.recipe = "07b" => gateway.audience \/ Verifier \in expired
  /\ script \in FromInitialize =>
       gateway.signatures \/ (gateway.interceptor /\ Verifier \in expired)
  /\ script \in FromInitialized =>
       gateway.signatures /\ (gateway.recipe = "07b" => gateway.audience)
  /\ script \in FromList /\ gateway.recipe = "07" => gateway.sessions \/ Verifier \in expired
  /\ script \in FromWhoami => "generate_image" \in gateway.tools
  /\ script \in FromWhoami /\ gateway.recipe = "07" =>
       gateway.sessions /\ ListedTools = {"generate_image", "whoami_dnsid"}
  /\ script \in FromCall /\ gateway.recipe = "07" => gateway.interceptor

LEMMA Tokens ==
  /\ ThisAgent.signed /\ ThisAgent.audience /\ ThisAgent.sub = Agent
  /\ ThisAgent.jti = Verifier /\ ThisAgent # NoToken
  /\ Unsigned.audience /\ Unsigned.sub = Agent /\ Unsigned.jti = Verifier /\ Unsigned # NoToken
  /\ WrongAudience.signed /\ ~WrongAudience.audience /\ WrongAudience.sub = Agent
  /\ WrongAudience.jti = Verifier /\ WrongAudience # NoToken
BY DEF ThisAgent, Unsigned, WrongAudience, TokenOf, NoToken

LEMMA StatusMeans ==
  ASSUME NEW token, NEW session \in BOOLEAN
  PROVE  /\ AuthDenied(Status(token, session)) =>
               ~Authorized(token) \/ (gateway.interceptor /\ ~ValidClaims(token))
         /\ Status(token, session) < 400 =>
               /\ Authorized(token) /\ (gateway.interceptor => ValidClaims(token))
               /\ gateway.sessions => session
         /\ Status(token, session) >= 400 =>
               \/ ~Authorized(token) \/ (gateway.interceptor /\ ~ValidClaims(token))
               \/ gateway.sessions /\ ~session
BY DEF Status, AuthDenied

(* A request with the token of the script, and what it shows.              *)
LEMMA ThisAgentPasses ==
  ASSUME NEW session \in BOOLEAN
  PROVE  /\ Status(ThisAgent, session) < 400 =>
               /\ (gateway.signatures \/ gateway.interceptor) => Verifier \notin expired
               /\ gateway.sessions => session
         /\ Status(ThisAgent, session) >= 400 =>
               Verifier \in expired \/ (gateway.sessions /\ ~session)
<1>1. Authorized(ThisAgent) =>
        ~gateway.signatures \/ Verifier \notin expired
  BY Tokens DEF Authorized
<1>2. ~Authorized(ThisAgent) => Verifier \in expired
  BY Tokens DEF Authorized
<1>3. ValidClaims(ThisAgent) <=> Verifier \notin expired
  BY Tokens DEF ValidClaims
<1>4. QED
  BY <1>1, <1>2, <1>3, StatusMeans

LEMMA Denials ==
  /\ DeniesUnsigned => gateway.signatures \/ (gateway.interceptor /\ Verifier \in expired)
  /\ AuthDenied(Status(WrongAudience, FALSE)) /\ ~gateway.interceptor =>
       gateway.audience \/ Verifier \in expired
  /\ Whoami(ThisAgent, Spoofed) = {Agent} => gateway.interceptor
<1>1. DeniesUnsigned => gateway.signatures \/ (gateway.interceptor /\ Verifier \in expired)
  <2>1. ~Authorized(Unsigned) => gateway.signatures
    BY DEF Authorized
  <2>2. ~ValidClaims(Unsigned) => Verifier \in expired
    BY Tokens DEF ValidClaims
  <2>3. QED
    BY <2>1, <2>2, StatusMeans DEF DeniesUnsigned
<1>2. AuthDenied(Status(WrongAudience, FALSE)) /\ ~gateway.interceptor =>
        gateway.audience \/ Verifier \in expired
  <2>1. ~Authorized(WrongAudience) => gateway.audience \/ Verifier \in expired
    BY Tokens DEF Authorized
  <2>2. QED
    BY <2>1, StatusMeans
<1>3. Whoami(ThisAgent, Spoofed) = {Agent} => gateway.interceptor
  <2>1. Spoofed.sub # Agent
    BY SubjectAssumption DEF Spoofed
  <2>2. ~gateway.interceptor => ~Trusted(TrustedHeaders(ThisAgent, Spoofed))
    BY <2>1 DEF TrustedHeaders, Trusted
  <2>3. ~gateway.interceptor => Whoami(ThisAgent, Spoofed) = {}
    BY <2>2 DEF Whoami
  <2>4. QED
    BY <2>3
<1>4. QED
  BY <1>1, <1>2, <1>3

LEMMA ShownStays ==
  ASSUME Shown, UNCHANGED gateway, expired \subseteq expired', script' \in {script, "failed"}
  PROVE  Shown'
<1> USE DEF FromUnsigned, FromInitialize, FromInitialized, FromList, FromWhoami, FromCall,
            FromCalled
<1>1. CASE script' = script
  BY <1>1 DEF Shown, ListedTools
<1>2. CASE script' = "failed"
  BY <1>2 DEF Shown
<1>3. QED
  BY <1>1, <1>2

LEMMA VerifierShown ==
  ASSUME Inv, Shown, VerifierStep
  PROVE  Shown'
<1> USE DEF FromUnsigned, FromInitialize, FromInitialized, FromList, FromWhoami, FromCall,
            FromCalled
<1>1. script # "none" /\ UNCHANGED <<gateway, expired>>
  BY DEF VerifierStep, DeniesOutsiders, OpensSession, ListsTools, AsksWhoami, CallsGenerate,
         ChecksResult, ChecksStored, TriesDebug, Check, gatewayVars
<1>2. /\ gateway.recipe \in {"07", "07b"} /\ gateway.recipe = "07b" => ~gateway.interceptor
      /\ gateway.tools \subseteq {"generate_image", "whoami_dnsid", "debug_denied"}
  BY <1>1 DEF Inv, GatewayMet, Typed, Gateway
<1>3. CASE script' = "failed"
  BY <1>1, <1>3, ShownStays
<1>4. CASE DeniesOutsiders /\ script' # "failed"
  <2>1. CASE script = "missing token" /\ script' = "wrong audience"
    BY <2>1 DEF Shown
  <2>2. CASE script = "wrong audience" /\ script' = "unsigned"
             /\ (gateway.recipe = "07b" => AuthDenied(Status(WrongAudience, FALSE)))
    BY <1>1, <1>2, <2>2, Denials DEF Shown
  <2>3. CASE script = "unsigned" /\ script' = "initialize" /\ DeniesUnsigned
    BY <1>1, <2>3, Denials DEF Shown
  <2>4. QED
    BY <1>2, <1>4, <2>1, <2>2, <2>3 DEF DeniesOutsiders, Check
<1>5. CASE OpensSession /\ script' # "failed"
  <2>1. CASE script = "initialize" /\ script' = "initialized" /\ Status(ThisAgent, TRUE) < 400
    <3>1. gateway.signatures \/ gateway.interceptor => Verifier \notin expired
      BY <2>1, ThisAgentPasses
    <3>2. QED
      BY <1>1, <2>1, <3>1 DEF Shown
  <2>2. CASE script = "initialized" /\ script' = "no session"
    BY <1>1, <2>2 DEF Shown
  <2>3. CASE script = "initialized" /\ script' = "list" /\ gateway.recipe # "07"
    BY <1>1, <2>3 DEF Shown
  <2>4. CASE script = "no session" /\ script' = "list" /\ Status(ThisAgent, FALSE) >= 400
    <3>1. Verifier \in expired \/ gateway.sessions
      BY <2>4, ThisAgentPasses
    <3>2. QED
      BY <1>1, <2>4, <3>1 DEF Shown
  <2>5. QED
    BY <1>5, <2>1, <2>2, <2>3, <2>4 DEF OpensSession, Check
<1>6. CASE ListsTools /\ script' # "failed"
  <2>1. /\ script = "list" /\ Status(ThisAgent, TRUE) < 400
        /\ script' = IF gateway.recipe = "07" THEN "whoami" ELSE "call"
        /\ IF gateway.recipe = "07" THEN ListedTools = {"generate_image", "whoami_dnsid"}
           ELSE "generate_image" \in ListedTools
    BY <1>6 DEF ListsTools, Check
  <2>2. gateway.signatures /\ (gateway.recipe = "07" => gateway.sessions \/ Verifier \in expired)
        /\ (gateway.recipe = "07b" => gateway.audience)
    BY <2>1 DEF Shown
  <2>3. Verifier \notin expired
    BY <2>1, <2>2, ThisAgentPasses
  <2>4. "generate_image" \in gateway.tools
        /\ (gateway.recipe = "07" => ListedTools = {"generate_image", "whoami_dnsid"})
    BY <2>1 DEF ListedTools
  <2>5. ListedTools' = ListedTools
    BY <1>1 DEF ListedTools
  <2>6. QED
    BY <1>1, <1>2, <2>1, <2>2, <2>3, <2>4, <2>5 DEF Shown
<1>7. CASE AsksWhoami /\ script' # "failed"
  BY <1>1, <1>7, Denials DEF AsksWhoami, Check, Shown, ListedTools
<1>8. CASE CallsGenerate /\ script' # "failed"
  BY <1>1, <1>8 DEF CallsGenerate, Shown, ListedTools
<1>9. CASE ChecksResult /\ script' # "failed"
  BY <1>1, <1>9 DEF ChecksResult, Check, Shown, ListedTools
<1>10. CASE ChecksStored /\ script' # "failed"
  BY <1>1, <1>10 DEF ChecksStored, Check, Shown, ListedTools
<1>11. CASE TriesDebug /\ script' # "failed"
  BY <1>1, <1>11 DEF TriesDebug, Check, Shown, ListedTools
<1>12. QED
  BY <1>3, <1>4, <1>5, <1>6, <1>7, <1>8, <1>9, <1>10, <1>11 DEF VerifierStep

(* A verification that succeeds has seen a gateway that verifies           *)
(* signatures and offers the tool; in recipe 07b one for this audience, in *)
(* recipe 07 one with the interceptor, sessions and no other tools on its  *)
(* list (invoke_gateway_mcp.py, verify_gateway.py).                        *)
THEOREM VerificationIsSound == Spec => []VerifiedIsSound
<1>1. Init => Shown
  BY DEF Init, VerifierInit, Shown, FromUnsigned, FromInitialize, FromInitialized, FromList,
         FromWhoami, FromCall, FromCalled
<1>2. Inv /\ Shown /\ [Next]_vars => Shown'
  <2>1. SUFFICES ASSUME Inv, Shown, [Next]_vars PROVE Shown'
    OBVIOUS
  <2>2. ASSUME UNCHANGED <<gateway, script>>, expired \subseteq expired' PROVE Shown'
    BY <2>1, <2>2, ShownStays
  <2>3. CASE TheApp /\ UNCHANGED script
    <3>1. PICK r \in Requests : Post(r) \/ ThreadStep(r)
      BY <2>3 DEF TheApp
    <3>2. UNCHANGED <<gateway, expired>>
      BY <3>1 DEF Post, ThreadStep, Validate, CallModel, WriteLocal, RecordLocal, Record,
                  MintToken, Converse, Rpc, CallGenerate, TakeResult, GiveUp, Fetch,
                  WritePreview, gatewayVars
    <3>3. QED
      BY <2>2, <2>3, <3>2
  <2>4. CASE TheVerifier
    BY <2>1, <2>4, VerifierShown DEF TheVerifier
  <2>5. CASE TheTarget /\ UNCHANGED <<appVars, script>>
    <3>1. PICK c \in Callers : TargetStep(c) \/ StopTarget(c) \/ Expire(c)
      BY <2>5 DEF TheTarget
    <3>2. UNCHANGED gateway /\ expired \subseteq expired'
      BY <3>1 DEF TargetStep, Accept, Generate, WriteImage, RecordAudit, StopTarget, Expire
    <3>3. QED
      BY <2>2, <2>5, <3>2
  <2>6. CASE UNCHANGED vars
    BY <2>2, <2>6 DEF vars, gatewayVars
  <2>7. QED
    BY <2>1, <2>3, <2>4, <2>5, <2>6 DEF Next
<1>3. Inv /\ Shown => VerifiedIsSound
  <2>1. SUFFICES ASSUME Inv, Shown, script = "ok" PROVE
          /\ gateway.signatures
          /\ "generate_image" \in gateway.tools
          /\ gateway.recipe = "07b" => gateway.audience
          /\ gateway.recipe = "07" =>
               /\ gateway.interceptor /\ gateway.sessions
               /\ ListedTools = {"generate_image", "whoami_dnsid"}
    BY DEF VerifiedIsSound
  <2>2. QED
    BY <2>1 DEF Shown, FromUnsigned, FromInitialize, FromInitialized, FromList,
                 FromWhoami, FromCall, FromCalled
<1>4. QED
  BY <1>1, <1>2, <1>3, InvAlways, PTL DEF Spec

=============================================================================
