------------------------------ MODULE ImageApp ------------------------------
(***************************************************************************)
(* The web application of recipe 07 (server.py, app.py, gateway_mcp.py,    *)
(* artifacts.py, audit.py): each request of a browser is handled by a      *)
(* thread of its own, through the gateway or, in local mode, by calling    *)
(* the model itself.                                                       *)
(*                                                                         *)
(* Left out: static files, health, wording of errors; a thread dies only   *)
(* with the process.                                                       *)
(***************************************************************************)
EXTENDS ImageGateway

CONSTANTS Requests    \* requests of browsers

ASSUME AppAssumption == Requests \subseteq Callers

VARIABLES
  mode,      \* the application: build_application
  thread,    \* the thread of a request
  previews,  \* the requests whose image is in the local directory
  journal    \* the local audit file

appVars == <<mode, thread, previews, journal>>

Modes == {"local", "gateway", "unavailable", "none"}

(* sub: whose identity the application has.  answer: the status and, in    *)
(* local mode, whether it names an audit record.                           *)
NoAnswer == [status |-> 0, audited |-> FALSE]
NewThread == [step |-> "waiting", valid |-> TRUE, sub |-> Agent, answer |-> NoAnswer]

AppInit ==
  /\ thread = [r \in Requests |-> NewThread]
  /\ previews = {}
  /\ journal = {}

At(r, step) == thread[r].step = step

Move(r, step) == thread' = [thread EXCEPT ![r].step = step]

Reply(r, status, audited) ==
  thread' = [thread EXCEPT ![r].step = "done",
                           ![r].answer = [status |-> status, audited |-> audited]]

-----------------------------------------------------------------------------
(* Both modes. *)

(* do_POST: other routes and origins, and bodies that are not JSON, are    *)
(* refused before the application is asked.                                *)
Post(r) ==
  /\ At(r, "waiting") /\ mode # "none"
  /\ \E valid \in BOOLEAN, sub \in Subjects :
       thread' = [thread EXCEPT ![r] =
         [step |-> "validate", valid |-> valid, sub |-> sub, answer |-> NoAnswer]]
  /\ UNCHANGED <<mode, previews, journal, gatewayVars>>

(* Faulty: in local mode a request that is not valid goes to the model.    *)
ValidateGatewayOnly(r) ==
  /\ At(r, "validate")
  /\ \/ mode = "unavailable" /\ Reply(r, 503, FALSE)
     \/ mode = "local" /\ Move(r, "model")
     \/ mode = "gateway" /\ ~thread[r].valid /\ Reply(r, 400, FALSE)
     \/ mode = "gateway" /\ thread[r].valid /\ Move(r, "mint")
  /\ UNCHANGED <<mode, previews, journal, gatewayVars>>

(* validate_generate_payload. *)
Validate(r) ==
  /\ At(r, "validate")
  /\ \/ mode = "unavailable" /\ Reply(r, 503, FALSE)
     \/ mode = "local" /\ Move(r, IF thread[r].valid THEN "model" ELSE "record 400")
     \/ mode = "gateway" /\ ~thread[r].valid /\ Reply(r, 400, FALSE)
     \/ mode = "gateway" /\ thread[r].valid /\ Move(r, "mint")
  /\ UNCHANGED <<mode, previews, journal, gatewayVars>>

-----------------------------------------------------------------------------
(* Local mode. *)

CallModel(r) ==
  /\ At(r, "model")
  /\ Move(r, "write") \/ Move(r, "record 502")
  /\ UNCHANGED <<mode, previews, journal, gatewayVars>>

(* write_image: a temporary file takes the name when it is complete.       *)
WriteLocal(r) ==
  /\ At(r, "write")
  /\ \/ previews' = previews \cup {r} /\ Move(r, "record 200")
     \/ Move(r, "record 500") /\ UNCHANGED previews
  /\ UNCHANGED <<mode, journal, gatewayVars>>

LocalRecord(r, status) == [request |-> r, ok |-> status = 200]

(* Faulty: an audit record that cannot be written does not matter. *)
RecordUnchecked(r, step, status) ==
  /\ At(r, step)
  /\ journal' \in {journal, journal \cup {LocalRecord(r, status)}}
  /\ Reply(r, status, TRUE)
  /\ UNCHANGED <<mode, previews, gatewayVars>>

(* record.  A record that could not be written may be there all the same.  *)
Record(r, step, status) ==
  /\ At(r, step)
  /\ \/ journal' = journal \cup {LocalRecord(r, status)} /\ Reply(r, status, TRUE)
     \/ /\ journal' \in {journal, journal \cup {LocalRecord(r, status)}}
        /\ Reply(r, IF status = 200 THEN 500 ELSE status, FALSE)
  /\ UNCHANGED <<mode, previews, gatewayVars>>

(* A success needs its record; a failure (_record_failure) is answered in  *)
(* any case.                                                               *)
RecordLocal(r) ==
  \/ Record(r, "record 200", 200) \/ Record(r, "record 400", 400)
  \/ Record(r, "record 500", 500) \/ Record(r, "record 502", 502)

-----------------------------------------------------------------------------
(* Gateway mode: GatewayMcpClient.generate_image. *)

MintToken(r) ==
  /\ At(r, "mint")
  /\ Move(r, "initialize") \/ Reply(r, 502, FALSE)
  /\ UNCHANGED <<mode, previews, journal, gatewayVars>>

TheToken(r) == TokenOf(r, thread[r].sub)

(* One rpc: answered below 400 and with what the client looks for, or it   *)
(* raises, also when the answer does not arrive.                           *)
Rpc(r, step, session, expected, next) ==
  /\ At(r, step)
  /\ \/ Status(TheToken(r), session) < 400 /\ expected /\ Move(r, next)
     \/ Reply(r, 502, FALSE)
  /\ UNCHANGED <<mode, previews, journal, gatewayVars>>

(* find_tool and assert_only_allowed_tools: these two and no other.        *)
ExpectedTools == ListedTools = {"generate_image", "whoami_dnsid"}

Converse(r) ==
  \/ Rpc(r, "initialize", TRUE, TRUE, "initialized")
  \/ Rpc(r, "initialized", TRUE, TRUE, "list")
  \/ Rpc(r, "list", TRUE, ExpectedTools, "whoami")
  \/ Rpc(r, "whoami", TRUE, thread[r].sub \in Whoami(TheToken(r), NoHeaders), "call")

(* The client sends only prompt, style and size. *)
CallGenerate(r) ==
  /\ At(r, "call")
  /\ \/ /\ Status(TheToken(r), TRUE) < 400
        /\ Pass(r, TheToken(r), NoHeaders, TRUE, FALSE)
        /\ Move(r, "called")
     \/ Reply(r, 502, FALSE) /\ UNCHANGED target
  /\ UNCHANGED <<mode, previews, journal, gateway, expired, images, audits>>

(* result_from_body asks for the subject again. *)
TakeResult(r) ==
  /\ At(r, "called")
  /\ \/ /\ target[r].step = "succeeded"
        /\ target[r].headers.sub = thread[r].sub
        /\ Move(r, "fetch")
     \/ target[r].step \in {"refused", "failed"} /\ Reply(r, 502, FALSE)
  /\ UNCHANGED <<mode, previews, journal, gatewayVars>>

(* Faulty: the client waits as long as the target works.                   *)
GiveUpLate(r) ==
  /\ At(r, "called") /\ target[r].step \notin Running
  /\ Reply(r, 502, FALSE)
  /\ UNCHANGED <<mode, previews, journal, gatewayVars>>

(* After three minutes, or when the connection breaks, it is an error.     *)
GiveUp(r) ==
  /\ At(r, "called")
  /\ Reply(r, 502, FALSE)
  /\ UNCHANGED <<mode, previews, journal, gatewayVars>>

(* fetch_remote_artifact, from the bucket. *)
Fetch(r) ==
  /\ At(r, "fetch")
  /\ \/ r \in images /\ Move(r, "preview")
     \/ Reply(r, 502, FALSE)
  /\ UNCHANGED <<mode, previews, journal, gatewayVars>>

WritePreview(r) ==
  /\ At(r, "preview")
  /\ \/ previews' = previews \cup {r} /\ Reply(r, 200, FALSE)
     \/ Reply(r, 500, FALSE) /\ UNCHANGED previews
  /\ UNCHANGED <<mode, journal, gatewayVars>>

ThreadStep(r) ==
  \/ Validate(r) \/ CallModel(r) \/ WriteLocal(r) \/ RecordLocal(r)
  \/ MintToken(r) \/ Converse(r) \/ CallGenerate(r) \/ TakeResult(r) \/ GiveUp(r)
  \/ Fetch(r) \/ WritePreview(r)

-----------------------------------------------------------------------------
(* Properties. *)

Done(r) == At(r, "done")

(* A browser that is told of an image gets it, and what it was told is on  *)
(* record: through the gateway with the subject the application has, which *)
(* is the one the gateway is for; in local mode in the journal.            *)
ImageIsAudited ==
  \A r \in Requests :
    thread[r].answer.status = 200 =>
      /\ r \in previews
      /\ mode = "local" => [request |-> r, ok |-> TRUE] \in journal
      /\ mode = "gateway" =>
           /\ thread[r].sub = Agent
           /\ \E a \in audits : a.image = r /\ a.sub = thread[r].sub /\ ~a.ignored

(* An answer that names an audit record names one that is there and says   *)
(* the same.                                                               *)
AnswersNameRecords ==
  \A r \in Requests :
    thread[r].answer.audited =>
      [request |-> r, ok |-> thread[r].answer.status = 200] \in journal

(* Nothing is generated for a request that is not valid, nor in the name   *)
(* of anybody but the agent of the gateway.                                *)
NothingUnasked ==
  \A r \in Requests :
    r \in images \cup previews =>
      thread[r].valid /\ (mode = "gateway" => thread[r].sub = Agent)

(* Every thread ends with an answer, as every call it makes does.          *)
EveryRequestEnds == \A r \in Requests : At(r, "validate") ~> Done(r)

=============================================================================
