----------------------------- MODULE WebServer -----------------------------
(***************************************************************************)
(* One connection of the web server (src/web/server.go): HandleConn reads  *)
(* one request, starts a goroutine that throws away whatever else comes    *)
(* and cancels the request when the client is gone, and HandleRequest      *)
(* answers from the Agent or from files.                                   *)
(*                                                                         *)
(* A request is [path, html, body]: "events", "files", or "badext", an     *)
(* extension of events nobody knows; the answer may go through convert.Web *)
(* whose Close writes; the body is none, comes with the head, or later.    *)
(* The listener and the stop are AgentServer's.                            *)
(***************************************************************************)
EXTENDS Naturals, Sequences, SequencesExt, FiniteSets

CONSTANTS Requests, MaxOut   (* MaxOut: bound, pieces of an answer          *)

VARIABLES
  wpc,       (* where HandleConn is                                        *)
  gone,      (* clients that hung up, or send nothing more                 *)
  body,      (* of a body that comes later: waits, there, or eaten         *)
  out,       (* what was written to the connection                         *)
  stopped    (* the context of all connections is cancelled                *)

webVars == <<wpc, gone, body, out>>

WebInit ==
  /\ wpc = [r \in Requests |-> "away"]
  /\ gone = {}
  /\ body = [r \in Requests |-> "waits"]
  /\ out = [r \in Requests |-> << >>]

(* Mutant: the status is written whenever it is set. *)
StatusAgain(o, code) == Append(o, code)

(* response.WriteHeader goes through a sync.Once, and only that keeps the  *)
(* deferred answer of HandleConn from following a finished one: the field  *)
(* written it asks is never set.                                           *)
Status(o, code) == IF o = << >> THEN << code >> ELSE o

Write(o, x) == Append(Status(o, "200"), x)

Goto(r, pos) == wpc' = [wpc EXCEPT ![r] = pos]

(* The deferred function of HandleConn: 404 when nothing was answered, or  *)
(* 500 and the error.                                                      *)
Answer(o) == Status(o, "404")
AnswerError(o) == Write(Status(o, "500"), "error")

Reply(r, o) == out' = [out EXCEPT ![r] = o] /\ Goto(r, "close")

-----------------------------------------------------------------------------
Connect(r) == wpc[r] = "away" /\ Goto(r, "queued") /\ UNCHANGED <<gone, body, out>>

HangUp(r) ==
  /\ wpc[r] # "away" /\ r \notin gone
  /\ gone' = gone \union {r}
  /\ UNCHANGED <<wpc, body, out>>

SendBody(r) ==
  /\ r.body = "later" /\ wpc[r] # "away" /\ r \notin gone /\ body[r] = "waits"
  /\ body' = [body EXCEPT ![r] = "there"]
  /\ UNCHANGED <<wpc, gone, out>>

(* The goroutine of HandleConn reads the connection beside ReadAll.        *)
Discard(r) ==
  /\ wpc[r] = "body" /\ body[r] = "there"
  /\ body' = [body EXCEPT ![r] = "eaten"]
  /\ UNCHANGED <<wpc, gone, out>>

AcceptWeb(r) == wpc[r] = "queued" /\ Goto(r, "head") /\ UNCHANGED <<gone, body, out>>

(* Mutant: a connection is not stoppable. *)
CutOnlyGone(r) == r \in gone

(* Reads of the connection fail: the client is gone, or the StoppableConn  *)
(* was stopped.                                                            *)
CutOff(r) == r \in gone \/ stopped

ReadHead(r) == wpc[r] = "head" /\ Goto(r, "body") /\ UNCHANGED <<gone, body, out>>

(* EOF or an error of ReadRequest, no request or none it can read: the     *)
(* connection is closed without an answer.                                 *)
HeadFails(r) ==
  /\ wpc[r] = "head" /\ Goto(r, "drop")
  /\ UNCHANGED <<gone, body, out>>

(* HandleRequest up to Query: a file is served without reading the body.   *)
ServeBody(r) ==
  /\ wpc[r] = "body"
  /\ \/ /\ r.path = "files"
        /\ \E answer \in {<< "200", "data" >>, << "404", "data" >>} : Reply(r, Answer(answer))
     \/ /\ r.path # "files"
        /\ r.body # "later" \/ body[r] = "there"
        /\ IF r.path = "badext" THEN Reply(r, AnswerError(out[r]))
           ELSE Goto(r, "query") /\ UNCHANGED out
  /\ UNCHANGED <<gone, body>>

BodyFails(r) ==
  /\ wpc[r] = "body" /\ r.path # "files" /\ r.body = "later" /\ CutOff(r)
  /\ Reply(r, AnswerError(out[r]))
  /\ UNCHANGED <<gone, body>>

Query(r) ==
  /\ wpc[r] = "query" /\ Len(out[r]) < MaxOut
  /\ out' = [out EXCEPT ![r] = Write(@, "data")]
  /\ UNCHANGED <<wpc, gone, body>>

(* Query returns: a cancelled one is no error.  The deferred Close of      *)
(* convert.Web writes its footer in either case, before HandleConn answers.*)
QueryEnds(r) ==
  /\ wpc[r] = "query"
  /\ LET o == IF r.html THEN Write(out[r], "footer") ELSE out[r]
     IN Reply(r, Answer(o)) \/ Reply(r, AnswerError(o))
  /\ UNCHANGED <<gone, body>>

CloseWeb(r) ==
  /\ wpc[r] \in {"close", "drop"}
  /\ Goto(r, IF wpc[r] = "drop" THEN "dropped" ELSE "closed")
  /\ UNCHANGED <<gone, body, out>>

(* What the client does, and what the server does of itself: without its   *)
(* help only the steps of WebServes happen.                                *)
WebClient(r) == HangUp(r) \/ SendBody(r)
WebWaits(r) == ReadHead(r) \/ HeadFails(r) \/ Query(r) \/ Discard(r)
WebServes(r) ==
  \/ HeadFails(r) /\ CutOff(r)
  \/ ServeBody(r) \/ BodyFails(r) \/ QueryEnds(r)

Active(r) == wpc[r] \in {"head", "body", "query", "close", "drop"}
-----------------------------------------------------------------------------
Codes == {"200", "404", "500"}

(* A request that was read is answered with one status line, in front of   *)
(* everything else, also when an answer fails in the middle or Query wrote *)
(* nothing; an answer that says there is none carries no events.           *)
AnsweredOnce ==
  \A r \in Requests :
    /\ \A k \in DOMAIN out[r] : out[r][k] \in Codes <=> k = 1
    /\ wpc[r] \in {"close", "closed"} => out[r] # << >>
    /\ r.path # "files" /\ out[r] # << >> /\ out[r][1] # "200" =>
         ToSet(out[r]) \subseteq {"404", "500", "error"}
=============================================================================
