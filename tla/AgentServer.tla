---------------------------- MODULE AgentServer ----------------------------
(***************************************************************************)
(* The command "tlog agent" (agentRun of src/cmd/tlog/tlogcmd/main.go):    *)
(* loops that accept connections, or receive packets, a goroutine for each *)
(* connection, and a group that runs the loops until it is stopped; with   *)
(* the program that logs to it, a ReWriter, at the other end.              *)
(*                                                                         *)
(* Composed of ReWriter (the client), WebServer (its http connections) and *)
(* of the Agent what EventStore says: from and pk are what was             *)
(* acknowledged, which is kept.  Streams are unix sockets, where a write   *)
(* fails once the peer closed; listen refuses tcp.  How graceful.Group     *)
(* stops is external: it cancels the context of its tasks, closes the      *)
(* listener, and may or may not do so because one of them failed.          *)
(***************************************************************************)
EXTENDS Naturals, Sequences, SequencesExt, FiniteSets

CONSTANTS
  MaxEvents, MaxConns,   (* as in ReWriter                                 *)
  Requests, MaxOut,      (* as in WebServer                                *)
  Packets,               (* datagrams sent, whether they fit the buffer    *)
  Scenarios    (* behaviours: the tasks the flags ask for, and as bounds   *)
               (* events, requests, packets, faults, starts and stops      *)

ASSUME BoundsAssumption ==
  /\ MaxEvents \in Nat /\ MaxConns \in Nat /\ MaxOut \in Nat
  /\ \A s \in Scenarios : s.events <= MaxEvents

VARIABLES
  writer, closer, dialled, content, broken, closed, pc, event, acked,
  wpc, gone, body, out,
  scenario,
  run,         (* the command: running, stopping, ended, crashed           *)
  loop,        (* the tasks of the group: accept, wait (for wg) or done    *)
  wg,          (* the WaitGroup of each task                               *)
  gor, why,    (* the goroutine of each stream connection, why it ends     *)
  pos, from,   (* pieces it has read; events the Agent acknowledged to it  *)
  pk,          (* what became of each packet                               *)
  faults, starts

client == <<writer, closer, dialled, content, broken, closed, pc, event, acked>>
web == <<wpc, gone, body, out>>
streams == <<gor, why, pos, from>>
control == <<run, loop, wg, starts, scenario>>
vars == <<client, web, streams, pk, control, faults>>

Tasks == {"http", "stream", "packet"}

R == INSTANCE ReWriter
W == INSTANCE WebServer WITH stopped <- run # "running" \/ loop["http"] # "accept"

Started == [t \in Tasks |-> IF t \in scenario.tasks THEN "accept" ELSE "done"]

Init ==
  /\ R!Init /\ W!WebInit
  /\ scenario \in Scenarios
  /\ run = "running" /\ starts = 1 /\ faults = 0
  /\ loop = Started /\ wg = [t \in Tasks |-> 0]
  /\ gor = [c \in R!Conns |-> "none"] /\ why = [c \in R!Conns |-> "none"]
  /\ pos = [c \in R!Conns |-> 0] /\ from = [c \in R!Conns |-> << >>]
  /\ pk = [p \in Packets |-> "unsent"]

Fault == faults < scenario.faults /\ faults' = faults + 1

Alive == run \in {"running", "stopping"}
Listening(t) == run = "running" /\ loop[t] = "accept"

(* Mutant: the goroutine is not counted. *)
AddNone(t) == UNCHANGED wg
Add(t) == wg' = [wg EXCEPT ![t] = @ + 1]
Done(t) == wg' = [wg EXCEPT ![t] = @ - 1]

-----------------------------------------------------------------------------
(* The program that logs.  A dial needs the listener; what it dialled waits*)
(* to be accepted.                                                         *)
Client ==
  /\ R!Next
  /\ event' <= scenario.events
  /\ IF dialled' = dialled THEN UNCHANGED gor
     ELSE Listening("stream") /\ gor' = [gor EXCEPT ![dialled'] = "queued"]
  /\ UNCHANGED <<web, why, pos, from, pk, control, faults>>

Accept(c) ==
  /\ gor[c] = "queued" /\ Listening("stream")
  /\ gor' = [gor EXCEPT ![c] = "read"] /\ Add("stream")
  /\ UNCHANGED <<client, web, why, pos, from, pk, run, loop, starts, scenario, faults>>

Next1(c) == content[c][pos[c] + 1]
Behind(c) == pos[c] + 1 < Len(content[c])

(* Mutant: at the end of the stream the reader returns the rest. *)
WholeOrLast(c) == Next1(c).part = "whole" \/ c \in closed

(* Mutant: a value that ends the buffer is taken for a part of one. *)
WholeInside(c) == Next1(c).part = "whole" /\ Behind(c)

(* tlwire.Reader returns a value once all of it is there; behind the cut   *)
(* off beginning of another it takes what follows for the rest.            *)
WholeEvent(c) == Next1(c).part = "whole"

Leaves(c, reason) ==
  /\ gor' = [gor EXCEPT ![c] = "close"]
  /\ why' = [why EXCEPT ![c] = reason]

(* rr.WriteTo(a): one event read and written to the Agent, which may fail. *)
Garbled == 0
ServeEvent(c) ==
  /\ gor[c] = "read" /\ pos[c] < Len(content[c])
  /\ \/ /\ WholeEvent(c)
        /\ \/ /\ pos' = [pos EXCEPT ![c] = @ + 1]
              /\ from' = [from EXCEPT ![c] = Append(@, Next1(c).n)]
              /\ UNCHANGED <<gor, why, faults>>
           \/ Fault /\ Leaves(c, "failed") /\ UNCHANGED <<pos, from>>
     \/ /\ ~WholeEvent(c) /\ Behind(c)
        /\ \/ /\ pos' = [pos EXCEPT ![c] = @ + 2]
              /\ from' = [from EXCEPT ![c] = Append(@, Garbled)]
              /\ UNCHANGED <<gor, why>>
           \/ Leaves(c, "failed") /\ UNCHANGED <<pos, from>>
        /\ UNCHANGED faults
  /\ UNCHANGED <<client, web, pk, control>>

(* The end of the stream, maybe in the middle of an event; when the        *)
(* connection broke, maybe before all that was written to it.              *)
ServeEnd(c) ==
  /\ gor[c] = "read"
  /\ \/ c \in broken /\ Leaves(c, "reset")
     \/ /\ c \in closed /\ Leaves(c, "eof")
        /\ pos[c] < Len(content[c]) => ~WholeEvent(c) /\ ~Behind(c)
  /\ UNCHANGED <<client, web, pos, from, pk, control, faults>>

(* Its defers: the connection is closed, then wg.Done.                     *)
ServeClose(c) ==
  /\ gor[c] = "close"
  /\ gor' = [gor EXCEPT ![c] = "done"] /\ Done("stream")
  /\ broken' = broken \union {c}
  /\ UNCHANGED <<writer, closer, dialled, content, closed, pc, event, acked>>
  /\ UNCHANGED <<web, why, pos, from, pk, run, loop, starts, scenario, faults>>

Serve(c) == Alive /\ (ServeEvent(c) \/ ServeEnd(c) \/ ServeClose(c))

-----------------------------------------------------------------------------
(* The http side: Serve of the web server counts its goroutines likewise.  *)
WebUnchanged == UNCHANGED <<client, streams, pk, run, loop, starts, scenario, faults>>

WebConnect(r) ==
  /\ r \in scenario.requests /\ Listening("http") /\ W!Connect(r)
  /\ UNCHANGED wg /\ WebUnchanged
WebAccept(r) ==
  /\ Listening("http") /\ W!AcceptWeb(r) /\ Add("http") /\ WebUnchanged
WebGoes(r) ==
  /\ W!WebClient(r) \/ (Alive /\ W!WebWaits(r))
  /\ UNCHANGED wg /\ WebUnchanged
WebServes(r) ==
  /\ Alive
  /\ \/ W!WebServes(r) /\ UNCHANGED wg
     \/ W!CloseWeb(r) /\ Done("http")
  /\ WebUnchanged

-----------------------------------------------------------------------------
(* The process is gone, and with it its goroutines and connections, also   *)
(* those nobody had accepted.                                              *)
Lost(c) == gor[c] \in {"queued", "read", "close"}
Exit(how) ==
  /\ run' = how
  /\ gor' = [c \in R!Conns |-> IF Lost(c) THEN "done" ELSE gor[c]]
  /\ why' = [c \in R!Conns |-> IF Lost(c) /\ why[c] = "none" THEN "reset" ELSE why[c]]
  /\ broken' = broken \union {c \in R!Conns : Lost(c)}
  /\ wpc' = [r \in Requests |-> IF wpc[r] \in {"away", "closed"} THEN wpc[r] ELSE "dropped"]
  /\ UNCHANGED <<writer, closer, dialled, content, closed, pc, event, acked>>
  /\ UNCHANGED <<gone, body, out, pos, from, loop, wg, starts, scenario>>

(* A garbled event may make the Agent's decoder panic, too, which nobody   *)
(* recovers.                                                               *)
Panic(c) ==
  /\ Alive /\ gor[c] = "read" /\ Behind(c) /\ ~WholeEvent(c)
  /\ Exit("crashed") /\ UNCHANGED <<pk, faults>>

(* Packets: one may be lost, one that does not fit the buffer is cut.  A   *)
(* cut event is refused by the Agent, whose answer is dropped, or makes    *)
(* its decoder panic; if only its last string is cut, and its map tells    *)
(* its length, it is stored as it is.                                      *)
Packet(p, was, is) == pk[p] = was /\ pk' = [pk EXCEPT ![p] = is]

SendPacket(p) ==
  /\ p \in scenario.packets
  /\ Packet(p, "unsent", "sent") \/ Packet(p, "sent", "lost")
  /\ UNCHANGED <<client, web, streams, control, faults>>

ReadFrom(p) ==
  /\ Listening("packet")
  /\ \/ /\ \/ Packet(p, "sent", "failed")
           \/ Packet(p, "sent", IF p.fits THEN "stored" ELSE "torn")
        /\ UNCHANGED <<client, web, streams, control>>
     \/ ~p.fits /\ Packet(p, "sent", "failed") /\ Exit("crashed")
  /\ UNCHANGED faults

-----------------------------------------------------------------------------
(* The group.                                                              *)
Stop ==
  /\ run = "running" /\ starts <= scenario.stops /\ run' = "stopping"
  /\ UNCHANGED <<client, web, streams, pk, loop, wg, starts, scenario, faults>>

(* Accept or ReadFrom returns: the group stops, or it failed.  A task with *)
(* connections waits for their goroutines before it returns.               *)
Leave(t) ==
  /\ loop[t] = "accept"
  /\ \/ run = "stopping" /\ UNCHANGED <<faults, run>>
     \/ run = "running" /\ Fault /\ run' \in {run, "stopping"}
  /\ loop' = [loop EXCEPT ![t] = IF t = "packet" THEN "done" ELSE "wait"]
  /\ UNCHANGED <<client, web, streams, pk, wg, starts, scenario>>

Wait(t) ==
  /\ Alive /\ loop[t] = "wait" /\ wg[t] = 0
  /\ loop' = [loop EXCEPT ![t] = "done"]
  /\ UNCHANGED <<client, web, streams, pk, run, wg, starts, scenario, faults>>

End ==
  /\ Alive /\ \A t \in Tasks : loop[t] = "done"
  /\ Exit("ended") /\ UNCHANGED <<pk, faults>>

Crash == Alive /\ Fault /\ Exit("crashed") /\ UNCHANGED pk

(* The command is started again.                                           *)
Start ==
  /\ ~Alive /\ starts < scenario.starts
  /\ starts' = starts + 1 /\ run' = "running"
  /\ loop' = Started /\ wg' = [t \in Tasks |-> 0]
  /\ UNCHANGED <<client, web, streams, pk, scenario, faults>>

(* Only the bounds stop the command and its clients.                       *)
Terminated == ~Alive /\ starts = scenario.starts /\ UNCHANGED vars

Next ==
  \/ Client
  \/ \E c \in R!Conns : Accept(c) \/ Serve(c) \/ Panic(c)
  \/ \E r \in Requests : WebConnect(r) \/ WebAccept(r) \/ WebGoes(r) \/ WebServes(r)
  \/ \E p \in Packets : SendPacket(p) \/ ReadFrom(p)
  \/ Stop \/ End \/ Crash \/ Start \/ Terminated
  \/ \E t \in Tasks : Leave(t) \/ Wait(t)

(* What the server does of itself, once it can.                            *)
Serves ==
  \/ \E c \in R!Conns : Accept(c) \/ Serve(c)
  \/ \E r \in Requests : WebAccept(r) \/ WebServes(r)
  \/ \E t \in Tasks : Wait(t) \/ (run = "stopping" /\ Leave(t))
  \/ End

Spec == Init /\ [][Next]_vars

(* Some goroutine that can run does: as each has only so much to do before *)
(* it waits for a client again, all of them get their turn.  Nobody has to *)
(* log, to ask, to hang up, to stop the command or to start it.            *)
FairSpec == Spec /\ WF_vars(Serves)

-----------------------------------------------------------------------------
NothingBehindCut == R!NothingBehindCut
AckedWhole == R!AckedWhole
AnsweredOnce == W!AnsweredOnce

(* What the Agent got from a connection are the events written to it, one  *)
(* by one, whole and in order, up to where it failed; all of them when the *)
(* connection was read to its end.  (Behind an event that the second       *)
(* attempt of ReWriter cut off nothing can be read right.)                 *)
Sound(c) == \A k \in DOMAIN content[c] : content[c][k].part = "cut" => k = Len(content[c])
StoredWhole ==
  \A c \in R!Conns : Sound(c) =>
    /\ \A k \in DOMAIN from[c] : k \in R!WholePieces(c) /\ from[c][k] = content[c][k].n
    /\ why[c] = "eof" => R!WholePieces(c) \subseteq DOMAIN from[c]

(* The command does not return while a connection is served: what a client *)
(* hung up on is stored first, answers are finished.                       *)
EndsIdle ==
  [][run' = "ended" /\ run # "ended" =>
       /\ \A c \in R!Conns : gor[c] \notin {"read", "close"}
       /\ \A r \in Requests : ~W!Active(r)]_vars

(* A stopped command ends, if those that log to it hang up: the web server *)
(* does not depend on its clients, the agent cannot stop its connections.  *)
HungUp == \A c \in R!Conns : gor[c] = "read" => c \in closed \union broken
StopEnds == []<>~(run = "stopping" /\ HungUp)

(* An event that was acknowledged to the client reaches the Agent, unless  *)
(* its connection breaks, the command goes away before it is read, or the  *)
(* Agent refuses an event of the connection.                               *)
HasWhole(c, n) == \E x \in ToSet(content[c]) : x.n = n /\ x.part = "whole"
Stored(n) == \E c \in R!Conns : n \in ToSet(from[c])
Excused(n) ==
  \E c \in R!Conns :
    /\ HasWhole(c, n)
    /\ \/ c \in broken \/ why[c] = "failed" \/ ~Sound(c)
       \/ gor[c] = "queued" /\ ~Listening("stream")
EventuallyStored == []<>(\A n \in ToSet(acked) : Stored(n) \/ Excused(n))
=============================================================================
