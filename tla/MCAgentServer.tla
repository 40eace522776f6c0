--------------------------- MODULE MCAgentServer ---------------------------
(* Instances of AgentServer for TLC: a program that logs, or one that asks *)
(* beside one that logs a little, or packets.                              *)
EXTENDS AgentServer

Request(path, html, when) == [path |-> path, html |-> html, body |-> when]
RunRequests ==
  {Request("events", FALSE, "head"), Request("events", TRUE, "later"),
   Request("badext", FALSE, "none"), Request("files", FALSE, "none")}
RunPackets == {[n |-> 1, fits |-> TRUE], [n |-> 2, fits |-> FALSE]}

(* Scenarios: one that is never stopped and nothing fails in but the        *)
(* client's writes, and others with one fault, a stop and a new start.     *)
Calm == [tasks |-> {"stream"}, events |-> 3, requests |-> {}, packets |-> {},
         faults |-> 0, starts |-> 1, stops |-> 0]
Streams == [Calm EXCEPT !.events = 2, !.faults = 1, !.starts = 2, !.stops = 2]
Web(r) == [Streams EXCEPT !.tasks = {"http"}, !.events = 0, !.requests = {r}]
Both(r) == [Web(r) EXCEPT !.tasks = {"stream", "http"}, !.events = 1, !.starts = 1]
Datagrams == [Both(0) EXCEPT !.tasks = {"stream", "packet"}, !.requests = {}, !.packets = RunPackets]

RunScenarios ==
  {Calm, Streams, Datagrams} \union {Web(r) : r \in RunRequests}
    \union {Both(r) : r \in {q \in RunRequests : q.html}}
=============================================================================
