------------------------------ MODULE ReWriter ------------------------------
(***************************************************************************)
(* tlio.ReWriter (src/tlio/writers.go): a writer that opens its target     *)
(* anew when a write fails and writes the event again, with the callback   *)
(* openwurl gives it (src/ext/tlflag/flag.go): close the old connection,   *)
(* dial a new one.  It is called by one Logger, under its lock.            *)
(*                                                                         *)
(* A connection is its number; what went through it is the events, or the  *)
(* beginnings of events, written to it.  A write may fail for this time (a *)
(* full buffer) or for good (a broken socket).                             *)
(***************************************************************************)
EXTENDS Naturals, Sequences, SequencesExt, FiniteSets

CONSTANTS MaxEvents, MaxConns   (* bounds: events written, connections dialled *)

Conns == 1..MaxConns

VARIABLES
  writer, closer,    (* ReWriter.Writer, ReWriter.Closer: 0 is nil         *)
  dialled,           (* connections made so far                            *)
  content,           (* what was written to a connection                   *)
  broken, closed,    (* connections that fail; that were closed            *)
  pc, event,         (* position in Write, the event it writes             *)
  acked              (* events reported as written                         *)

vars == <<writer, closer, dialled, content, broken, closed, pc, event, acked>>

Init ==
  /\ writer = 0 /\ closer = 0 /\ dialled = 0
  /\ content = [c \in Conns |-> << >>]
  /\ broken = {} /\ closed = {}
  /\ pc = "idle" /\ event = 0 /\ acked = << >>

(* Write on a connection: all of the event, or an error after a part of it *)
(* (all of it, none of it), at once when it is broken or closed.           *)
WriteOk ==
  /\ writer \notin broken \union closed
  /\ content' = [content EXCEPT ![writer] =
                    Append(@, [n |-> event, part |-> "whole", try |-> pc])]
  /\ UNCHANGED broken
WriteErr ==
  /\ broken' \in {broken, broken \union {writer}}
  /\ \/ UNCHANGED content
     \/ /\ writer \notin broken \union closed
        /\ \E k \in {"whole", "cut"} :
             content' = [content EXCEPT ![writer] =
                           Append(@, [n |-> event, part |-> k, try |-> pc])]

Return == pc' = "idle"
Ack == acked' = Append(acked, event)

Begin ==
  /\ pc = "idle" /\ event < MaxEvents
  /\ event' = event + 1
  /\ pc' = IF writer = 0 THEN "open" ELSE "first"
  /\ UNCHANGED <<writer, closer, dialled, content, broken, closed, acked>>

(* Mutant: the event is written again where it failed. *)
FirstInPlace ==
  /\ pc = "first"
  /\ \/ WriteOk /\ Return /\ Ack
     \/ WriteErr /\ pc' = "second" /\ UNCHANGED acked
  /\ UNCHANGED <<writer, closer, dialled, closed, event>>

First ==
  /\ pc = "first"
  /\ \/ WriteOk /\ Return /\ Ack
     \/ WriteErr /\ pc' = "open" /\ UNCHANGED acked
  /\ UNCHANGED <<writer, closer, dialled, closed, event>>

(* net.Dial returns a nil connection with its error. *)
DialFailed == 0

CloseConn(c) == IF c = 0 THEN closed ELSE closed \union {c}

(* open: the old connection is closed first; when the dial fails Writer is *)
(* what the callback returned and Closer stays.                            *)
Open ==
  /\ pc = "open"
  /\ closed' = CloseConn(writer)
  /\ \/ /\ dialled < MaxConns
        /\ dialled' = dialled + 1
        /\ writer' = dialled' /\ closer' = dialled'
        /\ pc' = "second"
     \/ /\ writer' = DialFailed
        /\ Return
        /\ UNCHANGED <<closer, dialled>>
  /\ UNCHANGED <<content, broken, event, acked>>

(* Mutant: the second write drops its error. *)
SecondNoError ==
  /\ pc = "second"
  /\ WriteOk \/ WriteErr
  /\ Return /\ Ack
  /\ UNCHANGED <<writer, closer, dialled, closed, event>>

Second ==
  /\ pc = "second"
  /\ \/ WriteOk /\ Ack
     \/ WriteErr /\ UNCHANGED acked
  /\ Return
  /\ UNCHANGED <<writer, closer, dialled, closed, event>>

(* Close closes Closer and keeps both fields: a later Write fails first.   *)
Close ==
  /\ pc = "idle"
  /\ closed' = CloseConn(closer)
  /\ UNCHANGED <<writer, closer, dialled, content, broken, pc, event, acked>>

Next == Begin \/ First \/ Open \/ Second \/ Close

Spec == Init /\ [][Next]_vars

-----------------------------------------------------------------------------
(* Whoever reads a connection can cut it into events up to the point where *)
(* it failed: behind an event cut off by the first attempt nothing is ever *)
(* written to that connection, the second attempt goes to another.  (An    *)
(* event cut off by the second attempt is the writer's next target.)       *)
NothingBehindCut ==
  \A c \in Conns : \A k \in DOMAIN content[c] :
    content[c][k].part = "cut" /\ content[c][k].try = "first" => k = Len(content[c])

WholePieces(c) == {k \in DOMAIN content[c] : content[c][k].part = "whole"}

(* An event reported as written is whole in some connection, and events    *)
(* come in order, within a connection and from one to the next; only one   *)
(* that failed may be there twice.                                         *)
AckedWhole ==
  /\ \A a \in Range(acked) : \E c \in Conns : \E k \in WholePieces(c) : content[c][k].n = a
  /\ \A c, d \in Conns : \A j \in WholePieces(c), k \in WholePieces(d) :
       c < d \/ (c = d /\ j < k) => content[c][j].n <= content[d][k].n
=============================================================================
