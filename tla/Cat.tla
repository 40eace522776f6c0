--------------------------------- MODULE Cat ---------------------------------
(***************************************************************************)
(* `tlog cat` (src/cmd/tlog/tlogcmd/main.go): events of the files given,   *)
(* or of the files of a directory, are copied to the output; with --follow *)
(* the files are watched and read on at every change, while other programs *)
(* create them, append to them and truncate them.                          *)
(*                                                                         *)
(* A file is read by a ReReader, which starts over when the file got       *)
(* shorter than its position, under a tlwire.Reader, which keeps the part  *)
(* of an event it has until the rest comes.  An event is two units, 2e - 1 *)
(* and 2e, of its file; a unit stands for any part of its encoding.        *)
(***************************************************************************)
EXTENDS Integers, Sequences, SequencesExt, FiniteSets, FiniteSetsExt

CONSTANTS
  Files,
  Heads, Tails, Off,       (* values of --head and --tail; Off: not set    *)
  MaxUnits, MaxTruncs,     (* bounds: units of each file, files truncated  *)
  None                     (* no reader                                    *)

ASSUME WindowsAssumption ==
  /\ MaxUnits \in [Files -> Nat] /\ MaxTruncs \in Nat
  /\ Off \notin Nat /\ Heads \union Tails \subseteq Nat \union {Off}
ASSUME NoneAssumption == None \notin [pos : Nat, buf : Seq(Nat)]

VARIABLES
  dir, follow, head, tail,  (* one directory was given; the flags          *)
  args, present,            (* files given; files there                    *)
  data, units,              (* units in a file; units ever written to it   *)
  queue, dirW, fileW,       (* inotify: changes not yet seen, watches      *)
  pc, todo, cur, onEvent,   (* cat: files to add, the one read; following  *)
  rd, left,                 (* rs: ReReader.pos and the unread part of     *)
                            (* Reader.b; HeadWriter.N                      *)
  out,                      (* events written to the output, by file       *)
  added, truncated          (* history: times added; files truncated       *)

flags == <<dir, follow, head, tail, args>>
disk == <<present, data, units, truncated>>
watch == <<queue, dirW, fileW>>
reading == <<todo, cur, onEvent, rd, left, out, added>>
vars == <<flags, disk, watch, pc, reading>>

Init ==
  /\ dir \in BOOLEAN /\ follow \in BOOLEAN /\ head \in Heads /\ tail \in Tails
  /\ present \in SUBSET Files /\ (dir \/ present # {})
  /\ args = IF dir THEN {} ELSE present
  /\ data = [f \in Files |-> << >>] /\ units = [f \in Files |-> 0]
  /\ queue = << >> /\ dirW = FALSE /\ fileW = {}
  /\ pc = "start" /\ todo = args /\ onEvent = FALSE
  /\ cur = CHOOSE f \in Files : TRUE
  /\ rd = [f \in Files |-> None] /\ left = Off
  /\ out = [f \in Files |-> << >>]
  /\ added = [f \in Files |-> 0] /\ truncated = {}

-----------------------------------------------------------------------------
(* inotify reports a change to every watch that sees it; it may merge it   *)
(* with the last one in the queue when that is equal.                      *)
Queued(q, change) ==
  {Append(q, change)} \union (IF q # << >> /\ Last(q) = change THEN {q} ELSE {})

Notify(f, op) ==
  \E q \in IF dirW THEN Queued(queue, [by |-> "dir", op |-> op, f |-> f]) ELSE {queue} :
    queue' \in IF f \in fileW THEN Queued(q, [by |-> "file", op |-> op, f |-> f]) ELSE {q}

Create(f) ==
  /\ f \notin present /\ dir
  /\ present' = present \union {f}
  /\ Notify(f, "create")
  /\ UNCHANGED <<flags, data, units, truncated, dirW, fileW, pc, reading>>

(* Bound: a truncation counts as a unit. *)
Room(f) == units[f] + Cardinality(truncated \intersect {f}) < MaxUnits[f]

Grow(f) ==
  /\ f \in present /\ Room(f)
  /\ units' = [units EXCEPT ![f] = @ + 1]
  /\ data' = [data EXCEPT ![f] = Append(@, units'[f])]
  /\ Notify(f, "write")
  /\ UNCHANGED <<flags, present, truncated, dirW, fileW, pc, reading>>

(* A truncated file is continued with a new event. *)
Truncate(f) ==
  /\ data[f] # << >> /\ Cardinality(truncated) < MaxTruncs /\ Room(f) /\ f \notin truncated
  /\ data' = [data EXCEPT ![f] = << >>]
  /\ units' = [units EXCEPT ![f] = @ + (@ % 2)]
  /\ truncated' = truncated \union {f}
  /\ Notify(f, "write")
  /\ UNCHANGED <<flags, present, dirW, fileW, pc, reading>>

-----------------------------------------------------------------------------
(* addFile of a directory: it is watched, then listed. *)
Start ==
  /\ pc = "start"
  /\ dirW' = (dir /\ follow)
  /\ pc' = IF dir THEN "list" ELSE "add"
  /\ UNCHANGED <<flags, disk, queue, fileW, reading>>

List ==
  /\ pc = "list"
  /\ todo' = present /\ pc' = "add"
  /\ UNCHANGED <<flags, disk, watch, cur, onEvent, rd, left, out, added>>

(* All files are added: cat returns, or waits for changes. *)
AddDone ==
  /\ pc = "add" /\ todo = {}
  /\ pc' = IF follow THEN "wait" ELSE "end"
  /\ UNCHANGED <<flags, disk, watch, reading>>

(* Mutant: files are not watched. *)
WatchNot ==
  /\ pc = "add"
  /\ \E f \in todo : cur' = f /\ todo' = todo \ {f}
  /\ pc' = "open"
  /\ UNCHANGED <<flags, disk, watch, onEvent, rd, left, out, added>>

(* addFile of a file: it is watched before it is opened. *)
Watch ==
  /\ pc = "add"
  /\ \E f \in todo :
       /\ cur' = f /\ todo' = todo \ {f}
       /\ fileW' = IF follow THEN fileW \union {f} ELSE fileW
  /\ pc' = "open"
  /\ UNCHANGED <<flags, disk, queue, dirW, onEvent, rd, left, out, added>>

(* A new reader replaces one there may be; the windows are made anew. *)
Open ==
  /\ pc = "open"
  /\ rd' = [rd EXCEPT ![cur] = [pos |-> 0, buf |-> << >>]]
  /\ left' = head /\ onEvent' = FALSE
  /\ added' = [added EXCEPT ![cur] = @ + 1]
  /\ pc' = "read"
  /\ UNCHANGED <<flags, disk, watch, todo, cur, out>>

(* What comes of two units: an event, or 0 when they do not belong         *)
(* together.                                                               *)
Event(a, b) == IF a % 2 = 1 /\ b = a + 1 THEN b \div 2 ELSE 0

(* Mutant: HeadWriter.N is compared and not counted down. *)
LeftAfterKept(n) == left

(* The output itself is written to on changes, past the windows; TailWriter *)
(* passes all events, and HeadWriter, when there is one, its N first ones.  *)
Windowed == ~onEvent /\ head # Off
LeftAfter(n) == IF n < left THEN left - n ELSE 0
Passed(events) ==
  IF Windowed /\ left < Len(events) THEN SubSeq(events, 1, left) ELSE events

(* ReReader.Read returns some units; the events that are whole are written *)
(* to the output.  Units that do not belong together may as well stop the  *)
(* reader with an error (Fail).                                            *)
Read ==
  /\ pc = "read"
  /\ \E k \in 1..Len(data[cur]) - rd[cur].pos :
       LET pos == rd[cur].pos
           b == rd[cur].buf \o SubSeq(data[cur], pos + 1, pos + k)
           events == [i \in 1..Len(b) \div 2 |-> Event(b[2 * i - 1], b[2 * i])]
       IN /\ rd' = [rd EXCEPT ![cur] = [pos |-> pos + k, buf |-> SubSeq(b, 2 * Len(events) + 1, Len(b))]]
          /\ out' = [out EXCEPT ![cur] = @ \o Passed(events)]
          /\ left' = IF Windowed THEN LeftAfter(Len(events)) ELSE left
  /\ UNCHANGED <<flags, disk, watch, pc, todo, cur, onEvent, added>>

(* Mutant: the end of the file is not reported. *)
AtEndRetried ==
  /\ pc = "read" /\ rd[cur].pos >= Len(data[cur])
  /\ rd' = [rd EXCEPT ![cur].pos = IF @ > Len(data[cur]) THEN 0 ELSE @]
  /\ UNCHANGED <<flags, disk, watch, pc, todo, cur, onEvent, left, out, added>>

(* The read finds the end of the file. *)
AtEnd ==
  /\ pc = "read" /\ rd[cur].pos >= Len(data[cur])
  /\ pc' = "seek"
  /\ UNCHANGED <<flags, disk, watch, reading>>

(* ReReader: the position after an end of file. *)
Restart(pos, size) == IF size < pos THEN 0 ELSE pos

(* ReReader asks for the size and reports the end of file, also when it    *)
(* has just gone back to the start; WriteTo ends.  TailWriter.Flush has    *)
(* nothing to write, for NewTailWriter makes a ring of no slots.           *)
Seek ==
  /\ pc = "seek"
  /\ rd' = [rd EXCEPT ![cur].pos = Restart(@, Len(data[cur]))]
  /\ pc' = IF onEvent THEN "wait" ELSE "add"
  /\ UNCHANGED <<flags, disk, watch, todo, cur, onEvent, left, out, added>>

(* A change: a created file is added, also one that was listed already;    *)
(* one that was written is read on.                                        *)
Change ==
  /\ pc = "wait" /\ queue # << >>
  /\ queue' = Tail(queue)
  /\ LET e == Head(queue) IN
       \/ e.op = "create" /\ todo' = {e.f} /\ pc' = "add" /\ UNCHANGED <<cur, onEvent>>
       \/ e.op = "write" /\ rd[e.f] # None
            /\ cur' = e.f /\ onEvent' = TRUE /\ pc' = "read" /\ UNCHANGED todo
       \/ e.op = "write" /\ rd[e.f] = None /\ UNCHANGED <<pc, todo, cur, onEvent>>
  /\ UNCHANGED <<flags, disk, dirW, fileW, rd, left, out, added>>

Interrupt ==
  /\ pc = "wait" /\ pc' = "end"
  /\ UNCHANGED <<flags, disk, watch, reading>>

(* An error of the file system, the watcher, a reader or the output ends   *)
(* cat.                                                                    *)
Fail ==
  /\ pc # "end" /\ pc' = "failed"
  /\ UNCHANGED <<flags, disk, watch, reading>>

(* Nothing more to do, or to wait for within the bounds. *)
Stopped == pc \in {"end", "failed", "wait"} /\ UNCHANGED vars

Step == Start \/ List \/ AddDone \/ Watch \/ Open \/ Read \/ AtEnd \/ Seek \/ Change

(* What others do once cat has ended is of no interest. *)
Next ==
  \/ pc \notin {"end", "failed"} /\ \E f \in Files : Create(f) \/ Grow(f) \/ Truncate(f)
  \/ Step \/ Interrupt \/ Fail \/ Stopped

(* cat runs; the others change files or not. *)
Spec == Init /\ [][Next]_vars /\ WF_vars(Step)

-----------------------------------------------------------------------------
(* cat waits only when it is up to date with every file no change of which *)
(* is queued: no write between the reading of a file and its watch, or     *)
(* between the end of file and the next wait, goes unnoticed, and neither  *)
(* does a truncation.  What is written along with a truncation may stay    *)
(* unread, since ReReader goes back to the start and reports the end.      *)
Pending(f) == \E i \in DOMAIN queue : queue[i].f = f
CaughtUp ==
  pc = "wait" => \A f \in Files : ~Pending(f) =>
    /\ (dir /\ f \in present) \/ f \in args => rd[f] # None
    /\ rd[f] # None => rd[f].pos <= Len(data[f])
    /\ rd[f] # None /\ f \notin truncated => rd[f].pos = Len(data[f])

(* The events of a file are printed whole, once and in order, whatever     *)
(* pieces it is read in: all of them, the first ones with --head.  A file  *)
(* created while its directory was being added is added twice, and printed *)
(* from the start again.                                                   *)
FirstEvents(n) == [i \in 1..n |-> i]
PrintedInOrder ==
  \A f \in Files \ truncated : added[f] = 1 =>
    LET n == rd[f].pos \div 2 IN
      IF head = Off THEN out[f] = FirstEvents(n)
      ELSE IF ~follow THEN out[f] = FirstEvents(IF n < head THEN n ELSE head)
      ELSE \A i \in 1..Len(out[f]) - 1 : out[f][i] < out[f][i + 1]

(* --follow: every event written to a file that is followed is printed     *)
(* some time, unless cat ends or the file is truncated.                    *)
EverythingShown ==
  \A f \in Files : \A e \in 1..MaxUnits[f] \div 2 :
    (follow /\ head = Off /\ (dir \/ f \in args) /\ 2 * e <= Len(data[f]))
      ~> (e \in Range(out[f]) \/ pc \in {"end", "failed"} \/ f \in truncated)

(* --tail: "skip all except last n events". *)
LastEvents(n, k) == IF n <= k THEN FirstEvents(n) ELSE [i \in 1..k |-> n - k + i]
TailKeepsLast ==
  pc = "end" /\ ~follow /\ tail # Off /\ head = Off =>
    \A f \in Files \ truncated :
      added[f] = 1 => out[f] = LastEvents(rd[f].pos \div 2, tail)
=============================================================================
