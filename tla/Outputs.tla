------------------------------ MODULE Outputs ------------------------------
(***************************************************************************)
(* What a -log or -out flag opens and what becomes of the events written   *)
(* to it: OpenWriter of src/ext/tlflag/flag.go makes one branch of every   *)
(* destination of a list, MultiWriter of src/tlio/writers.go writes every  *)
(* batch to all of them, and the converter of a branch (ConsoleWriter,     *)
(* convert.JSON, Logfmt and Web, tlwire.Dumper) turns it into lines.       *)
(* OpenReader, which -reader flags call, opens handles the same way.       *)
(*                                                                         *)
(* Of a value only this is kept: which converters cannot print it.  The    *)
(* compression of eazy is external and passes on what it is given; sockets *)
(* are reopened by ReWriter, which has a module of its own, and hold no    *)
(* handle here.  A rotating file opens its first file only (the rest is    *)
(* in Rotating).                                                           *)
(***************************************************************************)
EXTENDS Naturals, Sequences, SequencesExt, FiniteSets

CONSTANTS
  Lists,       (* lists of destinations [at, ext], ext from the last one   *)
  Sources,     (* sources [at, ext, seekable] for OpenReader               *)
  Batches,     (* what one Write is given: events [form, ls, hide]         *)
  MaxWrites, MaxFaults   (* bounds                                         *)

ASSUME ListsAssumption == Lists \subseteq Seq([at : STRING, ext : Seq(STRING)])
ASSUME BatchesAssumption ==
  Batches \subseteq Seq([form : STRING, ls : Nat, hide : BOOLEAN]) \ {<< >>}
ASSUME BoundsAssumption == MaxWrites \in Nat /\ MaxFaults \in Nat

VARIABLES
  pc, todo,    (* position of the caller; destinations not yet opened      *)
  ws,          (* the MultiWriter: branches in the order of the list       *)
  rd,          (* the reader: [st, h]                                      *)
  closes,      (* times each handle opened so far was closed               *)
  given, acked,   (* history: batches written; those answered without error *)
  faults

vars == <<pc, todo, ws, rd, closes, given, acked, faults>>

(* Handles are told apart by who opened them, which nobody does twice:     *)
(* the standard streams by no one, a file by branch i or by the reader.    *)
NoHandle == 0
Std == 1
ReaderFile == 2
FileOf(i) == i + 2

-----------------------------------------------------------------------------
(* Opening.  openwc takes extensions off the name from the right: .eazy    *)
(* and .ez go on with the one before, every other one ends the search, and *)
(* a name that has none left is for the console.                           *)
Wraps(ext) ==
  LET end == SelectInSeq(ext, LAMBDA x : x # "ez")
  IN IF end = 0 THEN Append(ext, "") ELSE SubSeq(ext, 1, end)

Unsupported(ext) == "bad" \in ToSet(Wraps(ext))

Format(ext) ==
  CASE Last(Wraps(ext)) \in {"log", ""} -> "console"
    [] Last(Wraps(ext)) \in {"json", "logfmt", "html", "dump"} -> Last(Wraps(ext))
    [] OTHER -> "raw"      (* .tlog, .tl, .tlz, .ezdump                    *)

(* RotatedTLZFileOpener: a rotating file compresses each of its files. The *)
(* SandwichWriter it makes is no io.Closer.                                *)
Squeezed(d) == d.at = "pattern" /\ {"ez", "tlz"} \intersect ToSet(Wraps(d.ext)) # {}

(* Mutant: the standard streams are closers as well. *)
OwnedStd(b) == IF ~b.squeezed /\ b.h # NoHandle THEN {b.h} ELSE {}

(* writeCloser: what Close of a branch reaches: its file through the       *)
(* WriteCloser, and nothing behind a NopCloser.                            *)
Owned(b) == IF b.at \in {"file", "pattern"} /\ ~b.squeezed /\ b.h # NoHandle
            THEN {b.h} ELSE {}

Branch(d, h) ==
  [fmt |-> Format(d.ext), at |-> d.at, h |-> h, squeezed |-> Squeezed(d),
   lastls |-> 0, rows |-> << >>, headed |-> FALSE, left |-> FALSE,
   out |-> << >>, dropped |-> {}, cut |-> FALSE]

Opened(d, i) == CASE d.at = "file" -> FileOf(i)
                  [] d.at = "std" -> Std
                  [] OTHER -> NoHandle   (* discard, sockets, rotating.Create *)

(* The handles with those the branches bs hold: none of the new is closed. *)
Grown(bs) ==
  [h \in DOMAIN closes \cup ({b.h : b \in ToSet(bs)} \ {NoHandle}) |->
     IF h \in DOMAIN closes THEN closes[h] ELSE 0]

Init ==
  /\ pc = "open" /\ todo \in Lists /\ ws = << >>
  /\ rd = [st |-> "none", h |-> NoHandle]
  /\ closes = [h \in {Std} |-> 0]
  /\ given = << >> /\ acked = {} /\ faults = 0

CanOpen(d) == ~Unsupported(d.ext) /\ d.at # "unknown"

OpenNext ==
  /\ pc = "open" /\ todo # << >> /\ CanOpen(Head(todo))
  /\ ws' = Append(ws, Branch(Head(todo), Opened(Head(todo), Len(ws) + 1)))
  /\ closes' = Grown(ws')
  /\ todo' = Tail(todo)
  /\ UNCHANGED <<pc, rd, given, acked, faults>>

OpenDone ==
  /\ pc = "open" /\ todo = << >>
  /\ pc' = "up"
  /\ UNCHANGED <<todo, ws, rd, closes, given, acked, faults>>

-----------------------------------------------------------------------------
(* Converting.  Events a converter answers with an error, and events on    *)
(* which it panics: no map, an empty key, a half-width float, a hidden     *)
(* value.  It stops at the first of them.                                  *)
Refused == [raw |-> {}, dump |-> {}, json |-> {"nomap"}, logfmt |-> {"nomap"},
            console |-> {"nomap", "nokey"}, html |-> {"nomap", "nokey"}]

(* The ConvertValue of each converter, and what Dumper prints.  Web prints *)
(* values with the console's.                                              *)
ConsolePanics == {"half"}
LogfmtPanics == {"half"}
JSONPanics == {}
DumperPanics == {"hidden"}
Panics == [raw |-> {}, dump |-> DumperPanics, json |-> JSONPanics, logfmt |-> LogfmtPanics,
           console |-> ConsolePanics, html |-> ConsolePanics]

(* Console and Dumper recover from a panic and then answer with no error.  *)
Recovers(fmt) == fmt \in {"console", "dump"}

Cut(fmt, p) == SelectInSeq(p, LAMBDA e : e.form \in Refused[fmt] \cup Panics[fmt])
Done(fmt, p) == IF Cut(fmt, p) = 0 THEN Len(p) ELSE Cut(fmt, p) - 1
Outcome(fmt, p) ==
  IF Cut(fmt, p) = 0 THEN "ok"
  ELSE IF p[Cut(fmt, p)].form \in Refused[fmt] THEN "error"
  ELSE IF Recovers(fmt) THEN "recovered" ELSE "panic"

(* A line: event i of batch w, its labels, the labels printed with it (0:  *)
(* none), and whether pairs of an event cut off before came with it.       *)
Line(kind, w, i, own, shown, mixed) ==
  [kind |-> kind, w |-> w, i |-> i, own |-> own, shown |-> shown, mixed |-> mixed]
Mark(kind, w) == Line(kind, w, 0, 0, 0, FALSE)

Plain(w, p, n) == [i \in 1..n |-> Line("event", w, i, p[i].ls, p[i].ls, FALSE)]

(* Mutant: labels of events that are not printed are remembered too. *)
ConsoleLineHidden(w, p, acc, i) ==
  IF p[i].hide THEN [acc EXCEPT !.last = p[i].ls]
  ELSE [out |-> Append(acc.out, Line("event", w, i, p[i].ls,
                         IF p[i].ls = acc.last THEN 0 ELSE p[i].ls, FALSE)),
        last |-> p[i].ls]

(* ConsoleWriter.Write prints the events its tag filters let pass, and the *)
(* labels of one when they differ from those of the last one it printed.   *)
ConsoleLine(w, p, acc, i) ==
  IF p[i].hide THEN acc
  ELSE [out |-> Append(acc.out, Line("event", w, i, p[i].ls,
                         IF p[i].ls = acc.last THEN 0 ELSE p[i].ls, FALSE)),
        last |-> p[i].ls]

ConsoleLines(b, w, p) ==
  LET acc[i \in 0..Done("console", p)] ==
        IF i = 0 THEN [out |-> << >>, last |-> b.lastls]
        ELSE ConsoleLine(w, p, acc[i - 1], i)
  IN acc[Done("console", p)]

(* Mutant: the header is built while nothing waits in bb. *)
WebRowsHeader(b, w, p) ==
  (IF b.rows # << >> THEN b.rows ELSE << Mark("header", w) >>)
    \o [i \in 1..Done("html", p) |->
          Line("event", w, i, p[i].ls, 0, i = 1 /\ b.left)]

(* Web.Write keeps the page in bb until it is written: the header first    *)
(* while no row was ever built, then the rows.  A cut leaves the rows in   *)
(* bb, and in b the pairs before an empty key or a value it cannot print.  *)
WebRows(b, w, p) ==
  (IF b.headed THEN b.rows ELSE << Mark("header", w) >>)
    \o [i \in 1..Done("html", p) |->
          Line("event", w, i, p[i].ls, 0, i = 1 /\ b.left)]

WebLeft(b, p) ==
  IF Cut("html", p) = 0 THEN FALSE
  ELSE p[Cut("html", p)].form # "nomap" \/ (b.left /\ Done("html", p) = 0)

(* The branch after a Write, and what it hands to the writer below; cut    *)
(* remembers that console lines were cut off with the labels kept.         *)
Converted(b, w, p) ==
  CASE b.fmt = "console" -> [b EXCEPT !.lastls = ConsoleLines(b, w, p).last,
                                      !.cut = b.cut \/ Cut("console", p) # 0]
    [] b.fmt = "html" ->
         [b EXCEPT !.headed = b.headed \/ Done("html", p) > 0,
                   !.left = WebLeft(b, p),
                   !.rows = IF Outcome("html", p) = "ok" THEN << >>
                            ELSE WebRows(b, w, p)]
    [] OTHER -> b

Text(b, w, p) ==
  IF Cut(b.fmt, p) # 0
  THEN IF b.fmt = "console" THEN << Mark("dump", w) >> ELSE << >>   (* by its defer *)
  ELSE CASE b.fmt = "console" -> ConsoleLines(b, w, p).out
         [] b.fmt = "html" -> WebRows(b, w, p)
         [] OTHER -> Plain(w, p, Len(p))

-----------------------------------------------------------------------------
(* Writing.  The text goes to the file of the branch; a rotating file      *)
(* opens it now.  What can fail: its opening; the write, in a file that is *)
(* then open; the write alone, where what is written next gets through.    *)
(* dropped: the batches whose text a failed write dropped.                 *)
Faults == {"none", "open", "write", "once"}

Below(b, i, w, text, fault) ==
  [b EXCEPT !.h = IF text # << >> /\ fault # "open" /\ b.at = "pattern" /\ b.h = NoHandle
                  THEN FileOf(i) ELSE b.h,
            !.out = IF fault # "none" THEN b.out ELSE b.out \o text,
            !.dropped = IF fault # "none" /\ text # << >> THEN b.dropped \cup {w} ELSE b.dropped]

(* ConsoleWriter dumps the event of a write that failed, too.              *)
Dumps(b, w, p, fault) ==
  fault = "once" /\ b.fmt = "console" /\ Outcome(b.fmt, p) = "ok" /\ Text(b, w, p) # << >>

WriteBranch(i, w, p, fault) ==
  LET b == Below(Converted(ws[i], w, p), i, w, Text(ws[i], w, p), fault)
  IN IF Dumps(ws[i], w, p, fault) THEN Below(b, i, w, << Mark("dump", w) >>, "none") ELSE b

(* What the branch answers; when it is cut it answers that, whatever       *)
(* becomes of the dump.                                                    *)
Said(b, w, p, fault) ==
  IF fault # "none" /\ Text(b, w, p) # << >> /\ Outcome(b.fmt, p) = "ok"
  THEN "error" ELSE Outcome(b.fmt, p)

(* The branches a Write reaches: all, or those up to one that panics.      *)
Tried(p) ==
  LET k == SelectInSeq(ws, LAMBDA b : Outcome(b.fmt, p) = "panic")
  IN IF k = 0 THEN Len(ws) ELSE k

(* Mutant: it tells what the last branch answered. *)
AnswerLast(res) == IF Last(res) \in {"error", "panic"} THEN "error" ELSE "ok"

(* MultiWriter.Write tells the first error there was. *)
Answer(res) == IF {"error", "panic"} \intersect ToSet(res) = {} THEN "ok" ELSE "error"

Write(p, how) ==
  LET w == Len(given) + 1
      bad == {i \in DOMAIN ws : how[i] # "none"} IN
  /\ pc = "up" /\ ws # << >> /\ Len(given) < MaxWrites
  /\ bad \subseteq {i \in 1..Tried(p) : ws[i].at # "discard"}
  /\ faults' = faults + Cardinality(bad) /\ faults' <= MaxFaults
  /\ ws' = [i \in DOMAIN ws |-> IF i <= Tried(p) THEN WriteBranch(i, w, p, how[i])
                                ELSE ws[i]]
  /\ closes' = Grown(ws')
  /\ acked' = IF Answer([i \in 1..Tried(p) |-> Said(ws[i], w, p, how[i])]) = "ok"
              THEN acked \cup {w} ELSE acked
  /\ given' = Append(given, p)
  /\ UNCHANGED <<pc, todo, rd>>

-----------------------------------------------------------------------------
(* Closing.  MultiWriter.Close closes every branch; Web.Close first ends   *)
(* the page, which makes a rotating file open one if it had none.          *)
Ended(i) ==
  IF ws[i].fmt = "html"
  THEN Below([ws[i] EXCEPT !.rows = << >>], i, 0, << Mark("footer", 0) >>, "none")
  ELSE ws[i]

CloseAll ==
  /\ ws' = [i \in DOMAIN ws |-> Ended(i)]
  /\ closes' = [h \in DOMAIN Grown(ws') |->
                  Grown(ws')[h] + Cardinality({i \in DOMAIN ws : h \in Owned(ws'[i])})]

Close ==
  /\ pc = "up" /\ pc' = "closed"
  /\ CloseAll
  /\ UNCHANGED <<todo, rd, given, acked, faults>>

(* OpenWriter closes the branches it has when the next one cannot be made. *)
OpenFail ==
  /\ pc = "open" /\ todo # << >>
  /\ \/ ~CanOpen(Head(todo)) /\ faults' = faults
     \/ /\ CanOpen(Head(todo)) /\ Head(todo).at = "file"
        /\ faults < MaxFaults /\ faults' = faults + 1
  /\ pc' = "failed"
  /\ CloseAll
  /\ UNCHANGED <<todo, rd, given, acked>>

-----------------------------------------------------------------------------
(* The reader.  OpenFileReReader seeks in what it opened, and leaves it    *)
(* open when it cannot; a pipe is read as it is.                           *)
Readable(s) == ToSet(Wraps(s.ext)) \subseteq {"ez", "tlz", "tlog", ""} /\ s.at # "unknown"

OpenReader(s) ==
  /\ rd.st = "none"
  /\ \/ /\ ~Readable(s)
        /\ rd' = [st |-> "failed", h |-> NoHandle] /\ UNCHANGED <<closes, faults>>
     \/ /\ Readable(s) /\ s.at = "std"
        /\ rd' = [st |-> "open", h |-> Std] /\ UNCHANGED <<closes, faults>>
     \/ /\ Readable(s) /\ s.at # "std" /\ faults < MaxFaults
        /\ rd' = [st |-> "failed", h |-> NoHandle] /\ faults' = faults + 1
        /\ UNCHANGED closes
     \/ /\ Readable(s) /\ s.at # "std"
        /\ closes' = [h \in DOMAIN closes \cup {ReaderFile} |->
                        IF h = ReaderFile THEN 0 ELSE closes[h]]
        /\ rd' = [st |-> IF s.at = "file" /\ ~s.seekable THEN "failed" ELSE "open",
                  h |-> ReaderFile]
        /\ UNCHANGED faults
  /\ UNCHANGED <<pc, todo, ws, given, acked>>

CloseReader ==
  /\ rd.st = "open"
  /\ rd' = [rd EXCEPT !.st = "closed"]
  /\ closes' = IF rd.h = Std THEN closes ELSE [closes EXCEPT ![rd.h] = @ + 1]
  /\ UNCHANGED <<pc, todo, ws, given, acked, faults>>

(* Both writer and reader are done with. *)
Finished ==
  /\ pc \in {"failed", "closed"} /\ rd.st \in {"failed", "closed"}
  /\ UNCHANGED vars

Next ==
  \/ OpenNext \/ OpenDone \/ OpenFail \/ Close
  \/ \E p \in Batches : \E how \in [DOMAIN ws -> Faults] : Write(p, how)
  \/ \E s \in Sources : OpenReader(s)
  \/ CloseReader \/ Finished

Spec == Init /\ [][Next]_vars

-----------------------------------------------------------------------------
(* No handle is closed twice and a standard stream never, whatever list of *)
(* destinations shares them; nothing is closed while events may come; and  *)
(* after Close, as after an OpenWriter that failed half-way, nothing stays *)
(* open and nothing was forgotten.  Not so behind a compressed rotating    *)
(* file (flag.go:518) and a reader that could not seek (flag.go:472).      *)
HandlesBalanced ==
  /\ closes[Std] = 0
  /\ \A h \in DOMAIN closes : closes[h] <= 1
  /\ \A h \in DOMAIN closes \ {Std} : h = rd.h \/ \E i \in DOMAIN ws : ws[i].h = h
  /\ \A i \in DOMAIN ws : LET b == ws[i] IN
       b.h \notin {NoHandle, Std} =>
         closes[b.h] = IF pc \in {"failed", "closed"} /\ ~b.squeezed THEN 1 ELSE 0
  /\ rd.st = "closed" => rd.h = Std \/ closes[rd.h] = 1

(* A batch that was answered without an error is in every branch, each     *)
(* event once and in order, or as the dump ConsoleWriter prints when it    *)
(* panics; only the tag filters of a console and the Dumper, which answers *)
(* nothing when it panics (dumper.go:61), keep an event back, and a failed *)
(* write the dump, of which the console does not tell (console.go:202).    *)
Shows(b, w, i) ==
  \/ \E l \in ToSet(b.out) : l.w = w /\ (l.kind = "dump" \/ l.i = i)
  \/ b.fmt = "console" /\ given[w][i].hide
  \/ Outcome(b.fmt, given[w]) = "recovered" /\ (b.fmt = "dump" \/ w \in b.dropped)
Earlier(k, l) ==
  k.kind = "event" /\ l.kind = "event" => k.w < l.w \/ (k.w = l.w /\ k.i < l.i)
AcceptedShown ==
  \A j \in DOMAIN ws : LET b == ws[j] IN
    /\ \A w \in acked : \A i \in DOMAIN given[w] : Shows(b, w, i)
    /\ \A n \in DOMAIN b.out : \A m \in 1..n - 1 : Earlier(b.out[m], b.out[n])

(* The console prints labels only when they change, so the reader of its   *)
(* text takes for the labels of a line those printed last.  They are the   *)
(* labels of that event, unless text was lost in between or it has none.   *)
LabelsReadable ==
  \A j \in DOMAIN ws : LET out == ws[j].out IN
    ws[j].fmt = "console" /\ ~ws[j].cut /\ ws[j].dropped = {} =>
      \A n \in DOMAIN out : out[n].own # 0 =>
        \E k \in 1..n : /\ out[k].shown = out[n].own
                         /\ \A m \in k + 1..n : out[m].shown = 0

(* An HTML page has its header first and once, however many writes and     *)
(* refused batches it took, and its footer last; a row carries pairs of    *)
(* another event only after a batch was cut off.                           *)
PageWellFormed ==
  \A j \in DOMAIN ws : LET out == ws[j].out IN
    ws[j].fmt = "html" =>
      /\ \A n \in DOMAIN out : out[n].kind = "header" => n = 1
      /\ ws[j].dropped = {} =>
           \A n \in DOMAIN out : out[n].kind = "event" => out[1].kind = "header"
      /\ \A n \in DOMAIN out :
           out[n].kind = "footer" <=> n = Len(out) /\ pc \in {"failed", "closed"}
      /\ \A n \in DOMAIN out : out[n].mixed =>
           \E v \in 1..out[n].w - 1 : Outcome("html", given[v]) # "ok"
=============================================================================
