----------------------------- MODULE WireReader -----------------------------
(***************************************************************************)
(* tlwire.Reader (src/tlwire/reader.go): cuts a stream of encoded events,  *)
(* which the source hands out in pieces of any size, at the borders of the *)
(* events.  The reader keeps what it has read in a buffer and skips over   *)
(* one value from the first byte not yet returned; when the value is not   *)
(* complete it reads more and starts again.                                *)
(***************************************************************************)
EXTENDS Codec

CONSTANTS
  Events,      (* values sent                                              *)
  MaxSent,     (* bound: events in a stream                                *)
  MaxPiece,    (* bound: bytes of one Read                                 *)
  MaxFaults,   (* bound: read errors, ends of file met early               *)
  PSizes       (* len(p) in calls of Read; 0: ReadOne                      *)

ASSUME BoundsAssumption ==
  /\ MaxSent \in Nat /\ MaxPiece \in Nat \ {0} /\ MaxFaults \in Nat /\ PSizes \subseteq Nat

ASSUME EventsAssumption == Events \subseteq Values

Streams == UNION {[1..n -> Events] : n \in 1..MaxSent}

(* The bytes of the first j events.                                        *)
Before(vs, j) == Len(Stream(SubSeq(vs, 1, j)))

VARIABLES
  sent,        (* events of the stream                                     *)
  src,         (* bytes the source still has                               *)
  buf, i,      (* Reader.b, and Reader.i counted from 1                    *)
  pc, err,     (* position of the reader, result of its last call          *)
  got,         (* what the calls returned: the event, and the n of Read    *)
  faults

vars == <<sent, src, buf, i, pc, err, got, faults>>

-----------------------------------------------------------------------------
Init ==
  /\ sent \in Streams
  /\ src = Stream(sent)
  /\ buf = << >> /\ i = 1
  /\ pc = "call" /\ err = "none" /\ got = << >> /\ faults = 0

(* The caller asks for an event; WriteTo does so until it gets an error    *)
(* and takes io.EOF for the end, and its caller may come again.            *)
Call ==
  /\ pc = "call"
  /\ pc' = "skip" /\ err' = "none"
  /\ UNCHANGED <<sent, src, buf, i, got, faults>>

(* skipRead found a value: ReadOne returns its bytes, Read copies them     *)
(* into p when they fit and leaves the value where it is when they do not. *)
(* (Read says it has read len(p) bytes, also when the value is shorter.)   *)
Found ==
  /\ pc = "skip"
  /\ LET end == Skip(buf, i) IN
       /\ end > 0
       /\ \E len \in PSizes :
            IF len # 0 /\ len < end - i
            THEN err' = "short" /\ UNCHANGED <<i, got>>
            ELSE /\ UNCHANGED err
                 /\ got' = Append(got, [data |-> SubSeq(buf, i, end - 1),
                                        n |-> IF len = 0 THEN end - i ELSE len])
                 /\ i' = end
  /\ pc' = "call"
  /\ UNCHANGED <<sent, src, buf, faults>>

Bad ==
  /\ pc = "skip"
  /\ Skip(buf, i) < UnexpectedEOF
  /\ err' = "bad format" /\ pc' = "call"
  /\ UNCHANGED <<sent, src, buf, i, got, faults>>

(* Mutant: the buffer is started anew. *)
CompactDrop(read) == buf' = read /\ i' = 1

(* more: what was returned is dropped from the buffer. *)
Compact(read) == buf' = SubSeq(buf, i, Len(buf)) \o read /\ i' = 1

(* Mutant: an end of file is reported although bytes came with it.         *)
MoreEnds ==
  /\ pc = "skip" /\ Skip(buf, i) = UnexpectedEOF
  /\ \E n \in 1..MaxPiece :
       /\ n <= Len(src)
       /\ Compact(SubSeq(src, 1, n))
       /\ src' = SubSeq(src, n + 1, Len(src))
  /\ IF src' = << >> THEN pc' = "call" /\ err' = "eof" ELSE UNCHANGED <<pc, err>>
  /\ UNCHANGED <<sent, got, faults>>

(* more, and the loop of skipRead: the source gives some bytes, and an end *)
(* of file that comes with them is not reported.                           *)
More ==
  /\ pc = "skip" /\ Skip(buf, i) = UnexpectedEOF
  /\ \E n \in 1..MaxPiece :
       /\ n <= Len(src)
       /\ Compact(SubSeq(src, 1, n))
       /\ src' = SubSeq(src, n + 1, Len(src))
  /\ UNCHANGED <<sent, pc, err, got, faults>>

(* The source has nothing, now or for good, or fails, maybe with some      *)
(* bytes; they are kept.                                                   *)
MoreFails ==
  /\ pc = "skip" /\ Skip(buf, i) = UnexpectedEOF
  /\ \/ /\ src = << >> \/ faults < MaxFaults
        /\ faults' = IF src = << >> THEN faults ELSE faults + 1
        /\ Compact(<< >>) /\ err' = "eof" /\ UNCHANGED src
     \/ /\ faults < MaxFaults /\ faults' = faults + 1
        /\ \E n \in 0..MaxPiece :
             /\ n <= Len(src)
             /\ Compact(SubSeq(src, 1, n))
             /\ src' = SubSeq(src, n + 1, Len(src))
        /\ err' = "error"
  /\ pc' = "call"
  /\ UNCHANGED <<sent, got>>

Next == Call \/ Found \/ Bad \/ More \/ MoreFails

Spec == Init /\ [][Next]_vars

-----------------------------------------------------------------------------
(* No byte is lost, doubled or moved by the buffer, also across errors and *)
(* ends of file in the middle of an event: what was returned, what is held *)
(* and what is still to come are the stream.                               *)
Returned == FlattenSeq([j \in DOMAIN got |-> got[j].data])
NothingLost == Returned \o SubSeq(buf, i, Len(buf)) \o src = Stream(sent)

(* A special that the Reader does not know is a byte of e. *)
Unknown(e) == \E c \in DOMAIN e : e[c][1] = "special" /\ e[c][2] \notin DOMAIN SpecialLen

(* What the calls return are the events, one per call, whole and in order, *)
(* however the stream was cut; when the source is exhausted and the reader *)
(* says so all of them were returned: WriteTo may take io.EOF for the end  *)
(* of the stream; and only an event with a special that the Reader does    *)
(* not know is said to be badly formatted.                                 *)
EventsFramed ==
  /\ Len(got) <= Len(sent)
  /\ \A j \in DOMAIN got : got[j].data = Enc(sent[j])
  /\ err = "eof" /\ src = << >> => Len(got) = Len(sent)
  /\ err = "bad format" => Len(got) < Len(sent) /\ Unknown(Enc(sent[Len(got) + 1]))

(* "SelfRef = 10 // self reference": it is one of the values of the        *)
(* format, and so an event with one is not badly formatted.                *)
NeverBadFormat == err # "bad format"
=============================================================================
