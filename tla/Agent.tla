------------------------------- MODULE Agent -------------------------------
(***************************************************************************)
(* agent.Agent (src/agent): events are stored per stream, a stream being a *)
(* set of labels, in files named after the partition of time, the checksum *)
(* of the labels and the second of the first event.  What is stored is     *)
(* compressed by an eazy.Writer kept per stream: a chunk refers back to    *)
(* the events the encoder has seen since its last Reset, so it can be read *)
(* only if those are in front of it in the file.  A file is cut in blocks  *)
(* whose first chunk follows a Reset.                                      *)
(*                                                                         *)
(* An event is its number; hist is what the encoder saw since its Reset.   *)
(* Write holds Agent.mu from start to end; pc is where its holder is.  A   *)
(* payload of several events is stored whole where its first event goes,   *)
(* exactly as one event.                                                   *)
(***************************************************************************)
EXTENDS Integers, Sequences, SequencesExt, FiniteSets

CONSTANTS
  LabelSets, Sum,              (* labels of events, their checksum         *)
  Stamps,                      (* timestamps, in seconds                   *)
  Lens,                        (* sizes of payloads when compressed        *)
  Partition, FileSize, BlockSize,
  MaxEvents, MaxFaults, MaxSubs,  (* bounds: payloads, faults, ids         *)
  MaxCalls,                    (* bound: payloads and ids together         *)
  None                         (* no file: a nil *file                     *)

ASSUME SizesAssumption ==
  /\ Partition \in Nat \ {0} /\ FileSize \in Nat /\ BlockSize \in Nat \ {0}
  /\ Stamps \subseteq Nat /\ Lens \subseteq Nat \ {0} /\ MaxEvents \in Nat /\ MaxFaults \in Nat
  /\ MaxSubs \in Nat /\ MaxCalls \in Nat
ASSUME SumAssumption == Sum \in [LabelSets -> Nat]

VARIABLES
  disk,        (* path -> its size and the chunks in it                    *)
  fil,         (* stream.file: path, part, off and index, or None          *)
  hist, boff,  (* state of stream.z and stream.boff                        *)
  pc, ev,      (* holder of mu: position; number, labels and stamp written *)
  zbuf,        (* stream.zbuf: its length and what it refers back to       *)
  subid, subs, (* Agent.subid and Agent.subs                               *)
  events, faults,
  acked, dirty, reused, subscribed   (* history, see the properties        *)

streams == <<fil, hist, boff>>
subscribers == <<subid, subs, subscribed>>
history == <<acked, dirty, reused>>
vars == <<disk, streams, pc, ev, zbuf, subscribers, events, faults, history>>

Names == {<<Sum[l], t>> : l \in LabelSets, t \in Stamps}
NoEvent == [n |-> 0, l |-> CHOOSE l \in LabelSets : TRUE, ts |-> 0, len |-> 0]

Init ==
  /\ disk = [x \in {} |-> 0]
  /\ fil = [l \in LabelSets |-> None]
  /\ hist = [l \in LabelSets |-> << >>]
  /\ boff = [l \in LabelSets |-> 0]
  /\ pc = "idle" /\ ev = NoEvent /\ zbuf = [len |-> 0, hist |-> << >>]
  /\ subid = 0 /\ subs = << >> /\ subscribed = {}
  /\ events = 0 /\ faults = 0
  /\ acked = {} /\ dirty = {} /\ reused = {}

Fault == faults < MaxFaults /\ faults' = faults + 1

Part(ts) == ts - (ts % Partition)

(* eazy.Writer.Write: the first chunk after a Reset carries the magic.     *)
Encoded(e, h) == [len |-> e.len + (IF h = << >> THEN 1 ELSE 0), hist |-> h]

(* A failure while a file is the one written to. *)
Dirty(l) == dirty' = dirty \union (IF fil[l] = None THEN {} ELSE {fil[l].name})

Fail == pc' = "idle" /\ Fault /\ Dirty(ev.l)

-----------------------------------------------------------------------------
(* Write: the header is parsed, the stream found, the payload encoded. *)
Receive(l, ts, len) ==
  /\ pc = "idle" /\ events < MaxEvents /\ events + subid < MaxCalls
  /\ events' = events + 1
  /\ ev' = [n |-> events + 1, l |-> l, ts |-> ts, len |-> len]
  /\ zbuf' = Encoded(ev', hist[l])
  /\ hist' = [hist EXCEPT ![l] = Append(@, events + 1)]
  /\ LET f == fil[l] IN
       pc' = IF \/ f = None
                \/ f.part # Part(ts)
                \/ f.off + zbuf'.len > FileSize /\ f.off # 0
             THEN "newfile" ELSE "block"
  /\ UNCHANGED <<disk, fil, boff, subscribers, faults, history>>

(* Mutant: boff is set to 0 but the encoder keeps its history. *)
ResetBoff(l) == boff' = [boff EXCEPT ![l] = 0] /\ UNCHANGED hist

(* z.Reset(&s.zbuf); s.boff = 0 *)
Reset(l) ==
  /\ hist' = [hist EXCEPT ![l] = << >>]
  /\ boff' = [boff EXCEPT ![l] = 0]

(* os.OpenFile with O_CREATE: a file that is there is kept. *)
OpenFile(d, name) ==
  [x \in DOMAIN d \union {name} |->
     IF x \in DOMAIN d THEN d[x] ELSE [size |-> 0, chunks |-> << >>]]

(* newFile opens (O_CREATE, O_APPEND) a file named after the stamp; its    *)
(* offset starts at 0 also when the file was there.  The encoder is reset. *)
NewFile ==
  /\ pc = "newfile"
  /\ LET name == <<Sum[ev.l], ev.ts>> IN
       \/ /\ disk' = OpenFile(disk, name)
          /\ reused' = IF name \in DOMAIN disk THEN reused \union {name} ELSE reused
          /\ fil' = [fil EXCEPT ![ev.l] = [name |-> name, part |-> Part(ev.ts), off |-> 0, index |-> << >>]]
          /\ Reset(ev.l)
          /\ pc' = "block"
          /\ UNCHANGED <<faults, dirty>>
       \/ Fail /\ UNCHANGED <<disk, streams, reused>>
  /\ UNCHANGED <<ev, zbuf, subscribers, events, acked>>

(* Truncate: what lies beyond off is gone, a gap up to off is zeros.  The  *)
(* chunks lie one behind the other: those that end by off are the first n. *)
TruncateTo(d, off) ==
  LET cs == d.chunks
      n == CHOOSE n \in 0..Len(cs) :
             \A i \in DOMAIN cs : i <= n <=> cs[i].off + cs[i].len <= off
  IN [size |-> off, chunks |-> SubSeq(cs, 1, n)]

(* Mutant: a block is started one byte late. *)
NextBlockLate(l) == boff[l] + zbuf.len > BlockSize + 1 /\ boff[l] # 0

NextBlock(l) == boff[l] + zbuf.len > BlockSize /\ boff[l] # 0

(* Mutant: the offset is rounded down. *)
PadOffsetDown(off) == off - (off % BlockSize)

(* Where padFile ends the block. *)
PadOffset(off) == off + BlockSize - (off % BlockSize)

(* padFile, when the chunk would not fit the block: the file is extended   *)
(* to the next block with Truncate and Seek, unless it is aligned.  Then   *)
(* the encoder is reset.                                                   *)
Block ==
  /\ pc = "block"
  /\ LET l == ev.l  f == fil[l]  off == PadOffset(f.off)
     IN \/ /\ ~NextBlock(l)
           /\ UNCHANGED <<disk, streams, faults, dirty>>
           /\ pc' = "write"
        \/ /\ NextBlock(l)
           /\ IF f.off % BlockSize = 0 THEN UNCHANGED <<disk, fil>>
              ELSE /\ disk' = [disk EXCEPT ![f.name] = TruncateTo(@, off)]
                   /\ fil' = [fil EXCEPT ![l].off = off]
           /\ Reset(l)
           /\ pc' = "write"
           /\ UNCHANGED <<faults, dirty>>
        \/ /\ NextBlock(l) /\ f.off % BlockSize # 0
           /\ Fail
           /\ disk' \in {disk, [disk EXCEPT ![f.name] = TruncateTo(@, off)]}
           /\ UNCHANGED streams
  /\ UNCHANGED <<ev, zbuf, subscribers, events, acked, reused>>

(* What is appended to the file at the end: the chunk, or a part of it.    *)
Chunk(d, z) == [n |-> ev.n, hist |-> z.hist, off |-> d.size, len |-> z.len]
Appended(d, z) == [size |-> d.size + z.len, chunks |-> Append(d.chunks, Chunk(d, z))]
Torn(d, len) == [d EXCEPT !.size = @ + len]

(* Mutant: what was encoded before the Reset is written. *)
AgainNever(l) == FALSE

(* The payload is encoded again at the start of a block. *)
Again(l) == boff[l] = 0

(* What is written: at the start of a block the payload is encoded again,  *)
(* after the Reset.                                                        *)
Sent(l) == IF Again(l) THEN Encoded(ev, hist[l]) ELSE zbuf

(* The first event of a file is indexed.  A failed write leaves off and    *)
(* boff, but not the file and the encoder, as they were.                   *)
Store ==
  /\ pc = "write"
  /\ LET l == ev.l
         f == fil[l]
         z == Sent(l)
         index == IF f.index = << >> THEN <<[off |-> f.off, ts |-> ev.ts]>> ELSE f.index
     IN /\ zbuf' = z
        /\ hist' = [hist EXCEPT ![l] = IF Again(l) THEN Append(@, ev.n) ELSE @]
        /\ \/ /\ disk' = [disk EXCEPT ![f.name] = Appended(@, z)]
              /\ fil' = [fil EXCEPT ![l].off = @ + z.len, ![l].index = index]
              /\ boff' = [boff EXCEPT ![l] = @ + z.len]
              /\ acked' = acked \union {<<f.name, ev.n>>}
              /\ pc' = "idle"
              /\ UNCHANGED <<faults, dirty>>
           \/ /\ Fail
              /\ \E k \in 0..z.len - 1 : disk' = [disk EXCEPT ![f.name] = Torn(@, k)]
              /\ fil' = [fil EXCEPT ![l].index = index]
              /\ UNCHANGED <<boff, acked>>
  /\ UNCHANGED <<ev, subscribers, events, reused>>

(* What a write that nobody answers for leaves of a file: a part of the    *)
(* chunk, or the chunk, when the process dies before Write returns.        *)
LeftOf(d, z) == {Torn(d, k) : k \in 0..z.len - 1} \union {Appended(d, z)}

(* The process dies, possibly within a write, and a new Agent is created.  *)
Restart ==
  /\ Fault
  /\ fil' = [l \in LabelSets |-> None]
  /\ hist' = [l \in LabelSets |-> << >>]
  /\ boff' = [l \in LabelSets |-> 0]
  /\ pc' = "idle" /\ subid' = 0 /\ subs' = << >> /\ subscribed' = {}
  /\ \/ pc # "write" /\ UNCHANGED disk
     \/ /\ pc = "write"
        /\ LET x == fil[ev.l].name
           IN  \E left \in LeftOf(disk[x], Sent(ev.l)) : disk' = [disk EXCEPT ![x] = left]
  /\ UNCHANGED <<ev, zbuf, events, history>>

-----------------------------------------------------------------------------
Subscribe ==
  /\ pc = "idle" /\ subid < MaxSubs /\ events + subid < MaxCalls
  /\ subid' = subid + 1
  /\ subs' = Append(subs, subid')
  /\ subscribed' = subscribed \union {subid'}
  /\ UNCHANGED <<disk, streams, pc, ev, zbuf, events, faults, history>>

(* Mutant: the scan passes the id asked for. *)
PositionPast(id) ==
  CHOOSE i \in 1..Len(subs) + 1 :
    /\ \A j \in 1..i - 1 : subs[j] <= id
    /\ i > Len(subs) \/ subs[i] > id

(* The scan stops at the first subscription that is not below id. *)
Position(id) ==
  CHOOSE i \in 1..Len(subs) + 1 :
    /\ \A j \in 1..i - 1 : subs[j] < id
    /\ i > Len(subs) \/ subs[i] >= id

(* Unsubscribe; ErrUnknownSubscription changes nothing. *)
Unsubscribe(id) ==
  /\ pc = "idle" /\ id <= subid
  /\ LET i == Position(id) IN
       subs' = IF i <= Len(subs) /\ subs[i] = id THEN RemoveAt(subs, i) ELSE subs
  /\ subscribed' = subscribed \ {id}
  /\ UNCHANGED <<disk, streams, pc, ev, zbuf, subid, events, faults, history>>

(* All calls are made: only the bound stops the agent. *)
Terminated == pc = "idle" /\ events + subid >= MaxCalls /\ UNCHANGED vars

Next ==
  \/ \E l \in LabelSets, ts \in Stamps, len \in Lens : Receive(l, ts, len)
  \/ NewFile \/ Block \/ Store \/ Restart
  \/ Subscribe \/ \E id \in 1..MaxSubs : Unsubscribe(id)
  \/ Terminated

Spec == Init /\ [][Next]_vars

-----------------------------------------------------------------------------
ChunkType == [n : 1..MaxEvents, hist : Seq(1..MaxEvents), off : Nat, len : Nat]
FileType == [name : Names, part : Nat, off : Nat, index : Seq([off : Nat, ts : Stamps])]

TypeOK ==
  /\ DOMAIN disk \subseteq Names
  /\ \A x \in DOMAIN disk : disk[x] \in [size : Nat, chunks : Seq(ChunkType)]
  /\ \A l \in LabelSets : fil[l] = None \/ (fil[l] \in FileType /\ fil[l].name \in DOMAIN disk)
  /\ hist \in [LabelSets -> Seq(1..MaxEvents)]
  /\ boff \in [LabelSets -> Nat]
  /\ pc \in {"idle", "newfile", "block", "write"}
  /\ zbuf \in [len : Nat, hist : Seq(1..MaxEvents)] /\ events \in 0..MaxEvents /\ faults \in 0..MaxFaults
  /\ subid \in 0..MaxSubs /\ subs \in Seq(1..MaxSubs)

ASSUME NoneAssumption == None \notin FileType

(* A file that was opened once and saw no failure while it was written.    *)
Clean == DOMAIN disk \ (dirty \union reused)

(* Every payload reported as written stays in the file it was written to,  *)
(* padding never cuts it off, although padFile truncates to an offset the  *)
(* Agent keeps by itself and never reads from the file.                    *)
AckedKept ==
  \A a \in acked : a[1] \in Clean =>
    \E c \in Range(disk[a[1]].chunks) : c.n = a[2]

(* Every chunk can be read: what the encoder refers back to is what is in  *)
(* front of the chunk since the last reset.                                *)
LastReset(cs, i, j) == /\ cs[j].hist = << >>
                       /\ \A k \in j + 1..i : cs[k].hist # << >>
ReadsBack(cs, i) ==
  \E j \in 1..i : /\ LastReset(cs, i, j)
                  /\ cs[i].hist = [k \in 1..i - j |-> cs[j + k - 1].n]
Decodable ==
  \A x \in Clean : \A i \in DOMAIN disk[x].chunks : ReadsBack(disk[x].chunks, i)

(* Blocks can be read on their own: a reset chunk is at the start of a     *)
(* block, and a chunk that refers back ends in the block of its reset.     *)
StandsAlone(cs, i) ==
  IF cs[i].hist = << >> THEN cs[i].off % BlockSize = 0
  ELSE \E j \in 1..i : /\ LastReset(cs, i, j)
                       /\ cs[i].off + cs[i].len <= cs[j].off + BlockSize
BlocksAlone ==
  \A x \in Clean : \A i \in DOMAIN disk[x].chunks : StandsAlone(disk[x].chunks, i)

(* The subscriptions are the ones made and not cancelled: the scan and the *)
(* shift of Unsubscribe remove the asked one only, which needs the ids in  *)
(* order.                                                                  *)
SubscriptionsKept == Range(subs) = subscribed /\ Len(subs) = Cardinality(subscribed)

(* Agent implements EventStore: of a file that is not spoiled, what can be *)
(* read back grows by the payload that is written, which is one no file    *)
(* has; it is acknowledged in the same step, unless the process dies       *)
(* between the two.  Padding, resets and other streams leave it alone.  A  *)
(* file is read from the front, up to a chunk that cannot be.              *)
Readable(cs) ==
  LET n == CHOOSE n \in 0..Len(cs) :
             \A i \in DOMAIN cs : i <= n <=> \A j \in 1..i : ReadsBack(cs, j)
  IN [i \in 1..n |-> cs[i].n]

S == INSTANCE EventStore WITH
       Files <- Names, Payloads <- 1..MaxEvents,
       kept <- [x \in Clean |-> Readable(disk[x].chunks)],
       answered <- {a[2] : a \in {b \in acked : b[1] \in Clean}},
       spoiled <- dirty \union reused

ImplementsEventStore == S!Spec
=============================================================================
