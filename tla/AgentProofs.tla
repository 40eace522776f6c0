---------------------------- MODULE AgentProofs ----------------------------
(***************************************************************************)
(* What is proved of Agent, for every set of labels, every checksum, all   *)
(* sizes of payloads, files and blocks, and any number of payloads,        *)
(* failures and restarts: acknowledged payloads stay in their files, every *)
(* chunk of a file that is not spoiled can be decoded, its blocks can be   *)
(* read on their own, a cancellation removes the subscription asked for,   *)
(* and the Agent implements EventStore.                                    *)
(*                                                                         *)
(* The argument ties three places: the encoder of a stream has seen what   *)
(* is in the file since its last reset (InBlock), the offset of a stream   *)
(* is the end of its file, and no two streams write one file (Apart), all  *)
(* of it for the files that are opened once and saw no failure.            *)
(***************************************************************************)
EXTENDS Agent, SequenceTheorems, FiniteSetTheorems, WellFoundedInduction, TLAPS

(* What an encoder has seen that was reset at chunk j and saw all of cs. *)
Context(cs, j) == [k \in 1..Len(cs) - j + 1 |-> cs[j + k - 1].n]

(* The encoder is in step with the file: it has seen the chunks since the  *)
(* last reset, boff bytes in front of off.                                 *)
InBlock(cs, off, b, h) ==
  /\ b > 0
  /\ \E j \in 1..Len(cs) : /\ LastReset(cs, Len(cs), j) /\ h = Context(cs, j)
                           /\ b = off - cs[j].off

(* The encoder has just been reset. *)
AtReset(off, b, h) == b = 0 /\ h = << >> /\ off % BlockSize = 0

(* The payload is encoded behind the chunks of the file, and not stored. *)
Pending(cs, off, b, h, z, e) ==
  InBlock(cs, off, b, z.hist) /\ h = Append(z.hist, e.n) /\ z.len = e.len

ChunksInv(cs, size) ==
  /\ size \in Nat /\ cs \in Seq(ChunkType)
  /\ \A i \in DOMAIN cs : /\ cs[i].len > 0 /\ cs[i].off + cs[i].len <= size
                          /\ ReadsBack(cs, i) /\ StandsAlone(cs, i)
  /\ \A i, j \in DOMAIN cs : i < j => cs[i].n < cs[j].n

Writing == pc # "idle"

FileInv(x) ==
  /\ disk[x] \in [size : Nat, chunks : Seq(ChunkType)]
  /\ ChunksInv(disk[x].chunks, disk[x].size)
  /\ \A i \in DOMAIN disk[x].chunks : /\ disk[x].chunks[i].n <= events
                                      /\ Writing => disk[x].chunks[i].n < ev.n

(* A payload is in one file at most. *)
OneFile ==
  \A x, y \in Clean : \A i \in DOMAIN disk[x].chunks, j \in DOMAIN disk[y].chunks :
    disk[x].chunks[i].n = disk[y].chunks[j].n => x = y

InUse(l) == fil[l] # None /\ fil[l].name \in Clean
StreamInv(l) ==
  LET cs == disk[fil[l].name].chunks IN
  /\ disk[fil[l].name].size = fil[l].off
  /\ pc = "idle" \/ l # ev.l => InBlock(cs, fil[l].off, boff[l], hist[l])
  /\ l = ev.l /\ pc = "block" =>
       AtReset(fil[l].off, boff[l], hist[l]) \/ Pending(cs, fil[l].off, boff[l], hist[l], zbuf, ev)
  /\ l = ev.l /\ pc = "write" =>
       \/ AtReset(fil[l].off, boff[l], hist[l])
       \/ Pending(cs, fil[l].off, boff[l], hist[l], zbuf, ev) /\ boff[l] + zbuf.len <= BlockSize

Apart == \A l, m \in LabelSets : InUse(l) /\ InUse(m) /\ fil[l].name = fil[m].name => l = m

AckInv ==
  /\ dirty \union reused \subseteq DOMAIN disk
  /\ \A a \in acked : a[1] \in DOMAIN disk /\ a[2] <= events /\ (Writing => a[2] < ev.n)
  /\ AckedKept

(* What is being written. *)
WriteType ==
  Writing => /\ ev \in [n : 1..MaxEvents, l : LabelSets, ts : Stamps, len : Lens]
             /\ ev.n = events
             /\ zbuf \in [len : Nat, hist : Seq(1..MaxEvents)]

AgentType ==
  /\ events \in 0..MaxEvents
  /\ DOMAIN disk \subseteq Names
  /\ fil \in [LabelSets -> FileType \union {None}]
  /\ \A l \in LabelSets : fil[l] # None => fil[l].name \in DOMAIN disk
  /\ hist \in [LabelSets -> Seq(1..MaxEvents)]
  /\ boff \in [LabelSets -> Int]
  /\ pc \in {"idle", "newfile", "block", "write"}
  /\ acked \subseteq Names \X (1..MaxEvents)
  /\ WriteType
  /\ pc \in {"block", "write"} => fil[ev.l] # None

Files == \A x \in Clean : FileInv(x)
Streams == \A l \in LabelSets : InUse(l) => StreamInv(l)

IInv == AgentType /\ AckInv /\ Apart /\ Streams /\ Files /\ OneFile

-----------------------------------------------------------------------------
(* Sequences of chunks. *)

LEMMA FunctionIsSeq ==
  ASSUME NEW n \in Nat, NEW T, NEW f \in [1..n -> T]
  PROVE  f \in Seq(T)
OBVIOUS

LEMMA ContextSeq ==
  ASSUME NEW cs \in Seq(ChunkType), NEW j \in 1..Len(cs)
  PROVE  /\ Context(cs, j) \in Seq(1..MaxEvents) /\ Len(Context(cs, j)) = Len(cs) - j + 1
         /\ Context(cs, j) # << >>
<1>1. \A i \in 1..Len(cs) : cs[i].n \in 1..MaxEvents
  <2>1. \A i \in 1..Len(cs) : cs[i] \in ChunkType
    BY ElementOfSeq
  <2> QED BY <2>1 DEF ChunkType
<1>2. Len(cs) \in Nat
  BY LenProperties
<1>3. Len(cs) - j + 1 \in Nat /\ Len(cs) - j + 1 >= 1
  BY <1>2
<1>4. \A k \in 1..Len(cs) - j + 1 : j + k - 1 \in 1..Len(cs)
  BY <1>2
<1>5. Context(cs, j) \in [1..Len(cs) - j + 1 -> 1..MaxEvents]
  BY <1>1, <1>4 DEF Context
<1>6. Context(cs, j) \in Seq(1..MaxEvents)
  BY <1>3, <1>5, FunctionIsSeq
<1>7. DOMAIN Context(cs, j) = 1..Len(cs) - j + 1
  BY DEF Context
<1>8. Len(Context(cs, j)) = Len(cs) - j + 1
  BY <1>3, <1>6, <1>7, LenProperties
<1>9. ASSUME Context(cs, j) = << >> PROVE FALSE
  <2>1. Len(Context(cs, j)) = 0
    BY <1>9
  <2> HIDE <1>9
  <2> QED BY <1>3, <1>8, <2>1
<1> QED BY <1>6, <1>8, <1>9

(* What is true of a chunk depends on the chunks up to it only. *)
LEMMA PrefixDecides ==
  ASSUME NEW cs \in Seq(ChunkType), NEW ds \in Seq(ChunkType), NEW i \in 1..Len(cs),
         Len(cs) <= Len(ds), \A k \in 1..i : ds[k] = cs[k]
  PROVE  /\ ReadsBack(cs, i) => ReadsBack(ds, i)
         /\ StandsAlone(cs, i) => StandsAlone(ds, i)
<1>1. Len(cs) \in Nat /\ i \in Nat /\ i >= 1
  BY LenProperties
<1>2. ASSUME NEW j \in 1..i, LastReset(cs, i, j) PROVE LastReset(ds, i, j)
  BY <1>1, <1>2 DEF LastReset
<1>3. ASSUME ReadsBack(cs, i) PROVE ReadsBack(ds, i)
  <2>1. PICK j \in 1..i : LastReset(cs, i, j) /\ cs[i].hist = [k \in 1..i - j |-> cs[j + k - 1].n]
    BY <1>3 DEF ReadsBack
  <2>2. \A k \in 1..i - j : ds[j + k - 1] = cs[j + k - 1]
    BY <1>1, <2>1
  <2>3. ds[i].hist = [k \in 1..i - j |-> ds[j + k - 1].n]
    <3>1. [k \in 1..i - j |-> ds[j + k - 1].n] = [k \in 1..i - j |-> cs[j + k - 1].n]
      BY <2>2
    <3>2. ds[i] = cs[i]
      BY <1>1
    <3> QED BY <2>1, <3>1, <3>2
  <2> QED BY <1>2, <2>1, <2>3 DEF ReadsBack
<1>4. ASSUME StandsAlone(cs, i) PROVE StandsAlone(ds, i)
  <2>1. ds[i] = cs[i]
    BY <1>1
  <2>2. CASE cs[i].hist = << >>
    BY <1>4, <2>1, <2>2 DEF StandsAlone
  <2>3. CASE cs[i].hist # << >>
    <3>1. PICK j \in 1..i : LastReset(cs, i, j) /\ cs[i].off + cs[i].len <= cs[j].off + BlockSize
      BY <1>4, <2>3 DEF StandsAlone
    <3>2. ds[j] = cs[j]
      BY <1>1
    <3> QED BY <1>2, <2>1, <2>3, <3>1, <3>2 DEF StandsAlone
  <2> QED BY <2>2, <2>3
<1> QED BY <1>3, <1>4

(* A file and the chunk appended to it. *)
Follows(cs, size, c) ==
  \/ c.hist = << >> /\ size % BlockSize = 0
  \/ \E j \in 1..Len(cs) : /\ LastReset(cs, Len(cs), j) /\ c.hist = Context(cs, j)
                           /\ size + c.len <= cs[j].off + BlockSize

LEMMA LastResetGrows ==
  ASSUME NEW cs \in Seq(ChunkType), NEW c \in ChunkType, NEW j \in 1..Len(cs),
         LastReset(cs, Len(cs), j), c.hist = Context(cs, j)
  PROVE  /\ LastReset(Append(cs, c), Len(cs) + 1, j)
         /\ Context(Append(cs, c), j) = Append(Context(cs, j), c.n)
         /\ c.hist = [k \in 1..Len(cs) + 1 - j |-> Append(cs, c)[j + k - 1].n]
<1> DEFINE ds == Append(cs, c)
<1>1. /\ ds \in Seq(ChunkType) /\ Len(ds) = Len(cs) + 1 /\ ds[Len(cs) + 1] = c
      /\ \A k \in 1..Len(cs) : ds[k] = cs[k]
  BY AppendProperties
<1>2. Len(cs) \in Nat
  BY LenProperties
<1>3. c.hist # << >>
  BY ContextSeq
<1> HIDE DEF ds
<1>4. LastReset(ds, Len(cs) + 1, j)
  BY <1>1, <1>2, <1>3 DEF LastReset
<1>5. \A k \in 1..Len(cs) - j + 1 : ds[j + k - 1] = cs[j + k - 1]
  BY <1>1, <1>2
<1>6. c.hist = [k \in 1..Len(cs) + 1 - j |-> ds[j + k - 1].n]
  <2>1. Len(cs) + 1 - j = Len(cs) - j + 1
    BY <1>2
  <2> QED BY <1>5, <2>1 DEF Context
<1>7. Context(ds, j) = Append(Context(cs, j), c.n)
  <2>1. /\ Context(cs, j) \in Seq(1..MaxEvents) /\ Len(Context(cs, j)) = Len(cs) - j + 1
    BY ContextSeq
  <2>2. /\ Context(ds, j) \in Seq(1..MaxEvents) /\ Len(Context(ds, j)) = Len(cs) - j + 2
    <3>1. j \in 1..Len(ds)
      BY <1>1, <1>2
    <3> QED BY <1>1, <1>2, <3>1, ContextSeq
  <2>3. c.n \in 1..MaxEvents
    BY DEF ChunkType
  <2>4. /\ Append(Context(cs, j), c.n) \in Seq(1..MaxEvents)
        /\ Len(Append(Context(cs, j), c.n)) = Len(cs) - j + 2
        /\ \A k \in 1..Len(cs) - j + 1 : Append(Context(cs, j), c.n)[k] = Context(cs, j)[k]
        /\ Append(Context(cs, j), c.n)[Len(cs) - j + 2] = c.n
    <3>1. Len(cs) - j + 1 + 1 = Len(cs) - j + 2
      BY <1>2
    <3> QED BY <2>1, <2>3, <3>1, AppendProperties
  <2>5. ASSUME NEW k \in 1..Len(cs) - j + 2
        PROVE  Context(ds, j)[k] = Append(Context(cs, j), c.n)[k]
    <3>1. Context(ds, j)[k] = ds[j + k - 1].n
      <4>1. k \in 1..Len(ds) - j + 1
        BY <1>1, <1>2
      <4> QED BY <4>1 DEF Context
    <3>2. CASE k = Len(cs) - j + 2
      <4>1. j + k - 1 = Len(cs) + 1
        BY <1>2, <3>2
      <4> QED BY <1>1, <2>4, <3>1, <3>2, <4>1
    <3>3. CASE k \in 1..Len(cs) - j + 1
      <4>1. Context(cs, j)[k] = cs[j + k - 1].n
        BY <3>3 DEF Context
      <4> QED BY <1>5, <2>4, <3>1, <3>3, <4>1
    <3>4. k = Len(cs) - j + 2 \/ k \in 1..Len(cs) - j + 1
      BY <1>2
    <3> QED BY <3>2, <3>3, <3>4
  <2> QED BY <2>2, <2>4, <2>5, SeqEqual
<1> QED BY <1>4, <1>6, <1>7 DEF ds

LEMMA ChunksGrow ==
  ASSUME NEW cs, NEW size, NEW c \in ChunkType, ChunksInv(cs, size), c.len > 0, c.off = size,
         \A i \in DOMAIN cs : cs[i].n < c.n, Follows(cs, size, c),
         BlockSize \in Nat \ {0}
  PROVE  ChunksInv(Append(cs, c), size + c.len)
<1> DEFINE ds == Append(cs, c)
<1>1. /\ size \in Nat /\ cs \in Seq(ChunkType)
      /\ \A i \in DOMAIN cs : /\ cs[i].len > 0 /\ cs[i].off + cs[i].len <= size
                              /\ ReadsBack(cs, i) /\ StandsAlone(cs, i)
      /\ \A i, j \in DOMAIN cs : i < j => cs[i].n < cs[j].n
  BY DEF ChunksInv
<1>2. /\ ds \in Seq(ChunkType) /\ Len(ds) = Len(cs) + 1 /\ ds[Len(cs) + 1] = c
      /\ \A k \in 1..Len(cs) : ds[k] = cs[k]
  BY <1>1, AppendProperties
<1>3. Len(cs) \in Nat /\ DOMAIN cs = 1..Len(cs) /\ DOMAIN ds = 1..Len(cs) + 1
  BY <1>1, <1>2, LenProperties
<1>4. c.len \in Nat /\ c.off \in Nat /\ c.n \in Int
  BY DEF ChunkType
<1>5. \A i \in 1..Len(cs) : cs[i].off \in Nat /\ cs[i].len \in Nat /\ cs[i].n \in Int
  <2>1. \A i \in 1..Len(cs) : cs[i] \in ChunkType
    BY <1>1, ElementOfSeq
  <2> QED BY <2>1 DEF ChunkType
<1> HIDE DEF ds
<1>6. ASSUME NEW i \in 1..Len(cs) PROVE ReadsBack(ds, i) /\ StandsAlone(ds, i)
  BY <1>1, <1>2, <1>3, PrefixDecides
<1>7. ReadsBack(ds, Len(cs) + 1) /\ StandsAlone(ds, Len(cs) + 1)
  <2>1. CASE c.hist = << >> /\ size % BlockSize = 0
    <3>1. LastReset(ds, Len(cs) + 1, Len(cs) + 1)
      BY <1>2, <1>3, <2>1 DEF LastReset
    <3>2. c.hist = [k \in 1..Len(cs) + 1 - (Len(cs) + 1) |-> ds[(Len(cs) + 1) + k - 1].n]
      <4>1. 1..Len(cs) + 1 - (Len(cs) + 1) = {}
        BY <1>3
      <4> QED BY <2>1, <4>1
    <3>3. ReadsBack(ds, Len(cs) + 1)
      BY <1>2, <1>3, <3>1, <3>2 DEF ReadsBack
    <3> QED BY <1>2, <2>1, <3>3 DEF StandsAlone
  <2>2. CASE \E j \in 1..Len(cs) : /\ LastReset(cs, Len(cs), j) /\ c.hist = Context(cs, j)
                                   /\ size + c.len <= cs[j].off + BlockSize
    <3>1. PICK j \in 1..Len(cs) : /\ LastReset(cs, Len(cs), j) /\ c.hist = Context(cs, j)
                                  /\ size + c.len <= cs[j].off + BlockSize
      BY <2>2
    <3>2. /\ LastReset(ds, Len(cs) + 1, j)
          /\ c.hist = [k \in 1..Len(cs) + 1 - j |-> ds[j + k - 1].n]
      BY <1>1, <3>1, LastResetGrows DEF ds
    <3>3. c.hist # << >>
      BY <1>1, <3>1, ContextSeq
    <3>4. j \in 1..Len(cs) + 1 /\ ds[j] = cs[j]
      BY <1>2, <1>3
    <3>5. ReadsBack(ds, Len(cs) + 1)
      BY <1>2, <3>2, <3>4 DEF ReadsBack
    <3>6. StandsAlone(ds, Len(cs) + 1)
      <4>1. ds[Len(cs) + 1].off + ds[Len(cs) + 1].len <= ds[j].off + BlockSize
        BY <1>2, <3>1, <3>4
      <4>2. ds[Len(cs) + 1].hist # << >>
        BY <1>2, <3>3
      <4> QED BY <3>2, <3>4, <4>1, <4>2 DEF StandsAlone
    <3> QED BY <3>5, <3>6
  <2> QED BY <2>1, <2>2 DEF Follows
<1>8. \A i \in DOMAIN ds : /\ ds[i].len > 0 /\ ds[i].off + ds[i].len <= size + c.len
                           /\ ReadsBack(ds, i) /\ StandsAlone(ds, i)
  <2> SUFFICES ASSUME NEW i \in DOMAIN ds
               PROVE  /\ ds[i].len > 0 /\ ds[i].off + ds[i].len <= size + c.len
                      /\ ReadsBack(ds, i) /\ StandsAlone(ds, i)
    OBVIOUS
  <2>1. CASE i = Len(cs) + 1
    <3>1. c.off + c.len <= size + c.len
      BY <1>4
    <3> QED BY <1>2, <1>7, <2>1, <3>1
  <2>2. CASE i \in 1..Len(cs)
    <3>1. cs[i].off + cs[i].len <= size + c.len
      BY <1>1, <1>3, <1>4, <1>5, <2>2
    <3> QED BY <1>1, <1>2, <1>3, <1>6, <2>2, <3>1
  <2> QED BY <1>3, <2>1, <2>2
<1>9. \A i, j \in DOMAIN ds : i < j => ds[i].n < ds[j].n
  BY <1>1, <1>2, <1>3, <1>4, <1>5
<1> QED BY <1>1, <1>2, <1>4, <1>8, <1>9 DEF ChunksInv, ds

(* Afterwards the encoder is in step with the file again. *)
LEMMA ResetStored ==
  ASSUME NEW cs \in Seq(ChunkType), NEW c \in ChunkType, c.hist = << >>, c.len > 0
  PROVE  InBlock(Append(cs, c), c.off + c.len, c.len, <<c.n>>)
<1> DEFINE ds == Append(cs, c)
<1>1. ds \in Seq(ChunkType) /\ Len(ds) = Len(cs) + 1 /\ ds[Len(cs) + 1] = c
  BY AppendProperties
<1>2. Len(cs) \in Nat /\ c.off \in Nat /\ c.len \in Nat /\ c.n \in 1..MaxEvents
  BY LenProperties DEF ChunkType
<1> HIDE DEF ds
<1>3. LastReset(ds, Len(ds), Len(ds))
  BY <1>1, <1>2 DEF LastReset
<1>4. <<c.n>> = Context(ds, Len(ds))
  <2>1. Len(ds) - Len(ds) + 1 = 1
    BY <1>1, <1>2
  <2>2. Context(ds, Len(ds)) \in Seq(1..MaxEvents) /\ Len(Context(ds, Len(ds))) = 1
    <3>1. Len(ds) \in 1..Len(ds)
      BY <1>1, <1>2
    <3> QED BY <1>1, <2>1, <3>1, ContextSeq
  <2>3. Context(ds, Len(ds))[1] = c.n
    <3>1. Len(ds) + 1 - 1 = Len(cs) + 1
      BY <1>1, <1>2
    <3> QED BY <1>1, <2>1, <3>1 DEF Context
  <2> QED BY <1>2, <2>2, <2>3
<1>5. c.len = (c.off + c.len) - ds[Len(ds)].off
  BY <1>1, <1>2
<1>6. Len(ds) \in 1..Len(ds)
  BY <1>1, <1>2
<1> QED BY <1>3, <1>4, <1>5, <1>6 DEF InBlock, ds

LEMMA NextStored ==
  ASSUME NEW cs \in Seq(ChunkType), NEW c \in ChunkType, NEW off \in Nat, NEW b \in Int,
         InBlock(cs, off, b, c.hist)
  PROVE  InBlock(Append(cs, c), off + c.len, b + c.len, Append(c.hist, c.n))
<1> DEFINE ds == Append(cs, c)
<1>1. /\ ds \in Seq(ChunkType) /\ Len(ds) = Len(cs) + 1
      /\ \A k \in 1..Len(cs) : ds[k] = cs[k]
  BY AppendProperties
<1>2. Len(cs) \in Nat /\ c.len \in Nat
  BY LenProperties DEF ChunkType
<1>3. PICK j \in 1..Len(cs) : /\ LastReset(cs, Len(cs), j) /\ c.hist = Context(cs, j)
                              /\ b = off - cs[j].off
  BY DEF InBlock
<1>4. LastReset(ds, Len(ds), j) /\ Append(c.hist, c.n) = Context(ds, j)
  <2>1. /\ LastReset(ds, Len(cs) + 1, j)
        /\ Context(ds, j) = Append(Context(cs, j), c.n)
    BY <1>3, LastResetGrows DEF ds
  <2> QED BY <1>1, <1>3, <2>1
<1>5. cs[j].off \in Nat
  <2>1. cs[j] \in ChunkType
    BY ElementOfSeq
  <2> QED BY <2>1 DEF ChunkType
<1>6. b + c.len = (off + c.len) - ds[j].off /\ b + c.len > 0
  <2>1. ds[j].off = cs[j].off /\ b = off - cs[j].off /\ b > 0
    BY <1>1, <1>3 DEF InBlock
  <2>2. \A o, n \in Nat : b = off - o => b + n = (off + n) - o /\ (b > 0 => b + n > 0)
    OBVIOUS
  <2> QED BY <1>2, <1>5, <2>1, <2>2
<1>7. j \in 1..Len(ds)
  BY <1>1, <1>2
<1> QED BY <1>4, <1>6, <1>7 DEF InBlock

LEMMA PaddedIsAligned ==
  ASSUME NEW x \in Nat, NEW B \in Nat \ {0}
  PROVE  /\ x + B - (x % B) \in Nat /\ x + B - (x % B) >= x
         /\ (x + B - (x % B)) % B = 0
<1>1. x % B \in Nat /\ x % B < B
  OBVIOUS
<1>2. x = B * (x \div B) + (x % B) /\ x \div B \in Int
  OBVIOUS
<1>3. x + B - (x % B) = B * ((x \div B) + 1)
  BY <1>1, <1>2
<1>4. \A k \in Int : (B * k) % B = 0
  OBVIOUS
<1> QED BY <1>1, <1>2, <1>3, <1>4

-----------------------------------------------------------------------------
(* The invariant, step by step. *)

LEMMA InitInv == Init => IInv
<1> SUFFICES ASSUME Init PROVE IInv
  OBVIOUS
<1>1. Clean = {} /\ \A l \in LabelSets : ~InUse(l)
  BY DEF Init, Clean, InUse
<1>2. AgentType
  BY SizesAssumption DEF Init, AgentType, WriteType, Writing
<1>3. AckInv
  BY <1>1 DEF Init, AckInv, AckedKept, Writing
<1> QED BY <1>1, <1>2, <1>3 DEF IInv, Apart, Streams, Files, OneFile

(* The files that are left alone. *)
LEMMA FilesKept ==
  ASSUME OneFile, Clean' \subseteq Clean, \A x \in Clean' : disk'[x].chunks = disk[x].chunks
  PROVE  OneFile'
<1> SUFFICES ASSUME NEW x \in Clean', NEW y \in Clean',
                    NEW i \in DOMAIN disk'[x].chunks, NEW j \in DOMAIN disk'[y].chunks,
                    disk'[x].chunks[i].n = disk'[y].chunks[j].n
             PROVE  x = y
  BY DEF OneFile
<1>1. disk'[x].chunks = disk[x].chunks /\ disk'[y].chunks = disk[y].chunks
  OBVIOUS
<1> QED BY <1>1 DEF OneFile

LEMMA ChunkNumbers ==
  ASSUME NEW x, FileInv(x)
  PROVE  \A i \in DOMAIN disk[x].chunks : disk[x].chunks[i].n \in Int
<1>1. disk[x].chunks \in Seq(ChunkType) /\ DOMAIN disk[x].chunks = 1..Len(disk[x].chunks)
  BY LenProperties DEF FileInv, ChunksInv
<1>2. \A c \in ChunkType : c.n \in Int
  BY DEF ChunkType
<1>3. \A i \in 1..Len(disk[x].chunks) : disk[x].chunks[i] \in ChunkType
  BY <1>1, ElementOfSeq
<1> QED BY <1>1, <1>2, <1>3

LEMMA ReceiveInv ==
  ASSUME IInv, NEW m \in LabelSets, NEW ts \in Stamps, NEW len \in Lens, Receive(m, ts, len)
  PROVE  IInv'
<1>1. /\ pc = "idle" /\ events < MaxEvents /\ events' = events + 1
      /\ ev' = [n |-> events + 1, l |-> m, ts |-> ts, len |-> len]
      /\ zbuf' = Encoded(ev', hist[m])
      /\ hist' = [hist EXCEPT ![m] = Append(@, events + 1)]
      /\ pc' \in {"newfile", "block"}
      /\ fil[m] = None => pc' = "newfile"
      /\ UNCHANGED <<disk, fil, boff, acked, dirty, reused>>
  BY DEF Receive, history
<1>2. AgentType /\ AckInv /\ Apart /\ Streams /\ Files /\ OneFile
  BY DEF IInv
<1>3. Clean' = Clean /\ \A l \in LabelSets : InUse(l)' <=> InUse(l)
  BY <1>1 DEF Clean, InUse
<1>4. events \in Nat /\ events + 1 \in 1..MaxEvents /\ MaxEvents \in Nat
  BY <1>1, <1>2, SizesAssumption DEF AgentType
<1>5. hist[m] \in Seq(1..MaxEvents) /\ Append(hist[m], events + 1) \in Seq(1..MaxEvents)
  <2>1. hist[m] \in Seq(1..MaxEvents)
    BY <1>2 DEF AgentType
  <2> QED BY <1>4, <2>1, AppendProperties
<1>6. /\ zbuf' \in [len : Nat, hist : Seq(1..MaxEvents)]
      /\ zbuf'.hist = hist[m] /\ (hist[m] # << >> => zbuf'.len = len)
  BY <1>1, <1>5, SizesAssumption DEF Encoded
<1>7. AgentType'
  <2>1. hist' \in [LabelSets -> Seq(1..MaxEvents)]
    BY <1>1, <1>2, <1>5 DEF AgentType
  <2>2. /\ ev' \in [n : 1..MaxEvents, l : LabelSets, ts : Stamps, len : Lens]
        /\ ev'.n = events'
    BY <1>1, <1>4
  <2>3. WriteType'
    BY <1>6, <2>2 DEF WriteType
  <2>4. pc' \in {"block", "write"} => fil'[ev'.l] # None
    BY <1>1
  <2>5. events' \in 0..MaxEvents
    BY <1>1, <1>4
  <2> QED BY <1>1, <1>2, <2>1, <2>3, <2>4, <2>5 DEF AgentType
<1>8. AckInv'
  <2>1. ev'.n = events + 1
    BY <1>1
  <2>2. \A a \in acked : a[2] \in Int
    BY <1>2 DEF AgentType
  <2>3. AckedKept'
    BY <1>1, <1>2, <1>3 DEF AckInv, AckedKept
  <2>4. \A a \in acked' : a[1] \in DOMAIN disk' /\ a[2] <= events' /\ (Writing' => a[2] < ev'.n)
    BY <1>1, <1>2, <1>4, <2>1, <2>2 DEF AckInv
  <2> QED BY <1>1, <1>2, <2>3, <2>4 DEF AckInv
<1>9. Apart'
  BY <1>1, <1>2, <1>3 DEF Apart
<1>10. Files'
  <2> SUFFICES ASSUME NEW x \in Clean PROVE FileInv(x)'
    BY <1>3 DEF Files
  <2>1. FileInv(x) /\ \A i \in DOMAIN disk[x].chunks : disk[x].chunks[i].n \in Int
    BY <1>2, ChunkNumbers DEF Files
  <2>2. \A i \in DOMAIN disk[x].chunks : /\ disk[x].chunks[i].n <= events'
                                         /\ Writing' => disk[x].chunks[i].n < ev'.n
    BY <1>1, <1>4, <2>1 DEF FileInv
  <2> QED BY <1>1, <2>1, <2>2 DEF FileInv
<1>11. Streams'
  <2> SUFFICES ASSUME NEW l \in LabelSets, InUse(l)' PROVE StreamInv(l)'
    BY DEF Streams
  <2>1. StreamInv(l) /\ FileInv(fil[l].name)
    BY <1>2, <1>3 DEF Streams, Files, InUse
  <2> DEFINE cs == disk[fil[l].name].chunks
  <2>2. cs \in Seq(ChunkType)
    BY <2>1 DEF FileInv, ChunksInv
  <2>3. disk[fil[l].name].size = fil[l].off /\ InBlock(cs, fil[l].off, boff[l], hist[l])
    BY <1>1, <2>1 DEF StreamInv
  <2>4. CASE l # m
    <3>1. l # ev'.l /\ hist'[l] = hist[l]
      BY <1>1, <1>2, <2>4 DEF AgentType
    <3> QED BY <1>1, <2>3, <3>1 DEF StreamInv
  <2>5. CASE l = m
    <3>1. hist[m] # << >>
      <4>1. PICK j \in 1..Len(cs) : hist[l] = Context(cs, j)
        BY <2>3 DEF InBlock
      <4> QED BY <2>2, <2>5, <4>1, ContextSeq
    <3>2. hist'[l] = Append(zbuf'.hist, ev'.n) /\ zbuf'.len = ev'.len /\ l = ev'.l
      BY <1>1, <1>2, <1>6, <2>5, <3>1 DEF AgentType
    <3>3. Pending(cs, fil[l].off, boff[l], hist'[l], zbuf', ev')
      BY <1>6, <2>3, <2>5, <3>2 DEF Pending
    <3> QED BY <1>1, <2>3, <3>2, <3>3 DEF StreamInv
  <2> QED BY <2>4, <2>5
<1>12. OneFile'
  BY <1>1, <1>2, <1>3, FilesKept
<1> QED BY <1>7, <1>8, <1>9, <1>10, <1>11, <1>12 DEF IInv

(* A step that fails spoils the file written to; nothing is claimed of it  *)
(* any more, and the other streams do not use it.                          *)
FailTouches ==
  /\ pc' = "idle" /\ Dirty(ev.l) /\ UNCHANGED <<events, reused, acked, boff>>
  /\ DOMAIN disk' = DOMAIN disk
  /\ \A x \in DOMAIN disk : fil[ev.l] = None \/ x # fil[ev.l].name => disk'[x] = disk[x]
  /\ \A l \in LabelSets \ {ev.l} : fil'[l] = fil[l] /\ hist'[l] = hist[l]
  /\ fil' \in [LabelSets -> FileType \union {None}]
  /\ fil[ev.l] = None => fil'[ev.l] = None
  /\ fil[ev.l] # None => fil'[ev.l] # None /\ fil'[ev.l].name = fil[ev.l].name
  /\ hist' \in [LabelSets -> Seq(1..MaxEvents)]

LEMMA FailCleans ==
  ASSUME IInv, Writing, FailTouches
  PROVE  /\ Clean' \subseteq Clean
         /\ \A x \in Clean : x \in Clean' <=> fil[ev.l] = None \/ x # fil[ev.l].name
         /\ \A x \in Clean' : disk'[x] = disk[x]
<1>1. DOMAIN disk' = DOMAIN disk /\ reused' = reused
  BY DEF FailTouches
<1>2. dirty' = dirty \union (IF fil[ev.l] = None THEN {} ELSE {fil[ev.l].name})
  BY DEF FailTouches, Dirty
<1>3. /\ Clean' \subseteq Clean
      /\ \A x \in Clean : x \in Clean' <=> fil[ev.l] = None \/ x # fil[ev.l].name
  BY <1>1, <1>2 DEF Clean
<1>4. ASSUME NEW x \in Clean' PROVE disk'[x] = disk[x]
  <2>1. x \in DOMAIN disk /\ (fil[ev.l] = None \/ x # fil[ev.l].name)
    BY <1>3 DEF Clean
  <2> QED BY <2>1 DEF FailTouches
<1> QED BY <1>3, <1>4

LEMMA FailInv ==
  ASSUME IInv, Writing, FailTouches
  PROVE  IInv'
<1>1. AgentType /\ AckInv /\ Apart /\ Streams /\ Files /\ OneFile
  BY DEF IInv
<1>2. /\ Clean' \subseteq Clean
      /\ \A x \in Clean : x \in Clean' <=> fil[ev.l] = None \/ x # fil[ev.l].name
      /\ \A x \in Clean' : disk'[x] = disk[x]
  BY FailCleans
<1>3. ~Writing' /\ ev.l \in LabelSets
  BY <1>1 DEF FailTouches, Writing, AgentType, WriteType
<1>4. \A l \in LabelSets : InUse(l)' => InUse(l) /\ l # ev.l
  BY <1>2, <1>3 DEF InUse, FailTouches
<1>5. AgentType'
  <2>1. \A l \in LabelSets : fil'[l] # None => fil'[l].name \in DOMAIN disk'
    BY <1>1 DEF FailTouches, AgentType
  <2> QED BY <1>1, <1>3, <2>1 DEF AgentType, FailTouches, Writing, WriteType
<1>6. AckInv'
  <2>1. AckedKept'
    BY <1>1, <1>2 DEF AckInv, AckedKept, FailTouches
  <2>2. dirty' \subseteq DOMAIN disk
    BY <1>1, <1>3 DEF FailTouches, Dirty, AckInv, AgentType
  <2> QED BY <1>1, <1>3, <2>1, <2>2 DEF AckInv, FailTouches
<1>7. Apart'
  BY <1>1, <1>4 DEF Apart, FailTouches
<1>8. Files' /\ OneFile'
  <2>1. OneFile'
    BY <1>1, <1>2, FilesKept
  <2> QED BY <1>1, <1>2, <1>3, <2>1 DEF Files, FileInv, FailTouches
<1>9. Streams'
  <2> SUFFICES ASSUME NEW l \in LabelSets, InUse(l)' PROVE StreamInv(l)'
    BY DEF Streams
  <2>1. StreamInv(l) /\ l # ev.l
    BY <1>1, <1>4 DEF Streams
  <2>2. /\ fil'[l] = fil[l] /\ hist'[l] = hist[l] /\ boff' = boff /\ pc' = "idle"
        /\ disk'[fil[l].name] = disk[fil[l].name]
    BY <1>2, <2>1 DEF FailTouches, InUse
  <2> QED BY <2>1, <2>2 DEF StreamInv
<1> QED BY <1>5, <1>6, <1>7, <1>8, <1>9 DEF IInv

(* NewFile that succeeds, and what it does to the files. *)
Opened(name) ==
  /\ pc = "newfile" /\ pc' = "block" /\ name = <<Sum[ev.l], ev.ts>>
  /\ disk' = OpenFile(disk, name)
  /\ reused' = IF name \in DOMAIN disk THEN reused \union {name} ELSE reused
  /\ fil' = [fil EXCEPT ![ev.l] = [name |-> name, part |-> Part(ev.ts), off |-> 0, index |-> << >>]]
  /\ Reset(ev.l)
  /\ UNCHANGED <<dirty, ev, zbuf, events, acked>>

LEMMA OpenedCleans ==
  ASSUME IInv, NEW name, Opened(name)
  PROVE  /\ DOMAIN disk' = DOMAIN disk \union {name}
         /\ \A x \in DOMAIN disk : disk'[x] = disk[x]
         /\ name \notin DOMAIN disk => /\ disk'[name] = [size |-> 0, chunks |-> << >>]
                                       /\ Clean' = Clean \union {name} /\ name \notin dirty \union reused
         /\ name \in DOMAIN disk => Clean' = Clean \ {name}
<1>1. /\ DOMAIN disk' = DOMAIN disk \union {name}
      /\ \A x \in DOMAIN disk : disk'[x] = disk[x]
      /\ name \notin DOMAIN disk => disk'[name] = [size |-> 0, chunks |-> << >>]
  BY DEF Opened, OpenFile
<1>2. dirty' = dirty /\ dirty \union reused \subseteq DOMAIN disk
  BY DEF Opened, IInv, AckInv
<1>3. CASE name \notin DOMAIN disk
  BY <1>1, <1>2, <1>3 DEF Opened, Clean
<1>4. CASE name \in DOMAIN disk
  BY <1>1, <1>2, <1>4 DEF Opened, Clean
<1> QED BY <1>1, <1>3, <1>4

LEMMA OpenedInv ==
  ASSUME IInv, NEW name, Opened(name)
  PROVE  IInv'
<1>1. AgentType /\ AckInv /\ Apart /\ Streams /\ Files /\ OneFile
  BY DEF IInv
<1>2. /\ DOMAIN disk' = DOMAIN disk \union {name}
      /\ \A x \in DOMAIN disk : disk'[x] = disk[x]
      /\ name \notin DOMAIN disk => /\ disk'[name] = [size |-> 0, chunks |-> << >>]
                                    /\ Clean' = Clean \union {name} /\ name \notin dirty \union reused
      /\ name \in DOMAIN disk => Clean' = Clean \ {name}
  BY OpenedCleans
<1>3. ev.l \in LabelSets /\ ev.ts \in Stamps /\ ev.n \in 1..MaxEvents
  BY <1>1 DEF AgentType, WriteType, Writing, Opened
<1>4. name \in Names /\ Part(ev.ts) \in Nat
  <2>1. ev.ts \in Nat /\ Partition \in Nat \ {0}
    BY <1>3, SizesAssumption
  <2>2. ev.ts - (ev.ts % Partition) \in Nat
    BY <2>1
  <2> QED BY <1>3, <2>2 DEF Opened, Names, Part
<1>5. /\ fil'[ev.l] = [name |-> name, part |-> Part(ev.ts), off |-> 0, index |-> << >>]
      /\ \A l \in LabelSets \ {ev.l} : fil'[l] = fil[l] /\ hist'[l] = hist[l] /\ boff'[l] = boff[l]
      /\ hist'[ev.l] = << >> /\ boff'[ev.l] = 0
  BY <1>1, <1>3 DEF Opened, Reset, AgentType
<1>6. fil'[ev.l] \in FileType /\ fil'[ev.l] # None
  <2>1. fil'[ev.l] \in FileType
    BY <1>4, <1>5 DEF FileType
  <2> QED BY <2>1, NoneAssumption
<1>7. AgentType'
  <2>1. fil' \in [LabelSets -> FileType \union {None}]
    <3>1. fil \in [LabelSets -> FileType \union {None}]
      BY <1>1 DEF AgentType
    <3>2. fil' = [fil EXCEPT ![ev.l] = [name |-> name, part |-> Part(ev.ts), off |-> 0, index |-> << >>]]
      BY DEF Opened
    <3>3. fil' = [fil EXCEPT ![ev.l] = fil'[ev.l]]
      BY <1>3, <1>5, <3>1, <3>2
    <3> QED BY <1>3, <1>6, <3>1, <3>3
  <2>2. \A l \in LabelSets : fil'[l] # None => fil'[l].name \in DOMAIN disk'
    <3>1. fil'[ev.l].name = name /\ name \in DOMAIN disk'
      BY <1>2, <1>5
    <3>2. \A l \in LabelSets : fil[l] # None => fil[l].name \in DOMAIN disk
      BY <1>1 DEF AgentType
    <3>3. \A l \in LabelSets \ {ev.l} : fil'[l] = fil[l]
      BY <1>5
    <3>4. DOMAIN disk \subseteq DOMAIN disk'
      BY <1>2
    <3> QED BY <3>1, <3>2, <3>3, <3>4
  <2>3. hist' \in [LabelSets -> Seq(1..MaxEvents)] /\ boff' \in [LabelSets -> Int]
    BY <1>1, <1>3 DEF AgentType, Opened, Reset
  <2>4. WriteType' /\ pc' \in {"idle", "newfile", "block", "write"}
    BY <1>1 DEF AgentType, WriteType, Writing, Opened
  <2>5. ev' = ev /\ events' = events /\ acked' = acked
    BY DEF Opened
  <2> QED BY <1>1, <1>2, <1>4, <1>6, <2>1, <2>2, <2>3, <2>4, <2>5 DEF AgentType
<1>8. AckInv'
  <2>1. AckedKept'
    <3> SUFFICES ASSUME NEW a \in acked, a[1] \in Clean'
                 PROVE  \E c \in Range(disk'[a[1]].chunks) : c.n = a[2]
      BY DEF AckedKept, Opened
    <3>1. a[1] \in DOMAIN disk
      BY <1>1 DEF AckInv
    <3>2. a[1] \in Clean /\ disk'[a[1]] = disk[a[1]]
      BY <1>2, <3>1
    <3> QED BY <1>1, <3>2 DEF AckInv, AckedKept
  <2>2. dirty' \union reused' \subseteq DOMAIN disk'
    BY <1>1, <1>2 DEF AckInv, Opened
  <2>3. Writing /\ UNCHANGED <<acked, events, ev>>
    BY DEF Opened, Writing
  <2> QED BY <1>1, <1>2, <2>1, <2>2, <2>3 DEF AckInv
<1>9. ASSUME NEW l \in LabelSets, InUse(l)', l # ev.l
      PROVE  InUse(l) /\ fil'[l] = fil[l] /\ fil[l].name # name /\ disk'[fil[l].name] = disk[fil[l].name]
  <2>1. fil'[l] = fil[l]
    BY <1>5, <1>9
  <2>2. fil[l] # None /\ fil[l].name \in DOMAIN disk /\ fil[l].name \in Clean'
    BY <1>1, <1>9, <2>1 DEF AgentType, InUse
  <2>3. fil[l].name # name /\ fil[l].name \in Clean
    BY <1>2, <2>2
  <2> QED BY <1>2, <2>1, <2>2, <2>3 DEF InUse
<1>10. Apart'
  <2>1. fil'[ev.l].name = name
    BY <1>5
  <2> QED BY <1>1, <1>9, <2>1 DEF Apart
<1>11. Files'
  <2> SUFFICES ASSUME NEW x \in Clean' PROVE FileInv(x)'
    BY DEF Files
  <2>1. Writing /\ Writing' /\ ev' = ev /\ events' = events
    BY DEF Opened, Writing
  <2>2. CASE x \in Clean
    <3>1. disk'[x] = disk[x]
      BY <1>2, <2>2 DEF Clean
    <3> QED BY <1>1, <2>1, <2>2, <3>1 DEF Files, FileInv
  <2>3. CASE x \notin Clean
    <3>1. disk'[x] = [size |-> 0, chunks |-> << >>]
      BY <1>2, <2>3
    <3>2. DOMAIN << >> = {} /\ << >> \in Seq(ChunkType)
      OBVIOUS
    <3>3. ChunksInv(<< >>, 0)
      BY <3>2 DEF ChunksInv
    <3> QED BY <3>1, <3>2, <3>3 DEF FileInv
  <2> QED BY <2>2, <2>3
<1>12. Streams'
  <2> SUFFICES ASSUME NEW l \in LabelSets, InUse(l)' PROVE StreamInv(l)'
    BY DEF Streams
  <2>1. pc = "newfile" /\ pc' = "block" /\ ev' = ev /\ zbuf' = zbuf
    BY DEF Opened
  <2>2. CASE l = ev.l
    <3>1. fil'[l].name = name /\ fil'[l].off = 0
      BY <1>5, <2>2
    <3>2. name \in Clean'
      BY <2>2, <3>1 DEF InUse
    <3>3. disk'[name].size = 0
      BY <1>2, <3>2
    <3>4. 0 % BlockSize = 0
      BY SizesAssumption
    <3>5. AtReset(fil'[l].off, boff'[l], hist'[l])
      BY <1>5, <2>2, <3>1, <3>4 DEF AtReset
    <3> QED BY <2>1, <2>2, <3>1, <3>3, <3>5 DEF StreamInv
  <2>3. CASE l # ev.l
    <3>1. InUse(l) /\ fil'[l] = fil[l] /\ disk'[fil[l].name] = disk[fil[l].name]
      BY <1>9, <2>3
    <3>2. StreamInv(l) /\ hist'[l] = hist[l] /\ boff'[l] = boff[l]
      BY <1>1, <1>5, <2>3, <3>1 DEF Streams
    <3> QED BY <2>1, <2>3, <3>1, <3>2 DEF StreamInv
  <2> QED BY <2>2, <2>3
<1>13. OneFile'
  <2>1. \A x \in Clean' : (x \in Clean /\ disk'[x].chunks = disk[x].chunks) \/ DOMAIN disk'[x].chunks = {}
    <3>1. DOMAIN << >> = {}
      OBVIOUS
    <3> QED BY <1>2, <3>1 DEF Clean
  <2> SUFFICES ASSUME NEW x \in Clean', NEW y \in Clean',
                      NEW i \in DOMAIN disk'[x].chunks, NEW j \in DOMAIN disk'[y].chunks,
                      disk'[x].chunks[i].n = disk'[y].chunks[j].n
               PROVE  x = y
    BY DEF OneFile
  <2> QED BY <1>1, <2>1 DEF OneFile
<1> QED BY <1>7, <1>8, <1>10, <1>11, <1>12, <1>13 DEF IInv

(* Block, when the chunk fits: nothing changes but the position. *)
LEMMA FitsInv ==
  ASSUME IInv, pc = "block", pc' = "write", ~NextBlock(ev.l),
         UNCHANGED <<disk, fil, hist, boff, dirty, ev, zbuf, events, acked, reused>>
  PROVE  IInv'
<1>1. AgentType /\ AckInv /\ Apart /\ Streams /\ Files /\ OneFile
  BY DEF IInv
<1>2. Clean' = Clean /\ \A l \in LabelSets : InUse(l)' <=> InUse(l)
  BY DEF Clean, InUse
<1>3. AgentType'
  BY <1>1 DEF AgentType, WriteType, Writing
<1>4. AckInv'
  BY <1>1, <1>2 DEF AckInv, AckedKept, Writing
<1>5. Streams'
  <2> SUFFICES ASSUME NEW l \in LabelSets, InUse(l)' PROVE StreamInv(l)'
    BY DEF Streams
  <2>1. StreamInv(l) /\ zbuf.len \in Nat /\ boff[l] \in Int
    BY <1>1, <1>2 DEF Streams, AgentType, WriteType, Writing
  <2>2. ASSUME l = ev.l, Pending(disk[fil[l].name].chunks, fil[l].off, boff[l], hist[l], zbuf, ev)
        PROVE  boff[l] + zbuf.len <= BlockSize
    <3>1. boff[l] > 0
      BY <2>2, Zenon DEF Pending, InBlock
    <3> QED BY <2>1, <2>2, <3>1, SizesAssumption DEF NextBlock
  <2> QED BY <2>1, <2>2 DEF StreamInv
<1>6. Files' /\ OneFile'
  <2>1. Writing /\ Writing'
    BY DEF Writing
  <2>2. OneFile'
    BY <1>1, <1>2, FilesKept
  <2> QED BY <1>1, <1>2, <2>1, <2>2 DEF Files, FileInv
<1> QED BY <1>1, <1>2, <1>3, <1>4, <1>5, <1>6 DEF IInv, Apart

(* Block, when a new block is started: the chunks stay, as they all end in *)
(* front of the offset the file is truncated to.                           *)
LEMMA TruncateKeeps ==
  ASSUME NEW d, d \in [size : Nat, chunks : Seq(ChunkType)], ChunksInv(d.chunks, d.size),
         NEW off \in Nat, d.size <= off
  PROVE  TruncateTo(d, off) = [size |-> off, chunks |-> d.chunks]
<1> DEFINE cs == d.chunks
           K(k) == \A i \in DOMAIN cs : i <= k <=> cs[i].off + cs[i].len <= off
           n == CHOOSE k \in 0..Len(cs) : K(k)
<1>1. cs \in Seq(ChunkType) /\ Len(cs) \in Nat /\ DOMAIN cs = 1..Len(cs)
  BY LenProperties
<1>2. \A i \in DOMAIN cs : cs[i].off + cs[i].len <= off
  <2>1. \A i \in DOMAIN cs : cs[i].off \in Nat /\ cs[i].len \in Nat
    <3>1. \A i \in 1..Len(cs) : cs[i] \in ChunkType
      BY <1>1, ElementOfSeq
    <3> QED BY <1>1, <3>1 DEF ChunkType
  <2> QED BY <2>1 DEF ChunksInv
<1> HIDE DEF cs
<1>3. K(Len(cs))
  BY <1>1, <1>2
<1>4. n \in 0..Len(cs) /\ K(n)
  <2> HIDE DEF K
  <2>1. Len(cs) \in 0..Len(cs)
    BY <1>1
  <2> QED BY <1>3, <2>1
<1>5. n = Len(cs)
  <2> HIDE DEF n
  <2>1. CASE Len(cs) = 0
    BY <1>4, <2>1
  <2>2. CASE Len(cs) # 0
    <3>1. Len(cs) \in DOMAIN cs
      BY <1>1, <2>2
    <3>2. Len(cs) <= n
      BY <1>2, <1>4, <3>1
    <3>3. n \in 0..Len(cs)
      BY <1>4
    <3>4. Len(cs) \in Nat
      BY <1>1
    <3> QED BY <3>2, <3>3, <3>4
  <2> QED BY <2>1, <2>2
<1>6. SubSeq(cs, 1, Len(cs)) = cs
  BY <1>1, SubSeqFull
<1>7. TruncateTo(d, off) = [size |-> off, chunks |-> SubSeq(cs, 1, n)]
  BY DEF TruncateTo, cs
<1> HIDE DEF n
<1> QED BY <1>5, <1>6, <1>7 DEF cs

LEMMA StartBlockInv ==
  ASSUME IInv, pc = "block", pc' = "write", Reset(ev.l),
         IF fil[ev.l].off % BlockSize = 0 THEN UNCHANGED <<disk, fil>>
         ELSE LET off == PadOffset(fil[ev.l].off)
              IN  /\ disk' = [disk EXCEPT ![fil[ev.l].name] = TruncateTo(@, off)]
                  /\ fil' = [fil EXCEPT ![ev.l].off = off],
         UNCHANGED <<dirty, ev, zbuf, events, acked, reused>>
  PROVE  /\ IInv' /\ Clean' = Clean /\ \A x \in Clean : disk'[x].chunks = disk[x].chunks
<1> DEFINE name == fil[ev.l].name
           off == PadOffset(fil[ev.l].off)
<1>1. AgentType /\ AckInv /\ Apart /\ Streams /\ Files /\ OneFile
  BY DEF IInv
<1>2. ev.l \in LabelSets /\ fil[ev.l] \in FileType /\ fil[ev.l] # None /\ name \in DOMAIN disk
  BY <1>1 DEF AgentType, WriteType, Writing
<1>3. fil[ev.l].off \in Nat
  BY <1>2 DEF FileType
<1>4. off \in Nat /\ off >= fil[ev.l].off /\ off % BlockSize = 0
  BY <1>3, PaddedIsAligned, SizesAssumption DEF PadOffset
<1> HIDE DEF off
<1>5. /\ DOMAIN disk' = DOMAIN disk /\ Clean' = Clean
      /\ \A x \in DOMAIN disk \ {name} : disk'[x] = disk[x]
  <2>1. /\ DOMAIN disk' = DOMAIN disk
        /\ \A x \in DOMAIN disk \ {name} : disk'[x] = disk[x]
    OBVIOUS
  <2> QED BY <2>1 DEF Clean
<1>6. /\ fil' \in [LabelSets -> FileType \union {None}]
      /\ \A l \in LabelSets : /\ fil'[l] = None <=> fil[l] = None
                              /\ fil[l] # None => fil'[l].name = fil[l].name
                              /\ l # ev.l => fil'[l] = fil[l]
      /\ fil'[ev.l].off \in Nat /\ fil'[ev.l].off % BlockSize = 0
  <2>1. CASE fil[ev.l].off % BlockSize = 0
    BY <1>1, <1>3, <2>1 DEF AgentType
  <2>2. CASE fil[ev.l].off % BlockSize # 0
    <3>1. fil' = [fil EXCEPT ![ev.l].off = off]
      BY <2>2 DEF off
    <3>2. [fil[ev.l] EXCEPT !.off = off] \in FileType
      BY <1>2, <1>4 DEF FileType
    <3>3. /\ fil'[ev.l] = [fil[ev.l] EXCEPT !.off = off]
          /\ \A l \in LabelSets : l # ev.l => fil'[l] = fil[l]
          /\ fil' \in [LabelSets -> FileType \union {None}]
      BY <1>1, <1>2, <3>1, <3>2 DEF AgentType
    <3>4. fil'[ev.l].name = name /\ fil'[ev.l].off = off /\ fil'[ev.l] # None
      BY <1>2, <3>2, <3>3, NoneAssumption DEF FileType
    <3> QED BY <1>2, <1>4, <3>3, <3>4
  <2> QED BY <2>1, <2>2
<1>7. ASSUME name \in Clean
      PROVE  /\ disk'[name] \in [size : Nat, chunks : Seq(ChunkType)]
             /\ disk'[name].chunks = disk[name].chunks /\ disk'[name].size >= disk[name].size
             /\ disk'[name].size = fil'[ev.l].off
  <2>1. FileInv(name) /\ disk[name].size = fil[ev.l].off
    <3>1. FileInv(name)
      BY <1>1, <1>7 DEF Files
    <3>2. InUse(ev.l)
      BY <1>2, <1>7 DEF InUse
    <3>3. StreamInv(ev.l)
      BY <1>1, <1>2, <3>2 DEF Streams
    <3> QED BY <3>1, <3>3 DEF StreamInv
  <2>2. CASE fil[ev.l].off % BlockSize = 0
    <3>1. disk' = disk /\ fil' = fil
      BY <2>2
    <3>2. disk[name] \in [size : Nat, chunks : Seq(ChunkType)]
      BY <2>1 DEF FileInv
    <3> QED BY <2>1, <3>1, <3>2
  <2>3. CASE fil[ev.l].off % BlockSize # 0
    <3>1. TruncateTo(disk[name], off) = [size |-> off, chunks |-> disk[name].chunks]
      BY <1>4, <2>1, TruncateKeeps DEF FileInv
    <3>2. disk'[name] = [size |-> off, chunks |-> disk[name].chunks]
      BY <1>2, <2>3, <3>1 DEF off
    <3>3. fil'[ev.l].off = off
      <4>1. fil' = [fil EXCEPT ![ev.l].off = off]
        BY <2>3 DEF off
      <4>2. fil \in [LabelSets -> FileType \union {None}]
        BY <1>1 DEF AgentType
      <4>3. fil'[ev.l] = [fil[ev.l] EXCEPT !.off = off]
        BY <1>2, <4>1, <4>2
      <4> QED BY <1>2, <4>3 DEF FileType
    <3>4. disk[name].chunks \in Seq(ChunkType) /\ off >= disk[name].size
      BY <1>4, <2>1 DEF FileInv
    <3> QED BY <1>4, <3>2, <3>3, <3>4
  <2> QED BY <2>2, <2>3
<1>8. \A x \in Clean : disk'[x].chunks = disk[x].chunks
  BY <1>5, <1>7 DEF Clean
<1>9. \A l \in LabelSets : InUse(l)' <=> InUse(l)
  BY <1>5, <1>6 DEF InUse
<1>10. AgentType'
  <2>1. hist' \in [LabelSets -> Seq(1..MaxEvents)] /\ boff' \in [LabelSets -> Int]
    BY <1>1, <1>2 DEF AgentType, Reset
  <2>2. WriteType'
    BY <1>1 DEF AgentType, WriteType, Writing
  <2> QED BY <1>1, <1>2, <1>5, <1>6, <2>1, <2>2 DEF AgentType
<1>11. AckInv'
  <2>1. AckedKept'
    BY <1>1, <1>5, <1>8 DEF AckInv, AckedKept
  <2> QED BY <1>1, <1>5, <2>1 DEF AckInv, Writing
<1>12. Apart'
  BY <1>1, <1>6, <1>9 DEF Apart, InUse
<1>13. Files'
  <2> SUFFICES ASSUME NEW x \in Clean PROVE FileInv(x)'
    BY <1>5 DEF Files
  <2>1. FileInv(x) /\ Writing /\ Writing'
    BY <1>1 DEF Files, Writing
  <2>2. CASE x # name
    <3>1. disk'[x] = disk[x]
      BY <1>5, <2>2 DEF Clean
    <3> QED BY <2>1, <3>1 DEF FileInv
  <2>3. CASE x = name
    <3> DEFINE cs == disk[x].chunks
    <3>1. /\ disk'[x] \in [size : Nat, chunks : Seq(ChunkType)]
          /\ disk'[x].chunks = cs /\ disk'[x].size \in Nat /\ disk'[x].size >= disk[x].size
      BY <1>7, <2>3
    <3>2. \A i \in DOMAIN cs : cs[i].off \in Nat /\ cs[i].len \in Nat
      <4>1. cs \in Seq(ChunkType) /\ DOMAIN cs = 1..Len(cs)
        BY <2>1, LenProperties DEF FileInv
      <4>2. \A i \in 1..Len(cs) : cs[i] \in ChunkType
        BY <4>1, ElementOfSeq
      <4> QED BY <4>1, <4>2 DEF ChunkType
    <3>3. disk[x].size \in Nat /\ \A i \in DOMAIN cs : cs[i].off + cs[i].len <= disk[x].size
      BY <2>1 DEF FileInv, ChunksInv
    <3>4. \A i \in DOMAIN cs : cs[i].off + cs[i].len <= disk'[x].size
      BY <3>1, <3>2, <3>3
    <3> QED BY <2>1, <3>1, <3>4 DEF FileInv, ChunksInv
  <2> QED BY <2>2, <2>3
<1>14. Streams'
  <2> SUFFICES ASSUME NEW l \in LabelSets, InUse(l)' PROVE StreamInv(l)'
    BY DEF Streams
  <2>1. InUse(l) /\ StreamInv(l)
    BY <1>1, <1>9 DEF Streams
  <2>2. CASE l = ev.l
    <3>1. disk'[name].size = fil'[l].off /\ fil'[l].name = name
      BY <1>6, <1>7, <2>1, <2>2 DEF InUse
    <3>2. boff'[l] = 0 /\ hist'[l] = << >>
      BY <1>1, <2>2 DEF Reset, AgentType
    <3>3. AtReset(fil'[l].off, boff'[l], hist'[l])
      BY <1>6, <2>2, <3>2 DEF AtReset
    <3> QED BY <2>2, <3>1, <3>3 DEF StreamInv
  <2>3. CASE l # ev.l
    <3>1. fil[l].name # name
      BY <1>1, <1>2, <2>1, <2>3 DEF Apart, InUse
    <3>2. disk'[fil[l].name] = disk[fil[l].name] /\ fil'[l] = fil[l]
      BY <1>5, <1>6, <2>1, <2>3, <3>1 DEF InUse, Clean
    <3>3. hist'[l] = hist[l] /\ boff'[l] = boff[l]
      BY <1>1, <2>3 DEF Reset, AgentType
    <3> QED BY <2>1, <2>3, <3>2, <3>3 DEF StreamInv
  <2> QED BY <2>2, <2>3
<1>15. OneFile'
  BY <1>1, <1>5, <1>8, FilesKept
<1> QED BY <1>5, <1>8, <1>10, <1>11, <1>12, <1>13, <1>14, <1>15 DEF IInv

(* Store, when the chunk is written. *)
Stored ==
  LET name == fil[ev.l].name
      index == IF fil[ev.l].index = << >> THEN <<[off |-> fil[ev.l].off, ts |-> ev.ts]>>
               ELSE fil[ev.l].index
  IN /\ pc = "write" /\ pc' = "idle"
     /\ zbuf' = Sent(ev.l)
     /\ hist' = [hist EXCEPT ![ev.l] = IF Again(ev.l) THEN Append(@, ev.n) ELSE @]
     /\ disk' = [disk EXCEPT ![name] = Appended(@, zbuf')]
     /\ fil' = [fil EXCEPT ![ev.l].off = @ + zbuf'.len, ![ev.l].index = index]
     /\ boff' = [boff EXCEPT ![ev.l] = @ + zbuf'.len]
     /\ acked' = acked \union {<<name, ev.n>>}
     /\ UNCHANGED <<dirty, ev, events, reused>>

LEMMA SentTypes ==
  ASSUME IInv, pc = "write"
  PROVE  /\ ev.l \in LabelSets /\ ev.n \in 1..MaxEvents /\ ev.len \in Nat /\ ev.len > 0
         /\ ev.n = events /\ ev.ts \in Stamps
         /\ fil[ev.l] \in FileType /\ fil[ev.l] # None /\ fil[ev.l].name \in DOMAIN disk
         /\ Sent(ev.l) \in [len : Nat, hist : Seq(1..MaxEvents)]
         /\ hist \in [LabelSets -> Seq(1..MaxEvents)]
         /\ Append(hist[ev.l], ev.n) \in Seq(1..MaxEvents)
<1>1. AgentType /\ WriteType /\ Writing
  BY DEF IInv, AgentType, Writing
<1>2. /\ ev.l \in LabelSets /\ ev.n \in 1..MaxEvents /\ ev.len \in Nat /\ ev.len > 0
      /\ ev.n = events /\ ev.ts \in Stamps
  <2>1. ev \in [n : 1..MaxEvents, l : LabelSets, ts : Stamps, len : Lens] /\ ev.n = events
    BY <1>1 DEF WriteType
  <2>2. ev.l \in LabelSets /\ ev.n \in 1..MaxEvents /\ ev.len \in Lens /\ ev.ts \in Stamps
    BY <2>1
  <2>3. \A k \in Lens : k \in Nat /\ k > 0
    BY SizesAssumption
  <2> QED BY <2>1, <2>2, <2>3
<1>3. fil[ev.l] \in FileType /\ fil[ev.l] # None /\ fil[ev.l].name \in DOMAIN disk
  BY <1>1, <1>2 DEF AgentType
<1>4. hist[ev.l] \in Seq(1..MaxEvents) /\ Append(hist[ev.l], ev.n) \in Seq(1..MaxEvents)
  <2>1. hist[ev.l] \in Seq(1..MaxEvents)
    BY <1>1, <1>2 DEF AgentType
  <2> QED BY <1>2, <2>1, AppendProperties
<1>5. Sent(ev.l) \in [len : Nat, hist : Seq(1..MaxEvents)]
  BY <1>1, <1>2, <1>4 DEF Sent, Encoded, WriteType
<1> QED BY <1>1, <1>2, <1>3, <1>4, <1>5 DEF AgentType

LEMMA StoreTypes ==
  ASSUME IInv, pc = "write",
         zbuf' = Sent(ev.l),
         hist' = [hist EXCEPT ![ev.l] = IF Again(ev.l) THEN Append(@, ev.n) ELSE @]
  PROVE  /\ ev.l \in LabelSets /\ ev.n \in 1..MaxEvents /\ ev.len \in Nat /\ ev.len > 0
         /\ ev.n = events /\ ev.ts \in Stamps
         /\ fil[ev.l] \in FileType /\ fil[ev.l] # None /\ fil[ev.l].name \in DOMAIN disk
         /\ zbuf' \in [len : Nat, hist : Seq(1..MaxEvents)]
         /\ hist' \in [LabelSets -> Seq(1..MaxEvents)]
BY SentTypes

(* The chunk that is sent goes with the file, whether the write is ever    *)
(* answered or not.                                                        *)
LEMMA SentFollows ==
  ASSUME IInv, pc = "write", fil[ev.l].name \in Clean
  PROVE  LET name == fil[ev.l].name
             cs == disk[name].chunks
             z == Sent(ev.l)
             c == Chunk(disk[name], z)
             h == IF Again(ev.l) THEN Append(hist[ev.l], ev.n) ELSE hist[ev.l]
         IN /\ c \in ChunkType /\ cs \in Seq(ChunkType) /\ disk[name].size \in Nat /\ c.n = ev.n
            /\ Appended(disk[name], z) = [size |-> disk[name].size + z.len, chunks |-> Append(cs, c)]
            /\ fil[ev.l].off = disk[name].size
            /\ ChunksInv(Append(cs, c), disk[name].size + z.len)
            /\ InBlock(Append(cs, c), disk[name].size + z.len, boff[ev.l] + z.len, h)
            /\ \A i \in DOMAIN cs : cs[i].n < ev.n
<1> DEFINE name == fil[ev.l].name
           cs == disk[name].chunks
           size == disk[name].size
           z == Sent(ev.l)
           c == Chunk(disk[name], z)
           h == IF Again(ev.l) THEN Append(hist[ev.l], ev.n) ELSE hist[ev.l]
<1>1. AgentType /\ AckInv /\ Apart /\ Streams /\ Files /\ OneFile
  BY DEF IInv
<1>2. /\ ev.l \in LabelSets /\ ev.n \in 1..MaxEvents /\ ev.len \in Nat /\ ev.len > 0
      /\ ev.n = events
      /\ fil[ev.l] \in FileType /\ fil[ev.l] # None /\ name \in DOMAIN disk
      /\ z \in [len : Nat, hist : Seq(1..MaxEvents)]
  BY SentTypes
<1>3. FileInv(name) /\ StreamInv(ev.l) /\ size = fil[ev.l].off
  BY <1>1, <1>2 DEF Files, Streams, InUse, StreamInv
<1>4. cs \in Seq(ChunkType) /\ size \in Nat /\ ChunksInv(cs, size)
  BY <1>3 DEF FileInv, ChunksInv
<1> HIDE DEF z
<1>5. c = [n |-> ev.n, hist |-> z.hist, off |-> size, len |-> z.len] /\ c \in ChunkType
  BY <1>2, <1>4 DEF Chunk, ChunkType
<1>6. Appended(disk[name], z) = [size |-> size + z.len, chunks |-> Append(cs, c)]
  BY DEF Appended
<1>7. boff[ev.l] \in Int
  BY <1>1, <1>2 DEF AgentType
<1>8. \A i \in DOMAIN cs : cs[i].n < ev.n
  BY <1>3 DEF FileInv, Writing
<1>9. Follows(cs, size, c) /\ c.len > 0 /\ InBlock(Append(cs, c), size + z.len, boff[ev.l] + z.len, h)
  <2>1. CASE AtReset(fil[ev.l].off, boff[ev.l], hist[ev.l])
    <3>1. boff[ev.l] = 0 /\ hist[ev.l] = << >> /\ size % BlockSize = 0
      BY <1>3, <2>1 DEF AtReset
    <3>2. z = [len |-> ev.len + 1, hist |-> << >>] /\ h = <<ev.n>>
      BY <3>1 DEF z, Sent, Again, Encoded
    <3>3. c.hist = << >> /\ c.len = z.len /\ c.off = size /\ c.n = ev.n /\ c.len > 0
      BY <1>2, <1>5, <3>2
    <3>4. Follows(cs, size, c)
      BY <3>1, <3>3 DEF Follows
    <3>5. InBlock(Append(cs, c), c.off + c.len, c.len, <<c.n>>)
      BY <1>4, <1>5, <3>3, ResetStored
    <3>6. boff[ev.l] + z.len = c.len
      BY <1>2, <1>7, <3>1, <3>3
    <3> QED BY <3>2, <3>3, <3>4, <3>5, <3>6
  <2>2. CASE /\ Pending(cs, fil[ev.l].off, boff[ev.l], hist[ev.l], zbuf, ev)
             /\ boff[ev.l] + zbuf.len <= BlockSize
    <3>1. /\ InBlock(cs, size, boff[ev.l], zbuf.hist)
          /\ hist[ev.l] = Append(zbuf.hist, ev.n) /\ zbuf.len = ev.len
      BY <1>3, <2>2 DEF Pending
    <3>2. boff[ev.l] > 0
      BY <3>1 DEF InBlock
    <3>3. ~Again(ev.l)
      BY <1>7, <3>2 DEF Again
    <3>4. z = zbuf /\ h = Append(zbuf.hist, ev.n)
      BY <3>1, <3>3 DEF z, Sent
    <3>5. c.hist = zbuf.hist /\ c.len = zbuf.len /\ c.off = size /\ c.n = ev.n /\ c.len > 0
      BY <1>2, <1>5, <3>1, <3>4
    <3>6. InBlock(Append(cs, c), size + c.len, boff[ev.l] + c.len, Append(c.hist, c.n))
      BY <1>4, <1>5, <1>7, <3>1, <3>5, NextStored
    <3>7. PICK j \in 1..Len(cs) : /\ LastReset(cs, Len(cs), j) /\ zbuf.hist = Context(cs, j)
                                  /\ boff[ev.l] = size - cs[j].off
      BY <3>1 DEF InBlock
    <3>8. cs[j].off \in Nat
      <4>1. cs[j] \in ChunkType
        BY <1>4, ElementOfSeq
      <4> QED BY <4>1 DEF ChunkType
    <3>9. size + c.len <= cs[j].off + BlockSize
      <4>1. zbuf.len \in Nat /\ boff[ev.l] + zbuf.len <= BlockSize
        BY <1>2, <2>2, <3>4
      <4>2. size \in Nat /\ boff[ev.l] = size - cs[j].off /\ c.len = zbuf.len
        BY <1>4, <3>5, <3>7
      <4>3. BlockSize \in Nat
        BY SizesAssumption
      <4> HIDE DEF size, cs, c
      <4> QED BY <3>8, <4>1, <4>2, <4>3
    <3>10. Follows(cs, size, c)
      BY <3>5, <3>7, <3>9 DEF Follows
    <3> QED BY <3>4, <3>5, <3>6, <3>10
  <2> QED BY <1>3, <2>1, <2>2 DEF StreamInv
<1>10. ChunksInv(Append(cs, c), size + z.len)
  <2>1. c.len = z.len /\ c.off = size /\ c.n = ev.n
    BY <1>5
  <2> HIDE DEF c, cs, size
  <2> QED BY <1>4, <1>5, <1>8, <1>9, <2>1, ChunksGrow, SizesAssumption
<1>11. c.n = ev.n
  BY <1>5
<1> QED BY <1>3, <1>4, <1>5, <1>6, <1>8, <1>9, <1>10, <1>11 DEF z

(* The chunk is on disk and the write is over, answered or not. *)
Grown ==
  /\ pc = "write" /\ pc' = "idle"
  /\ disk' = [disk EXCEPT ![fil[ev.l].name] = Appended(@, Sent(ev.l))]
  /\ UNCHANGED <<dirty, events, reused>>

LEMMA GrownFiles ==
  ASSUME IInv, Grown
  PROVE  LET name == fil[ev.l].name
         IN /\ DOMAIN disk' = DOMAIN disk /\ Clean' = Clean
            /\ \A x \in DOMAIN disk \ {name} : disk'[x] = disk[x]
            /\ \A x \in Clean : \A c \in Range(disk[x].chunks) : c \in Range(disk'[x].chunks)
            /\ name \in Clean => \E c \in Range(disk'[name].chunks) : c.n = ev.n
            /\ Files' /\ OneFile'
<1> DEFINE name == fil[ev.l].name
           cs == disk[name].chunks
           z == Sent(ev.l)
           c == Chunk(disk[name], z)
<1>1. AgentType /\ AckInv /\ Apart /\ Streams /\ Files /\ OneFile
  BY DEF IInv
<1>2. /\ ev.n \in 1..MaxEvents /\ ev.n = events /\ name \in DOMAIN disk
      /\ Writing /\ ~Writing' /\ events' = events
  BY SentTypes DEF Grown, Writing
<1>3. /\ DOMAIN disk' = DOMAIN disk /\ Clean' = Clean
      /\ \A x \in DOMAIN disk \ {name} : disk'[x] = disk[x]
  BY DEF Grown, Clean
<1>4. \A x \in Clean \ {name} : disk'[x] = disk[x] /\ FileInv(x)
  BY <1>1, <1>3 DEF Clean, Files
<1>5. \A x \in Clean : \A i \in DOMAIN disk[x].chunks :
        disk[x].chunks[i].n < ev.n /\ disk[x].chunks[i].n \in Int
  <2> SUFFICES ASSUME NEW x \in Clean
               PROVE  \A i \in DOMAIN disk[x].chunks :
                        disk[x].chunks[i].n < ev.n /\ disk[x].chunks[i].n \in Int
    OBVIOUS
  <2>1. FileInv(x)
    BY <1>1 DEF Files
  <2>2. \A i \in DOMAIN disk[x].chunks : disk[x].chunks[i].n \in Int
    BY <2>1, ChunkNumbers
  <2> QED BY <1>2, <2>1, <2>2 DEF FileInv
<1>6. ASSUME name \in Clean
      PROVE  /\ c \in ChunkType /\ cs \in Seq(ChunkType) /\ disk[name].size \in Nat /\ c.n = ev.n
             /\ disk'[name] = [size |-> disk[name].size + z.len, chunks |-> Append(cs, c)]
             /\ ChunksInv(Append(cs, c), disk[name].size + z.len)
             /\ disk'[name].chunks = Append(cs, c) /\ Append(cs, c) \in Seq(ChunkType)
             /\ DOMAIN Append(cs, c) = 1..Len(cs) + 1 /\ DOMAIN cs = 1..Len(cs) /\ Len(cs) \in Nat
             /\ Append(cs, c)[Len(cs) + 1] = c
             /\ \A i \in 1..Len(cs) : Append(cs, c)[i] = cs[i]
  <2>1. /\ c \in ChunkType /\ cs \in Seq(ChunkType) /\ disk[name].size \in Nat /\ c.n = ev.n
        /\ Appended(disk[name], z) = [size |-> disk[name].size + z.len, chunks |-> Append(cs, c)]
        /\ ChunksInv(Append(cs, c), disk[name].size + z.len)
    BY <1>6, SentFollows DEF Grown
  <2>2. disk'[name] = Appended(disk[name], z)
    BY <1>2 DEF Grown
  <2> HIDE DEF c, cs, z
  <2>3. /\ Append(cs, c) \in Seq(ChunkType) /\ Len(Append(cs, c)) = Len(cs) + 1
        /\ Append(cs, c)[Len(cs) + 1] = c
        /\ \A i \in 1..Len(cs) : Append(cs, c)[i] = cs[i]
    BY <2>1, AppendProperties
  <2>4. DOMAIN Append(cs, c) = 1..Len(cs) + 1 /\ DOMAIN cs = 1..Len(cs) /\ Len(cs) \in Nat
    BY <2>1, <2>3, LenProperties
  <2>5. disk'[name].chunks = Append(cs, c)
    BY <2>1, <2>2
  <2> QED BY <2>1, <2>2, <2>3, <2>4, <2>5
<1> HIDE DEF c, z
<1>7. \A x \in Clean : \A d \in Range(disk[x].chunks) : d \in Range(disk'[x].chunks)
  <2> SUFFICES ASSUME NEW x \in Clean, NEW d \in Range(disk[x].chunks) PROVE d \in Range(disk'[x].chunks)
    OBVIOUS
  <2>1. CASE x # name
    BY <1>4, <2>1
  <2>2. CASE x = name
    <3>1. PICK i \in DOMAIN cs : cs[i] = d
      BY <2>2 DEF Range
    <3> HIDE DEF cs
    <3>2. i \in DOMAIN disk'[name].chunks /\ disk'[name].chunks[i] = d
      BY <1>6, <2>2, <3>1
    <3> QED BY <2>2, <3>2 DEF Range
  <2> QED BY <2>1, <2>2
<1>8. name \in Clean => \E d \in Range(disk'[name].chunks) : d.n = ev.n
  <2> SUFFICES ASSUME name \in Clean PROVE \E d \in Range(disk'[name].chunks) : d.n = ev.n
    OBVIOUS
  <2>1. c \in Range(disk'[name].chunks) /\ c.n = ev.n
    <3> HIDE DEF cs
    <3>1. Len(cs) + 1 \in DOMAIN disk'[name].chunks /\ disk'[name].chunks[Len(cs) + 1] = c
      BY <1>6
    <3> QED BY <1>6, <3>1 DEF Range
  <2> QED BY <2>1
<1>9. Files'
  <2> SUFFICES ASSUME NEW x \in Clean PROVE FileInv(x)'
    BY <1>3 DEF Files
  <2>1. CASE x # name
    BY <1>2, <1>4, <2>1 DEF FileInv
  <2>2. CASE x = name
    <3>1. \A i \in DOMAIN disk'[name].chunks : disk'[name].chunks[i].n <= events
      <4>1. \A i \in 1..Len(cs) : cs[i].n < ev.n /\ cs[i].n \in Int
        BY <1>5, <1>6, <2>2
      <4>2. /\ disk'[name].chunks = Append(cs, c) /\ DOMAIN Append(cs, c) = 1..Len(cs) + 1
            /\ \A i \in 1..Len(cs) : Append(cs, c)[i] = cs[i]
            /\ Append(cs, c)[Len(cs) + 1] = c /\ c.n = ev.n /\ Len(cs) \in Nat
        BY <1>6, <2>2
      <4> HIDE DEF cs, name
      <4>3. \A i \in 1..Len(cs) + 1 : Append(cs, c)[i].n <= events
        <5> SUFFICES ASSUME NEW i \in 1..Len(cs) + 1 PROVE Append(cs, c)[i].n <= events
          OBVIOUS
        <5>1. CASE i = Len(cs) + 1
          BY <1>2, <4>2, <5>1
        <5>2. CASE i \in 1..Len(cs)
          <6>1. Append(cs, c)[i] = cs[i] /\ cs[i].n < ev.n /\ cs[i].n \in Int
            BY <4>1, <4>2, <5>2
          <6> QED BY <1>2, <6>1
        <5> QED BY <4>2, <5>1, <5>2
      <4> QED BY <4>2, <4>3
    <3> HIDE DEF cs
    <3>2. ChunksInv(Append(cs, c), disk[name].size + z.len)
      BY <1>6, <2>2
    <3>3. disk[name].size + z.len \in Nat /\ Append(cs, c) \in Seq(ChunkType)
      BY <3>2 DEF ChunksInv
    <3>4. disk'[name] = [size |-> disk[name].size + z.len, chunks |-> Append(cs, c)]
      BY <1>6, <2>2
    <3> HIDE DEF cs
    <3>5. /\ disk'[name] \in [size : Nat, chunks : Seq(ChunkType)]
          /\ disk'[name].size = disk[name].size + z.len /\ disk'[name].chunks = Append(cs, c)
      BY <3>3, <3>4
    <3>6. ChunksInv(disk'[name].chunks, disk'[name].size)
      BY <3>2, <3>5
    <3>7. disk'[x] = disk'[name]
      BY <2>2
    <3> HIDE DEF name
    <3> QED BY <1>2, <3>1, <3>5, <3>6, <3>7 DEF FileInv
  <2> QED BY <2>1, <2>2
<1>10. OneFile'
  <2> SUFFICES ASSUME NEW x \in Clean, NEW y \in Clean,
                      NEW i \in DOMAIN disk'[x].chunks, NEW j \in DOMAIN disk'[y].chunks,
                      disk'[x].chunks[i].n = disk'[y].chunks[j].n, x # y
               PROVE  FALSE
    BY <1>3 DEF OneFile
  <2>1. ASSUME NEW w \in Clean, NEW k \in DOMAIN disk'[w].chunks
        PROVE  \/ k \in DOMAIN disk[w].chunks /\ disk'[w].chunks[k] = disk[w].chunks[k]
               \/ w = name /\ disk'[w].chunks[k].n = ev.n
    <3>1. CASE w # name
      BY <1>4, <3>1
    <3>2. CASE w = name
      <4>1. \/ k \in DOMAIN cs /\ disk'[name].chunks[k] = cs[k]
            \/ disk'[name].chunks[k].n = ev.n
        <5> HIDE DEF cs
        <5> QED BY <1>6, <3>2
      <4> QED BY <3>2, <4>1
    <3> QED BY <3>1, <3>2
  <2>2. CASE i \in DOMAIN disk[x].chunks /\ disk'[x].chunks[i] = disk[x].chunks[i]
    <3>1. CASE j \in DOMAIN disk[y].chunks /\ disk'[y].chunks[j] = disk[y].chunks[j]
      BY <1>1, <2>2, <3>1 DEF OneFile
    <3>2. CASE y = name /\ disk'[y].chunks[j].n = ev.n
      BY <1>2, <1>5, <2>2, <3>2
    <3> QED BY <2>1, <3>1, <3>2
  <2>3. CASE x = name /\ disk'[x].chunks[i].n = ev.n
    <3>1. j \in DOMAIN disk[y].chunks /\ disk'[y].chunks[j] = disk[y].chunks[j]
      BY <2>1, <2>3
    <3> QED BY <1>2, <1>5, <2>3, <3>1
  <2> QED BY <2>1, <2>2, <2>3
<1> QED BY <1>3, <1>7, <1>8, <1>9, <1>10

LEMMA StoredInv ==
  ASSUME IInv, Stored
  PROVE  IInv' /\ Clean' = Clean /\ \A x \in Clean \ {fil[ev.l].name} : disk'[x] = disk[x]
<1> DEFINE name == fil[ev.l].name
<1>1. AgentType /\ AckInv /\ Apart /\ Streams /\ Files /\ OneFile
  BY DEF IInv
<1>2. /\ ev.l \in LabelSets /\ ev.n \in 1..MaxEvents /\ ev.len \in Nat /\ ev.len > 0
      /\ ev.n = events /\ ev.ts \in Stamps
      /\ fil[ev.l] \in FileType /\ fil[ev.l] # None /\ name \in DOMAIN disk
      /\ zbuf' \in [len : Nat, hist : Seq(1..MaxEvents)]
      /\ hist' \in [LabelSets -> Seq(1..MaxEvents)]
  BY StoreTypes DEF Stored
<1>3. /\ DOMAIN disk' = DOMAIN disk /\ Clean' = Clean
      /\ \A x \in DOMAIN disk \ {name} : disk'[x] = disk[x]
      /\ \A x \in Clean : \A c \in Range(disk[x].chunks) : c \in Range(disk'[x].chunks)
      /\ name \in Clean => \E c \in Range(disk'[name].chunks) : c.n = ev.n
      /\ Files' /\ OneFile'
  BY GrownFiles DEF Stored, Grown
<1>4. \A x \in Clean \ {name} : disk'[x] = disk[x]
  BY <1>3 DEF Clean
<1>5. /\ fil' \in [LabelSets -> FileType \union {None}]
      /\ \A l \in LabelSets : /\ fil'[l] = None <=> fil[l] = None
                              /\ fil[l] # None => fil'[l].name = fil[l].name
                              /\ l # ev.l => /\ fil'[l] = fil[l] /\ hist'[l] = hist[l]
                                             /\ boff'[l] = boff[l]
  <2> DEFINE index == IF fil[ev.l].index = << >> THEN <<[off |-> fil[ev.l].off, ts |-> ev.ts]>>
                      ELSE fil[ev.l].index
             f == [fil[ev.l] EXCEPT !.off = @ + zbuf'.len, !.index = index]
  <2>1. index \in Seq([off : Nat, ts : Stamps])
    <3>1. fil[ev.l].index \in Seq([off : Nat, ts : Stamps]) /\ fil[ev.l].off \in Nat
      BY <1>2 DEF FileType
    <3>2. [off |-> fil[ev.l].off, ts |-> ev.ts] \in [off : Nat, ts : Stamps]
      BY <1>2, <3>1
    <3>3. \A T, e : e \in T => <<e>> \in Seq(T)
      OBVIOUS
    <3>4. <<[off |-> fil[ev.l].off, ts |-> ev.ts]>> \in Seq([off : Nat, ts : Stamps])
      BY <3>2, <3>3, Zenon
    <3> QED BY <3>1, <3>4
  <2> HIDE DEF index
  <2>2. f \in FileType /\ f.name = name
    <3>1. fil[ev.l].off + zbuf'.len \in Nat
      <4>1. fil[ev.l].off \in Nat /\ zbuf'.len \in Nat
        BY <1>2 DEF FileType
      <4> QED BY <4>1
    <3> DEFINE o == fil[ev.l].off + zbuf'.len
    <3>2. f = [fil[ev.l] EXCEPT !.off = o, !.index = index]
      OBVIOUS
    <3> HIDE DEF o, f
    <3> QED BY <1>2, <2>1, <3>1, <3>2 DEF FileType, o
  <2>3. f # None
    BY <2>2, NoneAssumption
  <2>4. fil' = [fil EXCEPT ![ev.l] = f]
    BY <1>1, <1>2 DEF Stored, index, AgentType, FileType
  <2> HIDE DEF f
  <2>5. fil'[ev.l] = f /\ fil' \in [LabelSets -> FileType \union {None}]
    BY <1>1, <1>2, <2>2, <2>4 DEF AgentType
  <2>6. \A l \in LabelSets : l # ev.l => /\ fil'[l] = fil[l] /\ hist'[l] = hist[l] /\ boff'[l] = boff[l]
    BY <1>1, <1>2, <2>4 DEF AgentType, Stored
  <2> QED BY <1>2, <2>2, <2>3, <2>5, <2>6
<1>6. \A l \in LabelSets : InUse(l)' <=> InUse(l)
  BY <1>3, <1>5 DEF InUse
<1>7. /\ ~Writing' /\ events' = events /\ ev' = ev /\ name \in Names
      /\ acked' = acked \union {<<name, ev.n>>}
  BY <1>1, <1>2 DEF Stored, Writing, AgentType
<1>8. AgentType'
  <2>1. boff' \in [LabelSets -> Int]
    BY <1>1, <1>2 DEF AgentType, Stored
  <2>2. pc' = "idle"
    BY DEF Stored
  <2> QED BY <1>1, <1>2, <1>3, <1>5, <1>7, <2>1, <2>2 DEF AgentType, WriteType
<1>9. AckInv'
  <2>1. ASSUME NEW a \in acked', a[1] \in Clean'
        PROVE  \E d \in Range(disk'[a[1]].chunks) : d.n = a[2]
    <3>1. CASE a \in acked
      <4>1. PICK d \in Range(disk[a[1]].chunks) : d.n = a[2]
        BY <1>1, <1>3, <2>1, <3>1 DEF AckInv, AckedKept
      <4> QED BY <1>3, <2>1, <4>1
    <3>2. CASE a = <<name, ev.n>>
      BY <1>3, <2>1, <3>2
    <3> QED BY <1>7, <3>1, <3>2
  <2>2. AckedKept'
    BY <2>1 DEF AckedKept
  <2>3. dirty' \union reused' \subseteq DOMAIN disk'
    BY <1>1, <1>3 DEF AckInv, Stored
  <2>4. \A a \in acked' : a[1] \in DOMAIN disk' /\ a[2] <= events'
    BY <1>1, <1>2, <1>3, <1>7 DEF AckInv, AgentType
  <2> QED BY <1>7, <2>2, <2>3, <2>4 DEF AckInv
<1>10. Apart'
  BY <1>1, <1>5, <1>6 DEF Apart, InUse
<1>12. Streams'
  <2> SUFFICES ASSUME NEW l \in LabelSets, InUse(l)' PROVE StreamInv(l)'
    BY DEF Streams
  <2>1. InUse(l) /\ StreamInv(l) /\ pc' = "idle"
    BY <1>1, <1>6 DEF Streams, Stored
  <2>2. CASE l = ev.l
    <3> DEFINE cs == disk[name].chunks
               c == Chunk(disk[name], zbuf')
               size == disk[name].size + zbuf'.len
    <3>1. name \in Clean /\ fil'[l].name = name
      BY <1>5, <2>1, <2>2 DEF InUse
    <3>2. /\ Appended(disk[name], zbuf') = [size |-> size, chunks |-> Append(cs, c)]
          /\ fil[ev.l].off = disk[name].size
          /\ InBlock(Append(cs, c), size, boff[ev.l] + zbuf'.len,
                     IF Again(ev.l) THEN Append(hist[ev.l], ev.n) ELSE hist[ev.l])
      BY <3>1, SentFollows DEF Stored
    <3>3. disk'[name] = [size |-> size, chunks |-> Append(cs, c)]
      BY <1>2, <3>2 DEF Stored
    <3>4. fil'[ev.l].off = size /\ boff'[ev.l] = boff[ev.l] + zbuf'.len
          /\ hist'[ev.l] = IF Again(ev.l) THEN Append(hist[ev.l], ev.n) ELSE hist[ev.l]
      BY <1>1, <1>2, <3>2 DEF Stored, AgentType, FileType
    <3> HIDE DEF c, cs, size
    <3> QED BY <2>1, <2>2, <3>1, <3>2, <3>3, <3>4 DEF StreamInv
  <2>3. CASE l # ev.l
    <3>1. fil[l].name # name
      BY <1>1, <1>2, <2>1, <2>3 DEF Apart, InUse
    <3>2. /\ disk'[fil[l].name] = disk[fil[l].name] /\ fil'[l] = fil[l]
          /\ hist'[l] = hist[l] /\ boff'[l] = boff[l]
      BY <1>4, <1>5, <2>1, <2>3, <3>1 DEF InUse
    <3>3. InBlock(disk[fil[l].name].chunks, fil[l].off, boff[l], hist[l])
          /\ disk[fil[l].name].size = fil[l].off
      BY <2>1, <2>3 DEF StreamInv
    <3> QED BY <1>7, <2>1, <2>3, <3>2, <3>3 DEF StreamInv
  <2> QED BY <2>2, <2>3
<1> QED BY <1>3, <1>4, <1>8, <1>9, <1>10, <1>12 DEF IInv

(* The process dies: no stream goes on with its file. *)
LEMMA RestartedInv ==
  ASSUME IInv, Restart, DOMAIN disk' = DOMAIN disk, AckedKept', Files', OneFile'
  PROVE  IInv'
<1>1. AgentType /\ AckInv /\ Apart /\ Streams /\ Files /\ OneFile
  BY DEF IInv
<1>2. /\ fil' = [l \in LabelSets |-> None] /\ hist' = [l \in LabelSets |-> << >>]
      /\ boff' = [l \in LabelSets |-> 0] /\ pc' = "idle"
      /\ UNCHANGED <<ev, zbuf, events, acked, dirty, reused>>
  BY DEF Restart, history
<1>3. \A l \in LabelSets : ~InUse(l)'
  BY <1>2 DEF InUse
<1>4. AgentType'
  BY <1>1, <1>2 DEF AgentType, WriteType, Writing
<1>5. AckInv'
  BY <1>1, <1>2 DEF AckInv, Writing
<1> QED BY <1>3, <1>4, <1>5 DEF IInv, Apart, Streams

(* It dies outside of a write, or what it wrote is a part of a chunk,      *)
(* behind the chunks.                                                      *)
Lost ==
  /\ Restart
  /\ \/ UNCHANGED disk
     \/ \E k \in Nat : disk' = [disk EXCEPT ![fil[ev.l].name] = Torn(@, k)]

LEMMA LostInv ==
  ASSUME IInv, Lost
  PROVE  /\ IInv' /\ Clean' = Clean /\ \A x \in Clean : disk'[x].chunks = disk[x].chunks
<1>1. AgentType /\ AckInv /\ Apart /\ Streams /\ Files /\ OneFile
  BY DEF IInv
<1>2. /\ pc' = "idle" /\ UNCHANGED <<ev, zbuf, events, acked, dirty, reused>>
  BY DEF Lost, Restart, history
<1>3. /\ DOMAIN disk' = DOMAIN disk
      /\ \A x \in DOMAIN disk : disk'[x] = disk[x] \/ \E k \in Nat : disk'[x] = Torn(disk[x], k)
  <2>1. CASE UNCHANGED disk
    BY <2>1
  <2>2. CASE \E k \in Nat : disk' = [disk EXCEPT ![fil[ev.l].name] = Torn(@, k)]
    <3>1. PICK k \in Nat : disk' = [disk EXCEPT ![fil[ev.l].name] = Torn(@, k)]
      BY <2>2
    <3> QED BY <3>1
  <2> QED BY <2>1, <2>2 DEF Lost
<1>4. Clean' = Clean
  BY <1>2, <1>3 DEF Clean
<1>5. ASSUME NEW x \in Clean
      PROVE  /\ disk'[x] \in [size : Nat, chunks : Seq(ChunkType)]
             /\ disk'[x].chunks = disk[x].chunks /\ disk'[x].size >= disk[x].size
             /\ FileInv(x)
  <2>1. FileInv(x) /\ x \in DOMAIN disk
    BY <1>1 DEF Files, Clean
  <2>2. disk[x] \in [size : Nat, chunks : Seq(ChunkType)]
    BY <2>1 DEF FileInv
  <2>3. CASE disk'[x] = disk[x]
    BY <2>1, <2>2, <2>3
  <2>4. CASE \E k \in Nat : disk'[x] = Torn(disk[x], k)
    <3>1. PICK k \in Nat : disk'[x] = Torn(disk[x], k)
      BY <2>4
    <3> QED BY <2>1, <2>2, <3>1 DEF Torn
  <2> QED BY <1>3, <2>1, <2>3, <2>4
<1>6. Files'
  <2> SUFFICES ASSUME NEW x \in Clean PROVE FileInv(x)'
    BY <1>4 DEF Files
  <2> DEFINE cs == disk[x].chunks
  <2>1. /\ disk'[x] \in [size : Nat, chunks : Seq(ChunkType)]
        /\ disk'[x].chunks = cs /\ disk'[x].size \in Nat /\ disk'[x].size >= disk[x].size
        /\ FileInv(x)
    BY <1>5
  <2>2. \A i \in DOMAIN cs : cs[i].off \in Nat /\ cs[i].len \in Nat
    <3>1. cs \in Seq(ChunkType) /\ DOMAIN cs = 1..Len(cs)
      BY <2>1, LenProperties DEF FileInv
    <3>2. \A i \in 1..Len(cs) : cs[i] \in ChunkType
      BY <3>1, ElementOfSeq
    <3> QED BY <3>1, <3>2 DEF ChunkType
  <2>3. disk[x].size \in Nat /\ \A i \in DOMAIN cs : cs[i].off + cs[i].len <= disk[x].size
    BY <2>1 DEF FileInv, ChunksInv
  <2>4. \A i \in DOMAIN cs : cs[i].off + cs[i].len <= disk'[x].size
    BY <2>1, <2>2, <2>3
  <2> QED BY <1>2, <2>1, <2>4 DEF FileInv, ChunksInv, Writing
<1>7. AckedKept'
  BY <1>1, <1>2, <1>4, <1>5 DEF AckInv, AckedKept
<1>8. OneFile'
  BY <1>1, <1>4, <1>5, FilesKept
<1>9. IInv'
  BY <1>3, <1>6, <1>7, <1>8, RestartedInv DEF Lost
<1> QED BY <1>4, <1>5, <1>9

(* It dies between the write and the answer. *)
Unanswered == Restart /\ Grown

LEMMA UnansweredInv ==
  ASSUME IInv, Unanswered
  PROVE  IInv'
<1>1. AckInv /\ acked' = acked
  BY DEF IInv, Unanswered, Restart, history
<1>2. /\ DOMAIN disk' = DOMAIN disk /\ Clean' = Clean
      /\ \A x \in Clean : \A c \in Range(disk[x].chunks) : c \in Range(disk'[x].chunks)
      /\ Files' /\ OneFile'
  BY GrownFiles DEF Unanswered
<1>3. AckedKept'
  BY <1>1, <1>2 DEF AckInv, AckedKept
<1> QED BY <1>2, <1>3, RestartedInv DEF Unanswered

LEMMA Restarts ==
  ASSUME IInv, Restart
  PROVE  Lost \/ Unanswered
<1>1. CASE pc # "write"
  BY <1>1 DEF Restart, Lost
<1>2. CASE pc = "write"
  <2> DEFINE x == fil[ev.l].name
             z == Sent(ev.l)
  <2>1. z.len \in Nat
    BY <1>2, SentTypes
  <2>2. PICK left \in LeftOf(disk[x], z) : disk' = [disk EXCEPT ![x] = left]
    BY <1>2 DEF Restart
  <2>3. CASE left = Appended(disk[x], z)
    BY <1>2, <2>2, <2>3 DEF Restart, Unanswered, Grown, history
  <2>4. CASE left # Appended(disk[x], z)
    <3> HIDE DEF z
    <3>1. PICK k \in 0..z.len - 1 : left = Torn(disk[x], k)
      BY <2>2, <2>4 DEF LeftOf
    <3>2. k \in Nat
      BY <2>1
    <3> QED BY <2>2, <3>1, <3>2 DEF Lost
  <2> QED BY <2>3, <2>4
<1> QED BY <1>1, <1>2

(* Steps of the subscribers, and those of the bound, leave the files alone. *)
LEMMA FilesUntouched ==
  ASSUME IInv, UNCHANGED <<disk, streams, pc, ev, zbuf, events, history>>
  PROVE  IInv' /\ Clean' = Clean
<1>1. AgentType /\ AckInv /\ Apart /\ Streams /\ Files /\ OneFile
  BY DEF IInv
<1>2. /\ UNCHANGED <<disk, fil, hist, boff, pc, ev, zbuf, events, acked, dirty, reused>>
      /\ Clean' = Clean /\ \A l \in LabelSets : InUse(l)' <=> InUse(l)
  BY DEF streams, history, Clean, InUse
<1>3. AgentType'
  BY <1>1, <1>2 DEF AgentType, WriteType, Writing
<1>4. AckInv'
  BY <1>1, <1>2 DEF AckInv, AckedKept, Writing
<1>5. Files' /\ Streams' /\ Apart'
  BY <1>1, <1>2 DEF Files, FileInv, Streams, StreamInv, Apart, Writing
<1>6. OneFile'
  BY <1>1, <1>2, FilesKept
<1> QED BY <1>2, <1>3, <1>4, <1>5, <1>6 DEF IInv

(* Every step that fails is one that FailTouches describes. *)
LEMMA FailedBlock ==
  ASSUME IInv, pc = "block", NextBlock(ev.l), Fail, UNCHANGED streams,
         disk' \in {disk, [disk EXCEPT ![fil[ev.l].name] = TruncateTo(@, PadOffset(fil[ev.l].off))]},
         UNCHANGED <<events, acked, reused>>
  PROVE  FailTouches
<1>1. AgentType /\ fil[ev.l] # None
  BY DEF IInv, AgentType
<1>2. \A x \in DOMAIN disk : x # fil[ev.l].name => disk'[x] = disk[x]
  OBVIOUS
<1>3. DOMAIN disk' = DOMAIN disk
  OBVIOUS
<1> QED BY <1>1, <1>2, <1>3 DEF FailTouches, Fail, streams, AgentType

LEMMA FailedStore ==
  ASSUME IInv, pc = "write", Fail, UNCHANGED <<boff, acked, events, reused>>,
         \E len \in Nat : disk' = [disk EXCEPT ![fil[ev.l].name] = Torn(@, len)],
         zbuf' = Sent(ev.l),
         hist' = [hist EXCEPT ![ev.l] = IF Again(ev.l) THEN Append(@, ev.n) ELSE @],
         fil' = [fil EXCEPT ![ev.l].index =
                   IF @ = << >> THEN <<[off |-> fil[ev.l].off, ts |-> ev.ts]>> ELSE @]
  PROVE  FailTouches
<1> DEFINE index == IF fil[ev.l].index = << >> THEN <<[off |-> fil[ev.l].off, ts |-> ev.ts]>>
                    ELSE fil[ev.l].index
           f == [fil[ev.l] EXCEPT !.index = index]
<1>1. AgentType
  BY DEF IInv
<1>2. /\ ev.l \in LabelSets /\ ev.ts \in Stamps
      /\ fil[ev.l] \in FileType /\ fil[ev.l] # None
      /\ hist' \in [LabelSets -> Seq(1..MaxEvents)]
  BY StoreTypes
<1>3. index \in Seq([off : Nat, ts : Stamps])
  <2>1. fil[ev.l].index \in Seq([off : Nat, ts : Stamps]) /\ fil[ev.l].off \in Nat
    BY <1>2 DEF FileType
  <2>2. [off |-> fil[ev.l].off, ts |-> ev.ts] \in [off : Nat, ts : Stamps]
    BY <1>2, <2>1
  <2>3. \A T, e : e \in T => <<e>> \in Seq(T)
    OBVIOUS
  <2>4. <<[off |-> fil[ev.l].off, ts |-> ev.ts]>> \in Seq([off : Nat, ts : Stamps])
    BY <2>2, <2>3, Zenon
  <2> QED BY <2>1, <2>4
<1>4. fil' = [fil EXCEPT ![ev.l] = f]
  BY <1>1, <1>2 DEF AgentType, FileType
<1> HIDE DEF index
<1>5. f \in FileType /\ f.name = fil[ev.l].name
  BY <1>2, <1>3 DEF FileType
<1>6. f # None
  BY <1>5, NoneAssumption
<1> HIDE DEF f
<1>7. /\ fil' \in [LabelSets -> FileType \union {None}] /\ fil'[ev.l] = f
      /\ \A l \in LabelSets \ {ev.l} : fil'[l] = fil[l]
  BY <1>1, <1>2, <1>4, <1>5 DEF AgentType
<1>8. \A l \in LabelSets \ {ev.l} : hist'[l] = hist[l]
  BY <1>1 DEF AgentType
<1>9. /\ DOMAIN disk' = DOMAIN disk
      /\ \A x \in DOMAIN disk : x # fil[ev.l].name => disk'[x] = disk[x]
  OBVIOUS
<1> QED BY <1>2, <1>5, <1>6, <1>7, <1>8, <1>9 DEF FailTouches, Fail

LEMMA FailedOpen ==
  ASSUME IInv, pc = "newfile", Fail, UNCHANGED <<disk, streams, events, acked, reused>>
  PROVE  FailTouches
BY DEF FailTouches, Fail, streams, IInv, AgentType

(* The steps of the Agent by what they do to the files. *)
Quiet == UNCHANGED <<disk, streams, pc, ev, zbuf, events, history>>
Fits == /\ pc = "block" /\ pc' = "write" /\ ~NextBlock(ev.l)
        /\ UNCHANGED <<disk, fil, hist, boff, dirty, ev, zbuf, events, acked, reused>>
StartsBlock ==
  /\ pc = "block" /\ pc' = "write" /\ Reset(ev.l)
  /\ IF fil[ev.l].off % BlockSize = 0 THEN UNCHANGED <<disk, fil>>
     ELSE LET off == PadOffset(fil[ev.l].off)
          IN  /\ disk' = [disk EXCEPT ![fil[ev.l].name] = TruncateTo(@, off)]
              /\ fil' = [fil EXCEPT ![ev.l].off = off]
  /\ UNCHANGED <<dirty, ev, zbuf, events, acked, reused>>

LEMMA Steps ==
  ASSUME IInv, Next
  PROVE  \/ \E l \in LabelSets, ts \in Stamps, len \in Lens : Receive(l, ts, len)
         \/ \E name : Opened(name)
         \/ Fits \/ StartsBlock \/ Stored \/ Lost \/ Unanswered \/ Quiet
         \/ Writing /\ FailTouches
<1>1. CASE NewFile
  <2>1. pc = "newfile" /\ UNCHANGED <<ev, zbuf, events, acked>>
    BY <1>1 DEF NewFile
  <2>2. CASE Fail /\ UNCHANGED <<disk, streams, reused>>
    BY <2>1, <2>2, FailedOpen DEF Writing
  <2>3. CASE Opened(<<Sum[ev.l], ev.ts>>)
    BY <2>3
  <2> QED BY <1>1, <2>2, <2>3 DEF NewFile, Opened
<1>2. CASE Block
  <2>1. pc = "block" /\ UNCHANGED <<ev, zbuf, events, acked, reused>>
    BY <1>2 DEF Block
  <2>2. CASE ~NextBlock(ev.l) /\ UNCHANGED <<disk, streams, dirty>> /\ pc' = "write"
    BY <2>1, <2>2 DEF Fits, streams
  <2>3. CASE StartsBlock
    BY <2>3
  <2>4. CASE /\ NextBlock(ev.l) /\ Fail /\ UNCHANGED streams
             /\ disk' \in {disk, [disk EXCEPT ![fil[ev.l].name] = TruncateTo(@, PadOffset(fil[ev.l].off))]}
    BY <2>1, <2>4, FailedBlock DEF Writing
  <2> QED BY <1>2, <2>2, <2>3, <2>4 DEF Block, StartsBlock
<1>3. CASE Store
  <2> DEFINE z == Sent(ev.l)
             index == IF fil[ev.l].index = << >> THEN <<[off |-> fil[ev.l].off, ts |-> ev.ts]>>
                      ELSE fil[ev.l].index
  <2>1. /\ pc = "write" /\ UNCHANGED <<ev, events, reused>> /\ zbuf' = z
        /\ hist' = [hist EXCEPT ![ev.l] = IF Again(ev.l) THEN Append(@, ev.n) ELSE @]
    BY <1>3 DEF Store
  <2>2. CASE /\ disk' = [disk EXCEPT ![fil[ev.l].name] = Appended(@, z)]
             /\ fil' = [fil EXCEPT ![ev.l].off = @ + z.len, ![ev.l].index = index]
             /\ boff' = [boff EXCEPT ![ev.l] = @ + z.len]
             /\ acked' = acked \union {<<fil[ev.l].name, ev.n>>}
             /\ pc' = "idle" /\ UNCHANGED dirty
    BY <2>1, <2>2 DEF Stored
  <2>3. CASE /\ Fail /\ \E k \in 0..z.len - 1 : disk' = [disk EXCEPT ![fil[ev.l].name] = Torn(@, k)]
             /\ fil' = [fil EXCEPT ![ev.l].index = index] /\ UNCHANGED <<boff, acked>>
    <3>1. \E len \in Nat : disk' = [disk EXCEPT ![fil[ev.l].name] = Torn(@, len)]
      <4>1. z.len \in Nat
        BY <2>1, StoreTypes
      <4> HIDE DEF z
      <4>2. 0..z.len - 1 \subseteq Nat
        BY <4>1
      <4> QED BY <2>3, <4>2
    <3>2. FailTouches
      BY <2>1, <2>3, <3>1, FailedStore
    <3> QED BY <2>1, <3>2 DEF Writing
  <2>4. \/ /\ disk' = [disk EXCEPT ![fil[ev.l].name] = Appended(@, z)]
           /\ fil' = [fil EXCEPT ![ev.l].off = @ + z.len, ![ev.l].index = index]
           /\ boff' = [boff EXCEPT ![ev.l] = @ + z.len]
           /\ acked' = acked \union {<<fil[ev.l].name, ev.n>>}
           /\ pc' = "idle" /\ UNCHANGED dirty
        \/ /\ Fail /\ \E k \in 0..z.len - 1 : disk' = [disk EXCEPT ![fil[ev.l].name] = Torn(@, k)]
           /\ fil' = [fil EXCEPT ![ev.l].index = index] /\ UNCHANGED <<boff, acked>>
    BY <1>3 DEF Store
  <2> QED BY <2>2, <2>3, <2>4
<1>4. CASE Subscribe \/ (\E id \in 1..MaxSubs : Unsubscribe(id)) \/ Terminated
  BY <1>4 DEF Subscribe, Unsubscribe, Terminated, Quiet, vars
<1> QED BY <1>1, <1>2, <1>3, <1>4, Restarts DEF Next

LEMMA NextInv == IInv /\ [Next]_vars => IInv'
<1> SUFFICES ASSUME IInv, [Next]_vars PROVE IInv'
  OBVIOUS
<1>1. CASE Next
  <2>1. ASSUME NEW l \in LabelSets, NEW ts \in Stamps, NEW len \in Lens, Receive(l, ts, len)
        PROVE  IInv'
    BY <2>1, ReceiveInv
  <2>2. ASSUME NEW name, Opened(name) PROVE IInv'
    BY <2>2, OpenedInv
  <2>3. CASE Fits
    BY <2>3, FitsInv DEF Fits
  <2>4. CASE StartsBlock
    BY <2>4, StartBlockInv DEF StartsBlock
  <2>5. CASE Stored
    BY <2>5, StoredInv
  <2>6. CASE Lost \/ Unanswered
    BY <2>6, LostInv, UnansweredInv
  <2>7. CASE Quiet
    BY <2>7, FilesUntouched DEF Quiet
  <2>8. CASE Writing /\ FailTouches
    BY <2>8, FailInv
  <2> QED BY <1>1, <2>1, <2>2, <2>3, <2>4, <2>5, <2>6, <2>7, <2>8, Steps
<1>2. CASE UNCHANGED vars
  BY <1>2, FilesUntouched DEF vars
<1> QED BY <1>1, <1>2

LEMMA Inductive == Spec => []IInv
BY InitInv, NextInv, PTL DEF Spec

-----------------------------------------------------------------------------
(* Every payload the Agent reported as written stays in the file it was    *)
(* written to, unless the file saw a failure or was opened again: whatever *)
(* padding, new files, other streams and restarts do (Agent.Write, padFile *)
(* and newFile).                                                           *)
THEOREM AckedStay == Spec => []AckedKept
<1>1. IInv => AckedKept
  BY DEF IInv, AckInv
<1> QED BY <1>1, Inductive, PTL

(* Every chunk of such a file can be read with what is in front of it: the *)
(* history of a stream's encoder and the file never part (Agent.writeFile  *)
(* resets the encoder with the block, and encodes the payload again).      *)
THEOREM ChunksDecode == Spec => []Decodable
<1>1. IInv => Decodable
  BY DEF IInv, Files, FileInv, ChunksInv, Decodable
<1> QED BY <1>1, Inductive, PTL

(* The blocks of such a file can be read on their own: a reset chunk is    *)
(* aligned and what refers back to it ends in its block (padFile).         *)
THEOREM BlocksStandAlone == Spec => []BlocksAlone
<1>1. IInv => BlocksAlone
  BY DEF IInv, Files, FileInv, ChunksInv, BlocksAlone
<1> QED BY <1>1, Inductive, PTL

-----------------------------------------------------------------------------
(* Subscriptions: the ids are in order, so that the scan finds the one     *)
(* asked for and the shift keeps the others.                               *)
SubInv ==
  /\ subid \in Nat /\ subs \in Seq(1..subid)
  /\ \A i, j \in DOMAIN subs : i < j => subs[i] < subs[j]
  /\ Range(subs) = subscribed

LEMMA Smallest ==
  ASSUME NEW T, T \subseteq Nat, T # {}
  PROVE  \E x \in T : \A y \in T : x <= y
<1>1. \E x \in T : \A y \in T : ~(<<y, x>> \in OpToRel(<, Nat))
  BY WFMin, NatLessThanWellFounded, Zenon
<1>2. PICK x \in T : \A y \in T : ~(<<y, x>> \in OpToRel(<, Nat))
  BY <1>1
<1>3. \A y \in T : <<y, x>> \in OpToRel(<, Nat) <=> y < x
  BY DEF OpToRel
<1>4. \A y \in T : ~(y < x)
  BY <1>2, <1>3
<1> QED BY <1>4

LEMMA PositionFound ==
  ASSUME SubInv, NEW id \in Int
  PROVE  /\ Position(id) \in 1..Len(subs) + 1
         /\ \A j \in 1..Position(id) - 1 : subs[j] < id
         /\ Position(id) > Len(subs) \/ subs[Position(id)] >= id
<1> DEFINE T == {i \in 1..Len(subs) + 1 : i > Len(subs) \/ subs[i] >= id}
           P(i) == /\ \A j \in 1..i - 1 : subs[j] < id
                   /\ i > Len(subs) \/ subs[i] >= id
<1>1. Len(subs) \in Nat /\ \A i \in 1..Len(subs) : subs[i] \in Int
  BY LenProperties, ElementOfSeq DEF SubInv
<1>2. T \subseteq Nat /\ Len(subs) + 1 \in T
  BY <1>1
<1>3. PICK i \in T : \A y \in T : i <= y
  <2> HIDE DEF T
  <2> QED BY <1>2, Smallest
<1>4. \A j \in 1..i - 1 : subs[j] < id
  <2> SUFFICES ASSUME NEW j \in 1..i - 1 PROVE subs[j] < id
    OBVIOUS
  <2>1. j \in 1..Len(subs) /\ ~(i <= j)
    BY <1>1, <1>3
  <2>2. j \notin T
    BY <1>3, <2>1
  <2>3. ~(subs[j] >= id)
    BY <1>1, <2>1, <2>2
  <2> QED BY <1>1, <2>1, <2>3
<1>5. i \in 1..Len(subs) + 1 /\ P(i)
  BY <1>3, <1>4
<1>6. Position(id) = CHOOSE k \in 1..Len(subs) + 1 : P(k)
  BY DEF Position
<1> HIDE DEF P
<1>7. Position(id) \in 1..Len(subs) + 1 /\ P(Position(id))
  BY <1>5, <1>6, Zenon
<1> QED BY <1>7 DEF P

LEMMA UnsubscribeInv ==
  ASSUME SubInv, NEW id \in 1..MaxSubs, Unsubscribe(id)
  PROVE  SubInv'
<1> DEFINE i == Position(id)
           n == Len(subs)
<1>1. /\ i \in 1..n + 1
      /\ \A j \in 1..i - 1 : subs[j] < id
      /\ i > n \/ subs[i] >= id
  BY PositionFound
<1>2. /\ n \in Nat /\ DOMAIN subs = 1..n
      /\ \A j \in 1..n : subs[j] \in 1..subid
      /\ subid \in Nat /\ id \in Nat
      /\ \A j, k \in 1..n : j < k => subs[j] < subs[k]
      /\ subs \in Seq(1..subid)
      /\ Range(subs) = subscribed
  BY LenProperties, ElementOfSeq DEF SubInv
<1>3. /\ subs' = IF i <= n /\ subs[i] = id THEN RemoveAt(subs, i) ELSE subs
      /\ subscribed' = subscribed \ {id} /\ subid' = subid
  BY DEF Unsubscribe
<1> HIDE DEF i, n
<1>4. CASE i <= n /\ subs[i] = id
  <2> DEFINE a == SubSeq(subs, 1, i - 1)
             b == SubSeq(subs, i + 1, n)
  <2>1. subs' = a \o b /\ i \in 1..n
    <3>1. subs' = RemoveAt(subs, i)
      BY <1>3, <1>4
    <3>2. RemoveAt(subs, i) = a \o b
      BY DEF RemoveAt, n
    <3>3. i \in 1..n
      BY <1>1, <1>2, <1>4
    <3> QED BY <3>1, <3>2, <3>3
  <2>2. /\ a \in Seq(1..subid) /\ Len(a) = i - 1
        /\ \A k \in 1..i - 1 : a[k] = subs[k]
    <3>1. \A k \in 1..i - 1 : subs[k] \in 1..subid
      BY <1>2, <2>1
    <3>2. i - 1 \in Int /\ 1 \in Int /\ (i - 1) - 1 + 1 = i - 1 /\ (1 <= i - 1 \/ i - 1 = 0)
          /\ \A k \in 1..i - 1 : 1 + k - 1 = k
      BY <1>2, <2>1
    <3>3. /\ a \in Seq(1..subid)
          /\ Len(a) = IF 1 <= i - 1 THEN (i - 1) - 1 + 1 ELSE 0
          /\ \A k \in 1..(i - 1) - 1 + 1 : a[k] = subs[1 + k - 1]
      BY <3>1, <3>2, SubSeqProperties
    <3> HIDE DEF a
    <3> QED BY <3>2, <3>3
  <2>3. /\ b \in Seq(1..subid) /\ Len(b) = n - i
        /\ \A k \in 1..n - i : b[k] = subs[k + i]
    <3>1. \A k \in i + 1..n : subs[k] \in 1..subid
      BY <1>2, <2>1
    <3>2. i + 1 \in Int /\ n \in Int /\ n - (i + 1) + 1 = n - i /\ (i + 1 <= n \/ n - i = 0)
          /\ \A k \in 1..n - i : (i + 1) + k - 1 = k + i
      BY <1>2, <2>1
    <3>3. /\ b \in Seq(1..subid)
          /\ Len(b) = IF i + 1 <= n THEN n - (i + 1) + 1 ELSE 0
          /\ \A k \in 1..n - (i + 1) + 1 : b[k] = subs[(i + 1) + k - 1]
      BY <3>1, <3>2, SubSeqProperties
    <3> HIDE DEF b
    <3> QED BY <3>2, <3>3
  <2> HIDE DEF a, b
  <2>4. /\ subs' \in Seq(1..subid) /\ Len(subs') = n - 1
        /\ \A k \in 1..n - 1 : subs'[k] = subs[IF k < i THEN k ELSE k + 1]
    <3>1. /\ a \o b \in Seq(1..subid) /\ Len(a \o b) = (i - 1) + (n - i)
          /\ \A k \in 1..(i - 1) + (n - i) : (a \o b)[k] = IF k <= i - 1 THEN a[k] ELSE b[k - (i - 1)]
      <4>1. /\ a \o b \in Seq(1..subid) /\ Len(a \o b) = Len(a) + Len(b)
            /\ \A k \in 1..Len(a) + Len(b) :
                 (a \o b)[k] = IF k <= Len(a) THEN a[k] ELSE b[k - Len(a)]
        BY <2>2, <2>3, ConcatProperties
      <4> QED BY <2>2, <2>3, <4>1
    <3>2. (i - 1) + (n - i) = n - 1
      BY <1>2, <2>1
    <3>3. ASSUME NEW k \in 1..n - 1 PROVE (a \o b)[k] = subs[IF k < i THEN k ELSE k + 1]
      <4>1. CASE k < i
        <5>1. k <= i - 1 /\ k \in 1..i - 1
          BY <1>2, <2>1, <4>1
        <5> QED BY <2>2, <3>1, <3>2, <4>1, <5>1
      <4>2. CASE ~(k < i)
        <5>1. ~(k <= i - 1) /\ k - (i - 1) \in 1..n - i /\ (k - (i - 1)) + i = k + 1
          BY <1>2, <2>1, <4>2
        <5> QED BY <2>3, <3>1, <3>2, <4>2, <5>1
      <4> QED BY <4>1, <4>2
    <3> QED BY <2>1, <3>1, <3>2, <3>3
  <2>5. DOMAIN subs' = 1..n - 1
    BY <1>2, <2>1, <2>4, LenProperties
  <2>6. \A j, k \in DOMAIN subs' : j < k => subs'[j] < subs'[k]
    <3> SUFFICES ASSUME NEW j \in 1..n - 1, NEW k \in 1..n - 1, j < k PROVE subs'[j] < subs'[k]
      BY <2>5
    <3> DEFINE jj == IF j < i THEN j ELSE j + 1
               kk == IF k < i THEN k ELSE k + 1
    <3>1. jj \in 1..n /\ kk \in 1..n /\ jj < kk
      BY <1>2, <2>1
    <3>2. subs'[j] = subs[jj] /\ subs'[k] = subs[kk]
      BY <2>4
    <3> HIDE DEF jj, kk
    <3> QED BY <1>2, <3>1, <3>2
  <2>7. Range(subs') = subscribed \ {id}
    <3>1. ASSUME NEW k \in 1..n - 1
          PROVE  subs'[k] \in Range(subs) /\ subs'[k] # id
      <4> DEFINE kk == IF k < i THEN k ELSE k + 1
      <4>1. kk \in 1..n /\ kk # i /\ subs'[k] = subs[kk]
        <5>1. kk \in 1..n /\ kk # i
          BY <1>2, <2>1
        <5>2. subs'[k] = subs[kk]
          BY <2>4
        <5> QED BY <5>1, <5>2
      <4> HIDE DEF kk
      <4>2. subs[kk] # subs[i]
        <5>1. subs[kk] \in Int /\ subs[i] \in Int /\ (kk < i \/ i < kk)
          BY <1>2, <2>1, <4>1
        <5> QED BY <1>2, <2>1, <4>1, <5>1
      <4> QED BY <1>2, <1>4, <4>1, <4>2 DEF Range
    <3>2. ASSUME NEW m \in 1..n, subs[m] # id
          PROVE  \E k \in 1..n - 1 : subs'[k] = subs[m]
      <4>1. CASE m < i
        <5>1. m \in 1..n - 1
          BY <1>2, <2>1, <4>1
        <5> QED BY <2>4, <4>1, <5>1
      <4>2. CASE m > i
        <5>1. m - 1 \in 1..n - 1 /\ ~(m - 1 < i) /\ (m - 1) + 1 = m
          BY <1>2, <2>1, <4>2
        <5>2. subs'[m - 1] = subs[m]
          BY <2>4, <5>1
        <5> QED BY <5>1, <5>2
      <4>3. m # i
        BY <1>4, <3>2
      <4>4. m < i \/ m > i \/ m = i
        BY <1>2, <2>1
      <4> QED BY <4>1, <4>2, <4>3, <4>4
    <3>3. Range(subs') \subseteq Range(subs) \ {id}
      BY <2>5, <3>1 DEF Range
    <3>4. Range(subs) \ {id} \subseteq Range(subs')
      <4> SUFFICES ASSUME NEW m \in 1..n, subs[m] # id PROVE subs[m] \in Range(subs')
        BY <1>2 DEF Range
      <4>1. PICK k \in 1..n - 1 : subs'[k] = subs[m]
        BY <3>2
      <4> QED BY <2>5, <4>1 DEF Range
    <3> QED BY <1>2, <3>3, <3>4
  <2> QED BY <1>2, <1>3, <2>4, <2>6, <2>7 DEF SubInv
<1>5. CASE ~(i <= n /\ subs[i] = id)
  <2>1. \A k \in 1..n : subs[k] # id
    <3> SUFFICES ASSUME NEW k \in 1..n, subs[k] = id PROVE FALSE
      OBVIOUS
    <3>1. ~(k <= i - 1)
      <4>1. k \in 1..i - 1 => subs[k] < id
        BY <1>1
      <4> QED BY <1>1, <1>2, <4>1
    <3>2. i \in 1..n /\ k # i
      BY <1>1, <1>2, <1>5, <3>1
    <3>3. subs[i] >= id /\ i < k
      BY <1>1, <1>2, <3>1, <3>2
    <3>4. subs[i] < subs[k] /\ subs[i] \in Int
      BY <1>2, <3>2, <3>3
    <3> QED BY <1>2, <3>3, <3>4
  <2>2. id \notin subscribed
    BY <1>2, <2>1 DEF Range
  <2>3. subs' = subs /\ subscribed' = subscribed
    BY <1>3, <1>5, <2>2
  <2> QED BY <1>3, <2>3 DEF SubInv
<1> QED BY <1>4, <1>5

LEMMA SubscribeInv ==
  ASSUME SubInv, Subscribe
  PROVE  SubInv'
<1>1. /\ subid \in Nat /\ subs \in Seq(1..subid) /\ subid' = subid + 1
      /\ subs' = Append(subs, subid + 1) /\ subscribed' = subscribed \union {subid + 1}
  BY DEF SubInv, Subscribe
<1>2. 1..subid \subseteq 1..subid + 1 /\ subid + 1 \in 1..subid + 1
  BY <1>1
<1>3. subs \in Seq(1..subid + 1)
  BY <1>1, <1>2, SeqMonotonic
<1>4. /\ subs' \in Seq(1..subid + 1) /\ Len(subs') = Len(subs) + 1
      /\ subs'[Len(subs) + 1] = subid + 1
      /\ \A k \in 1..Len(subs) : subs'[k] = subs[k]
  BY <1>1, <1>2, <1>3, AppendProperties
<1>5. /\ Len(subs) \in Nat /\ DOMAIN subs = 1..Len(subs) /\ DOMAIN subs' = 1..Len(subs) + 1
      /\ \A k \in 1..Len(subs) : subs[k] \in 1..subid
  BY <1>1, <1>4, LenProperties, ElementOfSeq
<1>6. \A i, j \in DOMAIN subs' : i < j => subs'[i] < subs'[j]
  <2> SUFFICES ASSUME NEW i \in 1..Len(subs) + 1, NEW j \in 1..Len(subs) + 1, i < j
               PROVE  subs'[i] < subs'[j]
    BY <1>5
  <2>1. i \in 1..Len(subs)
    BY <1>5
  <2>2. CASE j = Len(subs) + 1
    <3>1. subs[i] < subid + 1
      BY <1>1, <1>5, <2>1
    <3> QED BY <1>4, <2>1, <2>2, <3>1
  <2>3. CASE j \in 1..Len(subs)
    BY <1>4, <1>5, <2>1, <2>3 DEF SubInv
  <2>4. j = Len(subs) + 1 \/ j \in 1..Len(subs)
    BY <1>5
  <2> QED BY <2>2, <2>3, <2>4
<1>7. Range(subs') = subscribed'
  <2>1. Range(subs) = subscribed
    BY DEF SubInv
  <2> QED BY <1>1, <1>4, <1>5, <2>1 DEF Range
<1> QED BY <1>1, <1>4, <1>6, <1>7 DEF SubInv

LEMMA SubInductive == Spec => []SubInv
<1>1. Init => SubInv
  BY DEF Init, SubInv, Range
<1>2. SubInv /\ [Next]_vars => SubInv'
  <2> SUFFICES ASSUME SubInv, [Next]_vars PROVE SubInv'
    OBVIOUS
  <2>1. ASSUME NEW id \in 1..MaxSubs, Unsubscribe(id) PROVE SubInv'
    BY <2>1, UnsubscribeInv
  <2>2. CASE Subscribe
    BY <2>2, SubscribeInv
  <2>3. CASE Restart
    BY <2>3 DEF Restart, SubInv, Range
  <2>4. CASE UNCHANGED subscribers
    BY <2>4 DEF subscribers, SubInv
  <2>5. \/ Restart \/ Subscribe \/ (\E id \in 1..MaxSubs : Unsubscribe(id)) \/ UNCHANGED subscribers
    BY DEF Next, Receive, NewFile, Block, Store, Terminated, vars
  <2> QED BY <2>1, <2>2, <2>3, <2>4, <2>5
<1> QED BY <1>1, <1>2, PTL DEF Spec

(* The subscriptions are exactly the ones made and not cancelled, one slot *)
(* each, whatever the order in which they are cancelled (Agent.Subscribe,  *)
(* Agent.Unsubscribe).                                                     *)
THEOREM SubscriptionsStay == Spec => []SubscriptionsKept
<1>1. SubInv => SubscriptionsKept
  <2> SUFFICES ASSUME SubInv PROVE SubscriptionsKept
    OBVIOUS
  <2>1. /\ Len(subs) \in Nat /\ DOMAIN subs = 1..Len(subs) /\ Range(subs) = subscribed
        /\ \A k \in 1..Len(subs) : subs[k] \in 1..subid
        /\ \A i, j \in 1..Len(subs) : i < j => subs[i] < subs[j]
        /\ subs = [k \in 1..Len(subs) |-> subs[k]]
    BY LenProperties, ElementOfSeq DEF SubInv
  <2>2. subs \in [1..Len(subs) -> subscribed]
    BY <2>1 DEF Range
  <2>3. \A i, j \in 1..Len(subs) : subs[i] = subs[j] => i = j
    <3> SUFFICES ASSUME NEW i \in 1..Len(subs), NEW j \in 1..Len(subs), i # j
                 PROVE  subs[i] # subs[j]
      OBVIOUS
    <3>1. subs[i] \in Int /\ subs[j] \in Int /\ (i < j \/ j < i)
      BY <2>1
    <3> QED BY <2>1, <3>1
  <2>4. \A s \in subscribed : \E k \in 1..Len(subs) : subs[k] = s
    BY <2>1 DEF Range
  <2>5. ExistsBijection(1..Len(subs), subscribed)
    BY <2>2, <2>3, <2>4 DEF ExistsBijection, Bijection, Injection, Surjection, IsInjective
  <2>6. Cardinality(subscribed) = Len(subs)
    BY <2>1, <2>5, FS_CountingElements
  <2> QED BY <2>1, <2>6 DEF SubscriptionsKept
<1> QED BY <1>1, SubInductive, PTL

-----------------------------------------------------------------------------
(* The Agent implements EventStore. *)

Numbers(cs) == [i \in 1..Len(cs) |-> cs[i].n]

LEMMA NumbersSeq ==
  ASSUME NEW cs \in Seq(ChunkType)
  PROVE  /\ Numbers(cs) \in Seq(1..MaxEvents) /\ Len(Numbers(cs)) = Len(cs)
         /\ DOMAIN Numbers(cs) = 1..Len(cs) /\ \A i \in 1..Len(cs) : Numbers(cs)[i] = cs[i].n
<1>1. Len(cs) \in Nat
  BY LenProperties
<1>2. \A i \in 1..Len(cs) : cs[i].n \in 1..MaxEvents
  <2>1. \A i \in 1..Len(cs) : cs[i] \in ChunkType
    BY ElementOfSeq
  <2> QED BY <2>1 DEF ChunkType
<1>3. Numbers(cs) \in [1..Len(cs) -> 1..MaxEvents]
  BY <1>2 DEF Numbers
<1>4. Numbers(cs) \in Seq(1..MaxEvents)
  BY <1>1, <1>3, FunctionIsSeq
<1>5. DOMAIN Numbers(cs) = 1..Len(cs)
  BY DEF Numbers
<1>6. Len(Numbers(cs)) = Len(cs)
  BY <1>1, <1>4, <1>5, LenProperties
<1>7. \A i \in 1..Len(cs) : Numbers(cs)[i] = cs[i].n
  BY DEF Numbers
<1> QED BY <1>4, <1>5, <1>6, <1>7

(* All of a file that is not spoiled is read. *)
LEMMA AllReadable ==
  ASSUME NEW cs, NEW size, ChunksInv(cs, size)
  PROVE  Readable(cs) = Numbers(cs)
<1> DEFINE K(k) == \A i \in DOMAIN cs : i <= k <=> \A j \in 1..i : ReadsBack(cs, j)
           n == CHOOSE k \in 0..Len(cs) : K(k)
<1>1. cs \in Seq(ChunkType) /\ Len(cs) \in Nat /\ DOMAIN cs = 1..Len(cs)
  BY LenProperties DEF ChunksInv
<1>2. \A i \in DOMAIN cs : \A j \in 1..i : ReadsBack(cs, j)
  <2>1. \A j \in DOMAIN cs : ReadsBack(cs, j)
    BY DEF ChunksInv
  <2>2. \A i \in DOMAIN cs : 1..i \subseteq DOMAIN cs
    BY <1>1
  <2> QED BY <2>1, <2>2
<1>3. K(Len(cs))
  BY <1>1, <1>2
<1>4. n \in 0..Len(cs) /\ K(n)
  <2> HIDE DEF K
  <2>1. Len(cs) \in 0..Len(cs)
    BY <1>1
  <2> QED BY <1>3, <2>1
<1>5. n = Len(cs)
  <2> HIDE DEF n
  <2>1. n \in 0..Len(cs)
    BY <1>4
  <2>2. Len(cs) # 0 => Len(cs) <= n
    <3> SUFFICES ASSUME Len(cs) # 0 PROVE Len(cs) <= n
      OBVIOUS
    <3>1. Len(cs) \in DOMAIN cs
      BY <1>1
    <3> QED BY <1>2, <1>4, <3>1
  <2>3. Len(cs) \in Nat
    BY <1>1
  <2> HIDE DEF K
  <2> QED BY <2>1, <2>2, <2>3
<1>6. Readable(cs) = [i \in 1..n |-> cs[i].n]
  BY DEF Readable
<1> HIDE DEF n
<1> QED BY <1>5, <1>6 DEF Numbers

LEMMA NumbersGrow ==
  ASSUME NEW cs \in Seq(ChunkType), NEW c \in ChunkType
  PROVE  Numbers(Append(cs, c)) = Append(Numbers(cs), c.n)
<1> DEFINE ds == Append(cs, c)
<1>1. /\ ds \in Seq(ChunkType) /\ Len(ds) = Len(cs) + 1 /\ ds[Len(cs) + 1] = c
      /\ \A k \in 1..Len(cs) : ds[k] = cs[k]
  BY AppendProperties
<1>2. Len(cs) \in Nat /\ c.n \in 1..MaxEvents
  BY LenProperties DEF ChunkType
<1> HIDE DEF ds
<1>3. /\ Numbers(cs) \in Seq(1..MaxEvents) /\ Len(Numbers(cs)) = Len(cs)
      /\ \A i \in 1..Len(cs) : Numbers(cs)[i] = cs[i].n
  BY NumbersSeq
<1>4. /\ Numbers(ds) \in Seq(1..MaxEvents) /\ Len(Numbers(ds)) = Len(cs) + 1
      /\ \A i \in 1..Len(cs) + 1 : Numbers(ds)[i] = ds[i].n
  BY <1>1, NumbersSeq
<1>5. /\ Append(Numbers(cs), c.n) \in Seq(1..MaxEvents)
      /\ Len(Append(Numbers(cs), c.n)) = Len(cs) + 1
      /\ \A i \in 1..Len(cs) : Append(Numbers(cs), c.n)[i] = Numbers(cs)[i]
      /\ Append(Numbers(cs), c.n)[Len(cs) + 1] = c.n
  BY <1>2, <1>3, AppendProperties
<1>6. ASSUME NEW i \in 1..Len(cs) + 1 PROVE Numbers(ds)[i] = Append(Numbers(cs), c.n)[i]
  <2>1. CASE i = Len(cs) + 1
    BY <1>1, <1>4, <1>5, <2>1
  <2>2. CASE i \in 1..Len(cs)
    BY <1>1, <1>3, <1>4, <1>5, <2>2
  <2>3. i = Len(cs) + 1 \/ i \in 1..Len(cs)
    BY <1>2
  <2> QED BY <2>1, <2>2, <2>3
<1>7. Numbers(ds) = Append(Numbers(cs), c.n)
  BY <1>4, <1>5, <1>6, SeqEqual
<1> QED BY <1>7 DEF ds

(* The variables of EventStore, in those of Agent. *)
Kept == [x \in Clean |-> Readable(disk[x].chunks)]
Answered == {a[2] : a \in {b \in acked : b[1] \in Clean}}
Spoiled == dirty \union reused

LEMMA KeptNumbers ==
  ASSUME Files
  PROVE  \A x \in Clean : /\ disk[x].chunks \in Seq(ChunkType) /\ Kept[x] = Numbers(disk[x].chunks)
                          /\ S!ToSet(Kept[x]) = {disk[x].chunks[i].n : i \in DOMAIN disk[x].chunks}
<1> SUFFICES ASSUME NEW x \in Clean
             PROVE  /\ disk[x].chunks \in Seq(ChunkType) /\ Kept[x] = Numbers(disk[x].chunks)
                    /\ S!ToSet(Kept[x]) = {disk[x].chunks[i].n : i \in DOMAIN disk[x].chunks}
  OBVIOUS
<1>1. ChunksInv(disk[x].chunks, disk[x].size)
  BY DEF Files, FileInv
<1>2. disk[x].chunks \in Seq(ChunkType)
  BY <1>1 DEF ChunksInv
<1>3. Kept[x] = Numbers(disk[x].chunks)
  BY <1>1, AllReadable DEF Kept
<1>4. DOMAIN disk[x].chunks = 1..Len(disk[x].chunks)
  BY <1>2, LenProperties
<1>5. S!ToSet(Numbers(disk[x].chunks)) = {disk[x].chunks[i].n : i \in DOMAIN disk[x].chunks}
  <2> DEFINE cs == disk[x].chunks
  <2>1. DOMAIN Numbers(cs) = 1..Len(cs) /\ \A i \in 1..Len(cs) : Numbers(cs)[i] = cs[i].n
    BY <1>2, NumbersSeq
  <2>2. DOMAIN cs = 1..Len(cs)
    BY <1>4
  <2> HIDE DEF cs
  <2>3. {Numbers(cs)[i] : i \in DOMAIN Numbers(cs)} = {cs[i].n : i \in DOMAIN cs}
    BY <2>1, <2>2
  <2> QED BY <2>3 DEF S!ToSet, cs
<1> QED BY <1>2, <1>3, <1>5

LEMMA InitMaps == Init => S!Init
<1> SUFFICES ASSUME Init PROVE S!Init
  OBVIOUS
<1>1. Clean = {} /\ acked = {} /\ dirty \union reused = {}
  BY DEF Init, Clean
<1>2. [x \in Clean |-> Readable(disk[x].chunks)] = << >>
  BY <1>1
<1> QED BY <1>1, <1>2 DEF S!Init

LEMMA StutterMaps ==
  ASSUME Clean' = Clean, acked' = acked, Spoiled' = Spoiled,
         \A x \in Clean : disk'[x].chunks = disk[x].chunks
  PROVE  UNCHANGED S!vars
<1>1. [x \in Clean' |-> Readable(disk'[x].chunks)] = [x \in Clean |-> Readable(disk[x].chunks)]
  OBVIOUS
<1>2. {a[2] : a \in {b \in acked' : b[1] \in Clean'}} = {a[2] : a \in {b \in acked : b[1] \in Clean}}
  OBVIOUS
<1> QED BY <1>1, <1>2 DEF S!vars, Spoiled

(* Payloads of different files are different, so a file takes its own with *)
(* it when it is spoiled.                                                  *)
LEMMA SpoilMaps ==
  ASSUME IInv, NEW x \in Clean, Clean' = Clean \ {x}, acked' = acked, Spoiled' = Spoiled \union {x},
         \A y \in Clean' : disk'[y].chunks = disk[y].chunks
  PROVE  S!Next
<1>1. AgentType /\ AckInv /\ Files /\ OneFile
  BY DEF IInv
<1>2. x \in Names
  BY <1>1 DEF AgentType, Clean
<1>3. Kept' = [y \in Clean \ {x} |-> Kept[y]]
  BY DEF Kept
<1>4. DOMAIN Kept = Clean
  BY DEF Kept
<1>5. Answered' = Answered \ S!ToSet(Kept[x])
  <2> DEFINE cs == disk[x].chunks
  <2>1. S!ToSet(Kept[x]) = {cs[i].n : i \in DOMAIN cs}
    BY <1>1, KeptNumbers
  <2>2. ASSUME NEW a \in acked, a[1] \in Clean
        PROVE  a[2] \in {cs[i].n : i \in DOMAIN cs} <=> a[1] = x
    <3>1. ASSUME a[1] = x PROVE a[2] \in {cs[i].n : i \in DOMAIN cs}
      BY <1>1, <3>1 DEF AckInv, AckedKept, Range
    <3>2. ASSUME NEW i \in DOMAIN cs, a[2] = cs[i].n PROVE a[1] = x
      <4>1. PICK j \in DOMAIN disk[a[1]].chunks : disk[a[1]].chunks[j].n = a[2]
        BY <1>1, <2>2 DEF AckInv, AckedKept, Range
      <4> QED BY <1>1, <2>2, <3>2, <4>1 DEF OneFile
    <3> QED BY <3>1, <3>2
  <2>3. Answered = {a[2] : a \in {b \in acked : b[1] \in Clean}}
        /\ Answered' = {a[2] : a \in {b \in acked : b[1] \in Clean /\ b[1] # x}}
    BY DEF Answered
  <2> HIDE DEF cs
  <2>4. Answered' \subseteq Answered \ {cs[i].n : i \in DOMAIN cs}
    BY <2>2, <2>3
  <2>5. Answered \ {cs[i].n : i \in DOMAIN cs} \subseteq Answered'
    BY <2>2, <2>3
  <2> QED BY <2>1, <2>4, <2>5
<1>6. S!Restrict(Kept, DOMAIN Kept \ {x}) = [y \in Clean \ {x} |-> Kept[y]]
  BY <1>4 DEF S!Restrict
<1>7. /\ x \in DOMAIN Kept /\ Spoiled' = Spoiled \union {x}
      /\ Kept' = S!Restrict(Kept, DOMAIN Kept \ {x})
      /\ Answered' = Answered \ S!ToSet(Kept[x])
  BY <1>3, <1>4, <1>5, <1>6
<1>8. S!Spoil(x)
  BY <1>7 DEF S!Spoil, Kept, Answered, Spoiled
<1> QED BY <1>2, <1>8 DEF S!Next

LEMMA OpenedMaps ==
  ASSUME IInv, NEW name, Opened(name)
  PROVE  S!Next \/ UNCHANGED S!vars
<1>1. AgentType /\ AckInv
  BY DEF IInv
<1>2. /\ DOMAIN disk' = DOMAIN disk \union {name}
      /\ \A x \in DOMAIN disk : disk'[x] = disk[x]
      /\ name \notin DOMAIN disk => /\ disk'[name] = [size |-> 0, chunks |-> << >>]
                                    /\ Clean' = Clean \union {name} /\ name \notin dirty \union reused
      /\ name \in DOMAIN disk => Clean' = Clean \ {name}
  BY OpenedCleans
<1>3. acked' = acked /\ dirty' = dirty
  BY DEF Opened
<1>4. name \in Names
  BY <1>1 DEF Opened, AgentType, WriteType, Writing, Names
<1>5. CASE name \notin DOMAIN disk
  <2>1. Clean' = Clean \union {name} /\ name \notin Clean /\ name \notin Spoiled /\ Spoiled' = Spoiled
    BY <1>2, <1>3, <1>5 DEF Opened, Spoiled, Clean
  <2>2. Readable(disk'[name].chunks) = << >>
    <3>1. DOMAIN << >> = {} /\ << >> \in Seq(ChunkType)
      OBVIOUS
    <3>2. ChunksInv(<< >>, 0)
      BY <3>1 DEF ChunksInv
    <3>3. Readable(<< >>) = Numbers(<< >>)
      BY <3>2, AllReadable
    <3>4. Numbers(<< >>) \in Seq(1..MaxEvents) /\ Len(Numbers(<< >>)) = 0
      BY <3>1, NumbersSeq
    <3>5. Numbers(<< >>) = << >>
      BY <3>4, EmptySeq
    <3> QED BY <1>2, <1>5, <3>3, <3>5
  <2>3. \A x \in Clean : disk'[x].chunks = disk[x].chunks
    BY <1>2 DEF Clean
  <2>4. DOMAIN Kept = Clean
    BY DEF Kept
  <2>5. Kept' = [y \in DOMAIN Kept \union {name} |-> IF y = name THEN << >> ELSE Kept[y]]
    BY <2>1, <2>2, <2>3, <2>4 DEF Kept
  <2>6. Answered' = Answered
    <3>1. \A a \in acked : a[1] # name
      BY <1>1, <1>5 DEF AckInv
    <3> QED BY <1>3, <2>1, <3>1 DEF Answered
  <2>7. name \notin DOMAIN Kept \union Spoiled
    BY <2>1, <2>4
  <2>8. S!Create(name)
    BY <2>1, <2>5, <2>6, <2>7 DEF S!Create, Kept, Answered, Spoiled
  <2> QED BY <1>4, <2>8 DEF S!Next
<1>6. CASE name \in Clean
  <2>1. name \in DOMAIN disk
    BY <1>6 DEF Clean
  <2>2. Clean' = Clean \ {name} /\ Spoiled' = Spoiled \union {name}
    BY <1>2, <1>3, <2>1 DEF Opened, Spoiled
  <2>3. \A x \in Clean' : disk'[x].chunks = disk[x].chunks
    BY <1>2, <2>2 DEF Clean
  <2> QED BY <1>3, <1>6, <2>2, <2>3, SpoilMaps
<1>7. CASE name \in DOMAIN disk \ Clean
  <2>1. Clean' = Clean /\ Spoiled' = Spoiled
    BY <1>2, <1>3, <1>7 DEF Opened, Spoiled, Clean
  <2>2. \A x \in Clean : disk'[x].chunks = disk[x].chunks
    BY <1>2 DEF Clean
  <2> QED BY <1>3, <2>1, <2>2, StutterMaps
<1> QED BY <1>5, <1>6, <1>7

LEMMA FailMaps ==
  ASSUME IInv, Writing, FailTouches
  PROVE  S!Next \/ UNCHANGED S!vars
<1> DEFINE name == fil[ev.l].name
<1>1. AgentType /\ ev.l \in LabelSets
  BY DEF IInv, AgentType, WriteType
<1>2. /\ Clean' \subseteq Clean
      /\ \A x \in Clean : x \in Clean' <=> fil[ev.l] = None \/ x # name
      /\ \A x \in Clean' : disk'[x] = disk[x]
  BY FailCleans
<1>3. acked' = acked /\ reused' = reused
      /\ dirty' = dirty \union (IF fil[ev.l] = None THEN {} ELSE {name})
  BY DEF FailTouches, Dirty
<1>4. CASE fil[ev.l] # None /\ name \in Clean
  <2>1. Clean' = Clean \ {name} /\ Spoiled' = Spoiled \union {name}
    BY <1>2, <1>3, <1>4 DEF Spoiled
  <2> QED BY <1>2, <1>3, <1>4, <2>1, SpoilMaps
<1>5. CASE fil[ev.l] = None \/ name \notin Clean
  <2>1. Clean' = Clean
    BY <1>2, <1>5
  <2>2. Spoiled' = Spoiled
    <3>1. fil[ev.l] # None => name \in DOMAIN disk
      BY <1>1 DEF AgentType
    <3> QED BY <1>3, <1>5, <3>1 DEF Spoiled, Clean
  <2> QED BY <1>2, <1>3, <2>1, <2>2, StutterMaps
<1> QED BY <1>4, <1>5

(* A chunk is added to a file, answered or not. *)
LEMMA GrownMaps ==
  ASSUME IInv, Grown, acked' \in {acked, acked \union {<<fil[ev.l].name, ev.n>>}}
  PROVE  S!Next \/ UNCHANGED S!vars
<1> DEFINE name == fil[ev.l].name
           cs == disk[name].chunks
           c == Chunk(disk[name], Sent(ev.l))
<1>1. AgentType /\ AckInv /\ Files
  BY DEF IInv
<1>2. Clean' = Clean /\ \A x \in Clean \ {name} : disk'[x] = disk[x]
  BY GrownFiles DEF Clean
<1>3. Spoiled' = Spoiled /\ Writing
  BY DEF Grown, Spoiled, Writing
<1>4. ev.n \in 1..MaxEvents /\ name \in DOMAIN disk
  BY SentTypes DEF Grown
<1>5. CASE name \in Clean
  <2>1. /\ c \in ChunkType /\ cs \in Seq(ChunkType) /\ c.n = ev.n
        /\ Appended(disk[name], Sent(ev.l)) = [size |-> disk[name].size + Sent(ev.l).len, chunks |-> Append(cs, c)]
        /\ ChunksInv(Append(cs, c), disk[name].size + Sent(ev.l).len)
    BY <1>5, SentFollows DEF Grown
  <2>2. disk'[name] = Appended(disk[name], Sent(ev.l))
    BY <1>4 DEF Grown
  <2>3. disk'[name].chunks = Append(cs, c)
    <3> HIDE DEF cs, c
    <3> QED BY <2>1, <2>2
  <2>4. Kept[name] = Numbers(cs)
    BY <1>1, <1>5, KeptNumbers
  <2>5. Readable(Append(cs, c)) = Append(Kept[name], ev.n)
    <3>1. Readable(Append(cs, c)) = Numbers(Append(cs, c))
      BY <2>1, AllReadable
    <3> HIDE DEF cs, c
    <3>2. Numbers(Append(cs, c)) = Append(Numbers(cs), c.n)
      BY <2>1, NumbersGrow
    <3> QED BY <2>1, <2>4, <3>1, <3>2
  <2>6. DOMAIN Kept = Clean
    BY DEF Kept
  <2> DEFINE grown == Append(Kept[name], ev.n)
  <2> HIDE DEF cs, c
  <2>7. Kept' = [Kept EXCEPT ![name] = grown]
    <3>1. ASSUME NEW y \in Clean
          PROVE  Readable(disk'[y].chunks) = IF y = name THEN grown ELSE Readable(disk[y].chunks)
      BY <1>2, <2>3, <2>5
    <3>2. Kept' = [y \in Clean |-> Readable(disk'[y].chunks)]
      BY <1>2 DEF Kept
    <3> HIDE DEF grown
    <3> QED BY <1>2, <3>1, <3>2 DEF Kept
  <2>8. Answered' \in {Answered, Answered \union {ev.n}}
    <3>1. CASE acked' = acked
      BY <1>2, <3>1 DEF Answered
    <3>2. CASE acked' = acked \union {<<name, ev.n>>}
      <4>1. Answered' = {a[2] : a \in {b \in acked \union {<<name, ev.n>>} : b[1] \in Clean}}
        BY <1>2, <3>2 DEF Answered
      <4>2. Answered \subseteq Answered'
        BY <4>1 DEF Answered
      <4>3. ev.n \in Answered'
        <5>1. <<name, ev.n>> \in {b \in acked \union {<<name, ev.n>>} : b[1] \in Clean}
          BY <1>5
        <5>2. <<name, ev.n>>[2] = ev.n
          OBVIOUS
        <5> QED BY <4>1, <5>1, <5>2
      <4>4. Answered' \subseteq Answered \union {ev.n}
        BY <4>1 DEF Answered
      <4> QED BY <4>2, <4>3, <4>4
    <3> QED BY <3>1, <3>2
  <2>9. \A y \in Clean : \A m \in S!ToSet(Kept[y]) : m < ev.n /\ m \in Int
    <3> SUFFICES ASSUME NEW y \in Clean PROVE \A m \in S!ToSet(Kept[y]) : m < ev.n /\ m \in Int
      OBVIOUS
    <3>1. S!ToSet(Kept[y]) = {disk[y].chunks[i].n : i \in DOMAIN disk[y].chunks}
      BY <1>1, KeptNumbers
    <3>2. \A i \in DOMAIN disk[y].chunks : disk[y].chunks[i].n < ev.n /\ disk[y].chunks[i].n \in Int
      <4>1. FileInv(y)
        BY <1>1 DEF Files
      <4>2. \A i \in DOMAIN disk[y].chunks : disk[y].chunks[i].n \in Int
        BY <4>1, ChunkNumbers
      <4> QED BY <1>3, <4>1, <4>2 DEF FileInv
    <3> QED BY <3>1, <3>2
  <2>10. name \in Names
    BY <1>1, <1>4 DEF AgentType
  <2>11. ASSUME NEW x \in Names, NEW n \in 1..MaxEvents, x = name, n = ev.n PROVE S!Store(x, n)
    <3>1. /\ x \in DOMAIN Kept /\ Spoiled' = Spoiled
          /\ Answered' \in {Answered, Answered \union {n}}
          /\ Kept' = [Kept EXCEPT ![x] = Append(Kept[x], n)]
      BY <1>3, <1>5, <2>6, <2>7, <2>8, <2>11
    <3>2. /\ \A m \in S!ToSet(Kept[x]) : m < n
          /\ \A y \in DOMAIN Kept : n \notin S!ToSet(Kept[y])
      BY <1>4, <1>5, <2>6, <2>9, <2>11
    <3> QED BY <3>1, <3>2 DEF S!Store, Kept, Answered, Spoiled
  <2>12. \E x \in Names, n \in 1..MaxEvents : x = name /\ n = ev.n
    BY <1>4, <2>10
  <2> QED BY <2>11, <2>12 DEF S!Next
<1>6. CASE name \notin Clean
  <2>1. Kept' = Kept
    BY <1>2, <1>6 DEF Kept
  <2>2. Answered' = Answered
    BY <1>2, <1>6 DEF Answered
  <2> QED BY <1>3, <2>1, <2>2 DEF S!vars, Kept, Answered, Spoiled
<1> QED BY <1>5, <1>6

(* The Agent implements the abstract EventStore: what can be read back of  *)
(* a file that is not spoiled grows by one payload no file has, that is    *)
(* acknowledged in the same step unless the process dies in between        *)
(* (agent.go:257 and 266), and by nothing else; opening, padding,          *)
(* resetting and dying elsewhere are steps of it or no steps at all.       *)
THEOREM StoreImplemented == Spec => ImplementsEventStore
<1>1. IInv /\ [Next]_vars => [S!Next]_S!vars
  <2> SUFFICES ASSUME IInv, [Next]_vars PROVE S!Next \/ UNCHANGED S!vars
    OBVIOUS
  <2>1. CASE Next
    <3>1. ASSUME NEW l \in LabelSets, NEW ts \in Stamps, NEW len \in Lens, Receive(l, ts, len)
          PROVE  UNCHANGED S!vars
      <4>1. UNCHANGED <<disk, acked, dirty, reused>>
        BY <3>1 DEF Receive, history
      <4> QED BY <4>1, StutterMaps DEF Clean, Spoiled
    <3>2. ASSUME NEW name, Opened(name) PROVE S!Next \/ UNCHANGED S!vars
      BY <3>2, OpenedMaps
    <3>3. CASE Fits
      <4>1. UNCHANGED <<disk, acked, dirty, reused>>
        BY <3>3 DEF Fits
      <4> QED BY <4>1, StutterMaps DEF Clean, Spoiled
    <3>4. CASE StartsBlock
      <4>1. Clean' = Clean /\ \A x \in Clean : disk'[x].chunks = disk[x].chunks
        BY <3>4, StartBlockInv DEF StartsBlock
      <4>2. UNCHANGED <<acked, dirty, reused>>
        BY <3>4 DEF StartsBlock
      <4> QED BY <4>1, <4>2, StutterMaps DEF Spoiled
    <3>5. CASE Stored
      BY <3>5, GrownMaps DEF Stored, Grown
    <3>6. CASE Lost
      <4>1. Clean' = Clean /\ \A x \in Clean : disk'[x].chunks = disk[x].chunks
        BY <3>6, LostInv
      <4>2. UNCHANGED <<acked, dirty, reused>>
        BY <3>6 DEF Lost, Restart, history
      <4> QED BY <4>1, <4>2, StutterMaps DEF Spoiled
    <3>9. CASE Unanswered
      BY <3>9, GrownMaps DEF Unanswered, Restart, history
    <3>7. CASE Quiet
      <4>1. UNCHANGED <<disk, acked, dirty, reused>>
        BY <3>7 DEF Quiet, history
      <4> QED BY <4>1, StutterMaps DEF Clean, Spoiled
    <3>8. CASE Writing /\ FailTouches
      BY <3>8, FailMaps
    <3> QED BY <2>1, <3>1, <3>2, <3>3, <3>4, <3>5, <3>6, <3>7, <3>8, <3>9, Steps
  <2>2. CASE UNCHANGED vars
    <3>1. UNCHANGED <<disk, acked, dirty, reused>>
      BY <2>2 DEF vars, history
    <3> QED BY <3>1, StutterMaps DEF Clean, Spoiled
  <2> QED BY <2>1, <2>2
<1> QED BY <1>1, InitMaps, Inductive, PTL DEF Spec, ImplementsEventStore, S!Spec

=============================================================================
