------------------------------ MODULE CatProofs ------------------------------
(***************************************************************************)
(* What is proved of `tlog cat`, for any files, windows and bounds: it     *)
(* waits only when it is up to date with every file no change of which is  *)
(* queued, and prints the events of a file whole, once and in order.       *)
(***************************************************************************)
EXTENDS Cat, SequenceTheorems, TLAPS

-----------------------------------------------------------------------------
(* The inductive invariant.  Types first.                                  *)

Reader == [pos : Nat, buf : Seq(Nat)]
ChangeType == [by : {"dir", "file"}, op : {"create", "write"}, f : Files]
Going == pc \notin {"end", "failed"}
At(f) == cur = f /\ pc \in {"open", "read", "seek"}

CatType ==
  /\ dir \in BOOLEAN /\ follow \in BOOLEAN /\ head \in Heads
  /\ args \subseteq Files /\ present \subseteq Files /\ (dir => args = {})
  /\ data \in [Files -> Seq(Nat)] /\ units \in [Files -> Nat]
  /\ queue \in Seq(ChangeType) /\ fileW \subseteq Files /\ todo \subseteq Files
  /\ pc \in {"start", "list", "add", "open", "read", "seek", "wait", "end", "failed"}
  /\ (pc \in {"open", "read", "seek"} => cur \in Files)
  /\ onEvent \in BOOLEAN
  /\ rd \in [Files -> Reader \union {None}]
  /\ (pc \in {"read", "seek"} => rd[cur] # None)
  /\ left \in Nat \union {Off} /\ (pc = "read" /\ ~onEvent /\ head # Off => left \in Nat)
  /\ out \in [Files -> Seq(Nat)] /\ added \in [Files -> Nat]

(* cat follows files only when it was told to; a wait has nothing to add.  *)
Follows ==
  /\ (onEvent \/ pc = "wait") => follow
  /\ pc = "wait" \/ (onEvent /\ pc \in {"read", "seek"}) => todo = {}

(* Directory and files are watched before they are listed and opened.      *)
Watched ==
  Going /\ follow =>
    /\ dir /\ pc # "start" => dirW
    /\ \A f \in Files : rd[f] # None \/ At(f) => f \in fileW

(* A file that belongs to the ones to print has its reader, or is about to *)
(* get one: it is to be added, or its creation is queued.                  *)
Created(f) == \E i \in DOMAIN queue : queue[i].f = f /\ queue[i].op = "create"
Listed ==
  /\ pc \in {"start", "list"} => todo = args
  /\ pc = "list" => dir
  /\ Going =>
       \A f \in Files :
         f \in args \/ (dir /\ follow /\ f \in present /\ pc \notin {"start", "list"}) =>
           rd[f] # None \/ f \in todo \/ At(f) \/ Created(f)

(* A reader that is not at the end of its file will be read on: the file   *)
(* is to be added again, is being read, or a change of it is queued.       *)
UpToDate(f) == rd[f].pos <= Len(data[f]) /\ (f \notin truncated => rd[f].pos = Len(data[f]))
Unread ==
  Going /\ follow =>
    \A f \in Files : rd[f] # None =>
      /\ UpToDate(f) \/ Pending(f) \/ f \in todo \/ At(f)
      /\ At(f) /\ pc = "seek" => Pending(f) \/ rd[f].pos >= Len(data[f])

(* What a reader of a file that was never truncated holds: the events      *)
(* printed and half an event at most.                                      *)
Whole(f) == data[f] = [i \in 1..units[f] |-> i]
Half(r) == r.buf = [i \in 1..r.pos % 2 |-> r.pos]
Reads ==
  \A f \in Files \ truncated :
    /\ Whole(f)
    /\ rd[f] # None => rd[f].pos <= Len(data[f]) /\ Half(rd[f])
    /\ added[f] = 0 <=> rd[f] = None
    /\ rd[f] = None => out[f] = << >>

Fewer(m, n) == IF n < m THEN n ELSE m
Prints ==
  \A f \in Files \ truncated : added[f] = 1 =>
    LET n == rd[f].pos \div 2 IN
      /\ head = Off => out[f] = FirstEvents(n)
      /\ head # Off /\ ~follow => out[f] = FirstEvents(Fewer(head, n))
      /\ head # Off /\ pc = "read" /\ cur = f /\ ~onEvent => left = IF n < head THEN head - n ELSE 0
      /\ \A i \in 1..Len(out[f]) : out[f][i] \in 1..n
      /\ \A i \in 1..Len(out[f]) - 1 : out[f][i] < out[f][i + 1]

IInv == CatType /\ Follows /\ Watched /\ Listed /\ Unread /\ Reads /\ Prints

-----------------------------------------------------------------------------
(* What inotify queues. *)

LEMMA QueuedIs ==
  ASSUME NEW q \in Seq(ChangeType), NEW x \in ChangeType, NEW p \in Queued(q, x)
  PROVE  /\ p \in Seq(ChangeType)
         /\ \A i \in DOMAIN q : i \in DOMAIN p /\ p[i] = q[i]
         /\ \E i \in DOMAIN p : p[i] = x
<1>1. CASE p = Append(q, x)
  <2>1. p \in Seq(ChangeType) /\ Len(p) = Len(q) + 1 /\ p[Len(q) + 1] = x
        /\ \A i \in 1..Len(q) : p[i] = q[i]
    BY <1>1, AppendProperties
  <2>2. DOMAIN q = 1..Len(q) /\ DOMAIN p = 1..Len(p) /\ Len(q) \in Nat
    BY <2>1
  <2>3. \A i \in DOMAIN q : i \in DOMAIN p /\ p[i] = q[i]
    BY <2>1, <2>2
  <2>4. Len(q) + 1 \in DOMAIN p
    BY <2>1, <2>2
  <2> QED BY <2>1, <2>3, <2>4
<1>2. CASE p = q /\ q # << >> /\ Last(q) = x
  <2>1. Len(q) \in DOMAIN q /\ q[Len(q)] = x
    BY <1>2 DEF Last
  <2> QED BY <1>2, <2>1
<1> QED BY <1>1, <1>2 DEF Queued

LEMMA Notified ==
  ASSUME CatType, NEW f \in Files, NEW op \in {"create", "write"}, Notify(f, op)
  PROVE  /\ queue' \in Seq(ChangeType)
         /\ \A g \in Files : (Pending(g) => Pending(g)') /\ (Created(g) => Created(g)')
         /\ f \in fileW => Pending(f)'
         /\ dirW /\ op = "create" => Created(f)' /\ Pending(f)'
<1> DEFINE byDir == [by |-> "dir", op |-> op, f |-> f]
           byFile == [by |-> "file", op |-> op, f |-> f]
<1>1. byDir \in ChangeType /\ byFile \in ChangeType /\ queue \in Seq(ChangeType)
  BY DEF ChangeType, CatType
<1>2. PICK q \in (IF dirW THEN Queued(queue, byDir) ELSE {queue}) :
        queue' \in IF f \in fileW THEN Queued(q, byFile) ELSE {q}
  BY DEF Notify
<1>3. /\ q \in Seq(ChangeType)
      /\ \A i \in DOMAIN queue : i \in DOMAIN q /\ q[i] = queue[i]
      /\ dirW => \E i \in DOMAIN q : q[i] = byDir
  <2>1. CASE dirW
    <3> HIDE DEF byDir, byFile
    <3>1. q \in Queued(queue, byDir)
      BY <1>2, <2>1
    <3> QED BY <1>1, <3>1, QueuedIs
  <2>2. CASE ~dirW
    BY <1>1, <1>2, <2>2
  <2> QED BY <2>1, <2>2
<1>4. /\ queue' \in Seq(ChangeType)
      /\ \A i \in DOMAIN q : i \in DOMAIN queue' /\ queue'[i] = q[i]
      /\ f \in fileW => \E i \in DOMAIN queue' : queue'[i] = byFile
  <2>1. CASE f \in fileW
    <3> HIDE DEF byDir, byFile
    <3>1. queue' \in Queued(q, byFile)
      BY <1>2, <2>1
    <3> DEFINE p == queue'
    <3>2. p \in Queued(q, byFile)
      BY <3>1
    <3> HIDE DEF p
    <3>3. /\ p \in Seq(ChangeType)
          /\ \A i \in DOMAIN q : i \in DOMAIN p /\ p[i] = q[i]
          /\ \E i \in DOMAIN p : p[i] = byFile
      BY <1>1, <1>3, <3>2, QueuedIs
    <3> QED BY <3>3 DEF p
  <2>2. CASE f \notin fileW
    BY <1>2, <1>3, <2>2
  <2> QED BY <2>1, <2>2
<1>5. \A i \in DOMAIN queue : i \in DOMAIN queue' /\ queue'[i] = queue[i]
  BY <1>3, <1>4
<1>6. \A g \in Files : (Pending(g) => Pending(g)') /\ (Created(g) => Created(g)')
  BY <1>5 DEF Pending, Created
<1>7. f \in fileW => Pending(f)'
  BY <1>4 DEF Pending
<1>8. dirW => \E i \in DOMAIN queue' : queue'[i] = byDir
  BY <1>3, <1>4
<1>9. dirW /\ op = "create" => Created(f)' /\ Pending(f)'
  BY <1>8 DEF Created, Pending
<1> QED BY <1>4, <1>6, <1>7, <1>9

LEMMA InitHolds == Init => IInv
<1> SUFFICES ASSUME Init PROVE IInv
  OBVIOUS
<1> USE DEF Init
<1>1. CatType
  <2>1. << >> \in Seq(Nat) /\ << >> \in Seq(ChangeType)
    OBVIOUS
  <2>2. left \in Nat \union {Off} /\ (dir => args = {}) /\ args \subseteq Files
    OBVIOUS
  <2> QED BY <2>1, <2>2 DEF CatType
<1>2. Follows /\ Watched /\ Listed /\ Unread
  BY DEF Follows, Watched, Listed, Unread, At
<1>3. Reads
  <2>1. [i \in 1..0 |-> i] = << >>
    OBVIOUS
  <2> QED BY <2>1 DEF Reads, Whole
<1>4. Prints
  BY DEF Prints
<1> QED BY <1>1, <1>2, <1>3, <1>4 DEF IInv

-----------------------------------------------------------------------------
(* The programs that write the files. *)

LEMMA CreateKeeps ==
  ASSUME IInv, NEW f \in Files, Going, Create(f)
  PROVE  IInv'
<1> USE DEF IInv
<1>1. /\ UNCHANGED <<dir, follow, head, tail, args>> /\ UNCHANGED <<data, units, truncated, dirW, fileW, pc>>
      /\ UNCHANGED <<todo, cur, onEvent, rd, left, out, added>>
      /\ dir /\ present' = present \union {f} /\ Notify(f, "create")
  BY DEF Create, flags, reading
<1>2. /\ queue' \in Seq(ChangeType)
      /\ \A g \in Files : (Pending(g) => Pending(g)') /\ (Created(g) => Created(g)')
      /\ dirW => Created(f)' /\ Pending(f)'
  BY <1>1, Notified
<1>3. CatType'
  BY <1>1, <1>2 DEF CatType
<1>4. Follows' /\ Watched' /\ Reads' /\ Prints'
  <2>1. Follows' /\ Watched'
    BY <1>1 DEF Follows, Watched, Going, At
  <2>2. Reads' /\ Prints'
    BY <1>1 DEF Reads, Whole, Half, Prints
  <2> QED BY <2>1, <2>2
<1>5. Listed'
  <2>1. ASSUME NEW g \in Files, g \in args \/ (dir /\ follow /\ g \in present' /\ pc \notin {"start", "list"})
        PROVE  rd[g] # None \/ g \in todo \/ At(g) \/ Created(g)'
    <3>1. CASE g = f /\ g \notin args
      BY <1>1, <1>2, <2>1, <3>1 DEF Watched
    <3>2. CASE g # f \/ g \in args
      BY <1>1, <1>2, <2>1, <3>2 DEF Listed
    <3> QED BY <3>1, <3>2
  <2> QED BY <1>1, <2>1 DEF Listed, Going, At
<1>6. Unread'
  BY <1>1, <1>2 DEF Unread, Going, At, UpToDate
<1> QED BY <1>3, <1>4, <1>5, <1>6

LEMMA GrowKeeps ==
  ASSUME IInv, NEW f \in Files, Going, Grow(f)
  PROVE  IInv'
<1> USE DEF IInv
<1>1. /\ UNCHANGED <<dir, follow, head, tail, args>> /\ UNCHANGED <<present, truncated, dirW, fileW, pc>>
      /\ UNCHANGED <<todo, cur, onEvent, rd, left, out, added>>
      /\ units' = [units EXCEPT ![f] = @ + 1]
      /\ data' = [data EXCEPT ![f] = Append(@, units'[f])]
      /\ Notify(f, "write")
  BY DEF Grow, flags, reading
<1>2. /\ queue' \in Seq(ChangeType)
      /\ \A g \in Files : (Pending(g) => Pending(g)') /\ (Created(g) => Created(g)')
      /\ f \in fileW => Pending(f)'
  BY <1>1, Notified
<1>3. data \in [Files -> Seq(Nat)] /\ units \in [Files -> Nat]
  BY DEF CatType
<1>4. /\ units' \in [Files -> Nat] /\ units'[f] = units[f] + 1
      /\ \A g \in Files : g # f => units'[g] = units[g] /\ data'[g] = data[g]
      /\ data'[f] = Append(data[f], units[f] + 1)
      /\ data' = [g \in Files |-> data'[g]]
  <2>1. units' \in [Files -> Nat] /\ units'[f] = units[f] + 1
        /\ \A g \in Files : g # f => units'[g] = units[g]
    BY <1>1, <1>3
  <2>2. data' = [data EXCEPT ![f] = Append(data[f], units[f] + 1)]
    BY <1>1, <2>1
  <2> DEFINE d == Append(data[f], units[f] + 1)
  <2>3. data' = [g \in Files |-> IF g = f THEN d ELSE data[g]]
    BY <1>3, <2>2
  <2> HIDE DEF d
  <2>4. data'[f] = d /\ (\A g \in Files : g # f => data'[g] = data[g]) /\ data' = [g \in Files |-> data'[g]]
    BY <2>3
  <2> QED BY <2>1, <2>4 DEF d
<1>5. /\ data'[f] \in Seq(Nat) /\ Len(data'[f]) = Len(data[f]) + 1
      /\ \A i \in 1..Len(data[f]) : data'[f][i] = data[f][i]
      /\ data'[f][Len(data[f]) + 1] = units[f] + 1
  <2> DEFINE d == data[f]
             n == units[f] + 1
  <2>1. d \in Seq(Nat) /\ n \in Nat
    BY <1>3
  <2> HIDE DEF d, n
  <2>2. /\ Append(d, n) \in Seq(Nat) /\ Len(Append(d, n)) = Len(d) + 1
        /\ \A i \in 1..Len(d) : Append(d, n)[i] = d[i]
        /\ Append(d, n)[Len(d) + 1] = n
    BY <2>1, AppendProperties
  <2> QED BY <1>4, <2>2 DEF d, n
<1>6. \A g \in Files : data'[g] \in Seq(Nat) /\ Len(data[g]) \in Nat /\ Len(data[g]) <= Len(data'[g])
  <2>1. ASSUME NEW g \in Files
        PROVE  data'[g] \in Seq(Nat) /\ Len(data[g]) \in Nat /\ Len(data[g]) <= Len(data'[g])
    <3>1. data[g] \in Seq(Nat) /\ Len(data[g]) \in Nat
      BY <1>3
    <3>2. CASE g = f
      BY <1>5, <3>1, <3>2
    <3>3. CASE g # f
      BY <1>4, <3>1, <3>3
    <3> QED BY <3>2, <3>3
  <2> QED BY <2>1
<1>7. CatType'
  <2>1. data' \in [Files -> Seq(Nat)]
    BY <1>4, <1>6
  <2> QED BY <1>1, <1>2, <1>4, <2>1 DEF CatType
<1>8. Follows' /\ Watched' /\ Prints'
  BY <1>1 DEF Follows, Watched, Going, At, Prints
<1>9. Listed'
  BY <1>1, <1>2 DEF Listed, Going, At
<1>10. Unread'
  <2>1. ASSUME follow, NEW g \in Files, rd[g] # None
        PROVE  /\ UpToDate(g)' \/ Pending(g)' \/ g \in todo \/ At(g)
               /\ At(g) /\ pc = "seek" => Pending(g)' \/ rd[g].pos >= Len(data'[g])
    <3>1. CASE g = f
      BY <1>1, <1>2, <2>1, <3>1 DEF Watched
    <3>2. CASE g # f
      <4>1. data'[g] = data[g]
        BY <1>4, <3>2
      <4> QED BY <1>1, <1>2, <2>1, <4>1 DEF Unread, UpToDate
    <3> QED BY <3>1, <3>2
  <2> QED BY <1>1, <2>1 DEF Unread, Going, At
<1>11. Reads'
  <2>1. ASSUME f \notin truncated PROVE Whole(f)'
    <3>1. data[f] = [i \in 1..units[f] |-> i] /\ units[f] \in Nat
      BY <1>3, <2>1 DEF Reads, Whole
    <3>2. Len(data[f]) = units[f]
      BY <3>1
    <3>3. \A i \in 1..units[f] + 1 : data'[f][i] = i
      <4>1. \A i \in 1..units[f] : data[f][i] = i
        BY <3>1
      <4>2. \A i \in 1..units[f] : data'[f][i] = i
        BY <1>5, <3>2, <4>1
      <4>3. data'[f][units[f] + 1] = units[f] + 1
        BY <1>5, <3>2
      <4>4. \A i \in 1..units[f] + 1 : i \in 1..units[f] \/ i = units[f] + 1
        BY <3>1
      <4> QED BY <4>2, <4>3, <4>4
    <3>4. data'[f] = [i \in 1..units[f] + 1 |-> data'[f][i]]
      <4> DEFINE d == data'[f]
      <4>1. d \in Seq(Nat) /\ Len(d) = units[f] + 1
        BY <1>5, <3>2
      <4> HIDE DEF d
      <4>2. d = [i \in 1..units[f] + 1 |-> d[i]]
        BY <4>1
      <4> QED BY <4>2 DEF d
    <3>5. data'[f] = [i \in 1..units[f] + 1 |-> i]
      BY <3>3, <3>4
    <3> QED BY <1>4, <3>5 DEF Whole
  <2>2. ASSUME NEW g \in Files \ truncated
        PROVE  /\ Whole(g)'
               /\ rd[g] # None => rd[g].pos <= Len(data'[g]) /\ Half(rd[g])
               /\ (added[g] = 0) <=> (rd[g] = None)
               /\ rd[g] = None => out[g] = << >>
    <3>1. Whole(g)'
      <4>1. CASE g = f
        BY <2>1, <4>1
      <4>2. CASE g # f
        BY <1>4, <4>2 DEF Reads, Whole
      <4> QED BY <4>1, <4>2
    <3>2. rd[g] # None => rd[g].pos \in Nat
      BY DEF CatType, Reader
    <3> QED BY <1>6, <3>1, <3>2 DEF Reads
  <2> QED BY <1>1, <2>2 DEF Reads, Half
<1> QED BY <1>7, <1>8, <1>9, <1>10, <1>11

LEMMA TruncateKeeps ==
  ASSUME IInv, NEW f \in Files, Going, Truncate(f)
  PROVE  IInv'
<1> USE DEF IInv
<1>1. /\ UNCHANGED <<dir, follow, head, tail, args>> /\ UNCHANGED <<present, dirW, fileW, pc>>
      /\ UNCHANGED <<todo, cur, onEvent, rd, left, out, added>>
      /\ data' = [data EXCEPT ![f] = << >>]
      /\ units' = [units EXCEPT ![f] = @ + (@ % 2)]
      /\ truncated' = truncated \union {f}
      /\ Notify(f, "write")
  BY DEF Truncate, flags, reading
<1>2. /\ queue' \in Seq(ChangeType)
      /\ \A g \in Files : (Pending(g) => Pending(g)') /\ (Created(g) => Created(g)')
      /\ f \in fileW => Pending(f)'
  BY <1>1, Notified
<1>3. data \in [Files -> Seq(Nat)] /\ units \in [Files -> Nat]
  BY DEF CatType
<1>4. /\ data' \in [Files -> Seq(Nat)] /\ units' \in [Files -> Nat]
      /\ \A g \in Files : g # f => units'[g] = units[g] /\ data'[g] = data[g]
  <2>1. units[f] + (units[f] % 2) \in Nat
    BY <1>3
  <2> QED BY <1>1, <1>3, <2>1
<1>5. CatType'
  BY <1>1, <1>2, <1>4 DEF CatType
<1>6. Follows' /\ Watched'
  BY <1>1 DEF Follows, Watched, Going, At
<1>7. Listed'
  BY <1>1, <1>2 DEF Listed, Going, At
<1>8. Unread'
  <2>1. ASSUME follow, NEW g \in Files, rd[g] # None
        PROVE  /\ UpToDate(g)' \/ Pending(g)' \/ g \in todo \/ At(g)
               /\ At(g) /\ pc = "seek" => Pending(g)' \/ rd[g].pos >= Len(data'[g])
    <3>1. CASE g = f
      BY <1>1, <1>2, <2>1, <3>1 DEF Watched
    <3>2. CASE g # f
      <4>1. data'[g] = data[g] /\ (g \in truncated' <=> g \in truncated)
        BY <1>1, <1>4, <3>2
      <4> QED BY <1>1, <1>2, <2>1, <4>1 DEF Unread, UpToDate
    <3> QED BY <3>1, <3>2
  <2> QED BY <1>1, <2>1 DEF Unread, Going, At
<1>9. \A g \in Files \ truncated' : g \in Files \ truncated /\ g # f
  BY <1>1
<1>10. Reads'
  <2>1. \A g \in Files \ truncated' : data'[g] = data[g] /\ units'[g] = units[g]
    BY <1>4, <1>9
  <2>2. ASSUME NEW g \in Files \ truncated'
        PROVE  /\ Whole(g)'
               /\ rd'[g] # None => rd'[g].pos <= Len(data'[g]) /\ Half(rd'[g])
               /\ (added'[g] = 0) <=> (rd'[g] = None)
               /\ rd'[g] = None => out'[g] = << >>
    <3>1. /\ Whole(g)
          /\ rd[g] # None => rd[g].pos <= Len(data[g]) /\ Half(rd[g])
          /\ (added[g] = 0) <=> (rd[g] = None)
          /\ rd[g] = None => out[g] = << >>
      BY <1>9 DEF Reads
    <3>2. rd' = rd /\ added' = added /\ out' = out
      BY <1>1
    <3> QED BY <2>1, <3>1, <3>2 DEF Whole
  <2> QED BY <2>2 DEF Reads
<1>11. Prints'
  BY <1>1, <1>9 DEF Prints
<1> QED BY <1>5, <1>6, <1>7, <1>8, <1>10, <1>11

-----------------------------------------------------------------------------
(* The steps of cat that only move on. *)

LEMMA StartKeeps == ASSUME IInv, Start PROVE IInv'
<1> USE DEF IInv
<1>1. /\ UNCHANGED <<dir, follow, head, tail, args>> /\ UNCHANGED <<present, data, units, truncated, queue, fileW>>
      /\ UNCHANGED <<todo, cur, onEvent, rd, left, out, added>>
      /\ pc = "start" /\ dirW' = (dir /\ follow) /\ pc' = IF dir THEN "list" ELSE "add"
  BY DEF Start, flags, disk, reading
<1>2. CatType' /\ Follows'
  BY <1>1 DEF CatType, Follows
<1>3. Watched'
  BY <1>1 DEF Watched, Going, At
<1>4. Listed'
  BY <1>1 DEF CatType, Listed, Going, At
<1>5. Unread'
  BY <1>1 DEF Unread, Going, At, UpToDate, Pending
<1>6. Reads' /\ Prints'
  BY <1>1 DEF Reads, Whole, Half, Prints
<1> QED BY <1>2, <1>3, <1>4, <1>5, <1>6

LEMMA ListKeeps == ASSUME IInv, List PROVE IInv'
<1> USE DEF IInv
<1>1. /\ UNCHANGED <<dir, follow, head, tail, args>> /\ UNCHANGED <<present, data, units, truncated, queue, dirW, fileW>>
      /\ UNCHANGED <<cur, onEvent, rd, left, out, added>>
      /\ pc = "list" /\ todo' = present /\ pc' = "add"
  BY DEF List, flags, disk, watch
<1>2. CatType' /\ Follows'
  BY <1>1 DEF CatType, Follows
<1>3. Watched'
  BY <1>1 DEF Watched, Going, At
<1>4. Listed'
  BY <1>1 DEF CatType, Listed, Going, At
<1>5. Unread'
  <2>1. ASSUME follow, NEW g \in Files, rd[g] # None
        PROVE  UpToDate(g) \/ Pending(g)
    <3>1. g \notin todo
      BY <1>1 DEF Listed, CatType
    <3> QED BY <1>1, <2>1, <3>1 DEF Unread, Going, At
  <2> QED BY <1>1, <2>1 DEF Unread, Going, At, UpToDate, Pending
<1>6. Reads' /\ Prints'
  BY <1>1 DEF Reads, Whole, Half, Prints
<1> QED BY <1>2, <1>3, <1>4, <1>5, <1>6

LEMMA AddDoneKeeps == ASSUME IInv, AddDone PROVE IInv'
<1> USE DEF IInv
<1>1. /\ UNCHANGED <<dir, follow, head, tail, args>> /\ UNCHANGED <<present, data, units, truncated, queue, dirW, fileW>>
      /\ UNCHANGED <<todo, cur, onEvent, rd, left, out, added>>
      /\ pc = "add" /\ todo = {} /\ pc' = IF follow THEN "wait" ELSE "end"
  BY DEF AddDone, flags, disk, watch, reading
<1>2. CatType' /\ Follows'
  BY <1>1 DEF CatType, Follows
<1>3. Watched'
  BY <1>1 DEF Watched, Going, At
<1>4. Listed'
  BY <1>1 DEF CatType, Listed, Going, At, Created
<1>5. Unread'
  BY <1>1 DEF Unread, Going, At, UpToDate, Pending
<1>6. Reads' /\ Prints'
  BY <1>1 DEF Reads, Whole, Half, Prints
<1> QED BY <1>2, <1>3, <1>4, <1>5, <1>6

LEMMA WatchKeeps == ASSUME IInv, Watch PROVE IInv'
<1> USE DEF IInv
<1>1. PICK f \in todo : cur' = f /\ todo' = todo \ {f} /\ fileW' = IF follow THEN fileW \union {f} ELSE fileW
  BY DEF Watch
<1>2. /\ UNCHANGED <<dir, follow, head, tail, args>> /\ UNCHANGED <<present, data, units, truncated, queue, dirW>>
      /\ UNCHANGED <<onEvent, rd, left, out, added>>
      /\ pc = "add" /\ pc' = "open"
  BY DEF Watch, flags, disk
<1>3. f \in Files
  BY DEF CatType
<1>4. CatType' /\ Follows'
  BY <1>1, <1>2, <1>3 DEF CatType, Follows
<1>5. Watched'
  BY <1>1, <1>2 DEF Watched, Going, At
<1>6. Listed'
  BY <1>1, <1>2 DEF CatType, Listed, Going, At, Created
<1>7. Unread'
  BY <1>1, <1>2 DEF Unread, Going, At, UpToDate, Pending
<1>8. Reads' /\ Prints'
  BY <1>2 DEF Reads, Whole, Half, Prints
<1> QED BY <1>4, <1>5, <1>6, <1>7, <1>8

LEMMA AtEndKeeps == ASSUME IInv, AtEnd PROVE IInv'
<1> USE DEF IInv
<1>1. /\ UNCHANGED <<dir, follow, head, tail, args>> /\ UNCHANGED <<present, data, units, truncated, queue, dirW, fileW>>
      /\ UNCHANGED <<todo, cur, onEvent, rd, left, out, added>>
      /\ pc = "read" /\ rd[cur].pos >= Len(data[cur]) /\ pc' = "seek"
  BY DEF AtEnd, flags, disk, watch, reading
<1>2. CatType' /\ Follows'
  BY <1>1 DEF CatType, Follows
<1>3. Watched'
  BY <1>1 DEF Watched, Going, At
<1>4. Listed'
  BY <1>1 DEF CatType, Listed, Going, At, Created
<1>5. Unread'
  BY <1>1 DEF Unread, Going, At, UpToDate, Pending
<1>6. Reads' /\ Prints'
  BY <1>1 DEF Reads, Whole, Half, Prints
<1> QED BY <1>2, <1>3, <1>4, <1>5, <1>6

LEMMA StopKeeps == ASSUME IInv, Interrupt \/ Fail PROVE IInv'
<1> USE DEF IInv
<1>1. /\ UNCHANGED <<dir, follow, head, tail, args>> /\ UNCHANGED <<present, data, units, truncated, queue, dirW, fileW>>
      /\ UNCHANGED <<todo, cur, onEvent, rd, left, out, added>>
      /\ pc' \in {"end", "failed"}
  BY DEF Interrupt, Fail, flags, disk, watch, reading
<1>2. CatType' /\ Follows'
  BY <1>1 DEF CatType, Follows
<1>3. Watched' /\ Listed' /\ Unread'
  BY <1>1 DEF Watched, Listed, Unread, Going
<1>4. Reads' /\ Prints'
  BY <1>1 DEF Reads, Whole, Half, Prints
<1> QED BY <1>2, <1>3, <1>4

-----------------------------------------------------------------------------
(* The steps of cat that read. *)

(* A new reader is at the start of its file. *)
LEMMA OpenKeeps == ASSUME IInv, Open PROVE IInv'
<1> USE DEF IInv
<1>1. /\ UNCHANGED <<dir, follow, head, tail, args>> /\ UNCHANGED <<present, data, units, truncated, queue, dirW, fileW>>
      /\ UNCHANGED <<todo, cur, out>>
      /\ pc = "open" /\ pc' = "read" /\ left' = head /\ onEvent' = FALSE
      /\ rd' = [rd EXCEPT ![cur] = [pos |-> 0, buf |-> << >>]]
      /\ added' = [added EXCEPT ![cur] = @ + 1]
  BY DEF Open, flags, disk, watch
<1>2. cur \in Files /\ rd \in [Files -> Reader \union {None}] /\ added \in [Files -> Nat]
  BY <1>1 DEF CatType
<1>3. /\ rd'[cur] = [pos |-> 0, buf |-> << >>] /\ rd'[cur] \in Reader /\ rd'[cur] # None
      /\ \A g \in Files : g # cur => rd'[g] = rd[g]
      /\ rd' \in [Files -> Reader \union {None}]
  <2>1. [pos |-> 0, buf |-> << >>] \in Reader
    BY DEF Reader
  <2> QED BY <1>1, <1>2, <2>1, NoneAssumption DEF Reader
<1>4. added' \in [Files -> Nat] /\ added'[cur] = added[cur] + 1 /\ \A g \in Files : g # cur => added'[g] = added[g]
  BY <1>1, <1>2
<1>5. CatType'
  <2>1. head \in Nat \union {Off}
    BY WindowsAssumption DEF CatType
  <2> QED BY <1>1, <1>2, <1>3, <1>4, <2>1 DEF CatType
<1>6. Follows'
  BY <1>1 DEF Follows
<1>7. Watched'
  BY <1>1, <1>2, <1>3 DEF Watched, Going, At
<1>8. Listed'
  BY <1>1, <1>2, <1>3 DEF Listed, Going, At, Created
<1>9. Unread'
  <2>1. ASSUME follow, NEW g \in Files, g # cur, rd[g] # None
        PROVE  UpToDate(g) \/ Pending(g) \/ g \in todo
    BY <1>1, <2>1 DEF Unread, Going, At
  <2> QED BY <1>1, <1>2, <1>3, <2>1 DEF Unread, Going, At, UpToDate, Pending
<1>10. Reads'
  <2>1. ASSUME NEW g \in Files \ truncated
        PROVE  /\ Whole(g)
               /\ rd'[g] # None => rd'[g].pos <= Len(data[g]) /\ Half(rd'[g])
               /\ (added'[g] = 0) <=> (rd'[g] = None)
               /\ rd'[g] = None => out[g] = << >>
    <3>1. CASE g = cur
      <4>1. rd'[g].pos = 0 /\ rd'[g].buf = << >> /\ rd'[g] # None /\ added'[g] # 0
        BY <1>2, <1>3, <1>4, <3>1
      <4>2. Half(rd'[g])
        <5>1. [i \in 1..0 |-> 0] = << >>
          OBVIOUS
        <5> QED BY <4>1, <5>1 DEF Half
      <4>3. 0 <= Len(data[g])
        BY DEF CatType
      <4> QED BY <4>1, <4>2, <4>3 DEF Reads
    <3>2. CASE g # cur
      BY <1>3, <1>4, <3>2 DEF Reads
    <3> QED BY <3>1, <3>2
  <2> QED BY <1>1, <2>1 DEF Reads, Whole
<1>11. Prints'
  <2>1. ASSUME NEW g \in Files \ truncated, added'[g] = 1, NEW n, n = rd'[g].pos \div 2
        PROVE  /\ head = Off => out[g] = FirstEvents(n)
               /\ head # Off /\ ~follow => out[g] = FirstEvents(Fewer(head, n))
               /\ head # Off /\ cur = g => left' = IF n < head THEN head - n ELSE 0
               /\ \A i \in 1..Len(out[g]) : out[g][i] \in 1..n
               /\ \A i \in 1..Len(out[g]) - 1 : out[g][i] < out[g][i + 1]
    <3>1. CASE g = cur
      <4>1. rd[g] = None /\ out[g] = << >>
        BY <1>2, <1>4, <2>1, <3>1 DEF Reads
      <4>2. n = 0 /\ (head # Off => head \in Nat)
        BY <1>3, <2>1, <3>1, WindowsAssumption DEF CatType
      <4>3. FirstEvents(0) = << >>
        BY DEF FirstEvents
      <4>4. head # Off => Fewer(head, n) = 0
        BY <4>2 DEF Fewer
      <4> QED BY <1>1, <4>1, <4>2, <4>3, <4>4
    <3>2. CASE g # cur
      BY <1>3, <1>4, <2>1, <3>2 DEF Prints
    <3> QED BY <3>1, <3>2
  <2> QED BY <1>1, <2>1 DEF Prints
<1> QED BY <1>5, <1>6, <1>7, <1>8, <1>9, <1>10, <1>11

(* At the end of the file the reader is up to date, or goes back to the    *)
(* start of a file that was truncated.                                     *)
LEMMA SeekKeeps == ASSUME IInv, Seek PROVE IInv'
<1> USE DEF IInv
<1>1. /\ UNCHANGED <<dir, follow, head, tail, args>> /\ UNCHANGED <<present, data, units, truncated, queue, dirW, fileW>>
      /\ UNCHANGED <<todo, cur, onEvent, left, out, added>>
      /\ pc = "seek" /\ pc' = IF onEvent THEN "wait" ELSE "add"
      /\ rd' = [rd EXCEPT ![cur].pos = Restart(@, Len(data[cur]))]
  BY DEF Seek, flags, disk, watch
<1>2. /\ cur \in Files /\ rd \in [Files -> Reader \union {None}] /\ rd[cur] # None /\ rd[cur] \in Reader
      /\ Len(data[cur]) \in Nat
  BY <1>1 DEF CatType
<1>3. /\ rd'[cur] = [rd[cur] EXCEPT !.pos = Restart(rd[cur].pos, Len(data[cur]))]
      /\ \A g \in Files : g # cur => rd'[g] = rd[g]
      /\ rd' = [g \in Files |-> rd'[g]]
  BY <1>1, <1>2
<1>4. /\ rd'[cur].pos = Restart(rd[cur].pos, Len(data[cur])) /\ rd'[cur].buf = rd[cur].buf
      /\ rd'[cur].pos \in Nat /\ rd'[cur].pos <= Len(data[cur])
      /\ (rd[cur].pos <= Len(data[cur]) => rd'[cur] = rd[cur])
      /\ rd'[cur] \in Reader
  <2>1. rd[cur].pos \in Nat /\ rd[cur].buf \in Seq(Nat) /\ rd[cur] = [pos |-> rd[cur].pos, buf |-> rd[cur].buf]
    BY <1>2 DEF Reader
  <2>2. rd'[cur] = [pos |-> Restart(rd[cur].pos, Len(data[cur])), buf |-> rd[cur].buf]
    BY <1>3, <2>1
  <2>3. Restart(rd[cur].pos, Len(data[cur])) \in Nat /\ Restart(rd[cur].pos, Len(data[cur])) <= Len(data[cur])
        /\ (rd[cur].pos <= Len(data[cur]) => Restart(rd[cur].pos, Len(data[cur])) = rd[cur].pos)
    BY <1>2, <2>1 DEF Restart
  <2> HIDE DEF Restart
  <2> QED BY <2>1, <2>2, <2>3 DEF Reader
<1>5. rd'[cur] # None /\ rd' \in [Files -> Reader \union {None}]
  <2>1. rd'[cur] # None
    BY <1>4, NoneAssumption DEF Reader
  <2>2. \A g \in Files : rd'[g] \in Reader \union {None}
    BY <1>2, <1>3, <1>4
  <2> QED BY <1>3, <2>1, <2>2
<1>6. CatType'
  BY <1>1, <1>2, <1>5 DEF CatType
<1>7. Follows'
  BY <1>1 DEF Follows
<1>8. Watched'
  BY <1>1, <1>2, <1>3, <1>5 DEF Watched, Going, At
<1>9. Listed'
  <2>1. \A g \in Files : rd[g] # None \/ At(g) => rd'[g] # None
    BY <1>2, <1>3, <1>5 DEF At
  <2> QED BY <1>1, <2>1 DEF Listed, Going, Created
<1>10. Unread'
  <2>1. ASSUME follow, NEW g \in Files, rd'[g] # None
        PROVE  UpToDate(g)' \/ Pending(g) \/ g \in todo
    <3>1. CASE g # cur
      BY <1>1, <1>3, <2>1, <3>1 DEF Unread, Going, At, UpToDate
    <3>2. CASE g = cur
      <4>1. Pending(g) \/ rd[g].pos >= Len(data[g])
        BY <1>1, <1>2, <2>1, <3>2 DEF Unread, Going, At
      <4>2. g \notin truncated => rd[g].pos <= Len(data[g])
        BY <1>2, <3>2 DEF Reads
      <4>3. rd[g].pos \in Nat
        BY <1>2, <3>2 DEF Reader
      <4>4. rd'[g].pos <= Len(data[g])
        BY <1>4, <3>2
      <4>5. ~Pending(g) /\ g \notin truncated => rd'[g].pos = Len(data[g])
        BY <1>2, <1>4, <3>2, <4>1, <4>2, <4>3
      <4> QED BY <1>1, <4>4, <4>5 DEF UpToDate
    <3> QED BY <3>1, <3>2
  <2> QED BY <1>1, <2>1 DEF Unread, Going, At, UpToDate, Pending
<1>11. \A g \in Files \ truncated : rd'[g] = rd[g]
  BY <1>2, <1>3, <1>4 DEF Reads
<1>12. Reads'
  <2>1. \A g \in Files \ truncated : Whole(g)'
    BY <1>1 DEF Reads, Whole
  <2> QED BY <1>1, <1>11, <2>1 DEF Reads
<1>13. Prints'
  <2>1. ~(pc' = "read")
    BY <1>1
  <2>2. \A g \in Files \ truncated : rd'[g].pos \div 2 = rd[g].pos \div 2
    BY <1>11
  <2> QED BY <1>1, <2>1, <2>2 DEF Prints
<1> QED BY <1>6, <1>7, <1>8, <1>9, <1>10, <1>12, <1>13

(* A change of a file adds it again, or has it read on. *)
LEMMA ChangeKeeps == ASSUME IInv, Change PROVE IInv'
<1> USE DEF IInv
<1> DEFINE e == Head(queue)
<1>1. /\ UNCHANGED <<dir, follow, head, tail, args>> /\ UNCHANGED <<present, data, units, truncated, dirW, fileW>>
      /\ UNCHANGED <<rd, left, out, added>>
      /\ pc = "wait" /\ queue # << >> /\ queue' = Tail(queue)
  BY DEF Change, flags, disk
<1>2. \/ e.op = "create" /\ todo' = {e.f} /\ pc' = "add" /\ UNCHANGED <<cur, onEvent>>
      \/ e.op = "write" /\ rd[e.f] # None /\ cur' = e.f /\ onEvent' = TRUE /\ pc' = "read" /\ UNCHANGED todo
      \/ e.op = "write" /\ rd[e.f] = None /\ UNCHANGED <<pc, todo, cur, onEvent>>
  BY DEF Change
<1>3. /\ queue \in Seq(ChangeType) /\ e \in ChangeType /\ e = queue[1]
      /\ queue' \in Seq(ChangeType) /\ Len(queue') = Len(queue) - 1
      /\ \A i \in 1..Len(queue') : queue'[i] = queue[i + 1]
  <2>1. queue \in Seq(ChangeType)
    BY DEF CatType
  <2>2. queue' \in Seq(ChangeType) /\ Len(queue') = Len(queue) - 1
        /\ \A i \in 1..Len(queue') : queue'[i] = queue[i + 1]
    <3> DEFINE t == Tail(queue)
    <3>1. t \in Seq(ChangeType) /\ Len(t) = Len(queue) - 1 /\ \A i \in 1..Len(t) : t[i] = queue[i + 1]
      BY <1>1, <2>1, HeadTailProperties
    <3> QED BY <1>1, <3>1
  <2> QED BY <1>1, <2>1, <2>2, HeadTailProperties
<1>4. e.f \in Files /\ e.op \in {"create", "write"}
  BY <1>3 DEF ChangeType
<1>5. \A g \in Files : /\ Pending(g) /\ g # e.f => Pending(g)'
                       /\ Created(g) /\ ~(g = e.f /\ e.op = "create") => Created(g)'
  <2>1. DOMAIN queue = 1..Len(queue) /\ DOMAIN queue' = 1..Len(queue') /\ Len(queue) \in Nat
    BY <1>3
  <2>2. ASSUME NEW i \in DOMAIN queue, i # 1 PROVE i - 1 \in DOMAIN queue' /\ queue'[i - 1] = queue[i]
    <3>1. i - 1 \in 1..Len(queue') /\ (i - 1) + 1 = i
      BY <1>3, <2>1, <2>2
    <3> QED BY <1>3, <2>1, <3>1
  <2> HIDE DEF e
  <2> QED BY <1>3, <2>2 DEF Pending, Created
<1> HIDE DEF e
<1>6. todo = {} /\ follow
  BY <1>1 DEF Follows
<1>7. CatType'
  BY <1>1, <1>2, <1>3, <1>4 DEF CatType
<1>8. Follows'
  BY <1>1, <1>2, <1>4, <1>6 DEF Follows
<1>9. Watched'
  BY <1>1, <1>2, <1>4 DEF Watched, Going, At
<1>10. Listed'
  <2>1. \A g \in Files : rd[g] # None \/ Created(g) => rd[g] # None \/ g \in todo' \/ Created(g)'
    BY <1>2, <1>4, <1>5
  <2> QED BY <1>1, <1>2, <1>6, <2>1 DEF Listed, Going, At
<1>11. Unread'
  <2>1. ASSUME NEW g \in Files, rd[g] # None
        PROVE  UpToDate(g) \/ Pending(g)' \/ g \in todo' \/ At(g)'
    <3>1. UpToDate(g) \/ Pending(g)
      BY <1>1, <1>6, <2>1 DEF Unread, Going, At
    <3>2. CASE g # e.f
      BY <1>5, <3>1, <3>2
    <3>3. CASE g = e.f
      BY <1>2, <2>1, <3>3 DEF At
    <3> QED BY <3>2, <3>3
  <2>2. pc' # "seek"
    BY <1>1, <1>2
  <2> QED BY <1>1, <2>1, <2>2 DEF Unread, UpToDate
<1>12. Reads' /\ Prints'
  <2>1. Reads'
    BY <1>1 DEF Reads, Whole, Half
  <2>2. pc' = "read" => onEvent'
    BY <1>1, <1>2
  <2> QED BY <1>1, <2>1, <2>2 DEF Prints
<1> QED BY <1>7, <1>8, <1>9, <1>10, <1>11, <1>12

-----------------------------------------------------------------------------
(* Reading some units. *)

LEMMA Joined ==
  ASSUME NEW a \in Seq(Nat), NEW b \in Seq(Nat)
  PROVE  /\ a \o b \in Seq(Nat) /\ Len(a \o b) = Len(a) + Len(b)
         /\ Len(a) \in Nat /\ Len(b) \in Nat
         /\ \A i \in 1..Len(a) : (a \o b)[i] = a[i]
         /\ \A i \in 1..Len(b) : (a \o b)[Len(a) + i] = b[i]
<1>1. Len(a) \in Nat /\ Len(b) \in Nat
  OBVIOUS
<1>2. a \o b \in Seq(Nat) /\ Len(a \o b) = Len(a) + Len(b)
      /\ \A i \in 1..Len(a) + Len(b) : (a \o b)[i] = IF i <= Len(a) THEN a[i] ELSE b[i - Len(a)]
  BY ConcatProperties
<1>3. ASSUME NEW i \in 1..Len(b)
      PROVE  (a \o b)[Len(a) + i] = b[i]
  <2>1. Len(a) + i \in 1..Len(a) + Len(b) /\ ~(Len(a) + i <= Len(a)) /\ (Len(a) + i) - Len(a) = i
    BY <1>1, <1>3
  <2> QED BY <1>2, <2>1
<1> QED BY <1>1, <1>2, <1>3

LEMMA Piece ==
  ASSUME NEW S, NEW a \in Seq(S), NEW m \in Nat, NEW n \in Nat, m >= 1, n <= Len(a)
  PROVE  /\ SubSeq(a, m, n) \in Seq(S)
         /\ Len(SubSeq(a, m, n)) = IF m <= n THEN n - m + 1 ELSE 0
         /\ \A i \in 1..Len(SubSeq(a, m, n)) : SubSeq(a, m, n)[i] = a[m + i - 1]
<1>1. Len(a) \in Nat
  OBVIOUS
<1>2. CASE m <= n
  <2>1. m \in 1..Len(a) + 1 /\ n \in m - 1..Len(a)
    BY <1>1, <1>2
  <2> QED BY <1>1, <1>2, <2>1, SubSeqProperties
<1>3. CASE ~(m <= n)
  <2>1. SubSeq(a, m, n) = << >>
    BY <1>1, <1>3
  <2> QED BY <1>3, <2>1
<1> QED BY <1>2, <1>3

LEMMA FunctionIsSeq ==
  ASSUME NEW T, NEW n \in Nat, NEW f \in [1..n -> T]
  PROVE  f \in Seq(T) /\ Len(f) = n
OBVIOUS

LEMMA Halves ==
  ASSUME NEW h \in Nat, NEW x \in Nat, NEW y, y = 2 * h + x
  PROVE  /\ x \div 2 \in Nat /\ 2 * (x \div 2) <= x /\ x - 2 * (x \div 2) = y % 2
         /\ x \div 2 = (y \div 2) - h /\ y % 2 \in {0, 1}
OBVIOUS

(* What the units that are read make of a reader and a window.             *)
Fetched(f, k) == rd[f].buf \o SubSeq(data[f], rd[f].pos + 1, rd[f].pos + k)
EventsOf(b) == [i \in 1..Len(b) \div 2 |-> Event(b[2 * i - 1], b[2 * i])]
Rest(b) == SubSeq(b, 2 * Len(EventsOf(b)) + 1, Len(b))

LEMMA EventTyped ==
  ASSUME NEW a \in Nat, NEW b \in Nat
  PROVE  Event(a, b) \in Nat
<1>1. b \div 2 \in Nat
  OBVIOUS
<1> QED BY <1>1 DEF Event

LEMMA EventsTyped ==
  ASSUME NEW b \in Seq(Nat)
  PROVE  EventsOf(b) \in Seq(Nat) /\ Len(EventsOf(b)) = Len(b) \div 2 /\ Rest(b) \in Seq(Nat)
         /\ Len(b) \in Nat
<1>1. Len(b) \in Nat /\ Len(b) \div 2 \in Nat /\ 2 * (Len(b) \div 2) <= Len(b)
  <2>1. Len(b) \in Nat
    OBVIOUS
  <2> QED BY <2>1
<1>2. ASSUME NEW i \in 1..Len(b) \div 2
      PROVE  Event(b[2 * i - 1], b[2 * i]) \in Nat
  <2>1. 2 * i - 1 \in 1..Len(b) /\ 2 * i \in 1..Len(b)
    BY <1>1, <1>2
  <2>2. b[2 * i - 1] \in Nat /\ b[2 * i] \in Nat
    BY <2>1
  <2> QED BY <2>2, EventTyped
<1>3. EventsOf(b) \in [1..Len(b) \div 2 -> Nat]
  BY <1>2 DEF EventsOf
<1>4. EventsOf(b) \in Seq(Nat) /\ Len(EventsOf(b)) = Len(b) \div 2
  BY <1>1, <1>3, FunctionIsSeq
<1>5. Rest(b) \in Seq(Nat)
  BY <1>1, <1>4, Piece DEF Rest
<1> QED BY <1>1, <1>4, <1>5

LEMMA PassedIs ==
  ASSUME CatType, NEW ev \in Seq(Nat), Windowed => left \in Nat
  PROVE  /\ Passed(ev) \in Seq(Nat)
         /\ Len(Passed(ev)) = IF Windowed /\ left < Len(ev) THEN left ELSE Len(ev)
         /\ \A i \in 1..Len(Passed(ev)) : i \in 1..Len(ev) /\ Passed(ev)[i] = ev[i]
<1>1. Len(ev) \in Nat
  OBVIOUS
<1>2. CASE Windowed /\ left < Len(ev)
  <2>1. left \in Nat /\ Passed(ev) = SubSeq(ev, 1, left)
    BY <1>2 DEF Passed, Windowed
  <2>2. /\ SubSeq(ev, 1, left) \in Seq(Nat) /\ Len(SubSeq(ev, 1, left)) = IF 1 <= left THEN left - 1 + 1 ELSE 0
        /\ \A i \in 1..Len(SubSeq(ev, 1, left)) : SubSeq(ev, 1, left)[i] = ev[1 + i - 1]
    <3>1. left <= Len(ev)
      BY <1>1, <1>2, <2>1
    <3> QED BY <2>1, <3>1, Piece
  <2> DEFINE s == SubSeq(ev, 1, left)
  <2>3. s \in Seq(Nat) /\ Len(s) = left /\ \A i \in 1..left : s[i] = ev[1 + i - 1]
    BY <2>1, <2>2
  <2> HIDE DEF s
  <2>4. \A i \in 1..left : s[i] = ev[i] /\ i \in 1..Len(ev)
    BY <1>1, <1>2, <2>1, <2>3
  <2>5. Passed(ev) = s
    BY <2>1 DEF s
  <2> QED BY <1>2, <2>3, <2>4, <2>5
<1>3. CASE ~(Windowed /\ left < Len(ev))
  BY <1>3 DEF Passed
<1> QED BY <1>2, <1>3

Odd(p) == [i \in 1..p % 2 |-> p]
Meets(b, c, d, u, p, k) ==
  d = FirstEvents(u) /\ c = Odd(p) /\ b = c \o SubSeq(d, p + 1, p + k)

(* From a file of whole events a reader gets the events between its old    *)
(* and its new position, and keeps the odd unit.                           *)
LEMMA ReadsEvents ==
  ASSUME NEW d \in Seq(Nat), NEW u \in Nat, NEW p \in Nat, NEW k \in Nat, p + k <= u,
         NEW c \in Seq(Nat), NEW b, Meets(b, c, d, u, p, k)
  PROVE  /\ b \in Seq(Nat)
         /\ Len(EventsOf(b)) = (p + k) \div 2 - p \div 2
         /\ \A i \in 1..Len(EventsOf(b)) : EventsOf(b)[i] = p \div 2 + i
         /\ Rest(b) = Odd(p + k)
<1> DEFINE h == p \div 2
           s == SubSeq(d, p + 1, p + k)
           o == p % 2
<1>1. h \in Nat /\ o \in {0, 1} /\ p = 2 * h + o
  OBVIOUS
<1>2. Len(d) = u /\ \A i \in 1..u : d[i] = i
  BY DEF FirstEvents, Meets
<1>3. s \in Seq(Nat) /\ Len(s) = k /\ \A i \in 1..k : s[i] = p + i
  <2>1. /\ s \in Seq(Nat) /\ Len(s) = IF p + 1 <= p + k THEN (p + k) - (p + 1) + 1 ELSE 0
        /\ \A i \in 1..Len(s) : s[i] = d[(p + 1) + i - 1]
    BY <1>2, Piece
  <2> HIDE DEF s
  <2>2. Len(s) = k
    BY <2>1
  <2>3. \A i \in 1..k : (p + 1) + i - 1 = p + i /\ p + i \in 1..u
    OBVIOUS
  <2> QED BY <1>2, <2>1, <2>2, <2>3
<1>4. Len(c) = o /\ \A i \in 1..o : c[i] = p
  BY <1>1 DEF Odd, Meets
<1> HIDE DEF s
<1>5. b \in Seq(Nat) /\ Len(b) = o + k /\ (\A i \in 1..o : b[i] = p) /\ \A i \in 1..k : b[o + i] = p + i
  <2>1. b = c \o s
    BY DEF s, Meets
  <2> HIDE DEF o
  <2>2. /\ c \o s \in Seq(Nat) /\ Len(c \o s) = Len(c) + Len(s)
        /\ \A i \in 1..Len(c) : (c \o s)[i] = c[i]
        /\ \A i \in 1..Len(s) : (c \o s)[Len(c) + i] = s[i]
    <3>1. c \in Seq(Nat) /\ s \in Seq(Nat)
      BY <1>3
    <3> HIDE DEF h
    <3> QED BY <3>1, Joined
  <2> QED BY <1>3, <1>4, <2>1, <2>2
<1> HIDE DEF h, o
<1>6. \A i \in 1..Len(b) : b[i] = 2 * h + i
  <2>1. ASSUME NEW i \in 1..Len(b) PROVE b[i] = 2 * h + i
    <3>1. CASE i <= o
      <4>1. i \in 1..o /\ o = 1 /\ i = 1
        BY <1>1, <3>1, <1>5
      <4> QED BY <1>1, <1>5, <4>1
    <3>2. CASE ~(i <= o)
      <4> DEFINE j == i - o
      <4>1. j \in 1..k /\ o + j = i
        BY <1>1, <1>5, <3>2
      <4>2. b[o + j] = p + j
        BY <1>5, <4>1
      <4> QED BY <1>1, <4>1, <4>2
    <3> QED BY <3>1, <3>2
  <2> QED BY <2>1
<1>7. Len(EventsOf(b)) = Len(b) \div 2 /\ EventsOf(b) \in Seq(Nat)
  BY <1>5, EventsTyped
<1>8. /\ Len(b) \div 2 = (p + k) \div 2 - h /\ Len(b) - 2 * (Len(b) \div 2) = (p + k) % 2
      /\ Len(b) \div 2 \in Nat /\ 2 * (Len(b) \div 2) <= Len(b) /\ (p + k) % 2 \in {0, 1}
  <2> DEFINE x == Len(b)
             y == p + k
  <2>1. x \in Nat /\ y = 2 * h + x
    BY <1>1, <1>5
  <2> HIDE DEF x, y
  <2>2. /\ x \div 2 \in Nat /\ 2 * (x \div 2) <= x /\ x - 2 * (x \div 2) = y % 2
        /\ x \div 2 = (y \div 2) - h /\ y % 2 \in {0, 1}
    BY <1>1, <2>1, Halves
  <2> QED BY <2>2 DEF x, y
<1>9. \A i \in 1..Len(EventsOf(b)) : EventsOf(b)[i] = h + i
  <2>1. ASSUME NEW i \in 1..Len(b) \div 2 PROVE EventsOf(b)[i] = h + i
    <3>1. 2 * i - 1 \in 1..Len(b) /\ 2 * i \in 1..Len(b)
      <4>1. i \in Nat /\ i >= 1 /\ i <= Len(b) \div 2
        BY <1>8, <2>1
      <4> DEFINE z == Len(b) \div 2
      <4>2. z \in Nat /\ 2 * z <= Len(b) /\ i <= z /\ Len(b) \in Nat
        BY <1>5, <1>8, <4>1
      <4> HIDE DEF z
      <4> QED BY <4>1, <4>2
    <3>2. b[2 * i - 1] = 2 * h + (2 * i - 1) /\ b[2 * i] = 2 * h + 2 * i
      BY <1>6, <3>1
    <3>3. Event(2 * h + (2 * i - 1), 2 * h + 2 * i) = h + i
      <4>1. (2 * h + (2 * i - 1)) % 2 = 1 /\ 2 * h + 2 * i = (2 * h + (2 * i - 1)) + 1
            /\ (2 * h + 2 * i) \div 2 = h + i
        BY <1>1
      <4> QED BY <4>1 DEF Event
    <3> QED BY <2>1, <3>2, <3>3 DEF EventsOf
  <2> QED BY <1>7, <2>1
<1>10. Rest(b) = Odd(p + k)
  <2> DEFINE z == Len(b) \div 2
             m == 2 * z + 1
             e == (p + k) % 2
             q == SubSeq(b, m, Len(b))
  <2>0. Rest(b) = q
    <3>1. Len(EventsOf(b)) = z
      BY <1>7
    <3> HIDE DEF z
    <3> QED BY <3>1 DEF Rest
  <2>1. m \in Nat /\ m >= 1 /\ Len(b) \in Nat /\ Len(b) + 1 = m + e /\ e \in {0, 1}
    <3>1. z \in Nat /\ Len(b) \in Nat /\ Len(b) - 2 * z = e /\ e \in {0, 1}
      BY <1>5, <1>8
    <3> HIDE DEF z, e
    <3> QED BY <3>1
  <2> HIDE DEF z, e
  <2>2. /\ q \in Seq(Nat) /\ Len(q) = IF m <= Len(b) THEN Len(b) - m + 1 ELSE 0
        /\ \A i \in 1..Len(q) : q[i] = b[m + i - 1]
    <3> HIDE DEF m
    <3>1. b \in Seq(Nat) /\ m \in Nat /\ m >= 1 /\ Len(b) \in Nat /\ Len(b) <= Len(b)
      BY <1>5, <2>1
    <3> QED BY <3>1, Piece
  <2>3. Len(q) = e
    <3> HIDE DEF q, m
    <3> QED BY <2>1, <2>2
  <2>4. ASSUME NEW i \in 1..Len(q) PROVE q[i] = p + k
    <3>1. m + i - 1 \in 1..Len(b) /\ 2 * h + (m + i - 1) = p + k
      <4> HIDE DEF q
      <4> HIDE DEF q, m
      <4>1. i = 1 /\ e = 1
        BY <2>1, <2>3, <2>4
      <4>2. m + i - 1 = Len(b) /\ Len(b) >= 1
        BY <2>1, <4>1
      <4>3. 2 * h + Len(b) = p + k
        BY <1>1, <1>5
      <4> QED BY <2>1, <4>2, <4>3
    <3> HIDE DEF m, q
    <3> QED BY <1>6, <2>2, <2>4, <3>1
  <2> HIDE DEF q, m
  <2>5. q = [i \in 1..Len(q) |-> q[i]]
    BY <2>2
  <2>6. q = [i \in 1..Len(q) |-> p + k]
    BY <2>4, <2>5
  <2> QED BY <2>0, <2>3, <2>6 DEF Odd, e
<1> QED BY <1>5, <1>7, <1>8, <1>9, <1>10 DEF h

(* What is appended to the output of a file continues it. *)
LEMMA Continues ==
  ASSUME NEW a \in Seq(Nat), NEW q \in Seq(Nat), NEW n \in Nat, \A i \in 1..Len(q) : q[i] = n + i
  PROVE  /\ a \o q \in Seq(Nat)
         /\ a = FirstEvents(n) => a \o q = FirstEvents(n + Len(q))
         /\ Len(q) = 0 => a \o q = a
         /\ (\A i \in 1..Len(a) : a[i] \in 1..n) /\ (\A i \in 1..Len(a) - 1 : a[i] < a[i + 1]) =>
              /\ \A i \in 1..Len(a \o q) : (a \o q)[i] \in 1..n + Len(q)
              /\ \A i \in 1..Len(a \o q) - 1 : (a \o q)[i] < (a \o q)[i + 1]
<1> DEFINE b == a \o q
<1>1. /\ b \in Seq(Nat) /\ Len(b) = Len(a) + Len(q) /\ Len(a) \in Nat /\ Len(q) \in Nat
      /\ \A i \in 1..Len(a) : b[i] = a[i]
      /\ \A i \in 1..Len(q) : b[Len(a) + i] = q[i]
  BY Joined
<1> HIDE DEF b
<1>2. \A i \in 1..Len(b) : i \in 1..Len(a) \/ (i > Len(a) /\ i - Len(a) \in 1..Len(q) /\ b[i] = n + (i - Len(a)))
  <2>1. ASSUME NEW i \in 1..Len(b), i > Len(a)
        PROVE  i - Len(a) \in 1..Len(q) /\ b[i] = n + (i - Len(a))
    <3> DEFINE j == i - Len(a)
    <3>1. j \in 1..Len(q) /\ Len(a) + j = i
      BY <1>1, <2>1
    <3> HIDE DEF j
    <3>2. b[i] = n + j
      BY <1>1, <3>1
    <3> QED BY <3>1, <3>2 DEF j
  <2> QED BY <1>1, <2>1
<1>3. ASSUME a = FirstEvents(n) PROVE b = FirstEvents(n + Len(q))
  <2>1. Len(a) = n /\ \A i \in 1..n : a[i] = i
    BY <1>3 DEF FirstEvents
  <2>2. \A i \in 1..Len(b) : b[i] = i
    BY <1>1, <1>2, <2>1
  <2>3. b = [i \in 1..Len(b) |-> b[i]]
    BY <1>1
  <2>4. b = [i \in 1..Len(b) |-> i]
    BY <2>2, <2>3
  <2> QED BY <1>1, <2>1, <2>4 DEF FirstEvents
<1>4. ASSUME Len(q) = 0 PROVE b = a
  <2>1. b = [i \in 1..Len(b) |-> b[i]] /\ a = [i \in 1..Len(a) |-> a[i]]
    BY <1>1
  <2>2. Len(b) = Len(a)
    BY <1>1, <1>4
  <2> QED BY <1>1, <2>1, <2>2
<1>5. ASSUME \A i \in 1..Len(a) : a[i] \in 1..n, \A i \in 1..Len(a) - 1 : a[i] < a[i + 1]
      PROVE  /\ \A i \in 1..Len(b) : b[i] \in 1..n + Len(q)
             /\ \A i \in 1..Len(b) - 1 : b[i] < b[i + 1]
  <2>1. ASSUME NEW i \in 1..Len(b) PROVE b[i] \in 1..n + Len(q)
    <3>1. CASE i \in 1..Len(a)
      <4>1. b[i] = a[i] /\ a[i] \in 1..n
        BY <1>1, <1>5, <3>1
      <4> QED BY <1>1, <4>1
    <3>2. CASE i \notin 1..Len(a)
      BY <1>1, <1>2, <2>1, <3>2
    <3> QED BY <3>1, <3>2
  <2>2. ASSUME NEW i \in 1..Len(b) - 1 PROVE b[i] < b[i + 1]
    <3>1. i \in 1..Len(b) /\ i + 1 \in 1..Len(b)
      BY <1>1, <2>2
    <3>2. CASE i + 1 \in 1..Len(a)
      <4>1. i \in 1..Len(a) /\ i \in 1..Len(a) - 1
        BY <1>1, <3>1, <3>2
      <4> QED BY <1>1, <1>5, <3>2, <4>1
    <3>3. CASE i \in 1..Len(a) /\ i + 1 \notin 1..Len(a)
      <4>1. a[i] \in 1..n /\ b[i] = a[i]
        BY <1>1, <1>5, <3>3
      <4>2. b[i + 1] = n + (i + 1 - Len(a)) /\ i + 1 > Len(a)
        BY <1>2, <3>1, <3>3
      <4> QED BY <1>1, <3>1, <4>1, <4>2
    <3>4. CASE i \notin 1..Len(a) /\ i + 1 \notin 1..Len(a)
      <4>1. b[i] = n + (i - Len(a)) /\ b[i + 1] = n + (i + 1 - Len(a))
        BY <1>2, <3>1, <3>4
      <4> QED BY <1>1, <3>1, <4>1
    <3>5. i + 1 \in 1..Len(a) => i \in 1..Len(a)
      BY <1>1, <3>1
    <3> QED BY <3>2, <3>3, <3>4, <3>5
  <2> QED BY <2>1, <2>2
<1> QED BY <1>1, <1>3, <1>4, <1>5 DEF b

(* The events read go to the output past the window of what is left.       *)
LEMMA ReadKeeps == ASSUME IInv, Read PROVE IInv'
<1> USE DEF IInv
<1> DEFINE pos == rd[cur].pos
<1>1. /\ UNCHANGED <<dir, follow, head, tail, args>> /\ UNCHANGED <<present, data, units, truncated, queue, dirW, fileW>>
      /\ UNCHANGED <<pc, todo, cur, onEvent, added>> /\ pc = "read"
  BY DEF Read, flags, disk, watch
<1>2. PICK k \in 1..Len(data[cur]) - pos :
        /\ rd' = [rd EXCEPT ![cur] = [pos |-> pos + k, buf |-> Rest(Fetched(cur, k))]]
        /\ out' = [out EXCEPT ![cur] = @ \o Passed(EventsOf(Fetched(cur, k)))]
        /\ left' = IF Windowed THEN LeftAfter(Len(EventsOf(Fetched(cur, k)))) ELSE left
  BY DEF Read, Fetched, EventsOf, Rest
<1> DEFINE b == Fetched(cur, k)
           ev == EventsOf(b)
           q == Passed(ev)
<1>3. /\ cur \in Files /\ rd \in [Files -> Reader \union {None}] /\ rd[cur] \in Reader
      /\ data[cur] \in Seq(Nat) /\ out \in [Files -> Seq(Nat)] /\ out[cur] \in Seq(Nat)
  BY <1>1 DEF CatType
<1>4. /\ pos \in Nat /\ rd[cur].buf \in Seq(Nat) /\ k \in Nat /\ k >= 1
      /\ Len(data[cur]) \in Nat /\ pos + k <= Len(data[cur])
  BY <1>3 DEF Reader
<1>5. b \in Seq(Nat)
  <2> DEFINE s == SubSeq(data[cur], pos + 1, pos + k)
  <2>1. s \in Seq(Nat)
    <3>1. pos + 1 \in Nat /\ pos + k \in Nat /\ pos + 1 >= 1
      BY <1>4
    <3> HIDE DEF pos
    <3> QED BY <1>3, <1>4, <3>1, Piece
  <2>2. b = rd[cur].buf \o s
    BY DEF Fetched
  <2> HIDE DEF s, b
  <2> QED BY <1>4, <2>1, <2>2, Joined
<1>6. ev \in Seq(Nat) /\ Rest(b) \in Seq(Nat) /\ Len(ev) \in Nat
  <2> HIDE DEF b
  <2>1. ev \in Seq(Nat) /\ Rest(b) \in Seq(Nat)
    BY <1>5, EventsTyped
  <2> HIDE DEF ev
  <2> QED BY <2>1
<1>7. left \in Nat \union {Off} /\ (Windowed => left \in Nat)
  BY <1>1 DEF CatType, Windowed
<1>8. /\ q \in Seq(Nat) /\ Len(q) = IF Windowed /\ left < Len(ev) THEN left ELSE Len(ev)
      /\ \A i \in 1..Len(q) : i \in 1..Len(ev) /\ q[i] = ev[i]
  <2> HIDE DEF ev
  <2> QED BY <1>6, <1>7, PassedIs
<1> HIDE DEF pos, b, ev, q
<1>9. /\ rd' = [rd EXCEPT ![cur] = [pos |-> pos + k, buf |-> Rest(b)]]
      /\ out' = [out EXCEPT ![cur] = out[cur] \o q]
      /\ left' = IF Windowed THEN LeftAfter(Len(ev)) ELSE left
  BY <1>2 DEF b, ev, q
<1>10. /\ rd'[cur].pos = pos + k /\ rd'[cur].buf = Rest(b) /\ rd'[cur] \in Reader /\ rd'[cur] # None
       /\ \A g \in Files : g # cur => rd'[g] = rd[g]
       /\ rd' \in [Files -> Reader \union {None}]
  <2>1. [pos |-> pos + k, buf |-> Rest(b)] \in Reader
    BY <1>4, <1>6 DEF Reader
  <2>2. rd'[cur] = [pos |-> pos + k, buf |-> Rest(b)]
    BY <1>3, <1>9
  <2> QED BY <1>3, <1>9, <2>1, <2>2, NoneAssumption DEF Reader
<1>11. /\ out' \in [Files -> Seq(Nat)] /\ out'[cur] = out[cur] \o q
       /\ \A g \in Files : g # cur => out'[g] = out[g]
  <2> DEFINE w == out[cur] \o q
  <2>1. w \in Seq(Nat)
    BY <1>3, <1>8, Joined
  <2> HIDE DEF w
  <2>2. out' = [out EXCEPT ![cur] = w]
    BY <1>9 DEF w
  <2>3. out' \in [Files -> Seq(Nat)] /\ out'[cur] = w /\ \A g \in Files : g # cur => out'[g] = out[g]
    BY <1>3, <2>1, <2>2
  <2> QED BY <2>3 DEF w
<1>12. left' \in Nat \union {Off} /\ (Windowed => left' \in Nat /\ left' = IF Len(ev) < left THEN left - Len(ev) ELSE 0)
  BY <1>6, <1>7, <1>9 DEF LeftAfter
<1>13. CatType'
  BY <1>1, <1>3, <1>10, <1>11, <1>12 DEF CatType, Windowed
<1>14. Follows'
  BY <1>1 DEF Follows
<1>15. Watched'
  BY <1>1, <1>3, <1>10 DEF Watched, Going, At
<1>16. Listed'
  BY <1>1, <1>3, <1>10 DEF Listed, Going, At, Created
<1>17. Unread'
  <2>1. ASSUME follow, NEW g \in Files, g # cur, rd[g] # None
        PROVE  UpToDate(g) \/ Pending(g) \/ g \in todo
    BY <1>1, <2>1 DEF Unread, Going, At
  <2> QED BY <1>1, <1>3, <1>10, <2>1 DEF Unread, Going, At, UpToDate, Pending
<1>18. ASSUME cur \notin truncated
       PROVE  /\ Len(ev) = (pos + k) \div 2 - pos \div 2
              /\ \A i \in 1..Len(ev) : ev[i] = pos \div 2 + i
              /\ Half(rd'[cur])
  <2>1. /\ data[cur] = FirstEvents(units[cur]) /\ rd[cur].buf = Odd(pos) /\ units[cur] \in Nat
        /\ pos + k <= units[cur]
    <3>1. Whole(cur) /\ Half(rd[cur]) /\ units[cur] \in Nat
      BY <1>1, <1>3, <1>18 DEF Reads, CatType
    <3>2. data[cur] = FirstEvents(units[cur]) /\ rd[cur].buf = Odd(pos)
      BY <3>1 DEF Whole, Half, FirstEvents, Odd, pos
    <3>3. Len(data[cur]) = units[cur]
      BY <3>1 DEF Whole
    <3> QED BY <1>4, <3>1, <3>2, <3>3
  <2> DEFINE d == data[cur]
             c == rd[cur].buf
             u == units[cur]
  <2>2. Meets(b, c, d, u, pos, k)
    BY <2>1 DEF Meets, b, Fetched, pos
  <2>3. d \in Seq(Nat) /\ c \in Seq(Nat) /\ u \in Nat /\ pos \in Nat /\ k \in Nat /\ pos + k <= u
    BY <1>3, <1>4, <2>1
  <2> HIDE DEF c, d, u
  <2>4. /\ Len(EventsOf(b)) = (pos + k) \div 2 - pos \div 2
        /\ \A i \in 1..Len(EventsOf(b)) : EventsOf(b)[i] = pos \div 2 + i
        /\ Rest(b) = Odd(pos + k)
    BY <2>2, <2>3, ReadsEvents
  <2>5. Half(rd'[cur])
    BY <1>10, <2>4 DEF Half, Odd
  <2> QED BY <2>4, <2>5 DEF ev
<1>19. Reads'
  <2>1. ASSUME NEW g \in Files \ truncated
        PROVE  /\ Whole(g)
               /\ rd'[g] # None => rd'[g].pos <= Len(data[g]) /\ Half(rd'[g])
               /\ (added[g] = 0) <=> (rd'[g] = None)
               /\ rd'[g] = None => out'[g] = << >>
    <3>1. CASE g = cur
      <4>1. rd[g] # None /\ added[g] # 0 /\ Whole(g)
        BY <1>1, <3>1 DEF Reads, CatType
      <4> QED BY <1>4, <1>10, <1>18, <2>1, <3>1, <4>1
    <3>2. CASE g # cur
      BY <1>10, <1>11, <3>2 DEF Reads
    <3> QED BY <3>1, <3>2
  <2> QED BY <1>1, <2>1 DEF Reads, Whole
<1>20. ASSUME cur \notin truncated, added[cur] = 1, NEW n, n = pos \div 2, NEW m, m = (pos + k) \div 2
       PROVE  /\ head = Off => out'[cur] = FirstEvents(m)
              /\ head # Off /\ ~follow => out'[cur] = FirstEvents(Fewer(head, m))
              /\ head # Off /\ ~onEvent => left' = IF m < head THEN head - m ELSE 0
              /\ \A i \in 1..Len(out'[cur]) : out'[cur][i] \in 1..m
              /\ \A i \in 1..Len(out'[cur]) - 1 : out'[cur][i] < out'[cur][i + 1]
  <2> DEFINE o == out[cur]
             o2 == o \o q
  <2>1. n \in Nat /\ m \in Nat /\ n <= m /\ Len(ev) = m - n
    <3>1. Len(ev) = m - n
      BY <1>18, <1>20
    <3>2. n \in Nat /\ m \in Nat
      BY <1>4, <1>20
    <3> QED BY <1>6, <3>1, <3>2
  <2>2. \A i \in 1..Len(q) : q[i] = n + i
    BY <1>8, <1>18, <1>20
  <2>3. Len(q) \in Nat /\ Len(q) <= m - n
    BY <1>6, <1>7, <1>8, <2>1
  <2>4. /\ head = Off => o = FirstEvents(n)
        /\ head # Off /\ ~follow => o = FirstEvents(Fewer(head, n))
        /\ head # Off /\ ~onEvent => left = IF n < head THEN head - n ELSE 0
        /\ \A i \in 1..Len(o) : o[i] \in 1..n
        /\ \A i \in 1..Len(o) - 1 : o[i] < o[i + 1]
    BY <1>1, <1>3, <1>20 DEF Prints, pos
  <2>5. o \in Seq(Nat)
    BY <1>3
  <2>6. out'[cur] = o2
    BY <1>11
  <2> HIDE DEF o
  <2>7. /\ o = FirstEvents(n) => o2 = FirstEvents(n + Len(q))
        /\ Len(q) = 0 => o2 = o
        /\ \A i \in 1..Len(o2) : o2[i] \in 1..n + Len(q)
        /\ \A i \in 1..Len(o2) - 1 : o2[i] < o2[i + 1]
    <3>1. q \in Seq(Nat)
      BY <1>8
    <3>2. /\ o = FirstEvents(n) => o2 = FirstEvents(n + Len(q))
          /\ Len(q) = 0 => o2 = o
          /\ (\A i \in 1..Len(o) : o[i] \in 1..n) /\ (\A i \in 1..Len(o) - 1 : o[i] < o[i + 1]) =>
               /\ \A i \in 1..Len(o2) : o2[i] \in 1..n + Len(q)
               /\ \A i \in 1..Len(o2) - 1 : o2[i] < o2[i + 1]
      BY <2>1, <2>2, <2>5, <3>1, Continues
    <3> HIDE DEF o2
    <3> QED BY <2>4, <3>2
  <2> HIDE DEF o2
  <2>8. head # Off => head \in Nat
    BY WindowsAssumption DEF CatType
  <2>9. ASSUME head = Off PROVE o2 = FirstEvents(m)
    <3>1. Len(q) = m - n
      BY <1>8, <2>1, <2>9 DEF Windowed
    <3>2. n + Len(q) = m
      BY <2>1, <3>1
    <3> QED BY <2>4, <2>7, <2>9, <3>2
  <2>10. ASSUME head # Off, ~follow PROVE o2 = FirstEvents(Fewer(head, m))
    <3>1. Windowed /\ head \in Nat /\ left = IF n < head THEN head - n ELSE 0
      BY <2>4, <2>8, <2>10 DEF Windowed, Follows
    <3>2. Len(q) = IF left < m - n THEN left ELSE m - n
      BY <1>8, <2>1, <3>1
    <3>3. CASE n < head
      <4>1. Fewer(head, n) = n /\ n + Len(q) = Fewer(head, m)
        BY <2>1, <3>1, <3>2, <3>3 DEF Fewer
      <4> QED BY <2>4, <2>7, <2>10, <4>1
    <3>4. CASE ~(n < head)
      <4>1. Fewer(head, n) = Fewer(head, m) /\ Len(q) = 0
        BY <2>1, <3>1, <3>2, <3>4 DEF Fewer
      <4> QED BY <2>4, <2>7, <2>10, <4>1
    <3> QED BY <3>3, <3>4
  <2>11. ASSUME head # Off, ~onEvent PROVE left' = IF m < head THEN head - m ELSE 0
    <3>1. Windowed /\ head \in Nat /\ left = IF n < head THEN head - n ELSE 0
      BY <2>4, <2>8, <2>11 DEF Windowed
    <3>2. left' = IF m - n < left THEN left - (m - n) ELSE 0
      BY <1>12, <2>1, <3>1
    <3> QED BY <2>1, <3>1, <3>2
  <2>12. \A i \in 1..Len(o2) : o2[i] \in 1..m
    <3>1. 1..n + Len(q) \subseteq 1..m
      BY <2>1, <2>3
    <3> QED BY <2>7, <3>1
  <2> QED BY <2>6, <2>7, <2>9, <2>10, <2>11, <2>12
<1>21. Prints'
  <2>1. ASSUME NEW g \in Files \ truncated, added[g] = 1, NEW n, n = rd'[g].pos \div 2
        PROVE  /\ head = Off => out'[g] = FirstEvents(n)
               /\ head # Off /\ ~follow => out'[g] = FirstEvents(Fewer(head, n))
               /\ head # Off /\ cur = g /\ ~onEvent => left' = IF n < head THEN head - n ELSE 0
               /\ \A i \in 1..Len(out'[g]) : out'[g][i] \in 1..n
               /\ \A i \in 1..Len(out'[g]) - 1 : out'[g][i] < out'[g][i + 1]
    <3>1. CASE g = cur
      BY <1>10, <1>20, <2>1, <3>1
    <3>2. CASE g # cur
      BY <1>10, <1>11, <2>1, <3>2 DEF Prints
    <3> QED BY <3>1, <3>2
  <2> QED BY <1>1, <2>1 DEF Prints
<1> QED BY <1>13, <1>14, <1>15, <1>16, <1>17, <1>19, <1>21

LEMMA Inductive == IInv /\ [Next]_vars => IInv'
<1> SUFFICES ASSUME IInv, [Next]_vars PROVE IInv'
  OBVIOUS
<1>1. ASSUME Going, NEW f \in Files, Create(f) \/ Grow(f) \/ Truncate(f) PROVE IInv'
  BY <1>1, CreateKeeps, GrowKeeps, TruncateKeeps
<1>2. CASE Step
  <2>1. CASE Start \/ List \/ AddDone \/ Watch
    BY <2>1, StartKeeps, ListKeeps, AddDoneKeeps, WatchKeeps
  <2>2. CASE Open \/ Read \/ AtEnd \/ Seek \/ Change
    BY <2>2, OpenKeeps, ReadKeeps, AtEndKeeps, SeekKeeps, ChangeKeeps
  <2> QED BY <1>2, <2>1, <2>2 DEF Step
<1>3. CASE Interrupt \/ Fail
  BY <1>3, StopKeeps
<1>4. CASE UNCHANGED vars
  <2>1. /\ UNCHANGED <<dir, follow, head, tail, args>> /\ UNCHANGED <<present, data, units, truncated, queue, dirW, fileW>>
        /\ UNCHANGED <<pc, todo, cur, onEvent, rd, left, out, added>>
    BY <1>4 DEF vars, flags, disk, watch, reading
  <2>2. CatType' /\ Follows' /\ Watched' /\ Listed'
    BY <2>1 DEF IInv, CatType, Follows, Watched, Listed, Going, At, Created
  <2>3. Unread' /\ Reads' /\ Prints'
    BY <2>1 DEF IInv, Unread, Reads, Prints, Going, At, UpToDate, Pending, Whole, Half
  <2> QED BY <2>2, <2>3 DEF IInv
<1> QED BY <1>1, <1>2, <1>3, <1>4 DEF Next, Stopped, Going

-----------------------------------------------------------------------------
(* cat waits for a change only when it has read every file to its end that *)
(* no queued change belongs to: files are watched before they are opened,  *)
(* directories before they are listed (addFile), and what is written while *)
(* a file is read is in the queue when its end has been seen.              *)
THEOREM WaitsUpToDate == Spec => []CaughtUp
<1>1. IInv => CaughtUp
  <2>1. ASSUME IInv, pc = "wait", NEW f \in Files, ~Pending(f)
        PROVE  /\ (dir /\ f \in present) \/ f \in args => rd[f] # None
               /\ rd[f] # None => rd[f].pos <= Len(data[f])
               /\ rd[f] # None /\ f \notin truncated => rd[f].pos = Len(data[f])
    <3>1. follow /\ todo = {} /\ Going /\ ~At(f) /\ ~Created(f)
      BY <2>1 DEF IInv, Follows, Going, At, Created, Pending
    <3>2. (dir /\ f \in present) \/ f \in args => rd[f] # None
      BY <2>1, <3>1 DEF IInv, Listed
    <3>3. rd[f] # None => UpToDate(f)
      BY <2>1, <3>1 DEF IInv, Unread
    <3> QED BY <3>2, <3>3 DEF UpToDate
  <2> QED BY <2>1 DEF CaughtUp
<1> QED BY <1>1, InitHolds, Inductive, PTL DEF Spec

(* Of a file that is added once and never truncated whole events are       *)
(* printed, in order and once, whatever pieces the file is read in         *)
(* (Reader.WriteTo over ReReader, HeadWriter.Write).                       *)
THEOREM PrintsInOrder == Spec => []PrintedInOrder
<1>1. IInv => PrintedInOrder
  <2>1. ASSUME IInv, NEW f \in Files \ truncated, added[f] = 1, NEW n, n = rd[f].pos \div 2
        PROVE  IF head = Off THEN out[f] = FirstEvents(n)
               ELSE IF ~follow THEN out[f] = FirstEvents(IF n < head THEN n ELSE head)
               ELSE \A i \in 1..Len(out[f]) - 1 : out[f][i] < out[f][i + 1]
    BY <2>1 DEF IInv, Prints, Fewer
  <2> QED BY <2>1 DEF PrintedInOrder
<1> QED BY <1>1, InitHolds, Inductive, PTL DEF Spec
=============================================================================
