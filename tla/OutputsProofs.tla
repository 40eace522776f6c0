--------------------------- MODULE OutputsProofs ---------------------------
(***************************************************************************)
(* What is proved of the outputs, for any destinations, batches, bounds    *)
(* and failures: handles are closed once, what was acknowledged is shown   *)
(* in order, labels of the console can be read off its text and a page has *)
(* its header first and its footer last.                                   *)
(***************************************************************************)
EXTENDS Outputs, SequenceTheorems, FiniteSetTheorems, WellFoundedInduction, TLAPS

-----------------------------------------------------------------------------
(* Types.                                                                  *)

Formats == {"raw", "dump", "json", "logfmt", "console", "html"}
Kinds == {"event", "header", "footer", "dump"}
EventType == [form : STRING, ls : Nat, hide : BOOLEAN]
Destination == [at : STRING, ext : Seq(STRING)]
LineType ==
  [kind : Kinds, w : Nat, i : Nat, own : Nat, shown : Nat, mixed : BOOLEAN]
BranchType ==
  [fmt : Formats, at : STRING, h : Nat, squeezed : BOOLEAN, lastls : Nat,
   rows : Seq(LineType), headed : BOOLEAN, left : BOOLEAN, out : Seq(LineType),
   dropped : SUBSET Nat, cut : BOOLEAN]

Ending == {"failed", "closed"}
ReaderType == [st : {"none", "open", "failed", "closed"}, h : {NoHandle, Std, ReaderFile}]

TypeOK ==
  /\ pc \in {"open", "up"} \cup Ending
  /\ todo \in Seq(Destination)
  /\ ws \in Seq(BranchType)
  /\ rd \in ReaderType
  /\ given \in Seq(Batches)
  /\ acked \subseteq 1..Len(given)
  /\ pc \in {"open", "failed"} => given = << >>

LEMMA BatchIs ==
  ASSUME NEW p \in Batches
  PROVE  p \in Seq(EventType) /\ Len(p) \in Nat \ {0} /\ DOMAIN p = 1..Len(p)
  <1>1. p \in Seq(EventType) /\ p # << >>
    BY BatchesAssumption DEF EventType
  <1> QED BY <1>1, EmptySeq, LenProperties

LEMMA ConstantsIn ==
  /\ "raw" \in Formats /\ "console" \in Formats /\ "html" \in Formats
  /\ \A d : Format(d) \in Formats
  /\ \A d : Squeezed(d) \in BOOLEAN
  BY DEF Formats, Format, Squeezed

LEMMA SmallestExists ==
  ASSUME NEW T, T \subseteq Nat, T # {}
  PROVE  \E x \in T : \A y \in T : x <= y
  <1>1. \E x \in T : \A y \in T : ~(<<y, x>> \in OpToRel(<, Nat))
    BY WFMin, NatLessThanWellFounded, Zenon
  <1>2. PICK x \in T : \A y \in T : ~(<<y, x>> \in OpToRel(<, Nat))
    BY <1>1
  <1>3. \A y \in T : ~(y < x)
    BY <1>2 DEF OpToRel
  <1> QED BY <1>3

-----------------------------------------------------------------------------
(* Where a converter is cut off, and what it answers then.                 *)

LEMMA CutPlace ==
  ASSUME NEW fmt, NEW p \in Batches
  PROVE  /\ Cut(fmt, p) \in 0..Len(p) /\ Done(fmt, p) \in 0..Len(p)
         /\ Cut(fmt, p) = 0 => Done(fmt, p) = Len(p)
  <1> DEFINE Bad == {i \in 1..Len(p) : p[i].form \in Refused[fmt] \cup Panics[fmt]}
  <1>1. Len(p) \in Nat
    BY BatchIs
  <1>2. Cut(fmt, p) = IF Bad # {} THEN Min(Bad) ELSE 0
    BY DEF Cut, SelectInSeq
  <1>3. ASSUME Bad # {} PROVE Min(Bad) \in 1..Len(p)
    <2>1. Bad \subseteq Nat /\ Bad \subseteq 1..Len(p)
      BY <1>1
    <2> HIDE DEF Bad
    <2>2. PICK x \in Bad : \A y \in Bad : x <= y
      BY <1>3, <2>1, SmallestExists
    <2>3. Min(Bad) \in Bad
      BY <2>2 DEF Min
    <2> QED BY <2>1, <2>3
  <1> HIDE DEF Bad
  <1>4. Cut(fmt, p) \in 0..Len(p)
    BY <1>1, <1>2, <1>3
  <1> QED BY <1>1, <1>4 DEF Done

LEMMA OutcomeIs ==
  ASSUME NEW fmt, NEW p
  PROVE  /\ Outcome(fmt, p) = "ok" <=> Cut(fmt, p) = 0
         /\ Outcome(fmt, p) \in {"ok", "error", "recovered", "panic"}
         /\ Outcome(fmt, p) = "recovered" => fmt \in {"console", "dump"}
  BY DEF Outcome, Recovers

-----------------------------------------------------------------------------
(* Sequences of lines: the events of s are in order and of batches up to w *)
(* (InOrder), or all of batch w (FromBatch).                               *)

InOrder(s, w) ==
  /\ \A n \in DOMAIN s : s[n].kind = "event" => s[n].w <= w
  /\ \A n \in DOMAIN s : \A m \in 1..n - 1 : Earlier(s[m], s[n])

FromBatch(s, w) ==
  /\ \A n \in DOMAIN s : s[n].w = w /\ s[n].kind # "footer"
  /\ \A n \in DOMAIN s : \A m \in 1..n - 1 : Earlier(s[m], s[n])

LEMMA LinesIn ==
  ASSUME NEW s \in Seq(LineType)
  PROVE  /\ DOMAIN s = 1..Len(s) /\ Len(s) \in Nat
         /\ \A n \in DOMAIN s : s[n] \in LineType
         /\ \A n \in DOMAIN s : s[n].w \in Nat /\ s[n].i \in Nat
  <1>1. DOMAIN s = 1..Len(s) /\ Len(s) \in Nat
    BY LenProperties
  <1>2. ASSUME NEW n \in DOMAIN s PROVE s[n] \in LineType
    BY <1>1, ElementOfSeq
  <1> QED BY <1>1, <1>2 DEF LineType

LEMMA InOrderJoins ==
  ASSUME NEW s \in Seq(LineType), NEW t \in Seq(LineType), NEW w \in Nat,
         InOrder(s, w), FromBatch(t, w + 1)
  PROVE  InOrder(s \o t, w + 1)
  <1> DEFINE c == s \o t
  <1>1. /\ c \in Seq(LineType) /\ DOMAIN c = 1..Len(s) + Len(t)
        /\ DOMAIN s = 1..Len(s) /\ DOMAIN t = 1..Len(t)
        /\ Len(s) \in Nat /\ Len(t) \in Nat
        /\ \A n \in DOMAIN c : c[n] = IF n <= Len(s) THEN s[n] ELSE t[n - Len(s)]
    <2>1. c \in Seq(LineType) /\ Len(c) = Len(s) + Len(t)
          /\ \A n \in 1..Len(s) + Len(t) : c[n] = IF n <= Len(s) THEN s[n] ELSE t[n - Len(s)]
      BY ConcatProperties
    <2> HIDE DEF c
    <2> QED BY <2>1, LenProperties
  <1> HIDE DEF c
  <1>2. \A n \in DOMAIN s : s[n].w \in Nat
    BY LinesIn
  <1>3. ASSUME NEW n \in DOMAIN c, c[n].kind = "event" PROVE c[n].w <= w + 1
    <2>1. CASE n <= Len(s)
      <3>1. n \in DOMAIN s /\ c[n] = s[n]
        BY <1>1, <2>1
      <3> QED BY <1>2, <1>3, <3>1 DEF InOrder
    <2>2. CASE ~(n <= Len(s))
      <3>1. n - Len(s) \in DOMAIN t /\ c[n] = t[n - Len(s)]
        BY <1>1, <2>2
      <3> QED BY <3>1 DEF FromBatch
    <2> QED BY <2>1, <2>2
  <1>4. ASSUME NEW n \in DOMAIN c, NEW m \in 1..n - 1 PROVE Earlier(c[m], c[n])
    <2>1. CASE n <= Len(s)
      <3>1. n \in DOMAIN c /\ m \in DOMAIN c /\ n \in DOMAIN s /\ n <= Len(s) /\ m <= Len(s)
        BY <1>1, <2>1
      <3>2. c[n] = s[n] /\ c[m] = s[m]
        BY <1>1, <3>1
      <3> QED BY <3>1, <3>2 DEF InOrder
    <2>2. CASE ~(n <= Len(s)) /\ m <= Len(s)
      <3>1. /\ m \in DOMAIN s /\ c[m] = s[m]
            /\ n - Len(s) \in DOMAIN t /\ c[n] = t[n - Len(s)]
        BY <1>1, <2>2
      <3>2. c[n].w = w + 1 /\ (c[m].kind = "event" => c[m].w <= w) /\ c[m].w \in Nat
        BY <1>2, <3>1 DEF InOrder, FromBatch
      <3> QED BY <3>2 DEF Earlier
    <2>3. CASE ~(n <= Len(s)) /\ ~(m <= Len(s))
      <3>1. /\ n - Len(s) \in DOMAIN t /\ c[n] = t[n - Len(s)] /\ c[m] = t[m - Len(s)]
            /\ m - Len(s) \in 1..(n - Len(s)) - 1
        <4> DEFINE k == Len(s)
        <4>1. k \in Nat /\ n \in Nat /\ m \in Nat /\ m < n /\ k < m
          BY <1>1, <2>3
        <4>2. n - k \in 1..Len(t) /\ m - k \in 1..(n - k) - 1 /\ m \in DOMAIN c
          BY <1>1, <4>1
        <4> QED BY <1>1, <2>3, <4>2
      <3> QED BY <3>1 DEF FromBatch
    <2> QED BY <2>1, <2>2, <2>3
  <1>5. InOrder(c, w + 1)
    BY <1>3, <1>4 DEF InOrder
  <1> QED BY <1>5 DEF c

LEMMA InOrderPrefix ==
  ASSUME NEW s \in Seq(LineType), NEW t \in Seq(LineType), NEW w \in Nat, InOrder(s \o t, w)
  PROVE  InOrder(s, w)
  <1> DEFINE c == s \o t
  <1>1. /\ DOMAIN s = 1..Len(s) /\ Len(s) \in Nat /\ DOMAIN s \subseteq DOMAIN c
        /\ \A n \in DOMAIN s : c[n] = s[n]
    <2>1. c \in Seq(LineType) /\ Len(c) = Len(s) + Len(t)
          /\ \A n \in 1..Len(s) + Len(t) : c[n] = IF n <= Len(s) THEN s[n] ELSE t[n - Len(s)]
      BY ConcatProperties
    <2> HIDE DEF c
    <2>2. DOMAIN c = 1..Len(c) /\ DOMAIN s = 1..Len(s) /\ Len(s) \in Nat /\ Len(t) \in Nat
      BY <2>1, LenProperties
    <2>3. \A n \in 1..Len(s) : n \in 1..Len(s) + Len(t) /\ n <= Len(s)
      BY <2>2
    <2> QED BY <2>1, <2>2, <2>3
  <1>2. InOrder(c, w)
    OBVIOUS
  <1> HIDE DEF c
  <1>3. \A n \in DOMAIN s : \A m \in 1..n - 1 : m \in DOMAIN s
    BY <1>1
  <1> QED BY <1>1, <1>2, <1>3 DEF InOrder

LEMMA InOrderLater ==
  ASSUME NEW s \in Seq(LineType), NEW w \in Nat, InOrder(s, w)
  PROVE  InOrder(s, w + 1)
  <1>1. \A n \in DOMAIN s : s[n].w \in Nat
    BY LinesIn
  <1> QED BY <1>1 DEF InOrder

LEMMA JoinsAssociate ==
  ASSUME NEW s \in Seq(LineType), NEW t \in Seq(LineType), NEW u \in Seq(LineType)
  PROVE  (s \o t) \o u = s \o (t \o u)
  <1> DEFINE L == LineType
  <1> HIDE DEF L
  <1>1. s \in Seq(L) /\ t \in Seq(L) /\ u \in Seq(L)
    BY DEF L
  <1> QED BY <1>1, ConcatAssociative

-----------------------------------------------------------------------------
(* What the converters make of a batch.                                    *)

LEMMA LineIs ==
  ASSUME NEW kind \in Kinds, NEW w \in Nat, NEW i \in Nat, NEW own \in Nat, NEW shown \in Nat,
         NEW mixed \in BOOLEAN
  PROVE  LET l == Line(kind, w, i, own, shown, mixed) IN
         /\ l \in LineType /\ l.kind = kind /\ l.w = w /\ l.i = i
         /\ l.own = own /\ l.shown = shown /\ (l.mixed => mixed)
  BY DEF Line, LineType

LEMMA RowIs ==
  ASSUME NEW w \in Nat, NEW i \in Nat, NEW own \in Nat, NEW mixed \in BOOLEAN,
         NEW l, l = Line("event", w, i, own, 0, mixed)
  PROVE  l \in LineType /\ l.kind = "event" /\ l.w = w /\ l.i = i /\ (l.mixed => mixed)
  BY DEF Line, LineType, Kinds

LEMMA PlainLines ==
  ASSUME NEW p \in Batches, NEW w \in Nat
  PROVE  LET t == Plain(w, p, Len(p)) IN
         /\ t \in Seq(LineType) /\ FromBatch(t, w) /\ DOMAIN t = DOMAIN p
         /\ \A n \in DOMAIN t : t[n].kind = "event" /\ t[n].w = w /\ t[n].i = n
  <1> DEFINE t == Plain(w, p, Len(p))
  <1>1. Len(p) \in Nat /\ DOMAIN p = 1..Len(p)
    BY BatchIs
  <1>2. t = [n \in 1..Len(p) |-> Line("event", w, n, p[n].ls, p[n].ls, FALSE)]
    BY DEF Plain
  <1>3. ASSUME NEW n \in 1..Len(p)
        PROVE  /\ t[n] \in LineType
               /\ t[n].kind = "event" /\ t[n].w = w /\ t[n].i = n
    <2>1. p[n] \in EventType
      BY BatchIs, ElementOfSeq
    <2> QED BY <1>1, <2>1 DEF Plain, Line, LineType, EventType, Kinds
  <1> HIDE DEF t
  <1>4. t \in [1..Len(p) -> LineType]
    BY <1>2, <1>3
  <1>5. t \in Seq(LineType) /\ DOMAIN t = 1..Len(p)
    BY <1>1, <1>4, SeqDef
  <1>6. FromBatch(t, w)
    BY <1>1, <1>3, <1>5 DEF FromBatch, Earlier
  <1> QED BY <1>1, <1>3, <1>5, <1>6 DEF t

(* The rows Web adds to its page.                                          *)
NewRows(b, w, p) ==
  [i \in 1..Done("html", p) |-> Line("event", w, i, p[i].ls, 0, i = 1 /\ b.left)]

RowsFrom(t, b, w, p) ==
  /\ t \in Seq(LineType) /\ FromBatch(t, w) /\ DOMAIN t = 1..Done("html", p)
  /\ \A n \in DOMAIN t : /\ t[n].kind = "event" /\ t[n].w = w /\ t[n].i = n
                         /\ t[n].mixed => b.left

LEMMA NewRowsLines ==
  ASSUME NEW p \in Batches, NEW w \in Nat, NEW b \in BranchType
  PROVE  RowsFrom(NewRows(b, w, p), b, w, p)
  <1> DEFINE t == NewRows(b, w, p)  d == Done("html", p)
  <1>1. Len(p) \in Nat /\ d \in 0..Len(p)
    BY BatchIs, CutPlace
  <1>2. t = [n \in 1..d |-> Line("event", w, n, p[n].ls, 0, n = 1 /\ b.left)]
    BY DEF NewRows
  <1> HIDE DEF d
  <1>3. ASSUME NEW n \in 1..d
        PROVE  /\ t[n] \in LineType
               /\ t[n].kind = "event" /\ t[n].w = w /\ t[n].i = n
               /\ t[n].mixed => b.left
    <2>1. n \in 1..Len(p) /\ n \in Nat
      BY <1>1
    <2>2. p[n] \in EventType
      BY <2>1, BatchIs, ElementOfSeq
    <2>3. t[n] = Line("event", w, n, p[n].ls, 0, n = 1 /\ b.left)
      BY <1>2
    <2>4. p[n].ls \in Nat
      BY <2>2 DEF EventType
    <2>5. (n = 1 /\ b.left) \in BOOLEAN /\ ((n = 1 /\ b.left) => b.left)
      BY Zenon
    <2> DEFINE mixed == n = 1 /\ b.left
    <2> HIDE DEF mixed
    <2>6. mixed \in BOOLEAN /\ (mixed => b.left)
      BY <2>5 DEF mixed
    <2>7. t[n] = Line("event", w, n, p[n].ls, 0, mixed)
      BY <2>3 DEF mixed
    <2> DEFINE l == Line("event", w, n, p[n].ls, 0, mixed)
    <2>9. l \in LineType /\ l.kind = "event" /\ l.w = w /\ l.i = n /\ (l.mixed => mixed)
      <3> DEFINE own == p[n].ls
      <3>1. own \in Nat
        BY <2>4
      <3>2. l = Line("event", w, n, own, 0, mixed)
        BY DEF own
      <3> HIDE DEF own, l
      <3> QED BY <2>1, <2>6, <3>1, <3>2, RowIs
    <2> HIDE DEF l
    <2>10. t[n] = l
      BY <2>7 DEF l
    <2> QED BY <2>6, <2>9, <2>10
  <1> HIDE DEF t
  <1>4. t \in [1..d -> LineType]
    BY <1>2, <1>3
  <1>5. t \in Seq(LineType) /\ DOMAIN t = 1..d
    BY <1>1, <1>4, SeqDef
  <1>6. FromBatch(t, w)
    BY <1>1, <1>3, <1>5 DEF FromBatch, Earlier
  <1> QED BY <1>3, <1>5, <1>6 DEF t, d, RowsFrom

(* Labels can be read off the console lines s, and those of the last line  *)
(* it printed are last.                                                    *)
ReadsBack(s, own, n) ==
  \E k \in 1..n : s[k].shown = own /\ \A m \in k + 1..n : s[m].shown = 0
Reads(s, last) ==
  /\ last # 0 => ReadsBack(s, last, Len(s))
  /\ \A n \in DOMAIN s : s[n].own # 0 => ReadsBack(s, s[n].own, n)

LEMMA ReadsOn ==
  ASSUME NEW s \in Seq(LineType), NEW last \in Nat, Reads(s, last), NEW l \in LineType,
         l.shown = IF l.own = last THEN 0 ELSE l.own
  PROVE  Reads(Append(s, l), l.own)
  <1> DEFINE t == Append(s, l)
  <1>1. /\ t \in Seq(LineType) /\ Len(t) = Len(s) + 1 /\ Len(s) \in Nat
        /\ DOMAIN s = 1..Len(s) /\ DOMAIN t = 1..Len(s) + 1
        /\ \A n \in 1..Len(s) : t[n] = s[n]
        /\ t[Len(s) + 1] = l
    <2>1. /\ t \in Seq(LineType) /\ Len(t) = Len(s) + 1
          /\ \A n \in 1..Len(s) : t[n] = s[n]
          /\ t[Len(s) + 1] = l
      BY AppendProperties
    <2> HIDE DEF t
    <2> QED BY <2>1, LenProperties
  <1> HIDE DEF t
  <1>2. ASSUME NEW own, NEW n \in 1..Len(s), ReadsBack(s, own, n) PROVE ReadsBack(t, own, n)
    BY <1>1, <1>2 DEF ReadsBack
  <1>3. ASSUME l.own # 0 PROVE ReadsBack(t, l.own, Len(s) + 1)
    <2>1. CASE l.own = last
      <3>1. PICK k \in 1..Len(s) :
              s[k].shown = last /\ \A m \in k + 1..Len(s) : s[m].shown = 0
        BY <1>3, <2>1 DEF Reads, ReadsBack
      <3>2. ASSUME NEW m \in k + 1..Len(s) + 1 PROVE t[m].shown = 0
        <4>1. m \in k + 1..Len(s) \/ m = Len(s) + 1
          BY <1>1
        <4>2. m \in k + 1..Len(s) => m \in 1..Len(s)
          BY <1>1
        <4> QED BY <1>1, <2>1, <3>1, <4>1, <4>2
      <3>3. k \in 1..Len(s) + 1 /\ t[k].shown = l.own
        BY <1>1, <2>1, <3>1
      <3> QED BY <3>2, <3>3 DEF ReadsBack
    <2>2. CASE l.own # last
      <3>1. t[Len(s) + 1].shown = l.own /\ Len(s) + 1 \in 1..Len(s) + 1
            /\ (Len(s) + 1) + 1..Len(s) + 1 = {}
        BY <1>1, <2>2
      <3> QED BY <3>1 DEF ReadsBack
    <2> QED BY <2>1, <2>2
  <1>4. ASSUME NEW n \in DOMAIN t, t[n].own # 0 PROVE ReadsBack(t, t[n].own, n)
    <2>1. CASE n = Len(s) + 1
      BY <1>1, <1>3, <1>4, <2>1
    <2>2. CASE n # Len(s) + 1
      <3>1. n \in 1..Len(s) /\ t[n] = s[n]
        BY <1>1, <2>2
      <3> QED BY <1>1, <1>2, <1>4, <3>1 DEF Reads
    <2> QED BY <2>1, <2>2
  <1>5. Reads(t, l.own)
    BY <1>1, <1>3, <1>4 DEF Reads
  <1> QED BY <1>5 DEF t

-----------------------------------------------------------------------------
(* The lines of the console: what ConsoleLines builds, up to event k.      *)

Builds(r, last, w, p, k) ==
  r = [i \in 0..k |-> IF i = 0 THEN [out |-> << >>, last |-> last]
                      ELSE ConsoleLine(w, p, r[i - 1], i)]

LEMMA BuildExists ==
  ASSUME NEW last, NEW w, NEW p, NEW d \in Nat
  PROVE  \E r : Builds(r, last, w, p, d)
  <1> DEFINE T == {k \in Nat : ~ \E r : Builds(r, last, w, p, k)}
  <1>1. ASSUME T # {} PROVE FALSE
    <2>2. PICK x \in T : \A y \in T : x <= y
      <3>1. T \subseteq Nat
        OBVIOUS
      <3> HIDE DEF T
      <3> QED BY <1>1, <3>1, SmallestExists
    <2>3. x \in Nat /\ ~ \E r : Builds(r, last, w, p, x)
      BY <2>2
    <2>4. x # 0
      <3>1. ASSUME x = 0 PROVE Builds([n \in 0..0 |-> [out |-> << >>, last |-> last]], last, w, p, x)
        BY <3>1 DEF Builds
      <3> QED BY <2>3, <3>1
    <2>5. x - 1 \in Nat /\ ~(x <= x - 1)
      BY <2>3, <2>4
    <2>6. PICK r : Builds(r, last, w, p, x - 1)
      BY <2>2, <2>5
    <2> DEFINE q == [n \in 0..x |-> IF n = x THEN ConsoleLine(w, p, r[x - 1], x) ELSE r[n]]
    <2>7. ASSUME NEW n \in 0..x
          PROVE  q[n] = IF n = 0 THEN [out |-> << >>, last |-> last]
                        ELSE ConsoleLine(w, p, q[n - 1], n)
      <3>1. \A j \in 0..x - 1 : r[j] = IF j = 0 THEN [out |-> << >>, last |-> last]
                                       ELSE ConsoleLine(w, p, r[j - 1], j)
        BY <2>6 DEF Builds
      <3>2. CASE n = x
        <4>1. q[n] = ConsoleLine(w, p, r[x - 1], x) /\ q[x - 1] = r[x - 1]
          BY <2>4, <2>5, <3>2
        <4> HIDE DEF q
        <4> QED BY <2>4, <3>2, <4>1
      <3>3. CASE n # x
        <4>1. n \in 0..x - 1 /\ n # x /\ (n # 0 => n - 1 \in 0..x /\ n - 1 # x)
          BY <2>5, <3>3
        <4>2. q[n] = r[n] /\ (n # 0 => q[n - 1] = r[n - 1])
          BY <4>1
        <4> HIDE DEF q
        <4> QED BY <3>1, <4>1, <4>2
      <3> QED BY <3>2, <3>3
    <2>8. q = [n \in 0..x |-> q[n]]
      OBVIOUS
    <2> HIDE DEF q
    <2>9. Builds(q, last, w, p, x)
      BY <2>7, <2>8 DEF Builds
    <2> QED BY <2>3, <2>9
  <1> QED BY <1>1

LEMMA ConsoleLinesAre ==
  ASSUME NEW b, NEW w, NEW p \in Batches
  PROVE  \E r : /\ Builds(r, b.lastls, w, p, Done("console", p))
                /\ ConsoleLines(b, w, p) = r[Done("console", p)]
  <1> DEFINE acc == CHOOSE acc : acc = [i \in 0..Done("console", p) |->
                      IF i = 0 THEN [out |-> << >>, last |-> b.lastls]
                      ELSE ConsoleLine(w, p, acc[i - 1], i)]
  <1>1. ConsoleLines(b, w, p) = acc[Done("console", p)]
    BY DEF ConsoleLines
  <1>2. Done("console", p) \in Nat
    BY BatchIs, CutPlace
  <1>3. \E r : Builds(r, b.lastls, w, p, Done("console", p))
    BY <1>2, BuildExists
  <1>4. Builds(acc, b.lastls, w, p, Done("console", p))
    BY <1>3 DEF Builds
  <1> QED BY <1>1, <1>4

(* What has been built after event i.                                      *)
Built(a, last, w, p, i) ==
  /\ a \in [out : Seq(LineType), last : Nat]
  /\ \A n \in DOMAIN a.out :
       /\ a.out[n].kind = "event" /\ a.out[n].w = w /\ a.out[n].i \in 1..i
       /\ \A m \in 1..n - 1 : a.out[m].i < a.out[n].i
  /\ \A j \in 1..i : p[j].hide \/ \E n \in DOMAIN a.out : a.out[n].i = j
  /\ \A s \in Seq(LineType) : Reads(s, last) => Reads(s \o a.out, a.last)

LEMMA BuiltOn ==
  ASSUME NEW p \in Batches, NEW w \in Nat, NEW last \in Nat, NEW i \in 1..Len(p), NEW a,
         Built(a, last, w, p, i - 1)
  PROVE  Built(ConsoleLine(w, p, a, i), last, w, p, i)
  <1>1. p[i] \in EventType /\ i \in Nat /\ i - 1 \in Nat
    BY BatchIs, ElementOfSeq
  <1>2. \A j \in 1..i : j \in 1..i - 1 \/ j = i
    BY <1>1
  <1>3. CASE p[i].hide
    <2>1. ConsoleLine(w, p, a, i) = a
      BY <1>3 DEF ConsoleLine
    <2>2. \A j \in 1..i - 1 : j \in 1..i
      BY <1>1
    <2>3. Built(a, last, w, p, i)
      BY <1>2, <1>3, <2>2 DEF Built
    <2> QED BY <2>1, <2>3
  <1>4. CASE ~p[i].hide
    <2> DEFINE own == p[i].ls
               shown == IF own = a.last THEN 0 ELSE own
               l == Line("event", w, i, own, shown, FALSE)
               t == Append(a.out, l)
               c == [out |-> t, last |-> own]
    <2>1. ConsoleLine(w, p, a, i) = c
      BY <1>4 DEF ConsoleLine
    <2>2. own \in Nat /\ a.out \in Seq(LineType) /\ a.last \in Nat
      BY <1>1 DEF EventType, Built
    <2>3. l \in LineType /\ l.kind = "event" /\ l.w = w /\ l.i = i /\ l.own = own
          /\ l.shown = shown
      <3>1. own \in Nat /\ shown \in Nat
        BY <2>2
      <3> HIDE DEF own, shown
      <3> QED BY <1>1, <3>1 DEF Line, LineType, Kinds
    <2> HIDE DEF l, own
    <2>4. /\ t \in Seq(LineType) /\ Len(t) = Len(a.out) + 1
          /\ \A n \in 1..Len(a.out) : t[n] = a.out[n]
          /\ t[Len(a.out) + 1] = l
      BY <2>2, <2>3, AppendProperties
    <2> HIDE DEF t
    <2>5. /\ DOMAIN t = 1..Len(a.out) + 1 /\ DOMAIN a.out = 1..Len(a.out)
          /\ Len(a.out) \in Nat
      BY <2>2, <2>4, LenProperties
    <2>6. ASSUME NEW n \in DOMAIN t
          PROVE  /\ t[n].kind = "event" /\ t[n].w = w /\ t[n].i \in 1..i
                 /\ \A m \in 1..n - 1 : t[m].i < t[n].i
      <3>1. CASE n = Len(a.out) + 1
        <4>1. \A m \in 1..n - 1 : t[m].i \in 1..i - 1
          BY <2>4, <2>5, <3>1 DEF Built
        <4> QED BY <1>1, <2>3, <2>4, <3>1, <4>1
      <3>2. CASE n # Len(a.out) + 1
        <4>1. n \in 1..Len(a.out) /\ \A m \in 1..n - 1 : m \in 1..Len(a.out)
          BY <2>5, <3>2
        <4>2. n \in DOMAIN a.out /\ t[n] = a.out[n] /\ \A m \in 1..n - 1 : t[m] = a.out[m]
          BY <2>4, <2>5, <4>1
        <4> QED BY <1>1, <4>2 DEF Built
      <3> QED BY <3>1, <3>2
    <2>7. ASSUME NEW j \in 1..i PROVE p[j].hide \/ \E n \in DOMAIN t : t[n].i = j
      <3>1. CASE j = i
        <4>1. Len(a.out) + 1 \in DOMAIN t /\ t[Len(a.out) + 1].i = i
          BY <2>3, <2>4, <2>5
        <4> QED BY <3>1, <4>1
      <3>2. CASE j # i
        <4>1. p[j].hide \/ \E n \in DOMAIN a.out : a.out[n].i = j
          BY <1>2, <3>2 DEF Built
        <4>2. \A n \in DOMAIN a.out : n \in DOMAIN t /\ t[n] = a.out[n]
          BY <2>4, <2>5
        <4> QED BY <4>1, <4>2
      <3> QED BY <3>1, <3>2
    <2>8. ASSUME NEW s \in Seq(LineType), Reads(s, last) PROVE Reads(s \o t, own)
      <3> DEFINE u == s \o a.out
      <3>1. u \in Seq(LineType) /\ Reads(u, a.last)
        BY <2>2, <2>8, ConcatProperties DEF Built
      <3>2. s \o t = Append(u, l)
        <4>1. t = a.out \o <<l>> /\ <<l>> \in Seq(LineType)
          BY <2>2, <2>3, AppendIsConcat DEF t
        <4>2. s \o (a.out \o <<l>>) = u \o <<l>>
          <5> DEFINE e == <<l>>  o == a.out
          <5>1. e \in Seq(LineType) /\ o \in Seq(LineType)
            BY <2>2, <4>1
          <5> HIDE DEF e, o
          <5>2. (s \o o) \o e = s \o (o \o e)
            BY <5>1, JoinsAssociate
          <5> QED BY <5>2 DEF e, o
        <4>3. Append(u, l) = u \o <<l>>
          <5> HIDE DEF u
          <5> QED BY <2>3, <3>1, AppendIsConcat
        <4> QED BY <4>1, <4>2, <4>3
      <3> HIDE DEF u
      <3>3. Reads(Append(u, l), l.own)
        BY <2>2, <2>3, <3>1, ReadsOn
      <3> QED BY <2>3, <3>2, <3>3
    <2>9. c \in [out : Seq(LineType), last : Nat] /\ c.out = t /\ c.last = own
      BY <2>2, <2>4
    <2> HIDE DEF c
    <2>10. Built(c, last, w, p, i)
      BY <2>6, <2>7, <2>8, <2>9 DEF Built
    <2> QED BY <2>1, <2>10
  <1> QED BY <1>3, <1>4

LEMMA ConsoleBuilt ==
  ASSUME NEW p \in Batches, NEW w \in Nat, NEW b \in BranchType
  PROVE  Built(ConsoleLines(b, w, p), b.lastls, w, p, Done("console", p))
  <1> DEFINE d == Done("console", p)  last == b.lastls
  <1>1. d \in 0..Len(p) /\ Len(p) \in Nat /\ last \in Nat
    BY BatchIs, CutPlace DEF BranchType
  <1>2. PICK r : Builds(r, last, w, p, d) /\ ConsoleLines(b, w, p) = r[d]
    BY ConsoleLinesAre
  <1> HIDE DEF d, last
  <1>3. \A i \in 0..d : r[i] = IF i = 0 THEN [out |-> << >>, last |-> last]
                               ELSE ConsoleLine(w, p, r[i - 1], i)
    BY <1>2 DEF Builds
  <1> DEFINE T == {i \in 0..d : ~Built(r[i], last, w, p, i)}
  <1>4. ASSUME T # {} PROVE FALSE
    <2>1. PICK x \in T : \A y \in T : x <= y
      <3>1. T \subseteq Nat
        BY <1>1
      <3> HIDE DEF T
      <3> QED BY <1>4, <3>1, SmallestExists
    <2>2. x \in 0..d /\ ~Built(r[x], last, w, p, x)
      BY <2>1
    <2>3. Built([out |-> << >>, last |-> last], last, w, p, 0)
      <3> DEFINE a == [out |-> << >>, last |-> last]
      <3>1. a \in [out : Seq(LineType), last : Nat] /\ a.out = << >> /\ a.last = last
        BY <1>1
      <3>2. \A s \in Seq(LineType) : s \o a.out = s
        BY <3>1, ConcatEmptySeq
      <3> HIDE DEF a
      <3>3. DOMAIN a.out = {} /\ 1..0 = {}
        BY <3>1
      <3>4. Built(a, last, w, p, 0)
        BY <3>1, <3>2, <3>3 DEF Built
      <3> QED BY <3>4 DEF a
    <2>4. x # 0
      BY <1>3, <2>2, <2>3
    <2>5. x \in 1..Len(p) /\ x - 1 \in 0..d /\ ~(x <= x - 1)
      BY <1>1, <2>2, <2>4
    <2>6. Built(r[x - 1], last, w, p, x - 1)
      BY <2>1, <2>5
    <2>7. Built(ConsoleLine(w, p, r[x - 1], x), last, w, p, x)
      BY <1>1, <2>5, <2>6, BuiltOn
    <2> QED BY <1>3, <2>2, <2>4, <2>7
  <1>5. d \in 0..d
    BY <1>1
  <1> QED BY <1>2, <1>4, <1>5 DEF d, last

-----------------------------------------------------------------------------
(* The branch after a Write, field by field.                               *)

LEMMA MarkIs ==
  ASSUME NEW kind \in Kinds \ {"event"}, NEW w \in Nat
  PROVE  LET l == Mark(kind, w) IN
         /\ l \in LineType /\ <<l>> \in Seq(LineType)
         /\ l.kind = kind /\ l.w = w /\ l.own = 0 /\ l.shown = 0 /\ ~l.mixed
  <1> DEFINE l == Mark(kind, w)
  <1>1. l \in LineType /\ l.kind = kind /\ l.w = w /\ l.own = 0 /\ l.shown = 0 /\ ~l.mixed
    BY DEF Mark, Line, LineType
  <1> HIDE DEF l
  <1>2. <<l>> \in Seq(LineType)
    BY <1>1
  <1> QED BY <1>1, <1>2 DEF l

LEMMA WebRowsIs ==
  ASSUME NEW p \in Batches, NEW w \in Nat, NEW b \in BranchType
  PROVE  /\ WebRows(b, w, p) \in Seq(LineType)
         /\ WebRows(b, w, p) =
              (IF b.headed THEN b.rows ELSE << Mark("header", w) >>) \o NewRows(b, w, p)
  <1>1. WebRows(b, w, p) =
          (IF b.headed THEN b.rows ELSE << Mark("header", w) >>) \o NewRows(b, w, p)
    BY DEF WebRows, NewRows
  <1> DEFINE first == IF b.headed THEN b.rows ELSE << Mark("header", w) >>
             t == NewRows(b, w, p)
  <1>2. "header" \in Kinds \ {"event"}
    BY DEF Kinds
  <1>3. << Mark("header", w) >> \in Seq(LineType)
    BY <1>2, MarkIs
  <1>4. b.rows \in Seq(LineType)
    BY DEF BranchType
  <1>5. first \in Seq(LineType) /\ t \in Seq(LineType)
    BY <1>3, <1>4, NewRowsLines DEF RowsFrom
  <1> HIDE DEF first, t
  <1>6. first \o t \in Seq(LineType)
    BY <1>5, ConcatProperties
  <1> QED BY <1>1, <1>6 DEF first, t

LEMMA TextIs ==
  ASSUME NEW p \in Batches, NEW w \in Nat, NEW b \in BranchType
  PROVE  Text(b, w, p) \in Seq(LineType)
  <1>1. CASE Cut(b.fmt, p) # 0
    <2>1. << Mark("dump", w) >> \in Seq(LineType)
      BY MarkIs DEF Kinds
    <2>2. << >> \in Seq(LineType)
      BY EmptySeq
    <2> QED BY <1>1, <2>1, <2>2 DEF Text
  <1>2. CASE Cut(b.fmt, p) = 0
    <2>1. ConsoleLines(b, w, p).out \in Seq(LineType)
      BY ConsoleBuilt DEF Built
    <2>2. WebRows(b, w, p) \in Seq(LineType) /\ Plain(w, p, Len(p)) \in Seq(LineType)
      BY WebRowsIs, PlainLines
    <2> QED BY <1>2, <2>1, <2>2 DEF Text
  <1> QED BY <1>1, <1>2

(* The parts of a branch a converter, and a write below it, leave alone.   *)
LEMMA ConvertedIs ==
  ASSUME NEW p \in Batches, NEW w \in Nat, NEW b \in BranchType
  PROVE  LET c == Converted(b, w, p) IN
         /\ c \in BranchType
         /\ c.fmt = b.fmt /\ c.at = b.at /\ c.h = b.h /\ c.squeezed = b.squeezed
         /\ c.out = b.out /\ c.dropped = b.dropped
         /\ b.fmt = "console" => /\ c.lastls = ConsoleLines(b, w, p).last
                                 /\ c.cut = (b.cut \/ Cut("console", p) # 0)
         /\ b.fmt = "html" =>
              /\ c.headed = (b.headed \/ Done("html", p) > 0)
              /\ c.left = WebLeft(b, p)
              /\ c.rows = IF Outcome("html", p) = "ok" THEN << >> ELSE WebRows(b, w, p)
         /\ b.fmt # "html" => c.rows = b.rows
  <1>1. CASE b.fmt = "console"
    <2> DEFINE last == ConsoleLines(b, w, p).last
               cut == b.cut \/ Cut("console", p) # 0
               c == [b EXCEPT !.lastls = last, !.cut = cut]
    <2>1. last \in Nat
      BY ConsoleBuilt DEF Built
    <2>2. cut \in BOOLEAN
      BY Zenon
    <2>3. Converted(b, w, p) = c
      BY <1>1 DEF Converted
    <2> HIDE DEF last, cut
    <2>4. /\ c \in BranchType /\ c.fmt = b.fmt /\ c.at = b.at /\ c.h = b.h
          /\ c.squeezed = b.squeezed /\ c.out = b.out /\ c.dropped = b.dropped /\ c.rows = b.rows
          /\ c.lastls = last /\ c.cut = cut
      BY <2>1, <2>2 DEF BranchType
    <2> HIDE DEF c
    <2> QED BY <1>1, <2>3, <2>4 DEF last, cut
  <1>2. CASE b.fmt = "html"
    <2> DEFINE headed == b.headed \/ Done("html", p) > 0
               left == WebLeft(b, p)
               rows == IF Outcome("html", p) = "ok" THEN << >> ELSE WebRows(b, w, p)
               c == [b EXCEPT !.headed = headed, !.left = left, !.rows = rows]
    <2>1. headed \in BOOLEAN /\ left \in BOOLEAN
      <3>1. headed \in BOOLEAN
        BY Zenon
      <3>2. left \in BOOLEAN
        BY Zenon DEF WebLeft
      <3> QED BY <3>1, <3>2
    <2>2. rows \in Seq(LineType)
      BY WebRowsIs, EmptySeq
    <2>3. Converted(b, w, p) = c
      BY <1>2 DEF Converted
    <2> HIDE DEF headed, left, rows
    <2>4. /\ c \in BranchType /\ c.fmt = b.fmt /\ c.at = b.at /\ c.h = b.h
          /\ c.squeezed = b.squeezed /\ c.out = b.out /\ c.dropped = b.dropped
          /\ c.headed = headed /\ c.left = left /\ c.rows = rows
      BY <2>1, <2>2 DEF BranchType
    <2> HIDE DEF c
    <2> QED BY <1>2, <2>3, <2>4 DEF headed, left, rows
  <1>3. CASE b.fmt \notin {"console", "html"}
    <2>1. Converted(b, w, p) = b
      BY <1>3 DEF Converted
    <2> QED BY <1>3, <2>1
  <1> QED BY <1>1, <1>2, <1>3

Wrote(c, b, i, w, text, fault) ==
  /\ c \in BranchType
  /\ c.fmt = b.fmt /\ c.at = b.at /\ c.squeezed = b.squeezed
  /\ c.lastls = b.lastls /\ c.rows = b.rows /\ c.headed = b.headed /\ c.left = b.left
  /\ c.cut = b.cut
  /\ c.h = b.h \/ (b.at = "pattern" /\ b.h = NoHandle /\ c.h = FileOf(i))
  /\ c.out = IF fault # "none" THEN b.out ELSE b.out \o text
  /\ b.dropped \subseteq c.dropped
  /\ c.dropped = IF fault # "none" /\ text # << >> THEN b.dropped \cup {w} ELSE b.dropped

LEMMA BelowIs ==
  ASSUME NEW b \in BranchType, NEW i \in Nat, NEW w \in Nat, NEW text \in Seq(LineType),
         NEW fault \in Faults
  PROVE  Wrote(Below(b, i, w, text, fault), b, i, w, text, fault)
  <1> DEFINE h == IF text # << >> /\ fault # "open" /\ b.at = "pattern" /\ b.h = NoHandle
                  THEN FileOf(i) ELSE b.h
             out == IF fault # "none" THEN b.out ELSE b.out \o text
             dropped == IF fault # "none" /\ text # << >> THEN b.dropped \cup {w} ELSE b.dropped
             c == [b EXCEPT !.h = h, !.out = out, !.dropped = dropped]
  <1>1. h \in Nat /\ (h = b.h \/ (b.at = "pattern" /\ b.h = NoHandle /\ h = FileOf(i)))
    BY DEF FileOf, BranchType
  <1>2. out \in Seq(LineType)
    <2>1. b.out \in Seq(LineType)
      BY DEF BranchType
    <2> DEFINE o == b.out
    <2> HIDE DEF o
    <2>2. o \o text \in Seq(LineType)
      BY <2>1, ConcatProperties DEF o
    <2> QED BY <2>1, <2>2 DEF o
  <1>3. dropped \in SUBSET Nat /\ b.dropped \subseteq dropped
    BY DEF BranchType
  <1>4. Below(b, i, w, text, fault) = c
    BY DEF Below
  <1> HIDE DEF h, out, dropped
  <1>5. /\ c \in BranchType
        /\ c.fmt = b.fmt /\ c.at = b.at /\ c.squeezed = b.squeezed
        /\ c.lastls = b.lastls /\ c.rows = b.rows /\ c.headed = b.headed /\ c.left = b.left
        /\ c.cut = b.cut /\ c.h = h /\ c.out = out /\ c.dropped = dropped
    BY <1>1, <1>2, <1>3 DEF BranchType
  <1> HIDE DEF c
  <1> QED BY <1>1, <1>3, <1>4, <1>5 DEF h, out, dropped, Wrote

(* A branch as WriteBranch leaves it.                                      *)
After(b, i, w, p, fault) ==
  LET c == Below(Converted(b, w, p), i, w, Text(b, w, p), fault)
  IN IF Dumps(b, w, p, fault) THEN Below(c, i, w, << Mark("dump", w) >>, "none") ELSE c

(* What a write that failed leaves behind the text: nothing or a dump.     *)
Rest(b, w, p, fault) == IF Dumps(b, w, p, fault) THEN << Mark("dump", w) >> ELSE << >>

Became(c, b, i, w, p, fault) ==
  LET conv == Converted(b, w, p)  text == Text(b, w, p) IN
  /\ c \in BranchType
  /\ c.fmt = b.fmt /\ c.at = b.at /\ c.squeezed = b.squeezed
  /\ c.lastls = conv.lastls /\ c.rows = conv.rows /\ c.headed = conv.headed
  /\ c.left = conv.left /\ c.cut = conv.cut
  /\ c.h = b.h \/ (b.at = "pattern" /\ b.h = NoHandle /\ c.h = FileOf(i))
  /\ c.out = b.out \o (IF fault # "none" THEN Rest(b, w, p, fault) ELSE text)
  /\ b.dropped \subseteq c.dropped
  /\ c.dropped = IF fault # "none" /\ text # << >> THEN b.dropped \cup {w} ELSE b.dropped

(* The one line of a dump.                                                 *)
LEMMA DumpIs ==
  ASSUME NEW w \in Nat
  PROVE  << Mark("dump", w) >> \in Seq(LineType) /\ FromBatch(<< Mark("dump", w) >>, w)
  <1> DEFINE l == Mark("dump", w)  s == << l >>
  <1>1. l.kind = "dump" /\ l.w = w /\ s \in Seq(LineType)
    BY MarkIs DEF Kinds
  <1> HIDE DEF l
  <1>2. DOMAIN s = {1} /\ s[1] = l
    OBVIOUS
  <1> HIDE DEF s
  <1>3. \A n \in DOMAIN s : s[n] = l /\ 1..n - 1 = {}
    BY <1>2
  <1>4. FromBatch(s, w)
    BY <1>1, <1>3 DEF FromBatch
  <1> QED BY <1>1, <1>4 DEF s, l

LEMMA RestIs ==
  ASSUME NEW p, NEW w \in Nat, NEW b, NEW fault
  PROVE  LET rest == Rest(b, w, p, fault) IN
         /\ rest \in Seq(LineType) /\ FromBatch(rest, w)
         /\ Text(b, w, p) = << >> => rest = << >>
  <1>1. << >> \in Seq(LineType) /\ FromBatch(<< >>, w)
    BY EmptySeq DEF FromBatch
  <1>2. Text(b, w, p) = << >> => ~Dumps(b, w, p, fault)
    BY DEF Dumps
  <1> QED BY <1>1, <1>2, DumpIs DEF Rest

LEMMA AfterIs ==
  ASSUME NEW p \in Batches, NEW w \in Nat, NEW b \in BranchType, NEW i \in Nat,
         NEW fault \in Faults
  PROVE  Became(After(b, i, w, p, fault), b, i, w, p, fault)
  <1> DEFINE conv == Converted(b, w, p)  text == Text(b, w, p)  dump == << Mark("dump", w) >>
  <1>1. /\ conv \in BranchType
        /\ conv.fmt = b.fmt /\ conv.at = b.at /\ conv.h = b.h /\ conv.squeezed = b.squeezed
        /\ conv.out = b.out /\ conv.dropped = b.dropped
    BY ConvertedIs
  <1>2. text \in Seq(LineType) /\ dump \in Seq(LineType) /\ b.out \in Seq(LineType)
    BY TextIs, DumpIs DEF BranchType
  <1>3. "none" \in Faults /\ Dumps(b, w, p, fault) \in BOOLEAN
        /\ (Dumps(b, w, p, fault) => fault # "none")
    BY DEF Faults, Dumps
  <1> HIDE DEF conv, text, dump
  <1> DEFINE c == Below(conv, i, w, text, fault)  d == Below(c, i, w, dump, "none")
  <1>4. Wrote(c, conv, i, w, text, fault)
    BY <1>1, <1>2, BelowIs
  <1>5. c \in BranchType
    BY <1>4 DEF Wrote
  <1>6. Wrote(d, c, i, w, dump, "none")
    <2> HIDE DEF c
    <2> QED BY <1>2, <1>3, <1>5, BelowIs
  <1>7. After(b, i, w, p, fault) = IF Dumps(b, w, p, fault) THEN d ELSE c
    BY DEF After, c, d, conv, text, dump
  <1>8. Rest(b, w, p, fault) = IF Dumps(b, w, p, fault) THEN dump ELSE << >>
    BY DEF Rest, dump
  <1> HIDE DEF c, d
  <1> DEFINE o == b.out
  <1> HIDE DEF o
  <1>9. o \o << >> = o
    BY <1>2, ConcatEmptySeq DEF o
  <1>10. CASE Dumps(b, w, p, fault)
    <2>1. c.out = o /\ d.out = o \o dump /\ d.dropped = c.dropped
      BY <1>1, <1>3, <1>4, <1>6, <1>10 DEF Wrote, o
    <2>2. /\ d \in BranchType
          /\ d.fmt = b.fmt /\ d.at = b.at /\ d.squeezed = b.squeezed
          /\ d.lastls = conv.lastls /\ d.rows = conv.rows /\ d.headed = conv.headed
          /\ d.left = conv.left /\ d.cut = conv.cut
          /\ d.h = b.h \/ (b.at = "pattern" /\ b.h = NoHandle /\ d.h = FileOf(i))
      BY <1>1, <1>4, <1>6 DEF Wrote
    <2>3. /\ b.dropped \subseteq d.dropped
          /\ d.dropped = IF fault # "none" /\ text # << >> THEN b.dropped \cup {w} ELSE b.dropped
      BY <1>1, <1>4, <2>1 DEF Wrote
    <2> QED BY <1>3, <1>7, <1>8, <1>10, <2>1, <2>2, <2>3 DEF conv, text, o, Became
  <1>11. CASE ~Dumps(b, w, p, fault)
    <2>1. c.out = o \o (IF fault # "none" THEN << >> ELSE text)
      BY <1>1, <1>4, <1>9 DEF Wrote, o
    <2> QED BY <1>1, <1>4, <1>7, <1>8, <1>11, <2>1 DEF conv, text, o, Wrote, Became
  <1> QED BY <1>3, <1>10, <1>11

-----------------------------------------------------------------------------
(* The branches after a Write and after CloseAll.                          *)

LEMMA TriedIs ==
  ASSUME NEW p, ws \in Seq(BranchType)
  PROVE  /\ Tried(p) \in 0..Len(ws)
         /\ Tried(p) < Len(ws) => /\ Tried(p) \in DOMAIN ws
                                  /\ Outcome(ws[Tried(p)].fmt, p) = "panic"
  <1> DEFINE Bad == {i \in 1..Len(ws) : Outcome(ws[i].fmt, p) = "panic"}
             k == IF Bad # {} THEN Min(Bad) ELSE 0
  <1>1. Len(ws) \in Nat /\ DOMAIN ws = 1..Len(ws)
    BY LenProperties
  <1>2. Tried(p) = IF k = 0 THEN Len(ws) ELSE k
    BY DEF Tried, SelectInSeq
  <1>3. ASSUME Bad # {} PROVE Min(Bad) \in Bad /\ Min(Bad) \in 1..Len(ws)
    <2>1. Bad \subseteq Nat /\ Bad \subseteq 1..Len(ws)
      BY <1>1
    <2> HIDE DEF Bad
    <2>2. PICK x \in Bad : \A y \in Bad : x <= y
      BY <1>3, <2>1, SmallestExists
    <2>3. Min(Bad) \in Bad
      BY <2>2 DEF Min
    <2> QED BY <2>1, <2>3
  <1>4. CASE Bad = {}
    BY <1>1, <1>2, <1>4
  <1>5. CASE Bad # {}
    <2>1. k \in Bad /\ k \in 1..Len(ws)
      BY <1>3, <1>5
    <2> HIDE DEF k
    <2>2. Outcome(ws[k].fmt, p) = "panic"
      BY <2>1
    <2> HIDE DEF Bad
    <2> QED BY <1>1, <1>2, <2>1, <2>2
  <1> QED BY <1>4, <1>5

LEMMA BranchIn ==
  ASSUME ws \in Seq(BranchType), NEW i \in DOMAIN ws
  PROVE  ws[i] \in BranchType /\ i \in Nat /\ i \in 1..Len(ws)
  BY LenProperties, ElementOfSeq

LEMMA WriteBranches ==
  ASSUME TypeOK, NEW p \in Batches, NEW how \in [DOMAIN ws -> Faults], Write(p, how)
  PROVE  /\ ws' \in Seq(BranchType) /\ DOMAIN ws' = DOMAIN ws /\ Len(ws') = Len(ws)
         /\ \A i \in DOMAIN ws :
              ws'[i] = IF i <= Tried(p) THEN After(ws[i], i, Len(given) + 1, p, how[i])
                       ELSE ws[i]
  <1> DEFINE w == Len(given) + 1
             new(i) == IF i <= Tried(p) THEN After(ws[i], i, w, p, how[i]) ELSE ws[i]
  <1>1. ws \in Seq(BranchType) /\ DOMAIN ws = 1..Len(ws) /\ Len(ws) \in Nat
    BY LenProperties DEF TypeOK
  <1>2. w \in Nat
    BY LenProperties DEF TypeOK
  <1>3. ws' = [i \in DOMAIN ws |-> new(i)]
    BY DEF Write, WriteBranch, After
  <1> HIDE DEF w
  <1>4. ASSUME NEW i \in DOMAIN ws PROVE new(i) \in BranchType
    <2>1. ws[i] \in BranchType /\ i \in Nat
      BY <1>1, BranchIn
    <2> DEFINE fault == how[i]
    <2>2. fault \in Faults
      OBVIOUS
    <2> HIDE DEF fault
    <2>3. After(ws[i], i, w, p, fault) \in BranchType
      BY <1>2, <2>1, <2>2, AfterIs DEF Became
    <2> QED BY <2>1, <2>3 DEF fault
  <1> HIDE DEF new
  <1>5. ws' \in [1..Len(ws) -> BranchType]
    BY <1>1, <1>3, <1>4
  <1>6. ws' \in Seq(BranchType) /\ DOMAIN ws' = DOMAIN ws
    BY <1>1, <1>5, SeqDef
  <1>7. Len(ws') = Len(ws)
    BY <1>1, <1>6, LenProperties
  <1> QED BY <1>3, <1>6, <1>7 DEF new, w

(* What Below does to the end of a page.                                   *)
LEMMA CloseBranches ==
  ASSUME TypeOK, CloseAll
  PROVE  /\ ws' \in Seq(BranchType) /\ DOMAIN ws' = DOMAIN ws /\ Len(ws') = Len(ws)
         /\ \A i \in DOMAIN ws :
              IF ws[i].fmt = "html"
              THEN Wrote(ws'[i], [ws[i] EXCEPT !.rows = << >>], i, 0,
                         << Mark("footer", 0) >>, "none")
              ELSE ws'[i] = ws[i]
  <1>1. ws \in Seq(BranchType) /\ DOMAIN ws = 1..Len(ws) /\ Len(ws) \in Nat
    BY LenProperties DEF TypeOK
  <1>2. ws' = [i \in DOMAIN ws |-> Ended(i)]
    BY DEF CloseAll
  <1>3. ASSUME NEW i \in DOMAIN ws
        PROVE  /\ Ended(i) \in BranchType
               /\ IF ws[i].fmt = "html"
                  THEN Wrote(Ended(i), [ws[i] EXCEPT !.rows = << >>], i, 0,
                             << Mark("footer", 0) >>, "none")
                  ELSE Ended(i) = ws[i]
    <2>1. ws[i] \in BranchType /\ i \in Nat
      BY <1>1, BranchIn
    <2>2. CASE ws[i].fmt = "html"
      <3> DEFINE b == [ws[i] EXCEPT !.rows = << >>]  text == << Mark("footer", 0) >>
      <3>1. text \in Seq(LineType)
        BY MarkIs DEF Kinds
      <3>2. b \in BranchType
        <4>1. << >> \in Seq(LineType)
          BY EmptySeq
        <4> QED BY <2>1, <4>1 DEF BranchType
      <3>3. Ended(i) = Below(b, i, 0, text, "none")
        BY <2>2 DEF Ended
      <3> HIDE DEF b, text
      <3>4. Wrote(Below(b, i, 0, text, "none"), b, i, 0, text, "none")
        BY <2>1, <3>1, <3>2, BelowIs DEF Faults
      <3>5. Wrote(Ended(i), b, i, 0, text, "none")
        BY <3>3, <3>4
      <3>6. Ended(i) \in BranchType
        BY <3>5 DEF Wrote
      <3> QED BY <2>2, <3>5, <3>6 DEF b, text
    <2>3. CASE ws[i].fmt # "html"
      BY <2>1, <2>3 DEF Ended
    <2> QED BY <2>2, <2>3
  <1>4. ws' \in [1..Len(ws) -> BranchType]
    BY <1>1, <1>2, <1>3
  <1>5. ws' \in Seq(BranchType) /\ DOMAIN ws' = DOMAIN ws
    BY <1>1, <1>4, SeqDef
  <1>6. Len(ws') = Len(ws)
    BY <1>1, <1>5, LenProperties
  <1> QED BY <1>2, <1>3, <1>5, <1>6

-----------------------------------------------------------------------------
(* Types are kept.                                                         *)

LEMMA OpenBranch ==
  ASSUME TypeOK, OpenNext
  PROVE  LET d == Head(todo)
             b == Branch(d, Opened(d, Len(ws) + 1)) IN
         /\ d \in Destination /\ b \in BranchType
         /\ b.fmt \in Formats /\ b.at = d.at /\ b.h = Opened(d, Len(ws) + 1)
         /\ b.lastls = 0 /\ b.rows = << >> /\ ~b.headed /\ ~b.left /\ b.out = << >>
         /\ b.dropped = {}
         /\ ws' = Append(ws, b) /\ ws' \in Seq(BranchType)
         /\ Len(ws') = Len(ws) + 1 /\ DOMAIN ws' = 1..Len(ws) + 1
         /\ Len(ws) \in Nat /\ DOMAIN ws = 1..Len(ws)
         /\ \A i \in DOMAIN ws : i \in DOMAIN ws' /\ ws'[i] = ws[i]
         /\ ws'[Len(ws) + 1] = b
  <1> DEFINE d == Head(todo)
             h == Opened(d, Len(ws) + 1)
             b == Branch(d, h)
  <1>1. /\ todo \in Seq(Destination) /\ todo # << >>
        /\ ws \in Seq(BranchType) /\ ws' = Append(ws, b)
    BY DEF TypeOK, OpenNext
  <1>2. Len(ws) \in Nat /\ DOMAIN ws = 1..Len(ws)
    BY <1>1, LenProperties
  <1>3. d \in Destination
    BY <1>1, HeadTailProperties
  <1>4. h \in Nat
    BY <1>2 DEF Opened, FileOf, Std, NoHandle
  <1> HIDE DEF d, h
  <1>5. b \in BranchType /\ b.fmt \in Formats /\ b.at = d.at /\ b.h = h
        /\ b.lastls = 0 /\ b.rows = << >> /\ ~b.headed /\ ~b.left /\ b.out = << >>
        /\ b.dropped = {}
    <2> DEFINE fmt == Format(d.ext)  squeezed == Squeezed(d)
    <2>1. fmt \in Formats /\ squeezed \in BOOLEAN
      BY ConstantsIn
    <2>2. << >> \in Seq(LineType) /\ d.at \in STRING
      BY <1>3, EmptySeq DEF Destination
    <2>3. b = [fmt |-> fmt, at |-> d.at, h |-> h, squeezed |-> squeezed,
               lastls |-> 0, rows |-> << >>, headed |-> FALSE, left |-> FALSE,
               out |-> << >>, dropped |-> {}, cut |-> FALSE]
      BY DEF Branch
    <2> HIDE DEF fmt, squeezed, b
    <2> QED BY <1>4, <2>1, <2>2, <2>3 DEF BranchType
  <1> HIDE DEF b
  <1>6. /\ ws' \in Seq(BranchType) /\ Len(ws') = Len(ws) + 1
        /\ \A i \in 1..Len(ws) : ws'[i] = ws[i]
        /\ ws'[Len(ws) + 1] = b
    BY <1>1, <1>5, AppendProperties
  <1>7. DOMAIN ws' = 1..Len(ws) + 1
    BY <1>6, LenProperties
  <1> QED BY <1>1, <1>2, <1>3, <1>5, <1>6, <1>7 DEF d, h, b

LEMMA TypeInit == Init => TypeOK
  <1> SUFFICES ASSUME Init PROVE TypeOK
    OBVIOUS
  <1>1. todo \in Seq(Destination)
    BY ListsAssumption DEF Init, Destination
  <1>2. ws \in Seq(BranchType) /\ given \in Seq(Batches)
    BY EmptySeq DEF Init
  <1> QED BY <1>1, <1>2 DEF Init, TypeOK, ReaderType, Ending

LEMMA TypeNext == TypeOK /\ [Next]_vars => TypeOK'
  <1> SUFFICES ASSUME TypeOK, [Next]_vars PROVE TypeOK'
    OBVIOUS
  <1> USE DEF Ending
  <1>1. CASE OpenNext
    <2>1. ws' \in Seq(BranchType)
      BY <1>1, OpenBranch
    <2>2. todo' \in Seq(Destination)
      BY <1>1, HeadTailProperties DEF TypeOK, OpenNext
    <2> QED BY <1>1, <2>1, <2>2 DEF TypeOK, OpenNext
  <1>2. CASE OpenDone
    BY <1>2 DEF TypeOK, OpenDone
  <1>3. CASE OpenFail
    <2>1. ws' \in Seq(BranchType)
      BY <1>3, CloseBranches DEF OpenFail
    <2> QED BY <1>3, <2>1 DEF TypeOK, OpenFail
  <1>4. CASE Close
    <2>1. ws' \in Seq(BranchType)
      BY <1>4, CloseBranches DEF Close
    <2> QED BY <1>4, <2>1 DEF TypeOK, Close
  <1>5. ASSUME NEW p \in Batches, NEW how \in [DOMAIN ws -> Faults], Write(p, how) PROVE TypeOK'
    <2>1. ws' \in Seq(BranchType)
      BY <1>5, WriteBranches
    <2>2. given' \in Seq(Batches) /\ Len(given') = Len(given) + 1 /\ Len(given) \in Nat
      BY <1>5, AppendProperties, LenProperties DEF TypeOK, Write
    <2>3. acked' \subseteq acked \cup {Len(given) + 1}
      BY <1>5 DEF Write
    <2>4. acked' \subseteq 1..Len(given')
      BY <2>2, <2>3 DEF TypeOK
    <2> QED BY <1>5, <2>1, <2>2, <2>4 DEF TypeOK, Write
  <1>6. ASSUME NEW s \in Sources, OpenReader(s) PROVE TypeOK'
    <2>1. rd' \in ReaderType
      BY <1>6 DEF OpenReader, ReaderType
    <2> QED BY <1>6, <2>1 DEF TypeOK, OpenReader
  <1>7. CASE CloseReader
    <2>1. rd' \in ReaderType
      BY <1>7 DEF CloseReader, ReaderType, TypeOK
    <2> QED BY <1>7, <2>1 DEF TypeOK, CloseReader
  <1>8. CASE Finished \/ UNCHANGED vars
    BY <1>8 DEF Finished, vars, TypeOK
  <1> QED BY <1>1, <1>2, <1>3, <1>4, <1>5, <1>6, <1>7, <1>8 DEF Next

(* Every variable has its type: branches are what openwc (flag.go:92)      *)
(* makes of destinations, and what is acknowledged was given to them.      *)
THEOREM Typed == Spec => []TypeOK
  BY TypeInit, TypeNext, PTL DEF Spec

-----------------------------------------------------------------------------
(* The handles.  A branch holds the handle its place gives it, a rotating  *)
(* file the one it opens at its first line; what is open is held by a      *)
(* branch or the reader.                                                   *)

Placed(i, b) ==
  /\ b.at = "file" => b.h = FileOf(i)
  /\ b.at = "std" => b.h = Std
  /\ b.at = "pattern" => b.h \in {NoHandle, FileOf(i)}
  /\ b.at \notin {"file", "std", "pattern"} => b.h = NoHandle

Held(bs, h) == {Std} \cup (({bs[i].h : i \in DOMAIN bs} \cup {h}) \ {NoHandle})

HandleInv ==
  /\ \A i \in DOMAIN ws : Placed(i, ws[i])
  /\ rd.st = "none" => rd.h = NoHandle
  /\ rd.st \in {"open", "closed"} => rd.h \in {Std, ReaderFile}
  /\ DOMAIN closes = Held(ws, rd.h)
  /\ closes[Std] = 0
  /\ \A i \in DOMAIN ws : ws[i].h = FileOf(i) =>
       closes[FileOf(i)] = IF pc \in Ending /\ ~ws[i].squeezed THEN 1 ELSE 0
  /\ rd.h = ReaderFile => closes[ReaderFile] = IF rd.st = "closed" THEN 1 ELSE 0

LEMMA HandlesApart ==
  /\ Std # NoHandle /\ ReaderFile # NoHandle /\ Std # ReaderFile
  /\ \A i \in Nat \ {0} : FileOf(i) \notin {Std, NoHandle, ReaderFile} /\ FileOf(i) \in Nat
  /\ \A i, j \in Nat : FileOf(i) = FileOf(j) => i = j
  BY DEF Std, NoHandle, ReaderFile, FileOf

LEMMA HandlesImplied == TypeOK /\ HandleInv => HandlesBalanced
  <1> SUFFICES ASSUME TypeOK, HandleInv PROVE HandlesBalanced
    OBVIOUS
  <1>1. /\ DOMAIN ws = 1..Len(ws) /\ Len(ws) \in Nat
        /\ \A i \in DOMAIN ws : i \in Nat \ {0}
        /\ rd.h \in {NoHandle, Std, ReaderFile}
    BY LenProperties DEF TypeOK, ReaderType
  <1>2. ASSUME NEW i \in DOMAIN ws, ws[i].h \notin {NoHandle, Std}
        PROVE  ws[i].h = FileOf(i)
    BY <1>2, HandlesApart DEF HandleInv, Placed
  <1>3. \A i \in DOMAIN ws : ws[i].h \notin {NoHandle, Std} =>
          closes[ws[i].h] = IF pc \in {"failed", "closed"} /\ ~ws[i].squeezed THEN 1 ELSE 0
    BY <1>2 DEF HandleInv, Ending
  <1>4. \A h \in DOMAIN closes : h = Std \/ (h = rd.h /\ h # NoHandle)
                                 \/ \E i \in DOMAIN ws : ws[i].h = h /\ h # NoHandle
    BY DEF HandleInv, Held
  <1>5. ASSUME NEW h \in DOMAIN closes PROVE closes[h] <= 1
    <2>1. CASE h = Std
      BY <2>1 DEF HandleInv
    <2>2. CASE h = rd.h /\ h = ReaderFile
      BY <2>2 DEF HandleInv
    <2>3. CASE h # Std /\ \E i \in DOMAIN ws : ws[i].h = h /\ h # NoHandle
      BY <1>3, <2>3
    <2> QED BY <1>1, <1>4, <2>1, <2>2, <2>3
  <1>6. rd.st = "closed" => rd.h = Std \/ closes[rd.h] = 1
    BY DEF HandleInv
  <1>7. closes[Std] = 0
    BY DEF HandleInv
  <1>8. \A h \in DOMAIN closes \ {Std} : h = rd.h \/ \E i \in DOMAIN ws : ws[i].h = h
    BY <1>4
  <1> QED BY <1>3, <1>5, <1>6, <1>7, <1>8 DEF HandlesBalanced

LEMMA GrownKeeps ==
  ASSUME TypeOK, HandleInv, pc \notin Ending, ws' \in Seq(BranchType),
         DOMAIN ws \subseteq DOMAIN ws',
         \A i \in DOMAIN ws' : Placed(i, ws'[i]),
         \A i \in DOMAIN ws : ws[i].h # NoHandle => ws'[i].h = ws[i].h
  PROVE  /\ DOMAIN Grown(ws') = Held(ws', rd.h)
         /\ Grown(ws')[Std] = 0
         /\ \A i \in DOMAIN ws' : ws'[i].h = FileOf(i) => Grown(ws')[FileOf(i)] = 0
         /\ rd.h = ReaderFile => Grown(ws')[ReaderFile] = closes[ReaderFile]
  <1> DEFINE g == Grown(ws')
             hs == {ws'[i].h : i \in DOMAIN ws'}
  <1>1. /\ \A i \in DOMAIN ws : i \in Nat \ {0}
        /\ \A i \in DOMAIN ws' : i \in Nat \ {0}
        /\ rd.h \in {NoHandle, Std, ReaderFile}
    BY LenProperties DEF TypeOK, ReaderType
  <1>2. {b.h : b \in ToSet(ws')} = hs
    BY DEF ToSet
  <1>3. /\ DOMAIN g = DOMAIN closes \cup (hs \ {NoHandle})
        /\ \A h \in DOMAIN g : g[h] = IF h \in DOMAIN closes THEN closes[h] ELSE 0
    BY <1>2 DEF Grown
  <1> HIDE DEF g
  <1>4. DOMAIN closes = Held(ws, rd.h)
    BY DEF HandleInv
  <1>5. DOMAIN g = Held(ws', rd.h)
    <2>1. \A i \in DOMAIN ws : ws[i].h # NoHandle => ws[i].h \in hs
      OBVIOUS
    <2>2. Held(ws', rd.h) = {Std} \cup ((hs \cup {rd.h}) \ {NoHandle})
      BY DEF Held
    <2> HIDE DEF hs
    <2>3. DOMAIN closes = {Std} \cup (({ws[i].h : i \in DOMAIN ws} \cup {rd.h}) \ {NoHandle})
      BY <1>4 DEF Held
    <2> QED BY <1>3, <2>1, <2>2, <2>3
  <1>6. g[Std] = 0
    BY <1>3, <1>4 DEF Held, HandleInv
  <1>7. ASSUME NEW i \in DOMAIN ws', ws'[i].h = FileOf(i) PROVE g[FileOf(i)] = 0
    <2>1. FileOf(i) \in DOMAIN g
      BY <1>1, <1>3, <1>7, HandlesApart
    <2>2. CASE FileOf(i) \notin DOMAIN closes
      BY <1>3, <2>1, <2>2
    <2>3. CASE FileOf(i) \in DOMAIN closes
      <3>1. FileOf(i) \notin {Std, rd.h, NoHandle}
        BY <1>1, HandlesApart
      <3>2. PICK j \in DOMAIN ws : ws[j].h = FileOf(i)
        BY <1>4, <2>3, <3>1 DEF Held
      <3>3. ws[j].h = FileOf(j)
        BY <3>1, <3>2 DEF HandleInv, Placed
      <3>4. closes[FileOf(j)] = 0
        BY <3>3 DEF HandleInv
      <3> QED BY <1>3, <2>1, <2>3, <3>2, <3>3, <3>4
    <2> QED BY <2>2, <2>3
  <1>8. rd.h = ReaderFile => g[ReaderFile] = closes[ReaderFile]
    <2>1. rd.h = ReaderFile => ReaderFile \in DOMAIN closes
      BY <1>4, HandlesApart DEF Held
    <2> QED BY <1>3, <2>1
  <1> QED BY <1>5, <1>6, <1>7, <1>8 DEF g

(* Opening and writing open handles and close none.                        *)
LEMMA OpensKeep ==
  ASSUME TypeOK, HandleInv, pc \notin Ending, pc' \notin Ending, ws' \in Seq(BranchType),
         DOMAIN ws \subseteq DOMAIN ws',
         \A i \in DOMAIN ws' : Placed(i, ws'[i]),
         \A i \in DOMAIN ws : ws[i].h # NoHandle => ws'[i].h = ws[i].h,
         closes' = Grown(ws'), rd' = rd
  PROVE  HandleInv'
  <1>1. /\ DOMAIN closes' = Held(ws', rd.h)
        /\ closes'[Std] = 0
        /\ \A i \in DOMAIN ws' : ws'[i].h = FileOf(i) => closes'[FileOf(i)] = 0
        /\ rd.h = ReaderFile => closes'[ReaderFile] = closes[ReaderFile]
    BY GrownKeeps
  <1>2. rd.h = ReaderFile => closes'[ReaderFile] = IF rd.st = "closed" THEN 1 ELSE 0
    BY <1>1 DEF HandleInv
  <1>3. /\ rd.st = "none" => rd.h = NoHandle
        /\ rd.st \in {"open", "closed"} => rd.h \in {Std, ReaderFile}
    BY DEF HandleInv
  <1> QED BY <1>1, <1>2, <1>3 DEF HandleInv, Held

(* Closing all branches closes each handle its branch owns once.           *)
LEMMA ClosesKeep ==
  ASSUME TypeOK, HandleInv, pc \notin Ending, pc' \in Ending, CloseAll, rd' = rd
  PROVE  HandleInv'
  <1> DEFINE g == Grown(ws')
             Closing(h) == {i \in DOMAIN ws : h \in Owned(ws'[i])}
  <1>1. /\ ws' \in Seq(BranchType) /\ DOMAIN ws' = DOMAIN ws
        /\ \A i \in DOMAIN ws : i \in Nat \ {0}
    <2>1. ws' \in Seq(BranchType) /\ DOMAIN ws' = DOMAIN ws
      BY CloseBranches
    <2>2. \A i \in DOMAIN ws : i \in Nat \ {0}
      BY LenProperties DEF TypeOK
    <2> QED BY <2>1, <2>2
  <1>2. ASSUME NEW i \in DOMAIN ws
        PROVE  /\ ws'[i].at = ws[i].at /\ ws'[i].squeezed = ws[i].squeezed
               /\ ws'[i].h = ws[i].h
                  \/ (ws[i].at = "pattern" /\ ws[i].h = NoHandle /\ ws'[i].h = FileOf(i))
    <2>1. ws[i] \in BranchType
      BY BranchIn DEF TypeOK
    <2>2. CASE ws[i].fmt = "html"
      <3> DEFINE b == [ws[i] EXCEPT !.rows = << >>]
      <3>1. b.at = ws[i].at /\ b.squeezed = ws[i].squeezed /\ b.h = ws[i].h
        BY <2>1 DEF BranchType
      <3> HIDE DEF b
      <3>2. Wrote(ws'[i], b, i, 0, << Mark("footer", 0) >>, "none")
        BY <2>2, CloseBranches DEF b
      <3> QED BY <3>1, <3>2 DEF Wrote
    <2>3. CASE ws[i].fmt # "html"
      BY <2>3, CloseBranches
    <2> QED BY <2>2, <2>3
  <1>3. \A i \in DOMAIN ws' : Placed(i, ws'[i])
    BY <1>1, <1>2 DEF HandleInv, Placed
  <1>4. /\ DOMAIN g = Held(ws', rd.h)
        /\ g[Std] = 0
        /\ \A i \in DOMAIN ws' : ws'[i].h = FileOf(i) => g[FileOf(i)] = 0
        /\ rd.h = ReaderFile => g[ReaderFile] = closes[ReaderFile]
    BY <1>1, <1>2, <1>3, GrownKeeps
  <1>5. closes' = [h \in DOMAIN g |-> g[h] + Cardinality(Closing(h))]
    BY DEF CloseAll
  <1> HIDE DEF g
  <1>6. ASSUME NEW i \in DOMAIN ws, NEW h \in Owned(ws'[i]) PROVE h = FileOf(i) /\ h = ws'[i].h
    <2>1. h = ws'[i].h /\ h # NoHandle /\ ws'[i].at \in {"file", "pattern"}
      BY DEF Owned
    <2> QED BY <1>1, <1>3, <2>1 DEF Placed
  <1>7. Closing(Std) = {} /\ Closing(ReaderFile) = {}
    BY <1>1, <1>6, HandlesApart
  <1>8. ASSUME NEW i \in DOMAIN ws', ws'[i].h = FileOf(i)
        PROVE  Closing(FileOf(i)) = IF ws'[i].squeezed THEN {} ELSE {i}
    <2>1. \A j \in Closing(FileOf(i)) : j = i
      BY <1>1, <1>6, HandlesApart
    <2>2. FileOf(i) # NoHandle /\ FileOf(i) # Std
      BY <1>1, HandlesApart
    <2>3. ws'[i].at \in {"file", "pattern"}
      BY <1>3, <1>8, <2>2 DEF Placed
    <2>4. FileOf(i) \in Owned(ws'[i]) <=> ~ws'[i].squeezed
      BY <1>8, <2>2, <2>3 DEF Owned
    <2>5. i \in Closing(FileOf(i)) <=> ~ws'[i].squeezed
      BY <1>1, <2>4
    <2> HIDE DEF Closing
    <2> QED BY <2>1, <2>5
  <1> HIDE DEF Closing
  <1>9. /\ DOMAIN closes' = Held(ws', rd.h)
        /\ \A h \in DOMAIN g : closes'[h] = g[h] + Cardinality(Closing(h))
    BY <1>4, <1>5
  <1>10. Cardinality({}) = 0 /\ \A i \in DOMAIN ws' : Cardinality({i}) = 1
    BY FS_EmptySet, FS_Singleton
  <1>11. closes'[Std] = 0
    <2>1. Std \in DOMAIN g
      BY <1>4 DEF Held
    <2> QED BY <1>4, <1>7, <1>9, <1>10, <2>1
  <1>12. ASSUME NEW i \in DOMAIN ws', ws'[i].h = FileOf(i)
         PROVE  closes'[FileOf(i)] = IF pc' \in Ending /\ ~ws'[i].squeezed THEN 1 ELSE 0
    <2>1. FileOf(i) \in DOMAIN g
      BY <1>1, <1>4, <1>12, HandlesApart DEF Held
    <2>2. closes'[FileOf(i)] = Cardinality(Closing(FileOf(i)))
      <3>1. Cardinality(Closing(FileOf(i))) \in {0, 1}
        BY <1>8, <1>10, <1>12
      <3> QED BY <1>4, <1>9, <1>12, <2>1, <3>1
    <2> QED BY <1>8, <1>10, <1>12, <2>2
  <1>13. rd.h = ReaderFile => closes'[ReaderFile] = IF rd.st = "closed" THEN 1 ELSE 0
    <2>1. ASSUME rd.h = ReaderFile
          PROVE  closes'[ReaderFile] = IF rd.st = "closed" THEN 1 ELSE 0
      <3>1. ReaderFile \in DOMAIN g
        BY <1>4, <2>1, HandlesApart DEF Held
      <3>2. g[ReaderFile] = IF rd.st = "closed" THEN 1 ELSE 0
        BY <1>4, <2>1 DEF HandleInv
      <3> QED BY <1>7, <1>9, <1>10, <3>1, <3>2
    <2> QED BY <2>1
  <1>14. /\ rd.st = "none" => rd.h = NoHandle
         /\ rd.st \in {"open", "closed"} => rd.h \in {Std, ReaderFile}
    BY DEF HandleInv
  <1> QED BY <1>3, <1>9, <1>11, <1>12, <1>13, <1>14 DEF HandleInv, Held

LEMMA HandlesInit == Init => HandleInv
  BY DEF Init, HandleInv, Held, NoHandle, ReaderFile, Std, Ending

LEMMA HandlesNext == TypeOK /\ HandleInv /\ [Next]_vars => HandleInv'
  <1> SUFFICES ASSUME TypeOK, HandleInv, [Next]_vars PROVE HandleInv'
    OBVIOUS
  <1>1. CASE OpenNext
    <2> DEFINE d == Head(todo)
               b == Branch(d, Opened(d, Len(ws) + 1))
    <2>1. /\ b.at = d.at /\ b.h = Opened(d, Len(ws) + 1)
          /\ ws' \in Seq(BranchType) /\ DOMAIN ws' = 1..Len(ws) + 1
          /\ Len(ws) \in Nat /\ DOMAIN ws = 1..Len(ws)
          /\ \A i \in DOMAIN ws : i \in DOMAIN ws' /\ ws'[i] = ws[i]
          /\ ws'[Len(ws) + 1] = b
      BY <1>1, OpenBranch
    <2> HIDE DEF b
    <2>2. Placed(Len(ws) + 1, b)
      BY <2>1 DEF Placed, Opened
    <2> HIDE DEF d
    <2>3. ASSUME NEW i \in DOMAIN ws' PROVE Placed(i, ws'[i])
      <3>1. i \in DOMAIN ws \/ i = Len(ws) + 1
        BY <2>1
      <3> QED BY <2>1, <2>2, <3>1 DEF HandleInv
    <2>4. pc \notin Ending /\ pc' \notin Ending /\ closes' = Grown(ws') /\ rd' = rd
      BY <1>1 DEF OpenNext, Ending
    <2> QED BY <2>1, <2>3, <2>4, OpensKeep
  <1>2. CASE OpenDone
    BY <1>2 DEF HandleInv, OpenDone, Ending
  <1>3. CASE OpenFail
    <2>1. pc \notin Ending /\ pc' \in Ending /\ CloseAll /\ rd' = rd
      BY <1>3 DEF OpenFail, Ending
    <2> QED BY <2>1, ClosesKeep
  <1>4. CASE Close
    <2>1. pc \notin Ending /\ pc' \in Ending /\ CloseAll /\ rd' = rd
      BY <1>4 DEF Close, Ending
    <2> QED BY <2>1, ClosesKeep
  <1>5. ASSUME NEW p \in Batches, NEW how \in [DOMAIN ws -> Faults], Write(p, how) PROVE HandleInv'
    <2>1. /\ ws' \in Seq(BranchType) /\ DOMAIN ws' = DOMAIN ws
          /\ \A i \in DOMAIN ws :
               ws'[i] = IF i <= Tried(p) THEN After(ws[i], i, Len(given) + 1, p, how[i])
                        ELSE ws[i]
      BY <1>5, WriteBranches
    <2>2. ASSUME NEW i \in DOMAIN ws
          PROVE  /\ ws'[i].at = ws[i].at
                 /\ ws'[i].h = ws[i].h
                    \/ (ws[i].at = "pattern" /\ ws[i].h = NoHandle /\ ws'[i].h = FileOf(i))
      <3> DEFINE fault == how[i]  w == Len(given) + 1  c == After(ws[i], i, w, p, fault)
      <3>1. ws[i] \in BranchType /\ i \in Nat /\ w \in Nat /\ fault \in Faults
        BY BranchIn, LenProperties DEF TypeOK
      <3>2. ws'[i] = c \/ ws'[i] = ws[i]
        BY <2>1
      <3> HIDE DEF fault, w
      <3>3. Became(c, ws[i], i, w, p, fault)
        BY <3>1, AfterIs
      <3>4. c.at = ws[i].at
            /\ (c.h = ws[i].h
                \/ (ws[i].at = "pattern" /\ ws[i].h = NoHandle /\ c.h = FileOf(i)))
        BY <3>3 DEF Became
      <3> HIDE DEF c
      <3> QED BY <3>2, <3>4
    <2>3. \A i \in DOMAIN ws' : Placed(i, ws'[i])
      BY <2>1, <2>2 DEF HandleInv, Placed
    <2>4. pc \notin Ending /\ pc' \notin Ending /\ closes' = Grown(ws') /\ rd' = rd
      BY <1>5 DEF Write, Ending
    <2> QED BY <2>1, <2>2, <2>3, <2>4, OpensKeep
  <1>6. ASSUME NEW s \in Sources, OpenReader(s) PROVE HandleInv'
    <2>1. rd.st = "none" /\ rd.h = NoHandle /\ ws' = ws /\ pc' = pc
      BY <1>6 DEF OpenReader, HandleInv
    <2>2. DOMAIN closes = Held(ws, NoHandle)
      BY <2>1 DEF HandleInv
    <2>3. \A i \in DOMAIN ws : i \in Nat \ {0}
      BY LenProperties DEF TypeOK
    <2>4. CASE closes' = closes /\ rd' = [st |-> "failed", h |-> NoHandle]
      BY <2>1, <2>4, HandlesApart DEF HandleInv
    <2>5. CASE closes' = closes /\ rd' = [st |-> "open", h |-> Std]
      <3>1. Held(ws, Std) = Held(ws, NoHandle)
        BY HandlesApart DEF Held
      <3> QED BY <2>1, <2>2, <2>5, <3>1, HandlesApart DEF HandleInv, Held
    <2>6. CASE /\ closes' = [h \in DOMAIN closes \cup {ReaderFile} |->
                             IF h = ReaderFile THEN 0 ELSE closes[h]]
               /\ rd'.h = ReaderFile /\ rd'.st \in {"open", "failed"}
      <3>1. DOMAIN closes' = Held(ws, ReaderFile)
        BY <2>2, <2>6, HandlesApart DEF Held
      <3>2. closes'[Std] = 0 /\ closes'[ReaderFile] = 0
        BY <2>2, <2>6, HandlesApart DEF HandleInv, Held
      <3>3. ASSUME NEW i \in DOMAIN ws, ws[i].h = FileOf(i)
            PROVE  closes'[FileOf(i)] = closes[FileOf(i)]
        <4>1. FileOf(i) \in DOMAIN closes /\ FileOf(i) # ReaderFile
          BY <2>2, <2>3, <3>3, HandlesApart DEF Held
        <4> QED BY <2>6, <4>1
      <3>4. DOMAIN closes' = Held(ws', rd'.h)
        BY <2>1, <2>6, <3>1
      <3>5. \A i \in DOMAIN ws' : ws'[i].h = FileOf(i) =>
              closes'[FileOf(i)] = IF pc' \in Ending /\ ~ws'[i].squeezed THEN 1 ELSE 0
        BY <2>1, <3>3 DEF HandleInv
      <3>6. /\ \A i \in DOMAIN ws' : Placed(i, ws'[i])
            /\ rd'.st # "none" /\ rd'.st # "closed" /\ rd'.h = ReaderFile
        BY <2>1, <2>6 DEF HandleInv
      <3> QED BY <3>2, <3>4, <3>5, <3>6 DEF HandleInv
    <2>7. \/ closes' = closes /\ rd' = [st |-> "failed", h |-> NoHandle]
          \/ closes' = closes /\ rd' = [st |-> "open", h |-> Std]
          \/ /\ closes' = [h \in DOMAIN closes \cup {ReaderFile} |->
                             IF h = ReaderFile THEN 0 ELSE closes[h]]
             /\ rd'.h = ReaderFile /\ rd'.st \in {"open", "failed"}
      BY <1>6 DEF OpenReader
    <2> QED BY <2>4, <2>5, <2>6, <2>7
  <1>7. CASE CloseReader
    <2>1. /\ rd.st = "open" /\ rd'.st = "closed" /\ rd'.h = rd.h /\ ws' = ws /\ pc' = pc
          /\ rd.h \in {Std, ReaderFile}
          /\ closes' = IF rd.h = Std THEN closes ELSE [closes EXCEPT ![rd.h] = @ + 1]
      BY <1>7 DEF CloseReader, TypeOK, ReaderType, HandleInv
    <2>2. DOMAIN closes' = Held(ws, rd.h)
      BY <2>1 DEF HandleInv
    <2>3. \A i \in DOMAIN ws : FileOf(i) # ReaderFile
      BY LenProperties, HandlesApart DEF TypeOK
    <2>4. \A i \in DOMAIN ws : ws[i].h = FileOf(i) => FileOf(i) \in DOMAIN closes
      BY LenProperties, HandlesApart DEF TypeOK, HandleInv, Held
    <2>5. CASE rd.h = Std
      BY <2>1, <2>2, <2>5, HandlesApart DEF HandleInv
    <2>6. CASE rd.h = ReaderFile
      <3>1. ReaderFile \in DOMAIN closes /\ Std \in DOMAIN closes
        BY <2>6, HandlesApart DEF HandleInv, Held
      <3>2. closes'[ReaderFile] = 1 /\ closes'[Std] = 0
            /\ \A i \in DOMAIN ws : ws[i].h = FileOf(i) => closes'[FileOf(i)] = closes[FileOf(i)]
        BY <2>1, <2>3, <2>4, <2>6, <3>1, HandlesApart DEF HandleInv
      <3> QED BY <2>1, <2>2, <2>6, <3>2 DEF HandleInv
    <2> QED BY <2>1, <2>5, <2>6
  <1>8. CASE Finished \/ UNCHANGED vars
    BY <1>8 DEF Finished, vars, HandleInv
  <1> QED BY <1>1, <1>2, <1>3, <1>4, <1>5, <1>6, <1>7, <1>8 DEF Next

(* Whatever is opened is closed once, and not before the end: files of the *)
(* branches by Close or by an OpenWriter that fails (flag.go:63), the      *)
(* standard streams never (writeCloser, flag.go:661).                      *)
THEOREM HandlesSafe == Spec => []HandlesBalanced
  <1>1. Init => TypeOK /\ HandleInv
    BY TypeInit, HandlesInit
  <1>2. TypeOK /\ HandleInv /\ [Next]_vars => (TypeOK /\ HandleInv)'
    BY TypeNext, HandlesNext
  <1>3. TypeOK /\ HandleInv => HandlesBalanced
    BY HandlesImplied
  <1> QED BY <1>1, <1>2, <1>3, PTL DEF Spec

-----------------------------------------------------------------------------
(* What a branch shows.  Page is what it has written and what waits in bb; *)
(* a branch is sound after the batches gv when its page is in order, the   *)
(* labels of a console can be read off it and Web's page is well begun.    *)

Page(b) == b.out \o b.rows
CutBefore(gv, w) == \E v \in 1..w - 1 : Outcome("html", gv[v]) # "ok"

WellBegun(s, gv) ==
  \A n \in DOMAIN s :
    /\ s[n].kind = "header" => n = 1
    /\ s[n].kind # "footer"
    /\ s[n].mixed => s[n].kind = "event" /\ CutBefore(gv, s[n].w)

PageSound(b, gv) ==
  /\ WellBegun(Page(b), gv)
  /\ ~b.headed => b.out = << >>
  /\ b.headed /\ b.dropped = {} => Page(b) # << >> /\ Page(b)[1].kind = "header"
  /\ b.left => CutBefore(gv, Len(gv) + 1)

Sound(b, gv) ==
  /\ InOrder(Page(b), Len(gv))
  /\ b.fmt # "html" => b.rows = << >>
  /\ b.fmt = "console" /\ ~b.cut /\ b.dropped = {} => Reads(b.out, b.lastls)
  /\ b.fmt = "html" => PageSound(b, gv)

LEMMA PageIs ==
  ASSUME NEW b \in BranchType
  PROVE  /\ Page(b) \in Seq(LineType) /\ b.out \in Seq(LineType) /\ b.rows \in Seq(LineType)
         /\ Len(Page(b)) = Len(b.out) + Len(b.rows)
         /\ DOMAIN b.out \subseteq DOMAIN Page(b)
         /\ \A n \in DOMAIN b.out : Page(b)[n] = b.out[n]
         /\ b.rows = << >> => Page(b) = b.out
         /\ b.out # << >> => 1 \in DOMAIN b.out
  <1> DEFINE s == b.out  t == b.rows  c == s \o t
  <1>1. s \in Seq(LineType) /\ t \in Seq(LineType)
    BY DEF BranchType
  <1> HIDE DEF s, t
  <1>2. c \in Seq(LineType) /\ Len(c) = Len(s) + Len(t)
        /\ \A n \in 1..Len(s) + Len(t) : c[n] = IF n <= Len(s) THEN s[n] ELSE t[n - Len(s)]
    BY <1>1, ConcatProperties
  <1>3. t = << >> => c = s
    BY <1>1, ConcatEmptySeq
  <1> HIDE DEF c
  <1>4. DOMAIN s = 1..Len(s) /\ Len(s) \in Nat /\ Len(t) \in Nat /\ DOMAIN c = 1..Len(c)
    BY <1>1, <1>2, LenProperties
  <1>5. s # << >> => Len(s) # 0
    BY <1>1, EmptySeq
  <1>6. \A n \in DOMAIN s : n \in DOMAIN c /\ c[n] = s[n]
    BY <1>2, <1>4
  <1>7. s # << >> => 1 \in DOMAIN s
    BY <1>4, <1>5
  <1>8. Page(b) = c
    BY DEF Page, c, s, t
  <1> QED BY <1>1, <1>2, <1>3, <1>6, <1>7, <1>8 DEF s, t

LEMMA OutcomeKnown ==
  ASSUME NEW gv \in Seq(Batches), NEW p \in Batches
  PROVE  /\ Append(gv, p) \in Seq(Batches)
         /\ Len(Append(gv, p)) = Len(gv) + 1 /\ Len(gv) \in Nat
         /\ \A v \in 1..Len(gv) : Append(gv, p)[v] = gv[v]
         /\ Append(gv, p)[Len(gv) + 1] = p
         /\ \A w \in 0..Len(gv) + 1 : CutBefore(gv, w) => CutBefore(Append(gv, p), w)
  <1> DEFINE hv == Append(gv, p)
  <1>1. /\ hv \in Seq(Batches)
        /\ Len(hv) = Len(gv) + 1 /\ Len(gv) \in Nat
        /\ \A v \in 1..Len(gv) : hv[v] = gv[v]
        /\ hv[Len(gv) + 1] = p
    BY AppendProperties, LenProperties
  <1> HIDE DEF hv
  <1>2. ASSUME NEW w \in 0..Len(gv) + 1, CutBefore(gv, w) PROVE CutBefore(hv, w)
    <2>1. PICK v \in 1..w - 1 : Outcome("html", gv[v]) # "ok"
      BY <1>2 DEF CutBefore
    <2>2. v \in 1..Len(gv)
      BY <1>1
    <2> QED BY <1>1, <2>1, <2>2 DEF CutBefore
  <1> QED BY <1>1, <1>2 DEF hv

(* Every converter but Web writes the lines of the batch it was given.     *)
LEMMA TextFrom ==
  ASSUME NEW p \in Batches, NEW w \in Nat, NEW b \in BranchType, b.fmt # "html"
  PROVE  FromBatch(Text(b, w, p), w)
  <1>1. CASE Cut(b.fmt, p) # 0
    <2>1. FromBatch(<< >>, w)
      BY DEF FromBatch
    <2>2. FromBatch(<< Mark("dump", w) >>, w)
      <3> DEFINE l == Mark("dump", w)  s == << l >>
      <3>1. l.kind = "dump" /\ l.w = w
        BY MarkIs DEF Kinds
      <3> HIDE DEF l
      <3>2. DOMAIN s = {1} /\ s[1] = l
        OBVIOUS
      <3> HIDE DEF s
      <3>3. \A n \in DOMAIN s : s[n] = l /\ 1..n - 1 = {}
        BY <3>2
      <3>4. FromBatch(s, w)
        BY <3>1, <3>3 DEF FromBatch
      <3> QED BY <3>4 DEF s, l
    <2> QED BY <1>1, <2>1, <2>2 DEF Text
  <1>2. CASE Cut(b.fmt, p) = 0 /\ b.fmt = "console"
    <2> DEFINE t == ConsoleLines(b, w, p).out
    <2>1. /\ t \in Seq(LineType)
          /\ \A n \in DOMAIN t :
               /\ t[n].kind = "event" /\ t[n].w = w
               /\ \A m \in 1..n - 1 : t[m].i < t[n].i
      BY ConsoleBuilt DEF Built
    <2> HIDE DEF t
    <2>2. DOMAIN t = 1..Len(t) /\ Len(t) \in Nat
      BY <2>1, LenProperties
    <2>3. \A n \in DOMAIN t : \A m \in 1..n - 1 : m \in DOMAIN t
      BY <2>2
    <2>4. FromBatch(t, w)
      BY <2>1, <2>3 DEF FromBatch, Earlier
    <2> QED BY <1>2, <2>4 DEF Text, t
  <1>3. CASE Cut(b.fmt, p) = 0 /\ b.fmt # "console"
    <2>1. Text(b, w, p) = Plain(w, p, Len(p))
      BY <1>3 DEF Text
    <2> QED BY <2>1, PlainLines
  <1> QED BY <1>1, <1>2, <1>3

(* A branch without a page stays sound.                                    *)
LEMMA LinesStaySound ==
  ASSUME NEW gv \in Seq(Batches), NEW p \in Batches, NEW b \in BranchType, NEW i \in Nat,
         NEW fault \in Faults, b.fmt # "html", Sound(b, gv), NEW c,
         Became(c, b, i, Len(gv) + 1, p, fault)
  PROVE  Sound(c, Append(gv, p))
  <1> DEFINE w == Len(gv) + 1  text == Text(b, w, p)  fails == fault # "none"
             rest == Rest(b, w, p, fault)
  <1>1. Len(gv) \in Nat /\ w \in Nat /\ Len(Append(gv, p)) = w
    BY OutcomeKnown
  <1>2. /\ c \in BranchType /\ c.fmt = b.fmt
        /\ c.out = b.out \o (IF fails THEN rest ELSE text)
        /\ c.dropped = IF fails /\ text # << >> THEN b.dropped \cup {w} ELSE b.dropped
        /\ c.rows = Converted(b, w, p).rows /\ c.lastls = Converted(b, w, p).lastls
        /\ c.cut = Converted(b, w, p).cut
    BY DEF Became
  <1>3. /\ Converted(b, w, p).rows = b.rows
        /\ b.fmt = "console" => /\ c.lastls = ConsoleLines(b, w, p).last
                                /\ c.cut = (b.cut \/ Cut("console", p) # 0)
    BY <1>1, <1>2, ConvertedIs
  <1>4. text \in Seq(LineType) /\ FromBatch(text, w)
    BY <1>1, TextIs, TextFrom
  <1>5. b.out \in Seq(LineType) /\ Page(b) = b.out /\ c.rows = << >> /\ Page(c) = c.out
    BY <1>2, <1>3, PageIs DEF Sound
  <1>6. InOrder(b.out, Len(gv))
    BY <1>5 DEF Sound
  <1>9. rest \in Seq(LineType) /\ FromBatch(rest, w) /\ (text = << >> => rest = << >>)
    BY <1>1, RestIs
  <1> DEFINE o == b.out
  <1> HIDE DEF text, rest, o, fails
  <1>7. InOrder(c.out, w)
    <2>1. CASE fails
      <3>1. InOrder(o \o rest, Len(gv) + 1)
        BY <1>1, <1>5, <1>6, <1>9, InOrderJoins DEF o
      <3> QED BY <1>2, <2>1, <3>1 DEF o
    <2>2. CASE ~fails
      <3>1. InOrder(o \o text, Len(gv) + 1)
        BY <1>1, <1>4, <1>5, <1>6, InOrderJoins DEF o
      <3> QED BY <1>2, <2>2, <3>1 DEF o
    <2> QED BY <2>1, <2>2
  <1>8. ASSUME c.fmt = "console", ~c.cut, c.dropped = {}
        PROVE  Reads(c.out, c.lastls)
    <2>1. b.fmt = "console" /\ ~b.cut /\ Cut("console", p) = 0
      BY <1>2, <1>3, <1>8
    <2>2. b.dropped = {} /\ (fails => text = << >>)
      BY <1>2, <1>8
    <2>3. Reads(o, b.lastls)
      BY <2>1, <2>2 DEF Sound, o
    <2>4. text = ConsoleLines(b, w, p).out
      BY <2>1 DEF Text, text
    <2>5. Reads(o \o text, c.lastls)
      <3>1. \A s \in Seq(LineType) : Reads(s, b.lastls) =>
              Reads(s \o ConsoleLines(b, w, p).out, ConsoleLines(b, w, p).last)
        BY <1>1, ConsoleBuilt DEF Built
      <3> QED BY <1>3, <1>5, <2>1, <2>3, <2>4, <3>1 DEF o
    <2>6. c.out = o \o text
      BY <1>2, <1>9, <2>2 DEF o
    <2> QED BY <2>5, <2>6
  <1> QED BY <1>1, <1>2, <1>5, <1>7, <1>8 DEF Sound

(* Web puts the rows of a batch behind its page, or behind a header.       *)
Started(b, w) == IF b.headed THEN Page(b) ELSE << Mark("header", w) >>

LEMMA StartedIs ==
  ASSUME NEW gv \in Seq(Batches), NEW b \in BranchType, b.fmt = "html", Sound(b, gv),
         NEW w \in Nat, NEW p \in Batches
  PROVE  /\ Started(b, w) \in Seq(LineType)
         /\ InOrder(Started(b, w), Len(gv)) /\ WellBegun(Started(b, w), gv)
         /\ ~b.headed \/ b.dropped = {} =>
              1 \in DOMAIN Started(b, w) /\ Started(b, w)[1].kind = "header"
         /\ b.out \o WebRows(b, w, p) = Started(b, w) \o NewRows(b, w, p)
  <1> DEFINE new == NewRows(b, w, p)
  <1>1. PageSound(b, gv) /\ InOrder(Page(b), Len(gv))
    BY DEF Sound
  <1>2. new \in Seq(LineType)
    BY NewRowsLines DEF RowsFrom
  <1>3. WebRows(b, w, p) = (IF b.headed THEN b.rows ELSE << Mark("header", w) >>) \o new
    BY WebRowsIs
  <1> HIDE DEF new
  <1>4. CASE b.headed
    <2>1. Started(b, w) = Page(b) /\ WebRows(b, w, p) = b.rows \o new
      BY <1>3, <1>4 DEF Started
    <2> DEFINE s == b.out  t == b.rows
    <2>2. s \in Seq(LineType) /\ t \in Seq(LineType) /\ Page(b) \in Seq(LineType)
      BY PageIs
    <2> HIDE DEF s, t
    <2>3. (s \o t) \o new = s \o (t \o new)
      BY <1>2, <2>2, JoinsAssociate
    <2>4. b.out \o WebRows(b, w, p) = Started(b, w) \o new
      BY <2>1, <2>3 DEF s, t, Page
    <2>5. b.dropped = {} => Page(b) # << >> /\ Page(b)[1].kind = "header"
      BY <1>1, <1>4 DEF PageSound
    <2>6. Page(b) # << >> => 1 \in DOMAIN Page(b)
      <3> DEFINE q == Page(b)
      <3> HIDE DEF q
      <3>1. q \in Seq(LineType)
        BY <2>2 DEF q
      <3>2. q # << >> => 1 \in DOMAIN q
        BY <3>1, EmptySeq, LenProperties
      <3> QED BY <3>2 DEF q
    <2> QED BY <1>1, <1>4, <2>1, <2>2, <2>4, <2>5, <2>6 DEF PageSound, new
  <1>5. CASE ~b.headed
    <2> DEFINE l == Mark("header", w)  s == << l >>
    <2>1. s \in Seq(LineType) /\ l.kind = "header" /\ ~l.mixed
      BY MarkIs DEF Kinds
    <2>2. Started(b, w) = s /\ WebRows(b, w, p) = s \o new
      BY <1>3, <1>5 DEF Started
    <2> HIDE DEF l
    <2>3. Len(s) = 1 /\ DOMAIN s = {1} /\ s[1] = l
      OBVIOUS
    <2> HIDE DEF s
    <2>4. \A n \in DOMAIN s : n = 1 /\ s[n] = l /\ 1..n - 1 = {}
      BY <2>3
    <2>5. InOrder(s, Len(gv)) /\ WellBegun(s, gv)
      BY <2>1, <2>4 DEF InOrder, WellBegun
    <2>6. b.out = << >>
      BY <1>1, <1>5 DEF PageSound
    <2>7. s \o new \in Seq(LineType)
      BY <1>2, <2>1, ConcatProperties
    <2>8. << >> \o (s \o new) = s \o new
      <3> DEFINE q == s \o new
      <3> HIDE DEF q
      <3>1. << >> \o q = q
        BY <2>7, ConcatEmptySeq DEF q
      <3> QED BY <3>1 DEF q
    <2> QED BY <2>1, <2>2, <2>3, <2>5, <2>6, <2>8 DEF new
  <1> QED BY <1>4, <1>5

LEMMA WellBegunPrefix ==
  ASSUME NEW b \in BranchType, NEW gv, WellBegun(Page(b), gv)
  PROVE  WellBegun(b.out, gv)
  BY PageIs DEF WellBegun

LEMMA WellBegunLater ==
  ASSUME NEW gv \in Seq(Batches), NEW p \in Batches, NEW s \in Seq(LineType),
         InOrder(s, Len(gv)), WellBegun(s, gv)
  PROVE  WellBegun(s, Append(gv, p))
  <1>1. \A n \in DOMAIN s : s[n].kind = "event" => s[n].w \in 0..Len(gv) + 1
    BY LinesIn, OutcomeKnown DEF InOrder
  <1>2. \A w \in 0..Len(gv) + 1 : CutBefore(gv, w) => CutBefore(Append(gv, p), w)
    BY OutcomeKnown
  <1> QED BY <1>1, <1>2 DEF WellBegun

(* A page stays sound.                                                     *)
LEMMA PageStaysSound ==
  ASSUME NEW gv \in Seq(Batches), NEW p \in Batches, NEW b \in BranchType, NEW i \in Nat,
         NEW fault \in Faults, b.fmt = "html", Sound(b, gv), NEW c,
         Became(c, b, i, Len(gv) + 1, p, fault)
  PROVE  Sound(c, Append(gv, p))
  <1> DEFINE w == Len(gv) + 1
             text == Text(b, w, p)
             hv == Append(gv, p)
             new == NewRows(b, w, p)
             s == Started(b, w)
             ok == Outcome("html", p) = "ok"
             done == Done("html", p)
             fails == fault # "none"
  <1>1. Len(gv) \in Nat /\ w \in Nat /\ Len(hv) = w /\ hv[w] = p /\ hv \in Seq(Batches)
    BY OutcomeKnown
  <1>2. /\ c \in BranchType /\ c.fmt = "html"
        /\ c.out = b.out \o (IF fails THEN << >> ELSE text)
        /\ c.dropped = IF fails /\ text # << >> THEN b.dropped \cup {w} ELSE b.dropped
        /\ c.rows = Converted(b, w, p).rows /\ c.headed = Converted(b, w, p).headed
        /\ c.left = Converted(b, w, p).left
    BY DEF Became, Rest, Dumps
  <1> HIDE DEF w
  <1>3. /\ c.headed = (b.headed \/ done > 0)
        /\ c.left = WebLeft(b, p)
        /\ c.rows = IF ok THEN << >> ELSE WebRows(b, w, p)
    BY <1>1, <1>2, ConvertedIs
  <1>4. text = IF ok THEN WebRows(b, w, p) ELSE << >>
    BY OutcomeIs DEF Text
  <1>5. /\ done \in Nat /\ Len(p) \in Nat \ {0} /\ (ok => done = Len(p))
    BY BatchIs, CutPlace, OutcomeIs
  <1>6. /\ new \in Seq(LineType) /\ FromBatch(new, w) /\ DOMAIN new = 1..done
        /\ \A n \in DOMAIN new : /\ new[n].kind = "event" /\ new[n].w = w
                                 /\ new[n].mixed => b.left
    <2>1. RowsFrom(new, b, w, p)
      BY <1>1, NewRowsLines
    <2> HIDE DEF new
    <2> QED BY <2>1 DEF RowsFrom
  <1>7. /\ s \in Seq(LineType) /\ InOrder(s, Len(gv)) /\ WellBegun(s, gv)
        /\ ~b.headed \/ b.dropped = {} => 1 \in DOMAIN s /\ s[1].kind = "header"
        /\ b.out \o WebRows(b, w, p) = s \o new
    BY <1>1, StartedIs
  <1>8. PageSound(b, gv) /\ b.out \in Seq(LineType) /\ b.rows \in Seq(LineType)
        /\ InOrder(Page(b), Len(gv))
    BY PageIs DEF Sound
  <1>9. c.left => CutBefore(hv, Len(hv) + 1)
    <2>1. ASSUME c.left PROVE ~ok
      BY <1>3, <2>1, OutcomeIs DEF WebLeft
    <2>2. w \in 1..(Len(hv) + 1) - 1
      BY <1>1
    <2>3. c.left => Outcome("html", hv[w]) # "ok"
      BY <1>1, <2>1
    <2> QED BY <2>2, <2>3 DEF CutBefore
  <1>10. b.left => CutBefore(hv, w)
    <2>1. b.left => CutBefore(gv, w)
      BY <1>8 DEF PageSound, w
    <2>2. w \in 0..Len(gv) + 1
      BY <1>1 DEF w
    <2> QED BY <2>1, <2>2, OutcomeKnown
  <1> HIDE DEF text, new, s, ok, done, hv, fails
  <1>11. CASE ok /\ fails
    <2>1. c.out = b.out /\ c.rows = << >> /\ Page(c) = b.out
      <3> DEFINE o == b.out
      <3> HIDE DEF o
      <3>1. o \o << >> = o
        BY <1>8, ConcatEmptySeq DEF o
      <3>2. c.out = b.out
        BY <1>2, <1>11, <3>1 DEF o
      <3> QED BY <1>2, <1>3, <1>11, <3>2, PageIs
    <2>2. text # << >>
      <3>1. text = (IF b.headed THEN b.rows ELSE << Mark("header", w) >>) \o new
        BY <1>1, <1>4, <1>11, WebRowsIs DEF new
      <3> DEFINE first == IF b.headed THEN b.rows ELSE << Mark("header", w) >>
      <3>2. first \in Seq(LineType)
        <4>1. "header" \in Kinds \ {"event"}
          BY DEF Kinds
        <4>2. << Mark("header", w) >> \in Seq(LineType)
          BY <1>1, <4>1, MarkIs
        <4> QED BY <1>8, <4>2
      <3> HIDE DEF first
      <3>3. new # << >>
        BY <1>5, <1>6, <1>11
      <3>4. first \o new # << >>
        BY <1>6, <3>2, <3>3, ConcatEqualIffEmpty
      <3> QED BY <3>1, <3>4 DEF first
    <2>3. c.dropped # {}
      BY <1>2, <1>11, <2>2
    <2>4. c.headed
      <3>1. done > 0
        BY <1>5, <1>11
      <3> QED BY <1>3, <3>1, Zenon
    <2>5. InOrder(b.out, Len(gv))
      BY <1>8, InOrderPrefix DEF Page
    <2>6. WellBegun(b.out, hv)
      BY <1>8, <2>5, WellBegunPrefix, WellBegunLater DEF PageSound, hv
    <2>7. InOrder(b.out, w)
      BY <1>1, <1>8, <2>5, InOrderLater DEF w
    <2>8. PageSound(c, hv)
      BY <1>9, <2>1, <2>3, <2>4, <2>6 DEF PageSound
    <2> QED BY <1>1, <1>2, <2>1, <2>7, <2>8 DEF Sound, hv
  <1>12. CASE ~(ok /\ fails)
    <2> DEFINE q == s \o new
    <2>1. Page(c) = q /\ c.dropped = b.dropped /\ (~ok => c.out = b.out)
      <3>1. CASE ok
        <4>1. c.out = q /\ c.rows = << >>
          BY <1>2, <1>3, <1>4, <1>7, <1>12, <3>1
        <4>2. Page(c) = c.out
          BY <1>2, <4>1, PageIs
        <4> QED BY <1>2, <1>12, <3>1, <4>1, <4>2
      <3>2. CASE ~ok
        <4>1. text = << >> /\ c.rows = WebRows(b, w, p)
          BY <1>3, <1>4, <3>2
        <4>2. b.out \o << >> = b.out
          <5> DEFINE o == b.out
          <5> HIDE DEF o
          <5>1. o \o << >> = o
            BY <1>8, ConcatEmptySeq DEF o
          <5> QED BY <5>1 DEF o
        <4>3. c.out = b.out
          BY <1>2, <4>1, <4>2
        <4> QED BY <1>2, <1>7, <4>1, <4>3 DEF Page
      <3> QED BY <3>1, <3>2
    <2>2. /\ q \in Seq(LineType) /\ Len(q) = Len(s) + Len(new)
          /\ \A n \in 1..Len(s) + Len(new) : q[n] = IF n <= Len(s) THEN s[n] ELSE new[n - Len(s)]
      BY <1>6, <1>7, ConcatProperties
    <2>3. InOrder(q, w)
      BY <1>1, <1>6, <1>7, InOrderJoins DEF w
    <2> HIDE DEF q
    <2>4. /\ DOMAIN q = 1..Len(s) + Len(new) /\ DOMAIN s = 1..Len(s) /\ DOMAIN new = 1..Len(new)
          /\ Len(s) \in Nat /\ Len(new) \in Nat
      BY <1>6, <1>7, <2>2, LenProperties
    <2>5. WellBegun(s, hv)
      BY <1>7, WellBegunLater DEF hv
    <2>6. WellBegun(q, hv)
      <3>1. ASSUME NEW n \in DOMAIN q
            PROVE  /\ q[n].kind = "header" => n = 1
                   /\ q[n].kind # "footer"
                   /\ q[n].mixed => q[n].kind = "event" /\ CutBefore(hv, q[n].w)
        <4>1. CASE n <= Len(s)
          <5>1. n \in DOMAIN s /\ q[n] = s[n]
            BY <2>2, <2>4, <4>1
          <5> QED BY <2>5, <5>1 DEF WellBegun
        <4>2. CASE ~(n <= Len(s))
          <5>1. n - Len(s) \in DOMAIN new /\ q[n] = new[n - Len(s)]
            BY <2>2, <2>4, <4>2
          <5> QED BY <1>6, <1>10, <5>1
        <4> QED BY <4>1, <4>2
      <3> QED BY <3>1 DEF WellBegun
    <2>7. ~c.headed => c.out = << >>
      <3>1. ~c.headed => ~b.headed /\ ~(done > 0)
        BY <1>3, Zenon
      <3>2. ~(done > 0) => ~ok
        BY <1>5
      <3> QED BY <1>8, <2>1, <3>1, <3>2 DEF PageSound
    <2>8. c.headed /\ c.dropped = {} => q # << >> /\ q[1].kind = "header"
      <3>1. ASSUME c.dropped = {} PROVE q # << >> /\ q[1].kind = "header"
        <4>1. 1 \in DOMAIN s /\ s[1].kind = "header"
          BY <1>7, <2>1, <3>1
        <4>2. 1 \in DOMAIN q /\ q[1] = s[1]
          BY <2>2, <2>4, <4>1
        <4> QED BY <4>1, <4>2
      <3> QED BY <3>1
    <2>9. PageSound(c, hv)
      BY <1>9, <2>1, <2>6, <2>7, <2>8 DEF PageSound
    <2> QED BY <1>1, <1>2, <2>1, <2>3, <2>9 DEF Sound, hv
  <1> QED BY <1>11, <1>12

-----------------------------------------------------------------------------
(* What was acknowledged is shown.                                         *)

ShownBy(b, p, w, k) ==
  \/ \E l \in ToSet(b.out) : l.w = w /\ (l.kind = "dump" \/ l.i = k)
  \/ b.fmt = "console" /\ p[k].hide
  \/ Outcome(b.fmt, p) = "recovered" /\ (b.fmt = "dump" \/ w \in b.dropped)

(* What is written behind it takes nothing away.                           *)
LEMMA ShownStays ==
  ASSUME NEW b \in BranchType, NEW c, NEW text \in Seq(LineType),
         c.fmt = b.fmt, c.out = b.out \/ c.out = b.out \o text, b.dropped \subseteq c.dropped,
         NEW p, NEW w, NEW k, ShownBy(b, p, w, k)
  PROVE  ShownBy(c, p, w, k)
  <1> DEFINE o == b.out  q == o \o text
  <1>1. o \in Seq(LineType)
    BY DEF BranchType
  <1> HIDE DEF o
  <1>2. q \in Seq(LineType) /\ Len(q) = Len(o) + Len(text)
        /\ \A n \in 1..Len(o) + Len(text) : q[n] = IF n <= Len(o) THEN o[n] ELSE text[n - Len(o)]
    BY <1>1, ConcatProperties
  <1> HIDE DEF q
  <1>3. DOMAIN o = 1..Len(o) /\ Len(o) \in Nat /\ Len(text) \in Nat /\ DOMAIN q = 1..Len(q)
    BY <1>1, <1>2, LenProperties
  <1>4. \A n \in DOMAIN o : n \in DOMAIN q /\ q[n] = o[n]
    BY <1>2, <1>3
  <1>5. ToSet(o) \subseteq ToSet(q)
    BY <1>4 DEF ToSet
  <1>6. ToSet(b.out) \subseteq ToSet(c.out)
    BY <1>5 DEF q, o
  <1> QED BY <1>6 DEF ShownBy

(* Each event of a batch that is not cut off has its line, or is hidden.   *)
LEMMA TextShows ==
  ASSUME NEW p \in Batches, NEW w \in Nat, NEW b \in BranchType, Cut(b.fmt, p) = 0,
         NEW k \in DOMAIN p
  PROVE  \/ b.fmt = "console" /\ p[k].hide
         \/ \E n \in DOMAIN Text(b, w, p) : Text(b, w, p)[n].w = w /\ Text(b, w, p)[n].i = k
  <1>1. Len(p) \in Nat \ {0} /\ DOMAIN p = 1..Len(p) /\ Done(b.fmt, p) = Len(p)
    BY BatchIs, CutPlace
  <1>2. CASE b.fmt = "console"
    <2> DEFINE t == ConsoleLines(b, w, p).out
    <2>1. /\ \A n \in DOMAIN t : t[n].w = w
          /\ \A j \in 1..Len(p) : p[j].hide \/ \E n \in DOMAIN t : t[n].i = j
      <3>1. Done("console", p) = Len(p)
        BY <1>1, <1>2
      <3>2. Built(ConsoleLines(b, w, p), b.lastls, w, p, Len(p))
        BY <3>1, ConsoleBuilt
      <3> QED BY <3>2 DEF Built
    <2>2. Text(b, w, p) = t
      BY <1>2 DEF Text
    <2> HIDE DEF t
    <2> QED BY <1>1, <1>2, <2>1, <2>2
  <1>3. CASE b.fmt = "html"
    <2> DEFINE first == IF b.headed THEN b.rows ELSE << Mark("header", w) >>
               new == NewRows(b, w, p)
               t == first \o new
    <2>1. Text(b, w, p) = t
      BY <1>3, WebRowsIs DEF Text
    <2>2. first \in Seq(LineType)
      <3>1. b.rows \in Seq(LineType)
        BY DEF BranchType
      <3>2. << Mark("header", w) >> \in Seq(LineType)
        BY MarkIs DEF Kinds
      <3> QED BY <3>1, <3>2
    <2> HIDE DEF first
    <2>3. RowsFrom(new, b, w, p)
      BY NewRowsLines
    <2> HIDE DEF new
    <2>4. /\ new \in Seq(LineType) /\ DOMAIN new = 1..Len(p)
          /\ new[k].w = w /\ new[k].i = k
      BY <1>1, <1>3, <2>3 DEF RowsFrom
    <2>5. t \in Seq(LineType) /\ Len(t) = Len(first) + Len(new)
          /\ \A n \in 1..Len(first) + Len(new) :
               t[n] = IF n <= Len(first) THEN first[n] ELSE new[n - Len(first)]
      BY <2>2, <2>4, ConcatProperties
    <2> HIDE DEF t
    <2>6. /\ Len(first) \in Nat /\ DOMAIN new = 1..Len(new) /\ Len(new) \in Nat
          /\ DOMAIN t = 1..Len(t)
      BY <2>2, <2>4, <2>5, LenProperties
    <2> DEFINE n == Len(first) + k
    <2>7. n \in DOMAIN t /\ t[n] = new[n - Len(first)] /\ n - Len(first) = k
      BY <1>1, <2>4, <2>5, <2>6
    <2>8. t[n].w = w /\ t[n].i = k
      BY <2>4, <2>7
    <2> HIDE DEF n
    <2> QED BY <2>1, <2>7, <2>8
  <1>4. CASE b.fmt \notin {"console", "html"}
    <2> DEFINE t == Plain(w, p, Len(p))
    <2>1. Text(b, w, p) = t
      BY <1>4 DEF Text
    <2>2. DOMAIN t = DOMAIN p /\ \A n \in DOMAIN t : t[n].w = w /\ t[n].i = n
      BY PlainLines
    <2> HIDE DEF t
    <2> QED BY <2>1, <2>2
  <1> QED BY <1>2, <1>3, <1>4

LEMMA NewShown ==
  ASSUME NEW p \in Batches, NEW w \in Nat, NEW b \in BranchType, NEW i \in Nat,
         NEW fault \in Faults, NEW c, Became(c, b, i, w, p, fault),
         Said(b, w, p, fault) \notin {"error", "panic"}, NEW k \in DOMAIN p
  PROVE  ShownBy(c, p, w, k)
  <1> DEFINE text == Text(b, w, p)  o == b.out  q == o \o text  fails == fault # "none"
  <1>1. /\ c.fmt = b.fmt
        /\ ~fails => c.out = q
        /\ c.dropped = IF fails /\ text # << >> THEN b.dropped \cup {w} ELSE b.dropped
    BY DEF Became
  <1>2. text \in Seq(LineType) /\ o \in Seq(LineType)
    BY TextIs DEF BranchType
  <1>3. Outcome(b.fmt, p) \in {"ok", "recovered"}
        /\ (Outcome(b.fmt, p) = "ok" /\ fails => text = << >>)
    BY OutcomeIs DEF Said
  <1> HIDE DEF text, o
  <1>4. \A n \in DOMAIN text : text[n] \in ToSet(q)
    <2>1. q \in Seq(LineType) /\ Len(q) = Len(o) + Len(text)
          /\ \A n \in 1..Len(o) + Len(text) : q[n] = IF n <= Len(o) THEN o[n] ELSE text[n - Len(o)]
      BY <1>2, ConcatProperties
    <2> HIDE DEF q
    <2>2. /\ Len(o) \in Nat /\ Len(text) \in Nat /\ DOMAIN text = 1..Len(text)
          /\ DOMAIN q = 1..Len(q)
      BY <1>2, <2>1, LenProperties
    <2>3. ASSUME NEW n \in DOMAIN text PROVE text[n] \in ToSet(q)
      <3> DEFINE m == Len(o) + n
      <3>1. m \in DOMAIN q /\ q[m] = text[m - Len(o)] /\ m - Len(o) = n
        BY <2>1, <2>2
      <3> HIDE DEF m
      <3> QED BY <3>1 DEF ToSet
    <2> QED BY <2>3
  <1> HIDE DEF q
  <1>5. CASE Outcome(b.fmt, p) = "ok"
    <2>1. \/ b.fmt = "console" /\ p[k].hide
          \/ \E n \in DOMAIN text : text[n].w = w /\ text[n].i = k
      BY <1>5, OutcomeIs, TextShows DEF text
    <2>2. CASE b.fmt = "console" /\ p[k].hide
      BY <1>1, <2>2 DEF ShownBy
    <2>3. CASE \E n \in DOMAIN text : text[n].w = w /\ text[n].i = k
      <3>1. PICK n \in DOMAIN text : text[n].w = w /\ text[n].i = k
        BY <2>3
      <3>2. text # << >>
        BY <3>1
      <3>3. c.out = q
        BY <1>1, <1>3, <1>5, <3>2
      <3> QED BY <1>4, <3>1, <3>3 DEF ShownBy
    <2> QED BY <2>1, <2>2, <2>3
  <1>6. CASE Outcome(b.fmt, p) = "recovered"
    <2>1. b.fmt = "dump" \/ b.fmt = "console"
      BY <1>6, OutcomeIs
    <2>2. CASE b.fmt = "dump"
      BY <1>1, <1>6, <2>2 DEF ShownBy
    <2>3. CASE b.fmt = "console"
      <3> DEFINE l == Mark("dump", w)
      <3>1. Cut("console", p) # 0
        BY <1>6, <2>3, OutcomeIs
      <3>2. text = << l >>
        BY <2>3, <3>1 DEF Text, text
      <3>3. l.kind = "dump" /\ l.w = w
        BY MarkIs DEF Kinds
      <3> HIDE DEF l
      <3>4. text # << >> /\ 1 \in DOMAIN text /\ text[1] = l
        BY <3>2
      <3>5. CASE fails
        BY <1>1, <1>6, <2>3, <3>4, <3>5 DEF ShownBy
      <3>6. CASE ~fails
        BY <1>1, <1>4, <3>3, <3>4, <3>6 DEF ShownBy
      <3> QED BY <3>5, <3>6
    <2> QED BY <2>1, <2>2, <2>3
  <1> QED BY <1>3, <1>5, <1>6

(* The answers of the branches a Write reached: none of them failed when   *)
(* it answers no error, so it reached all.                                 *)
LEMMA AnswerTells ==
  ASSUME TypeOK, NEW p \in Batches, NEW how \in [DOMAIN ws -> Faults], Write(p, how),
         Len(given) + 1 \in acked'
  PROVE  \A i \in DOMAIN ws :
           /\ i <= Tried(p)
           /\ Said(ws[i], Len(given) + 1, p, how[i]) \notin {"error", "panic"}
  <1> DEFINE w == Len(given) + 1
             said(i) == Said(ws[i], w, p, how[i])
             res == [i \in 1..Tried(p) |-> said(i)]
  <1>1. ws \in Seq(BranchType) /\ DOMAIN ws = 1..Len(ws) /\ Len(ws) \in Nat
    BY LenProperties DEF TypeOK
  <1>2. Len(given) \in Nat /\ w \notin acked
    BY LenProperties DEF TypeOK
  <1>3. acked' = IF Answer(res) = "ok" THEN acked \cup {w} ELSE acked
    BY DEF Write
  <1> HIDE DEF w, said
  <1>4. Answer(res) = "ok"
    BY <1>2, <1>3 DEF w
  <1>5. {"error", "panic"} \intersect ToSet(res) = {}
    BY <1>4 DEF Answer
  <1>6. ASSUME NEW i \in 1..Tried(p) PROVE said(i) \notin {"error", "panic"}
    <2>1. said(i) \in ToSet(res)
      <3>1. res[i] = said(i) /\ i \in DOMAIN res
        OBVIOUS
      <3> HIDE DEF res
      <3> QED BY <3>1 DEF ToSet
    <2> HIDE DEF res
    <2> QED BY <1>5, <2>1
  <1>7. Tried(p) \in 0..Len(ws)
        /\ (Tried(p) < Len(ws) => /\ Tried(p) \in DOMAIN ws
                                  /\ Outcome(ws[Tried(p)].fmt, p) = "panic")
    BY <1>1, TriedIs
  <1>8. ~(Tried(p) < Len(ws))
    <2>1. ASSUME Tried(p) < Len(ws) PROVE FALSE
      <3> DEFINE k == Tried(p)
      <3>1. k \in 1..Tried(p) /\ Outcome(ws[k].fmt, p) = "panic"
        BY <1>1, <1>7, <2>1
      <3> HIDE DEF k
      <3>2. said(k) \in {"error", "panic"}
        BY <3>1 DEF said, Said
      <3> QED BY <1>6, <3>1, <3>2
    <2> QED BY <2>1
  <1>9. \A i \in DOMAIN ws : i \in 1..Tried(p) /\ i <= Tried(p)
    BY <1>1, <1>7, <1>8
  <1> QED BY <1>6, <1>9 DEF said, w

-----------------------------------------------------------------------------
(* The inductive invariant: until the branches are closed each is sound,   *)
(* then its text is over; what was acknowledged is shown all the time.     *)

Over(b, gv) ==
  /\ \A n \in DOMAIN b.out : \A m \in 1..n - 1 : Earlier(b.out[m], b.out[n])
  /\ b.fmt = "console" /\ ~b.cut /\ b.dropped = {} =>
       \A n \in DOMAIN b.out : b.out[n].own # 0 => ReadsBack(b.out, b.out[n].own, n)
  /\ b.fmt = "html" =>
       /\ \A n \in DOMAIN b.out : b.out[n].kind = "header" => n = 1
       /\ b.dropped = {} => \A n \in DOMAIN b.out :
            b.out[n].kind = "event" => b.out[1].kind = "header"
       /\ \A n \in DOMAIN b.out : b.out[n].kind = "footer" <=> n = Len(b.out)
       /\ \A n \in DOMAIN b.out : b.out[n].mixed => CutBefore(gv, b.out[n].w)

AllShown ==
  \A j \in DOMAIN ws : \A w \in acked : \A k \in DOMAIN given[w] :
    ShownBy(ws[j], given[w], w, k)

SoundInv ==
  /\ AllShown
  /\ pc \notin Ending => \A j \in DOMAIN ws : Sound(ws[j], given)
  /\ pc \in Ending => \A j \in DOMAIN ws : Over(ws[j], given)

LEMMA OutInOrder ==
  ASSUME NEW b \in BranchType, NEW gv \in Seq(Batches), Sound(b, gv)
  PROVE  InOrder(b.out, Len(gv))
  <1>1. b.out \in Seq(LineType) /\ b.rows \in Seq(LineType) /\ Len(gv) \in Nat
    BY PageIs, LenProperties
  <1>2. InOrder(b.out \o b.rows, Len(gv))
    BY DEF Sound, Page
  <1> QED BY <1>1, <1>2, InOrderPrefix

LEMMA PageBegins ==
  ASSUME NEW b \in BranchType, NEW gv, PageSound(b, gv), b.dropped = {}, b.out # << >>
  PROVE  b.out[1].kind = "header"
  <1>1. b.headed /\ Page(b)[1].kind = "header"
    BY DEF PageSound
  <1>2. 1 \in DOMAIN b.out
    BY PageIs
  <1> QED BY <1>1, <1>2, PageIs

LEMMA SoundImplies == TypeOK /\ SoundInv => AcceptedShown /\ LabelsReadable /\ PageWellFormed
  <1> SUFFICES ASSUME TypeOK, SoundInv PROVE AcceptedShown /\ LabelsReadable /\ PageWellFormed
    OBVIOUS
  <1>1. ASSUME NEW j \in DOMAIN ws
        PROVE  /\ \A n \in DOMAIN ws[j].out : \A m \in 1..n - 1 :
                    Earlier(ws[j].out[m], ws[j].out[n])
               /\ ws[j].fmt = "console" /\ ~ws[j].cut /\ ws[j].dropped = {} =>
                    \A n \in DOMAIN ws[j].out : ws[j].out[n].own # 0 =>
                      ReadsBack(ws[j].out, ws[j].out[n].own, n)
               /\ ws[j].fmt = "html" =>
                    /\ \A n \in DOMAIN ws[j].out : ws[j].out[n].kind = "header" => n = 1
                    /\ ws[j].dropped = {} => \A n \in DOMAIN ws[j].out :
                         ws[j].out[n].kind = "event" => ws[j].out[1].kind = "header"
                    /\ \A n \in DOMAIN ws[j].out :
                         ws[j].out[n].kind = "footer" <=> n = Len(ws[j].out) /\ pc \in Ending
                    /\ \A n \in DOMAIN ws[j].out :
                         ws[j].out[n].mixed => CutBefore(given, ws[j].out[n].w)
    <2> DEFINE b == ws[j]
    <2>1. b \in BranchType /\ given \in Seq(Batches)
      BY BranchIn DEF TypeOK
    <2>2. CASE pc \in Ending
      <3>1. Over(b, given)
        BY <2>2 DEF SoundInv
      <3> HIDE DEF b
      <3>2. (b.fmt = "html" =>
               \A n \in DOMAIN b.out :
                 b.out[n].kind = "footer" <=> n = Len(b.out) /\ pc \in Ending)
        BY <2>2, <3>1 DEF Over
      <3> QED BY <3>1, <3>2 DEF Over, b
    <2>3. CASE pc \notin Ending
      <3>1. Sound(b, given)
        BY <2>3 DEF SoundInv
      <3> HIDE DEF b
      <3>2. \A n \in DOMAIN b.out : \A m \in 1..n - 1 : Earlier(b.out[m], b.out[n])
        BY <2>1, <3>1, OutInOrder DEF InOrder
      <3>3. b.fmt = "console" /\ ~b.cut /\ b.dropped = {} =>
              \A n \in DOMAIN b.out : b.out[n].own # 0 => ReadsBack(b.out, b.out[n].own, n)
        BY <3>1 DEF Sound, Reads
      <3>4. ASSUME b.fmt = "html"
            PROVE  /\ \A n \in DOMAIN b.out : b.out[n].kind = "header" => n = 1
                   /\ b.dropped = {} => \A n \in DOMAIN b.out :
                        b.out[n].kind = "event" => b.out[1].kind = "header"
                   /\ \A n \in DOMAIN b.out :
                        b.out[n].kind = "footer" <=> n = Len(b.out) /\ pc \in Ending
                   /\ \A n \in DOMAIN b.out : b.out[n].mixed => CutBefore(given, b.out[n].w)
        <4>1. PageSound(b, given)
          BY <3>1, <3>4 DEF Sound
        <4>2. WellBegun(b.out, given)
          BY <2>1, <4>1, WellBegunPrefix DEF PageSound
        <4>3. b.dropped = {} /\ b.out # << >> => b.out[1].kind = "header"
          BY <2>1, <4>1, PageBegins
        <4>4. \A n \in DOMAIN b.out : b.out # << >>
          OBVIOUS
        <4>5. \A n \in DOMAIN b.out :
                b.out[n].kind = "footer" <=> n = Len(b.out) /\ pc \in Ending
          BY <2>3, <4>2 DEF WellBegun
        <4>6. b.dropped = {} => \A n \in DOMAIN b.out :
                b.out[n].kind = "event" => b.out[1].kind = "header"
          BY <4>3, <4>4
        <4> QED BY <4>2, <4>5, <4>6 DEF WellBegun
      <3> QED BY <3>2, <3>3, <3>4 DEF b
    <2> QED BY <2>2, <2>3
  <1>2. AcceptedShown
    <2>1. \A j \in DOMAIN ws : \A w \in acked : \A k \in DOMAIN given[w] : Shows(ws[j], w, k)
      BY DEF SoundInv, AllShown, ShownBy, Shows
    <2> QED BY <1>1, <2>1 DEF AcceptedShown
  <1>3. LabelsReadable
    BY <1>1 DEF LabelsReadable, ReadsBack
  <1>4. PageWellFormed
    BY <1>1 DEF PageWellFormed, CutBefore, Ending
  <1> QED BY <1>2, <1>3, <1>4

-----------------------------------------------------------------------------
(* The steps.                                                              *)

LEMMA SoundEmpty ==
  ASSUME NEW b \in BranchType, b.lastls = 0, b.rows = << >>, ~b.headed, ~b.left, b.out = << >>,
         NEW gv
  PROVE  Sound(b, gv)
  <1>1. Page(b) = << >>
    BY PageIs
  <1>2. InOrder(<< >>, Len(gv)) /\ WellBegun(<< >>, gv) /\ Reads(<< >>, 0)
    BY DEF InOrder, WellBegun, Reads
  <1> QED BY <1>1, <1>2 DEF Sound, PageSound

(* A branch the Write does not reach.                                      *)
LEMMA SoundLater ==
  ASSUME NEW b \in BranchType, NEW gv \in Seq(Batches), NEW p \in Batches, Sound(b, gv)
  PROVE  Sound(b, Append(gv, p))
  <1> DEFINE s == Page(b)  hv == Append(gv, p)
  <1>1. s \in Seq(LineType) /\ InOrder(s, Len(gv)) /\ Len(gv) \in Nat /\ Len(hv) = Len(gv) + 1
    BY PageIs, OutcomeKnown DEF Sound
  <1> HIDE DEF s, hv
  <1>2. InOrder(s, Len(hv))
    BY <1>1, InOrderLater
  <1>3. ASSUME b.fmt = "html" PROVE PageSound(b, hv)
    <2>1. PageSound(b, gv)
      BY <1>3 DEF Sound
    <2>2. WellBegun(s, hv)
      BY <1>1, <2>1, WellBegunLater DEF PageSound, s, hv
    <2>3. b.left => CutBefore(hv, Len(hv) + 1)
      <3>1. b.left => CutBefore(hv, Len(gv) + 1)
        BY <1>1, <2>1, OutcomeKnown DEF PageSound, hv
      <3> QED BY <1>1, <3>1 DEF CutBefore
    <2> QED BY <2>1, <2>2, <2>3 DEF PageSound, s
  <1> QED BY <1>2, <1>3 DEF Sound, s, hv

(* The end of a page, and of any other text.                               *)
LEMMA PageOver ==
  ASSUME NEW b \in BranchType, NEW gv \in Seq(Batches), NEW i \in Nat, b.fmt = "html",
         Sound(b, gv), NEW c,
         Wrote(c, [b EXCEPT !.rows = << >>], i, 0, << Mark("footer", 0) >>, "none")
  PROVE  Over(c, gv)
  <1> DEFINE d == [b EXCEPT !.rows = << >>]
             l == Mark("footer", 0)
             o == b.out
             t == << l >>
             q == o \o t
  <1>1. d.fmt = b.fmt /\ d.out = b.out /\ d.dropped = b.dropped
    BY DEF BranchType
  <1>2. t \in Seq(LineType) /\ l.kind = "footer" /\ ~l.mixed
    BY MarkIs DEF Kinds
  <1> HIDE DEF d
  <1>3. c.fmt = "html" /\ c.dropped = b.dropped /\ c.out = q
    <2>1. Wrote(c, d, i, 0, t, "none")
      BY DEF d
    <2> HIDE DEF t
    <2> QED BY <1>1, <2>1 DEF Wrote
  <1> HIDE DEF l
  <1>4. Len(t) = 1 /\ t[1] = l
    OBVIOUS
  <1> HIDE DEF t
  <1>5. /\ o \in Seq(LineType) /\ InOrder(o, Len(gv)) /\ PageSound(b, gv) /\ WellBegun(o, gv)
    BY PageIs, OutInOrder, WellBegunPrefix DEF Sound, PageSound
  <1>6. o # << >> /\ b.dropped = {} => o[1].kind = "header"
    BY <1>5, PageBegins
  <1> HIDE DEF o
  <1>7. q \in Seq(LineType) /\ Len(q) = Len(o) + 1
        /\ \A n \in 1..Len(o) + 1 : q[n] = IF n <= Len(o) THEN o[n] ELSE t[n - Len(o)]
    <2>1. q \in Seq(LineType) /\ Len(q) = Len(o) + Len(t)
          /\ \A n \in 1..Len(o) + Len(t) : q[n] = IF n <= Len(o) THEN o[n] ELSE t[n - Len(o)]
      BY <1>2, <1>5, ConcatProperties
    <2> HIDE DEF q
    <2> QED BY <1>4, <2>1
  <1> HIDE DEF q
  <1>8. /\ Len(o) \in Nat /\ DOMAIN o = 1..Len(o) /\ DOMAIN q = 1..Len(o) + 1
        /\ (o = << >> <=> Len(o) = 0)
    BY <1>5, <1>7, LenProperties, EmptySeq
  <1>9. /\ q[Len(o) + 1] = l
        /\ \A n \in DOMAIN o : n \in DOMAIN q /\ q[n] = o[n]
        /\ \A n \in DOMAIN q : n \in DOMAIN o \/ n = Len(o) + 1
    <2>1. q[Len(o) + 1] = t[(Len(o) + 1) - Len(o)] /\ (Len(o) + 1) - Len(o) = 1
      BY <1>7, <1>8
    <2> QED BY <1>4, <1>7, <1>8, <2>1
  <1>10. \A n \in DOMAIN q : \A m \in 1..n - 1 : Earlier(q[m], q[n])
    <2>1. ASSUME NEW n \in DOMAIN o, NEW m \in 1..n - 1 PROVE Earlier(q[m], q[n])
      <3>1. m \in DOMAIN o
        BY <1>8
      <3> QED BY <1>5, <1>9, <3>1 DEF InOrder
    <2>2. \A m : Earlier(q[m], q[Len(o) + 1])
      BY <1>2, <1>9 DEF Earlier
    <2> QED BY <1>9, <2>1, <2>2
  <1>11. \A n \in DOMAIN q : q[n].kind = "header" => n = 1
    BY <1>2, <1>5, <1>9 DEF WellBegun
  <1>12. b.dropped = {} => \A n \in DOMAIN q : q[n].kind = "event" => q[1].kind = "header"
    <2>1. ASSUME b.dropped = {}, NEW n \in DOMAIN q, q[n].kind = "event"
          PROVE  q[1].kind = "header"
      <3>1. n \in DOMAIN o
        BY <1>2, <1>9, <2>1
      <3>2. 1 \in DOMAIN o /\ o # << >>
        BY <1>8, <3>1
      <3> QED BY <1>6, <1>9, <2>1, <3>2
    <2> QED BY <2>1
  <1>13. \A n \in DOMAIN q : q[n].kind = "footer" <=> n = Len(q)
    <2>1. \A n \in DOMAIN o : n # Len(q)
      BY <1>7, <1>8
    <2> QED BY <1>2, <1>5, <1>7, <1>9, <2>1 DEF WellBegun
  <1>14. \A n \in DOMAIN q : q[n].mixed => CutBefore(gv, q[n].w)
    BY <1>2, <1>5, <1>9 DEF WellBegun
  <1> QED BY <1>3, <1>10, <1>11, <1>12, <1>13, <1>14 DEF Over

LEMMA SoundEnds ==
  ASSUME TypeOK, SoundInv, pc \notin Ending, pc' \in Ending, CloseAll,
         given' = given, acked' = acked
  PROVE  SoundInv'
  <1>1. given \in Seq(Batches) /\ ws \in Seq(BranchType)
    BY DEF TypeOK
  <1>2. DOMAIN ws' = DOMAIN ws
    BY CloseBranches
  <1>3. ASSUME NEW j \in DOMAIN ws
        PROVE  /\ Over(ws'[j], given)
               /\ \A w \in acked : \A k \in DOMAIN given[w] : ShownBy(ws'[j], given[w], w, k)
    <2> DEFINE b == ws[j]  c == ws'[j]
    <2>1. b \in BranchType /\ j \in Nat /\ Sound(b, given)
      BY <1>1, BranchIn DEF SoundInv
    <2>2. \A w \in acked : \A k \in DOMAIN given[w] : ShownBy(b, given[w], w, k)
      BY DEF SoundInv, AllShown
    <2>3. CASE b.fmt = "html"
      <3>1. Wrote(c, [b EXCEPT !.rows = << >>], j, 0, << Mark("footer", 0) >>, "none")
        BY <2>3, CloseBranches
      <3> HIDE DEF b, c
      <3>2. Over(c, given)
        BY <1>1, <2>1, <2>3, <3>1, PageOver
      <3> DEFINE d == [b EXCEPT !.rows = << >>]  t == << Mark("footer", 0) >>
      <3>3. t \in Seq(LineType)
        BY MarkIs DEF Kinds
      <3>4. d.fmt = b.fmt /\ d.out = b.out /\ d.dropped = b.dropped
        BY <2>1 DEF BranchType
      <3> HIDE DEF d, t
      <3>5. c.fmt = b.fmt /\ c.out = b.out \o t /\ b.dropped \subseteq c.dropped
        <4>1. Wrote(c, d, j, 0, t, "none")
          BY <3>1 DEF d, t
        <4> QED BY <3>4, <4>1 DEF Wrote
      <3>6. \A w \in acked : \A k \in DOMAIN given[w] : ShownBy(c, given[w], w, k)
        BY <2>1, <2>2, <3>3, <3>5, ShownStays
      <3> QED BY <3>2, <3>6 DEF c
    <2>4. CASE b.fmt # "html"
      <3>1. c = b
        BY <2>4, CloseBranches
      <3> HIDE DEF b, c
      <3>2. InOrder(b.out, Len(given))
        BY <1>1, <2>1, OutInOrder
      <3>3. Over(b, given)
        BY <2>1, <2>4, <3>2 DEF Over, Sound, InOrder, Reads
      <3> QED BY <2>2, <3>1, <3>3 DEF c
    <2> QED BY <2>3, <2>4
  <1> QED BY <1>2, <1>3 DEF SoundInv, AllShown

LEMMA SoundWrites ==
  ASSUME TypeOK, SoundInv, NEW p \in Batches, NEW how \in [DOMAIN ws -> Faults], Write(p, how)
  PROVE  SoundInv'
  <1> DEFINE w == Len(given) + 1
  <1>1. /\ given \in Seq(Batches) /\ ws \in Seq(BranchType) /\ Len(given) \in Nat /\ w \in Nat
        /\ acked \subseteq 1..Len(given)
    BY LenProperties DEF TypeOK
  <1>2. /\ pc \notin Ending /\ pc' = pc /\ given' = Append(given, p)
        /\ acked' \subseteq acked \cup {w}
    BY DEF Write, Ending
  <1>3. /\ \A v \in 1..Len(given) : given'[v] = given[v]
        /\ given'[w] = p
    BY <1>1, <1>2, OutcomeKnown
  <1>4. /\ DOMAIN ws' = DOMAIN ws
        /\ \A j \in DOMAIN ws :
             ws'[j] = IF j <= Tried(p) THEN After(ws[j], j, w, p, how[j]) ELSE ws[j]
    BY WriteBranches
  <1>5. w \in acked' => \A j \in DOMAIN ws :
          j <= Tried(p) /\ Said(ws[j], w, p, how[j]) \notin {"error", "panic"}
    BY AnswerTells
  <1>6. ASSUME NEW j \in DOMAIN ws
        PROVE  /\ Sound(ws'[j], given')
               /\ \A v \in acked : \A k \in DOMAIN given[v] : ShownBy(ws'[j], given[v], v, k)
               /\ w \in acked' => \A k \in DOMAIN p : ShownBy(ws'[j], p, w, k)
    <2> DEFINE b == ws[j]  c == ws'[j]  fault == how[j]
    <2>1. b \in BranchType /\ j \in Nat /\ Sound(b, given) /\ fault \in Faults
      BY <1>1, <1>2, BranchIn DEF SoundInv
    <2>2. \A v \in acked : \A k \in DOMAIN given[v] : ShownBy(b, given[v], v, k)
      BY DEF SoundInv, AllShown
    <2>3. w \in acked' => j <= Tried(p) /\ Said(b, w, p, fault) \notin {"error", "panic"}
      BY <1>5
    <2>4. c = IF j <= Tried(p) THEN After(b, j, w, p, fault) ELSE b
      BY <1>4
    <2> HIDE DEF b, c, fault
    <2>5. CASE j <= Tried(p)
      <3>1. Became(c, b, j, w, p, fault)
        BY <1>1, <2>1, <2>4, <2>5, AfterIs
      <3>2. Sound(c, given')
        <4>1. CASE b.fmt = "html"
          BY <1>1, <1>2, <2>1, <3>1, <4>1, PageStaysSound
        <4>2. CASE b.fmt # "html"
          BY <1>1, <1>2, <2>1, <3>1, <4>2, LinesStaySound
        <4> QED BY <4>1, <4>2
      <3> DEFINE t == IF fault # "none" THEN Rest(b, w, p, fault) ELSE Text(b, w, p)
      <3>3. t \in Seq(LineType)
        BY <1>1, <2>1, TextIs, RestIs
      <3>4. c.fmt = b.fmt /\ c.out = b.out \o t /\ b.dropped \subseteq c.dropped
        BY <3>1 DEF Became
      <3> HIDE DEF t
      <3>5. \A v \in acked : \A k \in DOMAIN given[v] : ShownBy(c, given[v], v, k)
        BY <2>1, <2>2, <3>3, <3>4, ShownStays
      <3>6. w \in acked' => \A k \in DOMAIN p : ShownBy(c, p, w, k)
        BY <1>1, <2>1, <2>3, <3>1, NewShown
      <3> QED BY <3>2, <3>5, <3>6 DEF c
    <2>6. CASE ~(j <= Tried(p))
      <3>1. c = b /\ w \notin acked'
        BY <2>3, <2>4, <2>6
      <3>2. Sound(b, Append(given, p))
        BY <1>1, <2>1, SoundLater
      <3> QED BY <1>2, <2>2, <3>1, <3>2 DEF c
    <2> QED BY <2>5, <2>6
  <1>7. AllShown'
    <2>1. ASSUME NEW j \in DOMAIN ws', NEW v \in acked', NEW k \in DOMAIN given'[v]
          PROVE  ShownBy(ws'[j], given'[v], v, k)
      <3>1. CASE v \in acked
        <4>1. given'[v] = given[v]
          BY <1>1, <1>3, <3>1
        <4> QED BY <1>4, <1>6, <3>1, <4>1
      <3>2. CASE v = w
        BY <1>3, <1>4, <1>6, <3>2
      <3> QED BY <1>2, <3>1, <3>2
    <2> QED BY <2>1 DEF AllShown
  <1>8. \A j \in DOMAIN ws' : Sound(ws'[j], given')
    BY <1>4, <1>6
  <1> QED BY <1>2, <1>7, <1>8 DEF SoundInv

LEMMA SoundOpens == TypeOK /\ SoundInv /\ OpenNext => SoundInv'
  <1> SUFFICES ASSUME TypeOK, SoundInv, OpenNext PROVE SoundInv'
    OBVIOUS
  <1> DEFINE b == Branch(Head(todo), Opened(Head(todo), Len(ws) + 1))
  <1>1. /\ b \in BranchType
        /\ b.lastls = 0 /\ b.rows = << >> /\ ~b.headed /\ ~b.left /\ b.out = << >>
        /\ DOMAIN ws' = 1..Len(ws) + 1 /\ Len(ws) \in Nat /\ DOMAIN ws = 1..Len(ws)
        /\ \A i \in DOMAIN ws : i \in DOMAIN ws' /\ ws'[i] = ws[i]
        /\ ws'[Len(ws) + 1] = b
    BY OpenBranch
  <1> HIDE DEF b
  <1>2. /\ pc = "open" /\ pc' = pc /\ given' = given /\ acked' = acked
        /\ given = << >> /\ acked \subseteq 1..Len(given)
    BY DEF OpenNext, TypeOK
  <1>3. acked' = {}
    BY <1>2
  <1>4. Sound(b, given)
    BY <1>1, SoundEmpty
  <1>5. ASSUME NEW j \in DOMAIN ws' PROVE Sound(ws'[j], given')
    <2>1. j \in DOMAIN ws \/ j = Len(ws) + 1
      BY <1>1
    <2>2. \A i \in DOMAIN ws : Sound(ws[i], given)
      BY <1>2 DEF SoundInv, Ending
    <2> QED BY <1>1, <1>2, <1>4, <2>1, <2>2
  <1> QED BY <1>2, <1>3, <1>5 DEF SoundInv, AllShown, Ending

LEMMA SoundInit == Init => SoundInv
  BY DEF Init, SoundInv, AllShown, Ending

LEMMA SoundNext == TypeOK /\ SoundInv /\ [Next]_vars => SoundInv'
  <1> SUFFICES ASSUME TypeOK, SoundInv, [Next]_vars PROVE SoundInv'
    OBVIOUS
  <1>1. CASE OpenNext
    BY <1>1, SoundOpens
  <1>2. CASE OpenDone
    BY <1>2 DEF OpenDone, SoundInv, AllShown, Ending
  <1>3. CASE OpenFail
    <2>1. /\ pc \notin Ending /\ pc' \in Ending /\ CloseAll /\ given' = given /\ acked' = acked
      BY <1>3 DEF OpenFail, Ending
    <2> QED BY <2>1, SoundEnds
  <1>4. CASE Close
    <2>1. /\ pc \notin Ending /\ pc' \in Ending /\ CloseAll /\ given' = given /\ acked' = acked
      BY <1>4 DEF Close, Ending
    <2> QED BY <2>1, SoundEnds
  <1>5. ASSUME NEW p \in Batches, NEW how \in [DOMAIN ws -> Faults], Write(p, how) PROVE SoundInv'
    BY <1>5, SoundWrites
  <1>6. CASE (\E s \in Sources : OpenReader(s)) \/ CloseReader \/ Finished \/ UNCHANGED vars
    <2>1. pc' = pc /\ ws' = ws /\ given' = given /\ acked' = acked
      BY <1>6 DEF OpenReader, CloseReader, Finished, vars
    <2> QED BY <2>1 DEF SoundInv, AllShown
  <1> QED BY <1>1, <1>2, <1>3, <1>4, <1>5, <1>6 DEF Next

LEMMA SoundAlways == Spec => [](TypeOK /\ SoundInv)
  <1>1. Init => TypeOK /\ SoundInv
    BY TypeInit, SoundInit
  <1>2. TypeOK /\ SoundInv /\ [Next]_vars => (TypeOK /\ SoundInv)'
    BY TypeNext, SoundNext
  <1> QED BY <1>1, <1>2, PTL DEF Spec

(* A batch MultiWriter.Write (writers.go:122) answers without an error is  *)
(* in every branch, each event once and in order, whatever was refused,    *)
(* cut off or failed before, but for what consoles hide and dumpers lose.  *)
THEOREM AcceptedIsShown == Spec => []AcceptedShown
  BY SoundAlways, SoundImplies, PTL

(* Labels that ConsoleWriter.Write (console.go:307) leaves out of a line   *)
(* are those printed last, as long as no line was cut off or dropped.      *)
THEOREM LabelsAreReadable == Spec => []LabelsReadable
  BY SoundAlways, SoundImplies, PTL

(* The page Web.Write and Web.Close (web.go:58) build has one header, one  *)
(* footer, and pairs of another event only after a batch was cut off.      *)
THEOREM PagesWellFormed == Spec => []PageWellFormed
  BY SoundAlways, SoundImplies, PTL
=============================================================================
