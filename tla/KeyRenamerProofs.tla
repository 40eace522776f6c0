-------------------------- MODULE KeyRenamerProofs --------------------------
(***************************************************************************)
(* What is proved of the Rewriter, for any rules, values, attributes and   *)
(* labels: an event it rewrites differs from the one written in what the   *)
(* rules name and in nothing else.  It rests on RecordsAreEncoded (the     *)
(* event is the encoding of what was meant) and on DecoderFrames (Skip     *)
(* passes one value), and goes by the levels a value is nested.            *)
(***************************************************************************)
EXTENDS WireProofs

-----------------------------------------------------------------------------
(* KeyRenamer: its recursive definitions, by levels.                       *)

(* The levels of Rewrite. *)
Calls(rules, bs, d, below) ==
  [at \in Seq(Byte) \X Paths \X Nat \X (Nat \ {0}) |->
     IF d = 0 THEN [b |-> at[1], i |-> at[4]]
     ELSE RewriteStep(below, rules, bs, at[1], at[2], at[3], at[4])]

CallsTables(rules, bs, f, n) == f = [d \in 0..n |-> Calls(rules, bs, d, f[d - 1])]

LEMMA CallsExist == ASSUME NEW rules, NEW bs, NEW n \in Nat PROVE \E f : CallsTables(rules, bs, f, n)
  <1> DEFINE T == {k \in Nat : ~ \E f : CallsTables(rules, bs, f, k)}
  <1>1. \A x, y : Calls(rules, bs, 0, x) = Calls(rules, bs, 0, y)
    BY DEF Calls
  <1>2. ASSUME T # {} PROVE FALSE
    <2>1. PICK x \in T : \A y \in T : x <= y
      <3>1. T \subseteq Nat
        OBVIOUS
      <3> HIDE DEF T
      <3> QED BY <1>2, <3>1, SmallestExists
    <2>2. x \in Nat /\ ~ \E f : CallsTables(rules, bs, f, x)
      BY <2>1
    <2>3. x # 0
      <3> DEFINE f == [d \in 0..0 |-> Calls(rules, bs, 0, 0)]
      <3>1. \A d \in 0..0 : f[d] = Calls(rules, bs, d, f[d - 1])
        BY <1>1
      <3>2. f = [d \in 0..0 |-> f[d]]
        OBVIOUS
      <3> HIDE DEF f
      <3>3. CallsTables(rules, bs, f, 0)
        BY <3>1, <3>2 DEF CallsTables
      <3> QED BY <2>2, <3>3
    <2>4. x - 1 \in Nat /\ ~(x <= x - 1)
      BY <2>2, <2>3
    <2>5. PICK f : CallsTables(rules, bs, f, x - 1)
      BY <2>1, <2>4
    <2> DEFINE g == [d \in 0..x |-> Calls(rules, bs, d, f[d - 1])]
    <2>6. \A d \in 0..x - 1 : g[d] = f[d]
      BY <2>4, <2>5 DEF CallsTables
    <2>7. \A d \in 0..x : d # 0 => d - 1 \in 0..x - 1
      BY <2>2
    <2>8. CallsTables(rules, bs, g, x)
      <3>1. \A d \in 0..x : g[d] = Calls(rules, bs, d, g[d - 1])
        <4> TAKE d \in 0..x
        <4>1. g[d] = Calls(rules, bs, d, f[d - 1])
          OBVIOUS
        <4> HIDE DEF g
        <4>2. CASE d = 0
          BY <1>1, <4>1, <4>2
        <4>3. CASE d # 0
          BY <2>6, <2>7, <4>1, <4>3
        <4> QED BY <4>2, <4>3
      <3>2. g = [d \in 0..x |-> g[d]]
        OBVIOUS
      <3> HIDE DEF g
      <3> QED BY <3>1, <3>2 DEF CallsTables
    <2> QED BY <2>2, <2>8
  <1> QED BY <1>2

LEMMA CallsAre ==
  ASSUME NEW rules, NEW bs
  PROVE  \A d \in 0..MaxDepth + 1 : Rewrite(rules, bs)[d] = Calls(rules, bs, d, Rewrite(rules, bs)[d - 1])
  <1>1. MaxDepth + 1 \in Nat
    BY DepthAssumption
  <1>2. \E f : CallsTables(rules, bs, f, MaxDepth + 1)
    BY <1>1, CallsExist
  <1>3. Rewrite(rules, bs) = CHOOSE f : CallsTables(rules, bs, f, MaxDepth + 1)
    BY DEF Rewrite, CallsTables, Calls
  <1>4. CallsTables(rules, bs, Rewrite(rules, bs), MaxDepth + 1)
    BY <1>2, <1>3
  <1> QED BY <1>4 DEF CallsTables

(* The levels of Rulings. *)
Ruled(rules, d, below) ==
  IF d = 0 THEN [rule |-> [at \in Sites |-> Fitting(rules, at)], tree |-> [at \in Sites |-> at[1]],
                 kept |-> [at \in Sites |-> TRUE]]
  ELSE [rule |-> [at \in Sites |-> RuleStep(below, rules, at)],
        tree |-> [at \in Sites |-> RuledStep(below, at)],
        kept |-> [at \in Sites |-> KeptStep(below, at)]]

RuledTables(rules, f, n) == f = [d \in 0..n |-> Ruled(rules, d, f[d - 1])]

LEMMA RuledExist == ASSUME NEW rules, NEW n \in Nat PROVE \E f : RuledTables(rules, f, n)
  <1> DEFINE T == {k \in Nat : ~ \E f : RuledTables(rules, f, k)}
  <1>1. \A x, y : Ruled(rules, 0, x) = Ruled(rules, 0, y)
    BY DEF Ruled
  <1>2. ASSUME T # {} PROVE FALSE
    <2>1. PICK x \in T : \A y \in T : x <= y
      <3>1. T \subseteq Nat
        OBVIOUS
      <3> HIDE DEF T
      <3> QED BY <1>2, <3>1, SmallestExists
    <2>2. x \in Nat /\ ~ \E f : RuledTables(rules, f, x)
      BY <2>1
    <2>3. x # 0
      <3> DEFINE f == [d \in 0..0 |-> Ruled(rules, 0, 0)]
      <3>1. \A d \in 0..0 : f[d] = Ruled(rules, d, f[d - 1])
        BY <1>1
      <3>2. f = [d \in 0..0 |-> f[d]]
        OBVIOUS
      <3> HIDE DEF f
      <3>3. RuledTables(rules, f, 0)
        BY <3>1, <3>2 DEF RuledTables
      <3> QED BY <2>2, <3>3
    <2>4. x - 1 \in Nat /\ ~(x <= x - 1)
      BY <2>2, <2>3
    <2>5. PICK f : RuledTables(rules, f, x - 1)
      BY <2>1, <2>4
    <2> DEFINE g == [d \in 0..x |-> Ruled(rules, d, f[d - 1])]
    <2>6. \A d \in 0..x - 1 : g[d] = f[d]
      BY <2>4, <2>5 DEF RuledTables
    <2>7. \A d \in 0..x : d # 0 => d - 1 \in 0..x - 1
      BY <2>2
    <2>8. RuledTables(rules, g, x)
      <3>1. \A d \in 0..x : g[d] = Ruled(rules, d, g[d - 1])
        <4> TAKE d \in 0..x
        <4>1. g[d] = Ruled(rules, d, f[d - 1])
          OBVIOUS
        <4> HIDE DEF g
        <4>2. CASE d = 0
          BY <1>1, <4>1, <4>2
        <4>3. CASE d # 0
          BY <2>6, <2>7, <4>1, <4>3
        <4> QED BY <4>2, <4>3
      <3>2. g = [d \in 0..x |-> g[d]]
        OBVIOUS
      <3> HIDE DEF g
      <3> QED BY <3>1, <3>2 DEF RuledTables
    <2> QED BY <2>2, <2>8
  <1> QED BY <1>2

LEMMA RuledAre ==
  ASSUME NEW rules
  PROVE  \A d \in 0..MaxDepth : Rulings(rules)[d] = Ruled(rules, d, Rulings(rules)[d - 1])
  <1>1. \E f : RuledTables(rules, f, MaxDepth)
    BY DepthAssumption, RuledExist
  <1>2. Rulings(rules) = CHOOSE f : RuledTables(rules, f, MaxDepth)
    BY DEF Rulings, RuledTables, Ruled
  <1>3. RuledTables(rules, Rulings(rules), MaxDepth)
    BY <1>1, <1>2
  <1> QED BY <1>3 DEF RuledTables

(* The rounds of Elements, by how many are left. *)
Rounds(calls, bs, path, tag, n, d, below) ==
  [at \in Outs |->
     IF d = 0 \/ (n < 0 /\ bs[at.i] = Break) THEN at ELSE below[Element(calls, at, bs, path, tag)]]

RoundsTables(calls, bs, path, tag, n, f, m) == f = [d \in 0..m |-> Rounds(calls, bs, path, tag, n, d, f[d - 1])]

LEMMA RoundsExist ==
  ASSUME NEW calls, NEW bs, NEW path, NEW tag, NEW n, NEW m \in Nat
  PROVE  \E f : RoundsTables(calls, bs, path, tag, n, f, m)
  <1> DEFINE T == {k \in Nat : ~ \E f : RoundsTables(calls, bs, path, tag, n, f, k)}
  <1>1. \A x, y : Rounds(calls, bs, path, tag, n, 0, x) = Rounds(calls, bs, path, tag, n, 0, y)
    BY DEF Rounds
  <1>2. ASSUME T # {} PROVE FALSE
    <2>1. PICK x \in T : \A y \in T : x <= y
      <3>1. T \subseteq Nat
        OBVIOUS
      <3> HIDE DEF T
      <3> QED BY <1>2, <3>1, SmallestExists
    <2>2. x \in Nat /\ ~ \E f : RoundsTables(calls, bs, path, tag, n, f, x)
      BY <2>1
    <2>3. x # 0
      <3> DEFINE f == [d \in 0..0 |-> Rounds(calls, bs, path, tag, n, 0, 0)]
      <3>1. \A d \in 0..0 : f[d] = Rounds(calls, bs, path, tag, n, d, f[d - 1])
        BY <1>1
      <3>2. f = [d \in 0..0 |-> f[d]]
        OBVIOUS
      <3> HIDE DEF f
      <3>3. RoundsTables(calls, bs, path, tag, n, f, 0)
        BY <3>1, <3>2 DEF RoundsTables
      <3> QED BY <2>2, <3>3
    <2>4. x - 1 \in Nat /\ ~(x <= x - 1)
      BY <2>2, <2>3
    <2>5. PICK f : RoundsTables(calls, bs, path, tag, n, f, x - 1)
      BY <2>1, <2>4
    <2> DEFINE g == [d \in 0..x |-> Rounds(calls, bs, path, tag, n, d, f[d - 1])]
    <2>6. \A d \in 0..x - 1 : g[d] = f[d]
      BY <2>4, <2>5 DEF RoundsTables
    <2>7. \A d \in 0..x : d # 0 => d - 1 \in 0..x - 1
      BY <2>2
    <2>8. RoundsTables(calls, bs, path, tag, n, g, x)
      <3>1. \A d \in 0..x : g[d] = Rounds(calls, bs, path, tag, n, d, g[d - 1])
        <4> TAKE d \in 0..x
        <4>1. g[d] = Rounds(calls, bs, path, tag, n, d, f[d - 1])
          OBVIOUS
        <4> HIDE DEF g
        <4>2. CASE d = 0
          BY <1>1, <4>1, <4>2
        <4>3. CASE d # 0
          BY <2>6, <2>7, <4>1, <4>3
        <4> QED BY <4>2, <4>3
      <3>2. g = [d \in 0..x |-> g[d]]
        OBVIOUS
      <3> HIDE DEF g
      <3> QED BY <3>1, <3>2 DEF RoundsTables
    <2> QED BY <2>2, <2>8
  <1> QED BY <1>2

(* The loop over the elements, given what each call leaves. *)
LoopRuns(calls, bs, path, tag, n, m, g) ==
  /\ m \in Nat /\ n \in Int /\ Len(bs) \in Nat /\ m <= Len(bs)
  /\ \A k \in 0..m : g[k] \in Outs
  /\ \A k \in 1..m : Element(calls, g[k - 1], bs, path, tag) = g[k]
  /\ n >= 0 => n = m
  /\ n < 0 => bs[g[m].i] = Break /\ \A k \in 0..m - 1 : bs[g[k].i] # Break

LEMMA ElementsAre ==
  ASSUME NEW calls, NEW bs, NEW path, NEW tag, NEW n, NEW m, NEW g, LoopRuns(calls, bs, path, tag, n, m, g)
  PROVE  Elements(calls, g[0], bs, path, tag, n) =
           IF n < 0 THEN [b |-> Append(g[m].b, Break), i |-> g[m].i + 1] ELSE g[m]
  <1> DEFINE u == CHOOSE f : RoundsTables(calls, bs, path, tag, n, f, Len(bs))
             all == IF n < 0 THEN Len(bs) ELSE n
             end == u[all][g[0]]
             U == {k \in 0..m : u[all - k][g[k]] # end}
  <1>1. Elements(calls, g[0], bs, path, tag, n) =
          IF n < 0 THEN [b |-> Append(end.b, Break), i |-> end.i + 1] ELSE end
    BY DEF Elements, RoundsTables, Rounds
  <1>2. /\ m \in Nat /\ n \in Int /\ Len(bs) \in Nat /\ m <= Len(bs) /\ (n >= 0 => n = m)
        /\ \A k \in 0..m : g[k] \in Outs
        /\ \A k \in 1..m : Element(calls, g[k - 1], bs, path, tag) = g[k]
        /\ n < 0 => bs[g[m].i] = Break /\ \A k \in 0..m - 1 : bs[g[k].i] # Break
    BY DEF LoopRuns
  <1>3. \A d \in 0..Len(bs) : u[d] = Rounds(calls, bs, path, tag, n, d, u[d - 1])
    <2>1. \E f : RoundsTables(calls, bs, path, tag, n, f, Len(bs))
      BY <1>2, RoundsExist
    <2>2. RoundsTables(calls, bs, path, tag, n, u, Len(bs))
      BY <2>1
    <2> HIDE DEF u
    <2> QED BY <2>2 DEF RoundsTables
  <1> HIDE DEF u
  <1>4. \A d \in 0..Len(bs), at \in Outs :
          u[d][at] = IF d = 0 \/ (n < 0 /\ bs[at.i] = Break) THEN at
                     ELSE u[d - 1][Element(calls, at, bs, path, tag)]
    <2> TAKE d \in 0..Len(bs), at \in Outs
    <2>1. Rounds(calls, bs, path, tag, n, d, u[d - 1])[at] =
            IF d = 0 \/ (n < 0 /\ bs[at.i] = Break) THEN at
            ELSE u[d - 1][Element(calls, at, bs, path, tag)]
      BY Zenon DEF Rounds
    <2> QED BY <1>3, <2>1, Zenon
  <1>5. all \in 0..Len(bs) /\ m <= all
    BY <1>2
  <1>6. ASSUME U # {} PROVE FALSE
    <2>1. PICK x \in U : \A y \in U : x <= y
      <3>1. U \subseteq Nat
        OBVIOUS
      <3> HIDE DEF U
      <3> QED BY <1>6, <3>1, SmallestExists
    <2>2. x \in 0..m /\ u[all - x][g[x]] # end
      BY <2>1
    <2>3. x # 0
      <3>1. all - 0 = all
        BY <1>5
      <3> QED BY <2>2, <3>1
    <2> DEFINE h == x - 1  d == all - h
    <2>4. /\ h \in 0..m /\ ~(x <= h) /\ h \in 0..m - 1 /\ x \in 1..m
          /\ d \in 0..Len(bs) /\ d # 0 /\ d - 1 = all - x
      BY <1>2, <1>5, <2>2, <2>3
    <2>5. u[d][g[h]] = end
      BY <2>1, <2>4
    <2>6. g[h] \in Outs /\ Element(calls, g[h], bs, path, tag) = g[x] /\ (n < 0 => bs[g[h].i] # Break)
      BY <1>2, <2>4
    <2> HIDE DEF h, d, end
    <2>7. u[d][g[h]] = u[d - 1][Element(calls, g[h], bs, path, tag)]
      BY <1>4, <2>4, <2>6
    <2> QED BY <2>2, <2>4, <2>5, <2>6, <2>7
  <1>7. u[all - m][g[m]] = end
    <2>1. m \in 0..m
      BY <1>2
    <2> QED BY <1>6, <2>1
  <1>8. u[all - m][g[m]] = g[m]
    <2>1. all - m \in 0..Len(bs) /\ g[m] \in Outs
      BY <1>2, <1>5
    <2>2. all - m = 0 \/ (n < 0 /\ bs[g[m].i] = Break)
      BY <1>2
    <2> HIDE DEF all
    <2> QED BY <1>4, <2>1, <2>2
  <1> HIDE DEF end
  <1> QED BY <1>1, <1>7, <1>8

-----------------------------------------------------------------------------
(* Some bytes are in others, all of them, behind the first p. *)
There(bs, p, e) ==
  /\ bs \in Seq(Byte) /\ e \in Seq(Byte) /\ p \in Nat /\ p + Len(e) <= Len(bs)
  /\ \A c \in 1..Len(e) : bs[p + c] = e[c]

LEMMA ThereTyped ==
  ASSUME NEW bs, NEW p, NEW e, There(bs, p, e)
  PROVE  /\ bs \in Seq(Byte) /\ e \in Seq(Byte) /\ p \in Nat /\ Len(bs) \in Nat /\ Len(e) \in Nat
         /\ p + Len(e) <= Len(bs) /\ p + Len(e) \in Nat /\ Cut(bs, p, e)
  <1>1. /\ bs \in Seq(Byte) /\ e \in Seq(Byte) /\ p \in Nat /\ p + Len(e) <= Len(bs)
        /\ \A c \in 1..Len(e) : bs[p + c] = e[c]
    BY DEF There
  <1>2. Len(bs) \in Nat /\ Len(e) \in Nat
    BY <1>1, LenProperties
  <1> QED BY <1>1, <1>2 DEF Cut

LEMMA ThereSplit ==
  ASSUME NEW bs, NEW p, NEW e \in Seq(Byte), NEW f \in Seq(Byte), There(bs, p, e \o f)
  PROVE  There(bs, p, e) /\ There(bs, p + Len(e), f)
  <1> DEFINE m == Len(e)  n == Len(f)
  <1>1. Len(e \o f) = m + n /\ m \in Nat /\ n \in Nat
    BY ConcatProperties, LenProperties
  <1>2. bs \in Seq(Byte) /\ p \in Nat /\ p + Len(e \o f) <= Len(bs) /\ Cut(bs, p, e \o f) /\ Len(bs) \in Nat
    BY ThereTyped
  <1>3. Cut(bs, p, e) /\ (p + m <= Len(bs) => Cut(bs, p + m, f))
    BY <1>2, CutSplit
  <1>4. p + m <= Len(bs) /\ p + m + n <= Len(bs) /\ p + m \in Nat
    BY <1>1, <1>2
  <1>5. \A c \in 1..m : p + c <= Len(bs)
    BY <1>1, <1>2, <1>4
  <1>6. \A c \in 1..n : p + m + c <= Len(bs)
    BY <1>1, <1>2, <1>4
  <1> QED BY <1>2, <1>3, <1>4, <1>5, <1>6 DEF Cut, There

LEMMA ThereIs ==
  ASSUME NEW bs, NEW p, NEW e, There(bs, p, e)
  PROVE  SubSeq(bs, p + 1, p + Len(e)) = e
  <1> DEFINE n == Len(e)  s == SubSeq(bs, p + 1, p + n)
  <1>1. /\ bs \in Seq(Byte) /\ e \in Seq(Byte) /\ p \in Nat /\ Len(bs) \in Nat /\ n \in Nat
        /\ p + n <= Len(bs)
    BY ThereTyped
  <1>2. \A c \in 1..n : bs[p + c] = e[c]
    BY DEF There
  <1> DEFINE q == p + n
  <1>3. p \in 0..Len(bs) /\ q \in p..Len(bs) /\ q - p = n
    BY <1>1
  <1> HIDE DEF q, n
  <1>4. /\ SubSeq(bs, p + 1, q) \in Seq(Byte) /\ Len(SubSeq(bs, p + 1, q)) = q - p
        /\ \A c \in 1..q - p : SubSeq(bs, p + 1, q)[c] = bs[p + c]
    BY <1>1, <1>3, PartIs
  <1>5. \A c \in 1..Len(s) : s[c] = e[c]
    BY <1>2, <1>3, <1>4 DEF q, n
  <1>6. s \in Seq(Byte) /\ Len(s) = Len(e)
    BY <1>3, <1>4 DEF q, n
  <1> HIDE DEF s
  <1>7. s = e
    BY <1>1, <1>5, <1>6, SeqEqual
  <1> QED BY <1>7 DEF s, n

LEMMA ThereAll ==
  ASSUME NEW e \in Seq(Byte)
  PROVE  There(e, 0, e)
  <1>1. Len(e) \in Nat
    BY LenProperties
  <1>2. \A c \in 1..Len(e) : 0 + c = c
    BY <1>1
  <1> QED BY <1>1, <1>2 DEF There

LEMMA SkipThere ==
  ASSUME NEW bs, NEW p, NEW v \in Values, There(bs, p, Enc(v))
  PROVE  /\ DecoderSkip(bs, p + 1) = p + Len(Enc(v)) + 1
         /\ SubSeq(bs, p + 1, DecoderSkip(bs, p + 1) - 1) = Enc(v)
  <1> DEFINE q == p + Len(Enc(v))  end == DecoderSkip(bs, p + 1)
  <1>1. bs \in Seq(Byte) /\ Cut(bs, p, Enc(v)) /\ p + Len(Enc(v)) <= Len(bs) /\ q \in Nat
    BY ThereTyped
  <1>2. end = q + 1
    BY <1>1, DecoderFrames
  <1>3. SubSeq(bs, p + 1, q) = Enc(v)
    BY ThereIs
  <1> HIDE DEF q, end
  <1>4. end - 1 = q
    BY <1>1, <1>2
  <1>5. end = q + 1 /\ SubSeq(bs, p + 1, end - 1) = Enc(v)
    BY <1>2, <1>3, <1>4
  <1> QED BY <1>5 DEF q, end

-----------------------------------------------------------------------------
(* What is read of an encoded value: the start of an array or a map, which *)
(* its elements follow, a label tag, the tag of a scalar, a key.           *)
HeadOf(v) == IF v.open THEN << <<v.k, "open", 0>> >> ELSE Header(v.k, Count(v), Width(Count(v)))
EndOf(v) == IF v.open THEN <<Break>> ELSE << >>

LEMMA ContainerIs ==
  ASSUME NEW v \in Values, v.k \in {"array", "map"}
  PROVE  /\ Enc(v) = HeadOf(v) \o (Stream(v.vs) \o EndOf(v))
         /\ v.vs \in Seq(Values) /\ v.open \in BOOLEAN /\ Len(v.vs) \in Nat
         /\ HeadOf(v) \in Seq(Byte) /\ Stream(v.vs) \in Seq(Byte) /\ EndOf(v) \in Seq(Byte)
  <1>1. /\ v.vs \in Seq(Values) /\ v.open \in BOOLEAN /\ Len(v.vs) \in Nat
        /\ HeadOf(v) \in Seq(Byte) /\ EndOf(v) \in Seq(Byte)
    <2>1. << >> \in Seq(Byte)
      OBVIOUS
    <2> QED BY <2>1, ElementsInside DEF HeadOf, EndOf
  <1>2. Stream(v.vs) \in Seq(Byte)
    BY <1>1, StreamTyped
  <1>3. Enc(v) = HeadOf(v) \o (Stream(v.vs) \o EndOf(v))
    <2> DEFINE s == Stream(v.vs)  o == << <<v.k, "open", 0>> >>  one == <<Break>>  g == HeadOf(v)
    <2>1. CASE v.open
      <3>1. Enc(v) = (o \o s) \o one /\ g = o /\ EndOf(v) = one
        BY <2>1, OpenEncoded DEF HeadOf, EndOf
      <3>2. ThreeBytes(o, s, one)
        BY <1>1, <1>2, <3>1 DEF ThreeBytes
      <3> HIDE DEF o, s, one, g
      <3>3. (o \o s) \o one = o \o (s \o one)
        BY <3>2, Regrouped
      <3> QED BY <3>1, <3>3 DEF g, s
    <2>2. CASE ~v.open
      <3>1. Enc(v) = g \o s /\ EndOf(v) = << >>
        BY <2>2, GivenEncoded DEF HeadOf, EndOf
      <3>2. s \o << >> = s
        BY <1>2, ConcatEmptySeq
      <3> HIDE DEF s, g
      <3> QED BY <3>1, <3>2 DEF g, s
    <2> QED BY <1>1, <2>1, <2>2
  <1> QED BY <1>1, <1>2, <1>3

LEMMA CountFits ==
  ASSUME NEW v \in Values, v.k \in {"array", "map"}
  PROVE  Width(Count(v)) \in Widths /\ Fits(Count(v), Width(Count(v))) /\ Count(v) <= Len(v.vs)
  <1> DEFINE m == Len(v.vs)  c == Count(v)
  <1>1. Fits(m, 4) /\ m \in Nat
    <2>1. Fits(Len(v.vs), 4)
      BY ValueInside DEF Scalars
    <2> QED BY <2>1, ElementsInside
  <1>2. c \in Nat
    BY ElementsInside
  <1>3. c <= m
    <2>1. c = m \/ c = m \div 2
      BY DEF Count
    <2> HIDE DEF c, m
    <2> QED BY <1>1, <1>2, <2>1
  <1> HIDE DEF c, m
  <1>4. Width(c) \in Widths /\ Fits(c, Width(c))
    BY <1>1, <1>2, <1>3, FitsLess
  <1> QED BY <1>3, <1>4 DEF c, m

LEMMA HeadRead ==
  ASSUME NEW v \in Values, v.k \in {"array", "map"}, NEW bs, NEW p, There(bs, p, HeadOf(v))
  PROVE  /\ ReadTag(bs, p + 1) = [tag |-> v.k, l |-> IF v.open THEN -1 ELSE Count(v),
                                  next |-> p + 1 + Len(HeadOf(v))]
         /\ Len(HeadOf(v)) \in Nat \ {0}
  <1> DEFINE hd == HeadOf(v)  st == p + 1  n == Len(hd)
  <1>1. bs \in Seq(Byte) /\ p \in Nat /\ Len(bs) \in Nat /\ n \in Nat /\ p + n <= Len(bs) /\ Cut(bs, p, hd)
    BY ThereTyped
  <1>2. v.open \in BOOLEAN /\ Count(v) \in Nat
    BY ElementsInside
  <1>3. CASE v.open
    <2> DEFINE x == <<v.k, "open", 0>>
    <2>1. hd = <<x>> /\ n = 1 /\ hd[1] = x
      BY <1>3 DEF HeadOf
    <2>2. bs[p + 1] = x
      BY <2>1 DEF There
    <2>3. st \in Nat \ {0} /\ st <= Len(bs) /\ v.k # "special"
      BY <1>1, <2>1
    <2>4. bs[st] = <<v.k, "open", 0>>
      BY <2>2
    <2> HIDE DEF st
    <2>5. ReadTag(bs, st) = [tag |-> v.k, l |-> -1, next |-> st + 1]
      BY <1>1, <2>3, <2>4, ReadOpen
    <2> QED BY <1>3, <2>1, <2>5 DEF st
  <1>4. CASE ~v.open
    <2> DEFINE c == Count(v)  wd == Width(c)
    <2>1. hd = Header(v.k, c, wd)
      BY <1>4 DEF HeadOf
    <2>2. wd \in Widths /\ Fits(c, wd) /\ v.k \in Tags
      BY CountFits DEF Tags
    <2>3. n = 1 + wd /\ wd \in Nat
      <3> HIDE DEF c, wd
      <3>1. Len(Header(v.k, c, wd)) = 1 + wd
        BY <1>2, <2>2, HeaderTyped DEF c
      <3> QED BY <2>1, <2>2, <3>1 DEF Widths
    <2>4. p # Len(bs) /\ p + 1 + wd <= Len(bs) /\ p + 2 + wd = st + n
      BY <1>1, <2>3
    <2> HIDE DEF c, wd, hd, n, st
    <2>5. HeaderSeen(bs, p, v.k, c, wd)
      BY <1>1, <2>1, <2>2, <2>4, HeaderRead
    <2>6. ReadTag(bs, p + 1) = [tag |-> v.k, l |-> c, next |-> st + n]
      BY <2>4, <2>5 DEF HeaderSeen
    <2>7. n \in Nat \ {0}
      BY <2>3
    <2> QED BY <1>4, <2>6, <2>7 DEF st, hd, n, c
  <1> QED BY <1>2, <1>3, <1>4

LEMMA LabelIs ==
  /\ Size("label", 1) = << <<"label", "short", 1>> >>
  /\ Size("label", 1) \in Seq(Byte) /\ Len(Size("label", 1)) = 1
  <1>1. Width(1) = 0
    BY DEF Width
  <1>2. Size("label", 1) = << <<"label", "short", 1>> >>
    BY <1>1 DEF Size, Header
  <1>3. <<"label", "short", 1>> \in Byte
    BY DEF Byte, Details
  <1>4. << <<"label", "short", 1>> >> \in Seq(Byte) /\ Len(<< <<"label", "short", 1>> >>) = 1
    BY <1>3
  <1> QED BY <1>2, <1>4

LEMMA LabelRead ==
  ASSUME NEW bs, NEW p, There(bs, p, Size("label", 1))
  PROVE  /\ ReadTag(bs, p + 1) = [tag |-> "label", l |-> 1, next |-> p + 2]
         /\ SubSeq(bs, p + 1, p + 1) = Size("label", 1)
  <1> DEFINE x == <<"label", "short", 1>>  e == Size("label", 1)  st == p + 1
  <1>1. e = <<x>> /\ Len(e) = 1 /\ e[1] = x
    BY LabelIs
  <1>2. /\ bs \in Seq(Byte) /\ p \in Nat /\ Len(bs) \in Nat /\ p + Len(e) <= Len(bs)
    BY ThereTyped
  <1>3. st \in Nat \ {0} /\ st <= Len(bs) /\ st + 1 = p + 2
    BY <1>1, <1>2
  <1>4. bs[st] = <<"label", "short", 1>>
    BY <1>1 DEF There
  <1>5. SubSeq(bs, p + 1, p + Len(e)) = e
    BY ThereIs
  <1>6. SubSeq(bs, p + 1, p + 1) = e
    BY <1>1, <1>5
  <1> HIDE DEF st
  <1>7. ReadTag(bs, st) = [tag |-> "label", l |-> 1, next |-> st + 1]
    BY <1>2, <1>3, <1>4, ReadShort
  <1>8. ReadTag(bs, st) = [tag |-> "label", l |-> 1, next |-> p + 2]
    BY <1>3, <1>7
  <1> QED BY <1>6, <1>8 DEF st

LEMMA ScalarTag ==
  ASSUME NEW v \in Values, v \in Scalars
  PROVE  Enc(v)[1][1] = v.k /\ v.k \notin {"label", "array", "map"}
  <1>0. Enc(v) = EncodeStep(Encode, v)
    BY EncGood
  <1>1. CASE v \in [k : {"int"}, more : Widths]
    <2> DEFINE x == IF v.more = 0 THEN <<"int", "short", 3>> ELSE <<"int", "long", v.more>>
    <2>1. v.more \in Nat /\ v.k = "int"
      BY <1>1 DEF Widths
    <2>2. x \in Byte /\ x # Break /\ x[1] = "int"
      BY <2>1 DEF Byte, Details, Break
    <2>3. Enc(v) = <<x>> \o Raw(v.more)
      BY <1>0, <2>1 DEF EncodeStep
    <2> HIDE DEF x
    <2>4. Raw(v.more) \in Seq(Byte)
      BY <2>1, RawTyped
    <2>5. (<<x>> \o Raw(v.more))[1] = x
      BY <2>2, <2>4, OneMore
    <2> QED BY <2>1, <2>2, <2>3, <2>5
  <1>2. CASE v.k \in {"bytes", "str"} /\ v.n \in Nat /\ v.long \in Widths
    <2> DEFINE h == Header(v.k, v.n, v.long)  e == [j \in 1..v.n |-> Break]
    <2>1. Good(h) /\ h[1][1] = v.k
      <3>1. v.k \in Tags
        BY <1>2 DEF Tags
      <3>2. /\ h \in Seq(Byte) /\ Len(h) = 1 + v.long /\ h[1] # Break
            /\ v.long = 0 => h[1] = <<v.k, "short", v.n>>
            /\ v.long # 0 => h[1] = <<v.k, "long", v.long>>
        BY <1>2, <3>1, HeaderTyped
      <3>3. 1 + v.long \in Nat \ {0}
        BY <1>2 DEF Widths
      <3> HIDE DEF h
      <3> QED BY <3>2, <3>3 DEF Good
    <2>2. e \in Seq(Byte)
      <3>1. e \in [1..v.n -> Byte]
        BY BreakIsByte
      <3> HIDE DEF e
      <3> QED BY <1>2, <3>1, OfLength
    <2>3. Enc(v) = h \o e
      BY <1>0, <1>2 DEF EncodeStep
    <2> HIDE DEF h, e
    <2>4. (h \o e)[1] = h[1]
      BY <2>1, <2>2, GoodBefore
    <2> QED BY <1>2, <2>1, <2>3, <2>4
  <1>3. CASE v.k = "special" /\ v.s \in DOMAIN DecoderLen \ {"break"} /\ v.more \in Nat
    <2> DEFINE x == <<"special", v.s, 0>>
    <2>1. x \in Byte
      <3>1. v.s \in Details
        BY <1>3 DEF Details
      <3> QED BY <3>1 DEF Byte
    <2>2. x[1] = "special"
      OBVIOUS
    <2>3. Enc(v) = <<x>> \o Raw(v.more)
      BY <1>0, <1>3 DEF EncodeStep
    <2> HIDE DEF x
    <2>4. Raw(v.more) \in Seq(Byte)
      BY <1>3, RawTyped
    <2>5. (<<x>> \o Raw(v.more))[1] = x
      BY <2>1, <2>4, OneMore
    <2> QED BY <1>3, <2>2, <2>3, <2>5
  <1> QED BY <1>1, <1>2, <1>3 DEF Scalars

LEMMA ScalarRead ==
  ASSUME NEW v \in Values, v \in Scalars, NEW bs, NEW p, There(bs, p, Enc(v))
  PROVE  ReadTag(bs, p + 1).tag \notin {"label", "array", "map"}
  <1> DEFINE e == Enc(v)  st == p + 1
  <1>1. bs \in Seq(Byte) /\ p \in Nat /\ Len(bs) \in Nat /\ p + Len(e) <= Len(bs)
    BY ThereTyped
  <1>2. Len(e) \in Nat \ {0} /\ 1 \in 1..Len(e)
    BY EncGood DEF Good
  <1>3. bs[st] = e[1]
    BY <1>2 DEF There
  <1>4. st \in Nat \ {0} /\ st <= Len(bs)
    BY <1>1, <1>2
  <1>5. e[1][1] = v.k /\ v.k \notin {"label", "array", "map"}
    BY ScalarTag
  <1> HIDE DEF st, e
  <1>6. ReadTag(bs, st).tag = bs[st][1]
    BY <1>1, <1>4, TagRead
  <1> QED BY <1>3, <1>5, <1>6 DEF st

(* The key of a pair: its length, and where it ends. *)
KeySeen(bs, q, key) ==
  LET r0 == ReadTag(bs, q + 1) IN r0.l = key.n /\ r0.next + r0.l = q + 1 + Len(Enc(key))

LEMMA KeyRead ==
  ASSUME NEW key \in Values, key.k \in {"bytes", "str"}, NEW bs, NEW q, There(bs, q, Enc(key))
  PROVE  KeySeen(bs, q, key)
  <1> DEFINE n == key.n  long == key.long  h == Header(key.k, n, long)  e == [j \in 1..n |-> Break]
  <1>1. n \in Nat /\ long \in Widths /\ Fits(n, long) /\ key.k \in Tags
    BY ValueInside DEF Scalars, Tags
  <1>2. h \in Seq(Byte) /\ Len(h) = 1 + long
    BY <1>1, HeaderTyped
  <1>3. e \in Seq(Byte) /\ Len(e) = n
    <2>1. e \in [1..n -> Byte]
      BY BreakIsByte
    <2> HIDE DEF e, n
    <2> QED BY <1>1, <2>1, OfLength
  <1>4. Enc(key) = h \o e
    <2>1. Enc(key) = EncodeStep(Encode, key)
      BY EncGood
    <2> QED BY <2>1 DEF EncodeStep
  <1> HIDE DEF h, e
  <1>5. There(bs, q, h) /\ Len(Enc(key)) = Len(h) + Len(e)
    <2>1. There(bs, q, h \o e)
      BY <1>4
    <2>2. There(bs, q, h)
      BY <1>2, <1>3, <2>1, ThereSplit
    <2>3. Len(h \o e) = Len(h) + Len(e)
      BY <1>2, <1>3, ConcatProperties
    <2> QED BY <1>4, <2>2, <2>3
  <1>6. bs \in Seq(Byte) /\ q \in Nat /\ Len(bs) \in Nat /\ q + Len(h) <= Len(bs) /\ Cut(bs, q, h)
    BY <1>5, ThereTyped
  <1> HIDE DEF n, long
  <1>7. long \in Nat /\ q # Len(bs) /\ q + 1 + long <= Len(bs)
    BY <1>1, <1>2, <1>6 DEF Widths
  <1>8. HeaderSeen(bs, q, key.k, n, long)
    BY <1>1, <1>6, <1>7, HeaderRead DEF h
  <1>9. ReadTag(bs, q + 1) = [tag |-> key.k, l |-> n, next |-> q + 2 + long]
    BY <1>7, <1>8 DEF HeaderSeen
  <1>10. ReadTag(bs, q + 1).l = n /\ ReadTag(bs, q + 1).next = q + 2 + long
    BY <1>9
  <1>11. q + 2 + long + n = q + 1 + Len(Enc(key))
    BY <1>1, <1>2, <1>3, <1>5, <1>6, <1>7
  <1> QED BY <1>10, <1>11 DEF KeySeen, n

-----------------------------------------------------------------------------
(* The tables of a rewriting, at one place.                                *)
RuleAt(rules, d, v, ps) == Rulings(rules)[d].rule[<<v, ps>>]
RuledTree(rules, d, v, ps) == Rulings(rules)[d].tree[<<v, ps>>]
IsKept(rules, d, v, ps) == Rulings(rules)[d].kept[<<v, ps>>] = TRUE

LEMMA RulingIs ==
  ASSUME NEW rules, NEW d \in 0..MaxDepth, NEW v \in Values, NEW ps \in Paths
  PROVE  /\ RuleAt(rules, d, v, ps) = IF d = 0 THEN Fitting(rules, <<v, ps>>)
                                      ELSE RuleStep(Rulings(rules)[d - 1], rules, <<v, ps>>)
         /\ RuledTree(rules, d, v, ps) = IF d = 0 THEN v ELSE RuledStep(Rulings(rules)[d - 1], <<v, ps>>)
         /\ IsKept(rules, d, v, ps) <=> d = 0 \/ KeptStep(Rulings(rules)[d - 1], <<v, ps>>)
  <1> DEFINE at == <<v, ps>>  g == Rulings(rules)
  <1>1. at \in Sites /\ at[1] = v
    BY DEF Sites
  <1> HIDE DEF at, g
  <1>2. g[d] = Ruled(rules, d, g[d - 1])
    BY RuledAre DEF g
  <1>3. CASE d = 0
    <2>1. g[d] = [rule |-> [a \in Sites |-> Fitting(rules, a)], tree |-> [a \in Sites |-> a[1]],
                  kept |-> [a \in Sites |-> TRUE]]
      BY <1>2, <1>3 DEF Ruled
    <2>2. g[d].rule[at] = Fitting(rules, at) /\ g[d].tree[at] = v /\ g[d].kept[at] = TRUE
      BY <1>1, <2>1
    <2> QED BY <1>3, <2>2 DEF RuleAt, RuledTree, IsKept, at, g
  <1>4. CASE d # 0
    <2> DEFINE below == g[d - 1]
    <2>1. g[d] = [rule |-> [a \in Sites |-> RuleStep(below, rules, a)],
                  tree |-> [a \in Sites |-> RuledStep(below, a)],
                  kept |-> [a \in Sites |-> KeptStep(below, a)]]
      BY <1>2, <1>4 DEF Ruled
    <2> HIDE DEF below
    <2>2. g[d].rule[at] = RuleStep(below, rules, at)
      BY <1>1, <2>1
    <2>3. g[d].tree[at] = RuledStep(below, at)
      BY <1>1, <2>1
    <2>4. g[d].kept[at] = KeptStep(below, at)
      BY <1>1, <2>1
    <2>5. IsKept(rules, d, v, ps) <=> KeptStep(below, at)
      BY <2>4 DEF IsKept, at, g
    <2> QED BY <1>4, <2>2, <2>3, <2>5 DEF RuleAt, RuledTree, at, g, below
  <1> QED BY <1>3, <1>4

LEMMA KeptTrue ==
  ASSUME NEW rules, NEW d \in 0..MaxDepth, NEW v \in Values, NEW ps \in Paths, Rulings(rules)[d].kept[<<v, ps>>]
  PROVE  IsKept(rules, d, v, ps)
  <1> DEFINE at == <<v, ps>>  g == Rulings(rules)
  <1>1. at \in Sites
    BY DEF Sites
  <1> HIDE DEF at, g
  <1>2. g[d] = Ruled(rules, d, g[d - 1])
    BY RuledAre DEF g
  <1>3. CASE d = 0
    <2>1. g[d] = [rule |-> [a \in Sites |-> Fitting(rules, a)], tree |-> [a \in Sites |-> a[1]],
                  kept |-> [a \in Sites |-> TRUE]]
      BY <1>2, <1>3 DEF Ruled
    <2>2. g[d].kept[at] = TRUE
      BY <1>1, <2>1
    <2> QED BY <2>2 DEF IsKept, at, g
  <1>4. CASE d # 0
    <2> DEFINE below == g[d - 1]
    <2>1. g[d] = [rule |-> [a \in Sites |-> RuleStep(below, rules, a)],
                  tree |-> [a \in Sites |-> RuledStep(below, a)],
                  kept |-> [a \in Sites |-> KeptStep(below, a)]]
      BY <1>2, <1>4 DEF Ruled
    <2> HIDE DEF below
    <2>2. g[d].kept[at] = KeptStep(below, at)
      BY <1>1, <2>1
    <2>3. g[d].kept[at]
      BY DEF at, g
    <2>4. KeptStep(below, at)
      BY <2>2, <2>3
    <2> QED BY <2>2, <2>4 DEF IsKept, at, g
  <1> QED BY <1>3, <1>4

(* The key of a pair that is held back, with the label tags behind it, and *)
(* what is asked of Rewrite: to copy a value behind them.                  *)
Held(bs, ks, p, key, tags) ==
  /\ ks \in Nat /\ tags \in Seq(Byte)
  /\ ks # 0 => /\ key \in Values
               /\ There(bs, ks - 1, Enc(key) \o tags) /\ ks - 1 + Len(Enc(key) \o tags) = p

HeldBytes(ks, key, tags) == IF ks = 0 THEN << >> ELSE Enc(key) \o tags

Site(bs, v, ps, p, ks, key, tags, x) ==
  /\ There(bs, p, Enc(v)) /\ Held(bs, ks, p, key, tags) /\ ps \in Paths /\ x \in Seq(Byte)
  /\ v.k = "label" => ks # 0

NameKept(bs, ks, p, key, tags, x) ==
  /\ (IF ks = 0 THEN x ELSE x \o SubSeq(bs, ks, (p + 1) - 1)) = x \o HeldBytes(ks, key, tags)
  /\ HeldBytes(ks, key, tags) \in Seq(Byte)

LEMMA NamedIs ==
  ASSUME NEW bs, NEW v, NEW ps, NEW p, NEW ks, NEW key, NEW tags, NEW x, Site(bs, v, ps, p, ks, key, tags, x)
  PROVE  NameKept(bs, ks, p, key, tags, x)
  <1>0. Held(bs, ks, p, key, tags) /\ x \in Seq(Byte) /\ There(bs, p, Enc(v))
    BY DEF Site
  <1>1. (p + 1) - 1 = p
    BY <1>0, ThereTyped
  <1>2. CASE ks = 0
    <2>1. x \o << >> = x
      BY <1>0, ConcatEmptySeq
    <2>2. << >> \in Seq(Byte)
      OBVIOUS
    <2> QED BY <1>2, <2>1, <2>2 DEF HeldBytes, NameKept
  <1>3. CASE ks # 0
    <2> DEFINE e == Enc(key) \o tags  q == ks - 1
    <2>1. There(bs, q, e) /\ q + Len(e) = p /\ q + 1 = ks
      BY <1>0, <1>3 DEF Held
    <2> HIDE DEF e, q
    <2>2. SubSeq(bs, q + 1, q + Len(e)) = e /\ e \in Seq(Byte)
      BY <2>1, ThereIs, ThereTyped
    <2>3. SubSeq(bs, ks, p) = e
      BY <2>1, <2>2
    <2>4. SubSeq(bs, ks, (p + 1) - 1) = e
      BY <1>1, <2>3
    <2> QED BY <1>3, <2>2, <2>4 DEF HeldBytes, NameKept, e
  <1> QED BY <1>2, <1>3

Called(rules, bs, d, ps, p, ks, x) ==
  Rewrite(rules, bs)[d + 1][<<x, ps, ks, p + 1>>] = RewriteStep(Rewrite(rules, bs)[d], rules, bs, x, ps, ks, p + 1)

LEMMA SiteCalled ==
  ASSUME NEW rules, NEW d \in 0..MaxDepth, NEW bs, NEW v, NEW ps, NEW p, NEW ks, NEW key, NEW tags, NEW x,
         Site(bs, v, ps, p, ks, key, tags, x)
  PROVE  Called(rules, bs, d, ps, p, ks, x)
  <1> DEFINE st == p + 1  m == d + 1  at == <<x, ps, ks, st>>  g == Rewrite(rules, bs)
  <1>1. ps \in Paths /\ x \in Seq(Byte) /\ ks \in Nat /\ p \in Nat
    BY ThereTyped DEF Site, Held
  <1>2. m \in 0..MaxDepth + 1 /\ m # 0 /\ m - 1 = d
    BY DepthAssumption
  <1>3. st \in Nat \ {0}
    BY <1>1
  <1> HIDE DEF st
  <1>4. at \in Seq(Byte) \X Paths \X Nat \X (Nat \ {0}) /\ at[1] = x /\ at[2] = ps /\ at[3] = ks /\ at[4] = st
    BY <1>1, <1>3
  <1> HIDE DEF m, at, g
  <1>5. g[m] = Calls(rules, bs, m, g[m - 1])
    BY <1>2, CallsAre DEF g
  <1>6. Calls(rules, bs, m, g[m - 1])[at] =
          IF m = 0 THEN [b |-> at[1], i |-> at[4]]
          ELSE RewriteStep(g[m - 1], rules, bs, at[1], at[2], at[3], at[4])
    BY <1>4 DEF Calls
  <1>7. g[m][at] = RewriteStep(g[d], rules, bs, x, ps, ks, st)
    BY <1>2, <1>4, <1>5, <1>6
  <1> QED BY <1>7, Zenon DEF Called, m, at, g, st

(* A value is not behind the end. *)
LEMMA SiteInside ==
  ASSUME NEW bs, NEW v \in Values, NEW p, There(bs, p, Enc(v))
  PROVE  p + 1 # Len(bs) + 1
  <1>1. p \in Nat /\ Len(bs) \in Nat /\ p + Len(Enc(v)) <= Len(bs)
    BY ThereTyped
  <1>2. Len(Enc(v)) \in Nat /\ Len(Enc(v)) # 0
    BY EncGood DEF Good
  <1> QED BY <1>1, <1>2

(* What one call of Rewrite does with such a value, by its kind. *)
ScalarDone(calls, rules, bs, v, ps, p, ks, key, tags, x) ==
  RewriteStep(calls, rules, bs, x, ps, ks, p + 1) =
    [b |-> (x \o HeldBytes(ks, key, tags)) \o Enc(v), i |-> p + 1 + Len(Enc(v))]

LEMMA ScalarStep ==
  ASSUME NEW calls, NEW rules, NEW bs, NEW v \in Values, v \in Scalars, NEW ps, ps \notin DOMAIN rules,
         NEW p, NEW ks, NEW key, NEW tags, NEW x, Site(bs, v, ps, p, ks, key, tags, x)
  PROVE  ScalarDone(calls, rules, bs, v, ps, p, ks, key, tags, x)
  <1> DEFINE st == p + 1  end == DecoderSkip(bs, st)  named == IF ks = 0 THEN x ELSE x \o SubSeq(bs, ks, st - 1)
  <1>1. There(bs, p, Enc(v)) /\ Held(bs, ks, p, key, tags) /\ x \in Seq(Byte)
    BY DEF Site
  <1>2. p \in Nat /\ Len(Enc(v)) \in Nat
    BY <1>1, ThereTyped
  <1>3. named = x \o HeldBytes(ks, key, tags)
    <2>1. NameKept(bs, ks, p, key, tags, x)
      BY NamedIs
    <2> QED BY <2>1 DEF NameKept
  <1>4. ReadTag(bs, st).tag \notin {"label", "array", "map"}
    BY <1>1, ScalarRead
  <1>5. end = p + Len(Enc(v)) + 1 /\ SubSeq(bs, p + 1, end - 1) = Enc(v)
    BY <1>1, SkipThere
  <1>6. p + Len(Enc(v)) + 1 = p + 1 + Len(Enc(v))
    BY <1>2
  <1>7. RewriteStep(calls, rules, bs, x, ps, ks, st) = [b |-> named \o SubSeq(bs, st, end - 1), i |-> end]
    <2>1. st # Len(bs) + 1
      BY <1>1, SiteInside
    <2> QED BY <1>4, <2>1 DEF RewriteStep
  <1> HIDE DEF named, end
  <1>8. RewriteStep(calls, rules, bs, x, ps, ks, st) =
          [b |-> (x \o HeldBytes(ks, key, tags)) \o Enc(v), i |-> p + 1 + Len(Enc(v))]
    BY <1>3, <1>5, <1>6, <1>7
  <1> QED BY <1>8, Zenon DEF ScalarDone

LabelDone(calls, rules, bs, ps, p, ks, x) ==
  RewriteStep(calls, rules, bs, x, ps, ks, p + 1) = calls[<<x, Append(ps, Size("label", 1)), ks, p + 2>>]

LEMMA LabelStep ==
  ASSUME NEW calls, NEW rules, NEW bs, NEW u, Tagged(u) \in Values, NEW ps, ps \notin DOMAIN rules,
         NEW p, NEW ks, NEW key, NEW tags, NEW x, Site(bs, Tagged(u), ps, p, ks, key, tags, x)
  PROVE  LabelDone(calls, rules, bs, ps, p, ks, x)
  <1> DEFINE st == p + 1  e == Size("label", 1)
  <1>1. There(bs, p, Enc(Tagged(u)))
    BY DEF Site
  <1>2. Enc(Tagged(u)) = e \o Enc(u) /\ u \in Values /\ e \in Seq(Byte)
    BY LabelInside
  <1>3. There(bs, p, e)
    <2>1. Enc(u) \in Seq(Byte)
      BY <1>2, EncGood DEF Good
    <2>2. There(bs, p, e \o Enc(u))
      BY <1>1, <1>2
    <2> HIDE DEF e
    <2> QED BY <1>2, <2>1, <2>2, ThereSplit
  <1>4. ReadTag(bs, st) = [tag |-> "label", l |-> 1, next |-> p + 2] /\ SubSeq(bs, p + 1, p + 1) = e
    BY <1>3, LabelRead
  <1>5. p \in Nat
    BY <1>1, ThereTyped
  <1>6. (p + 2) - 1 = p + 1
    BY <1>5
  <1>7. RewriteStep(calls, rules, bs, x, ps, ks, st) =
          calls[<<x, Append(ps, SubSeq(bs, st, ReadTag(bs, st).next - 1)), ks, ReadTag(bs, st).next>>]
    <2>1. ReadTag(bs, st).tag = "label" /\ ReadTag(bs, st).tag \notin {"array", "map"}
      BY <1>4
    <2>2. st # Len(bs) + 1
      BY <1>1, SiteInside
    <2> HIDE DEF st, e
    <2> QED BY <2>1, <2>2, Zenon DEF RewriteStep
  <1> HIDE DEF e
  <1>8. SubSeq(bs, st, (p + 2) - 1) = e
    BY <1>4, <1>6
  <1>9. ReadTag(bs, st).next = p + 2
    BY <1>4
  <1> HIDE DEF st
  <1>10. SubSeq(bs, st, ReadTag(bs, st).next - 1) = e
    BY <1>8, <1>9
  <1> DEFINE nx == ReadTag(bs, st).next
  <1>11. nx = p + 2 /\ SubSeq(bs, st, nx - 1) = e
    BY <1>9, <1>10
  <1>12. RewriteStep(calls, rules, bs, x, ps, ks, st) = calls[<<x, Append(ps, SubSeq(bs, st, nx - 1)), ks, nx>>]
    BY <1>7
  <1> HIDE DEF nx
  <1>13. RewriteStep(calls, rules, bs, x, ps, ks, st) = calls[<<x, Append(ps, e), ks, p + 2>>]
    BY <1>11, <1>12, Zenon
  <1> QED BY <1>13, Zenon DEF e, st, LabelDone

ContainerDone(calls, rules, bs, v, ps, p, ks, key, tags, x) ==
  RewriteStep(calls, rules, bs, x, ps, ks, p + 1) =
    Elements(calls, [b |-> (x \o HeldBytes(ks, key, tags)) \o HeadOf(v), i |-> p + 1 + Len(HeadOf(v))],
             bs, ps, v.k, IF v.open THEN -1 ELSE Count(v))

LEMMA ContainerStep ==
  ASSUME NEW calls, NEW rules, NEW bs, NEW v \in Values, v.k \in {"array", "map"}, NEW ps, ps \notin DOMAIN rules,
         NEW p, NEW ks, NEW key, NEW tags, NEW x, Site(bs, v, ps, p, ks, key, tags, x)
  PROVE  ContainerDone(calls, rules, bs, v, ps, p, ks, key, tags, x)
  <1> DEFINE st == p + 1  hd == HeadOf(v)  named == IF ks = 0 THEN x ELSE x \o SubSeq(bs, ks, st - 1)
             n == IF v.open THEN -1 ELSE Count(v)  q == st + Len(hd)  f == Stream(v.vs) \o EndOf(v)
  <1>1. There(bs, p, Enc(v)) /\ Held(bs, ks, p, key, tags) /\ x \in Seq(Byte)
    BY DEF Site
  <1>2. p \in Nat
    BY <1>1, ThereTyped
  <1>3. named = x \o HeldBytes(ks, key, tags)
    <2>1. NameKept(bs, ks, p, key, tags, x)
      BY NamedIs
    <2> QED BY <2>1 DEF NameKept
  <1>4. There(bs, p, hd)
    <2>1. Enc(v) = hd \o f /\ hd \in Seq(Byte) /\ f \in Seq(Byte)
      BY ContainerIs, ConcatProperties
    <2>2. There(bs, p, hd \o f)
      BY <1>1, <2>1
    <2> HIDE DEF hd, f
    <2> QED BY <2>1, <2>2, ThereSplit
  <1>5. ReadTag(bs, st) = [tag |-> v.k, l |-> n, next |-> q] /\ Len(hd) \in Nat
    BY <1>4, HeadRead
  <1>6. SubSeq(bs, st, q - 1) = hd
    <2>1. SubSeq(bs, p + 1, p + Len(hd)) = hd
      BY <1>4, ThereIs
    <2>2. q - 1 = p + Len(hd)
      BY <1>2, <1>5
    <2> HIDE DEF q
    <2> QED BY <2>1, <2>2
  <1> HIDE DEF n, q
  <1>7. RewriteStep(calls, rules, bs, x, ps, ks, st) =
          Elements(calls, [b |-> named \o SubSeq(bs, st, q - 1), i |-> q], bs, ps, v.k, n)
    <2>1. ReadTag(bs, st).tag = v.k /\ ReadTag(bs, st).next = q /\ ReadTag(bs, st).l = n
      BY <1>5
    <2>2. v.k # "label" /\ st # Len(bs) + 1
      BY <1>1, SiteInside
    <2> HIDE DEF st
    <2> QED BY <2>1, <2>2, Zenon DEF RewriteStep
  <1> HIDE DEF named, hd
  <1>8. RewriteStep(calls, rules, bs, x, ps, ks, st) =
          Elements(calls, [b |-> (x \o HeldBytes(ks, key, tags)) \o hd, i |-> q], bs, ps, v.k, n)
    BY <1>3, <1>6, <1>7
  <1> QED BY <1>8, Zenon DEF n, q, hd, ContainerDone

RuleFits(rule, key) == rule.remove \/ (key.k \in {"bytes", "str"} /\ NewName(rule, key) \in Values)

RuleDone(calls, rules, bs, v, ps, p, ks, key, tags, x) ==
  RewriteStep(calls, rules, bs, x, ps, ks, p + 1) =
    [b |-> IF rules[ps].remove THEN x ELSE (x \o (Enc(NewName(rules[ps], key)) \o tags)) \o Enc(v),
     i |-> p + 1 + Len(Enc(v))]

LEMMA RuleApplied ==
  ASSUME NEW calls, NEW rules, NEW bs, NEW v \in Values, NEW ps, ps \in DOMAIN rules,
         NEW p, NEW ks, ks # 0, NEW key, NEW tags, NEW x, Site(bs, v, ps, p, ks, key, tags, x),
         RuleFits(rules[ps], key)
  PROVE  RuleDone(calls, rules, bs, v, ps, p, ks, key, tags, x)
  <1> DEFINE st == p + 1  end == DecoderSkip(bs, st)  rule == rules[ps]  e == Enc(v)
  <1>1. There(bs, p, e) /\ Held(bs, ks, p, key, tags) /\ x \in Seq(Byte)
    BY DEF Site
  <1>2. p \in Nat /\ Len(e) \in Nat
    BY <1>1, ThereTyped
  <1>3. end = p + Len(e) + 1 /\ SubSeq(bs, p + 1, end - 1) = e
    BY <1>1, SkipThere
  <1>4. p + Len(e) + 1 = p + 1 + Len(e)
    BY <1>2
  <1>5. RewriteStep(calls, rules, bs, x, ps, ks, st) =
          [i |-> end,
           b |-> IF rule.remove THEN x ELSE x \o Renamed(rule, bs, ks, st) \o SubSeq(bs, st, end - 1)]
    BY DEF RewriteStep, Apply
  <1>6. CASE rule.remove
    <2> HIDE DEF end
    <2> QED BY <1>3, <1>4, <1>5, <1>6 DEF RuleDone
  <1>7. CASE ~rule.remove
    <2> DEFINE q == ks - 1  d == Enc(key)  m == Len(d)  r0 == ReadTag(bs, ks)
    <2>1. /\ key \in Values /\ key.k \in {"bytes", "str"} /\ tags \in Seq(Byte) /\ ks \in Nat
          /\ There(bs, q, d \o tags) /\ q + Len(d \o tags) = p
      BY <1>1, <1>7 DEF RuleFits, Held
    <2>2. d \in Seq(Byte) /\ m \in Nat /\ q + 1 = ks /\ q \in Nat
      BY <2>1, EncGood, LenProperties DEF Good
    <2>3. There(bs, q, d) /\ There(bs, q + m, tags) /\ Len(d \o tags) = m + Len(tags)
      <3> HIDE DEF d, q
      <3> QED BY <2>1, <2>2, ThereSplit, ConcatProperties
    <2>4. r0.l = key.n /\ r0.next + r0.l = ks + m
      <3>1. KeySeen(bs, q, key)
        BY <2>1, <2>3, KeyRead
      <3> QED BY <2>2, <3>1 DEF KeySeen
    <2>5. SubSeq(bs, q + m + 1, q + m + Len(tags)) = tags
      <3> DEFINE a == q + m
      <3>1. There(bs, a, tags)
        BY <2>3
      <3> HIDE DEF a
      <3>2. SubSeq(bs, a + 1, a + Len(tags)) = tags
        BY <3>1, ThereIs
      <3> QED BY <3>2 DEF a
    <2> HIDE DEF m, d, r0
    <2>6. ks + m = q + m + 1 /\ st - 1 = q + m + Len(tags)
      <3>1. Len(tags) \in Nat
        BY <2>1, LenProperties
      <3> QED BY <1>2, <2>1, <2>2, <2>3, <3>1
    <2> HIDE DEF q, st
    <2>7. SubSeq(bs, r0.next + r0.l, st - 1) = tags
      BY <2>4, <2>5, <2>6
    <2>8. Renamed(rule, bs, ks, st) = Enc(NewName(rule, key)) \o tags
      BY <2>4, <2>7 DEF Renamed, NewName, Key, r0
    <2>9. SubSeq(bs, st, end - 1) = e
      BY <1>3 DEF st
    <2> HIDE DEF end, rule
    <2>10. x \o Renamed(rule, bs, ks, st) \o SubSeq(bs, st, end - 1) = (x \o (Enc(NewName(rule, key)) \o tags)) \o e
      BY <2>8, <2>9
    <2> QED BY <1>3, <1>4, <1>5, <1>7, <2>10 DEF rule, st, RuleDone
  <1> QED BY <1>6, <1>7

-----------------------------------------------------------------------------
(* The elements of an array, the pairs of a map: a loop in which each adds *)
(* some bytes behind those before and goes on to a place that is known.    *)
LoopGives(calls, bs, ps, tag, n, m, E, pos) ==
  /\ m \in Nat /\ n \in Int /\ Len(bs) \in Nat /\ m <= Len(bs)
  /\ E \in [1..m -> Seq(Byte)] /\ \A k \in 0..m : pos[k] \in Nat \ {0}
  /\ \A k \in 1..m, z \in Seq(Byte) :
       Element(calls, [b |-> z, i |-> pos[k - 1]], bs, ps, tag) = [b |-> z \o E[k], i |-> pos[k]]
  /\ n >= 0 => n = m
  /\ n < 0 => bs[pos[m]] = Break /\ \A k \in 0..m - 1 : bs[pos[k]] # Break

LEMMA LoopAdds ==
  ASSUME NEW calls, NEW bs, NEW ps, NEW tag, NEW n, NEW m, NEW E, NEW pos,
         LoopGives(calls, bs, ps, tag, n, m, E, pos), NEW y \in Seq(Byte)
  PROVE  /\ Elements(calls, [b |-> y, i |-> pos[0]], bs, ps, tag, n) =
              IF n < 0 THEN [b |-> (y \o FlattenSeq(E)) \o <<Break>>, i |-> pos[m] + 1]
              ELSE [b |-> y \o FlattenSeq(E), i |-> pos[m]]
         /\ FlattenSeq(E) \in Seq(Byte)
  <1> DEFINE part(k) == FlattenSeq(First(E, k))  g == [k \in 0..m |-> [b |-> y \o part(k), i |-> pos[k]]]
  <1>1. /\ m \in Nat /\ n \in Int /\ Len(bs) \in Nat /\ m <= Len(bs)
        /\ E \in [1..m -> Seq(Byte)] /\ \A k \in 0..m : pos[k] \in Nat \ {0}
        /\ \A k \in 1..m, z \in Seq(Byte) :
             Element(calls, [b |-> z, i |-> pos[k - 1]], bs, ps, tag) = [b |-> z \o E[k], i |-> pos[k]]
        /\ n >= 0 => n = m
        /\ n < 0 => bs[pos[m]] = Break /\ \A k \in 0..m - 1 : bs[pos[k]] # Break
    BY DEF LoopGives
  <1>2. \A k \in 0..m : part(k) \in Seq(Byte)
    BY <1>1, FlattenFirst
  <1>3. part(0) = << >> /\ part(m) = FlattenSeq(E)
    BY <1>1, FlattenEnds
  <1>4. \A k \in 0..m : k # m => part(k + 1) = part(k) \o E[k + 1]
    BY <1>1, FlattenMore
  <1> HIDE DEF part
  <1>5. \A k \in 0..m : g[k] = [b |-> y \o part(k), i |-> pos[k]] /\ y \o part(k) \in Seq(Byte)
    BY <1>2, ConcatProperties
  <1> HIDE DEF g
  <1>6. \A k \in 0..m : g[k] \in Outs /\ g[k].i = pos[k]
    <2> TAKE k \in 0..m
    <2> DEFINE z == y \o part(k)
    <2>1. g[k] = [b |-> z, i |-> pos[k]] /\ z \in Seq(Byte) /\ pos[k] \in Nat \ {0}
      BY <1>1, <1>5
    <2> HIDE DEF z
    <2> QED BY <2>1 DEF Outs
  <1>7. ASSUME NEW k \in 1..m PROVE Element(calls, g[k - 1], bs, ps, tag) = g[k]
    <2> DEFINE h == k - 1  z == y \o part(h)  s == part(h)  e == E[k]
    <2>1. h \in 0..m /\ h # m /\ h + 1 = k /\ k \in 0..m
      BY <1>1
    <2>2. g[h] = [b |-> z, i |-> pos[h]] /\ z \in Seq(Byte)
      BY <1>5, <2>1
    <2>3. part(k) = s \o e
      BY <1>4, <2>1
    <2>4. g[k] = [b |-> y \o part(k), i |-> pos[k]]
      BY <1>5, <2>1
    <2>5. ThreeBytes(y, s, e)
      BY <1>1, <1>2, <2>1 DEF ThreeBytes
    <2>6. Element(calls, [b |-> z, i |-> pos[h]], bs, ps, tag) = [b |-> z \o e, i |-> pos[k]]
      BY <1>1, <2>2
    <2>7. z = y \o s
      OBVIOUS
    <2> HIDE DEF z, s, e, h
    <2>8. z \o e = y \o (s \o e)
      BY <2>5, <2>7, Regrouped
    <2>9. Element(calls, g[h], bs, ps, tag) = g[k]
      BY <2>2, <2>3, <2>4, <2>6, <2>8
    <2> QED BY <2>9 DEF h
  <1>8. LoopRuns(calls, bs, ps, tag, n, m, g)
    <2>1. m \in 0..m /\ \A k \in 0..m - 1 : k \in 0..m
      BY <1>1
    <2> QED BY <1>1, <1>6, <1>7, <2>1 DEF LoopRuns
  <1>9. Elements(calls, g[0], bs, ps, tag, n) =
           IF n < 0 THEN [b |-> Append(g[m].b, Break), i |-> g[m].i + 1] ELSE g[m]
    BY <1>8, ElementsAre
  <1>10. g[0] = [b |-> y, i |-> pos[0]]
    <2>1. y \o << >> = y
      BY ConcatEmptySeq
    <2>2. 0 \in 0..m
      BY <1>1
    <2> QED BY <1>3, <1>5, <2>1, <2>2
  <1> DEFINE all == y \o FlattenSeq(E)
  <1>11. g[m] = [b |-> all, i |-> pos[m]] /\ all \in Seq(Byte) /\ FlattenSeq(E) \in Seq(Byte)
    <2>1. m \in 0..m
      BY <1>1
    <2> QED BY <1>2, <1>3, <1>5, <2>1
  <1> HIDE DEF all
  <1>12. Append(all, Break) = all \o <<Break>>
    BY <1>11, BreakIsByte, AppendIsConcat
  <1>13. g[m].b = all /\ g[m].i = pos[m]
    BY <1>11
  <1> QED BY <1>9, <1>10, <1>11, <1>12, <1>13 DEF all

LEMMA BeforeLeast ==
  ASSUME NEW vs \in Seq(Values), NEW j \in 0..Len(vs)
  PROVE  j <= Before(vs, j)
  <1> DEFINE n == Len(vs)  U == {k \in 0..n : ~(k <= Before(vs, k))}
  <1>1. n \in Nat /\ Before(vs, 0) = 0 /\ \A k \in 0..n : Before(vs, k) \in Nat
    BY LenProperties, StreamWhole, FirstEvents
  <1>2. \A k \in 0..n : k # n => Before(vs, k + 1) >= Before(vs, k) + 1
    <2> TAKE k \in 0..n
    <2>1. ASSUME k # n PROVE Before(vs, k) < Before(vs, k + 1)
      BY <2>1, Inside
    <2>2. k # n => k + 1 \in 0..n
      BY <1>1
    <2> QED BY <1>1, <2>1, <2>2
  <1> HIDE DEF n
  <1>3. ASSUME U # {} PROVE FALSE
    <2>1. PICK k \in U : \A y \in U : k <= y
      <3>1. U \subseteq Nat
        BY <1>1
      <3> HIDE DEF U
      <3> QED BY <1>3, <3>1, SmallestExists
    <2>2. k \in 0..n /\ ~(k <= Before(vs, k))
      BY <2>1
    <2>3. k # 0
      BY <1>1, <2>2
    <2> DEFINE h == k - 1
    <2>4. h \in 0..n /\ h # n /\ h + 1 = k /\ ~(k <= h)
      BY <1>1, <2>2, <2>3
    <2>5. h <= Before(vs, h)
      BY <2>1, <2>4
    <2> HIDE DEF h
    <2>6. Before(vs, k) >= Before(vs, h) + 1
      BY <1>2, <2>4
    <2> QED BY <1>1, <2>2, <2>4, <2>5, <2>6
  <1> QED BY <1>3 DEF n

LEMMA ElemThere ==
  ASSUME NEW vs \in Seq(Values), NEW bs, NEW q, There(bs, q, Stream(vs)), NEW k \in 0..Len(vs), k # Len(vs)
  PROVE  /\ There(bs, q + Before(vs, k), Enc(vs[k + 1])) /\ vs[k + 1] \in Values
         /\ Before(vs, k + 1) = Before(vs, k) + Len(Enc(vs[k + 1])) /\ Before(vs, k) \in Nat
         /\ bs[q + Before(vs, k) + 1] # Break
  <1> DEFINE e == Enc(vs[k + 1])  x == Before(vs, k)  z == Before(vs, k + 1)  S == Stream(vs)
  <1>1. bs \in Seq(Byte) /\ q \in Nat /\ Len(bs) \in Nat /\ Len(S) \in Nat /\ q + Len(S) <= Len(bs) /\ Cut(bs, q, S)
    BY ThereTyped
  <1>2. e \in Seq(Byte) /\ z = x + Len(e)
    BY StreamStep
  <1>3. k + 1 \in 1..Len(vs) /\ k + 1 \in 0..Len(vs)
    BY LenProperties
  <1>4. vs[k + 1] \in Values
    BY <1>3, ElementOfSeq
  <1>5. x \in 0..Len(S) /\ z \in 0..Len(S)
    BY <1>3, UptoIsPart
  <1>6. Good(e)
    BY <1>4, EncGood
  <1>7. Cut(bs, q + x, e)
    <2>1. q + x <= Len(bs)
      BY <1>1, <1>5
    <2> QED BY <1>1, <2>1, CutEvent
  <1> HIDE DEF x, z, S, e
  <1> DEFINE a == q + x
  <1>8. Len(e) \in Nat \ {0} /\ e \in Seq(Byte) /\ e[1] # Break
    BY <1>6 DEF Good
  <1>9. a \in Nat /\ a + Len(e) <= Len(bs)
    BY <1>1, <1>2, <1>5, <1>8
  <1>10. \A c \in 1..Len(e) : bs[a + c] = e[c]
    <2>1. \A c \in 1..Len(e) : a + c <= Len(bs) => bs[a + c] = e[c]
      BY <1>7 DEF Cut
    <2> HIDE DEF a
    <2>2. \A c \in 1..Len(e) : a + c <= Len(bs)
      BY <1>1, <1>8, <1>9
    <2> QED BY <2>1, <2>2
  <1>11. There(bs, a, e)
    BY <1>1, <1>8, <1>9, <1>10 DEF There
  <1>12. bs[a + 1] = e[1]
    BY <1>8, <1>10
  <1>13. x \in Nat
    BY <1>5
  <1> QED BY <1>2, <1>4, <1>8, <1>11, <1>12, <1>13 DEF x, z, S, e

-----------------------------------------------------------------------------
(* What a call of Rewrite gives for a value of some level: the tree that   *)
(* is meant when no rule is for it, else what the rule says of its pair.   *)
Rewrote(rules, bs, d, v, ps, p, ks, key, tags, x) ==
  LET out == Rewrite(rules, bs)[d + 1][<<x, ps, ks, p + 1>>]
      by == RuleAt(rules, d, v, ps)
      tree == RuledTree(rules, d, v, ps)
      end == p + 1 + Len(Enc(v))
  IN
  /\ by = << >> /\ IsKept(rules, d, v, ps) =>
       tree \in Layer[d] /\ out = [b |-> x \o (HeldBytes(ks, key, tags) \o Enc(tree)), i |-> end]
  /\ by # << >> /\ ks # 0 /\ RuleFits(by[1], key) =>
       out = [b |-> IF by[1].remove THEN x ELSE x \o (Enc(NewName(by[1], key)) \o (tags \o Enc(v))), i |-> end]

RewriteLevel(rules, d) ==
  \A bs, v, ps, p, ks, key, tags, x :
    v \in Layer[d] /\ Site(bs, v, ps, p, ks, key, tags, x) => Rewrote(rules, bs, d, v, ps, p, ks, key, tags, x)

LEMMA LayerInside ==
  ASSUME NEW d \in 0..MaxDepth, NEW v \in Layer[d]
  PROVE  /\ v \in Values /\ Scalars \subseteq Layer[d]
         /\ d # 0 => /\ d - 1 \in 0..MaxDepth /\ (d - 1) + 1 = d
                     /\ Layer[d] = Over(Layer[d - 1]) /\ Layer[d - 1] \subseteq Values
         /\ \/ v \in Scalars
            \/ d # 0 /\ v.k = "label" /\ v = Tagged(v.v) /\ v.v \in Layer[d - 1]
            \/ /\ d # 0 /\ v \in [k : {"array", "map"}, vs : Seq(Layer[d - 1]), open : BOOLEAN]
               /\ v.k = "map" => Len(v.vs) % 2 = 0
  <1>1. v \in Values
    BY LayersNest
  <1>2. CASE d = 0
    BY <1>1, <1>2, LayerIs
  <1>3. CASE d # 0
    <2> DEFINE L1 == Layer[d - 1]
    <2>1. d - 1 \in 0..MaxDepth /\ (d - 1) + 1 = d
      BY <1>3, DepthAssumption
    <2>2. Layer[d] = Over(L1) /\ L1 \subseteq Values
      BY <1>3, <2>1, LayerIs, LayersNest
    <2>3. Scalars \subseteq Over(L1)
      BY OverGrows
    <2> HIDE DEF L1
    <2>4. \/ v \in Scalars
          \/ v \in [k : {"label"}, v : L1]
          \/ /\ v \in [k : {"array", "map"}, vs : Seq(L1), open : BOOLEAN]
             /\ v.k = "map" => Len(v.vs) % 2 = 0
      <3>1. v \in Over(L1)
        BY <2>2
      <3> QED BY <3>1 DEF Over
    <2>5. ASSUME v \in [k : {"label"}, v : L1] PROVE v.k = "label" /\ v = Tagged(v.v) /\ v.v \in L1
      BY <2>5 DEF Tagged
    <2> QED BY <1>1, <1>3, <2>1, <2>2, <2>3, <2>4, <2>5 DEF L1
  <1> QED BY <1>2, <1>3

LEMMA RuledCase ==
  ASSUME NEW rules, NEW d \in 0..MaxDepth, NEW v \in Layer[d], NEW bs, NEW ps, NEW p, NEW ks, NEW key, NEW tags,
         NEW x, Site(bs, v, ps, p, ks, key, tags, x), ps \in DOMAIN rules
  PROVE  Rewrote(rules, bs, d, v, ps, p, ks, key, tags, x)
  <1> DEFINE out == Rewrite(rules, bs)[d + 1][<<x, ps, ks, p + 1>>]  rule == rules[ps]  by == RuleAt(rules, d, v, ps)
             end == p + 1 + Len(Enc(v))
  <1>1. v \in Values
    BY LayerInside
  <1>2. ps \in Paths /\ x \in Seq(Byte) /\ ks \in Nat /\ p \in Nat /\ tags \in Seq(Byte)
    BY ThereTyped DEF Site, Held
  <1>3. by = <<rule>>
    <2>1. Fitting(rules, <<v, ps>>) = <<rule>>
      BY DEF Fitting
    <2>2. <<rule>> # << >>
      OBVIOUS
    <2>3. RuleStep(Rulings(rules)[d - 1], rules, <<v, ps>>) = <<rule>>
      BY <2>1, <2>2 DEF RuleStep
    <2> QED BY <1>1, <1>2, <2>1, <2>3, RulingIs
  <1>4. by # << >> /\ by[1] = rule
    BY <1>3
  <1>5. out = RewriteStep(Rewrite(rules, bs)[d], rules, bs, x, ps, ks, p + 1)
    <2>1. Called(rules, bs, d, ps, p, ks, x)
      BY SiteCalled
    <2> QED BY <2>1, Zenon DEF Called
  <1>6. ASSUME ks # 0, RuleFits(rule, key)
        PROVE  out = [b |-> IF rule.remove THEN x ELSE x \o (Enc(NewName(rule, key)) \o (tags \o Enc(v))), i |-> end]
    <2> DEFINE e == Enc(v)  k == Enc(NewName(rule, key))
    <2>1. out = [b |-> IF rule.remove THEN x ELSE (x \o (k \o tags)) \o e, i |-> end]
      <3>1. RewriteStep(Rewrite(rules, bs)[d], rules, bs, x, ps, ks, p + 1) =
              [b |-> IF rule.remove THEN x ELSE (x \o (k \o tags)) \o e, i |-> end]
        <4>1. RuleDone(Rewrite(rules, bs)[d], rules, bs, v, ps, p, ks, key, tags, x)
          BY <1>1, <1>6, RuleApplied
        <4> QED BY <4>1, Zenon DEF RuleDone
      <3> QED BY <1>5, <3>1, Zenon
    <2>2. e \in Seq(Byte)
      BY <1>1, EncGood DEF Good
    <2>3. CASE rule.remove
      BY <2>1, <2>3
    <2>4. CASE ~rule.remove
      <3>1. k \in Seq(Byte)
        BY <1>6, <2>4, EncGood DEF Good, RuleFits
      <3> DEFINE kt == k \o tags
      <3>2. ThreeBytes(k, tags, e)
        BY <1>2, <2>2, <3>1 DEF ThreeBytes
      <3> HIDE DEF k, e, out, end
      <3>3. kt \o e = k \o (tags \o e) /\ kt \in Seq(Byte)
        BY <3>2, Regrouped
      <3>4. ThreeBytes(x, kt, e)
        BY <1>2, <2>2, <3>3 DEF ThreeBytes
      <3> HIDE DEF kt
      <3>5. (x \o kt) \o e = x \o (kt \o e)
        BY <3>4, Regrouped
      <3>6. out = [b |-> (x \o kt) \o e, i |-> end]
        BY <2>1, <2>4 DEF kt
      <3>7. out = [b |-> x \o (k \o (tags \o e)), i |-> end]
        BY <3>3, <3>5, <3>6
      <3> QED BY <2>4, <3>7 DEF k, e
    <2> QED BY <2>3, <2>4
  <1> HIDE DEF out, end, rule, by
  <1>7. by # << >> /\ ks # 0 /\ RuleFits(by[1], key) =>
          out = [b |-> IF by[1].remove THEN x ELSE x \o (Enc(NewName(by[1], key)) \o (tags \o Enc(v))), i |-> end]
    BY <1>4, <1>6
  <1> QED BY <1>4, <1>7 DEF Rewrote, out, end, by

LEMMA FreeIs ==
  ASSUME NEW rules, NEW d \in 0..MaxDepth, NEW v \in Values, v.k # "label", NEW ps \in Paths, ps \notin DOMAIN rules
  PROVE  RuleAt(rules, d, v, ps) = << >>
  <1>1. Fitting(rules, <<v, ps>>) = << >>
    BY DEF Fitting
  <1>2. <<v, ps>>[1].k # "label"
    OBVIOUS
  <1>3. RuleStep(Rulings(rules)[d - 1], rules, <<v, ps>>) = << >>
    BY <1>1, <1>2 DEF RuleStep
  <1> QED BY <1>1, <1>3, RulingIs

LEMMA ScalarCase ==
  ASSUME NEW rules, NEW d \in 0..MaxDepth, NEW v \in Layer[d], v \in Scalars,
         NEW bs, NEW ps, NEW p, NEW ks, NEW key, NEW tags, NEW x,
         Site(bs, v, ps, p, ks, key, tags, x), ps \notin DOMAIN rules
  PROVE  Rewrote(rules, bs, d, v, ps, p, ks, key, tags, x)
  <1> DEFINE out == Rewrite(rules, bs)[d + 1][<<x, ps, ks, p + 1>>]  end == p + 1 + Len(Enc(v))
             e == Enc(v)  front == HeldBytes(ks, key, tags)
  <1>1. v \in Values /\ v \in Layer[d] /\ e \in Seq(Byte)
    BY LayerInside, EncGood DEF Good
  <1>2. ps \in Paths /\ x \in Seq(Byte) /\ ks \in Nat /\ p + 1 \in Nat \ {0}
    BY ThereTyped DEF Site, Held
  <1>3. v.k \notin {"label", "array", "map"}
    BY <1>1, ScalarTag
  <1>4. RuleAt(rules, d, v, ps) = << >>
    BY <1>1, <1>2, <1>3, FreeIs
  <1>5. RuledTree(rules, d, v, ps) = v
    <2>1. <<v, ps>>[1] = v
      OBVIOUS
    <2>2. RuledStep(Rulings(rules)[d - 1], <<v, ps>>) = v
      BY <1>3, <2>1 DEF RuledStep
    <2> QED BY <1>1, <1>2, <2>2, RulingIs
  <1>6. out = [b |-> (x \o front) \o e, i |-> end]
    <2>1. out = RewriteStep(Rewrite(rules, bs)[d], rules, bs, x, ps, ks, p + 1)
      <3>1. Called(rules, bs, d, ps, p, ks, x)
        BY SiteCalled
      <3> QED BY <3>1, Zenon DEF Called
    <2>2. RewriteStep(Rewrite(rules, bs)[d], rules, bs, x, ps, ks, p + 1) = [b |-> (x \o front) \o e, i |-> end]
      <3>1. ScalarDone(Rewrite(rules, bs)[d], rules, bs, v, ps, p, ks, key, tags, x)
        BY <1>1, ScalarStep
      <3> QED BY <3>1, Zenon DEF ScalarDone
    <2> QED BY <2>1, <2>2, Zenon
  <1>7. front \in Seq(Byte)
    <2>1. NameKept(bs, ks, p, key, tags, x)
      BY NamedIs
    <2> QED BY <2>1 DEF NameKept
  <1>8. ThreeBytes(x, front, e)
    BY <1>1, <1>2, <1>7 DEF ThreeBytes
  <1> HIDE DEF out, end, e, front
  <1>9. (x \o front) \o e = x \o (front \o e)
    BY <1>8, Regrouped
  <1>10. out = [b |-> x \o (front \o e), i |-> end]
    BY <1>6, <1>9
  <1> QED BY <1>1, <1>4, <1>5, <1>10 DEF Rewrote, out, end, e, front

LEMMA ThereJoin ==
  ASSUME NEW bs, NEW p, NEW e, NEW f, There(bs, p, e), There(bs, p + Len(e), f)
  PROVE  There(bs, p, e \o f) /\ Len(e \o f) = Len(e) + Len(f)
  <1> DEFINE m == Len(e)  n == Len(f)  h == e \o f  q == p + m
  <1>1. bs \in Seq(Byte) /\ e \in Seq(Byte) /\ p \in Nat /\ Len(bs) \in Nat /\ m \in Nat
    BY ThereTyped
  <1>2. f \in Seq(Byte) /\ n \in Nat /\ q + n <= Len(bs)
    BY ThereTyped
  <1>3. /\ h \in Seq(Byte) /\ Len(h) = m + n
        /\ \A k \in 1..m + n : h[k] = IF k <= m THEN e[k] ELSE f[k - m]
    BY <1>1, <1>2, ConcatProperties
  <1>4. (\A c \in 1..m : bs[p + c] = e[c]) /\ \A c \in 1..n : bs[q + c] = f[c]
    BY DEF There
  <1> HIDE DEF h, m, n, q
  <1>5. q = p + m
    BY DEF q, m
  <1>6. ASSUME NEW k \in 1..m + n PROVE bs[p + k] = h[k]
    <2>1. CASE k <= m
      <3>1. k \in 1..m
        BY <1>1, <1>2, <2>1
      <3> QED BY <1>3, <1>4, <2>1, <3>1
    <2>2. CASE ~(k <= m)
      <3> DEFINE c == k - m
      <3>1. c \in 1..n /\ q + c = p + k
        BY <1>1, <1>2, <1>5, <2>2
      <3>2. h[k] = f[c]
        BY <1>3, <2>2
      <3> HIDE DEF c
      <3> QED BY <1>4, <3>1, <3>2
    <2> QED BY <2>1, <2>2
  <1>7. p + (m + n) <= Len(bs)
    BY <1>1, <1>2, <1>5
  <1>8. There(bs, p, h)
    BY <1>1, <1>3, <1>6, <1>7 DEF There
  <1> QED BY <1>3, <1>8 DEF h, m, n

LEMMA LabelSite ==
  ASSUME NEW bs, NEW u, Tagged(u) \in Values, NEW ps, NEW p, NEW ks, NEW key, NEW tags, NEW x,
         Site(bs, Tagged(u), ps, p, ks, key, tags, x)
  PROVE  /\ Site(bs, u, Append(ps, Size("label", 1)), p + 1, ks, key, tags \o Size("label", 1), x)
         /\ Len(Enc(Tagged(u))) = 1 + Len(Enc(u)) /\ Len(Enc(u)) \in Nat
         /\ ks # 0 /\ ThreeBytes(Enc(key), tags, Size("label", 1))
  <1> DEFINE mark == Size("label", 1)  e == Enc(u)  k == Enc(key)  kt == k \o tags  q == ks - 1
  <1>1. /\ There(bs, p, Enc(Tagged(u))) /\ Held(bs, ks, p, key, tags) /\ ps \in Paths /\ x \in Seq(Byte)
        /\ ks # 0
    BY DEF Site, Tagged
  <1>2. Enc(Tagged(u)) = mark \o e /\ u \in Values
    BY LabelInside
  <1>3. e \in Seq(Byte) /\ mark \in Seq(Byte) /\ Len(mark) = 1
    BY <1>2, EncGood, LabelIs DEF Good
  <1>4. There(bs, p, mark) /\ There(bs, p + 1, e) /\ Len(mark \o e) = 1 + Len(e) /\ Len(e) \in Nat
    <2>1. There(bs, p, mark \o e)
      BY <1>1, <1>2
    <2> HIDE DEF mark, e
    <2>2. There(bs, p, mark) /\ There(bs, p + Len(mark), e)
      BY <1>3, <2>1, ThereSplit
    <2>3. Len(mark \o e) = Len(mark) + Len(e)
      BY <1>3, ConcatProperties
    <2> QED BY <1>3, <2>2, <2>3, LenProperties
  <1>5. /\ ks \in Nat /\ tags \in Seq(Byte) /\ key \in Values
        /\ There(bs, q, kt) /\ q + Len(kt) = p
    BY <1>1 DEF Held
  <1>6. k \in Seq(Byte)
    BY <1>5, EncGood DEF Good
  <1>7. ThreeBytes(k, tags, mark)
    BY <1>3, <1>5, <1>6 DEF ThreeBytes
  <1> HIDE DEF mark, e, k
  <1>8. kt \o mark = k \o (tags \o mark)
    BY <1>7, Regrouped
  <1>9. tags \o mark \in Seq(Byte)
    BY <1>3, <1>5, ConcatProperties
  <1> HIDE DEF kt, q
  <1>10. There(bs, q, kt \o mark) /\ Len(kt \o mark) = Len(kt) + Len(mark)
    BY <1>4, <1>5, ThereJoin
  <1>11. q + Len(kt \o mark) = p + 1
    <2>1. q \in Nat /\ Len(kt) \in Nat
      BY <1>5, ThereTyped
    <2> QED BY <1>3, <1>5, <1>10, <2>1
  <1>12. Held(bs, ks, p + 1, key, tags \o mark)
    <2>1. There(bs, q, k \o (tags \o mark)) /\ q + Len(k \o (tags \o mark)) = p + 1
      BY <1>8, <1>10, <1>11
    <2> DEFINE tm == tags \o mark
    <2>2. There(bs, q, k \o tm) /\ q + Len(k \o tm) = p + 1 /\ tm \in Seq(Byte)
      BY <1>9, <2>1
    <2> HIDE DEF tm
    <2>3. Held(bs, ks, p + 1, key, tm)
      BY <1>5, <2>2 DEF Held, q, k
    <2> QED BY <2>3 DEF tm
  <1>13. Append(ps, mark) \in Paths
    BY <1>1, <1>3, AppendProperties DEF Paths
  <1>14. Site(bs, u, Append(ps, mark), p + 1, ks, key, tags \o mark, x)
    BY <1>1, <1>4, <1>12, <1>13 DEF Site, e
  <1> QED BY <1>1, <1>2, <1>4, <1>7, <1>14 DEF mark, e, k

LEMMA LabelCase ==
  ASSUME NEW rules, NEW d \in 0..MaxDepth, d # 0, RewriteLevel(rules, d - 1), NEW u, NEW v, v = Tagged(u),
         v \in Layer[d], u \in Layer[d - 1], NEW bs, NEW ps, NEW p, NEW ks, NEW key, NEW tags, NEW x,
         Site(bs, v, ps, p, ks, key, tags, x), ps \notin DOMAIN rules
  PROVE  Rewrote(rules, bs, d, v, ps, p, ks, key, tags, x)
  <1> DEFINE h == d - 1  mark == Size("label", 1)  qs == Append(ps, mark)  tm == tags \o mark  q == p + 1
             out == Rewrite(rules, bs)[d + 1][<<x, ps, ks, p + 1>>]
             by == RuleAt(rules, h, u, qs)  t == RuledTree(rules, h, u, qs)
             e == Enc(u)  k == Enc(key)  front == HeldBytes(ks, key, tags)
             end == p + 1 + Len(Enc(v))
  <1>1. /\ v \in Values /\ h \in 0..MaxDepth /\ h + 1 = d /\ Layer[d] = Over(Layer[h]) /\ Layer[h] \subseteq Values
        /\ u \in Values
    BY LayerInside
  <1>2. /\ Site(bs, u, qs, q, ks, key, tm, x) /\ Len(Enc(v)) = 1 + Len(e) /\ Len(e) \in Nat /\ ks # 0
        /\ ThreeBytes(k, tags, mark)
    BY <1>1, LabelSite
  <1>3. ps \in Paths /\ x \in Seq(Byte) /\ ks \in Nat /\ q \in Nat \ {0} /\ p \in Nat /\ qs \in Paths
    <2>1. There(bs, p, Enc(v)) /\ Held(bs, ks, p, key, tags) /\ ps \in Paths /\ x \in Seq(Byte)
      BY DEF Site
    <2>2. p \in Nat /\ ks \in Nat
      BY <2>1, ThereTyped DEF Held
    <2> HIDE DEF qs
    <2>3. qs \in Paths
      BY <1>2 DEF Site
    <2> QED BY <2>1, <2>2, <2>3
  <1>4. Rewrote(rules, bs, h, u, qs, q, ks, key, tm, x)
    <2> HIDE DEF h, qs, q, tm
    <2> QED BY <1>2 DEF RewriteLevel, h
  <1>5. out = Rewrite(rules, bs)[h + 1][<<x, qs, ks, q + 1>>]
    <2>1. LabelDone(Rewrite(rules, bs)[d], rules, bs, ps, p, ks, x)
      BY <1>1, LabelStep
    <2>2. out = RewriteStep(Rewrite(rules, bs)[d], rules, bs, x, ps, ks, p + 1)
      <3>1. Called(rules, bs, d, ps, p, ks, x)
        BY SiteCalled
      <3> QED BY <3>1, Zenon DEF Called
    <2>3. p + 2 = q + 1
      BY <1>3
    <2> HIDE DEF out, h, q
    <2>4. out = Rewrite(rules, bs)[d][<<x, qs, ks, p + 2>>]
      BY <2>1, <2>2, Zenon DEF LabelDone
    <2> QED BY <1>1, <2>3, <2>4
  <1>6. q + 1 + Len(e) = end
    BY <1>2, <1>3
  <1>7. Enc(v) = mark \o e
    BY <1>1, LabelInside
  <1>8. /\ RuleAt(rules, d, v, ps) = by /\ RuledTree(rules, d, v, ps) = Tagged(t)
        /\ IsKept(rules, d, v, ps) => IsKept(rules, h, u, qs)
    <2> DEFINE at == <<v, ps>>  below == Rulings(rules)[h]
    <2>1. at[1] = v /\ at[2] = ps /\ v.k = "label" /\ v.v = u
      BY DEF Tagged
    <2>2. Under(at, v.v, mark) = <<u, qs>>
      BY <2>1 DEF Under
    <2>3. Fitting(rules, at) = << >>
      BY <2>1 DEF Fitting
    <2> HIDE DEF at, below, mark, qs
    <2>4. RuleStep(below, rules, at) = below.rule[<<u, qs>>]
      BY <2>1, <2>2, <2>3 DEF RuleStep, mark
    <2>5. RuledStep(below, at) = Tagged(below.tree[<<u, qs>>])
      BY <2>1, <2>2, Zenon DEF RuledStep, mark
    <2>6. KeptStep(below, at) => below.kept[<<u, qs>>]
      BY <2>1, <2>2, Zenon DEF KeptStep, mark
    <2>7. /\ RuleAt(rules, d, v, ps) = RuleStep(below, rules, at) /\ RuledTree(rules, d, v, ps) = RuledStep(below, at)
          /\ IsKept(rules, d, v, ps) => KeptStep(below, at)
      BY <1>1, <1>3, RulingIs DEF at, below
    <2>8. below.kept[<<u, qs>>] => IsKept(rules, h, u, qs)
      BY <1>1, <1>3, KeptTrue DEF below
    <2> HIDE DEF h
    <2> QED BY <2>4, <2>5, <2>6, <2>7, <2>8 DEF RuleAt, RuledTree, below
  <1> HIDE DEF h, qs, q, out, by, t, end
  <1>9. ASSUME by = << >>, IsKept(rules, d, v, ps)
        PROVE  Tagged(t) \in Layer[d] /\ out = [b |-> x \o (front \o Enc(Tagged(t))), i |-> end]
    <2> DEFINE et == Enc(t)  kt == k \o tags
    <2>1. t \in Layer[h] /\ out = [b |-> x \o (HeldBytes(ks, key, tm) \o et), i |-> end]
      BY <1>4, <1>5, <1>6, <1>8, <1>9, Zenon DEF Rewrote, by, t, e
    <2>2. Tagged(t) \in Layer[d] /\ Tagged(t) \in Values /\ t \in Values
      <3>1. Tagged(t) \in [k : {"label"}, v : Layer[h]]
        BY <2>1 DEF Tagged
      <3>2. Tagged(t) \in Layer[d]
        BY <1>1, <3>1 DEF Over
      <3> QED BY <1>1, <2>1, <3>2, LayerInside
    <2>3. Enc(Tagged(t)) = mark \o et /\ et \in Seq(Byte)
      BY <2>2, LabelInside, EncGood DEF Good
    <2>4. HeldBytes(ks, key, tm) = k \o (tags \o mark) /\ front = kt
      BY <1>2 DEF HeldBytes
    <2>5. ThreeBytes(kt, mark, et)
      BY <1>2, <2>3, ConcatProperties DEF ThreeBytes
    <2> HIDE DEF et, mark, k, tm, front
    <2>6. kt \o mark = k \o (tags \o mark)
      BY <1>2, Regrouped
    <2> HIDE DEF kt
    <2>7. (kt \o mark) \o et = kt \o (mark \o et)
      BY <2>5, Regrouped
    <2>8. HeldBytes(ks, key, tm) \o et = front \o Enc(Tagged(t))
      BY <2>3, <2>4, <2>6, <2>7
    <2> QED BY <2>1, <2>2, <2>8
  <1>10. ASSUME by # << >>, RuleFits(by[1], key)
         PROVE  out = [b |-> IF by[1].remove THEN x ELSE x \o (Enc(NewName(by[1], key)) \o (tags \o Enc(v))), i |-> end]
    <2> DEFINE c == Enc(NewName(by[1], key))
    <2>1. out = [b |-> IF by[1].remove THEN x ELSE x \o (c \o (tm \o e)), i |-> end]
      BY <1>2, <1>4, <1>5, <1>6, <1>10, Zenon DEF Rewrote, by, e
    <2>2. ThreeBytes(tags, mark, e)
      BY <1>1, <1>2, EncGood DEF ThreeBytes, Good
    <2> HIDE DEF mark, e
    <2>3. tm \o e = tags \o (mark \o e)
      BY <2>2, Regrouped
    <2> HIDE DEF tm
    <2> QED BY <1>7, <2>1, <2>3
  <1> QED BY <1>8, <1>9, <1>10, Zenon DEF Rewrote, out, end, by, t, front

(* An array or a map: its start, the elements or pairs, its end. *)
PlaceOf(v, p, k) == p + Len(HeadOf(v)) + Before(v.vs, PerCount(v.k, k)) + 1

Laidout(bs, v, p) ==
  /\ There(bs, p, HeadOf(v)) /\ There(bs, p + Len(HeadOf(v)), Stream(v.vs))
  /\ There(bs, p + Len(HeadOf(v)) + Len(Stream(v.vs)), EndOf(v))
  /\ Len(Enc(v)) = Len(HeadOf(v)) + (Len(Stream(v.vs)) + Len(EndOf(v)))

LEMMA BodyThere ==
  ASSUME NEW v \in Values, v.k \in {"array", "map"}, NEW bs, NEW p, There(bs, p, Enc(v))
  PROVE  Laidout(bs, v, p)
  <1> DEFINE hd == HeadOf(v)  s == Stream(v.vs)  e == EndOf(v)  f == s \o e
  <1>1. Enc(v) = hd \o f /\ hd \in Seq(Byte) /\ s \in Seq(Byte) /\ e \in Seq(Byte)
    BY ContainerIs
  <1>2. There(bs, p, hd \o f)
    BY <1>1
  <1> HIDE DEF hd, s, e
  <1>3. f \in Seq(Byte) /\ Len(f) = Len(s) + Len(e)
    BY <1>1, ConcatProperties
  <1> HIDE DEF f
  <1>4. There(bs, p, hd) /\ There(bs, p + Len(hd), f) /\ Len(hd \o f) = Len(hd) + Len(f)
    <2>1. Len(hd \o f) = Len(hd) + Len(f)
      BY <1>1, <1>3, ConcatProperties
    <2> QED BY <1>1, <1>2, <1>3, <2>1, ThereSplit
  <1> DEFINE q == p + Len(hd)
  <1>5. There(bs, q, s \o e)
    BY <1>4 DEF f
  <1> HIDE DEF q
  <1>6. There(bs, q, s) /\ There(bs, q + Len(s), e)
    BY <1>1, <1>5, ThereSplit
  <1> QED BY <1>1, <1>3, <1>4, <1>6 DEF Laidout, q, hd, s, e

LEMMA CountIs ==
  ASSUME NEW v \in Values, v.k \in {"array", "map"}
  PROVE  /\ Count(v) \in Nat /\ Len(v.vs) \in Nat /\ PerCount(v.k, Count(v)) = Len(v.vs) /\ PerCount(v.k, 0) = 0
         /\ \A k \in 0..Count(v) : PerCount(v.k, k) \in 0..Len(v.vs)
         /\ \A k \in 1..Count(v) : PerCount(v.k, k - 1) \in 0..Len(v.vs) /\ PerCount(v.k, k - 1) # Len(v.vs)
  <1> DEFINE n == Len(v.vs)  c == Count(v)
  <1>1. c \in Nat /\ n \in Nat
    BY ElementsInside
  <1>2. CASE v.k = "map"
    <2>1. n % 2 = 0
      BY <1>2, ValueInside DEF Scalars
    <2>2. c = n \div 2
      BY <1>2 DEF Count
    <2> HIDE DEF c, n
    <2>3. c + c = n
      BY <1>1, <2>1, <2>2
    <2>4. \A k : PerCount(v.k, k) = k + k
      BY <1>2 DEF PerCount
    <2> QED BY <1>1, <2>3, <2>4 DEF c, n
  <1>3. CASE v.k # "map"
    <2>1. c = n
      BY <1>3 DEF Count
    <2>2. \A k : PerCount(v.k, k) = k
      BY <1>3 DEF PerCount
    <2> HIDE DEF c, n
    <2> QED BY <1>1, <2>1, <2>2 DEF c, n
  <1> QED BY <1>2, <1>3

(* What each element or pair becomes, and the value with these. *)
Refilled(calls, bs, v, ps, p, E) ==
  /\ E \in [1..Count(v) -> Seq(Byte)]
  /\ \A k \in 1..Count(v), z \in Seq(Byte) :
       Element(calls, [b |-> z, i |-> PlaceOf(v, p, k - 1)], bs, ps, v.k) = [b |-> z \o E[k], i |-> PlaceOf(v, p, k)]
Alike(tree, v, E) ==
  /\ tree \in Values /\ tree.k = v.k /\ HeadOf(tree) = HeadOf(v) /\ EndOf(tree) = EndOf(v)
  /\ Stream(tree.vs) = FlattenSeq(E)

LEMMA LoopOver ==
  ASSUME NEW calls, NEW bs, NEW v \in Values, v.k \in {"array", "map"}, NEW ps, NEW p, There(bs, p, Enc(v)),
         NEW E, Refilled(calls, bs, v, ps, p, E)
  PROVE  LoopGives(calls, bs, ps, v.k, IF v.open THEN -1 ELSE Count(v), Count(v), E,
                   [k \in 0..Count(v) |-> PlaceOf(v, p, k)])
  <1> DEFINE m == Count(v)  n == IF v.open THEN -1 ELSE m  pos == [k \in 0..m |-> PlaceOf(v, p, k)]
             vs == v.vs  q == p + Len(HeadOf(v))  s == Stream(vs)  h(k) == PerCount(v.k, k)
  <1>1. Laidout(bs, v, p)
    BY BodyThere
  <1>2. There(bs, q, s) /\ There(bs, q + Len(s), EndOf(v))
    BY <1>1 DEF Laidout
  <1>3. bs \in Seq(Byte) /\ q \in Nat /\ Len(bs) \in Nat /\ Len(s) \in Nat /\ q + Len(s) <= Len(bs)
    BY <1>2, ThereTyped
  <1>4. m \in Nat /\ vs \in Seq(Values) /\ v.open \in BOOLEAN /\ n \in Int
    <2>1. m \in Nat /\ vs \in Seq(Values) /\ v.open \in BOOLEAN
      BY ElementsInside
    <2> HIDE DEF m
    <2> QED BY <2>1
  <1>5. /\ h(m) = Len(vs) /\ \A k \in 0..m : h(k) \in 0..Len(vs)
        /\ \A k \in 1..m : h(k - 1) \in 0..Len(vs) /\ h(k - 1) # Len(vs)
    BY CountIs
  <1>6. \A k \in 0..m : pos[k] = q + Before(vs, h(k)) + 1
    BY DEF PlaceOf
  <1>7. \A k \in 0..m : pos[k] \in Nat \ {0}
    <2> TAKE k \in 0..m
    <2>1. Before(vs, h(k)) \in Nat
      BY <1>4, <1>5, FirstEvents
    <2> HIDE DEF pos, q
    <2> QED BY <1>3, <1>6, <2>1
  <1>8. m <= Len(bs)
    <2>1. Len(vs) <= Before(vs, Len(vs)) /\ Before(vs, Len(vs)) = Len(s) /\ Len(vs) \in Nat
      BY <1>4, BeforeLeast, StreamWhole, LenProperties
    <2>2. m <= Len(vs)
      BY CountFits
    <2> HIDE DEF m, q, s
    <2> QED BY <1>3, <1>4, <2>1, <2>2
  <1>9. ASSUME NEW k \in 1..m PROVE bs[pos[k - 1]] # Break
    <2> DEFINE j == h(k - 1)
    <2>1. j \in 0..Len(vs) /\ j # Len(vs) /\ k - 1 \in 0..m
      BY <1>4, <1>5
    <2> HIDE DEF j, q
    <2>2. bs[q + Before(vs, j) + 1] # Break
      BY <1>2, <1>4, <2>1, ElemThere
    <2> QED BY <1>6, <2>1, <2>2 DEF j
  <1>10. ASSUME v.open PROVE bs[pos[m]] = Break
    <2>1. EndOf(v) = <<Break>>
      BY <1>10 DEF EndOf
    <2> DEFINE one == <<Break>>  a == q + Len(s)
    <2>2. Len(one) = 1 /\ one[1] = Break
      OBVIOUS
    <2>3. There(bs, a, one)
      BY <1>2, <2>1
    <2>4. pos[m] = a + 1
      <3>1. m \in 0..m /\ Before(vs, h(m)) = Len(s)
        BY <1>4, <1>5, StreamWhole
      <3> HIDE DEF pos, q
      <3> QED BY <1>6, <3>1
    <2> HIDE DEF one, a, pos
    <2>5. bs[a + 1] = one[1]
      BY <2>2, <2>3 DEF There
    <2> QED BY <2>2, <2>4, <2>5
  <1>11. ASSUME NEW k \in 1..m, NEW z \in Seq(Byte)
         PROVE  Element(calls, [b |-> z, i |-> pos[k - 1]], bs, ps, v.k) = [b |-> z \o E[k], i |-> pos[k]]
    <2>1. k \in 0..m /\ k - 1 \in 0..m
      BY <1>4
    <2>2. pos[k] = PlaceOf(v, p, k) /\ pos[k - 1] = PlaceOf(v, p, k - 1)
      BY <2>1
    <2> HIDE DEF pos
    <2>3. Element(calls, [b |-> z, i |-> PlaceOf(v, p, k - 1)], bs, ps, v.k) = [b |-> z \o E[k], i |-> PlaceOf(v, p, k)]
      BY DEF Refilled
    <2> QED BY <2>2, <2>3
  <1>12. \A k \in 0..m - 1 : bs[pos[k]] # Break
    <2> TAKE k \in 0..m - 1
    <2>1. k + 1 \in 1..m /\ (k + 1) - 1 = k
      BY <1>4
    <2> HIDE DEF pos
    <2> QED BY <1>9, <2>1
  <1>13. (n >= 0 => n = m) /\ (n < 0 => v.open)
    BY <1>4
  <1>14. E \in [1..m -> Seq(Byte)]
    BY DEF Refilled
  <1> HIDE DEF m, n, pos
  <1>15. LoopGives(calls, bs, ps, v.k, n, m, E, pos)
    BY <1>3, <1>4, <1>7, <1>8, <1>10, <1>11, <1>12, <1>13, <1>14 DEF LoopGives
  <1> QED BY <1>15 DEF m, n, pos

Copied(calls, rules, bs, v, ps, p, ks, key, tags, x, tree) ==
  RewriteStep(calls, rules, bs, x, ps, ks, p + 1) =
    [b |-> x \o (HeldBytes(ks, key, tags) \o Enc(tree)), i |-> p + 1 + Len(Enc(v))]

LEMMA ContainerCopied ==
  ASSUME NEW calls, NEW rules, NEW bs, NEW v \in Values, v.k \in {"array", "map"}, NEW ps, ps \notin DOMAIN rules,
         NEW p, NEW ks, NEW key, NEW tags, NEW x, Site(bs, v, ps, p, ks, key, tags, x),
         NEW E, Refilled(calls, bs, v, ps, p, E), NEW tree, Alike(tree, v, E)
  PROVE  Copied(calls, rules, bs, v, ps, p, ks, key, tags, x, tree)
  <1> DEFINE m == Count(v)  n == IF v.open THEN -1 ELSE m  pos == [k \in 0..m |-> PlaceOf(v, p, k)]
             hd == HeadOf(v)  s == Stream(v.vs)  front == HeldBytes(ks, key, tags)  xf == x \o front  y == xf \o hd
             all == FlattenSeq(E)  e == EndOf(v)  end == p + 1 + Len(Enc(v))
             out == RewriteStep(calls, rules, bs, x, ps, ks, p + 1)
  <1>1. There(bs, p, Enc(v)) /\ x \in Seq(Byte)
    BY DEF Site
  <1>2. Laidout(bs, v, p) /\ p \in Nat
    BY <1>1, BodyThere, ThereTyped
  <1>3. LoopGives(calls, bs, ps, v.k, n, m, E, pos)
    BY <1>1, LoopOver
  <1>4. front \in Seq(Byte) /\ hd \in Seq(Byte) /\ e \in Seq(Byte) /\ v.open \in BOOLEAN /\ v.vs \in Seq(Values)
    <2>1. NameKept(bs, ks, p, key, tags, x)
      BY NamedIs
    <2> QED BY <2>1, ContainerIs DEF NameKept
  <1>5. pos[0] = p + 1 + Len(hd) /\ pos[m] = p + 1 + Len(hd) + Len(s) /\ Len(hd) \in Nat /\ Len(s) \in Nat
    <2>1. m \in Nat /\ PerCount(v.k, 0) = 0 /\ PerCount(v.k, m) = Len(v.vs)
      BY CountIs
    <2>2. Before(v.vs, 0) = 0 /\ Before(v.vs, Len(v.vs)) = Len(s) /\ Len(s) \in Nat
      BY <1>4, StreamWhole, StreamTyped
    <2>3. pos[0] = p + Len(hd) + 0 + 1 /\ pos[m] = p + Len(hd) + Len(s) + 1
      <3>1. 0 \in 0..m /\ m \in 0..m
        BY <2>1
      <3>2. PlaceOf(v, p, 0) = p + Len(hd) + 0 + 1
        BY <2>1, <2>2 DEF PlaceOf
      <3>3. PlaceOf(v, p, m) = p + Len(hd) + Len(s) + 1
        BY <2>1, <2>2 DEF PlaceOf
      <3> HIDE DEF m, hd, s
      <3> QED BY <3>1, <3>2, <3>3
    <2>4. Len(hd) \in Nat
      BY <1>4, LenProperties
    <2> HIDE DEF pos, hd, s, m
    <2> QED BY <1>2, <2>2, <2>3, <2>4
  <1>6. out = Elements(calls, [b |-> y, i |-> p + 1 + Len(hd)], bs, ps, v.k, n)
    <2>1. ContainerDone(calls, rules, bs, v, ps, p, ks, key, tags, x)
      BY ContainerStep
    <2> QED BY <2>1, Zenon DEF ContainerDone
  <1>7. Enc(tree) = hd \o (all \o e) /\ Len(Enc(v)) = Len(hd) + (Len(s) + Len(e))
    <2>1. /\ tree \in Values /\ tree.k \in {"array", "map"} /\ HeadOf(tree) = hd /\ EndOf(tree) = e
          /\ Stream(tree.vs) = all
      BY DEF Alike
    <2>2. Enc(tree) = HeadOf(tree) \o (Stream(tree.vs) \o EndOf(tree))
      BY <2>1, ContainerIs
    <2> HIDE DEF hd, e, all, s
    <2>3. Enc(tree) = hd \o (all \o e)
      BY <2>1, <2>2
    <2> QED BY <1>2, <2>3 DEF Laidout, hd, e, s
  <1>8. n < 0 <=> v.open
    BY <1>4, CountIs
  <1>9. e = IF v.open THEN <<Break>> ELSE << >>
    BY DEF EndOf
  <1> HIDE DEF m, n, pos, hd, s, front, e, out, all
  <1>10. xf \in Seq(Byte) /\ y \in Seq(Byte)
    <2>1. ThreeBytes(x, front, hd)
      BY <1>1, <1>4 DEF ThreeBytes
    <2>2. xf \in Seq(Byte)
      BY <2>1, Regrouped
    <2> HIDE DEF xf
    <2> QED BY <1>4, <2>2, ConcatProperties
  <1> HIDE DEF y
  <1>11. /\ Elements(calls, [b |-> y, i |-> pos[0]], bs, ps, v.k, n) =
              IF n < 0 THEN [b |-> (y \o all) \o <<Break>>, i |-> pos[m] + 1] ELSE [b |-> y \o all, i |-> pos[m]]
         /\ all \in Seq(Byte)
    BY <1>3, <1>10, LoopAdds DEF all
  <1>12. out = [b |-> (y \o all) \o e, i |-> end]
    <2>1. out = IF n < 0 THEN [b |-> (y \o all) \o <<Break>>, i |-> pos[m] + 1] ELSE [b |-> y \o all, i |-> pos[m]]
      BY <1>5, <1>6, <1>11
    <2>2. CASE v.open
      <3>1. e = <<Break>> /\ Len(e) = 1
        BY <1>9, <2>2
      <3>2. end = pos[m] + 1
        BY <1>2, <1>5, <1>7, <3>1
      <3> QED BY <1>8, <2>1, <2>2, <3>1, <3>2
    <2>3. CASE ~v.open
      <3> DEFINE ya == y \o all
      <3>1. ya \in Seq(Byte)
        BY <1>10, <1>11, ConcatProperties
      <3>2. e = << >> /\ Len(e) = 0
        BY <1>9, <2>3
      <3>3. end = pos[m]
        BY <1>2, <1>5, <1>7, <3>2
      <3> HIDE DEF ya
      <3>4. ya \o << >> = ya
        BY <3>1, ConcatEmptySeq
      <3> QED BY <1>8, <2>1, <2>3, <3>2, <3>3, <3>4 DEF ya
    <2> QED BY <1>4, <2>2, <2>3
  <1>13. (y \o all) \o e = x \o (front \o (hd \o (all \o e)))
    <2>1. ThreeBytes(y, all, e)
      BY <1>4, <1>10, <1>11 DEF ThreeBytes
    <2> DEFINE ae == all \o e  hae == hd \o ae
    <2>2. (y \o all) \o e = y \o ae
      BY <2>1, Regrouped
    <2>3. ae \in Seq(Byte)
      BY <1>4, <1>11, ConcatProperties
    <2> HIDE DEF ae
    <2>4. ThreeBytes(xf, hd, ae)
      BY <1>4, <1>10, <2>3 DEF ThreeBytes
    <2>5. (xf \o hd) \o ae = xf \o hae
      <3> HIDE DEF xf
      <3> QED BY <2>4, Regrouped
    <2>6. hae \in Seq(Byte)
      BY <1>4, <2>3, ConcatProperties
    <2> HIDE DEF hae
    <2>7. ThreeBytes(x, front, hae)
      BY <1>1, <1>4, <2>6 DEF ThreeBytes
    <2>8. xf \o hae = x \o (front \o hae)
      BY <2>7, Regrouped
    <2> QED BY <2>2, <2>5, <2>8 DEF y, ae, hae
  <1> HIDE DEF xf, end
  <1>14. out = [b |-> x \o (front \o Enc(tree)), i |-> end]
    BY <1>7, <1>12, <1>13
  <1> QED BY <1>14, Zenon DEF Copied, out, front, end

(* An array, whose elements have neither a rule nor label tags. *)
ArrayTree(rules, d, v, ps) == [v EXCEPT !.vs = [j \in 1..Len(v.vs) |-> RuledTree(rules, d, v.vs[j], ps)]]

LEMMA ArrayRuled ==
  ASSUME NEW rules, NEW d \in 0..MaxDepth, d # 0, NEW v \in Values, v.k = "array", NEW ps \in Paths
  PROVE  /\ RuledTree(rules, d, v, ps) = ArrayTree(rules, d - 1, v, Append(ps, ArrayMark))
         /\ IsKept(rules, d, v, ps) => \A j \in 1..Len(v.vs) :
              /\ v.vs[j].k # "label" /\ RuleAt(rules, d - 1, v.vs[j], Append(ps, ArrayMark)) = << >>
              /\ Rulings(rules)[d - 1].kept[<<v.vs[j], Append(ps, ArrayMark)>>]
  <1> DEFINE h == d - 1  at == <<v, ps>>  below == Rulings(rules)[h]  qs == Append(ps, ArrayMark)  n == Len(v.vs)
             ts == [j \in 1..n |-> RuledTree(rules, h, v.vs[j], qs)]
  <1>1. at[1] = v /\ at[2] = ps
    OBVIOUS
  <1>2. DOMAIN v.vs = 1..n
    BY ElementsInside, LenProperties
  <1>3. \A j : Under(at, v.vs[j], ArrayMark) = <<v.vs[j], qs>>
    BY <1>1 DEF Under
  <1>4. /\ RuledTree(rules, d, v, ps) = RuledStep(below, at)
        /\ IsKept(rules, d, v, ps) => KeptStep(below, at)
    BY RulingIs
  <1>5. RuledStep(below, at) = [v EXCEPT !.vs = [j \in DOMAIN v.vs |-> below.tree[Under(at, v.vs[j], ArrayMark)]]]
    <2> HIDE DEF at, below
    <2> QED BY <1>1 DEF RuledStep
  <1>6. KeptStep(below, at) => \A j \in DOMAIN v.vs :
          /\ v.vs[j].k # "label" /\ below.rule[Under(at, v.vs[j], ArrayMark)] = << >>
          /\ below.kept[Under(at, v.vs[j], ArrayMark)]
    <2> HIDE DEF at, below
    <2> QED BY <1>1 DEF KeptStep
  <1> HIDE DEF n, at
  <1>7. RuledStep(below, at) = [v EXCEPT !.vs = ts]
    <2>1. [j \in DOMAIN v.vs |-> below.tree[Under(at, v.vs[j], ArrayMark)]] = ts
      BY <1>2, <1>3 DEF RuledTree
    <2> QED BY <1>5, <2>1
  <1>8. KeptStep(below, at) => \A j \in 1..n :
          v.vs[j].k # "label" /\ RuleAt(rules, h, v.vs[j], qs) = << >> /\ below.kept[<<v.vs[j], qs>>]
    BY <1>2, <1>3, <1>6, Zenon DEF RuleAt
  <1>9. [v EXCEPT !.vs = ts] = ArrayTree(rules, h, v, qs)
    BY DEF ArrayTree, n
  <1> HIDE DEF ts
  <1> QED BY <1>4, <1>7, <1>8, <1>9 DEF n

ElementAdds(rules, bs, d, at, path, tag, e, next) ==
  Element(Rewrite(rules, bs)[d], at, bs, path, tag) = [b |-> at.b \o e, i |-> next]

LEMMA ArrayElement ==
  ASSUME NEW rules, NEW d \in 0..MaxDepth, d # 0, RewriteLevel(rules, d - 1), NEW v \in Layer[d], v.k = "array",
         NEW bs, NEW ps \in Paths, NEW p, There(bs, p, Enc(v)), IsKept(rules, d, v, ps),
         NEW j \in 1..Len(v.vs), NEW z \in Seq(Byte)
  PROVE  LET t == RuledTree(rules, d - 1, v.vs[j], Append(ps, ArrayMark)) IN
         /\ t \in Layer[d - 1]
         /\ ElementAdds(rules, bs, d, [b |-> z, i |-> PlaceOf(v, p, j - 1)], ps, v.k, Enc(t), PlaceOf(v, p, j))
  <1> DEFINE h == d - 1  qs == Append(ps, ArrayMark)  n == Len(v.vs)  u == v.vs[j]  t == RuledTree(rules, h, u, qs)
             k == j - 1  q == p + Len(HeadOf(v))  a == q + Before(v.vs, k)
             out == Rewrite(rules, bs)[h + 1][<<z, qs, 0, a + 1>>]
  <1>1. v \in Values /\ h \in 0..MaxDepth /\ h + 1 = d /\ v.vs \in Seq(Layer[h]) /\ v.vs \in Seq(Values) /\ n \in Nat
    <2>1. v \in Values
      BY LayerInside
    <2>2. h \in 0..MaxDepth /\ h + 1 = d /\ v.vs \in Seq(Layer[h])
      <3>1. v \notin Scalars
        BY <2>1, ScalarTag
      <3> QED BY <3>1, LayerInside
    <2> QED BY <2>1, <2>2, ElementsInside
  <1>2. There(bs, q, Stream(v.vs))
    <2>1. Laidout(bs, v, p)
      BY <1>1, BodyThere
    <2> QED BY <2>1 DEF Laidout
  <1>3. k \in 0..n /\ k # n /\ k + 1 = j
    BY <1>1
  <1>4. /\ There(bs, a, Enc(u)) /\ u \in Values /\ Before(v.vs, j) = Before(v.vs, k) + Len(Enc(u))
        /\ Before(v.vs, k) \in Nat
    <2> HIDE DEF k, n, q
    <2> QED BY <1>1, <1>2, <1>3, ElemThere DEF n
  <1>5. u \in Layer[h]
    BY <1>1, ElementOfSeq
  <1>6. u.k # "label" /\ RuleAt(rules, h, u, qs) = << >> /\ Rulings(rules)[h].kept[<<u, qs>>]
    BY <1>1, ArrayRuled
  <1>7. qs \in Paths /\ << >> \in Seq(Byte)
    <2>1. <<"array", "short", 0>> \in Byte
      BY DEF Byte, Details
    <2>2. ArrayMark \in Seq(Byte)
      BY <2>1 DEF ArrayMark
    <2> QED BY <2>2, AppendProperties DEF Paths
  <1>8. IsKept(rules, h, u, qs)
    BY <1>1, <1>4, <1>6, <1>7, KeptTrue
  <1> HIDE DEF h, qs, u, a, t, out, k, n
  <1>9. Held(bs, 0, a, 0, << >>)
    BY <1>7 DEF Held
  <1>10. Site(bs, u, qs, a, 0, 0, << >>, z)
    BY <1>4, <1>6, <1>7, <1>9 DEF Site
  <1>11. Rewrote(rules, bs, h, u, qs, a, 0, 0, << >>, z)
    BY <1>5, <1>10 DEF RewriteLevel, h
  <1>12. t \in Layer[h] /\ out = [b |-> z \o (HeldBytes(0, 0, << >>) \o Enc(t)), i |-> a + 1 + Len(Enc(u))]
    BY <1>6, <1>8, <1>11, Zenon DEF Rewrote, t, out
  <1>13. HeldBytes(0, 0, << >>) \o Enc(t) = Enc(t)
    <2>1. t \in Values
      BY <1>1, <1>12, LayerInside
    <2>2. Enc(t) \in Seq(Byte)
      BY <2>1, EncGood DEF Good
    <2>3. HeldBytes(0, 0, << >>) = << >>
      BY DEF HeldBytes
    <2> QED BY <2>2, <2>3, ConcatEmptySeq
  <1>14. PlaceOf(v, p, k) = a + 1 /\ PlaceOf(v, p, j) = a + 1 + Len(Enc(u))
    <2>1. PerCount(v.k, k) = k /\ PerCount(v.k, j) = j
      BY DEF PerCount
    <2>2. q \in Nat /\ Len(Enc(u)) \in Nat
      BY <1>2, <1>4, ThereTyped
    <2>3. PlaceOf(v, p, k) = q + Before(v.vs, k) + 1 /\ PlaceOf(v, p, j) = q + Before(v.vs, j) + 1
      BY <2>1 DEF PlaceOf
    <2> HIDE DEF q
    <2> QED BY <1>4, <2>2, <2>3 DEF a
  <1>15. ElementAdds(rules, bs, d, [b |-> z, i |-> PlaceOf(v, p, k)], ps, v.k, Enc(t), PlaceOf(v, p, j))
    <2> DEFINE at == [b |-> z, i |-> a + 1]
    <2>1. Element(Rewrite(rules, bs)[d], at, bs, ps, v.k) = Rewrite(rules, bs)[d][<<at.b, qs, 0, at.i>>]
      BY DEF Element, qs
    <2>2. at.b = z /\ at.i = a + 1
      OBVIOUS
    <2> HIDE DEF at
    <2>3. Element(Rewrite(rules, bs)[d], at, bs, ps, v.k) = out
      BY <1>1, <2>1, <2>2 DEF out
    <2>4. out = [b |-> z \o Enc(t), i |-> PlaceOf(v, p, j)]
      BY <1>12, <1>13, <1>14
    <2> QED BY <1>14, <2>2, <2>3, <2>4 DEF ElementAdds, at
  <1> QED BY <1>12, <1>15 DEF h, t, u, qs, k

LEMMA ArrayCase ==
  ASSUME NEW rules, NEW d \in 0..MaxDepth, d # 0, RewriteLevel(rules, d - 1), NEW v \in Layer[d], v.k = "array",
         NEW bs, NEW ps, NEW p, NEW ks, NEW key, NEW tags, NEW x,
         Site(bs, v, ps, p, ks, key, tags, x), ps \notin DOMAIN rules
  PROVE  Rewrote(rules, bs, d, v, ps, p, ks, key, tags, x)
  <1> DEFINE h == d - 1  qs == Append(ps, ArrayMark)  n == Len(v.vs)  t(j) == RuledTree(rules, h, v.vs[j], qs)
             ts == [j \in 1..n |-> t(j)]  tree == [v EXCEPT !.vs = ts]  E == [j \in 1..n |-> Enc(t(j))]
             out == Rewrite(rules, bs)[d + 1][<<x, ps, ks, p + 1>>]  front == HeldBytes(ks, key, tags)
  <1>1. ps \in Paths /\ x \in Seq(Byte) /\ ks \in Nat /\ p + 1 \in Nat \ {0} /\ There(bs, p, Enc(v))
    BY ThereTyped DEF Site, Held
  <1>2. /\ v \in Values /\ h \in 0..MaxDepth /\ Layer[d] = Over(Layer[h]) /\ Layer[h] \subseteq Values
        /\ v \in [k : {"array", "map"}, vs : Seq(Layer[h]), open : BOOLEAN]
    <2>1. v \in Values
      BY LayerInside
    <2>2. v \notin Scalars
      BY <2>1, ScalarTag
    <2> QED BY <2>1, <2>2, LayerInside
  <1>3. n \in Nat /\ Count(v) = n /\ v.open \in BOOLEAN
    BY <1>2, ElementsInside DEF Count
  <1>4. RuleAt(rules, d, v, ps) = << >>
    BY <1>1, <1>2, FreeIs
  <1>5. RuledTree(rules, d, v, ps) = tree
    <2>1. RuledTree(rules, d, v, ps) = ArrayTree(rules, d - 1, v, Append(ps, ArrayMark))
      <3>1. v \in Values /\ ps \in Paths /\ v.k = "array"
        BY <1>1, <1>2
      <3> QED BY <3>1, ArrayRuled
    <2>2. ArrayTree(rules, h, v, qs) = tree
      BY Zenon DEF ArrayTree
    <2> QED BY <2>1, <2>2, Zenon
  <1>6. ASSUME IsKept(rules, d, v, ps)
        PROVE  tree \in Layer[d] /\ out = [b |-> x \o (front \o Enc(tree)), i |-> p + 1 + Len(Enc(v))]
    <2>1. \A j \in 1..n : t(j) \in Layer[h]
      BY <1>1, <1>6, ArrayElement
    <2>2. \A j \in 1..n, z \in Seq(Byte) :
            ElementAdds(rules, bs, d, [b |-> z, i |-> PlaceOf(v, p, j - 1)], ps, v.k, Enc(t(j)), PlaceOf(v, p, j))
      BY <1>1, <1>6, ArrayElement
    <2>3. ts \in Seq(Layer[h]) /\ Len(ts) = n /\ DOMAIN ts = 1..n
      <3>1. ts \in [1..n -> Layer[h]]
        BY <2>1
      <3> HIDE DEF ts, n
      <3> QED BY <1>3, <3>1, OfLength
    <2>4. \A j \in 1..n : ts[j] = t(j)
      OBVIOUS
    <2>5. \A j \in 1..n : Enc(t(j)) \in Seq(Byte)
      BY <1>2, <2>1, EncGood DEF Good
    <2> HIDE DEF ts, t
    <2>6. /\ tree \in [k : {"array", "map"}, vs : Seq(Layer[h]), open : BOOLEAN]
          /\ tree.k = v.k /\ tree.vs = ts /\ tree.open = v.open
      BY <1>2, <2>3
    <2>7. tree \in Layer[d]
      <3>1. Fits(Len(v.vs), 4)
        BY <1>2, ValueInside DEF Scalars
      <3>2. Fits(Len(tree.vs), 4) /\ tree.k # "map"
        BY <2>3, <2>6, <3>1
      <3> HIDE DEF tree
      <3> QED BY <1>2, <2>6, <3>2 DEF Over
    <2>8. tree \in Values
      BY <2>7, LayerInside
    <2>9. Refilled(Rewrite(rules, bs)[d], bs, v, ps, p, E)
      <3>1. E \in [1..n -> Seq(Byte)] /\ \A j \in 1..n : E[j] = Enc(t(j))
        BY <2>5
      <3> HIDE DEF E
      <3>2. \A j \in 1..n, z \in Seq(Byte) :
              Element(Rewrite(rules, bs)[d], [b |-> z, i |-> PlaceOf(v, p, j - 1)], bs, ps, v.k)
                = [b |-> z \o E[j], i |-> PlaceOf(v, p, j)]
        BY <2>2, <3>1 DEF ElementAdds
      <3> QED BY <1>3, <3>1, <3>2 DEF Refilled
    <2>10. Stream(tree.vs) = FlattenSeq(E)
      <3>1. Stream(ts) = FlattenSeq([j \in DOMAIN ts |-> Enc(ts[j])])
        BY DEF Stream
      <3>2. [j \in DOMAIN ts |-> Enc(ts[j])] = E
        BY <2>3, <2>4
      <3> HIDE DEF E, tree
      <3> QED BY <2>6, <3>1, <3>2
    <2> HIDE DEF tree, E
    <2>11. Alike(tree, v, E)
      <3>1. Count(tree) = Count(v)
        BY <2>3, <2>6 DEF Count
      <3>2. HeadOf(tree) = HeadOf(v) /\ EndOf(tree) = EndOf(v)
        BY <2>6, <3>1 DEF HeadOf, EndOf
      <3> QED BY <2>6, <2>8, <2>10, <3>2 DEF Alike
    <2>12. Copied(Rewrite(rules, bs)[d], rules, bs, v, ps, p, ks, key, tags, x, tree)
      BY <1>2, <2>9, <2>11, ContainerCopied
    <2>13. out = RewriteStep(Rewrite(rules, bs)[d], rules, bs, x, ps, ks, p + 1)
      <3>1. Called(rules, bs, d, ps, p, ks, x)
        BY SiteCalled
      <3> QED BY <3>1, Zenon DEF Called
    <2> HIDE DEF out
    <2> QED BY <2>7, <2>12, <2>13 DEF Copied
  <1> HIDE DEF tree, out, front
  <1> QED BY <1>4, <1>5, <1>6 DEF Rewrote, out, front

(* A map, a pair of it: copied, left out or with another name. *)
PairRuled(rules, d, key, u, ps) ==
  LET by == RuleAt(rules, d, u, ps) IN
  IF by = << >> THEN <<key, RuledTree(rules, d, u, ps)>>
  ELSE IF by[1].remove THEN << >> ELSE <<NewName(by[1], key), u>>

PairFits(rules, d, open, key, u, ps) ==
  LET by == RuleAt(rules, d, u, ps) IN
  /\ key.k \in {"bytes", "str"}
  /\ \/ by = << >> /\ Rulings(rules)[d].kept[<<u, ps>>]
     \/ by # << >> /\ by[1].remove /\ open
     \/ by # << >> /\ ~by[1].remove /\ NewName(by[1], key) \in Values

PairPath(v, ps, j) == Append(ps, Enc(KeyAt(v, j)))
PairOf(rules, d, v, ps, j) == PairRuled(rules, d, KeyAt(v, j), v.vs[2 * j], PairPath(v, ps, j))

LEMMA MapRuled ==
  ASSUME NEW rules, NEW d \in 0..MaxDepth, d # 0, NEW v \in Values, v.k = "map", NEW ps \in Paths
  PROVE  /\ RuledTree(rules, d, v, ps) = Map(FlattenSeq([j \in 1..Count(v) |-> PairOf(rules, d - 1, v, ps, j)]), v.open)
         /\ IsKept(rules, d, v, ps) => \A j \in 1..Count(v) :
              PairFits(rules, d - 1, v.open, KeyAt(v, j), v.vs[2 * j], PairPath(v, ps, j))
  <1> DEFINE h == d - 1  at == <<v, ps>>  below == Rulings(rules)[h]
  <1>1. at[1] = v /\ at[2] = ps
    OBVIOUS
  <1>2. \A j : PairAt(at, j) = <<v.vs[2 * j], PairPath(v, ps, j)>>
    BY <1>1 DEF PairAt, Under, PairPath
  <1>3. /\ RuledTree(rules, d, v, ps) = RuledStep(below, at)
        /\ IsKept(rules, d, v, ps) => KeptStep(below, at)
    BY RulingIs
  <1> HIDE DEF at
  <1>4. RuledStep(below, at) =
          Map(FlattenSeq([j \in 1..Count(v) |-> RuledPair(below, KeyAt(v, j), PairAt(at, j))]), v.open)
    <2> HIDE DEF below
    <2> QED BY <1>1 DEF RuledStep
  <1>5. KeptStep(below, at) => \A j \in 1..Count(v) : PairKept(below, v.open, KeyAt(v, j), PairAt(at, j))
    <2> HIDE DEF below
    <2> QED BY <1>1 DEF KeptStep
  <1>6. ASSUME NEW j PROVE RuledPair(below, KeyAt(v, j), PairAt(at, j)) = PairOf(rules, h, v, ps, j)
    <2> DEFINE u == v.vs[2 * j]  qs == PairPath(v, ps, j)  key == KeyAt(v, j)
    <2>1. PairAt(at, j) = <<u, qs>>
      BY <1>2
    <2> HIDE DEF u, qs, key
    <2>2. RuledPair(below, key, <<u, qs>>) = PairRuled(rules, h, key, u, qs)
      BY DEF RuledPair, PairRuled, RuleAt, RuledTree
    <2> QED BY <2>1, <2>2 DEF PairOf, u, qs, key
  <1>7. ASSUME NEW j PROVE PairKept(below, v.open, KeyAt(v, j), PairAt(at, j)) <=>
                             PairFits(rules, h, v.open, KeyAt(v, j), v.vs[2 * j], PairPath(v, ps, j))
    <2> DEFINE u == v.vs[2 * j]  qs == PairPath(v, ps, j)  key == KeyAt(v, j)  o == v.open
    <2>1. PairAt(at, j) = <<u, qs>>
      BY <1>2
    <2> HIDE DEF u, qs, key, o
    <2>2. PairKept(below, o, key, <<u, qs>>) <=> PairFits(rules, h, o, key, u, qs)
      BY Zenon DEF PairKept, PairFits, RuleAt
    <2> QED BY <2>1, <2>2 DEF u, qs, key, o
  <1> HIDE DEF below, h
  <1>8. RuledStep(below, at) = Map(FlattenSeq([j \in 1..Count(v) |-> PairOf(rules, h, v, ps, j)]), v.open)
    <2>1. [j \in 1..Count(v) |-> RuledPair(below, KeyAt(v, j), PairAt(at, j))]
            = [j \in 1..Count(v) |-> PairOf(rules, h, v, ps, j)]
      BY <1>6
    <2> QED BY <1>4, <2>1
  <1>9. KeptStep(below, at) => \A j \in 1..Count(v) :
          PairFits(rules, h, v.open, KeyAt(v, j), v.vs[2 * j], PairPath(v, ps, j))
    BY <1>5, <1>7, Zenon
  <1> QED BY <1>3, <1>8, <1>9, Zenon DEF h

PairGood(open, d, pair) ==
  pair \in Seq(Layer[d]) /\ Len(pair) \in {0, 2} /\ (open \/ Len(pair) = 2)

PairDone(rules, bs, d, key, u, ps, p, ks, z, open) ==
  LET pair == PairRuled(rules, d, key, u, ps) IN
  /\ PairGood(open, d, pair)
  /\ Rewrite(rules, bs)[d + 1][<<z, ps, ks, p + 1>>] = [b |-> z \o Stream(pair), i |-> p + 1 + Len(Enc(u))]

LEMMA PairGiven ==
  ASSUME NEW rules, NEW d \in 0..MaxDepth, NEW bs, NEW key \in Layer[d], NEW u \in Layer[d], NEW ps, NEW p, NEW ks,
         NEW z, NEW open, Rewrote(rules, bs, d, u, ps, p, ks, key, << >>, z), Site(bs, u, ps, p, ks, key, << >>, z),
         ks # 0, PairFits(rules, d, open, key, u, ps)
  PROVE  PairDone(rules, bs, d, key, u, ps, p, ks, z, open)
  <1> DEFINE by == RuleAt(rules, d, u, ps)  pair == PairRuled(rules, d, key, u, ps)  t == RuledTree(rules, d, u, ps)
             out == Rewrite(rules, bs)[d + 1][<<z, ps, ks, p + 1>>]  end == p + 1 + Len(Enc(u))
             name == NewName(by[1], key)
  <1>1. key \in Values /\ u \in Values /\ ps \in Paths /\ z \in Seq(Byte)
    BY LayerInside DEF Site
  <1>2. Enc(key) \in Seq(Byte) /\ Enc(u) \in Seq(Byte)
    BY <1>1, EncGood DEF Good
  <1>3. Enc(key) \o << >> = Enc(key) /\ << >> \o Enc(u) = Enc(u) /\ z \o << >> = z
    BY <1>1, <1>2, ConcatEmptySeq
  <1>4. \A a, c : <<a, c>> \in Seq({a, c}) /\ Len(<<a, c>>) = 2
    OBVIOUS
  <1> HIDE DEF out, end, t, by, name
  <1>5. CASE by = << >>
    <2>1. pair = <<key, t>>
      BY <1>5 DEF PairRuled, by, t
    <2>2. Rulings(rules)[d].kept[<<u, ps>>]
      BY <1>5 DEF PairFits, by
    <2>3. IsKept(rules, d, u, ps)
      BY <1>1, <2>2, KeptTrue
    <2>4. t \in Layer[d] /\ out = [b |-> z \o (HeldBytes(ks, key, << >>) \o Enc(t)), i |-> end]
      BY <1>5, <2>3, Zenon DEF Rewrote, by, t, out, end
    <2>5. HeldBytes(ks, key, << >>) = Enc(key)
      BY <1>3 DEF HeldBytes
    <2>6. t \in Values
      BY <2>4, LayerInside
    <2>7. Stream(<<key, t>>) = Enc(key) \o Enc(t)
      BY <1>1, <2>6, StreamPair
    <2>8. <<key, t>> \in Seq(Layer[d]) /\ Len(<<key, t>>) = 2
      <3> DEFINE Ld == Layer[d]
      <3>1. key \in Ld /\ t \in Ld
        BY <2>4
      <3> HIDE DEF Ld
      <3>2. <<key, t>> \in Seq(Ld)
        BY <3>1
      <3> QED BY <3>2 DEF Ld
    <2> HIDE DEF pair
    <2>9. PairGood(open, d, pair)
      BY <2>1, <2>8 DEF PairGood
    <2>10. out = [b |-> z \o Stream(pair), i |-> end]
      BY <2>1, <2>4, <2>5, <2>7
    <2> QED BY <2>9, <2>10 DEF PairDone, pair, out, end
  <1>6. CASE by # << >> /\ by[1].remove
    <2>1. pair = << >> /\ open
      BY <1>6 DEF PairRuled, PairFits, by
    <2>2. RuleFits(by[1], key)
      BY <1>6 DEF RuleFits
    <2>3. out = [b |-> z, i |-> end]
      BY <1>6, <2>2, Zenon DEF Rewrote, by, out, end
    <2>4. << >> \in Seq(Layer[d]) /\ Len(<< >>) = 0
      OBVIOUS
    <2> HIDE DEF pair
    <2>5. PairGood(open, d, pair)
      BY <2>1, <2>4 DEF PairGood
    <2>6. out = [b |-> z \o Stream(pair), i |-> end]
      BY <1>3, <2>1, <2>3, StreamNone
    <2> QED BY <2>5, <2>6 DEF PairDone, pair, out, end
  <1>7. CASE by # << >> /\ ~by[1].remove
    <2>1. pair = <<name, u>> /\ key.k \in {"bytes", "str"} /\ name \in Values
      BY <1>7 DEF PairRuled, PairFits, by, name
    <2>2. RuleFits(by[1], key)
      BY <2>1 DEF RuleFits, name
    <2>3. out = [b |-> z \o (Enc(name) \o (<< >> \o Enc(u))), i |-> end]
      BY <1>7, <2>2, Zenon DEF Rewrote, by, out, end, name
    <2>4. name \in Layer[d]
      <3>1. name.k = "str"
        BY DEF name, NewName, Str
      <3>2. name \in Scalars
        BY <2>1, <3>1, ValueInside
      <3> QED BY <3>2, LayerInside
    <2>5. Stream(<<name, u>>) = Enc(name) \o Enc(u)
      BY <1>1, <2>1, StreamPair
    <2>6. <<name, u>> \in Seq(Layer[d]) /\ Len(<<name, u>>) = 2
      <3> DEFINE Ld == Layer[d]
      <3>1. name \in Ld /\ u \in Ld
        BY <2>4
      <3> HIDE DEF Ld
      <3>2. <<name, u>> \in Seq(Ld)
        BY <3>1
      <3> QED BY <3>2 DEF Ld
    <2> HIDE DEF pair
    <2>7. PairGood(open, d, pair)
      BY <2>1, <2>6 DEF PairGood
    <2>8. out = [b |-> z \o Stream(pair), i |-> end]
      BY <1>3, <2>1, <2>3, <2>5
    <2> QED BY <2>7, <2>8 DEF PairDone, pair, out, end
  <1> QED BY <1>5, <1>6, <1>7

LEMMA PairElement ==
  ASSUME NEW rules, NEW d \in 0..MaxDepth, d # 0, RewriteLevel(rules, d - 1), NEW v \in Layer[d], v.k = "map",
         NEW bs, NEW ps \in Paths, NEW p, There(bs, p, Enc(v)), IsKept(rules, d, v, ps),
         NEW j \in 1..Count(v), NEW z \in Seq(Byte)
  PROVE  LET pair == PairOf(rules, d - 1, v, ps, j) IN
         /\ PairGood(v.open, d - 1, pair)
         /\ ElementAdds(rules, bs, d, [b |-> z, i |-> PlaceOf(v, p, j - 1)], ps, v.k, Stream(pair), PlaceOf(v, p, j))
  <1> DEFINE h == d - 1  n == Len(v.vs)  u == v.vs[2 * j]  key == KeyAt(v, j)  qs == PairPath(v, ps, j)
             k == PerCount(v.k, j - 1)  m == k + 1  q == p + Len(HeadOf(v))  a == q + Before(v.vs, k)
             c == q + Before(v.vs, m)  pair == PairOf(rules, h, v, ps, j)
             out == Rewrite(rules, bs)[h + 1][<<z, qs, a + 1, c + 1>>]
  <1>1. v \in Values /\ h \in 0..MaxDepth /\ h + 1 = d /\ v.vs \in Seq(Layer[h]) /\ v.vs \in Seq(Values) /\ n \in Nat
    <2>1. v \in Values
      BY LayerInside
    <2>2. h \in 0..MaxDepth /\ h + 1 = d /\ v.vs \in Seq(Layer[h])
      <3>1. v \notin Scalars
        BY <2>1, ScalarTag
      <3> QED BY <3>1, LayerInside
    <2> QED BY <2>1, <2>2, ElementsInside
  <1>2. There(bs, q, Stream(v.vs))
    <2>1. Laidout(bs, v, p)
      BY <1>1, BodyThere
    <2> QED BY <2>1 DEF Laidout
  <1>3. /\ k \in 0..n /\ k # n /\ m \in 0..n /\ m # n /\ k + 1 = 2 * j - 1 /\ m + 1 = 2 * j
        /\ PerCount(v.k, j) = m + 1
    <2>1. Count(v) \in Nat /\ PerCount(v.k, Count(v)) = n
      BY <1>1, CountIs
    <2>2. k = 2 * (j - 1) /\ PerCount(v.k, j) = 2 * j /\ n = 2 * Count(v)
      BY <2>1 DEF PerCount
    <2> HIDE DEF k, n
    <2> QED BY <1>1, <2>1, <2>2
  <1>4. key = v.vs[k + 1] /\ u = v.vs[m + 1]
    BY <1>3 DEF KeyAt
  <1> HIDE DEF k, q, key, u
  <1>5. /\ There(bs, a, Enc(key)) /\ key \in Values /\ Before(v.vs, m) = Before(v.vs, k) + Len(Enc(key))
        /\ Before(v.vs, k) \in Nat
    <2> HIDE DEF n
    <2> QED BY <1>1, <1>2, <1>3, <1>4, ElemThere DEF n
  <1> HIDE DEF m
  <1>6. /\ There(bs, c, Enc(u)) /\ u \in Values /\ Before(v.vs, m + 1) = Before(v.vs, m) + Len(Enc(u))
        /\ Before(v.vs, m) \in Nat
    <2> HIDE DEF n
    <2> QED BY <1>1, <1>2, <1>3, <1>4, ElemThere DEF n
  <1>7. key \in Layer[h] /\ u \in Layer[h]
    <2>1. k + 1 \in 1..n /\ m + 1 \in 1..n
      BY <1>1, <1>3
    <2> QED BY <1>1, <1>4, <2>1, ElementOfSeq
  <1>8. /\ PairFits(rules, h, v.open, key, u, qs) /\ pair = PairRuled(rules, h, key, u, qs)
    <2>1. PairFits(rules, d - 1, v.open, KeyAt(v, j), v.vs[2 * j], PairPath(v, ps, j))
      BY <1>1, MapRuled
    <2> QED BY <2>1 DEF PairOf, key, u
  <1>9. qs \in Paths /\ << >> \in Seq(Byte) /\ Enc(key) \in Seq(Byte) /\ qs = Append(ps, Enc(key))
    <2>1. Enc(key) \in Seq(Byte)
      BY <1>5, EncGood DEF Good
    <2>2. qs = Append(ps, Enc(key))
      BY DEF PairPath, key
    <2> HIDE DEF qs
    <2> QED BY <2>1, <2>2, AppendProperties DEF Paths
  <1>10. q \in Nat /\ Len(Enc(key)) \in Nat /\ Len(Enc(u)) \in Nat /\ a \in Nat /\ c = a + Len(Enc(key))
    <2>1. q \in Nat /\ Len(Enc(key)) \in Nat /\ Len(Enc(u)) \in Nat
      BY <1>2, <1>5, <1>6, ThereTyped
    <2> QED BY <1>5, <2>1
  <1>11. PlaceOf(v, p, j - 1) = a + 1 /\ PlaceOf(v, p, j) = c + 1 + Len(Enc(u))
    <2>1. PlaceOf(v, p, j - 1) = q + Before(v.vs, k) + 1 /\ PlaceOf(v, p, j) = q + Before(v.vs, m + 1) + 1
      BY <1>3 DEF PlaceOf, q, k
    <2> QED BY <1>6, <1>10, <2>1
  <1> HIDE DEF h, qs, a, c, out, n, pair
  <1>12. Held(bs, a + 1, c, key, << >>)
    <2>1. Enc(key) \o << >> = Enc(key)
      BY <1>9, ConcatEmptySeq
    <2>2. a + 1 \in Nat /\ a + 1 # 0 /\ (a + 1) - 1 = a
      BY <1>10
    <2> QED BY <1>5, <1>9, <1>10, <2>1, <2>2 DEF Held
  <1>13. Site(bs, u, qs, c, a + 1, key, << >>, z) /\ a + 1 # 0
    BY <1>6, <1>9, <1>10, <1>12 DEF Site
  <1>14. Rewrote(rules, bs, h, u, qs, c, a + 1, key, << >>, z)
    BY <1>7, <1>13 DEF RewriteLevel, h
  <1>15. PairGood(v.open, h, pair) /\ out = [b |-> z \o Stream(pair), i |-> c + 1 + Len(Enc(u))]
    <2> DEFINE ks == a + 1
    <2>1. /\ Site(bs, u, qs, c, ks, key, << >>, z) /\ ks # 0 /\ Rewrote(rules, bs, h, u, qs, c, ks, key, << >>, z)
          /\ out = Rewrite(rules, bs)[h + 1][<<z, qs, ks, c + 1>>]
      BY <1>13, <1>14 DEF out
    <2> HIDE DEF ks
    <2> DEFINE o == v.open
    <2>2. PairFits(rules, h, o, key, u, qs)
      BY <1>8
    <2> HIDE DEF o
    <2>3. PairDone(rules, bs, h, key, u, qs, c, ks, z, o)
      BY <1>1, <1>7, <2>1, <2>2, PairGiven
    <2> QED BY <1>8, <2>1, <2>3 DEF PairDone, o
  <1>16. ElementAdds(rules, bs, d, [b |-> z, i |-> PlaceOf(v, p, j - 1)], ps, v.k, Stream(pair), PlaceOf(v, p, j))
    <2> DEFINE at == [b |-> z, i |-> a + 1]  st == ReadTag(bs, at.i).next + ReadTag(bs, at.i).l
    <2>1. Element(Rewrite(rules, bs)[d], at, bs, ps, v.k)
            = Rewrite(rules, bs)[d][<<at.b, Append(ps, SubSeq(bs, at.i, st - 1)), at.i, st>>]
      BY DEF Element
    <2>2. at.b = z /\ at.i = a + 1
      OBVIOUS
    <2>3. st = c + 1 /\ SubSeq(bs, at.i, st - 1) = Enc(key)
      <3>1. key.k \in {"bytes", "str"}
        BY <1>8 DEF PairFits
      <3>2. KeySeen(bs, a, key)
        BY <1>5, <3>1, KeyRead
      <3>3. ReadTag(bs, a + 1).next + ReadTag(bs, a + 1).l = a + 1 + Len(Enc(key))
        BY <3>2 DEF KeySeen
      <3>4. SubSeq(bs, a + 1, a + Len(Enc(key))) = Enc(key)
        BY <1>5, ThereIs
      <3>5. a + 1 + Len(Enc(key)) = c + 1 /\ (c + 1) - 1 = a + Len(Enc(key))
        BY <1>10
      <3>6. st = c + 1
        BY <2>2, <3>3, <3>5
      <3> HIDE DEF st
      <3> QED BY <2>2, <3>4, <3>5, <3>6
    <2> HIDE DEF at, st
    <2>4. Element(Rewrite(rules, bs)[d], at, bs, ps, v.k) = out
      BY <1>1, <1>9, <2>1, <2>2, <2>3 DEF out
    <2> QED BY <1>11, <1>15, <2>2, <2>4 DEF ElementAdds, at
  <1> QED BY <1>15, <1>16 DEF h, pair

(* Some of the pairs, at most all: an even number of values. *)
LEMMA FlattenEven ==
  ASSUME NEW S, NEW n \in Nat, NEW F \in [1..n -> Seq(S)], \A j \in 1..n : Len(F[j]) \in {0, 2}
  PROVE  \E c \in 0..n : Len(FlattenSeq(F)) = c + c
  <1> DEFINE len(j) == Len(FlattenSeq(First(F, j)))
             U == {j \in 0..n : ~ \E c \in 0..j : len(j) = c + c}
  <1>1. ASSUME U # {} PROVE FALSE
    <2>1. PICK j \in U : \A y \in U : j <= y
      <3>1. U \subseteq Nat
        OBVIOUS
      <3> HIDE DEF U
      <3> QED BY <1>1, <3>1, SmallestExists
    <2>2. j # 0
      <3>1. FlattenSeq(First(F, 0)) = << >>
        BY FlattenEnds
      <3>2. len(0) = 0 + 0 /\ 0 \in 0..0
        BY <3>1
      <3> HIDE DEF len
      <3> QED BY <2>1, <3>2
    <2> DEFINE h == j - 1
    <2>3. h \in 0..n /\ h # n /\ h + 1 = j /\ h + 1 \in 1..n /\ ~(j <= h)
      BY <2>1, <2>2
    <2>4. PICK c \in 0..h : len(h) = c + c
      BY <2>1, <2>3
    <2>5. ~ \E e \in 0..j : len(j) = e + e
      BY <2>1
    <2> HIDE DEF h
    <2>6. FlattenSeq(First(F, h + 1)) = FlattenSeq(First(F, h)) \o F[h + 1]
      BY <2>3, FlattenMore
    <2>7. FlattenSeq(First(F, h)) \in Seq(S)
      BY <2>3, FlattenFirst
    <2> DEFINE x == FlattenSeq(First(F, h))  y == F[h + 1]
    <2>8. x \in Seq(S) /\ y \in Seq(S) /\ Len(x) = c + c /\ Len(y) \in {0, 2}
      BY <2>3, <2>4, <2>7
    <2>9. len(h + 1) = Len(x \o y)
      BY <2>6
    <2> HIDE DEF x, y, len
    <2>10. Len(x \o y) = Len(x) + Len(y)
      BY <2>8, ConcatProperties
    <2>11. len(j) = c + c \/ len(j) = (c + 1) + (c + 1)
      <3>1. c \in Int /\ len(j) = Len(x) + Len(y)
        BY <2>3, <2>9, <2>10
      <3>2. CASE Len(y) = 0
        BY <2>8, <3>1, <3>2
      <3>3. CASE Len(y) = 2
        <4>1. len(j) = (c + c) + 2
          BY <2>8, <3>1, <3>3
        <4>2. (c + c) + 2 = (c + 1) + (c + 1)
          BY <3>1
        <4> QED BY <4>1, <4>2
      <3> QED BY <2>8, <3>2, <3>3
    <2>12. c \in 0..j /\ c + 1 \in 0..j
      BY <2>3
    <2> QED BY <2>5, <2>11, <2>12
  <1>2. n \in 0..n /\ First(F, n) = F
    BY FlattenEnds
  <1>3. \E c \in 0..n : len(n) = c + c
    BY <1>1, <1>2
  <1> QED BY <1>2, <1>3

LEMMA MapCase ==
  ASSUME NEW rules, NEW d \in 0..MaxDepth, d # 0, RewriteLevel(rules, d - 1), NEW v \in Layer[d], v.k = "map",
         NEW bs, NEW ps, NEW p, NEW ks, NEW key, NEW tags, NEW x,
         Site(bs, v, ps, p, ks, key, tags, x), ps \notin DOMAIN rules
  PROVE  Rewrote(rules, bs, d, v, ps, p, ks, key, tags, x)
  <1> DEFINE h == d - 1  n == Count(v)  pair(j) == PairOf(rules, h, v, ps, j)
             F == [j \in 1..n |-> pair(j)]  all == FlattenSeq(F)  tree == Map(all, v.open)
             E == [j \in 1..n |-> Stream(F[j])]
             out == Rewrite(rules, bs)[d + 1][<<x, ps, ks, p + 1>>]  front == HeldBytes(ks, key, tags)
  <1>1. ps \in Paths /\ x \in Seq(Byte) /\ ks \in Nat /\ p + 1 \in Nat \ {0} /\ There(bs, p, Enc(v))
    BY ThereTyped DEF Site, Held
  <1>2. v \in Values /\ h \in 0..MaxDepth /\ Layer[d] = Over(Layer[h]) /\ Layer[h] \subseteq Values
    <2>1. v \in Values
      BY LayerInside
    <2> QED BY <2>1, LayerInside
  <1>3. n \in Nat /\ v.open \in BOOLEAN /\ Len(v.vs) = n + n
    <2>1. PerCount(v.k, n) = Len(v.vs)
      BY <1>2, CountIs
    <2>2. PerCount(v.k, n) = n + n
      BY DEF PerCount
    <2> QED BY <1>2, <2>1, <2>2, ElementsInside
  <1>4. RuleAt(rules, d, v, ps) = << >>
    BY <1>1, <1>2, FreeIs
  <1>5. RuledTree(rules, d, v, ps) = tree
    <2>1. RuledTree(rules, d, v, ps) = Map(FlattenSeq([j \in 1..Count(v) |-> PairOf(rules, d - 1, v, ps, j)]), v.open)
      <3>1. v \in Values /\ ps \in Paths /\ v.k = "map"
        BY <1>1, <1>2
      <3> QED BY <3>1, MapRuled
    <2> QED BY <2>1, Zenon
  <1>6. ASSUME IsKept(rules, d, v, ps)
        PROVE  tree \in Layer[d] /\ out = [b |-> x \o (front \o Enc(tree)), i |-> p + 1 + Len(Enc(v))]
    <2>1. \A j \in 1..n : PairGood(v.open, h, pair(j))
      BY <1>1, <1>6, PairElement
    <2>2. \A j \in 1..n, z \in Seq(Byte) :
            ElementAdds(rules, bs, d, [b |-> z, i |-> PlaceOf(v, p, j - 1)], ps, v.k, Stream(pair(j)), PlaceOf(v, p, j))
      BY <1>1, <1>6, PairElement
    <2>3. /\ F \in [1..n -> Seq(Layer[h])]
          /\ \A j \in 1..n : F[j] = pair(j) /\ Len(F[j]) \in {0, 2} /\ (v.open \/ Len(F[j]) = 2)
      <3> HIDE DEF n, h, pair
      <3> QED BY <2>1 DEF PairGood
    <2> HIDE DEF F, n, h, pair
    <2>4. all \in Seq(Layer[h])
      BY <1>3, <2>3, FlattenTyped
    <2>5. F \in [1..n -> Seq(Values)]
      <3>1. ASSUME NEW s \in Seq(Layer[h]) PROVE s \in Seq(Values)
        <4> DEFINE Ld == Layer[h]
        <4>1. s \in Seq(Ld) /\ Ld \subseteq Values
          BY <1>2
        <4> HIDE DEF Ld
        <4> QED BY <4>1
      <3> DEFINE A == Seq(Layer[h])  B == Seq(Values)
      <3>2. A \subseteq B /\ F \in [1..n -> A]
        BY <2>3, <3>1
      <3> HIDE DEF A, B
      <3>3. F \in [1..n -> B]
        BY <3>2
      <3> QED BY <3>3 DEF B
    <2>6. Stream(all) = FlattenSeq(E)
      BY <1>3, <2>5, StreamFlat
    <2>7. PICK c \in 0..n : Len(all) = c + c
      <3> DEFINE Ld == Layer[h]
      <3>1. F \in [1..n -> Seq(Ld)] /\ \A j \in 1..n : Len(F[j]) \in {0, 2}
        BY <2>3
      <3> HIDE DEF Ld
      <3> QED BY <1>3, <3>1, FlattenEven
    <2>8. ~v.open => Len(all) = Len(v.vs)
      <3>1. ASSUME ~v.open PROVE Len(all) = 2 * n
        <4>1. \A j \in 1..n : Len(F[j]) = 2
          BY <2>3, <3>1
        <4> QED BY <1>3, <2>3, <4>1, FlattenLen
      <3> HIDE DEF all
      <3> QED BY <1>3, <3>1
    <2> HIDE DEF all
    <2>9. tree.k = "map" /\ tree.vs = all /\ tree.open = v.open
      BY DEF Map
    <2>10. tree \in Layer[d]
      <3>1. Fits(Len(all), 4) /\ Len(all) % 2 = 0
        <4>1. Fits(Len(v.vs), 4)
          BY <1>2, ValueInside DEF Scalars
        <4>2. c + c \in Nat /\ c + c <= Len(v.vs) /\ (c + c) % 2 = 0
          BY <1>3
        <4>3. Fits(c + c, Width(c + c))
          BY <4>1, <4>2, FitsLess
        <4>4. Fits(c + c, 4)
          BY <4>3 DEF Fits
        <4> QED BY <2>7, <4>2, <4>4
      <3>2. tree \in [k : {"array", "map"}, vs : Seq(Layer[h]), open : BOOLEAN]
        <4> DEFINE A == Seq(Layer[h])
        <4>1. all \in A
          BY <2>4
        <4> HIDE DEF A
        <4>2. tree \in [k : {"array", "map"}, vs : A, open : BOOLEAN]
          BY <1>3, <4>1 DEF Map
        <4> QED BY <4>2 DEF A
      <3> HIDE DEF tree
      <3> QED BY <1>2, <2>9, <3>1, <3>2 DEF Over
    <2>11. tree \in Values
      BY <2>10, LayerInside
    <2>12. E \in [1..n -> Seq(Byte)] /\ \A j \in 1..n : E[j] = Stream(pair(j))
      <3>1. \A j \in 1..n : Stream(F[j]) \in Seq(Byte)
        <4> TAKE j \in 1..n
        <4>1. F[j] \in Seq(Values)
          BY <2>5
        <4> QED BY <4>1, StreamTyped
      <3> QED BY <2>3, <3>1
    <2> HIDE DEF E, tree
    <2>13. Refilled(Rewrite(rules, bs)[d], bs, v, ps, p, E)
      <3>1. \A j \in 1..n, z \in Seq(Byte) :
              Element(Rewrite(rules, bs)[d], [b |-> z, i |-> PlaceOf(v, p, j - 1)], bs, ps, v.k)
                = [b |-> z \o E[j], i |-> PlaceOf(v, p, j)]
        BY <2>2, <2>12 DEF ElementAdds
      <3> QED BY <2>12, <3>1 DEF Refilled, n
    <2>14. Alike(tree, v, E)
      <3>1. ~v.open => Count(tree) = Count(v)
        BY <2>8, <2>9 DEF Count
      <3>2. HeadOf(tree) = HeadOf(v) /\ EndOf(tree) = EndOf(v)
        BY <2>9, <3>1 DEF HeadOf, EndOf
      <3> QED BY <2>6, <2>9, <2>11, <3>2 DEF Alike
    <2>15. Copied(Rewrite(rules, bs)[d], rules, bs, v, ps, p, ks, key, tags, x, tree)
      BY <1>2, <2>13, <2>14, ContainerCopied
    <2>16. out = RewriteStep(Rewrite(rules, bs)[d], rules, bs, x, ps, ks, p + 1)
      <3>1. Called(rules, bs, d, ps, p, ks, x)
        BY SiteCalled
      <3> QED BY <3>1, Zenon DEF Called
    <2> HIDE DEF out
    <2> QED BY <2>10, <2>15, <2>16 DEF Copied
  <1> HIDE DEF tree, out, front
  <1> QED BY <1>4, <1>5, <1>6 DEF Rewrote, out, front

(* Any value, one level after the other. *)
LEMMA LevelCase ==
  ASSUME NEW rules, NEW d \in 0..MaxDepth, d # 0 => RewriteLevel(rules, d - 1)
  PROVE  RewriteLevel(rules, d)
  <1> SUFFICES ASSUME NEW bs, NEW v, NEW ps, NEW p, NEW ks, NEW key, NEW tags, NEW x,
                      v \in Layer[d], Site(bs, v, ps, p, ks, key, tags, x)
               PROVE  Rewrote(rules, bs, d, v, ps, p, ks, key, tags, x)
    BY DEF RewriteLevel
  <1>1. CASE ps \in DOMAIN rules
    BY <1>1, RuledCase
  <1>2. CASE ps \notin DOMAIN rules /\ v \in Scalars
    BY <1>2, ScalarCase
  <1>3. CASE ps \notin DOMAIN rules /\ d # 0 /\ v.k = "label" /\ v = Tagged(v.v) /\ v.v \in Layer[d - 1]
    <2> DEFINE u == v.v
    <2>1. v = Tagged(u) /\ u \in Layer[d - 1]
      BY <1>3
    <2> HIDE DEF u
    <2> QED BY <1>3, <2>1, LabelCase
  <1>4. CASE ps \notin DOMAIN rules /\ d # 0 /\ v.k = "array"
    BY <1>4, ArrayCase
  <1>5. CASE ps \notin DOMAIN rules /\ d # 0 /\ v.k = "map"
    BY <1>5, MapCase
  <1>6. \/ v \in Scalars
        \/ d # 0 /\ v.k = "label" /\ v = Tagged(v.v) /\ v.v \in Layer[d - 1]
        \/ d # 0 /\ v.k \in {"array", "map"}
    BY LayerInside
  <1> QED BY <1>1, <1>2, <1>3, <1>4, <1>5, <1>6

LEMMA RewriteLevels == ASSUME NEW rules PROVE RewriteLevel(rules, MaxDepth)
  <1> DEFINE U == {d \in 0..MaxDepth : ~RewriteLevel(rules, d)}
  <1>1. ASSUME U # {} PROVE FALSE
    <2>1. PICK d \in U : \A y \in U : d <= y
      <3>1. U \subseteq Nat
        BY DepthAssumption
      <3> HIDE DEF U
      <3> QED BY <1>1, <3>1, SmallestExists
    <2>2. d \in 0..MaxDepth /\ ~RewriteLevel(rules, d)
      BY <2>1
    <2>3. d # 0 => d - 1 \in 0..MaxDepth /\ ~(d <= d - 1)
      BY <2>2, DepthAssumption
    <2>4. d # 0 => RewriteLevel(rules, d - 1)
      BY <2>1, <2>3
    <2> QED BY <2>2, <2>4, LevelCase
  <1>2. MaxDepth \in 0..MaxDepth
    BY DepthAssumption
  <1> QED BY <1>1, <1>2

LEMMA EventRewritten ==
  ASSUME EncodedAsMeant
  PROVE  RewrittenAsRuled
  <1> SUFFICES ASSUME event # << >>, Plain, NEW rules \in RuleSets,
                      Rulings(rules)[MaxDepth].rule[<<Meant, << >>>>] = << >>,
                      Rulings(rules)[MaxDepth].kept[<<Meant, << >>>>]
               PROVE  Write(rules, event) = Enc(Rulings(rules)[MaxDepth].tree[<<Meant, << >>>>])
    BY DEF RewrittenAsRuled
  <1> DEFINE ps == << >>  x == << >>  t == RuledTree(rules, MaxDepth, Meant, ps)  end == 0 + 1 + Len(Enc(Meant))
             out == Rewrite(rules, event)[MaxDepth + 1][<<x, ps, 0, 0 + 1>>]
  <1>1. MaxDepth \in 0..MaxDepth
    BY DepthAssumption
  <1>2. Meant \in Values /\ event = Enc(Meant) /\ Meant.k = "map"
    <2>1. Meant \in Values /\ event = Enc(Meant)
      BY DEF EncodedAsMeant, Plain
    <2>2. Meant.k = "map"
      BY DEF Meant, Map
    <2> QED BY <2>1, <2>2
  <1>3. ps \in Paths /\ x \in Seq(Byte)
    BY DEF Paths
  <1>4. RuleAt(rules, MaxDepth, Meant, ps) = << >>
    BY DEF RuleAt
  <1>5. IsKept(rules, MaxDepth, Meant, ps)
    <2>1. Rulings(rules)[MaxDepth].kept[<<Meant, ps>>]
      OBVIOUS
    <2> HIDE DEF ps
    <2> QED BY <1>1, <1>2, <1>3, <2>1, KeptTrue
  <1> HIDE DEF ps, x, t, out, end
  <1>6. Site(event, Meant, ps, 0, 0, 0, x, x)
    <2>1. Enc(Meant) \in Seq(Byte)
      BY <1>2, EncGood DEF Good
    <2>2. There(event, 0, Enc(Meant))
      BY <1>2, <2>1, ThereAll
    <2>3. Held(event, 0, 0, 0, x)
      BY <1>3 DEF Held
    <2> QED BY <1>2, <1>3, <2>2, <2>3 DEF Site
  <1>7. Rewrote(rules, event, MaxDepth, Meant, ps, 0, 0, 0, x, x)
    <2>1. Meant \in Layer[MaxDepth]
      BY <1>2 DEF Values
    <2> QED BY <1>6, <2>1, RewriteLevels DEF RewriteLevel
  <1>8. t \in Layer[MaxDepth] /\ out = [b |-> x \o (HeldBytes(0, 0, x) \o Enc(t)), i |-> end]
    BY <1>4, <1>5, <1>7, Zenon DEF Rewrote, t, out, end
  <1>9. x \o (HeldBytes(0, 0, x) \o Enc(t)) = Enc(t)
    <2>1. Enc(t) \in Seq(Byte)
      <3>1. t \in Values
        BY <1>8 DEF Values
      <3> QED BY <3>1, EncGood DEF Good
    <2>2. HeldBytes(0, 0, x) = << >> /\ x = << >>
      BY DEF HeldBytes, x
    <2>3. << >> \o Enc(t) = Enc(t)
      BY <2>1, ConcatEmptySeq
    <2> QED BY <2>2, <2>3
  <1>10. out.b = Enc(t)
    BY <1>8, <1>9
  <1>11. Write(rules, event) = out.b
    <2>1. 0 + 1 = 1
      OBVIOUS
    <2> QED BY <2>1, Zenon DEF Write, out, x, ps
  <1> QED BY <1>10, <1>11 DEF t, RuledTree, ps

(* RewrittenAsRuled, for any rules: a rewritten event differs from the one *)
(* written in what the rules name and in nothing else (rewriter.go).       *)
THEOREM RecordsAreRewritten == EncSpec => []RewrittenAsRuled
  <1>1. EncodedAsMeant => RewrittenAsRuled
    BY EventRewritten
  <1> QED BY <1>1, RecordsAreEncoded, PTL
=============================================================================
