----------------------------- MODULE WireProofs -----------------------------
(***************************************************************************)
(* What is proved of the wire format.  Of skip, for any values, buffer and *)
(* place: where it finds the end of a value.  Of the reader of a stream,   *)
(* for any events, pieces and failures.  Of the labels, for any list of    *)
(* arguments.  Of AppendValue and the slog Handler, for any values,        *)
(* attributes and handlers: what they encode.                              *)
(*                                                                         *)
(* A recursive definition is used through what it satisfies.  That there   *)
(* is a function that does is proved by the smallest counterexample: of    *)
(* the depths of values for Encode (EncodeIs), of the ranks of places for  *)
(* skip (SkipIs).  So is what holds of all values or elements.             *)
(***************************************************************************)
EXTENDS Wire, SequenceTheorems, WellFoundedInduction, TLAPS

-----------------------------------------------------------------------------
(* FlattenSeq, one sequence after the other.                               *)

LEMMA SmallestExists ==
  ASSUME NEW T, T \subseteq Nat, T # {}
  PROVE  \E x \in T : \A y \in T : x <= y
  <1>1. PICK x \in T : \A y \in T : ~(<<y, x>> \in OpToRel(<, Nat))
    BY WFMin, NatLessThanWellFounded, Zenon
  <1>2. \A y \in T : ~(y < x)
    BY <1>1 DEF OpToRel
  <1> QED BY <1>2

Joins(f, F, n) == f = [k \in 1..n |-> IF k = 1 THEN F[k] ELSE f[k - 1] \o F[k]]

LEMMA JoinsExist ==
  ASSUME NEW F, NEW n \in Nat
  PROVE  \E f : Joins(f, F, n)
  <1> DEFINE T == {k \in Nat : ~ \E f : Joins(f, F, k)}
  <1>1. ASSUME T # {} PROVE FALSE
    <2>1. PICK x \in T : \A y \in T : x <= y
      <3>1. T \subseteq Nat
        OBVIOUS
      <3> HIDE DEF T
      <3> QED BY <1>1, <3>1, SmallestExists
    <2>2. x \in Nat /\ ~ \E f : Joins(f, F, x)
      BY <2>1
    <2>3. x # 0
      <3>1. ASSUME x = 0 PROVE Joins([k \in 1..0 |-> k], F, x)
        BY <3>1 DEF Joins
      <3> QED BY <2>2, <3>1
    <2>4. x - 1 \in Nat /\ ~(x <= x - 1)
      BY <2>2, <2>3
    <2>5. PICK f : Joins(f, F, x - 1)
      BY <2>1, <2>4
    <2> DEFINE g == [k \in 1..x |-> IF k < x THEN f[k] ELSE IF x = 1 THEN F[k] ELSE f[k - 1] \o F[k]]
    <2>6. ASSUME NEW k \in 1..x
          PROVE  g[k] = IF k = 1 THEN F[k] ELSE g[k - 1] \o F[k]
      <3>1. CASE k = x
        <4>1. k # 1 => g[k - 1] = f[k - 1]
          BY <2>2, <3>1
        <4>2. g[k] = IF k = 1 THEN F[k] ELSE f[k - 1] \o F[k]
          BY <2>2, <3>1
        <4> HIDE DEF g
        <4> QED BY <4>1, <4>2
      <3>2. CASE k # x
        <4>1. k \in 1..x - 1 /\ k < x /\ (k # 1 => k - 1 \in 1..x /\ k - 1 < x)
          BY <2>2, <3>2
        <4>2. g[k] = f[k] /\ (k # 1 => g[k - 1] = f[k - 1])
          BY <4>1
        <4>3. f[k] = IF k = 1 THEN F[k] ELSE f[k - 1] \o F[k]
          BY <2>5, <4>1 DEF Joins
        <4> HIDE DEF g
        <4> QED BY <4>2, <4>3
      <3> QED BY <3>1, <3>2
    <2>7. g = [k \in 1..x |-> g[k]]
      OBVIOUS
    <2> HIDE DEF g
    <2>8. Joins(g, F, x)
      BY <2>6, <2>7 DEF Joins
    <2> QED BY <2>2, <2>8
  <1> QED BY <1>1

Begins(G, F, n) == \A k \in 1..n : F[k] = G[k]

LEMMA JoinsAgree ==
  ASSUME NEW f, NEW F, NEW n \in Nat, NEW g, NEW G, NEW m \in Nat,
         Joins(f, F, n), Joins(g, G, m), n <= m, Begins(F, G, n)
  PROVE  Begins(f, g, n)
  <1> DEFINE T == {k \in 1..n : f[k] # g[k]}
  <1>1. ASSUME T # {} PROVE FALSE
    <2>1. PICK x \in T : \A y \in T : x <= y
      <3>1. T \subseteq Nat
        OBVIOUS
      <3> HIDE DEF T
      <3> QED BY <1>1, <3>1, SmallestExists
    <2>2. x \in 1..n /\ x \in 1..m /\ f[x] # g[x]
      BY <2>1
    <2>3. F[x] = G[x]
      BY <2>2 DEF Begins
    <2>4. /\ f[x] = IF x = 1 THEN F[x] ELSE f[x - 1] \o F[x]
          /\ g[x] = IF x = 1 THEN G[x] ELSE g[x - 1] \o G[x]
      BY <2>2 DEF Joins
    <2>5. x # 1 => x - 1 \in 1..n /\ ~(x <= x - 1)
      BY <2>2
    <2>6. x # 1 => f[x - 1] = g[x - 1]
      BY <2>1, <2>5
    <2> QED BY <2>2, <2>3, <2>4, <2>6
  <1> QED BY <1>1 DEF Begins

LEMMA FlattenJoins ==
  ASSUME NEW F, Len(F) \in Nat, Len(F) # 0
  PROVE  \E f : Joins(f, F, Len(F)) /\ FlattenSeq(F) = f[Len(F)]
  <1> DEFINE f == CHOOSE f : f = [k \in 1..Len(F) |->
                    IF k = 1 THEN F[k] ELSE f[k - 1] \o F[k]]
  <1>1. FlattenSeq(F) = f[Len(F)]
    BY DEF FlattenSeq
  <1>2. Joins(f, F, Len(F))
    BY JoinsExist DEF Joins
  <1> QED BY <1>1, <1>2

LEMMA OfLength ==
  ASSUME NEW n \in Nat, NEW S, NEW F \in [1..n -> S]
  PROVE  F \in Seq(S) /\ Len(F) = n /\ DOMAIN F = 1..n
  BY SeqDef

LEMMA FlattenNone ==
  ASSUME NEW S, NEW F \in [1..0 -> S]
  PROVE  FlattenSeq(F) = << >>
  <1>1. F \in Seq(S) /\ Len(F) = 0
    BY OfLength
  <1> QED BY <1>1, EmptySeq DEF FlattenSeq

Grows(G, F, n, S) == G \in [1..n -> Seq(S)] /\ F \in [1..n + 1 -> Seq(S)] /\ Begins(G, F, n)

LEMMA FlattenStep ==
  ASSUME NEW S, NEW n \in Nat, NEW F, NEW G, Grows(G, F, n, S), FlattenSeq(G) \in Seq(S)
  PROVE  FlattenSeq(F) = FlattenSeq(G) \o F[n + 1]
  <1> DEFINE m == n + 1
  <1>1. /\ F \in [1..m -> Seq(S)] /\ G \in [1..n -> Seq(S)] /\ Begins(G, F, n)
        /\ m \in Nat /\ m # 0 /\ m \in 1..m /\ n <= m /\ m - 1 = n
    BY DEF Grows
  <1> HIDE DEF m
  <1>2. Len(F) = m /\ Len(G) = n
    BY <1>1, OfLength
  <1>3. PICK f : Joins(f, F, m) /\ FlattenSeq(F) = f[m]
    BY <1>1, <1>2, FlattenJoins
  <1>4. FlattenSeq(F) = IF m = 1 THEN F[m] ELSE f[m - 1] \o F[m]
    BY <1>1, <1>3 DEF Joins
  <1>5. CASE n = 0
    <2>1. FlattenSeq(F) = F[m] /\ F[m] \in Seq(S)
      BY <1>1, <1>4, <1>5
    <2>2. FlattenSeq(G) = << >>
      <3>1. G \in [1..0 -> Seq(S)]
        BY <1>1, <1>5
      <3> QED BY <3>1, FlattenNone
    <2>3. << >> \o F[m] = F[m]
      BY <2>1, ConcatEmptySeq
    <2> QED BY <2>1, <2>2, <2>3 DEF m
  <1>6. CASE n # 0
    <2>1. PICK g : Joins(g, G, n) /\ FlattenSeq(G) = g[n]
      BY <1>2, <1>6, FlattenJoins
    <2>2. Begins(g, f, n)
      <3>1. Joins(g, G, n) /\ Joins(f, F, m)
        BY <1>3, <2>1
      <3> QED BY <1>1, <3>1, JoinsAgree
    <2>3. f[n] = g[n] /\ m # 1
      BY <1>1, <1>6, <2>2 DEF Begins
    <2> QED BY <1>1, <1>4, <2>1, <2>3 DEF m
  <1> QED BY <1>5, <1>6

LEMMA FlattenTyped ==
  ASSUME NEW S, NEW n \in Nat
  PROVE  \A F \in [1..n -> Seq(S)] : FlattenSeq(F) \in Seq(S)
  <1> DEFINE T == {k \in Nat : ~ \A F \in [1..k -> Seq(S)] : FlattenSeq(F) \in Seq(S)}
  <1>1. ASSUME T # {} PROVE FALSE
    <2>1. PICK x \in T : \A y \in T : x <= y
      <3>1. T \subseteq Nat
        OBVIOUS
      <3> HIDE DEF T
      <3> QED BY <1>1, <3>1, SmallestExists
    <2>2. x \in Nat /\ ~ \A F \in [1..x -> Seq(S)] : FlattenSeq(F) \in Seq(S)
      BY <2>1
    <2>3. PICK F \in [1..x -> Seq(S)] : FlattenSeq(F) \notin Seq(S)
      BY <2>2
    <2>4. x # 0
      BY <2>3, FlattenNone, EmptySeq
    <2>5. x - 1 \in Nat /\ ~(x <= x - 1) /\ x - 1 + 1 = x
      BY <2>2, <2>4
    <2> DEFINE G == [k \in 1..x - 1 |-> F[k]]
    <2>6. G \in [1..x - 1 -> Seq(S)] /\ \A k \in 1..x - 1 : F[k] = G[k]
      BY <2>2
    <2> HIDE DEF G
    <2>7. FlattenSeq(G) \in Seq(S)
      BY <2>1, <2>5, <2>6
    <2>8. FlattenSeq(F) = FlattenSeq(G) \o F[x]
      <3> DEFINE n0 == x - 1
      <3>1. Grows(G, F, n0, S) /\ n0 \in Nat /\ n0 + 1 = x
        BY <2>5, <2>6 DEF Grows, Begins
      <3> HIDE DEF n0, T
      <3>2. FlattenSeq(F) = FlattenSeq(G) \o F[n0 + 1]
        BY <2>7, <3>1, FlattenStep, Zenon
      <3> QED BY <3>1, <3>2
    <2>9. F[x] \in Seq(S)
      BY <2>2, <2>4
    <2> QED BY <2>3, <2>7, <2>8, <2>9, ConcatProperties
  <1> QED BY <1>1


-----------------------------------------------------------------------------
(* Values and their encoding: both recursive definitions make sense.       *)

Layers(f, n) == f = [d \in 0..n |-> IF d = 0 THEN Scalars ELSE Over(f[d - 1])]

LEMMA LayersExist == ASSUME NEW n \in Nat PROVE \E f : Layers(f, n)
  <1> DEFINE T == {k \in Nat : ~ \E f : Layers(f, k)}
  <1>1. ASSUME T # {} PROVE FALSE
    <2>1. PICK x \in T : \A y \in T : x <= y
      <3>1. T \subseteq Nat
        OBVIOUS
      <3> HIDE DEF T
      <3> QED BY <1>1, <3>1, SmallestExists
    <2>2. x \in Nat /\ ~ \E f : Layers(f, x)
      BY <2>1
    <2>3. x # 0
      <3>1. Layers([d \in 0..0 |-> Scalars], 0)
        BY DEF Layers
      <3> QED BY <2>2, <3>1
    <2>4. x - 1 \in Nat /\ ~(x <= x - 1)
      BY <2>2, <2>3
    <2>5. PICK f : Layers(f, x - 1)
      BY <2>1, <2>4
    <2> DEFINE g == [d \in 0..x |-> IF d = 0 THEN Scalars ELSE Over(f[d - 1])]
    <2>6. \A d \in 0..x - 1 : g[d] = f[d]
      BY <2>4, <2>5 DEF Layers
    <2>7. \A d \in 0..x : d # 0 => d - 1 \in 0..x - 1
      BY <2>2
    <2>8. Layers(g, x)
      <3>1. \A d \in 0..x : g[d] = IF d = 0 THEN Scalars ELSE Over(g[d - 1])
        BY <2>6, <2>7
      <3>2. g = [d \in 0..x |-> g[d]]
        OBVIOUS
      <3> HIDE DEF g
      <3> QED BY <3>1, <3>2 DEF Layers
    <2> QED BY <2>2, <2>8
  <1> QED BY <1>1

LEMMA LayerIs ==
  /\ Layer[0] = Scalars
  /\ \A d \in 0..MaxDepth : d # 0 => Layer[d] = Over(Layer[d - 1])
  <1>1. \E f : Layers(f, MaxDepth)
    BY DepthAssumption, LayersExist
  <1>2. Layer = CHOOSE f : Layers(f, MaxDepth)
    BY DEF Layer, Layers
  <1>3. Layers(Layer, MaxDepth)
    BY <1>1, <1>2
  <1> QED BY <1>3, DepthAssumption DEF Layers

LEMMA OverGrows ==
  ASSUME NEW A, NEW B, A \subseteq B
  PROVE  Over(A) \subseteq Over(B) /\ Scalars \subseteq Over(A)
  <1>1. Seq(A) \subseteq Seq(B)
    BY SeqDef
  <1> QED BY <1>1 DEF Over

(* Values inside of a value.                                               *)
Agree(f, g, A) == \A v \in A : f[v] = g[v]

LEMMA EncodeAgrees ==
  ASSUME NEW A, NEW f, NEW g, Agree(f, g, A), NEW v \in Over(A)
  PROVE  EncodeStep(f, v) = EncodeStep(g, v)
  <1>1. CASE v \in Scalars
    BY <1>1 DEF Scalars, EncodeStep
  <1>2. CASE v \in [k : {"label"}, v : A]
    BY <1>2 DEF EncodeStep, Agree
  <1>3. CASE v.k \in {"array", "map"} /\ v.vs \in Seq(A)
    <2>1. \A j \in DOMAIN v.vs : v.vs[j] \in A
      BY <1>3
    <2>2. [j \in DOMAIN v.vs |-> f[v.vs[j]]] = [j \in DOMAIN v.vs |-> g[v.vs[j]]]
      BY <2>1 DEF Agree
    <2>3. FlattenSeq([j \in DOMAIN v.vs |-> f[v.vs[j]]]) = FlattenSeq([j \in DOMAIN v.vs |-> g[v.vs[j]]])
      BY <2>2, Zenon
    <2> QED BY <1>3, <2>3 DEF EncodeStep
  <1> QED BY <1>1, <1>2, <1>3 DEF Over

Encodes(f, A) == f = [v \in A |-> EncodeStep(f, v)]

LEMMA EncodesOver ==
  ASSUME NEW A, A \subseteq Over(A), NEW f, Encodes(f, A)
  PROVE  \E g : Encodes(g, Over(A))
  <1> DEFINE g == [v \in Over(A) |-> EncodeStep(f, v)]
  <1>1. Agree(f, g, A)
    BY DEF Encodes, Agree
  <1>2. \A v \in Over(A) : g[v] = EncodeStep(g, v)
    <2> TAKE v \in Over(A)
    <2>1. g[v] = EncodeStep(f, v)
      OBVIOUS
    <2> HIDE DEF g
    <2> QED BY <1>1, <2>1, EncodeAgrees
  <1>3. g = [v \in Over(A) |-> g[v]]
    OBVIOUS
  <1> HIDE DEF g
  <1> QED BY <1>2, <1>3 DEF Encodes

LEMMA LayersNest ==
  ASSUME NEW d \in 0..MaxDepth
  PROVE  Layer[d] \subseteq Over(Layer[d]) /\ Layer[d] \subseteq Values
  <1> DEFINE T == {x \in 0..MaxDepth : ~(Layer[x] \subseteq Over(Layer[x]))}
  <1>1. ASSUME T # {} PROVE FALSE
    <2>1. PICK x \in T : \A y \in T : x <= y
      <3>1. T \subseteq Nat
        BY DepthAssumption
      <3> HIDE DEF T
      <3> QED BY <1>1, <3>1, SmallestExists
    <2>2. x \in 0..MaxDepth /\ ~(Layer[x] \subseteq Over(Layer[x]))
      BY <2>1
    <2>3. x # 0
      BY <2>2, LayerIs, OverGrows
    <2>4. x - 1 \in 0..MaxDepth /\ ~(x <= x - 1)
      BY <2>2, <2>3, DepthAssumption
    <2>5. Layer[x - 1] \subseteq Over(Layer[x - 1])
      BY <2>1, <2>4
    <2>6. Layer[x] = Over(Layer[x - 1])
      BY <2>2, <2>3, LayerIs
    <2>7. Over(Layer[x - 1]) \subseteq Over(Layer[x])
      BY <2>5, <2>6, OverGrows
    <2> QED BY <2>2, <2>6, <2>7
  <1>2. \A x \in 0..MaxDepth : Layer[x] \subseteq Over(Layer[x])
    BY <1>1
  <1> DEFINE U == {n \in Nat : n <= MaxDepth /\ ~(Layer[MaxDepth - n] \subseteq Values)}
  <1>3. ASSUME U # {} PROVE FALSE
    <2>1. PICK x \in U : \A y \in U : x <= y
      <3>1. U \subseteq Nat
        OBVIOUS
      <3> HIDE DEF U
      <3> QED BY <1>3, <3>1, SmallestExists
    <2>2. x \in Nat /\ x <= MaxDepth /\ ~(Layer[MaxDepth - x] \subseteq Values)
      BY <2>1
    <2>3. x # 0
      BY <2>2, DepthAssumption DEF Values
    <2> DEFINE m == MaxDepth - x
    <2>4. x - 1 \in Nat /\ x - 1 <= MaxDepth /\ ~(x <= x - 1) /\ MaxDepth - (x - 1) = m + 1
          /\ m \in 0..MaxDepth /\ m + 1 \in 0..MaxDepth /\ m + 1 # 0 /\ m + 1 - 1 = m
      BY <2>2, <2>3, DepthAssumption
    <2>5. Layer[MaxDepth - (x - 1)] \subseteq Values
      BY <2>1, <2>4
    <2>6. Layer[m + 1] = Over(Layer[m])
      <3> HIDE DEF m
      <3> DEFINE o == m + 1
      <3>1. o \in 0..MaxDepth /\ o # 0 /\ o - 1 = m
        BY <2>4
      <3> HIDE DEF o
      <3>2. Layer[o] = Over(Layer[m])
        BY <3>1, LayerIs
      <3> QED BY <3>2 DEF o
    <2>7. Layer[m] \subseteq Layer[m + 1]
      BY <1>2, <2>4, <2>6
    <2> QED BY <2>2, <2>4, <2>5, <2>7
  <1>4. DepthAssumption
    BY DepthAssumption
  <1>5. MaxDepth - d \in Nat /\ MaxDepth - d <= MaxDepth /\ MaxDepth - (MaxDepth - d) = d
    BY DepthAssumption
  <1> HIDE DEF U
  <1>6. ~(MaxDepth - d \in U)
    BY <1>3
  <1> QED BY <1>2, <1>5, <1>6 DEF U

LEMMA EncodeIs == Encodes(Encode, Values)
  <1> DEFINE T == {d \in 0..MaxDepth : ~ \E f : Encodes(f, Layer[d])}
  <1>1. ASSUME T # {} PROVE FALSE
    <2>1. PICK x \in T : \A y \in T : x <= y
      <3>1. T \subseteq Nat
        BY DepthAssumption
      <3> HIDE DEF T
      <3> QED BY <1>1, <3>1, SmallestExists
    <2>2. x \in 0..MaxDepth /\ ~ \E f : Encodes(f, Layer[x])
      BY <2>1
    <2>3. x # 0
      <3> DEFINE g == [v \in Scalars |-> EncodeStep(v, v)]
      <3>1. \A f, v : v \in Scalars => EncodeStep(f, v) = EncodeStep(v, v)
        BY DEF Scalars, EncodeStep
      <3>2. Encodes(g, Scalars)
        BY <3>1 DEF Encodes
      <3> QED BY <2>2, <3>2, LayerIs
    <2>4. x - 1 \in 0..MaxDepth /\ ~(x <= x - 1)
      BY <2>2, <2>3, DepthAssumption
    <2>5. PICK f : Encodes(f, Layer[x - 1])
      BY <2>1, <2>4
    <2>6. Layer[x] = Over(Layer[x - 1])
      BY <2>2, <2>3, LayerIs
    <2>7. Layer[x - 1] \subseteq Over(Layer[x - 1])
      BY <2>4, LayersNest
    <2> QED BY <2>2, <2>5, <2>6, <2>7, EncodesOver
  <1>2. MaxDepth \in 0..MaxDepth
    BY DepthAssumption
  <1> HIDE DEF T
  <1>3. ~(MaxDepth \in T)
    BY <1>1
  <1>4. \E f : Encodes(f, Values)
    BY <1>2, <1>3 DEF T, Values
  <1>5. Encode = CHOOSE f : Encodes(f, Values)
    BY DEF Encode, Encodes
  <1> QED BY <1>4, <1>5

(* An encoding is some bytes, the first of which is no Break.              *)
Good(e) == e \in Seq(Byte) /\ Len(e) \in Nat \ {0} /\ e[1] # Break

LEMMA OneMore ==
  ASSUME NEW S, NEW x \in S, NEW e \in Seq(S)
  PROVE  /\ <<x>> \o e \in Seq(S) /\ Len(<<x>> \o e) = 1 + Len(e) /\ (<<x>> \o e)[1] = x
         /\ \A c \in 1..Len(e) : (<<x>> \o e)[1 + c] = e[c]
  <1>1. <<x>> \in Seq(S) /\ Len(<<x>>) = 1 /\ <<x>>[1] = x /\ Len(e) \in Nat
    BY LenProperties
  <1> DEFINE s == <<x>>
  <1> HIDE DEF s
  <1>2. s \in Seq(S) /\ Len(s) = 1 /\ s[1] = x
    BY <1>1 DEF s
  <1>3. s \o e \in Seq(S) /\ Len(s \o e) = 1 + Len(e)
        /\ \A k \in 1..1 + Len(e) : (s \o e)[k] = IF k <= 1 THEN s[k] ELSE e[k - 1]
    <2>1. /\ s \o e \in Seq(S) /\ Len(s \o e) = Len(s) + Len(e)
          /\ \A k \in 1..Len(s) + Len(e) : (s \o e)[k] = IF k <= Len(s) THEN s[k] ELSE e[k - Len(s)]
      BY <1>2, ConcatProperties
    <2> QED BY <1>2, <2>1
  <1>4. (s \o e)[1] = x
    BY <1>1, <1>2, <1>3
  <1>5. \A c \in 1..Len(e) : (s \o e)[1 + c] = e[c]
    <2> TAKE c \in 1..Len(e)
    <2>1. 1 + c \in 1..1 + Len(e) /\ ~(1 + c <= 1) /\ 1 + c - 1 = c
      BY <1>1
    <2>2. (s \o e)[1 + c] = IF 1 + c <= 1 THEN s[1 + c] ELSE e[1 + c - 1]
      BY <1>3, <2>1
    <2> QED BY <2>1, <2>2
  <1> QED BY <1>3, <1>4, <1>5 DEF s

LEMMA RawTyped ==
  ASSUME NEW n \in Nat
  PROVE  Raw(n) \in Seq(Byte) /\ Len(Raw(n)) = n
  <1>1. \A j \in 1..n : <<"raw", "byte", j>> \in Byte
    BY DEF Byte, Details
  <1>2. Raw(n) \in [1..n -> Byte]
    BY <1>1 DEF Raw
  <1> QED BY <1>2, OfLength

LEMMA DigitTyped ==
  ASSUME NEW n \in Nat, NEW q \in Nat
  PROVE  Digit(n, q) \in Nat /\ High(n) \in Nat
  <1>1. \A m \in Nat : High(m) \in Nat /\ m % 256 \in Nat
    BY DEF High
  <1> QED BY <1>1 DEF Digit

Tags == {"bytes", "str", "array", "map"}

LEMMA HeaderTyped ==
  ASSUME NEW tag \in Tags, NEW n \in Nat, NEW long \in Widths
  PROVE  /\ Header(tag, n, long) \in Seq(Byte) /\ Len(Header(tag, n, long)) = 1 + long
         /\ long = 0 => Header(tag, n, long)[1] = <<tag, "short", n>>
         /\ long # 0 => /\ Header(tag, n, long)[1] = <<tag, "long", long>>
                        /\ \A j \in 1..long : Header(tag, n, long)[1 + j] = <<"raw", "byte", Digit(n, long - j)>>
         /\ Header(tag, n, long)[1] # Break
  <1>1. long \in Nat
    BY DEF Widths
  <1>2. CASE long = 0
    <2> DEFINE x == <<tag, "short", n>>
    <2>1. x \in Byte /\ x # Break
      BY DEF Byte, Details, Tags, Break
    <2> HIDE DEF x
    <2>2. <<x>> \in Seq(Byte) /\ Len(<<x>>) = 1 /\ <<x>>[1] = x
      BY <2>1
    <2> QED BY <1>2, <2>1, <2>2 DEF Header, x
  <1>3. CASE long # 0
    <2> DEFINE x == <<tag, "long", long>>  e == [j \in 1..long |-> <<"raw", "byte", Digit(n, long - j)>>]
    <2>1. x \in Byte /\ x # Break
      BY <1>1 DEF Byte, Details, Tags, Break
    <2>2. \A j \in 1..long : <<"raw", "byte", Digit(n, long - j)>> \in Byte
      <3> TAKE j \in 1..long
      <3> DEFINE q == Digit(n, long - j)
      <3>1. q \in Nat
        <4>1. long - j \in Nat
          BY <1>1
        <4> QED BY <4>1, DigitTyped
      <3> HIDE DEF q
      <3>2. <<"raw", "byte", q>> \in Byte
        BY <3>1 DEF Byte, Details
      <3> QED BY <3>2 DEF q
    <2>3. e \in [1..long -> Byte]
      BY <2>2
    <2>4. e \in Seq(Byte) /\ Len(e) = long /\ \A j \in 1..long : e[j] = <<"raw", "byte", Digit(n, long - j)>>
      BY <1>1, <2>3, OfLength
    <2>5. Header(tag, n, long) = <<x>> \o e
      BY <1>3 DEF Header
    <2> HIDE DEF x, e
    <2>6. /\ <<x>> \o e \in Seq(Byte) /\ Len(<<x>> \o e) = 1 + Len(e) /\ (<<x>> \o e)[1] = x
          /\ \A c \in 1..Len(e) : (<<x>> \o e)[1 + c] = e[c]
      <3>1. x \in Byte /\ e \in Seq(Byte)
        BY <2>1, <2>4
      <3> QED BY <3>1, OneMore
    <2>7. \A j \in 1..long : (<<x>> \o e)[1 + j] = <<"raw", "byte", Digit(n, long - j)>>
      BY <2>4, <2>6
    <2>8. x = <<tag, "long", long>>
      BY DEF x
    <2> HIDE DEF Break
    <2> QED BY <1>3, <2>1, <2>4, <2>5, <2>6, <2>7, <2>8
  <1> QED BY <1>2, <1>3

LEMMA GoodBefore ==
  ASSUME NEW e, Good(e), NEW f \in Seq(Byte)
  PROVE  Good(e \o f) /\ Len(e \o f) = Len(e) + Len(f) /\ (e \o f)[1] = e[1]
  <1>1. e \in Seq(Byte) /\ Len(e) \in Nat /\ Len(e) # 0 /\ Len(f) \in Nat /\ e[1] # Break
    BY LenProperties DEF Good
  <1>2. e \o f \in Seq(Byte) /\ Len(e \o f) = Len(e) + Len(f)
        /\ \A k \in 1..Len(e) + Len(f) : (e \o f)[k] = IF k <= Len(e) THEN e[k] ELSE f[k - Len(e)]
    BY <1>1, ConcatProperties
  <1>3. (e \o f)[1] = e[1] /\ Len(e) + Len(f) \in Nat \ {0}
    BY <1>1, <1>2
  <1> QED BY <1>1, <1>2, <1>3 DEF Good

LEMMA GoodOne ==
  ASSUME NEW x \in Byte, x # Break
  PROVE  Good(<<x>>) /\ Len(<<x>>) = 1
  <1>1. <<x>> \in Seq(Byte) /\ Len(<<x>>) = 1 /\ <<x>>[1] = x
    OBVIOUS
  <1> QED BY <1>1 DEF Good

LEMMA ScalarGood ==
  ASSUME NEW f, NEW v \in Scalars
  PROVE  Good(EncodeStep(f, v))
  <1>1. CASE v \in [k : {"int"}, more : Widths]
    <2> DEFINE x == IF v.more = 0 THEN <<"int", "short", 3>> ELSE <<"int", "long", v.more>>
    <2>1. v.more \in Nat
      BY <1>1 DEF Widths
    <2>2. x \in Byte /\ x # Break
      BY <2>1 DEF Byte, Details, Break
    <2>3. EncodeStep(f, v) = <<x>> \o Raw(v.more)
      BY <1>1 DEF EncodeStep
    <2> HIDE DEF x
    <2> QED BY <2>1, <2>2, <2>3, RawTyped, GoodOne, GoodBefore
  <1>2. CASE v.k \in {"bytes", "str"} /\ v.n \in Nat /\ v.long \in Widths
    <2> DEFINE h == Header(v.k, v.n, v.long)  e == [j \in 1..v.n |-> Break]
    <2>1. Good(h)
      <3>1. v.k \in Tags
        BY <1>2 DEF Tags
      <3>2. h \in Seq(Byte) /\ Len(h) = 1 + v.long /\ h[1] # Break
        BY <1>2, <3>1, HeaderTyped
      <3>3. 1 + v.long \in Nat \ {0}
        BY <1>2 DEF Widths
      <3> HIDE DEF h
      <3> QED BY <3>2, <3>3 DEF Good
    <2>2. e \in Seq(Byte)
      <3>1. Break \in Byte
        BY DEF Break, Byte, Details, DecoderLen, SpecialLen
      <3>2. e \in [1..v.n -> Byte]
        BY <3>1
      <3> HIDE DEF e
      <3> QED BY <1>2, <3>2, OfLength
    <2>3. EncodeStep(f, v) = h \o e
      BY <1>2 DEF EncodeStep
    <2> HIDE DEF h, e
    <2> QED BY <2>1, <2>2, <2>3, GoodBefore
  <1>3. CASE v.k = "special" /\ v.s \in DOMAIN DecoderLen \ {"break"} /\ v.more \in Nat
    <2> DEFINE x == <<"special", v.s, 0>>
    <2>1. x \in Byte
      <3>1. v.s \in Details
        BY <1>3 DEF Details
      <3> QED BY <3>1 DEF Byte
    <2>2. x # Break
      BY <1>3 DEF Break
    <2>3. EncodeStep(f, v) = <<x>> \o Raw(v.more)
      BY <1>3 DEF EncodeStep
    <2> HIDE DEF x
    <2> QED BY <1>3, <2>1, <2>2, <2>3, RawTyped, GoodOne, GoodBefore
  <1> QED BY <1>1, <1>2, <1>3 DEF Scalars

LEMMA OverGood ==
  ASSUME NEW A, NEW f, \A wd \in A : Good(f[wd]), NEW v \in Over(A)
  PROVE  Good(EncodeStep(f, v))
  <1>1. CASE v \in Scalars
    BY <1>1, ScalarGood
  <1>2. CASE v \in [k : {"label"}, v : A]
    <2> DEFINE x == <<"label", "short", 1>>
    <2>1. x \in Byte /\ x # Break
      BY DEF Byte, Details, Break
    <2>2. EncodeStep(f, v) = <<x>> \o f[v.v]
      BY <1>2 DEF EncodeStep
    <2>3. f[v.v] \in Seq(Byte)
      BY <1>2 DEF Good
    <2> HIDE DEF x
    <2> QED BY <2>1, <2>2, <2>3, GoodOne, GoodBefore
  <1>3. CASE v.k \in {"array", "map"} /\ v.vs \in Seq(A) /\ v.open \in BOOLEAN
    <2> DEFINE F == [j \in DOMAIN v.vs |-> f[v.vs[j]]]  all == FlattenSeq(F)  n == Len(v.vs)
    <2>1. n \in Nat /\ DOMAIN v.vs = 1..n /\ \A j \in 1..n : v.vs[j] \in A
      BY <1>3, LenProperties
    <2>2. F \in [1..n -> Seq(Byte)]
      BY <2>1 DEF Good
    <2> HIDE DEF F, n
    <2>3. all \in Seq(Byte)
      BY <2>1, <2>2, FlattenTyped
    <2> HIDE DEF all
    <2>4. CASE v.open
      <3> DEFINE x == <<v.k, "open", 0>>
      <3>1. x \in Byte /\ x # Break
        BY <1>3 DEF Byte, Details, Break
      <3>2. Break \in Byte
        BY DEF Break, Byte, Details, DecoderLen, SpecialLen
      <3>3. EncodeStep(f, v) = <<x>> \o all \o <<Break>>
        BY <1>3, <2>4 DEF EncodeStep, all, F
      <3> HIDE DEF x, Break
      <3>4. Good(<<x>> \o all)
        BY <2>3, <3>1, GoodOne, GoodBefore
      <3>5. <<Break>> \in Seq(Byte)
        BY <3>2
      <3> QED BY <3>3, <3>4, <3>5, GoodBefore
    <2>5. CASE ~v.open
      <3> DEFINE c == Count(v)  h == Header(v.k, c, Width(c))
      <3>1. c \in Nat
        <4>1. n \div 2 \in Nat
          BY <2>1
        <4> QED BY <2>1, <4>1 DEF Count, n
      <3>2. EncodeStep(f, v) = h \o all
        BY <1>3, <2>5 DEF EncodeStep, all, F
      <3>3. v.k \in Tags
        BY <1>3 DEF Tags
      <3>4. Width(c) \in Widths
        BY DEF Width, Widths
      <3> HIDE DEF c
      <3>5. h \in Seq(Byte) /\ Len(h) = 1 + Width(c) /\ h[1] # Break
        BY <3>1, <3>3, <3>4, HeaderTyped
      <3>6. 1 + Width(c) \in Nat \ {0}
        BY <3>4 DEF Widths
      <3> HIDE DEF h
      <3>7. Good(h)
        BY <3>5, <3>6 DEF Good
      <3> QED BY <2>3, <3>2, <3>7, GoodBefore
    <2> QED BY <2>4, <2>5
  <1> QED BY <1>1, <1>2, <1>3 DEF Over

LEMMA EncGood ==
  ASSUME NEW v \in Values
  PROVE  Good(Enc(v)) /\ Enc(v) = EncodeStep(Encode, v)
  <1> DEFINE P == {u \in Values : Good(Encode[u])}
  <1>1. \A u \in Values : Encode[u] = EncodeStep(Encode, u)
    BY EncodeIs DEF Encodes
  <1>2. \A d \in 0..MaxDepth : Layer[d] \subseteq Values
    BY LayersNest
  <1>3. \A d \in 0..MaxDepth : Layer[d] \subseteq P
    <2> DEFINE T == {d \in 0..MaxDepth : ~(Layer[d] \subseteq P)}
    <2>1. ASSUME T # {} PROVE FALSE
      <3>1. PICK x \in T : \A y \in T : x <= y
        <4>1. T \subseteq Nat
          BY DepthAssumption
        <4> HIDE DEF T
        <4> QED BY <2>1, <4>1, SmallestExists
      <3>2. x \in 0..MaxDepth /\ ~(Layer[x] \subseteq P)
        BY <3>1
      <3>3. x # 0
        <4>1. \A u \in Scalars : Good(EncodeStep(Encode, u))
          BY ScalarGood
        <4> QED BY <1>1, <1>2, <3>2, <4>1, LayerIs
      <3>4. x - 1 \in 0..MaxDepth /\ ~(x <= x - 1)
        BY <3>2, <3>3, DepthAssumption
      <3>5. \A u \in Layer[x - 1] : Good(Encode[u])
        BY <3>1, <3>4
      <3>6. \A u \in Over(Layer[x - 1]) : Good(EncodeStep(Encode, u))
        BY <3>5, OverGood
      <3>7. Layer[x] = Over(Layer[x - 1])
        BY <3>2, <3>3, LayerIs
      <3> QED BY <1>1, <1>2, <3>2, <3>6, <3>7
    <2> QED BY <2>1
  <1>4. MaxDepth \in 0..MaxDepth
    BY DepthAssumption
  <1> QED BY <1>1, <1>3, <1>4 DEF Values, Enc
-----------------------------------------------------------------------------
(* Streams and where their events begin.                                   *)

Upto(vs, j) == Stream(SubSeq(vs, 1, j))

LEMMA PartIs ==
  ASSUME NEW S, NEW s \in Seq(S), NEW a \in 0..Len(s), NEW c \in a..Len(s)
  PROVE  /\ SubSeq(s, a + 1, c) \in Seq(S) /\ Len(SubSeq(s, a + 1, c)) = c - a
         /\ \A k \in 1..c - a : SubSeq(s, a + 1, c)[k] = s[a + k]
  <1>1. \A k \in a + 1..c : s[k] \in S
    BY ElementOfSeq, LenProperties
  <1>2. a + 1 \in Int /\ c \in Int /\ a \in Int /\ a <= c
    BY LenProperties
  <1> DEFINE m == a + 1
  <1>3. /\ SubSeq(s, m, c) \in Seq(S) /\ Len(SubSeq(s, m, c)) = IF m <= c THEN c - m + 1 ELSE 0
        /\ \A k \in 1..c - m + 1 : SubSeq(s, m, c)[k] = s[m + k - 1]
    <2>1. m \in Int /\ \A k \in m..c : s[k] \in S
      BY <1>1, <1>2
    <2> HIDE DEF m
    <2> QED BY <1>2, <2>1, SubSeqProperties
  <1>4. (IF m <= c THEN c - m + 1 ELSE 0) = c - a /\ c - m + 1 = c - a
    BY <1>2
  <1>5. \A k \in 1..c - a : SubSeq(s, m, c)[k] = s[a + k]
    <2> TAKE k \in 1..c - a
    <2>1. k \in 1..c - m + 1 /\ m + k - 1 = a + k
      BY <1>2
    <2> HIDE DEF m
    <2> QED BY <1>3, <2>1
  <1> QED BY <1>3, <1>4, <1>5

(* A part of a part. *)
LEMMA PartOfPart ==
  ASSUME NEW S, NEW s \in Seq(S), NEW a \in 0..Len(s), NEW c \in a..Len(s),
         NEW m \in 0..c - a, NEW n \in m..c - a
  PROVE  SubSeq(SubSeq(s, a + 1, c), m + 1, n) = SubSeq(s, a + m + 1, a + n)
  <1> DEFINE u == SubSeq(s, a + 1, c)  v == SubSeq(u, m + 1, n)
             x == a + m  y == a + n  z == SubSeq(s, x + 1, y)
  <1>1. a \in Nat /\ c \in Nat /\ m \in Nat /\ n \in Nat /\ Len(s) \in Nat
    BY LenProperties
  <1>2. u \in Seq(S) /\ Len(u) = c - a /\ \A k \in 1..c - a : u[k] = s[a + k]
    BY PartIs
  <1> HIDE DEF u
  <1>3. v \in Seq(S) /\ Len(v) = n - m /\ \A k \in 1..n - m : v[k] = u[m + k]
    <2>1. m \in 0..Len(u) /\ n \in m..Len(u)
      BY <1>1, <1>2
    <2> QED BY <1>2, <2>1, PartIs
  <1>4. x \in 0..Len(s) /\ y \in x..Len(s) /\ y - x = n - m
    BY <1>1
  <1> HIDE DEF v, x, y
  <1>5. z \in Seq(S) /\ Len(z) = n - m /\ \A k \in 1..n - m : z[k] = s[x + k]
    BY <1>4, PartIs
  <1> HIDE DEF z
  <1>6. \A k \in 1..n - m : v[k] = z[k]
    <2> TAKE k \in 1..n - m
    <2>1. m + k \in 1..c - a /\ a + (m + k) = x + k
      BY <1>1 DEF x
    <2> QED BY <1>2, <1>3, <1>5, <2>1
  <1>7. v = z
    BY <1>3, <1>5, <1>6, SeqEqual
  <1> QED BY <1>7 DEF u, v, x, y, z

(* Two parts next to each other. *)
LEMMA PartsJoin ==
  ASSUME NEW S, NEW s \in Seq(S), NEW a \in 0..Len(s), NEW c \in a..Len(s), NEW e \in c..Len(s)
  PROVE  SubSeq(s, a + 1, c) \o SubSeq(s, c + 1, e) = SubSeq(s, a + 1, e)
  <1> DEFINE m == a + 1
  <1>1. m \in 1..Len(s) + 1 /\ c \in m - 1..Len(s) /\ e \in c..Len(s)
    BY LenProperties
  <1> HIDE DEF m
  <1>2. SubSeq(s, m, c) \o SubSeq(s, c + 1, e) = SubSeq(s, m, e)
    BY <1>1, ConcatAdjacentSubSeq
  <1> QED BY <1>2 DEF m

LEMMA StreamTyped ==
  ASSUME NEW vs \in Seq(Values)
  PROVE  Stream(vs) \in Seq(Byte) /\ Len(Stream(vs)) \in Nat
  <1>1. Len(vs) \in Nat /\ DOMAIN vs = 1..Len(vs)
    BY LenProperties
  <1>2. [j \in DOMAIN vs |-> Enc(vs[j])] \in [1..Len(vs) -> Seq(Byte)]
    BY <1>1, EncGood, ElementOfSeq DEF Good
  <1>3. Stream(vs) \in Seq(Byte)
    BY <1>1, <1>2, FlattenTyped DEF Stream
  <1> QED BY <1>3, LenProperties

LEMMA FirstEvents ==
  ASSUME NEW vs \in Seq(Values), NEW j \in 0..Len(vs)
  PROVE  /\ SubSeq(vs, 1, j) \in Seq(Values) /\ DOMAIN SubSeq(vs, 1, j) = 1..j
         /\ \A k \in 1..j : SubSeq(vs, 1, j)[k] = vs[k]
         /\ Upto(vs, j) \in Seq(Byte) /\ Before(vs, j) = Len(Upto(vs, j)) /\ Before(vs, j) \in Nat
  <1>1. Len(vs) \in Nat /\ DOMAIN vs = 1..Len(vs) /\ j \in Nat
    BY LenProperties
  <1>2. \A k \in 1..j : vs[k] \in Values
    BY <1>1, ElementOfSeq
  <1>3. /\ SubSeq(vs, 1, j) \in Seq(Values)
        /\ Len(SubSeq(vs, 1, j)) = IF 1 <= j THEN j - 1 + 1 ELSE 0
        /\ \A k \in 1..j - 1 + 1 : SubSeq(vs, 1, j)[k] = vs[1 + k - 1]
    <2> DEFINE one == 1
    <2>1. one \in Int /\ j \in Int /\ \A k \in one..j : vs[k] \in Values
      BY <1>1, <1>2
    <2> HIDE DEF one
    <2>2. /\ SubSeq(vs, one, j) \in Seq(Values)
          /\ Len(SubSeq(vs, one, j)) = IF one <= j THEN j - one + 1 ELSE 0
          /\ \A k \in 1..j - one + 1 : SubSeq(vs, one, j)[k] = vs[one + k - 1]
      BY <2>1, SubSeqProperties
    <2> QED BY <2>2 DEF one
  <1> DEFINE first == SubSeq(vs, 1, j)
  <1>4. first \in Seq(Values) /\ Len(first) = j
    BY <1>1, <1>3
  <1>5. \A k \in 1..j : first[k] = vs[k]
    BY <1>1, <1>3
  <1>6. Upto(vs, j) = Stream(first) /\ Before(vs, j) = Len(Stream(first))
    BY DEF Upto, Before
  <1> HIDE DEF first
  <1>7. DOMAIN first = 1..j /\ Stream(first) \in Seq(Byte) /\ Len(Stream(first)) \in Nat
    BY <1>4, StreamTyped, LenProperties
  <1> QED BY <1>4, <1>5, <1>6, <1>7 DEF first

LEMMA StreamStep ==
  ASSUME NEW vs \in Seq(Values), NEW j \in 0..Len(vs), j # Len(vs)
  PROVE  /\ Enc(vs[j + 1]) \in Seq(Byte)
         /\ Upto(vs, j + 1) = Upto(vs, j) \o Enc(vs[j + 1])
         /\ Before(vs, j + 1) = Before(vs, j) + Len(Enc(vs[j + 1]))
  <1>1. Len(vs) \in Nat /\ j \in Nat /\ j + 1 \in 1..Len(vs) /\ j + 1 \in 0..Len(vs)
        /\ \A k \in 1..j + 1 : vs[k] \in Values /\ Enc(vs[k]) \in Seq(Byte)
    <2>1. Len(vs) \in Nat /\ j \in Nat /\ j + 1 \in 1..Len(vs) /\ j + 1 \in 0..Len(vs)
      BY LenProperties
    <2> QED BY <2>1, ElementOfSeq, EncGood DEF Good
  <1> DEFINE n == j + 1
             G == [k \in 1..j |-> Enc(vs[k])]
             F == [k \in 1..n |-> Enc(vs[k])]
  <1>2. Upto(vs, j) = FlattenSeq(G)
    BY FirstEvents DEF Upto, Stream
  <1>3. Upto(vs, n) = FlattenSeq(F)
    <2>1. n \in 0..Len(vs)
      BY <1>1
    <2> HIDE DEF n
    <2> QED BY <2>1, FirstEvents DEF Upto, Stream
  <1>4. Grows(G, F, j, Byte)
    BY <1>1 DEF Grows, Begins
  <1>5. F[n] = Enc(vs[j + 1]) /\ n = j + 1 /\ n \in Nat /\ j \in Nat
    BY <1>1
  <1> HIDE DEF F, G, n
  <1>6. FlattenSeq(G) \in Seq(Byte)
    BY <1>1, <1>4, FlattenTyped DEF Grows
  <1>7. FlattenSeq(F) = FlattenSeq(G) \o F[n]
    BY <1>4, <1>5, <1>6, FlattenStep
  <1>8. Upto(vs, j + 1) = Upto(vs, j) \o Enc(vs[j + 1]) /\ Enc(vs[j + 1]) \in Seq(Byte)
    <2>1. Upto(vs, n) = Upto(vs, j) \o F[n]
      BY <1>2, <1>3, <1>7
    <2>2. Upto(vs, n) = Upto(vs, j) \o Enc(vs[j + 1])
      BY <1>5, <2>1
    <2> QED BY <1>1, <2>2 DEF n
  <1>9. Before(vs, j + 1) = Len(Upto(vs, j + 1)) /\ Before(vs, j) = Len(Upto(vs, j))
        /\ Upto(vs, j) \in Seq(Byte)
    <2>1. n \in 0..Len(vs) /\ n = j + 1
      BY <1>1 DEF n
    <2>2. Before(vs, n) = Len(Upto(vs, n))
      BY <2>1, FirstEvents
    <2>3. Before(vs, j) = Len(Upto(vs, j)) /\ Upto(vs, j) \in Seq(Byte)
      BY FirstEvents
    <2> QED BY <2>1, <2>2, <2>3
  <1>10. Len(Upto(vs, j) \o Enc(vs[j + 1])) = Len(Upto(vs, j)) + Len(Enc(vs[j + 1]))
    BY <1>8, <1>9, ConcatProperties, Zenon
  <1> QED BY <1>8, <1>9, <1>10

LEMMA StreamWhole ==
  ASSUME NEW vs \in Seq(Values)
  PROVE  /\ Upto(vs, Len(vs)) = Stream(vs) /\ Before(vs, Len(vs)) = Len(Stream(vs))
         /\ Upto(vs, 0) = << >> /\ Before(vs, 0) = 0
  <1>1. SubSeq(vs, 1, Len(vs)) = vs
    BY SubSeqFull
  <1>2. Len(vs) \in Nat /\ 0 \in 0..Len(vs)
    BY LenProperties
  <1>3. DOMAIN SubSeq(vs, 1, 0) = 1..0
    BY <1>2, FirstEvents
  <1> DEFINE F == [k \in 1..0 |-> Enc(SubSeq(vs, 1, 0)[k])]
  <1>4. Upto(vs, 0) = FlattenSeq(F)
    BY <1>3 DEF Upto, Stream
  <1>5. F \in [1..0 -> Seq(Byte)]
    OBVIOUS
  <1> HIDE DEF F
  <1>6. FlattenSeq(F) = << >>
    BY <1>5, FlattenNone
  <1>7. Before(vs, 0) = Len(Upto(vs, 0))
    BY DEF Before, Upto
  <1>8. Upto(vs, 0) = << >> /\ Before(vs, 0) = 0
    BY <1>4, <1>6, <1>7, EmptySeq
  <1>9. Upto(vs, Len(vs)) = Stream(vs) /\ Before(vs, Len(vs)) = Len(Stream(vs))
    BY <1>1 DEF Upto, Before
  <1> QED BY <1>8, <1>9

(* The bytes of the first j events are the first of the stream.            *)
LEMMA UptoIsPart ==
  ASSUME NEW vs \in Seq(Values), NEW j \in 0..Len(vs)
  PROVE  /\ Before(vs, j) \in 0..Len(Stream(vs))
         /\ Upto(vs, j) = SubSeq(Stream(vs), 1, Before(vs, j))
  <1> DEFINE S == Stream(vs)
             P(h) == Before(vs, h) \in 0..Len(S) /\ Upto(vs, h) = SubSeq(S, 1, Before(vs, h))
             T == {m \in 0..Len(vs) : ~P(Len(vs) - m)}
  <1>1. S \in Seq(Byte) /\ Len(S) \in Nat /\ Len(vs) \in Nat
    BY StreamTyped, LenProperties
  <1> HIDE DEF S
  <1>2. P(Len(vs))
    BY <1>1, StreamWhole, SubSeqFull DEF S
  <1>3. ASSUME T # {} PROVE FALSE
    <2>1. PICK x \in T : \A y \in T : x <= y
      <3>1. T \subseteq Nat
        BY <1>1
      <3> HIDE DEF T
      <3> QED BY <1>3, <3>1, SmallestExists
    <2> DEFINE h == Len(vs) - x
    <2>2. x \in 0..Len(vs) /\ ~P(h)
      BY <2>1
    <2>3. x # 0
      <3>1. x = 0 => h = Len(vs)
        BY <1>1
      <3> HIDE DEF P, h
      <3> QED BY <1>2, <2>2, <3>1
    <2>4. h \in 0..Len(vs) /\ h # Len(vs) /\ h + 1 \in 0..Len(vs) /\ Len(vs) - (x - 1) = h + 1
          /\ x - 1 \in 0..Len(vs) /\ ~(x <= x - 1)
      BY <1>1, <2>2, <2>3
    <2>5. P(h + 1)
      <3>1. x - 1 \notin T
        BY <2>1, <2>4
      <3>2. P(Len(vs) - (x - 1))
        BY <2>4, <3>1
      <3> HIDE DEF P, h
      <3> QED BY <2>4, <3>2
    <2> HIDE DEF h
    <2> DEFINE e == Enc(vs[h + 1])  n == Before(vs, h)  m == Before(vs, h + 1)
               u == Upto(vs, h)  v == Upto(vs, h + 1)
    <2>6. /\ e \in Seq(Byte) /\ v = u \o e /\ m = n + Len(e)
          /\ u \in Seq(Byte) /\ n = Len(u) /\ n \in Nat /\ m \in 0..Len(S) /\ v = SubSeq(S, 1, m)
      BY <2>4, <2>5, StreamStep, FirstEvents
    <2>7. u = SubSeq(v, 1, n)
      <3> HIDE DEF u, e, n, m, v
      <3>1. u \o e \in Seq(Byte) /\ Len(u \o e) = Len(u) + Len(e)
            /\ \A k \in 1..Len(u) + Len(e) : (u \o e)[k] = IF k <= Len(u) THEN u[k] ELSE e[k - Len(u)]
        BY <2>6, ConcatProperties
      <3>2. Len(e) \in Nat /\ Len(u) \in Nat
        BY <2>6, LenProperties
      <3> DEFINE c == u \o e
      <3>3. 0 \in 0..Len(c) /\ n \in 0..Len(c) /\ c \in Seq(Byte)
        BY <2>6, <3>1, <3>2
      <3>4. \A k \in 1..n : c[k] = u[k]
        BY <2>6, <3>1, <3>2
      <3> HIDE DEF c
      <3>5. /\ SubSeq(c, 0 + 1, n) \in Seq(Byte) /\ Len(SubSeq(c, 0 + 1, n)) = n - 0
            /\ \A k \in 1..n - 0 : SubSeq(c, 0 + 1, n)[k] = c[0 + k]
        BY <3>3, PartIs
      <3> DEFINE z == SubSeq(c, 1, n)
      <3>6. z \in Seq(Byte) /\ Len(z) = n /\ \A k \in 1..n : z[k] = c[k]
        BY <2>6, <3>5
      <3> HIDE DEF z
      <3>7. u = z
        BY <2>6, <3>4, <3>6, SeqEqual
      <3> QED BY <2>6, <3>7 DEF z, c
    <2>8. n \in 0..Len(S) /\ n \in 0..m
      <3>1. Len(e) \in Nat
        BY <2>6, LenProperties
      <3> HIDE DEF e, n, m, u
      <3> QED BY <1>1, <2>6, <3>1
    <2>9. SubSeq(SubSeq(S, 1, m), 1, n) = SubSeq(S, 1, n)
      <3> HIDE DEF n, m
      <3>1. 0 \in 0..Len(S) /\ m \in 0..Len(S) /\ 0 \in 0..m - 0 /\ n \in 0..m - 0
        BY <1>1, <2>6, <2>8
      <3>2. SubSeq(SubSeq(S, 0 + 1, m), 0 + 1, n) = SubSeq(S, 0 + 0 + 1, 0 + n)
        BY <1>1, <3>1, PartOfPart
      <3>3. 0 + 1 = 1 /\ 0 + 0 + 1 = 1 /\ 0 + n = n
        BY <2>6
      <3> QED BY <3>2, <3>3
    <2>10. u = SubSeq(S, 1, n)
      BY <2>6, <2>7, <2>9
    <2> QED BY <2>2, <2>8, <2>10
  <1>4. Len(vs) - j \in 0..Len(vs) /\ Len(vs) - (Len(vs) - j) = j
    BY <1>1
  <1>5. P(Len(vs) - (Len(vs) - j))
    <2>1. Len(vs) - j \notin T
      BY <1>3
    <2> QED BY <1>4, <2>1
  <1>6. P(j)
    <2> HIDE DEF P
    <2> QED BY <1>4, <1>5
  <1> QED BY <1>6 DEF S

(* An event is the part of the stream between two borders.                 *)
LEMMA EventIsPart ==
  ASSUME NEW vs \in Seq(Values), NEW j \in 0..Len(vs), j # Len(vs)
  PROVE  /\ j + 1 \in 0..Len(vs) /\ Before(vs, j) <= Before(vs, j + 1)
         /\ Enc(vs[j + 1]) = SubSeq(Stream(vs), Before(vs, j) + 1, Before(vs, j + 1))
  <1> DEFINE S == Stream(vs)  e == Enc(vs[j + 1])  n == Before(vs, j)  m == Before(vs, j + 1)
             d == SubSeq(S, n + 1, m)  u == SubSeq(S, 1, n)
  <1>1. S \in Seq(Byte) /\ Len(S) \in Nat /\ j + 1 \in 0..Len(vs)
    BY StreamTyped, LenProperties
  <1>2. e \in Seq(Byte) /\ Len(e) \in Nat /\ m = n + Len(e)
        /\ Upto(vs, j + 1) = Upto(vs, j) \o e
    BY StreamStep, LenProperties
  <1>3. n \in 0..Len(S) /\ m \in 0..Len(S) /\ Upto(vs, j) = u /\ Upto(vs, j + 1) = SubSeq(S, 1, m)
    BY <1>1, UptoIsPart
  <1> HIDE DEF S, e, n, m
  <1>4. m \in n..Len(S) /\ n \in Nat
    BY <1>1, <1>2, <1>3
  <1>5. d \in Seq(Byte) /\ Len(d) = m - n
    BY <1>1, <1>3, <1>4, PartIs
  <1>6. u \in Seq(Byte)
    <2>1. 0 \in 0..Len(S) /\ n \in 0..Len(S)
      BY <1>1, <1>3
    <2>2. SubSeq(S, 0 + 1, n) \in Seq(Byte)
      BY <1>1, <2>1, PartIs
    <2> QED BY <2>2
  <1>7. SubSeq(S, 1, m) = u \o d
    <2>1. 0 \in 0..Len(S) /\ n \in 0..Len(S) /\ m \in n..Len(S)
      BY <1>1, <1>3, <1>4
    <2> DEFINE one == 0 + 1
    <2>2. SubSeq(S, one, n) \o SubSeq(S, n + 1, m) = SubSeq(S, one, m)
      BY <1>1, <2>1, PartsJoin
    <2>3. one = 1
      OBVIOUS
    <2> HIDE DEF one
    <2> QED BY <2>2, <2>3
  <1>8. u \o e = u \o d
    BY <1>2, <1>3, <1>7
  <1> HIDE DEF u, d
  <1>9. e = d
    BY <1>2, <1>5, <1>6, <1>8, ConcatSimplifications
  <1> QED BY <1>1, <1>4, <1>9 DEF S, e, n, m, d

LEMMA BeforeGrows ==
  ASSUME NEW vs \in Seq(Values), NEW k \in 0..Len(vs), NEW j \in k..Len(vs)
  PROVE  Before(vs, k) <= Before(vs, j)
  <1> DEFINE T == {x \in k..Len(vs) : ~(Before(vs, k) <= Before(vs, x))}
  <1>1. Len(vs) \in Nat
    BY LenProperties
  <1>2. ASSUME T # {} PROVE FALSE
    <2>1. PICK x \in T : \A y \in T : x <= y
      <3>1. T \subseteq Nat
        BY <1>1
      <3> HIDE DEF T
      <3> QED BY <1>2, <3>1, SmallestExists
    <2>2. x \in k..Len(vs) /\ ~(Before(vs, k) <= Before(vs, x)) /\ Before(vs, k) \in Nat
      BY <2>1, FirstEvents
    <2>3. x # k
      BY <2>2
    <2>4. x - 1 \in 0..Len(vs) /\ x - 1 # Len(vs) /\ x - 1 + 1 = x
          /\ x - 1 \in k..Len(vs) /\ ~(x <= x - 1)
      BY <1>1, <2>2, <2>3
    <2>5. Before(vs, k) <= Before(vs, x - 1)
      BY <2>1, <2>4
    <2>6. Before(vs, x - 1) <= Before(vs, x)
      BY <2>4, EventIsPart
    <2>7. Before(vs, x) \in Nat /\ Before(vs, x - 1) \in Nat
      BY <1>1, <2>2, <2>4, FirstEvents
    <2> QED BY <2>2, <2>5, <2>6, <2>7
  <1> QED BY <1>2


-----------------------------------------------------------------------------
(* Skipping: every call is for a later place, or for the value at the same *)
(* place, so the recursion of skip makes sense in any buffer.              *)

Specials == {SpecialLen, DecoderLen}

Advances(end, at) ==
  /\ end \in Int
  /\ end < 0 \/ end > at[1] \/ (at[2] # "value" /\ end = at[1])

Progress(skip, at) == Advances(skip[at], at)

(* How many calls there may be below one. *)
Rank(bs, at) ==
  IF at[1] > Len(bs) THEN 0
  ELSE 2 * (Len(bs) + 1 - at[1]) + IF at[2] = "value" THEN 0 ELSE 1

Lower(bs, n) == {at \in Places : Rank(bs, at) < n}

LEMMA RankTyped ==
  ASSUME NEW bs \in Seq(Byte), NEW at \in Places
  PROVE  Rank(bs, at) \in Nat /\ Rank(bs, at) < 2 * Len(bs) + 2 /\ at[1] \in Nat \ {0}
  <1>1. Len(bs) \in Nat /\ at[1] \in Nat \ {0}
    BY LenProperties DEF Places
  <1>2. CASE at[1] > Len(bs)
    BY <1>1, <1>2 DEF Rank
  <1>3. CASE ~(at[1] > Len(bs))
    BY <1>1, <1>3 DEF Rank
  <1> QED BY <1>1, <1>2, <1>3

LEMMA FourTyped ==
  ASSUME NEW h \in Nat, NEW x \in Nat, NEW y \in Nat, NEW z \in Nat, NEW wd \in Nat
  PROVE  (((h * 256 + x) * 256 + y) * 256 + z) * 256 + wd \in Nat
  OBVIOUS

(* What readTag tells of any byte. *)
LEMMA TagRead ==
  ASSUME NEW bs \in Seq(Byte), NEW st \in Nat \ {0}
  PROVE  LET t == ReadTag(bs, st) IN
         /\ t.next \in Int /\ (t.next < 0 \/ t.next > st)
         /\ st > Len(bs) => t.next = UnexpectedEOF
         /\ st <= Len(bs) => /\ t.tag = bs[st][1]
                            /\ t.l \in Int /\ (t.tag \in {"bytes", "str"} => t.l \in Nat)
  <1>0. Len(bs) \in Nat
    BY LenProperties
  <1>1. CASE st > Len(bs)
    <2>1. ReadTag(bs, st) = [tag |-> "int", l |-> 0, next |-> UnexpectedEOF]
      BY <1>1 DEF ReadTag
    <2> QED BY <1>0, <1>1, <2>1 DEF UnexpectedEOF
  <1>2. CASE ~(st > Len(bs))
    <2> DEFINE tag == bs[st][1]  sub == bs[st][2]  n == bs[st][3]
    <2>1. Len(bs) \in Nat /\ st \in 1..Len(bs) /\ bs[st] \in Byte
      BY <1>2, LenProperties, ElementOfSeq
    <2>2. n \in Nat /\ (tag \in {"bytes", "str"} => sub # "open") /\ bs[st] = <<tag, sub, n>>
      BY <2>1 DEF Byte
    <2> HIDE DEF tag, sub, n
    <2>3. ReadTag(bs, st) =
            CASE tag = "special" \/ sub = "short" -> [tag |-> tag, l |-> n, next |-> st + 1]
              [] tag # "special" /\ sub = "open" -> [tag |-> tag, l |-> -1, next |-> st + 1]
              [] tag # "special" /\ sub = "long" /\ n \in Widths \ {0} ->
                   IF st + n > Len(bs) THEN [tag |-> tag, l |-> 0, next |-> UnexpectedEOF]
                   ELSE [tag |-> tag, l |-> Worth(bs, st, n), next |-> st + 1 + n]
              [] OTHER -> [tag |-> tag, l |-> 0, next |-> BadFormat]
      BY <1>2 DEF ReadTag, tag, sub, n
    <2>4. ASSUME n \in Widths \ {0}, ~(st + n > Len(bs)) PROVE Worth(bs, st, n) \in Nat
      <3>1. \A p \in 1..Len(bs) : bs[p][3] \in Nat
        BY ElementOfSeq DEF Byte
      <3>2. \A p \in 1..n : st + p \in 1..Len(bs)
        BY <2>1, <2>2, <2>4
      <3>3. \A p \in 1..n : bs[st + p][3] \in Nat
        BY <3>1, <3>2
      <3>5. CASE n = 1
        <4>1. Worth(bs, st, n) = bs[st + 1][3]
          BY <3>5 DEF Worth
        <4> QED BY <3>3, <3>5, <4>1
      <3>6. CASE n = 2
        <4>1. Worth(bs, st, n) = bs[st + 1][3] * 256 + bs[st + 2][3]
          BY <3>6 DEF Worth
        <4> DEFINE x == bs[st + 1][3]  y == bs[st + 2][3]
        <4>2. x \in Nat /\ y \in Nat
          BY <3>3, <3>6
        <4>3. x * 256 + y \in Nat
          <5> HIDE DEF x, y
          <5> QED BY <4>2
        <4> QED BY <4>1, <4>3
      <3>7. CASE n \in {4, 8}
        <4> DEFINE x == bs[st + 1][3]  y == bs[st + 2][3]  z == bs[st + 3][3]  wd == bs[st + 4][3]
                   u == (((0 * 256 + x) * 256 + y) * 256 + z) * 256 + wd
        <4>1. x \in Nat /\ y \in Nat /\ z \in Nat /\ wd \in Nat
          BY <3>3, <3>7
        <4>2. n = 4 => Worth(bs, st, n) = u
          BY DEF Worth
        <4>3. u \in Nat
          <5> HIDE DEF x, y, z, wd
          <5> QED BY <4>1
        <4>4. ASSUME n = 8 PROVE Worth(bs, st, n) \in Nat
          <5> DEFINE x2 == bs[st + 4 + 1][3]  y2 == bs[st + 4 + 2][3]
                     z2 == bs[st + 4 + 3][3]  w2 == bs[st + 4 + 4][3]
          <5>1. Worth(bs, st, n) = (((u * 256 + x2) * 256 + y2) * 256 + z2) * 256 + w2
            BY <4>4 DEF Worth
          <5>2. x2 \in Nat /\ y2 \in Nat /\ z2 \in Nat /\ w2 \in Nat
            <6>1. /\ st + 4 + 1 = st + 5 /\ st + 4 + 2 = st + 6
                  /\ st + 4 + 3 = st + 7 /\ st + 4 + 4 = st + 8
              BY <2>1
            <6>2. /\ bs[st + 5][3] \in Nat /\ bs[st + 6][3] \in Nat
                  /\ bs[st + 7][3] \in Nat /\ bs[st + 8][3] \in Nat
              BY <3>3, <4>4
            <6> QED BY <6>1, <6>2
          <5> HIDE DEF u, x2, y2, z2, w2
          <5> QED BY <4>3, <5>1, <5>2, FourTyped
        <4> QED BY <3>7, <4>2, <4>3, <4>4
      <3> QED BY <2>4, <3>5, <3>6, <3>7 DEF Widths
    <2> QED
      <3>1. tag = bs[st][1]
        BY DEF tag
      <3>2. CASE tag = "special" \/ sub = "short"
        BY <1>2, <2>1, <2>2, <2>3, <3>1, <3>2
      <3>3. CASE tag # "special" /\ sub = "open"
        BY <1>2, <2>1, <2>2, <2>3, <3>1, <3>3
      <3>4. CASE tag # "special" /\ sub = "long" /\ n \in Widths \ {0}
        BY <1>2, <2>1, <2>2, <2>3, <2>4, <3>1, <3>4 DEF UnexpectedEOF
      <3>5. CASE ~(tag = "special" \/ sub = "short") /\ ~(tag # "special" /\ sub = "open")
                 /\ ~(tag # "special" /\ sub = "long" /\ n \in Widths \ {0})
        BY <1>2, <2>1, <2>2, <2>3, <3>1, <3>5 DEF BadFormat
      <3> QED BY <3>2, <3>3, <3>4, <3>5
  <1> QED BY <1>1, <1>2

LEMMA Later ==
  ASSUME NEW bs \in Seq(Byte), NEW at \in Places, at[1] <= Len(bs), NEW q \in Places,
         q[1] > at[1] \/ (q[1] = at[1] /\ q[2] = "value" /\ at[2] # "value")
  PROVE  q \in Lower(bs, Rank(bs, at))
  <1> DEFINE n == Len(bs)  x == at[1]  y == q[1]
  <1>1. n \in Nat /\ x \in Nat \ {0} /\ y \in Nat \ {0}
    BY LenProperties, RankTyped
  <1>2. /\ Rank(bs, at) = 2 * (n + 1 - x) + IF at[2] = "value" THEN 0 ELSE 1
        /\ Rank(bs, q) = IF y > n THEN 0 ELSE 2 * (n + 1 - y) + IF q[2] = "value" THEN 0 ELSE 1
    BY <1>1 DEF Rank
  <1>3. Rank(bs, q) < Rank(bs, at)
    <2>1. x <= n /\ (y > x \/ (y = x /\ q[2] = "value" /\ at[2] # "value"))
      OBVIOUS
    <2> HIDE DEF n, x, y
    <2>2. CASE y > x
      BY <1>1, <1>2, <2>1, <2>2
    <2>3. CASE ~(y > x)
      BY <1>1, <1>2, <2>1, <2>3
    <2> QED BY <2>2, <2>3
  <1> QED BY <1>3 DEF Lower

(* Two tables that are the same, and make progress, behind a place. *)
Ahead(f, g, p) == \A q \in Places : q[1] > p => f[q] = g[q] /\ Advances(f[q], q)

Around(f, g, p) ==
  LET q == <<p, "value", 1>> IN Ahead(f, g, p) /\ f[q] = g[q] /\ Advances(f[q], q)

LEMMA Behind ==
  ASSUME NEW f, NEW g, NEW p \in Nat, Ahead(f, g, p), NEW x \in Int, x > p,
         NEW tag \in {"value", "array", "map"}, NEW l \in Int
  PROVE  /\ f[<<x, tag, l>>] = g[<<x, tag, l>>] /\ f[<<x, tag, l>>] \in Int
         /\ f[<<x, tag, l>>] < 0 \/ f[<<x, tag, l>>] > p
         /\ tag = "value" => f[<<x, tag, l>>] < 0 \/ f[<<x, tag, l>>] > x
  <1> DEFINE q == <<x, tag, l>>
  <1>1. q \in Places /\ q[1] = x /\ q[2] = tag
    BY DEF Places
  <1> HIDE DEF q
  <1>2. f[q] = g[q] /\ Advances(f[q], q)
    BY <1>1 DEF Ahead
  <1>3. f[q] \in Int /\ (f[q] < 0 \/ f[q] > p) /\ (tag = "value" => f[q] < 0 \/ f[q] > x)
    BY <1>1, <1>2 DEF Advances
  <1> QED BY <1>2, <1>3 DEF q

LEMMA ValueStep ==
  ASSUME NEW lens \in Specials, NEW bs \in Seq(Byte), NEW st \in Nat \ {0}, NEW f, NEW g,
         st <= Len(bs) => Ahead(f, g, st)
  PROVE  /\ SkipValue(lens, bs, f, st) = SkipValue(lens, bs, g, st)
         /\ SkipValue(lens, bs, f, st) \in Int
         /\ SkipValue(lens, bs, f, st) < 0 \/ SkipValue(lens, bs, f, st) > st
  <1> DEFINE t == ReadTag(bs, st)
             End(skip) == CASE t.tag \in {"bytes", "str"} -> t.next + t.l
               [] t.tag \in {"array", "map"} -> skip[<<t.next, t.tag, t.l>>]
               [] t.tag = "label" -> skip[<<t.next, "value", 1>>]
               [] t.tag = "special" ->
                    IF bs[st][2] \in DOMAIN lens THEN t.next + lens[bs[st][2]]
                    ELSE BadSpecial
               [] OTHER -> t.next
  <1>1. /\ t.next \in Int /\ (t.next < 0 \/ t.next > st)
        /\ st > Len(bs) => t.next = UnexpectedEOF
        /\ st <= Len(bs) => t.l \in Int /\ (t.tag \in {"bytes", "str"} => t.l \in Nat)
    BY TagRead
  <1>2. Len(bs) \in Nat
    BY LenProperties
  <1>3. \A skip : SkipValue(lens, bs, skip, st) =
                    IF t.next < 0 THEN t.next
                    ELSE IF End(skip) > Len(bs) + 1 THEN UnexpectedEOF ELSE End(skip)
    BY DEF SkipValue
  <1>4. CASE t.next < 0
    BY <1>1, <1>3, <1>4
  <1>5. CASE ~(t.next < 0)
    <2>1. st <= Len(bs) /\ Ahead(f, g, st) /\ t.next > st
      BY <1>1, <1>2, <1>5 DEF UnexpectedEOF
    <2>2. \A s \in DOMAIN lens : lens[s] \in Nat
      BY DEF Specials, SpecialLen, DecoderLen
    <2>3. \A tag \in {"value", "array", "map"}, l \in Int :
             LET q == <<t.next, tag, l>> IN f[q] = g[q] /\ f[q] \in Int /\ (f[q] < 0 \/ f[q] > st)
      BY <1>1, <2>1, Behind
    <2> HIDE DEF t
    <2>4. End(f) = End(g) /\ End(f) \in Int /\ (End(f) < 0 \/ End(f) > st)
      <3>1. CASE t.tag \in {"bytes", "str"}
        BY <1>1, <2>1, <3>1
      <3>2. CASE t.tag \in {"array", "map"}
        <4> DEFINE q == <<t.next, t.tag, t.l>>
        <4>1. f[q] = g[q] /\ f[q] \in Int /\ (f[q] < 0 \/ f[q] > st)
          BY <1>1, <2>1, <2>3, <3>2
        <4>2. End(f) = f[q] /\ End(g) = g[q]
          BY <3>2
        <4> QED BY <4>1, <4>2
      <3>3. CASE t.tag = "label"
        <4> DEFINE q == <<t.next, "value", 1>>
        <4>1. f[q] = g[q] /\ f[q] \in Int /\ (f[q] < 0 \/ f[q] > st)
          BY <2>3
        <4>2. End(f) = f[q] /\ End(g) = g[q]
          BY <3>3
        <4> QED BY <4>1, <4>2
      <3>4. CASE t.tag = "special"
        <4>1. CASE bs[st][2] \in DOMAIN lens
          BY <1>1, <2>1, <2>2, <3>4, <4>1
        <4>2. CASE bs[st][2] \notin DOMAIN lens
          BY <3>4, <4>2 DEF BadSpecial
        <4> QED BY <4>1, <4>2
      <3>5. CASE t.tag \notin {"bytes", "str", "array", "map", "label", "special"}
        BY <1>1, <2>1, <3>5
      <3> QED BY <3>1, <3>2, <3>3, <3>4, <3>5
    <2> HIDE DEF End
    <2> QED BY <1>3, <1>5, <2>4 DEF UnexpectedEOF
  <1> QED BY <1>4, <1>5

ElemsAgree(bs, f, g, at, tag, left) ==
  LET end == SkipElems(bs, f, at, tag, left) IN
  end = SkipElems(bs, g, at, tag, left) /\ end \in Int /\ (end < 0 \/ end >= at)

LEMMA ElemsStep ==
  ASSUME NEW bs \in Seq(Byte), NEW at \in Nat \ {0}, NEW tag \in {"array", "map"}, NEW left \in Int,
         NEW f, NEW g,
         at <= Len(bs) => Around(f, g, at)
  PROVE  ElemsAgree(bs, f, g, at, tag, left)
  <1> DEFINE Val(skip) == IF tag = "map" THEN skip[<<at, "value", 1>>] ELSE at
             End(skip) == IF Val(skip) < 0 THEN Val(skip) ELSE skip[<<Val(skip), "value", 1>>]
             Rest(skip) == IF End(skip) < 0 THEN End(skip) ELSE skip[<<End(skip), tag, left - 1>>]
             Elems(skip) == SkipElems(bs, skip, at, tag, left)
  <1>1. \A skip : Elems(skip) =
          IF left = 0 THEN at
          ELSE IF at > Len(bs) THEN UnexpectedEOF
          ELSE IF left < 0 /\ bs[at] = Break THEN at + 1
          ELSE Rest(skip)
    BY DEF SkipElems
  <1> HIDE DEF Elems
  <1>2. CASE left = 0 \/ at > Len(bs) \/ (left < 0 /\ bs[at] = Break)
    <2> DEFINE e == IF left = 0 THEN at ELSE IF at > Len(bs) THEN UnexpectedEOF ELSE at + 1
    <2>1. Elems(f) = e /\ Elems(g) = e
      BY <1>1, <1>2
    <2>2. e \in Int /\ (e < 0 \/ e >= at)
      BY DEF UnexpectedEOF
    <2> HIDE DEF e
    <2>3. Elems(f) = Elems(g) /\ Elems(f) \in Int /\ (Elems(f) < 0 \/ Elems(f) >= at)
      BY <2>1, <2>2
    <2> QED BY <2>3 DEF Elems, ElemsAgree
  <1>3. CASE ~(left = 0 \/ at > Len(bs) \/ (left < 0 /\ bs[at] = Break))
    <2>1. Len(bs) \in Nat
      BY LenProperties
    <2>2. at <= Len(bs)
      BY <1>3, <2>1
    <2> DEFINE wd == f[<<at, "value", 1>>]
    <2>3. Ahead(f, g, at) /\ wd = g[<<at, "value", 1>>] /\ wd \in Int /\ (wd < 0 \/ wd > at)
      BY <2>2 DEF Advances, Around
    <2>4. Val(f) = Val(g) /\ Val(f) \in Int /\ (Val(f) < 0 \/ Val(f) > at \/ (tag = "array" /\ Val(f) = at))
      BY <2>3
    <2> DEFINE v == Val(f)  x == f[<<v, "value", 1>>]
    <2>5. ASSUME ~(v < 0)
          PROVE  x = g[<<v, "value", 1>>] /\ x \in Int /\ (x < 0 \/ x > at)
      <3>1. CASE v = at
        BY <2>3, <3>1
      <3>2. CASE v # at
        <4> HIDE DEF v
        <4>1. v \in Int /\ v > at
          BY <2>4, <2>5, <3>2 DEF v
        <4> QED BY <2>3, <4>1, Behind
      <3> QED BY <3>1, <3>2
    <2>6. End(f) = End(g) /\ End(f) \in Int /\ (End(f) < 0 \/ End(f) > at)
      <3>1. CASE v < 0
        BY <2>4, <3>1
      <3>2. CASE ~(v < 0)
        <4>1. End(f) = x /\ End(g) = g[<<v, "value", 1>>]
          <5>1. v = Val(f) /\ v = Val(g) /\ ~(Val(f) < 0) /\ ~(Val(g) < 0)
            BY <2>4, <3>2
          <5> QED BY <5>1
        <4> QED BY <2>5, <3>2, <4>1
      <3> QED BY <3>1, <3>2
    <2> DEFINE e == End(f)  y == f[<<e, tag, left - 1>>]
    <2>7. ASSUME ~(e < 0)
          PROVE  y = g[<<e, tag, left - 1>>] /\ y \in Int /\ (y < 0 \/ y > at)
      <3> HIDE DEF e
      <3>1. e \in Int /\ e > at /\ left - 1 \in Int
        BY <2>6, <2>7 DEF e
      <3> DEFINE l == left - 1
      <3> HIDE DEF l
      <3>2. f[<<e, tag, l>>] = g[<<e, tag, l>>] /\ f[<<e, tag, l>>] \in Int
            /\ (f[<<e, tag, l>>] < 0 \/ f[<<e, tag, l>>] > at)
        <4>1. l \in Int
          BY <3>1 DEF l
        <4> QED BY <2>3, <3>1, <4>1, Behind
      <3> QED BY <3>2 DEF l
    <2> HIDE DEF End
    <2>8. Rest(f) = Rest(g) /\ Rest(f) \in Int /\ (Rest(f) < 0 \/ Rest(f) > at)
      <3>1. CASE e < 0
        BY <2>6, <3>1
      <3>2. CASE ~(e < 0)
        <4>1. Rest(f) = y /\ Rest(g) = g[<<e, tag, left - 1>>]
          BY <2>6, <3>2
        <4> QED BY <2>7, <3>2, <4>1
      <3> QED BY <3>1, <3>2
    <2>9. Elems(f) = Rest(f) /\ Elems(g) = Rest(g)
      BY <1>1, <1>3
    <2>10. Elems(f) = Elems(g) /\ Elems(f) \in Int /\ (Elems(f) < 0 \/ Elems(f) >= at)
      <3> HIDE DEF Rest
      <3> QED BY <2>8, <2>9
    <2> QED BY <2>10 DEF Elems, ElemsAgree
  <1> QED BY <1>2, <1>3

LEMMA StepAgrees ==
  ASSUME NEW lens \in Specials, NEW bs \in Seq(Byte), NEW at \in Places, NEW f, NEW g,
         \A q \in Lower(bs, Rank(bs, at)) : f[q] = g[q] /\ Progress(f, q)
  PROVE  SkipStep(lens, bs, f, at) = SkipStep(lens, bs, g, at) /\ Advances(SkipStep(lens, bs, f, at), at)
  <1>1. at[1] \in Nat \ {0} /\ at[2] \in {"value", "array", "map"} /\ at[3] \in Int
    BY DEF Places
  <1> DEFINE p == at[1]  tag == at[2]  l == at[3]
  <1>2. p <= Len(bs) => Ahead(f, g, p)
    <2> SUFFICES ASSUME p <= Len(bs), NEW q \in Places, q[1] > p PROVE f[q] = g[q] /\ Advances(f[q], q)
      BY DEF Ahead
    <2>1. q \in Lower(bs, Rank(bs, at))
      BY Later
    <2> QED BY <2>1 DEF Progress
  <1>3. CASE tag = "value"
    <2>1. \A s : SkipStep(lens, bs, s, at) = SkipValue(lens, bs, s, p)
      BY <1>3 DEF SkipStep
    <2> HIDE DEF p
    <2>2. /\ SkipValue(lens, bs, f, p) = SkipValue(lens, bs, g, p)
          /\ SkipValue(lens, bs, f, p) \in Int
          /\ SkipValue(lens, bs, f, p) < 0 \/ SkipValue(lens, bs, f, p) > p
      <3>1. p \in Nat \ {0}
        BY <1>1 DEF p
      <3> QED BY <1>2, <3>1, ValueStep
    <2> QED BY <2>1, <2>2 DEF Advances, p
  <1>4. CASE tag # "value"
    <2>1. \A s : SkipStep(lens, bs, s, at) = SkipElems(bs, s, p, tag, l)
      BY <1>4 DEF SkipStep
    <2> DEFINE q == <<p, "value", 1>>
    <2>2. ASSUME p <= Len(bs) PROVE Around(f, g, p)
      <3>1. q \in Places /\ q[1] = p /\ q[2] = "value"
        BY <1>1 DEF Places
      <3> HIDE DEF q
      <3>2. q \in Lower(bs, Rank(bs, at))
        BY <1>4, <2>2, <3>1, Later
      <3>3. f[q] = g[q] /\ Advances(f[q], q)
        BY <3>2 DEF Progress
      <3> QED BY <1>2, <2>2, <3>3 DEF Around, q
    <2> DEFINE Elems(s) == SkipElems(bs, s, p, tag, l)
    <2>3. Elems(f) = Elems(g) /\ Elems(f) \in Int /\ (Elems(f) < 0 \/ Elems(f) >= p)
      <3>1. p \in Nat \ {0} /\ tag \in {"array", "map"} /\ l \in Int
        BY <1>1, <1>4
      <3>2. p <= Len(bs) => Around(f, g, p)
        BY <2>2
      <3> HIDE DEF p, tag, l, q
      <3>3. ElemsAgree(bs, f, g, p, tag, l)
        BY <3>1, <3>2, ElemsStep
      <3> QED BY <3>3 DEF ElemsAgree
    <2> HIDE DEF Elems
    <2>4. Advances(Elems(f), at)
      BY <1>1, <1>4, <2>3 DEF Advances
    <2> QED BY <2>1, <2>3, <2>4 DEF Elems
  <1> QED BY <1>3, <1>4

Skips(f, lens, bs, A) ==
  /\ f = [at \in A |-> SkipStep(lens, bs, f, at)]
  /\ \A at \in A : Progress(f, at)

LEMMA SkipExists ==
  ASSUME NEW lens \in Specials, NEW bs \in Seq(Byte)
  PROVE  \E f : Skips(f, lens, bs, Places)
  <1> DEFINE T == {n \in Nat : ~ \E f : Skips(f, lens, bs, Lower(bs, n))}
  <1>1. ASSUME T # {} PROVE FALSE
    <2>1. PICK x \in T : \A y \in T : x <= y
      <3>1. T \subseteq Nat
        OBVIOUS
      <3> HIDE DEF T
      <3> QED BY <1>1, <3>1, SmallestExists
    <2>2. x \in Nat /\ ~ \E f : Skips(f, lens, bs, Lower(bs, x))
      BY <2>1
    <2>3. x # 0
      <3>1. Lower(bs, 0) = {}
        BY RankTyped DEF Lower
      <3>2. Skips([at \in {} |-> at], lens, bs, {})
        BY DEF Skips
      <3> QED BY <2>2, <3>1, <3>2
    <2>4. x - 1 \in Nat /\ ~(x <= x - 1)
      BY <2>2, <2>3
    <2>5. PICK f : Skips(f, lens, bs, Lower(bs, x - 1))
      BY <2>1, <2>4
    <2> DEFINE A == Lower(bs, x)  g == [at \in A |-> SkipStep(lens, bs, f, at)]
    <2>6. \A q \in Lower(bs, x - 1) : f[q] = g[q] /\ Progress(f, q)
      <3>1. Lower(bs, x - 1) \subseteq A
        BY <2>2, RankTyped DEF Lower
      <3> QED BY <2>5, <3>1 DEF Skips
    <2>7. \A at \in A : Lower(bs, Rank(bs, at)) \subseteq Lower(bs, x - 1)
      <3> TAKE at \in A
      <3>1. Rank(bs, at) \in Nat /\ Rank(bs, at) < x
        BY RankTyped DEF Lower
      <3>2. \A q \in Places : Rank(bs, q) < Rank(bs, at) => Rank(bs, q) < x - 1
        BY <2>2, <3>1, RankTyped
      <3> QED BY <3>2 DEF Lower
    <2>8. \A at \in A : at \in Places /\ g[at] = SkipStep(lens, bs, f, at)
      BY DEF Lower
    <2>9. g = [at \in A |-> g[at]]
      OBVIOUS
    <2> HIDE DEF A, g
    <2>10. \A at \in A : g[at] = SkipStep(lens, bs, g, at) /\ Progress(g, at)
      <3> TAKE at \in A
      <3>1. \A q \in Lower(bs, Rank(bs, at)) : f[q] = g[q] /\ Progress(f, q)
        BY <2>6, <2>7
      <3>2. SkipStep(lens, bs, f, at) = SkipStep(lens, bs, g, at) /\ Advances(SkipStep(lens, bs, f, at), at)
        BY <2>8, <3>1, StepAgrees
      <3> QED BY <2>8, <3>2 DEF Progress
    <2>11. Skips(g, lens, bs, A)
      BY <2>9, <2>10 DEF Skips
    <2> QED BY <2>2, <2>11 DEF A
  <1> DEFINE n == 2 * Len(bs) + 2
  <1>2. n \in Nat /\ Lower(bs, n) = Places
    <2>1. Len(bs) \in Nat
      BY LenProperties
    <2> QED BY <2>1, RankTyped DEF Lower
  <1> HIDE DEF n
  <1>3. n \notin T
    <2> HIDE DEF T
    <2> QED BY <1>1
  <1> QED BY <1>2, <1>3

(* The table of skip: what it is at any place, and that SkipBy reads it.   *)
Table(f, lens, bs) ==
  \A at \in Places : f[at] = SkipStep(lens, bs, f, at) /\ Progress(f, at)

LEMMA SkipIs ==
  ASSUME NEW lens \in Specials, NEW bs \in Seq(Byte)
  PROVE  \E f : Table(f, lens, bs) /\ \A st : SkipBy(lens, bs, st) = f[<<st, "value", 1>>]
  <1> DEFINE f == CHOOSE f : f = [at \in Places |-> SkipStep(lens, bs, f, at)]
  <1>1. f = [at \in Places |-> SkipStep(lens, bs, f, at)]
    BY SkipExists DEF Skips
  <1>2. \A st : SkipBy(lens, bs, st) = f[<<st, "value", 1>>]
    BY DEF SkipBy
  <1>3. PICK h : Skips(h, lens, bs, Places)
    BY SkipExists
  <1> HIDE DEF f
  <1>4. ASSUME NEW at \in Places PROVE f[at] = h[at]
    <2> DEFINE T == {n \in Nat : \E q \in Places : Rank(bs, q) = n /\ f[q] # h[q]}
    <2>1. ASSUME T # {} PROVE FALSE
      <3>1. PICK x \in T : \A y \in T : x <= y
        <4>1. T \subseteq Nat
          OBVIOUS
        <4> HIDE DEF T
        <4> QED BY <2>1, <4>1, SmallestExists
      <3>2. PICK q \in Places : Rank(bs, q) = x /\ f[q] # h[q]
        BY <3>1
      <3>3. \A res \in Lower(bs, Rank(bs, q)) : h[res] = f[res] /\ Progress(h, res)
        <4> TAKE res \in Lower(bs, Rank(bs, q))
        <4>1. res \in Places /\ Rank(bs, res) \in Nat /\ Rank(bs, q) \in Nat /\ Rank(bs, res) < Rank(bs, q)
          BY RankTyped DEF Lower
        <4>2. ~(x <= Rank(bs, res))
          BY <3>2, <4>1
        <4>3. Rank(bs, res) \notin T
          BY <3>1, <4>2
        <4>4. h[res] = f[res]
          BY <4>1, <4>3
        <4> QED BY <1>3, <4>1, <4>4 DEF Skips
      <3>4. SkipStep(lens, bs, h, q) = SkipStep(lens, bs, f, q)
        BY <3>3, StepAgrees
      <3> QED BY <1>1, <1>3, <3>2, <3>4 DEF Skips
    <2>2. Rank(bs, at) \in Nat
      BY RankTyped
    <2>3. Rank(bs, at) \notin T
      <3> HIDE DEF T
      <3> QED BY <2>1
    <2> QED BY <2>2, <2>3
  <1>5. Table(f, lens, bs)
    <2> SUFFICES ASSUME NEW at \in Places
                 PROVE  f[at] = SkipStep(lens, bs, f, at) /\ Progress(f, at)
      BY DEF Table
    <2>1. f[at] = h[at] /\ Progress(h, at)
      BY <1>3, <1>4 DEF Skips
    <2> QED BY <1>1, <2>1 DEF Progress
  <1> QED BY <1>2, <1>5

-----------------------------------------------------------------------------
(* What skip reads of an encoding, of which the buffer may have a part.    *)

(* The buffer has e behind its first p bytes, as far as it goes. *)
Cut(bs, p, e) ==
  /\ p \in Nat /\ p <= Len(bs)
  /\ \A c \in 1..Len(e) : p + c <= Len(bs) => bs[p + c] = e[c]

LEMMA CutSplit ==
  ASSUME NEW bs \in Seq(Byte), NEW p, NEW e \in Seq(Byte), NEW f \in Seq(Byte), Cut(bs, p, e \o f)
  PROVE  Cut(bs, p, e) /\ (p + Len(e) <= Len(bs) => Cut(bs, p + Len(e), f))
  <1>1. p \in Nat /\ p <= Len(bs) /\ Len(bs) \in Nat /\ Len(e) \in Nat /\ Len(f) \in Nat
    BY LenProperties DEF Cut
  <1> DEFINE h == e \o f  m == Len(e)  n == Len(f)
  <1>2. Len(h) = m + n /\ \A k \in 1..m + n : h[k] = IF k <= m THEN e[k] ELSE f[k - m]
    BY ConcatProperties
  <1>3. \A c \in 1..Len(h) : p + c <= Len(bs) => bs[p + c] = h[c]
    BY DEF Cut
  <1>4. m \in Nat /\ n \in Nat
    BY <1>1
  <1> HIDE DEF h, m, n
  <1>5. \A c \in 1..m : p + c <= Len(bs) => bs[p + c] = e[c]
    <2> TAKE c \in 1..m
    <2>1. c \in 1..m + n /\ c <= m
      BY <1>4
    <2> QED BY <1>2, <1>3, <2>1
  <1>6. \A c \in 1..n : p + m + c <= Len(bs) => bs[p + m + c] = f[c]
    <2> TAKE c \in 1..n
    <2> DEFINE k == m + c
    <2>1. k \in 1..m + n /\ ~(k <= m) /\ k - m = c /\ p + m + c = p + k
      BY <1>1, <1>4
    <2> HIDE DEF k
    <2> QED BY <1>2, <1>3, <2>1
  <1>7. p + m \in Nat
    BY <1>1, <1>4
  <1> QED BY <1>1, <1>5, <1>6, <1>7 DEF Cut, m, n

LEMMA CutFirst ==
  ASSUME NEW bs, NEW p, NEW e, Cut(bs, p, e), Good(e), p # Len(bs), bs \in Seq(Byte)
  PROVE  p + 1 \in Nat \ {0} /\ p + 1 <= Len(bs) /\ bs[p + 1] = e[1]
  <1>1. p \in Nat /\ p <= Len(bs) /\ Len(bs) \in Nat /\ Len(e) \in Nat \ {0}
    BY LenProperties DEF Cut, Good
  <1>2. p + 1 <= Len(bs) /\ 1 \in 1..Len(e)
    BY <1>1
  <1>3. bs[p + 1] = e[1]
    BY <1>2 DEF Cut
  <1> QED BY <1>1, <1>2, <1>3

LEMMA CutEvent ==
  ASSUME NEW bs \in Seq(Byte), NEW p, NEW vs \in Seq(Values), Cut(bs, p, Stream(vs)),
         NEW k \in 0..Len(vs), k # Len(vs), p + Before(vs, k) <= Len(bs)
  PROVE  Cut(bs, p + Before(vs, k), Enc(vs[k + 1]))
  <1> DEFINE S == Stream(vs)  e == Enc(vs[k + 1])  x == Before(vs, k)  z == Before(vs, k + 1)
  <1>1. S \in Seq(Byte) /\ Len(S) \in Nat /\ p \in Nat /\ Len(bs) \in Nat
    BY StreamTyped, LenProperties DEF Cut
  <1>2. k + 1 \in 0..Len(vs) /\ x <= z /\ e = SubSeq(S, x + 1, z)
    BY EventIsPart
  <1>3. x \in 0..Len(S) /\ z \in 0..Len(S)
    BY <1>2, UptoIsPart
  <1>4. \A c \in 1..Len(S) : p + c <= Len(bs) => bs[p + c] = S[c]
    BY DEF Cut
  <1>5. p + x <= Len(bs)
    OBVIOUS
  <1> HIDE DEF S, x, z, e
  <1>6. z \in x..Len(S)
    BY <1>1, <1>2, <1>3
  <1>7. Len(e) = z - x /\ \A c \in 1..z - x : e[c] = S[x + c]
    BY <1>1, <1>2, <1>3, <1>6, PartIs
  <1>8. \A c \in 1..Len(e) : p + x + c <= Len(bs) => bs[p + x + c] = e[c]
    <2> SUFFICES ASSUME NEW c \in 1..z - x, p + x + c <= Len(bs) PROVE bs[p + x + c] = S[x + c]
      BY <1>7
    <2> DEFINE d == x + c
    <2>1. d \in 1..Len(S) /\ p + x + c = p + d
      BY <1>1, <1>3
    <2> HIDE DEF d
    <2>2. bs[p + d] = S[d]
      BY <1>4, <2>1
    <2> QED BY <2>1, <2>2 DEF d
  <1>9. p + x \in Nat
    BY <1>1, <1>3
  <1>10. Cut(bs, p + x, e)
    BY <1>5, <1>8, <1>9 DEF Cut
  <1> QED BY <1>10 DEF x, e

-----------------------------------------------------------------------------
(* readTag of what the encoder writes.                                     *)
LEMMA ReadShort ==
  ASSUME NEW bs \in Seq(Byte), NEW st \in Nat \ {0}, st <= Len(bs),
         NEW tag, tag # "special", NEW n, bs[st] = <<tag, "short", n>>
  PROVE  ReadTag(bs, st) = [tag |-> tag, l |-> n, next |-> st + 1]
  <1>1. ~(st > Len(bs)) /\ bs[st][1] = tag /\ bs[st][2] = "short" /\ bs[st][3] = n
    BY LenProperties
  <1> QED BY <1>1 DEF ReadTag

LEMMA ReadSpecial ==
  ASSUME NEW bs \in Seq(Byte), NEW st \in Nat \ {0}, st <= Len(bs),
         NEW s, NEW n, bs[st] = <<"special", s, n>>
  PROVE  ReadTag(bs, st) = [tag |-> "special", l |-> n, next |-> st + 1]
  <1>1. ~(st > Len(bs)) /\ bs[st][1] = "special" /\ bs[st][2] = s /\ bs[st][3] = n
    BY LenProperties
  <1> QED BY <1>1 DEF ReadTag

LEMMA ReadOpen ==
  ASSUME NEW bs \in Seq(Byte), NEW st \in Nat \ {0}, st <= Len(bs),
         NEW tag, tag # "special", NEW n, bs[st] = <<tag, "open", n>>
  PROVE  ReadTag(bs, st) = [tag |-> tag, l |-> -1, next |-> st + 1]
  <1>1. ~(st > Len(bs)) /\ bs[st][1] = tag /\ bs[st][2] = "open" /\ bs[st][3] = n
    BY LenProperties
  <1> QED BY <1>1 DEF ReadTag

LEMMA ReadLong ==
  ASSUME NEW bs \in Seq(Byte), NEW st \in Nat \ {0}, st <= Len(bs),
         NEW tag, tag # "special", NEW n \in Widths \ {0}, bs[st] = <<tag, "long", n>>
  PROVE  ReadTag(bs, st) = IF st + n > Len(bs) THEN [tag |-> tag, l |-> 0, next |-> UnexpectedEOF]
                          ELSE [tag |-> tag, l |-> Worth(bs, st, n), next |-> st + 1 + n]
  <1>1. ~(st > Len(bs)) /\ bs[st][1] = tag /\ bs[st][2] = "long" /\ bs[st][3] = n
    BY LenProperties
  <1> QED BY <1>1 DEF ReadTag

LEMMA HighIs ==
  ASSUME NEW n \in Nat
  PROVE  High(n) \in Nat /\ n % 256 \in 0..255 /\ n = High(n) * 256 + (n % 256)
  <1> DEFINE h == n \div 256  l == n % 256
  <1>1. h \in Nat /\ l \in 0..255 /\ n = 256 * h + l
    OBVIOUS
  <1>2. High(n) = h
    BY DEF High
  <1> HIDE DEF h, l
  <1>3. n = h * 256 + l
    BY <1>1
  <1>4. High(n) \in Nat /\ n = High(n) * 256 + l
    BY <1>1, <1>2, <1>3
  <1>5. n % 256 = l
    BY DEF l
  <1> QED BY <1>1, <1>4, <1>5

(* A length is what its digits are worth. *)
LEMMA DigitsWorth ==
  ASSUME NEW n, NEW long \in Widths \ {0}, Fits(n, long), NEW bs, NEW st \in Nat \ {0},
         \A j \in 1..long : bs[st + j][3] = Digit(n, long - j)
  PROVE  Worth(bs, st, long) = n
  <1> DEFINE h == High(n)  g == High(h)  f == High(g)  n0 == n % 256  h0 == h % 256  g0 == g % 256
  <1>1. n \in Nat /\ f < 128 /\ (long = 1 => n < 256) /\ (long = 2 => h < 256)
    BY DEF Fits
  <1>2. h \in Nat /\ n0 \in 0..255 /\ n = h * 256 + n0
    <2>1. n \in Nat
      BY <1>1
    <2> HIDE DEF f, g
    <2> QED BY <2>1, HighIs, Zenon
  <1>3. g \in Nat /\ h0 \in 0..255 /\ h = g * 256 + h0
    <2> HIDE DEF h
    <2> QED BY <1>2, HighIs, Zenon
  <1>4. f \in Nat /\ g0 \in 0..255 /\ g = f * 256 + g0
    <2> HIDE DEF h, g
    <2> QED BY <1>3, HighIs, Zenon
  <1>5. /\ Digit(n, 0) = n0 /\ Digit(n, 1) = h0 /\ Digit(n, 2) = g0 /\ Digit(n, 3) = f
        /\ Digit(n, 4) = 0 /\ Digit(n, 5) = 0 /\ Digit(n, 6) = 0 /\ Digit(n, 7) = 0
    BY DEF Digit
  <1> HIDE DEF n0, h0, g0, f, g, h
  <1>6. CASE long = 1
    <2>1. Worth(bs, st, long) = bs[st + 1][3]
      BY <1>6 DEF Worth
    <2>2. bs[st + 1][3] = n0
      <3>1. 1 \in 1..long /\ long - 1 = 0
        BY <1>6
      <3> QED BY <1>5, <3>1
    <2> QED BY <1>1, <1>2, <1>6, <2>1, <2>2
  <1>7. CASE long = 2
    <2>1. Worth(bs, st, long) = bs[st + 1][3] * 256 + bs[st + 2][3]
      BY <1>7 DEF Worth
    <2>2. bs[st + 1][3] = h0 /\ bs[st + 2][3] = n0
      <3>1. 1 \in 1..long /\ long - 1 = 1 /\ 2 \in 1..long /\ long - 2 = 0
        BY <1>7
      <3> QED BY <1>5, <3>1
    <2>3. h0 = h
      BY <1>1, <1>3, <1>7
    <2> QED BY <1>2, <2>1, <2>2, <2>3
  <1>8. n = (((0 * 256 + f) * 256 + g0) * 256 + h0) * 256 + n0
    BY <1>1, <1>2, <1>3, <1>4
  <1>9. CASE long = 4
    <2> DEFINE x == bs[st + 1][3]  y == bs[st + 2][3]  z == bs[st + 3][3]  wd == bs[st + 4][3]
    <2>1. Worth(bs, st, long) = (((0 * 256 + x) * 256 + y) * 256 + z) * 256 + wd
      BY <1>9 DEF Worth
    <2>2. x = f /\ y = g0 /\ z = h0 /\ wd = n0
      <3>1. /\ 1 \in 1..long /\ long - 1 = 3 /\ 2 \in 1..long /\ long - 2 = 2
            /\ 3 \in 1..long /\ long - 3 = 1 /\ 4 \in 1..long /\ long - 4 = 0
        BY <1>9
      <3> QED BY <1>5, <3>1
    <2> HIDE DEF x, y, z, wd
    <2> QED BY <1>8, <2>1, <2>2
  <1>10. CASE long = 8
    <2> DEFINE x == bs[st + 1][3]  y == bs[st + 2][3]  z == bs[st + 3][3]  wd == bs[st + 4][3]
               x2 == bs[st + 4 + 1][3]  y2 == bs[st + 4 + 2][3]  z2 == bs[st + 4 + 3][3]
               w2 == bs[st + 4 + 4][3]  u == (((0 * 256 + x) * 256 + y) * 256 + z) * 256 + wd
    <2>1. Worth(bs, st, long) = (((u * 256 + x2) * 256 + y2) * 256 + z2) * 256 + w2
      BY <1>10 DEF Worth
    <2>2. x = 0 /\ y = 0 /\ z = 0 /\ wd = 0
      <3>1. /\ 1 \in 1..long /\ long - 1 = 7 /\ 2 \in 1..long /\ long - 2 = 6
            /\ 3 \in 1..long /\ long - 3 = 5 /\ 4 \in 1..long /\ long - 4 = 4
        BY <1>10
      <3> QED BY <1>5, <3>1
    <2>3. x2 = f /\ y2 = g0 /\ z2 = h0 /\ w2 = n0
      <3>1. /\ 5 \in 1..long /\ long - 5 = 3 /\ 6 \in 1..long /\ long - 6 = 2
            /\ 7 \in 1..long /\ long - 7 = 1 /\ 8 \in 1..long /\ long - 8 = 0
        BY <1>10
      <3>2. /\ st + 4 + 1 = st + 5 /\ st + 4 + 2 = st + 6 /\ st + 4 + 3 = st + 7 /\ st + 4 + 4 = st + 8
        OBVIOUS
      <3>3. bs[st + 5][3] = f /\ bs[st + 6][3] = g0 /\ bs[st + 7][3] = h0 /\ bs[st + 8][3] = n0
        BY <1>5, <3>1
      <3> QED BY <3>2, <3>3
    <2>4. u = 0
      <3> HIDE DEF x, y, z, wd
      <3> QED BY <2>2
    <2> HIDE DEF u, x2, y2, z2, w2
    <2> QED BY <1>8, <2>1, <2>3, <2>4
  <1> QED BY <1>6, <1>7, <1>9, <1>10 DEF Widths

HeaderSeen(bs, p, tag, n, long) ==
  /\ p + 1 + long > Len(bs) => ReadTag(bs, p + 1).next = UnexpectedEOF
  /\ p + 1 + long <= Len(bs) =>
       ReadTag(bs, p + 1) = [tag |-> tag, l |-> n, next |-> p + 2 + long]

LEMMA HeaderRead ==
  ASSUME NEW bs \in Seq(Byte), NEW p, NEW tag \in Tags, NEW n, NEW long \in Widths, Fits(n, long),
         Cut(bs, p, Header(tag, n, long)), p # Len(bs)
  PROVE  HeaderSeen(bs, p, tag, n, long)
  <1> DEFINE h == Header(tag, n, long)  st == p + 1
  <1>1. n \in Nat /\ long \in Nat /\ Len(bs) \in Nat /\ p \in Nat /\ p <= Len(bs)
    BY LenProperties DEF Fits, Widths, Cut
  <1>2. /\ h \in Seq(Byte) /\ Len(h) = 1 + long
        /\ long = 0 => h[1] = <<tag, "short", n>>
        /\ long # 0 => /\ h[1] = <<tag, "long", long>>
                       /\ \A j \in 1..long : h[1 + j] = <<"raw", "byte", Digit(n, long - j)>>
        /\ h[1] # Break
    BY <1>1, HeaderTyped
  <1>3. Cut(bs, p, h)
    OBVIOUS
  <1> HIDE DEF h
  <1>4. Good(h)
    BY <1>1, <1>2 DEF Good
  <1>5. st \in Nat \ {0} /\ st <= Len(bs) /\ bs[st] = h[1]
    BY <1>3, <1>4, CutFirst
  <1>6. tag # "special"
    BY DEF Tags
  <1>7. p + 1 + long = st + long /\ p + 2 + long = st + 1 + long
    BY <1>1
  <1> HIDE DEF st
  <1>8. CASE long = 0
    <2>1. ReadTag(bs, st) = [tag |-> tag, l |-> n, next |-> st + 1]
      BY <1>2, <1>5, <1>6, <1>8, ReadShort
    <2>2. st + 1 + long = st + 1 /\ ~(st + long > Len(bs))
      BY <1>1, <1>5, <1>8
    <2> QED BY <1>7, <2>1, <2>2 DEF st, HeaderSeen
  <1>9. CASE long # 0
    <2>1. ReadTag(bs, st) = IF st + long > Len(bs) THEN [tag |-> tag, l |-> 0, next |-> UnexpectedEOF]
                           ELSE [tag |-> tag, l |-> Worth(bs, st, long), next |-> st + 1 + long]
      BY <1>2, <1>5, <1>6, <1>9, ReadLong
    <2>2. ASSUME ~(st + long > Len(bs)) PROVE Worth(bs, st, long) = n
      <3>1. \A j \in 1..long : bs[st + j][3] = Digit(n, long - j)
        <4> TAKE j \in 1..long
        <4> DEFINE c == 1 + j
        <4>1. c \in 1..Len(h) /\ p + c = st + j /\ p + c <= Len(bs)
          <5>1. c \in 1..1 + long /\ p + c = st + j
            BY <1>1 DEF st
          <5>2. ~(p + 1 + long > Len(bs)) /\ p \in Nat /\ Len(bs) \in Nat
            BY <1>1, <2>2 DEF st
          <5>3. p + c <= Len(bs)
            <6> HIDE DEF st
            <6> QED BY <1>1, <5>1, <5>2
          <5>4. Len(h) = 1 + long
            BY <1>2
          <5> QED BY <5>1, <5>3, <5>4
        <4> HIDE DEF c
        <4>2. bs[st + j] = h[c]
          BY <1>3, <4>1 DEF Cut
        <4> HIDE DEF Digit
        <4>3. h[c] = <<"raw", "byte", Digit(n, long - j)>>
          BY <1>2, <1>9 DEF c
        <4> QED BY <4>2, <4>3
      <3> QED BY <1>5, <1>9, <3>1, DigitsWorth
    <2>3. CASE st + long > Len(bs)
      BY <1>1, <1>5, <1>7, <2>1, <2>3 DEF st, HeaderSeen
    <2>4. CASE ~(st + long > Len(bs))
      <3>1. ReadTag(bs, st) = [tag |-> tag, l |-> n, next |-> st + 1 + long]
        BY <2>1, <2>2, <2>4
      <3>2. ~(p + 1 + long > Len(bs))
        BY <1>7, <2>4
      <3> QED BY <1>7, <3>1, <3>2 DEF st, HeaderSeen
    <2> QED BY <2>3, <2>4
  <1> QED BY <1>8, <1>9

-----------------------------------------------------------------------------
(* Framing: from the first byte of an encoding, skip goes to the byte      *)
(* behind it when the buffer has all of it and asks for more when not.     *)
(* It may also meet a special it does not know, when there is a bad one.   *)
Answer(bad, bs, p, len, end) ==
  \/ end = IF p + len <= Len(bs) THEN p + len + 1 ELSE UnexpectedEOF
  \/ bad /\ end = BadSpecial

Frames(f, bad, bs, v) ==
  \A p : Cut(bs, p, Enc(v)) => Answer(bad, bs, p, Len(Enc(v)), f[<<p + 1, "value", 1>>])

(* What the loop over elements knows after the call for event k + 1. *)
Reaches(bad, bs, p, vs, k, end) ==
  \/ end = p + Before(vs, k + 1) + 1 /\ p + Before(vs, k + 1) <= Len(bs)
  \/ end = UnexpectedEOF /\ p + Before(vs, k + 1) > Len(bs)
  \/ bad /\ end = BadSpecial

(* The bytes of an array or a map behind its header. *)
BodyLen(vs, open) == Len(Stream(vs)) + IF open THEN 1 ELSE 0
Body(bs, p, vs, open) ==
  /\ Cut(bs, p, Stream(vs))
  /\ open /\ p + Len(Stream(vs)) <= Len(bs) => Cut(bs, p + Len(Stream(vs)), <<Break>>)

LEMMA ElemFound ==
  ASSUME NEW bad, NEW bs \in Seq(Byte), NEW p, NEW vs \in Seq(Values), NEW f,
         Cut(bs, p, Stream(vs)), NEW k \in 0..Len(vs), k # Len(vs), p + Before(vs, k) <= Len(bs),
         Frames(f, bad, bs, vs[k + 1])
  PROVE  Reaches(bad, bs, p, vs, k, f[<<p + Before(vs, k) + 1, "value", 1>>])
  <1> DEFINE e == Enc(vs[k + 1])  x == Before(vs, k)  q == p + x  res == f[<<q + 1, "value", 1>>]
  <1>1. Cut(bs, q, e)
    BY CutEvent
  <1>2. Answer(bad, bs, q, Len(e), res)
    <2> HIDE DEF q
    <2> QED BY <1>1 DEF Frames
  <1>3. Before(vs, k + 1) = x + Len(e) /\ Len(e) \in Nat /\ x \in Nat
    <2>1. e \in Seq(Byte) /\ Before(vs, k + 1) = x + Len(e)
      BY StreamStep
    <2> HIDE DEF e
    <2> QED BY <2>1, FirstEvents, LenProperties
  <1>4. p \in Nat /\ Len(bs) \in Nat
    BY LenProperties DEF Cut
  <1>5. q + Len(e) = p + Before(vs, k + 1)
    <2> HIDE DEF e, x
    <2> QED BY <1>3, <1>4
  <1>6. p + Before(vs, k + 1) \in Nat
    <2> HIDE DEF e, x
    <2> QED BY <1>3, <1>4
  <1>7. Reaches(bad, bs, p, vs, k, res)
    <2> DEFINE z == p + Before(vs, k + 1)
    <2>1. Answer(bad, bs, q, Len(e), res) /\ q + Len(e) = z /\ z \in Nat
      BY <1>2, <1>5, <1>6
    <2> HIDE DEF z, res, q, e
    <2>2. \/ res = IF z <= Len(bs) THEN z + 1 ELSE UnexpectedEOF
          \/ bad /\ res = BadSpecial
      BY <2>1 DEF Answer
    <2>3. \/ res = z + 1 /\ z <= Len(bs)
          \/ res = UnexpectedEOF /\ z > Len(bs)
          \/ bad /\ res = BadSpecial
      BY <1>4, <2>1, <2>2
    <2> QED BY <2>3 DEF Reaches, z
  <1> QED BY <1>7

LEMMA Inside ==
  ASSUME NEW vs \in Seq(Values), NEW k \in 0..Len(vs), k # Len(vs), NEW open \in BOOLEAN
  PROVE  /\ Before(vs, k) \in Nat /\ Before(vs, k + 1) \in Nat /\ BodyLen(vs, open) \in Nat
         /\ Before(vs, k) < Before(vs, k + 1) /\ Before(vs, k + 1) <= BodyLen(vs, open)
  <1>1. k + 1 \in 0..Len(vs)
    BY LenProperties
  <1>2. Before(vs, k) \in Nat /\ Len(Stream(vs)) \in Nat
    BY FirstEvents, StreamTyped
  <1>3. Before(vs, k + 1) \in 0..Len(Stream(vs))
    <2> DEFINE j == k + 1
    <2> HIDE DEF j
    <2>1. j \in 0..Len(vs)
      BY <1>1 DEF j
    <2>2. Before(vs, j) \in 0..Len(Stream(vs))
      BY <2>1, UptoIsPart
    <2> QED BY <2>2 DEF j
  <1>4. Before(vs, k + 1) = Before(vs, k) + Len(Enc(vs[k + 1])) /\ Len(Enc(vs[k + 1])) \in Nat \ {0}
    <2>1. vs[k + 1] \in Values
      <3>1. k + 1 \in 1..Len(vs)
        BY LenProperties
      <3> QED BY <3>1, ElementOfSeq
    <2>2. Len(Enc(vs[k + 1])) \in Nat \ {0}
      BY <2>1, EncGood DEF Good
    <2> QED BY <2>2, StreamStep
  <1>5. BodyLen(vs, open) \in Nat /\ Len(Stream(vs)) <= BodyLen(vs, open)
    BY <1>2 DEF BodyLen
  <1> DEFINE x == Before(vs, k)  z == Before(vs, k + 1)  n == Len(Stream(vs))  s == BodyLen(vs, open)
             l == Len(Enc(vs[k + 1]))
  <1>6. x \in Nat /\ z = x + l /\ l \in Nat \ {0} /\ z \in 0..n /\ n \in Nat /\ s \in Nat /\ n <= s
    BY <1>2, <1>3, <1>4, <1>5
  <1> HIDE DEF x, z, n, s, l
  <1>7. x \in Nat /\ z \in Nat /\ s \in Nat /\ x < z /\ z <= s
    BY <1>6
  <1> QED BY <1>7 DEF x, z, s

(* The loop ends with the call that did not find the end of an element. *)
LEMMA NotFound ==
  ASSUME NEW bad, NEW bs \in Seq(Byte), NEW p \in Nat, NEW vs \in Seq(Values),
         NEW k \in 0..Len(vs), k # Len(vs), NEW open \in BOOLEAN,
         NEW end, Reaches(bad, bs, p, vs, k, end), end < 0
  PROVE  Answer(bad, bs, p, BodyLen(vs, open), end)
  <1> DEFINE z == Before(vs, k + 1)  s == BodyLen(vs, open)
  <1>1. z \in Nat /\ s \in Nat /\ z <= s /\ Len(bs) \in Nat
    BY Inside, LenProperties
  <1>2. \/ end = p + z + 1 /\ p + z <= Len(bs)
        \/ end = UnexpectedEOF /\ p + z > Len(bs)
        \/ bad /\ end = BadSpecial
    BY DEF Reaches
  <1> HIDE DEF z, s
  <1>3. \/ end = UnexpectedEOF /\ ~(p + s <= Len(bs))
        \/ bad /\ end = BadSpecial
    BY <1>1, <1>2
  <1>4. Answer(bad, bs, p, s, end)
    BY <1>3 DEF Answer
  <1> QED BY <1>4 DEF s

(* The loop when h items are left behind k elements. *)
PerCount(tag, h) == IF tag = "map" THEN h + h ELSE h
Loop(f, bad, bs, p, tag, vs, open, k, left) ==
  p + Before(vs, k) <= Len(bs) =>
    Answer(bad, bs, p, BodyLen(vs, open), f[<<p + Before(vs, k) + 1, tag, left>>])
Stage(vs, tag, open, h, k, left) ==
  /\ h \in Nat /\ k \in 0..Len(vs) /\ left \in Int
  /\ Len(vs) - k = PerCount(tag, h)
  /\ IF open THEN left < 0 ELSE left = h

LEMMA LoopIs ==
  ASSUME NEW lens \in Specials, NEW bs \in Seq(Byte), NEW f, Table(f, lens, bs),
         NEW x \in Nat \ {0}, NEW tag \in {"array", "map"}, NEW left \in Int
  PROVE  f[<<x, tag, left>>] = SkipElems(bs, f, x, tag, left)
  <1> DEFINE at == <<x, tag, left>>
  <1>1. at \in Places /\ at[1] = x /\ at[2] = tag /\ at[3] = left
    BY DEF Places
  <1> HIDE DEF at
  <1>2. f[at] = SkipStep(lens, bs, f, at)
    BY <1>1 DEF Table
  <1>3. SkipStep(lens, bs, f, at) = SkipElems(bs, f, x, tag, left)
    BY <1>1 DEF SkipStep
  <1> QED BY <1>2, <1>3 DEF at

LEMMA LoopEnds ==
  ASSUME NEW lens \in Specials, NEW bad, NEW bs \in Seq(Byte), NEW f, Table(f, lens, bs), NEW p,
         NEW tag \in {"array", "map"}, NEW vs \in Seq(Values), NEW open \in BOOLEAN,
         Body(bs, p, vs, open), NEW k, NEW left, Stage(vs, tag, open, 0, k, left)
  PROVE  Loop(f, bad, bs, p, tag, vs, open, k, left)
  <1> DEFINE n == Len(Stream(vs))  x == p + n + 1  res == f[<<x, tag, left>>]
  <1>1. n \in Nat /\ Len(bs) \in Nat /\ p \in Nat /\ p <= Len(bs)
    BY LenProperties, StreamTyped DEF Body, Cut
  <1>2. k = Len(vs) /\ Before(vs, k) = n /\ left \in Int /\ (IF open THEN left < 0 ELSE left = 0)
    <2>1. k = Len(vs)
      <3>1. Len(vs) \in Nat
        BY LenProperties
      <3> QED BY <3>1 DEF Stage, PerCount
    <2> QED BY <2>1, StreamWhole DEF Stage
  <1>3. SUFFICES ASSUME p + n <= Len(bs) PROVE Answer(bad, bs, p, BodyLen(vs, open), res)
    BY <1>2 DEF Loop
  <1>4. res = SkipElems(bs, f, x, tag, left)
    <2>1. x \in Nat \ {0}
      BY <1>1
    <2> HIDE DEF x
    <2> QED BY <1>2, <2>1, LoopIs
  <1>5. open => Cut(bs, p + n, <<Break>>)
    BY <1>3 DEF Body
  <1>6. CASE left = 0 /\ ~open
    <2>1. res = x
      BY <1>4, <1>6 DEF SkipElems
    <2>2. BodyLen(vs, open) = n
      BY <1>1, <1>6 DEF BodyLen
    <2> HIDE DEF n
    <2> QED BY <1>3, <2>1, <2>2 DEF Answer
  <1>7. CASE open /\ left < 0
    <2>1. BodyLen(vs, open) = n + 1
      BY <1>7 DEF BodyLen
    <2>2. CASE x > Len(bs)
      <3>1. res = UnexpectedEOF
        BY <1>2, <1>4, <1>7, <2>2 DEF SkipElems
      <3>2. ~(p + (n + 1) <= Len(bs))
        BY <1>1, <2>2
      <3> HIDE DEF n
      <3> QED BY <2>1, <3>1, <3>2 DEF Answer
    <2>3. CASE ~(x > Len(bs))
      <3>1. bs[x] = Break
        <4>1. 1 \in 1..Len(<<Break>>) /\ <<Break>>[1] = Break /\ p + n + 1 <= Len(bs)
          BY <1>1, <2>3
        <4> QED BY <1>5, <1>7, <4>1 DEF Cut
      <3>2. res = x + 1
        BY <1>2, <1>4, <1>7, <2>3, <3>1 DEF SkipElems
      <3>3. p + (n + 1) <= Len(bs) /\ p + (n + 1) + 1 = x + 1
        BY <1>1, <2>3
      <3> HIDE DEF n
      <3> QED BY <2>1, <3>2, <3>3 DEF Answer
    <2> QED BY <2>2, <2>3
  <1> QED BY <1>2, <1>6, <1>7

LEMMA LoopGoesOn ==
  ASSUME NEW lens \in Specials, NEW bad, NEW bs \in Seq(Byte), NEW f, Table(f, lens, bs), NEW p,
         NEW tag \in {"array", "map"}, NEW vs \in Seq(Values), NEW open \in BOOLEAN,
         Body(bs, p, vs, open), \A j \in 1..Len(vs) : Frames(f, bad, bs, vs[j]),
         NEW h \in Nat, NEW k, NEW left, Stage(vs, tag, open, h + 1, k, left),
         \A m, l : Stage(vs, tag, open, h, m, l) => Loop(f, bad, bs, p, tag, vs, open, m, l)
  PROVE  Loop(f, bad, bs, p, tag, vs, open, k, left)
  <1> DEFINE at == p + Before(vs, k) + 1  res == f[<<at, tag, left>>]
             one == f[<<at, "value", 1>>]
             Val == IF tag = "map" THEN one ELSE at
             two == f[<<Val, "value", 1>>]
             End == IF Val < 0 THEN Val ELSE two
             l == left - 1
             last == f[<<End, tag, l>>]
             Rest == IF End < 0 THEN End ELSE last
             Ok(end) == Answer(bad, bs, p, BodyLen(vs, open), end)
  <1>1. /\ Len(vs) \in Nat /\ k \in 0..Len(vs) /\ left \in Int /\ Len(vs) - k = PerCount(tag, h + 1)
        /\ IF open THEN left < 0 ELSE left = h + 1
        /\ Len(bs) \in Nat /\ p \in Nat /\ Cut(bs, p, Stream(vs))
    BY LenProperties DEF Stage, Body, Cut
  <1>2. k # Len(vs) /\ k + 1 \in 1..Len(vs) /\ k + 1 \in 0..Len(vs) /\ left # 0
        /\ (tag = "array" => Stage(vs, tag, open, h, k + 1, l))
        /\ (tag = "map" => /\ k + 1 # Len(vs) /\ k + 1 + 1 \in 1..Len(vs)
                           /\ Stage(vs, tag, open, h, k + 1 + 1, l))
    <2>1. PerCount(tag, h + 1) = IF tag = "map" THEN h + h + 2 ELSE h + 1
      BY DEF PerCount
    <2>2. PerCount(tag, h) = IF tag = "map" THEN h + h ELSE h
      BY DEF PerCount
    <2>3. Len(vs) - k = IF tag = "map" THEN h + h + 2 ELSE h + 1
      BY <1>1, <2>1
    <2>4. k # Len(vs) /\ k + 1 \in 1..Len(vs) /\ k + 1 \in 0..Len(vs) /\ left # 0
      BY <1>1, <2>3
    <2>5. l \in Int /\ IF open THEN l < 0 ELSE l = h
      BY <1>1
    <2>6. ASSUME tag = "array" PROVE Stage(vs, tag, open, h, k + 1, l)
      <3>1. Len(vs) - (k + 1) = PerCount(tag, h)
        BY <1>1, <2>2, <2>3, <2>6
      <3> QED BY <2>4, <2>5, <3>1 DEF Stage
    <2>7. ASSUME tag = "map"
          PROVE  k + 1 # Len(vs) /\ k + 1 + 1 \in 1..Len(vs) /\ Stage(vs, tag, open, h, k + 1 + 1, l)
      <3>1. Len(vs) - (k + 1 + 1) = PerCount(tag, h)
        BY <1>1, <2>2, <2>3, <2>7
      <3>2. k + 1 # Len(vs) /\ k + 1 + 1 \in 1..Len(vs) /\ k + 1 + 1 \in 0..Len(vs)
        BY <1>1, <2>3, <2>7
      <3> QED BY <2>5, <3>1, <3>2 DEF Stage
    <2> QED BY <2>4, <2>6, <2>7
  <1>3. SUFFICES ASSUME p + Before(vs, k) <= Len(bs) PROVE Ok(res)
    BY DEF Loop
  <1>4. /\ Before(vs, k) \in Nat /\ Before(vs, k + 1) \in Nat /\ BodyLen(vs, open) \in Nat
        /\ Before(vs, k) < Before(vs, k + 1) /\ Before(vs, k + 1) <= BodyLen(vs, open)
    BY <1>1, <1>2, Inside
  <1>5. at \in Nat \ {0}
    BY <1>1, <1>4
  <1>6. res = IF left = 0 THEN at
            ELSE IF at > Len(bs) THEN UnexpectedEOF
            ELSE IF left < 0 /\ bs[at] = Break THEN at + 1
            ELSE Rest
    <2>1. res = SkipElems(bs, f, at, tag, left)
      <3> HIDE DEF at
      <3> QED BY <1>1, <1>5, LoopIs
    <2> HIDE DEF at, res
    <2> QED BY <2>1 DEF SkipElems
  <1>7. CASE at > Len(bs)
    <2>1. res = UnexpectedEOF
      BY <1>2, <1>6, <1>7
    <2> DEFINE s == BodyLen(vs, open)
    <2>2. ~(p + s <= Len(bs))
      <3> DEFINE x == Before(vs, k)  z == Before(vs, k + 1)
      <3>1. x \in Nat /\ z \in Nat /\ s \in Nat /\ x < z /\ z <= s /\ p + x + 1 > Len(bs)
        BY <1>4, <1>7
      <3> HIDE DEF x, z, s
      <3> QED BY <1>1, <3>1
    <2> HIDE DEF res, s
    <2>3. Answer(bad, bs, p, s, res)
      BY <2>1, <2>2 DEF Answer
    <2> QED BY <2>3 DEF s
  <1>8. CASE ~(at > Len(bs))
    <2>1. bs[at] # Break
      <3> DEFINE e == Enc(vs[k + 1])  q == p + Before(vs, k)
      <3>1. Cut(bs, q, e)
        BY <1>1, <1>2, <1>3, CutEvent
      <3>2. Good(e)
        BY <1>2, EncGood, ElementOfSeq
      <3>3. q # Len(bs)
        BY <1>1, <1>4, <1>8
      <3> HIDE DEF q, e
      <3>4. bs[q + 1] = e[1]
        BY <3>1, <3>2, <3>3, CutFirst
      <3>5. e[1] # Break
        BY <3>2 DEF Good
      <3> QED BY <3>4, <3>5 DEF q
    <2>2. res = Rest
      <3> HIDE DEF Rest, res, at
      <3> QED BY <1>2, <1>6, <1>8, <2>1
    <2>3. Reaches(bad, bs, p, vs, k, one)
      BY <1>1, <1>2, <1>3, ElemFound
    <2>4. CASE tag = "array"
      <3>1. End = one
        <4>1. Val = at /\ ~(at < 0)
          BY <1>5, <2>4
        <4> HIDE DEF at
        <4> QED BY <4>1
      <3>2. CASE one < 0
        <4>1. Ok(one)
          <5> HIDE DEF one
          <5> QED BY <1>1, <1>2, <2>3, <3>2, NotFound
        <4>2. res = one
          <5> HIDE DEF res, End, one, last
          <5> QED BY <2>2, <3>1, <3>2
        <4> QED BY <4>1, <4>2
      <3>3. CASE ~(one < 0)
        <4>1. one = p + Before(vs, k + 1) + 1 /\ p + Before(vs, k + 1) <= Len(bs)
          <5> HIDE DEF one
          <5> QED BY <2>3, <3>3 DEF Reaches, UnexpectedEOF, BadSpecial
        <4>2. Loop(f, bad, bs, p, tag, vs, open, k + 1, l)
          BY <1>2, <2>4
        <4>3. Ok(f[<<one, tag, l>>])
          <5> HIDE DEF one
          <5> QED BY <4>1, <4>2 DEF Loop
        <4>4. res = f[<<one, tag, l>>]
          <5> HIDE DEF res, End, one
          <5> QED BY <2>2, <3>1, <3>3
        <4> QED BY <4>3, <4>4
      <3> QED BY <3>2, <3>3
    <2>5. CASE tag = "map"
      <3>1. Val = one
        BY <2>5
      <3>2. CASE one < 0
        <4>1. Ok(one)
          <5> HIDE DEF one
          <5> QED BY <1>1, <1>2, <2>3, <3>2, NotFound
        <4>2. res = one
          <5> HIDE DEF res, Val, two, one, last
          <5> QED BY <2>2, <3>1, <3>2
        <4> QED BY <4>1, <4>2
      <3>3. CASE ~(one < 0)
        <4>1. one = p + Before(vs, k + 1) + 1 /\ p + Before(vs, k + 1) <= Len(bs)
          <5> HIDE DEF one
          <5> QED BY <2>3, <3>3 DEF Reaches, UnexpectedEOF, BadSpecial
        <4> DEFINE d == f[<<one, "value", 1>>]  m == k + 1
        <4>2. End = d
          <5> HIDE DEF Val, one
          <5> QED BY <3>1, <3>3
        <4>3. m \in 0..Len(vs) /\ m # Len(vs) /\ m + 1 \in 1..Len(vs) /\ Stage(vs, tag, open, h, m + 1, l)
          BY <1>2, <2>5
        <4>4. Reaches(bad, bs, p, vs, m, d)
          <5> HIDE DEF one, m
          <5>1. p + Before(vs, m) <= Len(bs) /\ one = p + Before(vs, m) + 1
            BY <4>1 DEF m
          <5>2. Frames(f, bad, bs, vs[m + 1])
            BY <4>3
          <5> QED BY <1>1, <4>3, <5>1, <5>2, ElemFound
        <4>5. CASE d < 0
          <5>1. Ok(d)
            <6> HIDE DEF d, m
            <6> QED BY <1>1, <4>3, <4>4, <4>5, NotFound
          <5>2. res = d
            <6> HIDE DEF res, End, d, last
            <6> QED BY <2>2, <4>2, <4>5
          <5> QED BY <5>1, <5>2
        <4>6. CASE ~(d < 0)
          <5>1. d = p + Before(vs, m + 1) + 1 /\ p + Before(vs, m + 1) <= Len(bs)
            <6> HIDE DEF d, m
            <6> QED BY <4>4, <4>6 DEF Reaches, UnexpectedEOF, BadSpecial
          <5>2. Loop(f, bad, bs, p, tag, vs, open, m + 1, l)
            <6> HIDE DEF m, l
            <6> QED BY <4>3
          <5>3. Ok(f[<<d, tag, l>>])
            <6> HIDE DEF d, m
            <6> QED BY <5>1, <5>2 DEF Loop
          <5>4. res = f[<<d, tag, l>>]
            <6> HIDE DEF res, End, d
            <6> QED BY <2>2, <4>2, <4>6
          <5> QED BY <5>3, <5>4
        <4> QED BY <4>5, <4>6
      <3> QED BY <3>2, <3>3
    <2> QED BY <2>4, <2>5
  <1> QED BY <1>7, <1>8

LEMMA LoopFrames ==
  ASSUME NEW lens \in Specials, NEW bad, NEW bs \in Seq(Byte), NEW f, Table(f, lens, bs), NEW p,
         NEW tag \in {"array", "map"}, NEW vs \in Seq(Values), NEW open \in BOOLEAN,
         Body(bs, p, vs, open), \A j \in 1..Len(vs) : Frames(f, bad, bs, vs[j]),
         NEW n \in Nat, NEW k, NEW left, Stage(vs, tag, open, n, k, left)
  PROVE  Loop(f, bad, bs, p, tag, vs, open, k, left)
  <1> DEFINE P(h) == \A m, l : Stage(vs, tag, open, h, m, l) => Loop(f, bad, bs, p, tag, vs, open, m, l)
             T == {h \in Nat : ~P(h)}
  <1>1. ASSUME T # {} PROVE FALSE
    <2>1. PICK x \in T : \A y \in T : x <= y
      <3>1. T \subseteq Nat
        OBVIOUS
      <3> HIDE DEF T
      <3> QED BY <1>1, <3>1, SmallestExists
    <2>2. x \in Nat /\ ~P(x)
      BY <2>1
    <2>3. x # 0
      <3>1. P(0)
        BY LoopEnds
      <3> HIDE DEF P
      <3> QED BY <2>2, <3>1
    <2> DEFINE h == x - 1
    <2>4. h \in Nat /\ ~(x <= h) /\ h + 1 = x
      BY <2>2, <2>3
    <2> HIDE DEF h
    <2>5. P(h)
      <3> HIDE DEF P
      <3> QED BY <2>1, <2>4
    <2>6. P(h + 1)
      BY <2>4, <2>5, LoopGoesOn
    <2> HIDE DEF P
    <2> QED BY <2>2, <2>4, <2>6
  <1>2. P(n)
    <2> HIDE DEF P
    <2> QED BY <1>1
  <1> QED BY <1>2

-----------------------------------------------------------------------------
(* Framing of each kind of value.                                          *)
LEMMA ValueIs ==
  ASSUME NEW lens \in Specials, NEW bs \in Seq(Byte), NEW f, Table(f, lens, bs), NEW st \in Nat \ {0}
  PROVE  f[<<st, "value", 1>>] = SkipValue(lens, bs, f, st)
  <1> DEFINE at == <<st, "value", 1>>
  <1>1. at \in Places /\ at[1] = st /\ at[2] = "value"
    BY DEF Places
  <1> HIDE DEF at
  <1>2. f[at] = SkipStep(lens, bs, f, at)
    BY <1>1 DEF Table
  <1>3. SkipStep(lens, bs, f, at) = SkipValue(lens, bs, f, st)
    BY <1>1 DEF SkipStep
  <1> QED BY <1>2, <1>3 DEF at

(* There is no tag, or not all of it. *)
LEMMA NoTag ==
  ASSUME NEW lens \in Specials, NEW bad, NEW bs \in Seq(Byte), NEW f, Table(f, lens, bs), NEW p \in Nat,
         ReadTag(bs, p + 1).next = UnexpectedEOF, NEW n \in Nat, p + n > Len(bs)
  PROVE  Answer(bad, bs, p, n, f[<<p + 1, "value", 1>>])
  <1> DEFINE st == p + 1  res == f[<<st, "value", 1>>]
  <1>1. st \in Nat \ {0} /\ Len(bs) \in Nat
    BY LenProperties
  <1>2. ReadTag(bs, st).next = UnexpectedEOF
    OBVIOUS
  <1> HIDE DEF st
  <1>3. res = SkipValue(lens, bs, f, st)
    BY <1>1, ValueIs
  <1>4. SkipValue(lens, bs, f, st) = UnexpectedEOF
    BY <1>2 DEF SkipValue, UnexpectedEOF
  <1>5. ~(p + n <= Len(bs))
    BY <1>1
  <1> HIDE DEF res
  <1>6. Answer(bad, bs, p, n, res)
    BY <1>3, <1>4, <1>5 DEF Answer
  <1> QED BY <1>6 DEF res, st

LEMMA AtEnd ==
  ASSUME NEW lens \in Specials, NEW bad, NEW bs \in Seq(Byte), NEW f, Table(f, lens, bs), NEW p, NEW e,
         Cut(bs, p, e), Good(e), p = Len(bs)
  PROVE  Answer(bad, bs, p, Len(e), f[<<p + 1, "value", 1>>])
  <1>1. p \in Nat /\ Len(bs) \in Nat /\ Len(e) \in Nat \ {0}
    BY LenProperties DEF Cut, Good
  <1>2. p + 1 > Len(bs) /\ p + Len(e) > Len(bs) /\ Len(e) \in Nat
    BY <1>1
  <1>3. ReadTag(bs, p + 1).next = UnexpectedEOF
    BY <1>2 DEF ReadTag
  <1> QED BY <1>1, <1>2, <1>3, NoTag

(* A value that ends len bytes behind its first. *)
Bounded(bs, end) == IF end > Len(bs) + 1 THEN UnexpectedEOF ELSE end

LEMMA AnswerBounded ==
  ASSUME NEW bad, NEW bs \in Seq(Byte), NEW p \in Nat, NEW n \in Nat
  PROVE  Answer(bad, bs, p, n, Bounded(bs, p + n + 1))
  <1>1. Len(bs) \in Nat
    BY LenProperties
  <1>2. CASE p + n <= Len(bs)
    <2>1. ~(p + n + 1 > Len(bs) + 1)
      BY <1>1, <1>2
    <2> QED BY <1>2, <2>1 DEF Answer, Bounded
  <1>3. CASE ~(p + n <= Len(bs))
    <2>1. p + n + 1 > Len(bs) + 1
      BY <1>1, <1>3
    <2> QED BY <1>3, <2>1 DEF Answer, Bounded
  <1> QED BY <1>2, <1>3

LEMMA AnswerBehind ==
  ASSUME NEW bad, NEW bs \in Seq(Byte), NEW p \in Nat, NEW m \in Nat, NEW n \in Nat,
         NEW end, Answer(bad, bs, p + m, n, end)
  PROVE  Answer(bad, bs, p, m + n, Bounded(bs, end))
  <1>1. Len(bs) \in Nat /\ p + m + n = p + (m + n)
    BY LenProperties
  <1> DEFINE s == p + (m + n)
  <1>2. s \in Nat
    OBVIOUS
  <1> HIDE DEF s
  <1>3. \/ end = IF s <= Len(bs) THEN s + 1 ELSE UnexpectedEOF
        \/ bad /\ end = BadSpecial
    BY <1>1 DEF Answer, s
  <1>4. \/ Bounded(bs, end) = IF s <= Len(bs) THEN s + 1 ELSE UnexpectedEOF
        \/ bad /\ Bounded(bs, end) = BadSpecial
    <2>1. CASE s <= Len(bs)
      BY <1>1, <1>2, <1>3, <2>1 DEF Bounded, BadSpecial
    <2>2. CASE ~(s <= Len(bs))
      BY <1>1, <1>2, <1>3, <2>2 DEF Bounded, BadSpecial, UnexpectedEOF
    <2> QED BY <2>1, <2>2
  <1> QED BY <1>4 DEF Answer, s

(* What skip makes of a tag that it could read. *)
After(f, lens, bs, st, tag, l, next) ==
  LET end == f[<<st, "value", 1>>] IN
  /\ tag = "int" => end = Bounded(bs, next)
  /\ tag \in {"bytes", "str"} => end = Bounded(bs, next + l)
  /\ tag \in {"array", "map"} => end = Bounded(bs, f[<<next, tag, l>>])
  /\ tag = "label" => end = Bounded(bs, f[<<next, "value", 1>>])
  /\ tag = "special" => end = Bounded(bs, IF bs[st][2] \in DOMAIN lens THEN next + lens[bs[st][2]]
                                         ELSE BadSpecial)

LEMMA AfterTag ==
  ASSUME NEW lens \in Specials, NEW bad, NEW bs \in Seq(Byte), NEW f, Table(f, lens, bs),
         NEW st \in Nat \ {0}, NEW tag, NEW l, NEW next \in Nat,
         ReadTag(bs, st) = [tag |-> tag, l |-> l, next |-> next]
  PROVE  After(f, lens, bs, st, tag, l, next)
  <1> DEFINE res == f[<<st, "value", 1>>]
             End == CASE tag \in {"bytes", "str"} -> next + l
                      [] tag \in {"array", "map"} -> f[<<next, tag, l>>]
                      [] tag = "label" -> f[<<next, "value", 1>>]
                      [] tag = "special" ->
                           IF bs[st][2] \in DOMAIN lens THEN next + lens[bs[st][2]] ELSE BadSpecial
                      [] OTHER -> next
  <1>1. res = SkipValue(lens, bs, f, st)
    BY ValueIs
  <1>2. res = Bounded(bs, End)
    <2>1. ~(next < 0)
      OBVIOUS
    <2>2. SkipValue(lens, bs, f, st) = IF next < 0 THEN next ELSE Bounded(bs, End)
      BY DEF SkipValue, Bounded
    <2> QED BY <1>1, <2>1, <2>2
  <1> HIDE DEF res
  <1>3. CASE tag = "int"
    <2>1. End = next
      BY <1>3
    <2> QED BY <1>2, <1>3, <2>1 DEF res, After
  <1>4. CASE tag \in {"bytes", "str"}
    <2>1. End = next + l
      BY <1>4
    <2> QED BY <1>2, <1>4, <2>1 DEF res, After
  <1>5. CASE tag \in {"array", "map"}
    <2>1. End = f[<<next, tag, l>>]
      BY <1>5
    <2> QED BY <1>2, <1>5, <2>1 DEF res, After
  <1>6. CASE tag = "label"
    <2>1. End = f[<<next, "value", 1>>]
      BY <1>6
    <2> QED BY <1>2, <1>6, <2>1 DEF res, After
  <1>7. CASE tag = "special"
    <2>1. End = IF bs[st][2] \in DOMAIN lens THEN next + lens[bs[st][2]] ELSE BadSpecial
      BY <1>7
    <2> QED BY <1>2, <1>7, <2>1 DEF res, After
  <1>8. tag \notin {"int", "bytes", "str", "array", "map", "label", "special"} => After(f, lens, bs, st, tag, l, next)
    BY DEF After
  <1> QED BY <1>3, <1>4, <1>5, <1>6, <1>7, <1>8

Framed(f, bad, bs, p, e) == Answer(bad, bs, p, Len(e), f[<<p + 1, "value", 1>>])

LEMMA IntFramed ==
  ASSUME NEW lens \in Specials, NEW bad, NEW bs \in Seq(Byte), NEW f, Table(f, lens, bs), NEW p,
         NEW more \in Widths,
         NEW x, x = (IF more = 0 THEN <<"int", "short", 3>> ELSE <<"int", "long", more>>),
         Cut(bs, p, <<x>> \o Raw(more)), p # Len(bs)
  PROVE  Framed(f, bad, bs, p, <<x>> \o Raw(more))
  <1> DEFINE e == <<x>> \o Raw(more)  st == p + 1  res == f[<<st, "value", 1>>]
  <1>1. more \in Nat /\ p \in Nat /\ Len(bs) \in Nat /\ p <= Len(bs)
    BY LenProperties DEF Widths, Cut
  <1>2. x \in Byte /\ x # Break
    BY <1>1 DEF Byte, Details, Break
  <1>3. Len(e) = 1 + more /\ e[1] = x /\ Good(e)
    <2>1. Raw(more) \in Seq(Byte) /\ Len(Raw(more)) = more
      BY <1>1, RawTyped
    <2>2. e \in Seq(Byte) /\ Len(e) = 1 + more /\ e[1] = x
      BY <1>2, <2>1, OneMore
    <2> HIDE DEF e
    <2>3. Len(e) \in Nat \ {0}
      BY <1>1, <2>2
    <2> QED BY <1>2, <2>2, <2>3 DEF Good
  <1>4. st \in Nat \ {0} /\ st <= Len(bs) /\ bs[st] = x
    <2>1. Cut(bs, p, e)
      OBVIOUS
    <2> HIDE DEF e
    <2> QED BY <1>3, <2>1, CutFirst
  <1>5. p + (1 + more) + 1 = st + 1 + more /\ p + (1 + more) = st + more /\ 1 + more \in Nat
    BY <1>1
  <1> HIDE DEF e, st
  <1>6. ASSUME ReadTag(bs, st) = [tag |-> "int", l |-> ReadTag(bs, st).l, next |-> st + 1 + more]
        PROVE  Answer(bad, bs, p, 1 + more, res)
    <2> DEFINE next == st + 1 + more  l == ReadTag(bs, st).l
    <2>1. next \in Nat
      BY <1>1, <1>4
    <2>2. ReadTag(bs, st) = [tag |-> "int", l |-> l, next |-> next]
      BY <1>6
    <2> HIDE DEF next, l
    <2>3. res = Bounded(bs, next)
      <3>1. After(f, lens, bs, st, "int", l, next)
        BY <1>4, <2>1, <2>2, AfterTag
      <3> QED BY <3>1 DEF After
    <2>4. Answer(bad, bs, p, 1 + more, Bounded(bs, p + (1 + more) + 1))
      <3> DEFINE n == 1 + more
      <3>1. n \in Nat
        BY <1>1
      <3> HIDE DEF n
      <3>2. Answer(bad, bs, p, n, Bounded(bs, p + n + 1))
        BY <1>1, <3>1, AnswerBounded
      <3> QED BY <3>2 DEF n
    <2> QED BY <1>5, <2>3, <2>4 DEF next
  <1>7. Answer(bad, bs, p, 1 + more, res)
    <2>1. CASE more = 0
      <3>1. ReadTag(bs, st) = [tag |-> "int", l |-> 3, next |-> st + 1]
        <4>1. bs[st] = <<"int", "short", 3>>
          BY <1>4, <2>1
        <4> QED BY <1>4, <4>1, ReadShort
      <3>2. st + 1 + more = st + 1
        BY <1>4, <2>1
      <3> QED BY <1>6, <3>1, <3>2
    <2>2. CASE more # 0
      <3>1. ReadTag(bs, st) = IF st + more > Len(bs) THEN [tag |-> "int", l |-> 0, next |-> UnexpectedEOF]
                             ELSE [tag |-> "int", l |-> Worth(bs, st, more), next |-> st + 1 + more]
        <4>1. bs[st] = <<"int", "long", more>>
          BY <1>4, <2>2
        <4> QED BY <1>4, <2>2, <4>1, ReadLong
      <3>2. CASE st + more > Len(bs)
        <4>1. ReadTag(bs, st).next = UnexpectedEOF
          BY <3>1, <3>2
        <4>2. p + (1 + more) > Len(bs)
          BY <1>5, <3>2
        <4>3. Answer(bad, bs, p, 1 + more, f[<<p + 1, "value", 1>>])
          <5> DEFINE n == 1 + more
          <5>1. n \in Nat /\ p + n > Len(bs)
            BY <1>5, <4>2
          <5> HIDE DEF n
          <5>2. ReadTag(bs, p + 1).next = UnexpectedEOF
            BY <4>1 DEF st
          <5>3. Answer(bad, bs, p, n, f[<<p + 1, "value", 1>>])
            BY <1>1, <5>1, <5>2, NoTag
          <5> QED BY <5>3 DEF n
        <4> QED BY <4>3 DEF st
      <3>3. CASE ~(st + more > Len(bs))
        BY <1>6, <3>1, <3>3
      <3> QED BY <3>2, <3>3
    <2> QED BY <2>1, <2>2
  <1> QED BY <1>3, <1>7 DEF Framed, e, st

LEMMA StringFramed ==
  ASSUME NEW lens \in Specials, NEW bad, NEW bs \in Seq(Byte), NEW f, Table(f, lens, bs), NEW p,
         NEW tag \in {"bytes", "str"}, NEW n, NEW long \in Widths, Fits(n, long),
         NEW s \in Seq(Byte), Len(s) = n,
         Cut(bs, p, Header(tag, n, long) \o s), p # Len(bs)
  PROVE  Framed(f, bad, bs, p, Header(tag, n, long) \o s)
  <1> DEFINE h == Header(tag, n, long)  e == h \o s  st == p + 1  res == f[<<st, "value", 1>>]
             m == 1 + long + n
  <1>1. n \in Nat /\ long \in Nat /\ p \in Nat /\ Len(bs) \in Nat /\ tag \in Tags
    BY LenProperties DEF Fits, Widths, Cut, Tags
  <1>2. h \in Seq(Byte) /\ Len(h) = 1 + long
    BY <1>1, HeaderTyped
  <1>3. Cut(bs, p, h) /\ Len(e) = m
    <2>0. Cut(bs, p, h \o s)
      OBVIOUS
    <2> HIDE DEF h
    <2>1. Cut(bs, p, h)
      BY <1>2, <2>0, CutSplit
    <2>2. Len(h \o s) = Len(h) + Len(s)
      BY <1>2, ConcatProperties
    <2> QED BY <1>2, <2>1, <2>2
  <1>4. /\ p + 1 + long > Len(bs) => ReadTag(bs, st).next = UnexpectedEOF
        /\ p + 1 + long <= Len(bs) =>
             ReadTag(bs, st) = [tag |-> tag, l |-> n, next |-> p + 2 + long]
    <2>1. Cut(bs, p, Header(tag, n, long))
      BY <1>3
    <2>2. HeaderSeen(bs, p, tag, n, long)
      BY <1>1, <2>1, HeaderRead
    <2> QED BY <2>2 DEF HeaderSeen
  <1>5. m \in Nat /\ st \in Nat \ {0}
    BY <1>1
  <1>6. CASE p + 1 + long > Len(bs)
    <2>1. p + m > Len(bs)
      BY <1>1, <1>6
    <2>2. ReadTag(bs, p + 1).next = UnexpectedEOF
      BY <1>4, <1>6
    <2> HIDE DEF m
    <2>3. Answer(bad, bs, p, m, f[<<p + 1, "value", 1>>])
      BY <1>1, <1>5, <2>1, <2>2, NoTag
    <2> HIDE DEF e
    <2> QED BY <1>3, <2>3 DEF Framed, e
  <1>7. CASE ~(p + 1 + long > Len(bs))
    <2> DEFINE next == p + 2 + long
    <2>1. ReadTag(bs, st) = [tag |-> tag, l |-> n, next |-> next] /\ next \in Nat
      BY <1>1, <1>4, <1>7
    <2>2. next + n = p + m + 1
      BY <1>1
    <2> HIDE DEF next, m, st
    <2>3. After(f, lens, bs, st, tag, n, next)
      BY <1>5, <2>1, AfterTag
    <2>4. res = Bounded(bs, p + m + 1)
      BY <2>2, <2>3 DEF After
    <2>5. Answer(bad, bs, p, m, Bounded(bs, p + m + 1))
      BY <1>1, <1>5, AnswerBounded
    <2> HIDE DEF e
    <2> QED BY <1>3, <2>4, <2>5 DEF Framed, e, st
  <1> QED BY <1>6, <1>7

(* The first byte of an encoding. *)
Starts(bs, p, x, s) ==
  /\ p \in Nat /\ p + 1 \in Nat \ {0} /\ p + 1 <= Len(bs) /\ bs[p + 1] = x
  /\ Len(<<x>> \o s) = 1 + Len(s) /\ Cut(bs, p + 1, s) /\ Len(s) \in Nat

LEMMA FirstByte ==
  ASSUME NEW bs \in Seq(Byte), NEW p, NEW x \in Byte, x # Break, NEW s \in Seq(Byte),
         Cut(bs, p, <<x>> \o s), p # Len(bs)
  PROVE  Starts(bs, p, x, s)
  <1> DEFINE e == <<x>> \o s
  <1>1. Good(<<x>>) /\ Len(<<x>>) = 1 /\ <<x>> \in Seq(Byte) /\ <<x>>[1] = x
    BY GoodOne
  <1>2. Good(e) /\ e[1] = x /\ Len(e) = 1 + Len(s) /\ Len(s) \in Nat
    <2> DEFINE o == <<x>>
    <2>1. Good(o) /\ Len(o) = 1 /\ o[1] = x
      BY <1>1
    <2> HIDE DEF o
    <2>2. Good(o \o s) /\ Len(o \o s) = Len(o) + Len(s) /\ (o \o s)[1] = o[1]
      BY <2>1, GoodBefore
    <2> QED BY <2>1, <2>2, LenProperties DEF o
  <1>3. Cut(bs, p, e)
    OBVIOUS
  <1>4. Cut(bs, p, e) /\ p + 1 <= Len(bs) => Cut(bs, p + 1, s)
    <2> DEFINE o == <<x>>
    <2>1. o \in Seq(Byte) /\ Len(o) = 1
      BY <1>1
    <2>2. Cut(bs, p, o \o s)
      OBVIOUS
    <2> HIDE DEF o
    <2>3. p + Len(o) <= Len(bs) => Cut(bs, p + Len(o), s)
      BY <2>1, <2>2, CutSplit
    <2> QED BY <2>1, <2>3
  <1> HIDE DEF e
  <1>5. p + 1 \in Nat \ {0} /\ p + 1 <= Len(bs) /\ bs[p + 1] = e[1]
    BY <1>2, <1>3, CutFirst
  <1>6. p \in Nat
    BY <1>3 DEF Cut
  <1> QED BY <1>2, <1>3, <1>4, <1>5, <1>6 DEF e, Starts

LEMMA SpecialFramed ==
  ASSUME NEW lens \in Specials, NEW bad, NEW bs \in Seq(Byte), NEW f, Table(f, lens, bs), NEW p,
         NEW s \in DOMAIN DecoderLen \ {"break"}, NEW more, more = DecoderLen[s],
         s \notin DOMAIN lens => bad,
         Cut(bs, p, << <<"special", s, 0>> >> \o Raw(more)), p # Len(bs)
  PROVE  Framed(f, bad, bs, p, << <<"special", s, 0>> >> \o Raw(more))
  <1> DEFINE x == <<"special", s, 0>>  e == <<x>> \o Raw(more)  st == p + 1  n == 1 + more
             res == f[<<st, "value", 1>>]
  <1>1. more \in Nat /\ Raw(more) \in Seq(Byte) /\ Len(Raw(more)) = more
    <2>1. more \in Nat
      BY DEF DecoderLen, SpecialLen
    <2> QED BY <2>1, RawTyped
  <1>2. x \in Byte /\ x # Break
    <2>1. s \in Details
      BY DEF Details
    <2> QED BY <2>1 DEF Byte, Break
  <1>3. p \in Nat /\ st \in Nat \ {0} /\ st <= Len(bs) /\ bs[st] = x /\ Len(e) = n
    <2> DEFINE wd == Raw(more)
    <2>1. Cut(bs, p, <<x>> \o wd) /\ wd \in Seq(Byte) /\ Len(wd) = more
      BY <1>1
    <2> HIDE DEF x, wd
    <2>2. Starts(bs, p, x, wd)
      BY <1>2, <2>1, FirstByte
    <2>3. p \in Nat /\ st \in Nat \ {0} /\ st <= Len(bs) /\ bs[st] = x /\ Len(<<x>> \o wd) = n
      BY <2>1, <2>2 DEF Starts
    <2> QED BY <2>3 DEF wd
  <1>4. n \in Nat /\ st + 1 \in Nat /\ st + 1 + more = p + n + 1
    <2>1. more \in Nat /\ p \in Nat
      BY <1>1, <1>3
    <2> QED BY <2>1
  <1> HIDE DEF st, e, n
  <1>5. ReadTag(bs, st) = [tag |-> "special", l |-> 0, next |-> st + 1]
    BY <1>3, ReadSpecial
  <1> DEFINE next == st + 1
  <1>6. next \in Nat /\ ReadTag(bs, st) = [tag |-> "special", l |-> 0, next |-> next]
    BY <1>4, <1>5
  <1> HIDE DEF next
  <1>7. After(f, lens, bs, st, "special", 0, next)
    BY <1>3, <1>6, AfterTag
  <1>8. res = Bounded(bs, IF s \in DOMAIN lens THEN next + lens[s] ELSE BadSpecial)
    <2>1. bs[st][2] = s
      BY <1>3
    <2> QED BY <1>7, <2>1 DEF After
  <1>9. CASE s \in DOMAIN lens
    <2>1. lens[s] = more
      <3>1. CASE lens = DecoderLen
        BY <3>1
      <3>2. CASE lens = SpecialLen
        <4>1. DecoderLen[s] = SpecialLen[s]
          <5>1. s \in DOMAIN SpecialLen
            BY <1>9, <3>2
          <5> QED BY <5>1 DEF DecoderLen
        <4> QED BY <3>2, <4>1
      <3> QED BY <3>1, <3>2 DEF Specials
    <2>2. res = Bounded(bs, p + n + 1)
      BY <1>4, <1>8, <1>9, <2>1 DEF next
    <2>3. Answer(bad, bs, p, n, Bounded(bs, p + n + 1))
      BY <1>3, <1>4, AnswerBounded
    <2> QED BY <1>3, <2>2, <2>3 DEF Framed, e, st
  <1>10. CASE s \notin DOMAIN lens
    <2>1. bad
      BY <1>10
    <2>2. res = BadSpecial
      <3>1. Len(bs) \in Nat
        BY LenProperties
      <3> QED BY <1>8, <1>10, <3>1 DEF Bounded, BadSpecial
    <2>3. Answer(bad, bs, p, n, res)
      BY <2>1, <2>2 DEF Answer
    <2> QED BY <1>3, <2>3 DEF Framed, e, st
  <1> QED BY <1>9, <1>10

LEMMA LabelFramed ==
  ASSUME NEW lens \in Specials, NEW bad, NEW bs \in Seq(Byte), NEW f, Table(f, lens, bs), NEW p,
         NEW s \in Seq(Byte), \A q : Cut(bs, q, s) => Framed(f, bad, bs, q, s),
         Cut(bs, p, << <<"label", "short", 1>> >> \o s), p # Len(bs)
  PROVE  Framed(f, bad, bs, p, << <<"label", "short", 1>> >> \o s)
  <1> DEFINE x == <<"label", "short", 1>>  e == <<x>> \o s  st == p + 1
             res == f[<<st, "value", 1>>]  n == Len(s)  inner == f[<<st + 1, "value", 1>>]
  <1>1. x \in Byte /\ x # Break
    BY DEF Byte, Details, Break
  <1>2. /\ p \in Nat /\ st \in Nat \ {0} /\ st <= Len(bs) /\ bs[st] = x /\ Len(e) = 1 + n
        /\ Cut(bs, st, s) /\ n \in Nat
    <2>1. Cut(bs, p, <<x>> \o s)
      OBVIOUS
    <2> HIDE DEF x
    <2>2. Starts(bs, p, x, s)
      BY <1>1, <2>1, FirstByte
    <2> QED BY <2>2 DEF Starts
  <1> DEFINE next == st + 1
  <1>3. ReadTag(bs, st) = [tag |-> "label", l |-> 1, next |-> next] /\ next \in Nat
    <2> HIDE DEF st
    <2> QED BY <1>2, ReadShort
  <1>4. Answer(bad, bs, p + 1, n, inner)
    <2>1. Framed(f, bad, bs, st, s)
      BY <1>2
    <2> QED BY <2>1 DEF Framed
  <1>5. res = Bounded(bs, inner)
    <2> DEFINE nx == next
    <2>1. nx \in Nat /\ ReadTag(bs, st) = [tag |-> "label", l |-> 1, next |-> nx]
      BY <1>3
    <2> HIDE DEF nx, st
    <2>2. After(f, lens, bs, st, "label", 1, nx)
      BY <1>2, <2>1, AfterTag
    <2>3. res = Bounded(bs, f[<<nx, "value", 1>>])
      BY <2>2 DEF After
    <2> QED BY <2>3 DEF nx
  <1>6. Answer(bad, bs, p, 1 + n, Bounded(bs, inner))
    <2> DEFINE m == 1
    <2>1. m \in Nat /\ Answer(bad, bs, p + m, n, inner)
      BY <1>4
    <2> HIDE DEF m, n, inner
    <2>2. Answer(bad, bs, p, m + n, Bounded(bs, inner))
      BY <1>2, <2>1, AnswerBehind
    <2> QED BY <2>2 DEF m
  <1> HIDE DEF inner, n, e
  <1> QED BY <1>2, <1>5, <1>6 DEF Framed, e

LEMMA HighGrows ==
  ASSUME NEW m \in Nat, NEW n \in Nat, m <= n
  PROVE  High(m) <= High(n)
  <1> DEFINE x == High(m)  y == High(n)  i0 == m % 256  j0 == n % 256
  <1>1. x \in Nat /\ i0 \in 0..255 /\ m = x * 256 + i0
    BY HighIs
  <1>2. y \in Nat /\ j0 \in 0..255 /\ n = y * 256 + j0
    BY HighIs
  <1> HIDE DEF x, y, i0, j0
  <1>3. x <= y
    BY <1>1, <1>2
  <1> QED BY <1>3 DEF x, y

LEMMA FitsLess ==
  ASSUME NEW m, Fits(m, 4), NEW c \in Nat, c <= m
  PROVE  Width(c) \in Widths /\ Fits(c, Width(c))
  <1>1. m \in Nat /\ High(High(High(m))) < 128
    BY DEF Fits
  <1>2. High(c) \in Nat /\ High(m) \in Nat /\ High(c) <= High(m)
    BY <1>1, HighIs, HighGrows, Zenon
  <1>3. High(High(c)) \in Nat /\ High(High(m)) \in Nat /\ High(High(c)) <= High(High(m))
    <2> DEFINE x == High(c)  y == High(m)
    <2>1. x \in Nat /\ y \in Nat /\ x <= y
      BY <1>2
    <2> HIDE DEF x, y
    <2>2. High(x) \in Nat /\ High(y) \in Nat /\ High(x) <= High(y)
      BY <2>1, HighIs, HighGrows, Zenon
    <2> QED BY <2>2 DEF x, y
  <1>4. High(High(High(c))) < 128
    <2> DEFINE x == High(High(c))  y == High(High(m))
    <2>1. x \in Nat /\ y \in Nat /\ x <= y /\ High(y) < 128
      BY <1>1, <1>3
    <2> HIDE DEF x, y
    <2>2. High(x) \in Nat /\ High(y) \in Nat /\ High(x) <= High(y)
      BY <2>1, HighIs, HighGrows, Zenon
    <2>3. High(x) < 128
      BY <2>1, <2>2
    <2> QED BY <2>3 DEF x
  <1>5. Width(c) \in Widths
    BY DEF Width, Widths
  <1>6. (Width(c) = 0 => c < 24) /\ (Width(c) = 1 => c < 256) /\ (Width(c) = 2 => High(c) < 256)
    BY DEF Width
  <1> QED BY <1>4, <1>5, <1>6 DEF Fits

LEMMA AtFirst ==
  ASSUME NEW lens \in Specials, NEW bad, NEW bs \in Seq(Byte), NEW f, Table(f, lens, bs), NEW p \in Nat,
         NEW tag \in {"array", "map"}, NEW vs \in Seq(Values), NEW open \in BOOLEAN,
         Body(bs, p, vs, open), \A j \in 1..Len(vs) : Frames(f, bad, bs, vs[j]),
         NEW h \in Nat, Len(vs) = PerCount(tag, h), NEW left \in Int, IF open THEN left < 0 ELSE left = h
  PROVE  Answer(bad, bs, p, BodyLen(vs, open), f[<<p + 1, tag, left>>])
  <1>1. Stage(vs, tag, open, h, 0, left)
    <2>1. Len(vs) \in Nat /\ 0 \in 0..Len(vs) /\ Len(vs) - 0 = Len(vs)
      BY LenProperties
    <2> QED BY <2>1 DEF Stage
  <1>2. Loop(f, bad, bs, p, tag, vs, open, 0, left)
    BY <1>1, LoopFrames
  <1>3. Before(vs, 0) = 0 /\ p + 0 = p
    BY StreamWhole
  <1>4. p <= Len(bs)
    BY DEF Body, Cut
  <1> QED BY <1>2, <1>3, <1>4 DEF Loop

LEMMA OpenFramed ==
  ASSUME NEW lens \in Specials, NEW bad, NEW bs \in Seq(Byte), NEW f, Table(f, lens, bs), NEW p,
         NEW tag \in {"array", "map"}, NEW vs \in Seq(Values),
         \A j \in 1..Len(vs) : Frames(f, bad, bs, vs[j]),
         NEW h \in Nat, Len(vs) = PerCount(tag, h),
         Cut(bs, p, << <<tag, "open", 0>> >> \o Stream(vs) \o <<Break>>), p # Len(bs)
  PROVE  Framed(f, bad, bs, p, << <<tag, "open", 0>> >> \o Stream(vs) \o <<Break>>)
  <1> DEFINE x == <<tag, "open", 0>>  s == Stream(vs)  o == <<x>> \o s  e == o \o <<Break>>
             st == p + 1  n == BodyLen(vs, TRUE)  res == f[<<st, "value", 1>>]
  <1>1. x \in Byte /\ x # Break /\ s \in Seq(Byte) /\ Len(s) \in Nat
    <2>1. x \in Byte /\ x # Break
      BY DEF Byte, Details, Break
    <2> QED BY <2>1, StreamTyped
  <1>2. <<Break>> \in Seq(Byte) /\ Len(<<Break>>) = 1
    <2>1. Break \in Byte
      BY DEF Break, Byte, Details, DecoderLen, SpecialLen
    <2> HIDE DEF Break
    <2> QED BY <2>1
  <1>3. o \in Seq(Byte) /\ Len(o) = 1 + Len(s)
    <2> HIDE DEF x, s
    <2> QED BY <1>1, OneMore
  <1>4. Cut(bs, p, o) /\ (p + Len(o) <= Len(bs) => Cut(bs, p + Len(o), <<Break>>))
    <2>1. Cut(bs, p, o \o <<Break>>)
      OBVIOUS
    <2> DEFINE wd == <<Break>>
    <2>2. Cut(bs, p, o \o wd) /\ wd \in Seq(Byte)
      BY <1>2, <2>1
    <2> HIDE DEF o, wd
    <2>3. Cut(bs, p, o) /\ (p + Len(o) <= Len(bs) => Cut(bs, p + Len(o), wd))
      BY <1>3, <2>2, CutSplit
    <2> QED BY <2>3 DEF wd
  <1>5. Starts(bs, p, x, s)
    <2>1. Cut(bs, p, <<x>> \o s)
      BY <1>4
    <2> HIDE DEF x, s
    <2> QED BY <1>1, <2>1, FirstByte
  <1>6. p \in Nat /\ st \in Nat \ {0} /\ st <= Len(bs) /\ bs[st] = x /\ Cut(bs, st, s)
    BY <1>5 DEF Starts
  <1>7. Body(bs, st, vs, TRUE)
    <2>1. st + Len(s) = p + Len(o)
      <3> HIDE DEF s, o
      <3> QED BY <1>1, <1>3, <1>6
    <2> HIDE DEF st, o, Break
    <2> QED BY <1>4, <1>6, <2>1 DEF Body
  <1>8. Answer(bad, bs, st, n, f[<<st + 1, tag, -1>>])
    <2> DEFINE left == -1
    <2>1. left \in Int /\ IF TRUE THEN left < 0 ELSE left = h
      OBVIOUS
    <2> HIDE DEF left, st, n
    <2>2. Answer(bad, bs, st, BodyLen(vs, TRUE), f[<<st + 1, tag, left>>])
      BY <1>6, <1>7, <2>1, AtFirst
    <2> QED BY <2>2 DEF left, n
  <1>9. Len(e) = 1 + n /\ n \in Nat
    <2>1. Len(o \o <<Break>>) = Len(o) + Len(<<Break>>)
      <3> DEFINE wd == <<Break>>
      <3>1. wd \in Seq(Byte)
        BY <1>2
      <3> HIDE DEF o, wd
      <3>2. Len(o \o wd) = Len(o) + Len(wd)
        BY <1>3, <3>1, ConcatProperties
      <3> QED BY <3>2 DEF wd
    <2>2. n = Len(s) + 1
      BY DEF BodyLen
    <2> DEFINE l == Len(s)
    <2>3. Len(e) = (1 + l) + 1 /\ n = l + 1 /\ l \in Nat
      BY <1>1, <1>2, <1>3, <2>1, <2>2
    <2> HIDE DEF e, n, l
    <2> QED BY <2>3
  <1>10. res = Bounded(bs, f[<<st + 1, tag, -1>>])
    <2> DEFINE nx == st + 1
    <2>1. nx \in Nat /\ ReadTag(bs, st) = [tag |-> tag, l |-> -1, next |-> nx]
      <3>1. st + 1 \in Nat
        BY <1>6
      <3> HIDE DEF st
      <3> QED BY <1>6, <3>1, ReadOpen
    <2> HIDE DEF nx, st
    <2>2. After(f, lens, bs, st, tag, -1, nx)
      BY <1>6, <2>1, AfterTag
    <2>3. res = Bounded(bs, f[<<nx, tag, -1>>])
      BY <2>2 DEF After
    <2> QED BY <2>3 DEF nx
  <1> DEFINE inner == f[<<st + 1, tag, -1>>]
  <1>11. Answer(bad, bs, p, 1 + n, Bounded(bs, inner))
    <2> DEFINE m == 1
    <2>1. m \in Nat /\ Answer(bad, bs, p + m, n, inner)
      BY <1>8
    <2> HIDE DEF m, n, inner
    <2>2. Answer(bad, bs, p, m + n, Bounded(bs, inner))
      BY <1>6, <1>9, <2>1, AnswerBehind
    <2> QED BY <2>2 DEF m
  <1> HIDE DEF inner, n, e
  <1>12. Answer(bad, bs, p, Len(e), res)
    BY <1>9, <1>10, <1>11 DEF inner
  <1> QED BY <1>12 DEF Framed, e

LEMMA GivenFramed ==
  ASSUME NEW lens \in Specials, NEW bad, NEW bs \in Seq(Byte), NEW f, Table(f, lens, bs), NEW p,
         NEW tag \in {"array", "map"}, NEW vs \in Seq(Values),
         \A j \in 1..Len(vs) : Frames(f, bad, bs, vs[j]),
         NEW c, Len(vs) = PerCount(tag, c), NEW long \in Widths, Fits(c, long),
         Cut(bs, p, Header(tag, c, long) \o Stream(vs)), p # Len(bs)
  PROVE  Framed(f, bad, bs, p, Header(tag, c, long) \o Stream(vs))
  <1> DEFINE g == Header(tag, c, long)  s == Stream(vs)  e == g \o s
             st == p + 1  n == BodyLen(vs, FALSE)  res == f[<<st, "value", 1>>]  m == 1 + long
  <1>1. /\ c \in Nat /\ long \in Nat /\ p \in Nat /\ Len(bs) \in Nat /\ tag \in Tags
        /\ s \in Seq(Byte) /\ Len(s) \in Nat
    BY LenProperties, StreamTyped DEF Fits, Widths, Cut, Tags
  <1>2. g \in Seq(Byte) /\ Len(g) = m
    BY <1>1, HeaderTyped
  <1>3. Cut(bs, p, g) /\ (p + m <= Len(bs) => Cut(bs, p + m, s)) /\ Len(e) = m + n
    <2>0. Cut(bs, p, g \o s) /\ n = Len(s)
      BY <1>1 DEF BodyLen
    <2> HIDE DEF g, s, m, n
    <2>1. Cut(bs, p, g) /\ (p + Len(g) <= Len(bs) => Cut(bs, p + Len(g), s))
      BY <1>1, <1>2, <2>0, CutSplit
    <2>2. Len(g \o s) = Len(g) + Len(s)
      BY <1>1, <1>2, ConcatProperties
    <2> QED BY <1>2, <2>0, <2>1, <2>2
  <1>4. HeaderSeen(bs, p, tag, c, long)
    <2>1. Cut(bs, p, Header(tag, c, long))
      BY <1>3
    <2> QED BY <1>1, <2>1, HeaderRead
  <1>5. m \in Nat /\ n \in Nat /\ m + n \in Nat /\ st \in Nat \ {0} /\ p + m + 1 = p + 2 + long
        /\ p + 1 + long = p + m
    BY <1>1 DEF BodyLen
  <1>6. CASE p + m > Len(bs)
    <2>1. p + (m + n) > Len(bs)
      <3> HIDE DEF m, n
      <3> QED BY <1>1, <1>5, <1>6
    <2>2. ReadTag(bs, p + 1).next = UnexpectedEOF
      BY <1>4, <1>5, <1>6 DEF HeaderSeen
    <2> DEFINE l == m + n
    <2>3. l \in Nat /\ p + l > Len(bs)
      BY <1>5, <2>1
    <2> HIDE DEF l
    <2>4. Answer(bad, bs, p, l, f[<<p + 1, "value", 1>>])
      BY <1>1, <2>2, <2>3, NoTag
    <2>5. Len(e) = l
      BY <1>3 DEF l
    <2> HIDE DEF e
    <2> QED BY <2>4, <2>5 DEF Framed, e
  <1>7. CASE ~(p + m > Len(bs))
    <2> DEFINE q == p + m  next == q + 1  inner == f[<<next, tag, c>>]
    <2>1. next = p + 2 + long /\ q <= Len(bs) /\ q \in Nat /\ next \in Nat
      <3> HIDE DEF m
      <3> QED BY <1>1, <1>5, <1>7
    <2>2. ReadTag(bs, st) = [tag |-> tag, l |-> c, next |-> next]
      <3> HIDE DEF next, m
      <3> QED BY <1>4, <1>5, <2>1 DEF HeaderSeen
    <2>3. Body(bs, q, vs, FALSE)
      BY <1>3, <2>1 DEF Body
    <2>4. Answer(bad, bs, q, n, inner)
      <3> HIDE DEF q, n
      <3> DEFINE left == c  open == FALSE
      <3>1. /\ left \in Int /\ left = c /\ ~open /\ open \in BOOLEAN /\ q \in Nat /\ c \in Nat
        BY <1>1, <2>1
      <3>4. Body(bs, q, vs, open)
        BY <2>3
      <3> HIDE DEF left, open
      <3>3. IF open THEN left < 0 ELSE left = c
        BY <3>1
      <3>2. Answer(bad, bs, q, BodyLen(vs, open), f[<<q + 1, tag, left>>])
        BY <3>1, <3>3, <3>4, AtFirst
      <3> QED BY <3>2 DEF n, left, open
    <2>5. res = Bounded(bs, inner)
      <3> HIDE DEF next, st
      <3>1. After(f, lens, bs, st, tag, c, next)
        BY <1>5, <2>1, <2>2, AfterTag
      <3> QED BY <3>1 DEF After
    <2>6. Answer(bad, bs, p, m + n, Bounded(bs, inner))
      <3>1. Answer(bad, bs, p + m, n, inner)
        BY <2>4
      <3> HIDE DEF m, n, inner
      <3> QED BY <1>1, <1>5, <3>1, AnswerBehind
    <2> HIDE DEF inner, n, m, e
    <2>7. Answer(bad, bs, p, Len(e), res)
      BY <1>3, <2>5, <2>6
    <2> QED BY <2>7 DEF Framed, e
  <1> QED BY <1>6, <1>7

-----------------------------------------------------------------------------
(* The Reader, which knows fewer specials than the decoder, may refuse an  *)
(* encoding with one it does not know.                                     *)
Refusable(lens, e) == lens = SpecialLen /\ Unknown(e)

(* All bytes of d are bytes of e. *)
AllIn(d, e) == \A c \in 1..Len(d) : \E k \in 1..Len(e) : e[k] = d[c]

LEMMA AllInConcat ==
  ASSUME NEW d \in Seq(Byte), NEW e \in Seq(Byte)
  PROVE  AllIn(d, d \o e) /\ AllIn(e, d \o e)
  <1> DEFINE h == d \o e  m == Len(d)  n == Len(e)
  <1>1. /\ m \in Nat /\ n \in Nat /\ Len(h) = m + n
        /\ \A k \in 1..m + n : h[k] = IF k <= m THEN d[k] ELSE e[k - m]
    BY LenProperties, ConcatProperties
  <1> HIDE DEF h, m, n
  <1>2. \A c \in 1..m : \E k \in 1..Len(h) : h[k] = d[c]
    <2> TAKE c \in 1..m
    <2>1. c \in 1..m + n /\ c <= m
      BY <1>1
    <2> QED BY <1>1, <2>1
  <1>3. \A c \in 1..n : \E k \in 1..Len(h) : h[k] = e[c]
    <2> TAKE c \in 1..n
    <2> DEFINE k == m + c
    <2>1. k \in 1..m + n /\ ~(k <= m) /\ k - m = c
      BY <1>1
    <2> HIDE DEF k
    <2>2. h[k] = e[c]
      BY <1>1, <2>1
    <2> QED BY <1>1, <2>1, <2>2
  <1> QED BY <1>2, <1>3 DEF AllIn, h, m, n

LEMMA AllInStream ==
  ASSUME NEW vs \in Seq(Values), NEW j \in 1..Len(vs)
  PROVE  AllIn(Enc(vs[j]), Stream(vs))
  <1> DEFINE m == j - 1
  <1>1. m \in 0..Len(vs) /\ m # Len(vs) /\ m + 1 = j /\ j \in 0..Len(vs)
    BY LenProperties
  <1> HIDE DEF m
  <1> DEFINE S == Stream(vs)  x == Before(vs, m)  z == Before(vs, m + 1)  e == Enc(vs[j])
  <1>2. S \in Seq(Byte) /\ Len(S) \in Nat /\ x \in 0..Len(S) /\ z \in 0..Len(S)
    BY <1>1, StreamTyped, UptoIsPart, LenProperties
  <1>3. x <= z /\ e = SubSeq(S, x + 1, z)
    BY <1>1, EventIsPart
  <1> HIDE DEF S, x, z, e
  <1>4. Len(e) = z - x /\ \A c \in 1..z - x : e[c] = S[x + c]
    <2>1. z \in x..Len(S)
      BY <1>2, <1>3
    <2> QED BY <1>2, <1>3, <2>1, PartIs
  <1>5. AllIn(e, S)
    <2> SUFFICES ASSUME NEW c \in 1..z - x PROVE \E k \in 1..Len(S) : S[k] = e[c]
      BY <1>4 DEF AllIn
    <2> DEFINE k == x + c
    <2>1. k \in 1..Len(S)
      BY <1>2, <1>3
    <2>2. S[k] = e[c]
      BY <1>4
    <2> HIDE DEF k
    <2> QED BY <2>1, <2>2
  <1> QED BY <1>5 DEF S, e

LEMMA AllInTrans ==
  ASSUME NEW d, NEW e, NEW h, AllIn(d, e), AllIn(e, h)
  PROVE  AllIn(d, h)
  <1> SUFFICES ASSUME NEW c \in 1..Len(d) PROVE \E k \in 1..Len(h) : h[k] = d[c]
    BY DEF AllIn
  <1>1. PICK k \in 1..Len(e) : e[k] = d[c]
    BY DEF AllIn
  <1>2. PICK l \in 1..Len(h) : h[l] = e[k]
    BY DEF AllIn
  <1> QED BY <1>1, <1>2

LEMMA BadAllIn ==
  ASSUME NEW lens, NEW d \in Seq(Byte), NEW e \in Seq(Byte), AllIn(d, e), Refusable(lens, d)
  PROVE  Refusable(lens, e)
  <1>1. DOMAIN d = 1..Len(d) /\ DOMAIN e = 1..Len(e)
    BY LenProperties
  <1>2. PICK c \in DOMAIN d : d[c][1] = "special" /\ d[c][2] \notin DOMAIN SpecialLen
    BY DEF Refusable, Unknown
  <1>3. PICK k \in DOMAIN e : e[k] = d[c]
    BY <1>1 DEF AllIn
  <1>4. Unknown(e)
    BY <1>2, <1>3 DEF Unknown
  <1> QED BY <1>4 DEF Refusable

LEMMA FramesMore ==
  ASSUME NEW f, NEW bs, NEW v, NEW lens, NEW d \in Seq(Byte), Enc(v) \in Seq(Byte),
         AllIn(Enc(v), d), Frames(f, Refusable(lens, Enc(v)), bs, v)
  PROVE  Frames(f, Refusable(lens, d), bs, v)
  <1> DEFINE e == Enc(v)
  <1>1. ASSUME Refusable(lens, e) PROVE Refusable(lens, d)
    <2> HIDE DEF e
    <2>1. e \in Seq(Byte) /\ AllIn(e, d)
      BY DEF e
    <2> QED BY <1>1, <2>1, BadAllIn
  <1> SUFFICES ASSUME NEW p, Cut(bs, p, Enc(v))
               PROVE  Answer(Refusable(lens, d), bs, p, Len(Enc(v)), f[<<p + 1, "value", 1>>])
    BY DEF Frames
  <1>2. Answer(Refusable(lens, e), bs, p, Len(e), f[<<p + 1, "value", 1>>])
    BY DEF Frames
  <1> QED BY <1>1, <1>2 DEF Answer

LEMMA SpecialKnown ==
  ASSUME NEW lens \in Specials, NEW s \in DOMAIN DecoderLen, s \notin DOMAIN lens, NEW more \in Nat
  PROVE  Refusable(lens, << <<"special", s, 0>> >> \o Raw(more))
  <1> DEFINE x == <<"special", s, 0>>  wd == Raw(more)  e == <<x>> \o wd
  <1>1. lens = SpecialLen
    BY DEF Specials
  <1>2. x \in Byte
    <2>1. s \in Details
      BY DEF Details
    <2> QED BY <2>1 DEF Byte
  <1>3. wd \in Seq(Byte)
    BY RawTyped
  <1>4. x[1] = "special" /\ x[2] \notin DOMAIN SpecialLen
    BY <1>1
  <1> HIDE DEF x, wd
  <1>5. e \in Seq(Byte) /\ Len(e) = 1 + Len(wd) /\ e[1] = x
    BY <1>2, <1>3, OneMore
  <1>6. DOMAIN e = 1..Len(e) /\ Len(wd) \in Nat
    BY <1>3, <1>5, LenProperties
  <1>7. 1 \in DOMAIN e
    BY <1>5, <1>6
  <1> HIDE DEF e
  <1>8. Unknown(e)
    BY <1>4, <1>5, <1>7 DEF Unknown
  <1> QED BY <1>1, <1>8 DEF Refusable, e, x, wd

(* Framing by layers: a value is framed when those inside of it are.       *)
LEMMA OverFrames ==
  ASSUME NEW lens \in Specials, NEW bs \in Seq(Byte), NEW f, Table(f, lens, bs),
         NEW A, A \subseteq Values, \A wd \in A : Frames(f, Refusable(lens, Enc(wd)), bs, wd),
         NEW v \in Over(A), v \in Values
  PROVE  Frames(f, Refusable(lens, Enc(v)), bs, v)
  <1> DEFINE bad == Refusable(lens, Enc(v))
  <1> SUFFICES ASSUME NEW p, Cut(bs, p, Enc(v)) PROVE Framed(f, bad, bs, p, Enc(v))
    BY DEF Frames, Framed
  <1>1. /\ Good(Enc(v)) /\ Enc(v) = EncodeStep(Encode, v)
        /\ Enc(v) \in Seq(Byte)
    BY EncGood DEF Good
  <1>0. \A wd \in A : Enc(wd) \in Seq(Byte) /\ (AllIn(Enc(wd), Enc(v)) => Frames(f, bad, bs, wd))
    <2> TAKE wd \in A
    <2>1. Enc(wd) \in Seq(Byte)
      BY EncGood DEF Good
    <2> QED BY <1>1, <2>1, FramesMore
  <1>10. bad = Refusable(lens, Enc(v))
    OBVIOUS
  <1> HIDE DEF bad
  <1>2. CASE p = Len(bs)
    BY <1>1, <1>2, AtEnd DEF Framed
  <1>3. CASE p # Len(bs)
    <2>1. CASE v \in [k : {"int"}, more : Widths]
      <3> DEFINE x == IF v.more = 0 THEN <<"int", "short", 3>> ELSE <<"int", "long", v.more>>
      <3>1. v.more \in Widths /\ Enc(v) = <<x>> \o Raw(v.more)
        BY <1>1, <2>1 DEF EncodeStep
      <3>2. x = (IF v.more = 0 THEN <<"int", "short", 3>> ELSE <<"int", "long", v.more>>)
        OBVIOUS
      <3> HIDE DEF x
      <3> QED BY <1>3, <3>1, <3>2, IntFramed
    <2>2. CASE v.k \in {"bytes", "str"} /\ v.n \in Nat /\ v.long \in Widths /\ Fits(v.n, v.long)
      <3> DEFINE s == [j \in 1..v.n |-> Break]
      <3>1. Enc(v) = Header(v.k, v.n, v.long) \o s
        BY <1>1, <2>2 DEF EncodeStep
      <3>2. s \in Seq(Byte) /\ Len(s) = v.n
        <4>1. Break \in Byte
          BY DEF Break, Byte, Details, DecoderLen, SpecialLen
        <4>2. s \in [1..v.n -> Byte]
          BY <4>1
        <4> HIDE DEF s
        <4> QED BY <2>2, <4>2, OfLength
      <3> HIDE DEF s
      <3> QED BY <1>3, <2>2, <3>1, <3>2, StringFramed, Zenon
    <2>3. CASE v.k = "special" /\ v.s \in DOMAIN DecoderLen \ {"break"} /\ v.more = DecoderLen[v.s]
      <3>1. Enc(v) = << <<"special", v.s, 0>> >> \o Raw(v.more)
        BY <1>1, <2>3 DEF EncodeStep
      <3>2. v.more \in Nat
        BY <2>3 DEF DecoderLen, SpecialLen
      <3>3. v.s \notin DOMAIN lens => bad
        BY <1>10, <2>3, <3>1, <3>2, SpecialKnown
      <3> QED BY <1>3, <2>3, <3>1, <3>3, SpecialFramed
    <2>4. CASE v \in [k : {"label"}, v : A]
      <3> DEFINE s == Enc(v.v)
      <3>1. v.v \in A /\ v.v \in Values
        BY <2>4
      <3>2. Enc(v) = << <<"label", "short", 1>> >> \o s
        BY <1>1, <2>4 DEF EncodeStep, Enc
      <3>3. s \in Seq(Byte)
        BY <1>0, <3>1
      <3>5. AllIn(s, Enc(v))
        <4> DEFINE x == << <<"label", "short", 1>> >>
        <4>1. <<"label", "short", 1>> \in Byte
          BY DEF Byte, Details
        <4>2. x \in Seq(Byte) /\ Enc(v) = x \o s
          BY <3>2, <4>1
        <4> HIDE DEF x, s
        <4> QED BY <3>3, <4>2, AllInConcat
      <3>4. \A q : Cut(bs, q, s) => Framed(f, bad, bs, q, s)
        <4>1. Frames(f, bad, bs, v.v)
          BY <1>0, <3>1, <3>5
        <4> QED BY <4>1 DEF Frames, Framed
      <3> HIDE DEF s
      <3> QED BY <1>3, <3>2, <3>3, <3>4, LabelFramed
    <2>5. CASE v.k \in {"array", "map"} /\ v.vs \in Seq(A) /\ v.open \in BOOLEAN
               /\ Fits(Len(v.vs), 4) /\ (v.k = "map" => Len(v.vs) % 2 = 0)
      <3> DEFINE vs == v.vs  tag == v.k  c == Count(v)
      <3>1. vs \in Seq(Values) /\ tag \in {"array", "map"} /\ Len(vs) \in Nat
            /\ \A j \in 1..Len(vs) : vs[j] \in A
        <4>1. vs \in Seq(Values)
          BY <2>5, SeqDef
        <4>2. \A j \in 1..Len(vs) : vs[j] \in A
          BY <2>5, ElementOfSeq
        <4> QED BY <2>5, <4>1, <4>2, LenProperties
      <3>7. ASSUME AllIn(Stream(vs), Enc(v))
            PROVE  \A j \in 1..Len(vs) : Frames(f, bad, bs, vs[j])
        <4> HIDE DEF vs
        <4> TAKE j \in 1..Len(vs)
        <4>1. AllIn(Enc(vs[j]), Enc(v))
          BY <3>1, <3>7, AllInStream, AllInTrans
        <4> QED BY <1>0, <3>1, <4>1
      <3>8. Stream(vs) \in Seq(Byte)
        BY <3>1, StreamTyped
      <3>2. c \in Nat /\ c <= Len(vs) /\ Len(vs) = PerCount(tag, c)
        <4>1. CASE tag = "map"
          <5> DEFINE n == Len(vs)  d == n \div 2
          <5>1. n \in Nat /\ n % 2 = 0
            BY <2>5, <3>1, <4>1
          <5> HIDE DEF n
          <5>2. d \in Nat /\ n = d + d /\ d <= n
            BY <5>1
          <5>3. c = d
            BY <4>1 DEF Count, n
          <5> HIDE DEF d, c
          <5>4. PerCount(tag, c) = c + c
            BY <4>1 DEF PerCount
          <5>5. c \in Nat /\ c <= n /\ n = PerCount(tag, c)
            BY <5>2, <5>3, <5>4
          <5> QED BY <5>5 DEF n
        <4>2. CASE tag # "map"
          BY <3>1, <4>2 DEF Count, PerCount
        <4> QED BY <4>1, <4>2
      <3>3. [j \in DOMAIN v.vs |-> Encode[v.vs[j]]] = [j \in DOMAIN vs |-> Enc(vs[j])]
        BY DEF Enc
      <3>4. FlattenSeq([j \in DOMAIN v.vs |-> Encode[v.vs[j]]]) = Stream(vs)
        BY <3>3 DEF Stream
      <3>5. CASE v.open
        <4>1. Enc(v) = << <<tag, "open", 0>> >> \o Stream(vs) \o <<Break>>
          BY <1>1, <2>5, <3>4, <3>5 DEF EncodeStep
        <4> DEFINE x == << <<tag, "open", 0>> >>  s == Stream(vs)  o == x \o s
        <4>2. AllIn(s, Enc(v))
          <5>1. <<tag, "open", 0>> \in Byte /\ Break \in Byte
            BY <3>1 DEF Byte, Details, Break, DecoderLen, SpecialLen
          <5>2. x \in Seq(Byte) /\ <<Break>> \in Seq(Byte) /\ s \in Seq(Byte)
                /\ Enc(v) = (x \o s) \o <<Break>>
            BY <3>8, <4>1, <5>1
          <5> DEFINE y == <<Break>>
          <5>3. y \in Seq(Byte) /\ Enc(v) = o \o y
            BY <5>2
          <5> HIDE DEF x, s, y
          <5>4. o \in Seq(Byte) /\ AllIn(s, o)
            BY <5>2, AllInConcat, ConcatProperties
          <5> HIDE DEF o
          <5>5. AllIn(o, Enc(v))
            BY <5>3, <5>4, AllInConcat
          <5> QED BY <5>4, <5>5, AllInTrans
        <4>3. \A j \in 1..Len(vs) : Frames(f, bad, bs, vs[j])
          BY <3>7, <4>2
        <4> HIDE DEF vs, tag, c
        <4> QED BY <1>3, <3>1, <3>2, <4>1, <4>3, OpenFramed
      <3>6. CASE ~v.open
        <4>1. Enc(v) = Header(tag, c, Width(c)) \o Stream(vs)
          BY <1>1, <2>5, <3>4, <3>6 DEF EncodeStep
        <4>2. Width(c) \in Widths /\ Fits(c, Width(c))
          <5>1. Fits(Len(vs), 4)
            BY <2>5
          <5> HIDE DEF vs, c
          <5> QED BY <3>2, <5>1, FitsLess
        <4> DEFINE long == Width(c)
        <4> HIDE DEF vs, tag, c, long
        <4>3. Enc(v) = Header(tag, c, long) \o Stream(vs) /\ long \in Widths /\ Fits(c, long)
          BY <4>1, <4>2 DEF long
        <4>4. AllIn(Stream(vs), Enc(v))
          <5> DEFINE g == Header(tag, c, long)  s == Stream(vs)
          <5>1. g \in Seq(Byte) /\ s \in Seq(Byte) /\ Enc(v) = g \o s
            <6>1. tag \in Tags
              BY <3>1 DEF Tags
            <6> QED BY <3>2, <3>8, <4>3, <6>1, HeaderTyped
          <5> HIDE DEF g, s
          <5>2. AllIn(s, Enc(v))
            BY <5>1, AllInConcat
          <5> QED BY <5>2 DEF s
        <4>5. \A j \in 1..Len(vs) : Frames(f, bad, bs, vs[j])
          BY <3>7, <4>4
        <4> QED BY <1>3, <3>1, <3>2, <4>3, <4>5, GivenFramed
      <3> QED BY <3>5, <3>6
    <2> QED BY <2>1, <2>2, <2>3, <2>4, <2>5 DEF Over, Scalars
  <1> QED BY <1>2, <1>3

LEMMA ValuesFrame ==
  ASSUME NEW lens \in Specials, NEW bs \in Seq(Byte), NEW f, Table(f, lens, bs), NEW v \in Values
  PROVE  Frames(f, Refusable(lens, Enc(v)), bs, v)
  <1> DEFINE P == {u \in Values : Frames(f, Refusable(lens, Enc(u)), bs, u)}
  <1>1. \A d \in 0..MaxDepth : Layer[d] \subseteq Values
    BY LayersNest
  <1>2. \A d \in 0..MaxDepth : Layer[d] \subseteq P
    <2> DEFINE T == {d \in 0..MaxDepth : ~(Layer[d] \subseteq P)}
    <2>1. ASSUME T # {} PROVE FALSE
      <3>1. PICK x \in T : \A y \in T : x <= y
        <4>1. T \subseteq Nat
          BY DepthAssumption
        <4> HIDE DEF T
        <4> QED BY <2>1, <4>1, SmallestExists
      <3>2. x \in 0..MaxDepth /\ ~(Layer[x] \subseteq P)
        BY <3>1
      <3>3. x # 0
        <4>1. Scalars \subseteq Over({})
          BY OverGrows
        <4>2. \A u \in Over({}) : u \in Values => Frames(f, Refusable(lens, Enc(u)), bs, u)
          BY OverFrames
        <4> QED BY <1>1, <3>2, <4>1, <4>2, LayerIs
      <3>4. x - 1 \in 0..MaxDepth /\ ~(x <= x - 1)
        BY <3>2, <3>3, DepthAssumption
      <3>5. Layer[x - 1] \subseteq Values /\ \A u \in Layer[x - 1] : Frames(f, Refusable(lens, Enc(u)), bs, u)
        BY <1>1, <3>1, <3>4
      <3> DEFINE A == Layer[x - 1]
      <3> HIDE DEF A
      <3>6. \A u \in Over(A) : u \in Values => Frames(f, Refusable(lens, Enc(u)), bs, u)
        BY <3>5, OverFrames DEF A
      <3>7. Layer[x] = Over(A)
        BY <3>2, <3>3, LayerIs DEF A
      <3> QED BY <1>1, <3>2, <3>6, <3>7
    <2> QED BY <2>1
  <1>3. MaxDepth \in 0..MaxDepth
    BY DepthAssumption
  <1> QED BY <1>2, <1>3 DEF Values

LEMMA SkipAnswers ==
  ASSUME NEW lens \in Specials, NEW bs \in Seq(Byte), NEW p, NEW v \in Values, Cut(bs, p, Enc(v))
  PROVE  Answer(Refusable(lens, Enc(v)), bs, p, Len(Enc(v)), SkipBy(lens, bs, p + 1))
  <1>1. PICK f : Table(f, lens, bs) /\ \A st : SkipBy(lens, bs, st) = f[<<st, "value", 1>>]
    BY SkipIs
  <1>2. Frames(f, Refusable(lens, Enc(v)), bs, v)
    BY <1>1, ValuesFrame
  <1> QED BY <1>1, <1>2 DEF Frames

LEMMA SkipNothing ==
  ASSUME NEW lens \in Specials, NEW bs \in Seq(Byte)
  PROVE  SkipBy(lens, bs, Len(bs) + 1) = UnexpectedEOF
  <1>1. PICK f : Table(f, lens, bs) /\ \A st : SkipBy(lens, bs, st) = f[<<st, "value", 1>>]
    BY SkipIs
  <1> DEFINE st == Len(bs) + 1
  <1>2. st \in Nat \ {0} /\ st > Len(bs)
    BY LenProperties
  <1> HIDE DEF st
  <1>3. ReadTag(bs, st).next = UnexpectedEOF
    BY <1>2 DEF ReadTag
  <1>4. f[<<st, "value", 1>>] = SkipValue(lens, bs, f, st)
    BY <1>1, <1>2, ValueIs
  <1>5. SkipValue(lens, bs, f, st) = UnexpectedEOF
    BY <1>3 DEF SkipValue, UnexpectedEOF
  <1>6. SkipBy(lens, bs, st) = UnexpectedEOF
    BY <1>1, <1>4, <1>5
  <1> QED BY <1>6 DEF st

(* The decoder knows all specials: wherever a value begins, its skip ends  *)
(* right behind the value when all of it is there, and nowhere when not.   *)
THEOREM DecoderFrames ==
  ASSUME NEW bs \in Seq(Byte), NEW p, NEW v \in Values, Cut(bs, p, Enc(v))
  PROVE  DecoderSkip(bs, p + 1) =
           IF p + Len(Enc(v)) <= Len(bs) THEN p + Len(Enc(v)) + 1 ELSE UnexpectedEOF
  <1>1. DecoderLen # SpecialLen
    <2>1. "none" \in DOMAIN DecoderLen /\ "none" \notin DOMAIN SpecialLen
      BY DEF DecoderLen, SpecialLen
    <2> QED BY <2>1
  <1>2. Answer(Refusable(DecoderLen, Enc(v)), bs, p, Len(Enc(v)), DecoderSkip(bs, p + 1))
    BY SkipAnswers DEF Specials, DecoderSkip
  <1>3. ~Refusable(DecoderLen, Enc(v))
    BY <1>1 DEF Refusable
  <1> QED BY <1>2, <1>3 DEF Answer

(* Wherever the buffer of the Reader begins and is cut, skip answers from  *)
(* the start of event j + 1 with its end when it is there and asks for     *)
(* more when it is not; it refuses only an event with a special it does    *)
(* not know.                                                               *)
THEOREM SkipFrames ==
  ASSUME NEW vs \in Seq(Values), NEW j \in 0..Len(vs), NEW k \in 0..j,
         NEW n \in Before(vs, j)..Len(Stream(vs))
  PROVE  LET end == Skip(SubSeq(Stream(vs), Before(vs, k) + 1, n),
                         Before(vs, j) - Before(vs, k) + 1)
         IN \/ end = BadSpecial /\ j < Len(vs) /\ Unknown(Enc(vs[j + 1]))
            \/ IF j < Len(vs) /\ Before(vs, j + 1) <= n
               THEN end = Before(vs, j + 1) - Before(vs, k) + 1 ELSE end = UnexpectedEOF
  <1> DEFINE S == Stream(vs)  x == Before(vs, k)  y == Before(vs, j)  bs == SubSeq(S, x + 1, n)
             p == y - x  end == Skip(bs, p + 1)
  <1>1. S \in Seq(Byte) /\ Len(S) \in Nat /\ Len(vs) \in Nat
    BY StreamTyped, LenProperties
  <1>2. k \in 0..Len(vs) /\ j \in k..Len(vs) /\ x \in Nat /\ y \in Nat /\ x <= y
    <2>1. k \in 0..Len(vs) /\ j \in k..Len(vs)
      BY <1>1
    <2> QED BY <2>1, FirstEvents, BeforeGrows
  <1>3. n \in Nat /\ y <= n /\ n <= Len(S)
    BY <1>1, <1>2
  <1> HIDE DEF S, x, y
  <1>4. bs \in Seq(Byte) /\ Len(bs) = n - x /\ \A c \in 1..n - x : bs[c] = S[x + c]
    <2>1. x \in 0..Len(S) /\ n \in x..Len(S)
      BY <1>1, <1>2, <1>3
    <2> QED BY <1>1, <2>1, PartIs
  <1> HIDE DEF bs
  <1>5. p \in Nat /\ p <= Len(bs)
    BY <1>2, <1>3, <1>4
  <1>6. CASE j = Len(vs)
    <2>1. y = Len(S)
      BY <1>6, StreamWhole DEF y, S
    <2>2. p + 1 = Len(bs) + 1
      BY <1>1, <1>2, <1>3, <1>4, <2>1
    <2> HIDE DEF p
    <2>3. end = UnexpectedEOF
      BY <1>4, <2>2, SkipNothing DEF Skip, Specials
    <2>4. ~(j < Len(vs))
      BY <1>1, <1>6
    <2> HIDE DEF end
    <2>5. IF j < Len(vs) /\ Before(vs, j + 1) <= n
          THEN end = Before(vs, j + 1) - x + 1 ELSE end = UnexpectedEOF
      BY <2>3, <2>4
    <2> QED BY <2>5 DEF end, p, bs, S, x, y
  <1>7. CASE j # Len(vs)
    <2> DEFINE v == vs[j + 1]  e == Enc(v)  z == Before(vs, j + 1)
    <2>1. v \in Values /\ j + 1 \in 0..Len(vs)
      <3>1. j + 1 \in 1..Len(vs) /\ j + 1 \in 0..Len(vs)
        BY <1>1, <1>7
      <3> QED BY <3>1, ElementOfSeq
    <2>2. e = SubSeq(S, y + 1, z) /\ y <= z
      BY <1>7, EventIsPart DEF S, y
    <2>3. y \in 0..Len(S) /\ z \in 0..Len(S)
      BY <2>1, UptoIsPart DEF S, y
    <2> HIDE DEF v, e, z
    <2>4. Len(e) = z - y /\ \A c \in 1..z - y : e[c] = S[y + c]
      <3>1. z \in y..Len(S)
        BY <1>1, <2>2, <2>3
      <3> QED BY <1>1, <2>2, <2>3, <3>1, PartIs
    <2>5. Cut(bs, p, e)
      <3> SUFFICES ASSUME NEW c \in 1..z - y, p + c <= Len(bs) PROVE bs[p + c] = e[c]
        BY <1>5, <2>4 DEF Cut
      <3> DEFINE d == p + c
      <3>1. d \in 1..n - x /\ x + d = y + c
        BY <1>2, <1>3, <1>4, <2>3
      <3> HIDE DEF d
      <3>2. bs[d] = S[x + d]
        BY <1>4, <3>1
      <3> QED BY <2>4, <3>1, <3>2 DEF d
    <2>6. Answer(Refusable(SpecialLen, e), bs, p, Len(e), end)
      <3>1. Cut(bs, p, Enc(v))
        BY <2>5 DEF e
      <3> HIDE DEF p
      <3>2. Answer(Refusable(SpecialLen, Enc(v)), bs, p, Len(Enc(v)), SkipBy(SpecialLen, bs, p + 1))
        BY <1>4, <2>1, <3>1, SkipAnswers DEF Specials
      <3> QED BY <3>2 DEF e, Skip
    <2> HIDE DEF end
    <2>7. \/ end = IF p + Len(e) <= Len(bs) THEN p + Len(e) + 1 ELSE UnexpectedEOF
          \/ end = BadSpecial /\ Unknown(e)
      BY <2>6 DEF Answer, Refusable
    <2>8. p + Len(e) = z - x /\ (z - x <= Len(bs) <=> z <= n) /\ j < Len(vs)
      BY <1>1, <1>2, <1>3, <1>4, <1>7, <2>3, <2>4
    <2>9. \/ end = BadSpecial /\ j < Len(vs) /\ Unknown(e)
          \/ IF j < Len(vs) /\ z <= n THEN end = z - x + 1 ELSE end = UnexpectedEOF
      <3> HIDE DEF p
      <3> QED BY <2>7, <2>8
    <2> QED BY <2>9 DEF end, p, bs, S, x, y, z, e, v
  <1> QED BY <1>6, <1>7

-----------------------------------------------------------------------------
(* Types.                                                                  *)

TypeOK ==
  /\ sent \in Streams
  /\ src \in Seq(Byte) /\ buf \in Seq(Byte) /\ i \in Nat \ {0}
  /\ pc \in {"call", "skip"}
  /\ err \in {"none", "short", "bad format", "eof", "error"}
  /\ got \in Seq([data : Seq(Byte), n : Nat])
  /\ faults \in Nat

(* The reader after g events: its buffer is the stream from the start of   *)
(* event k + 1 to byte a, and the source has the rest.                     *)
Reading(held, at, rest, a, k, g) ==
  /\ g \in 0..Len(sent) /\ k \in 0..g /\ a \in Before(sent, g)..Len(Stream(sent))
  /\ held = SubSeq(Stream(sent), Before(sent, k) + 1, a)
  /\ at = Before(sent, g) - Before(sent, k) + 1
  /\ rest = SubSeq(Stream(sent), a + 1, Len(Stream(sent)))

ReadInv ==
  /\ \A j \in 1..Len(got) : got[j].data = Enc(sent[j])
  /\ \E a, k \in Nat : Reading(buf, i, src, a, k, Len(got))
  /\ pc = "skip" => err = "none"
  /\ err = "eof" /\ src = << >> => Len(got) = Len(sent)
  /\ err = "bad format" => Len(got) < Len(sent) /\ Unknown(Enc(sent[Len(got) + 1]))

LEMMA SentIs ==
  ASSUME TypeOK
  PROVE  /\ sent \in Seq(Values) /\ Len(sent) \in Nat
         /\ Stream(sent) \in Seq(Byte) /\ Len(Stream(sent)) \in Nat
  <1>1. sent \in Seq(Values)
    <2>1. PICK n \in 1..MaxSent : sent \in [1..n -> Values]
      BY EventsAssumption DEF TypeOK, Streams
    <2>2. n \in Nat
      BY <2>1
    <2> QED BY <2>1, <2>2, OfLength
  <1> QED BY <1>1, LenProperties, StreamTyped

LEMMA ReadingIs ==
  ASSUME TypeOK, NEW held, NEW at, NEW rest, NEW a, NEW k, NEW g, Reading(held, at, rest, a, k, g)
  PROVE  /\ g \in Nat /\ k \in Nat /\ a \in Nat /\ k \in 0..Len(sent) /\ g \in 0..Len(sent)
         /\ Before(sent, k) \in Nat /\ Before(sent, g) \in Nat
         /\ Before(sent, k) <= Before(sent, g) /\ Before(sent, g) <= a
         /\ a <= Len(Stream(sent))
         /\ held \in Seq(Byte) /\ Len(held) = a - Before(sent, k)
         /\ rest \in Seq(Byte) /\ Len(rest) = Len(Stream(sent)) - a
         /\ at \in Nat \ {0}
  <1>1. g \in 0..Len(sent) /\ k \in 0..g /\ a \in Before(sent, g)..Len(Stream(sent))
    BY DEF Reading
  <1>2. sent \in Seq(Values) /\ Len(sent) \in Nat
        /\ Stream(sent) \in Seq(Byte) /\ Len(Stream(sent)) \in Nat
    BY SentIs
  <1>3. g \in Nat /\ k \in Nat /\ k \in 0..Len(sent) /\ g \in k..Len(sent)
    BY <1>1, <1>2
  <1> DEFINE x == Before(sent, k)  y == Before(sent, g)  S == Stream(sent)
  <1>4. x \in Nat /\ y \in Nat /\ x <= y
    BY <1>1, <1>2, <1>3, FirstEvents, BeforeGrows
  <1>5. held = SubSeq(S, x + 1, a) /\ at = y - x + 1 /\ rest = SubSeq(S, a + 1, Len(S))
    BY DEF Reading
  <1> HIDE DEF x, y, S
  <1>6. a \in y..Len(S) /\ S \in Seq(Byte) /\ Len(S) \in Nat
    BY <1>1, <1>2 DEF y, S
  <1>7. x \in 0..Len(S) /\ a \in x..Len(S) /\ a \in 0..Len(S) /\ Len(S) \in a..Len(S)
    BY <1>4, <1>6
  <1>8. held \in Seq(Byte) /\ Len(held) = a - x
    BY <1>5, <1>6, <1>7, PartIs
  <1>9. rest \in Seq(Byte) /\ Len(rest) = Len(S) - a
    BY <1>5, <1>6, <1>7, PartIs
  <1>10. at \in Nat \ {0} /\ y <= a /\ a <= Len(S) /\ a \in Nat
    BY <1>4, <1>5, <1>6
  <1> QED BY <1>1, <1>3, <1>4, <1>8, <1>9, <1>10 DEF x, y, S

-----------------------------------------------------------------------------
(* skip finds the next event when it is in the buffer, and its bytes.      *)
LEMMA SkipFinds ==
  ASSUME TypeOK, NEW a, NEW k, NEW g, Reading(buf, i, src, a, k, g)
  PROVE  \/ Skip(buf, i) = BadSpecial /\ g < Len(sent) /\ Unknown(Enc(sent[g + 1]))
         \/ IF g < Len(sent) /\ Before(sent, g + 1) <= a
            THEN Skip(buf, i) = Before(sent, g + 1) - Before(sent, k) + 1
            ELSE Skip(buf, i) = UnexpectedEOF
  <1>1. sent \in Seq(Values)
    BY SentIs
  <1>2. g \in 0..Len(sent) /\ k \in 0..g /\ a \in Before(sent, g)..Len(Stream(sent))
        /\ buf = SubSeq(Stream(sent), Before(sent, k) + 1, a)
        /\ i = Before(sent, g) - Before(sent, k) + 1
    BY DEF Reading
  <1> QED BY <1>1, <1>2, SkipFrames

LEMMA FindsNext ==
  ASSUME TypeOK, NEW a, NEW k, NEW g, Reading(buf, i, src, a, k, g), Skip(buf, i) > 0
  PROVE  /\ g + 1 \in 0..Len(sent)
         /\ SubSeq(buf, i, Skip(buf, i) - 1) = Enc(sent[g + 1])
         /\ Reading(buf, Skip(buf, i), src, a, k, g + 1)
  <1> DEFINE end == Skip(buf, i)  S == Stream(sent)
             x == Before(sent, k)  y == Before(sent, g)  z == Before(sent, g + 1)
  <1>1. sent \in Seq(Values) /\ Len(sent) \in Nat /\ S \in Seq(Byte) /\ Len(S) \in Nat
    BY SentIs
  <1>2. /\ g \in 0..Len(sent) /\ k \in Nat /\ a \in Nat
        /\ x \in Nat /\ y \in Nat /\ x <= y /\ y <= a /\ a <= Len(S) /\ k \in 0..g
    <2>1. k \in 0..g
      BY DEF Reading
    <2> HIDE DEF S, x, y
    <2>2. /\ g \in 0..Len(sent) /\ k \in Nat /\ a \in Nat
          /\ Before(sent, k) \in Nat /\ Before(sent, g) \in Nat
          /\ Before(sent, k) <= Before(sent, g) /\ Before(sent, g) <= a /\ a <= Len(Stream(sent))
      BY ReadingIs
    <2> QED BY <2>1, <2>2 DEF S, x, y
  <1>3. g < Len(sent) /\ z <= a /\ end = z - x + 1
    <2>1. end # BadSpecial /\ end # UnexpectedEOF
      BY DEF BadSpecial, UnexpectedEOF
    <2>2. \/ end = BadSpecial
          \/ IF g < Len(sent) /\ z <= a THEN end = z - x + 1 ELSE end = UnexpectedEOF
      BY SkipFinds
    <2> HIDE DEF end, x, z
    <2> QED BY <2>1, <2>2
  <1>4. g # Len(sent) /\ g + 1 \in 0..Len(sent) /\ k \in 0..g + 1
    BY <1>1, <1>2, <1>3
  <1>5. z \in Nat /\ y <= z /\ Enc(sent[g + 1]) = SubSeq(S, y + 1, z)
    BY <1>1, <1>2, <1>4, EventIsPart, FirstEvents
  <1>6. buf = SubSeq(S, x + 1, a) /\ i = y - x + 1
    BY DEF Reading
  <1>7. Reading(buf, end, src, a, k, g + 1)
    <2>1. a \in z..Len(S)
      BY <1>1, <1>2, <1>3, <1>5
    <2> QED BY <1>3, <1>4, <2>1 DEF Reading
  <1>8. SubSeq(buf, i, end - 1) = SubSeq(S, y + 1, z)
    <2> HIDE DEF end, S, x, y, z
    <2> DEFINE m == y - x  n == z - x
    <2>1. /\ x \in 0..Len(S) /\ a \in x..Len(S) /\ m \in 0..a - x /\ n \in m..a - x
          /\ i = m + 1 /\ end - 1 = n /\ x + m + 1 = y + 1 /\ x + n = z
      BY <1>1, <1>2, <1>3, <1>5, <1>6
    <2> HIDE DEF m, n
    <2>2. SubSeq(SubSeq(S, x + 1, a), m + 1, n) = SubSeq(S, x + m + 1, x + n)
      BY <1>1, <2>1, PartOfPart
    <2> QED BY <1>6, <2>1, <2>2
  <1> QED BY <1>4, <1>5, <1>7, <1>8

(* more: the buffer goes on where it ended.                                *)
LEMMA GoesOn ==
  ASSUME TypeOK, NEW a, NEW k, NEW g, Reading(buf, i, src, a, k, g), NEW n \in 0..Len(src)
  PROVE  Reading(SubSeq(buf, i, Len(buf)) \o SubSeq(src, 1, n), 1,
                 SubSeq(src, n + 1, Len(src)), a + n, g, g)
  <1> DEFINE S == Stream(sent)  x == Before(sent, k)  y == Before(sent, g)
  <1>1. S \in Seq(Byte) /\ Len(S) \in Nat
    BY SentIs
  <1>2. /\ g \in 0..Len(sent) /\ g \in Nat /\ a \in Nat
        /\ x \in Nat /\ y \in Nat /\ x <= y /\ y <= a /\ a <= Len(S)
        /\ Len(buf) = a - x /\ Len(src) = Len(S) - a
    BY ReadingIs
  <1>3. buf = SubSeq(S, x + 1, a) /\ i = y - x + 1 /\ src = SubSeq(S, a + 1, Len(S))
    BY DEF Reading
  <1> HIDE DEF S, x, y
  <1>4. SubSeq(buf, i, Len(buf)) = SubSeq(S, y + 1, a)
    <2> DEFINE m == y - x  l == a - x
    <2>1. /\ x \in 0..Len(S) /\ a \in x..Len(S) /\ m \in 0..a - x /\ l \in m..a - x
          /\ i = m + 1 /\ Len(buf) = l /\ x + m + 1 = y + 1 /\ x + l = a
      BY <1>1, <1>2, <1>3
    <2> HIDE DEF m, l
    <2>2. SubSeq(SubSeq(S, x + 1, a), m + 1, l) = SubSeq(S, x + m + 1, x + l)
      BY <1>1, <2>1, PartOfPart
    <2> QED BY <1>3, <2>1, <2>2
  <1>5. n \in Nat /\ n <= Len(S) - a
    BY <1>1, <1>2
  <1> DEFINE l == Len(S)
  <1>6. /\ a \in 0..Len(S) /\ l \in a..Len(S) /\ 0 \in 0..l - a /\ n \in 0..l - a
        /\ n \in n..l - a /\ l - a \in n..l - a /\ a + 0 = a /\ a + (l - a) = l
        /\ a + n \in a..Len(S) /\ y \in 0..Len(S) /\ a \in y..Len(S)
    BY <1>1, <1>2, <1>5
  <1>7. SubSeq(src, 1, n) = SubSeq(S, a + 1, a + n)
    <2> HIDE DEF l
    <2> DEFINE o == 0
    <2>1. o \in 0..l - a /\ n \in o..l - a
      BY <1>6
    <2> HIDE DEF o
    <2>2. SubSeq(SubSeq(S, a + 1, l), o + 1, n) = SubSeq(S, a + o + 1, a + n)
      BY <1>1, <1>6, <2>1, PartOfPart
    <2>3. o + 1 = 1 /\ a + o + 1 = a + 1
      BY <1>2 DEF o
    <2> QED BY <1>3, <2>2, <2>3 DEF l
  <1>8. SubSeq(src, n + 1, Len(src)) = SubSeq(S, a + n + 1, l)
    <2> HIDE DEF l
    <2> DEFINE t == l - a
    <2>1. t \in n..l - a /\ n \in 0..l - a /\ a + t = l /\ Len(src) = t
      BY <1>2, <1>6 DEF l
    <2> HIDE DEF t
    <2>2. SubSeq(SubSeq(S, a + 1, l), n + 1, t) = SubSeq(S, a + n + 1, a + t)
      BY <1>1, <1>6, <2>1, PartOfPart
    <2> QED BY <1>3, <2>1, <2>2 DEF l
  <1>9. SubSeq(S, y + 1, a) \o SubSeq(S, a + 1, a + n) = SubSeq(S, y + 1, a + n)
    <2> DEFINE e == a + n
    <2>1. e \in a..Len(S)
      BY <1>6
    <2> HIDE DEF e
    <2>2. SubSeq(S, y + 1, a) \o SubSeq(S, a + 1, e) = SubSeq(S, y + 1, e)
      BY <1>1, <1>6, <2>1, PartsJoin
    <2> QED BY <2>2 DEF e
  <1>10. y - y + 1 = 1 /\ a + n \in y..Len(S) /\ g \in 0..g
    BY <1>1, <1>2, <1>5
  <1> QED BY <1>2, <1>4, <1>7, <1>8, <1>9, <1>10 DEF Reading, S, y

-----------------------------------------------------------------------------
(* The invariant.                                                          *)

LEMMA ReadInit == Init => TypeOK /\ ReadInv
  <1> SUFFICES ASSUME Init PROVE TypeOK /\ ReadInv
    OBVIOUS
  <1>1. PICK n \in 1..MaxSent : sent \in [1..n -> Values]
    BY EventsAssumption DEF Init, Streams
  <1>2. n \in Nat \ {0} /\ n # 0
    BY <1>1
  <1>3. sent \in Seq(Values) /\ Len(sent) = n
    BY <1>1, <1>2, OfLength
  <1> DEFINE S == Stream(sent)
  <1>4. S \in Seq(Byte) /\ Len(S) \in Nat /\ Before(sent, 0) = 0
    BY <1>3, StreamTyped, StreamWhole
  <1>5. << >> \in Seq(Byte) /\ got = << >> /\ Len(got) = 0
        /\ got \in Seq([data : Seq(Byte), n : Nat])
    BY EmptySeq DEF Init
  <1>6. TypeOK
    BY <1>4, <1>5 DEF Init, TypeOK
  <1>7. SubSeq(S, 0 + 1, 0) = << >> /\ SubSeq(S, 0 + 1, Len(S)) = S
    <2>1. SubSeq(S, 1, 0) = << >> /\ SubSeq(S, 1, Len(S)) = S
      BY <1>4, SubSeqEmpty, SubSeqFull
    <2> QED BY <2>1
  <1>8. /\ 0 \in 0..Len(sent) /\ 0 \in 0..0 /\ 0 \in Before(sent, 0)..Len(S) /\ 0 \in Nat
        /\ i = Before(sent, 0) - Before(sent, 0) + 1 /\ buf = << >> /\ src = S
    BY <1>2, <1>3, <1>4 DEF Init
  <1>9. Reading(buf, i, src, 0, 0, Len(got))
    BY <1>4, <1>5, <1>7, <1>8 DEF Reading
  <1>10. ReadInv
    BY <1>5, <1>8, <1>9 DEF ReadInv, Init
  <1> QED BY <1>6, <1>10

LEMMA ReadNext == TypeOK /\ ReadInv /\ [Next]_vars => TypeOK' /\ ReadInv'
  <1> SUFFICES ASSUME TypeOK, ReadInv, [Next]_vars PROVE TypeOK' /\ ReadInv'
    OBVIOUS
  <1> DEFINE g == Len(got)
  <1>1. PICK a \in Nat, k \in Nat : Reading(buf, i, src, a, k, g)
    BY DEF ReadInv
  <1>2. sent \in Seq(Values) /\ Len(sent) \in Nat
        /\ Stream(sent) \in Seq(Byte) /\ Len(Stream(sent)) \in Nat
    BY SentIs
  <1>3. g \in Nat /\ g \in 0..Len(sent)
    BY <1>1, ReadingIs
  <1> HIDE DEF g
  <1>4. CASE Call
    <2>1. TypeOK'
      BY <1>4 DEF Call, TypeOK
    <2>2. ReadInv'
      BY <1>4 DEF Call, ReadInv, Reading
    <2> QED BY <2>1, <2>2
  <1>5. CASE Bad
    <2>1. /\ UNCHANGED <<sent, src, buf, i, got, faults>>
          /\ pc' = "call" /\ err' = "bad format"
      BY <1>5 DEF Bad
    <2>2. TypeOK'
      BY <2>1 DEF TypeOK
    <2>3. g < Len(sent) /\ Unknown(Enc(sent[g + 1]))
      <3> DEFINE end == Skip(buf, i)
      <3>1. end < UnexpectedEOF
        BY <1>5 DEF Bad
      <3>2. \/ end = BadSpecial /\ g < Len(sent) /\ Unknown(Enc(sent[g + 1]))
            \/ end = UnexpectedEOF
            \/ end = Before(sent, g + 1) - Before(sent, k) + 1 /\ g < Len(sent)
        BY <1>1, SkipFinds
      <3>3. ASSUME g < Len(sent) PROVE ~(Before(sent, g + 1) - Before(sent, k) + 1 < UnexpectedEOF)
        <4>1. g \in 0..Len(sent) /\ g # Len(sent)
          BY <1>2, <1>3, <3>3
        <4>2. g + 1 \in 0..Len(sent) /\ Before(sent, g) <= Before(sent, g + 1)
          BY <1>2, <4>1, EventIsPart
        <4>3. Before(sent, g + 1) \in Nat
          BY <1>2, <4>2, FirstEvents
        <4>4. Before(sent, k) \in Nat /\ Before(sent, g) \in Nat /\ Before(sent, k) <= Before(sent, g)
          BY <1>1, ReadingIs
        <4> QED BY <4>2, <4>3, <4>4 DEF UnexpectedEOF
      <3> HIDE DEF end
      <3> QED BY <3>1, <3>2, <3>3 DEF UnexpectedEOF
    <2>4. ReadInv'
      BY <2>1, <2>3 DEF ReadInv, Reading, g
    <2> QED BY <2>2, <2>4
  <1>11. CASE UNCHANGED vars
    <2>1. TypeOK'
      BY <1>11 DEF TypeOK, vars
    <2>2. ReadInv'
      BY <1>11 DEF ReadInv, Reading, vars
    <2> QED BY <2>1, <2>2
  <1>6. CASE Found
    <2> DEFINE end == Skip(buf, i)
    <2>1. /\ end > 0 /\ pc = "skip" /\ pc' = "call" /\ UNCHANGED <<sent, src, buf, faults>>
          /\ \/ err' = "short" /\ UNCHANGED <<i, got>>
             \/ /\ err' = err /\ i' = end
                /\ \E n : got' = Append(got, [data |-> SubSeq(buf, i, end - 1), n |-> n])
                          /\ n \in {end - i} \cup PSizes
      BY <1>6 DEF Found
    <2>2. CASE err' = "short" /\ UNCHANGED <<i, got>>
      <3>1. TypeOK'
        BY <2>1, <2>2 DEF TypeOK
      <3>2. ReadInv'
        BY <2>1, <2>2 DEF ReadInv, Reading
      <3> QED BY <3>1, <3>2
    <2>3. CASE /\ err' = err /\ i' = end
               /\ \E n : got' = Append(got, [data |-> SubSeq(buf, i, end - 1), n |-> n])
                         /\ n \in {end - i} \cup PSizes
      <3>1. PICK n : got' = Append(got, [data |-> SubSeq(buf, i, end - 1), n |-> n])
                     /\ n \in {end - i} \cup PSizes
        BY <2>3
      <3>2. /\ g + 1 \in 0..Len(sent) /\ SubSeq(buf, i, end - 1) = Enc(sent[g + 1])
            /\ Reading(buf, end, src, a, k, g + 1)
        BY <1>1, <2>1, FindsNext
      <3>3. end \in Nat \ {0}
        BY <3>2, ReadingIs
      <3>4. Before(sent, g + 1) \in Nat /\ Before(sent, g) \in Nat /\ Before(sent, k) \in Nat
            /\ Before(sent, g) <= Before(sent, g + 1)
        BY <1>1, <1>2, <1>3, <3>2, ReadingIs, EventIsPart
      <3>5. i = Before(sent, g) - Before(sent, k) + 1
            /\ end = Before(sent, g + 1) - Before(sent, k) + 1
        BY <1>1, <3>2 DEF Reading
      <3>6. n \in Nat
        <4> HIDE DEF end
        <4>1. end - i \in Nat
          BY <3>4, <3>5
        <4> QED BY <3>1, <4>1, BoundsAssumption
      <3>7. Enc(sent[g + 1]) \in Seq(Byte)
        <4>1. g \in 0..Len(sent) /\ g # Len(sent)
          BY <1>2, <1>3, <3>2
        <4> QED BY <1>2, <4>1, StreamStep
      <3> DEFINE d == [data |-> SubSeq(buf, i, end - 1), n |-> n]  R == [data : Seq(Byte), n : Nat]
      <3>8. d \in R /\ d.data = Enc(sent[g + 1])
        BY <3>2, <3>6, <3>7
      <3>9. got \in Seq(R) /\ got' = Append(got, d)
        BY <3>1 DEF TypeOK
      <3> HIDE DEF d, R, end
      <3>10. /\ got' \in Seq(R) /\ Len(got') = g + 1 /\ got'[g + 1] = d
             /\ \A j \in 1..g : got'[j] = got[j]
        BY <3>8, <3>9, AppendProperties DEF g
      <3>11. TypeOK'
        BY <2>1, <2>3, <3>3, <3>10 DEF TypeOK, R
      <3>12. \A j \in 1..g + 1 : got'[j].data = Enc(sent[j])
        <4> TAKE j \in 1..g + 1
        <4>1. CASE j = g + 1
          BY <3>8, <3>10, <4>1
        <4>2. CASE j # g + 1
          <5>1. j \in 1..g
            BY <1>3, <4>2
          <5> QED BY <3>10, <5>1 DEF ReadInv, g
        <4> QED BY <4>1, <4>2
      <3>13. Reading(buf', i', src', a, k, Len(got')) /\ sent' = sent
        BY <2>1, <2>3, <3>2, <3>10
      <3>14. err' = "none" /\ pc' = "call"
        BY <2>1, <2>3 DEF ReadInv
      <3>15. ReadInv'
        BY <1>1, <3>10, <3>12, <3>13, <3>14 DEF ReadInv, Reading
      <3> QED BY <3>11, <3>15
    <2> QED BY <2>1, <2>2, <2>3
  <1>7. Len(src) \in Nat /\ src \in Seq(Byte)
    BY LenProperties DEF TypeOK
  <1>8. ASSUME NEW n \in 0..Len(src), sent' = sent, got' = got, pc' \in {"call", "skip"},
               err' \in {"none", "short", "bad format", "eof", "error"}, faults' \in Nat,
               err' # "bad format", pc' = "skip" => err' = "none",
               err' = "eof" /\ src' = << >> => g = Len(sent),
               Compact(SubSeq(src, 1, n)), src' = SubSeq(src, n + 1, Len(src))
        PROVE  TypeOK' /\ ReadInv'
    <2>1. Reading(buf', i', src', a + n, g, g)
      BY <1>1, <1>8, GoesOn DEF Compact
    <2>2. buf' \in Seq(Byte) /\ src' \in Seq(Byte) /\ i' \in Nat \ {0}
      BY <2>1, ReadingIs
    <2>3. TypeOK'
      BY <1>8, <2>2 DEF TypeOK
    <2>4. a + n \in Nat
      <3>1. n \in Nat
        BY <1>7
      <3> QED BY <3>1
    <2>5. ReadInv'
      BY <1>3, <1>8, <2>1, <2>4 DEF ReadInv, Reading, g
    <2> QED BY <2>3, <2>5
  <1>9. CASE More
    <2>1. PICK n \in 1..MaxPiece : /\ n <= Len(src) /\ Compact(SubSeq(src, 1, n))
                                   /\ src' = SubSeq(src, n + 1, Len(src))
      BY <1>9 DEF More
    <2>2. /\ UNCHANGED <<sent, pc, err, got, faults>> /\ pc = "skip" /\ err = "none"
      BY <1>9 DEF More, ReadInv
    <2>3. n \in 0..Len(src)
      BY <1>7, <2>1, BoundsAssumption
    <2> QED BY <1>8, <2>1, <2>2, <2>3 DEF TypeOK
  <1>10. CASE MoreFails
    <2>1. /\ Skip(buf, i) = UnexpectedEOF /\ pc' = "call" /\ UNCHANGED <<sent, got>>
          /\ faults' \in {faults, faults + 1}
      BY <1>10 DEF MoreFails
    <2>2. faults' \in Nat
      <3>1. faults \in Nat
        BY DEF TypeOK
      <3> QED BY <2>1, <3>1
    <2>3. CASE Compact(<< >>) /\ err' = "eof" /\ UNCHANGED src
      <3>1. SubSeq(src, 1, 0) = << >> /\ SubSeq(src, 0 + 1, Len(src)) = src
        <4>1. SubSeq(src, 1, 0) = << >> /\ SubSeq(src, 1, Len(src)) = src
          BY <1>7, SubSeqEmpty, SubSeqFull
        <4> QED BY <4>1
      <3>2. ASSUME src = << >> PROVE g = Len(sent)
        <4>1. Len(src) = 0
          BY <3>2, EmptySeq
        <4>2. /\ a \in Nat /\ a <= Len(Stream(sent)) /\ Len(src) = Len(Stream(sent)) - a
              /\ Before(sent, k) \in Nat /\ Before(sent, g) \in Nat
              /\ Before(sent, k) <= Before(sent, g)
          BY <1>1, ReadingIs
        <4>3. ASSUME g # Len(sent) PROVE FALSE
          <5>1. g + 1 \in 0..Len(sent) /\ g < Len(sent) /\ Before(sent, g) <= Before(sent, g + 1)
            BY <1>2, <1>3, <4>3, EventIsPart
          <5>2. Before(sent, g + 1) \in 0..Len(Stream(sent))
            BY <1>2, <5>1, UptoIsPart
          <5>3. Before(sent, g + 1) <= a
            BY <1>2, <4>1, <4>2, <5>2
          <5>4. Skip(buf, i) = Before(sent, g + 1) - Before(sent, k) + 1
            BY <1>1, <2>1, <5>1, <5>3, SkipFinds DEF UnexpectedEOF, BadSpecial
          <5> QED BY <1>2, <2>1, <4>2, <5>1, <5>2, <5>4 DEF UnexpectedEOF
        <4> QED BY <4>3
      <3>3. 0 \in 0..Len(src)
        BY <1>7
      <3> DEFINE o == 0
      <3>4. /\ o \in 0..Len(src) /\ Compact(SubSeq(src, 1, o)) /\ src' = SubSeq(src, o + 1, Len(src))
        BY <2>3, <3>1, <3>3
      <3> HIDE DEF o
      <3> QED BY <1>8, <2>1, <2>2, <2>3, <3>2, <3>4
    <2>4. CASE /\ \E n \in 0..MaxPiece : /\ n <= Len(src) /\ Compact(SubSeq(src, 1, n))
                                         /\ src' = SubSeq(src, n + 1, Len(src))
               /\ err' = "error"
      <3>1. PICK n \in 0..MaxPiece : /\ n <= Len(src) /\ Compact(SubSeq(src, 1, n))
                                     /\ src' = SubSeq(src, n + 1, Len(src))
        BY <2>4
      <3>2. n \in 0..Len(src)
        BY <1>7, <3>1, BoundsAssumption
      <3> QED BY <1>8, <2>1, <2>2, <2>4, <3>1, <3>2
    <2> QED BY <1>10, <2>3, <2>4 DEF MoreFails
  <1> QED BY <1>4, <1>5, <1>6, <1>9, <1>10, <1>11 DEF Next

LEMMA ReadAlways == Spec => [](TypeOK /\ ReadInv)
  BY ReadInit, ReadNext, PTL DEF Spec

LEMMA ReadImplies == TypeOK /\ ReadInv => NothingLost /\ EventsFramed
  <1> SUFFICES ASSUME TypeOK, ReadInv PROVE NothingLost /\ EventsFramed
    OBVIOUS
  <1> DEFINE g == Len(got)  S == Stream(sent)
  <1>1. PICK a \in Nat, k \in Nat : Reading(buf, i, src, a, k, g)
    BY DEF ReadInv
  <1>2. sent \in Seq(Values) /\ Len(sent) \in Nat /\ S \in Seq(Byte) /\ Len(S) \in Nat
    BY SentIs
  <1>3. /\ g \in 0..Len(sent) /\ Before(sent, g) \in Nat /\ Before(sent, g) <= a /\ a <= Len(S)
        /\ g \in Nat
    BY <1>1, ReadingIs
  <1>4. DOMAIN got = 1..g
    BY LenProperties DEF TypeOK
  <1>5. EventsFramed
    <2>1. g <= Len(sent)
      BY <1>2, <1>3
    <2>2. \A j \in DOMAIN got : got[j].data = Enc(sent[j])
      BY <1>4 DEF ReadInv
    <2>3. err = "eof" /\ src = << >> => g = Len(sent)
      BY DEF ReadInv
    <2>4. err = "bad format" => g < Len(sent) /\ Unknown(Enc(sent[g + 1]))
      BY DEF ReadInv
    <2> QED BY <2>1, <2>2, <2>3, <2>4 DEF EventsFramed
  <1>6. Returned = SubSeq(S, 1, Before(sent, g))
    <2> DEFINE first == SubSeq(sent, 1, g)
    <2>1. DOMAIN first = 1..g /\ \A j \in 1..g : first[j] = sent[j]
      BY <1>2, <1>3, FirstEvents
    <2>2. Upto(sent, g) = Stream(first)
      BY DEF Upto
    <2> HIDE DEF first
    <2>3. [j \in DOMAIN got |-> got[j].data] = [j \in DOMAIN first |-> Enc(first[j])]
      <3>1. \A j \in 1..g : got[j].data = Enc(first[j])
        BY <2>1 DEF ReadInv
      <3> QED BY <1>4, <2>1, <3>1
    <2>4. Returned = Upto(sent, g)
      BY <2>2, <2>3, Zenon DEF Returned, Stream
    <2> QED BY <1>2, <1>3, <2>4, UptoIsPart
  <1> HIDE DEF g
  <1>7. SubSeq(buf, i, Len(buf)) \o << >> = SubSeq(S, Before(sent, g) + 1, a)
        /\ src = SubSeq(S, a + 1, Len(S))
    <2>1. Len(src) \in Nat /\ src \in Seq(Byte)
      BY LenProperties DEF TypeOK
    <2> DEFINE o == 0
    <2>2. o \in 0..Len(src)
      BY <2>1
    <2> HIDE DEF o
    <2>3. Reading(SubSeq(buf, i, Len(buf)) \o SubSeq(src, 1, o), 1,
                  SubSeq(src, o + 1, Len(src)), a + o, g, g)
      BY <1>1, <2>2, GoesOn
    <2>4. SubSeq(src, 1, o) = << >> /\ a + o = a
      BY <1>1, SubSeqEmpty DEF o
    <2>5. src = SubSeq(S, a + 1, Len(S))
      BY <1>1 DEF Reading
    <2> QED BY <2>3, <2>4, <2>5 DEF Reading
  <1> DEFINE held == SubSeq(buf, i, Len(buf))  y == Before(sent, g)
  <1>8. held = SubSeq(S, y + 1, a)
    <2>1. held \in Seq(Byte)
      <3>1. /\ Before(sent, k) \in Nat /\ Before(sent, k) <= y
            /\ buf \in Seq(Byte) /\ Len(buf) = a - Before(sent, k)
        BY <1>1, ReadingIs
      <3>2. i = y - Before(sent, k) + 1
        BY <1>1 DEF Reading
      <3> DEFINE m == i - 1  l == Len(buf)
      <3>3. m \in 0..Len(buf) /\ l \in m..Len(buf) /\ m + 1 = i
        BY <1>3, <3>1, <3>2
      <3> HIDE DEF m
      <3>4. SubSeq(buf, m + 1, l) \in Seq(Byte)
        BY <3>1, <3>3, PartIs
      <3> QED BY <3>3, <3>4
    <2>2. held \o << >> = held
      BY <2>1, ConcatEmptySeq
    <2> QED BY <1>7, <2>2
  <1>9. NothingLost
    <2> HIDE DEF held, S, y
    <2>1. y \in 0..Len(S) /\ a \in y..Len(S) /\ 0 \in 0..Len(S) /\ y \in 0..Len(S) /\ a \in 0..Len(S)
          /\ Len(S) \in a..Len(S)
      BY <1>2, <1>3 DEF y
    <2> DEFINE o == 0  one == o + 1
    <2>2. o \in 0..Len(S) /\ y \in o..Len(S) /\ a \in o..Len(S)
      BY <2>1
    <2> HIDE DEF o
    <2>3. SubSeq(S, o + 1, y) \o SubSeq(S, y + 1, a) = SubSeq(S, o + 1, a)
      BY <1>2, <2>1, <2>2, PartsJoin
    <2>4. SubSeq(S, o + 1, a) \o SubSeq(S, a + 1, Len(S)) = SubSeq(S, o + 1, Len(S))
      BY <1>2, <2>1, <2>2, PartsJoin
    <2>5. one = 1
      BY DEF o
    <2> HIDE DEF one
    <2>6. SubSeq(S, one, Len(S)) = S
      BY <1>2, <2>5, SubSeqFull
    <2>7. (SubSeq(S, one, y) \o held) \o src = S
      BY <1>7, <1>8, <2>3, <2>4, <2>6 DEF one
    <2>8. Returned = SubSeq(S, one, y)
      BY <1>6, <2>5 DEF y, S
    <2> QED BY <2>7, <2>8 DEF NothingLost, held, S
  <1> QED BY <1>5, <1>9

(* What the reader returned, what it holds and what is to come are the     *)
(* stream, whatever more (reader.go:159) was given and whenever it failed. *)
THEOREM NothingIsLost == Spec => []NothingLost
  BY ReadAlways, ReadImplies, PTL

(* However the stream was cut, ReadOne and Read (reader.go:29) return the  *)
(* events, whole and in order, and all of them before they tell of its end. *)
THEOREM EventsAreFramed == Spec => []EventsFramed
  BY ReadAlways, ReadImplies, PTL


-----------------------------------------------------------------------------
(* AppendKVs and AppendLabels.                                             *)

Names == {"space", "key", "value", "undefined", "label", "modify"}
Cell == [of : Names, at : Nat, len : Nat]

(* An encoded value tells its length in its first byte.                    *)
Whole(e) == e \in Seq(Cell) /\ Len(e) \in Nat \ {0} /\ e[1].len = Len(e)

(* The buffer has these bytes behind a position.                           *)
Holds(mem, at, e) == at + Len(e) <= Len(mem) /\ \A c \in 1..Len(e) : mem[at + c] = e[c]

(* Where pairs end behind the gap, in a buffer of a length.                *)
Placed(off, ms, gap, len) ==
  /\ off \in [0..Len(ms) -> Nat] /\ off[0] = gap /\ off[Len(ms)] = len
  /\ \A q \in 1..Len(ms) : off[q] = off[q - 1] + Len(ms[q].key) + Len(ms[q].value)
  /\ \A x, y \in 0..Len(ms) : x <= y => off[x] <= off[y]

(* Pairs from p + 1 on are as they were encoded.                           *)
Untouched(off, p, ms, mem) ==
  \A q \in p + 1..Len(ms) : /\ Holds(mem, off[q - 1], ms[q].key)
                            /\ Holds(mem, off[q - 1] + Len(ms[q].key), ms[q].value)

(* All pairs made are in the buffer, behind the gap.                       *)
Laid(ms, gap, mem) == \E off : Placed(off, ms, gap, Len(mem)) /\ Untouched(off, 0, ms, mem)

(* What the first p pairs become.                                          *)
LabelledPair(m) == m.key \o L!Labelled(m.value)
Wanted(ms, p) == FlattenSeq([k \in 1..p |-> LabelledPair(ms[k])])

(* p pairs are moved down, and there is room for a tag for each that is    *)
(* left.                                                                   *)
Moving(off, p, ms, mem, wr, rd) ==
  /\ p \in 0..Len(ms) /\ rd = off[p] /\ wr = Len(Wanted(ms, p))
  /\ wr + (Len(ms) - p) <= rd
  /\ Holds(mem, 0, Wanted(ms, p)) /\ Untouched(off, p, ms, mem)

LabelsTypeOK ==
  /\ kvs \in Seq(L!Kinds) /\ done \in 0..Len(kvs)
  /\ stage \in {"key", "value", "labels", "done"}
  /\ mods \in Seq({"label", "modify"})
  /\ b \in Seq(Cell) /\ w \in Nat /\ r \in Nat
  /\ made \in Seq([key : Seq(Cell), value : Seq(Cell)])

(* A pair has a key, and a value but for the one that is being made.       *)
PairsWhole ==
  \A q \in 1..Len(made) :
    /\ Whole(made[q].key)
    /\ IF stage = "value" /\ q = Len(made) THEN made[q].value = << >> ELSE Whole(made[q].value)

(* Two arguments were taken for a pair, but for a value that is missing at *)
(* the end.                                                                *)
PairsCounted ==
  /\ 2 * Len(made) <= done + 1
  /\ stage = "key" /\ done < Len(kvs) => 2 * Len(made) <= done
  /\ stage = "value" => Len(made) # 0

LabelInv ==
  keyed =>
    /\ LabelsTypeOK /\ PairsWhole /\ PairsCounted
    /\ stage \in {"key", "value"} =>
         w = 0 /\ r = L!Reserve(kvs) /\ Laid(made, L!Reserve(kvs), b)
    /\ stage \in {"labels", "done"} =>
         \E off : \E p \in Nat : /\ Placed(off, made, L!Reserve(kvs), Len(b))
                                 /\ Moving(off, p, made, b, w, r)
                                 /\ stage = "done" => p = Len(made)

-----------------------------------------------------------------------------
LEMMA EncodedWhole ==
  ASSUME NEW name \in Names, NEW before \in Seq({"label", "modify"})
  PROVE  Whole(L!Encoded(name, before))
  <1> DEFINE n == Len(before) + 2  e == L!Encoded(name, before)
  <1>1. n \in Nat \ {0} /\ Len(before) \in Nat /\ 1 \in 1..n
    BY LenProperties
  <1>2. \A k \in 1..n : (IF k <= Len(before) THEN before[k] ELSE name) \in Names
    <2> TAKE k \in 1..n
    <2>1. CASE k <= Len(before)
      <3>1. k \in 1..Len(before)
        BY <1>1, <2>1
      <3>2. before[k] \in {"label", "modify"}
        BY <3>1, ElementOfSeq
      <3> QED BY <2>1, <3>2 DEF Names
    <2>2. CASE ~(k <= Len(before))
      BY <2>2
    <2> QED BY <2>1, <2>2
  <1>3. e = [k \in 1..n |-> [of |-> IF k <= Len(before) THEN before[k] ELSE name, at |-> k, len |-> n]]
    BY DEF L!Encoded
  <1> HIDE DEF e, n
  <1>4. e \in [1..n -> Cell] /\ e[1].len = n
    BY <1>1, <1>2, <1>3 DEF Cell
  <1>5. e \in Seq(Cell) /\ Len(e) = n
    BY <1>1, <1>4, OfLength
  <1> QED BY <1>1, <1>4, <1>5 DEF Whole, e

LEMMA LabelledTyped ==
  ASSUME NEW e, Whole(e)
  PROVE  /\ L!Labelled(e) \in Seq(Cell)
         /\ e[1].of = "label" => L!Labelled(e) = e
         /\ e[1].of # "label" => /\ L!Labelled(e) = <<L!LabelTag>> \o e
                                 /\ <<L!LabelTag>> \in Seq(Cell) /\ Len(<<L!LabelTag>>) = 1
                                 /\ <<L!LabelTag>>[1] = L!LabelTag /\ L!LabelTag \in Cell
  <1>1. e \in Seq(Cell)
    BY DEF Whole
  <1>2. L!LabelTag \in Cell
    BY DEF L!LabelTag, Cell, Names
  <1> DEFINE t == L!LabelTag
  <1> HIDE DEF t
  <1>3. <<t>> \in Seq(Cell) /\ Len(<<t>>) = 1 /\ <<t>>[1] = t
    BY <1>2 DEF t
  <1>4. <<t>> \o e \in Seq(Cell)
    BY <1>1, <1>3, ConcatProperties
  <1> QED BY <1>1, <1>2, <1>3, <1>4 DEF L!Labelled, t

(* n bytes are now also at another place.                                  *)
Moves(new, mem, to, from, n) ==
  /\ new \in Seq(Cell) /\ Len(new) = Len(mem)
  /\ \A c \in 1..n : new[to + c] = mem[from + c]
  /\ \A x \in 1..Len(mem) : x <= to \/ x > to + n => new[x] = mem[x]

(* copy, when all fits into the buffer.                                    *)
LEMMA Copies ==
  ASSUME NEW mem \in Seq(Cell), NEW to \in Nat, NEW from \in Nat, NEW n \in Nat,
         to + n <= Len(mem), from + n <= Len(mem)
  PROVE  L!Moved(mem, to, n) = n /\ Moves(L!Copied(mem, to, from, n), mem, to, from, n)
  <1> DEFINE new == L!Copied(mem, to, from, n)  l == Len(mem)
  <1>1. l \in Nat /\ DOMAIN mem = 1..l /\ \A x \in 1..l : mem[x] \in Cell
    BY LenProperties, ElementOfSeq
  <1>2. L!Moved(mem, to, n) = n
    BY DEF L!Moved
  <1>3. new = [k \in 1..l |-> IF k \in to + 1..to + n THEN mem[k - to + from] ELSE mem[k]]
    BY <1>1, <1>2 DEF L!Copied
  <1>4. to + n <= l /\ from + n <= l
    OBVIOUS
  <1> HIDE DEF new, l
  <1>5. ASSUME NEW k \in 1..l, k \in to + 1..to + n
        PROVE  k - to + from \in 1..l
    BY <1>1, <1>4, <1>5
  <1>6. new \in [1..l -> Cell]
    BY <1>1, <1>3, <1>5
  <1>7. new \in Seq(Cell) /\ Len(new) = l
    BY <1>1, <1>6, OfLength
  <1>8. ASSUME NEW c \in 1..n PROVE new[to + c] = mem[from + c]
    <2>1. to + c \in 1..l /\ to + c \in to + 1..to + n /\ (to + c) - to + from = from + c
      BY <1>1, <1>4
    <2> QED BY <1>3, <2>1
  <1>9. ASSUME NEW x \in 1..l, x <= to \/ x > to + n PROVE new[x] = mem[x]
    <2>1. x \notin to + 1..to + n
      BY <1>9
    <2> QED BY <1>3, <2>1
  <1> QED BY <1>2, <1>7, <1>8, <1>9 DEF new, l, Moves

(* What is held stays where nothing is changed.                            *)
LEMMA HoldsOn ==
  ASSUME NEW e \in Seq(Cell), NEW at \in Nat, NEW mem, NEW new, Holds(mem, at, e),
         Len(mem) <= Len(new), Len(mem) \in Nat, Len(new) \in Nat,
         \A c \in 1..Len(e) : new[at + c] = mem[at + c]
  PROVE  Holds(new, at, e)
  <1>1. Len(e) \in Nat
    BY LenProperties
  <1> QED BY <1>1 DEF Holds

(* Two parts held next to each other.                                      *)
LEMMA HoldsBoth ==
  ASSUME NEW e \in Seq(Cell), NEW f \in Seq(Cell), NEW at \in Nat, NEW mem,
         Holds(mem, at, e), Holds(mem, at + Len(e), f)
  PROVE  Holds(mem, at, e \o f) /\ e \o f \in Seq(Cell) /\ Len(e \o f) = Len(e) + Len(f)
  <1>1. Len(e) \in Nat /\ Len(f) \in Nat
    BY LenProperties
  <1> DEFINE g == e \o f
  <1>2. /\ g \in Seq(Cell) /\ Len(g) = Len(e) + Len(f)
        /\ \A c \in 1..Len(e) + Len(f) : g[c] = IF c <= Len(e) THEN e[c] ELSE f[c - Len(e)]
    BY ConcatProperties
  <1> HIDE DEF g
  <1>3. ASSUME NEW c \in 1..Len(e) + Len(f) PROVE mem[at + c] = g[c]
    <2>1. CASE c <= Len(e)
      <3>1. c \in 1..Len(e)
        BY <1>1, <2>1
      <3> QED BY <1>2, <2>1, <3>1 DEF Holds
    <2>2. CASE ~(c <= Len(e))
      <3>1. c - Len(e) \in 1..Len(f) /\ at + Len(e) + (c - Len(e)) = at + c
        BY <1>1, <2>2
      <3>2. mem[at + Len(e) + (c - Len(e))] = f[c - Len(e)]
        BY <3>1 DEF Holds
      <3> QED BY <1>2, <2>2, <3>1, <3>2
    <2> QED BY <2>1, <2>2
  <1>4. at + (Len(e) + Len(f)) <= Len(mem)
    <2>1. at + Len(e) + Len(f) <= Len(mem)
      BY DEF Holds
    <2>2. at + Len(e) + Len(f) = at + (Len(e) + Len(f))
      BY <1>1
    <2> QED BY <2>1, <2>2
  <1> QED BY <1>2, <1>3, <1>4 DEF Holds, g

-----------------------------------------------------------------------------
(* What pairs become, pair by pair.                                        *)
LEMMA WantedStep ==
  ASSUME NEW ms, NEW p \in Nat, \A k \in 1..p + 1 : Whole(ms[k].key) /\ Whole(ms[k].value)
  PROVE  /\ Wanted(ms, p) \in Seq(Cell) /\ LabelledPair(ms[p + 1]) \in Seq(Cell)
         /\ Wanted(ms, p + 1) = Wanted(ms, p) \o LabelledPair(ms[p + 1])
  <1> DEFINE n == p + 1
             G == [k \in 1..p |-> LabelledPair(ms[k])]
             F == [k \in 1..n |-> LabelledPair(ms[k])]
  <1>1. \A k \in 1..n : LabelledPair(ms[k]) \in Seq(Cell)
    <2> TAKE k \in 1..n
    <2>1. Whole(ms[k].key) /\ Whole(ms[k].value)
      OBVIOUS
    <2>2. ms[k].key \in Seq(Cell) /\ L!Labelled(ms[k].value) \in Seq(Cell)
      BY <2>1, LabelledTyped DEF Whole
    <2> QED BY <2>2, ConcatProperties DEF LabelledPair
  <1>2. Grows(G, F, p, Cell)
    BY <1>1 DEF Grows, Begins
  <1>3. F[p + 1] = LabelledPair(ms[p + 1]) /\ LabelledPair(ms[p + 1]) \in Seq(Cell)
    BY <1>1
  <1>4. G \in [1..p -> Seq(Cell)]
    BY <1>1
  <1>5. Wanted(ms, p) = FlattenSeq(G) /\ Wanted(ms, p + 1) = FlattenSeq(F)
    BY DEF Wanted
  <1> HIDE DEF F, G, n
  <1>6. FlattenSeq(G) \in Seq(Cell)
    BY <1>4, FlattenTyped
  <1>7. FlattenSeq(F) = FlattenSeq(G) \o F[p + 1]
    BY <1>2, <1>6, FlattenStep
  <1> QED BY <1>3, <1>5, <1>6, <1>7

LEMMA WantedNone ==
  ASSUME NEW ms
  PROVE  Wanted(ms, 0) = << >>
  <1> DEFINE F == [k \in 1..0 |-> LabelledPair(ms[k])]
  <1>1. F \in [1..0 -> {}] /\ Wanted(ms, 0) = FlattenSeq(F)
    BY DEF Wanted
  <1> HIDE DEF F
  <1> QED BY <1>1, FlattenNone

(* A turn of AppendLabels moves one more pair.                             *)
LEMMA LabelMoves ==
  ASSUME LabelInv, keyed, L!Label
  PROVE  LabelInv'
  <1>1. /\ LabelsTypeOK /\ PairsWhole /\ PairsCounted /\ stage = "labels" /\ r < Len(b)
        /\ UNCHANGED <<kvs, done, mods, keyed, made>>
    BY DEF LabelInv, L!Label
  <1>2. PICK off : \E p \in Nat : /\ Placed(off, made, L!Reserve(kvs), Len(b))
                                  /\ Moving(off, p, made, b, w, r)
    BY <1>1 DEF LabelInv
  <1>3. PICK p \in Nat : /\ Placed(off, made, L!Reserve(kvs), Len(b))
                         /\ Moving(off, p, made, b, w, r)
    BY <1>2
  <1> DEFINE n == Len(made)  q == p + 1  K == made[q].key  V == made[q].value
             k == Len(K)  v == Len(V)  l == Len(b)
  <1>4. n \in Nat /\ w \in Nat /\ r \in Nat /\ l \in Nat /\ b \in Seq(Cell)
    BY <1>1, LenProperties DEF LabelsTypeOK
  <1>5. p # n /\ q \in 1..n /\ q \in p + 1..n /\ q - 1 = p /\ w + (n - p) <= r /\ p < n
        /\ r = off[p] /\ w = Len(Wanted(made, p))
    <2>1. p \in 0..n /\ r = off[p] /\ off[n] = l /\ w + (n - p) <= r /\ w = Len(Wanted(made, p))
      BY <1>3 DEF Moving, Placed
    <2> HIDE DEF n, l
    <2>2. p # n
      BY <1>1, <1>4, <2>1 DEF l
    <2> QED BY <1>4, <2>1, <2>2
  <1>6. Whole(K) /\ Whole(V) /\ K \in Seq(Cell) /\ V \in Seq(Cell)
        /\ k \in Nat \ {0} /\ v \in Nat \ {0} /\ K[1].len = k /\ V[1].len = v
    BY <1>1, <1>5 DEF PairsWhole, Whole
  <1>7. Holds(b, r, K) /\ Holds(b, r + k, V) /\ off[q] = r + k + v
    BY <1>3, <1>5 DEF Moving, Untouched, Placed
  <1> HIDE DEF K, V, k, v
  <1>8. /\ r + k <= l /\ (\A c \in 1..k : b[r + c] = K[c])
        /\ r + k + v <= l /\ (\A c \in 1..v : b[r + k + c] = V[c])
    BY <1>7 DEF Holds, k, v
  <1> HIDE DEF l, n, q
  <1> DEFINE b1 == L!Copied(b, w, r, L!SkipLen(b, r))
             w1 == w + L!Moved(b, w, L!SkipLen(b, r))
             r1 == r + L!SkipLen(b, r)
             last == r1 + L!SkipLen(b1, r1)
             has == b1[r1 + 1].of = "label"
             b2 == IF has THEN b1 ELSE [b1 EXCEPT ![w1 + 1] = L!LabelTag]
             w2 == IF has THEN w1 ELSE w1 + 1
  <1>9. IF r1 = Len(b) \/ (w1 = Len(b) /\ ~has)
        THEN stage' = "panicked" /\ UNCHANGED <<b, w, r>>
        ELSE /\ b' = L!Copied(b2, w2, r1, last - r1)
             /\ w' = w2 + L!Moved(b2, w2, last - r1) /\ r' = last
             /\ UNCHANGED stage
    BY DEF L!Label
  <1>10. L!SkipLen(b, r) = k
    <2>1. 1 \in 1..k
      BY <1>6
    <2>2. b[r + 1].len = k
      BY <1>6, <1>8, <2>1
    <2> QED BY <1>8, <2>2 DEF L!SkipLen, L!Moved, l
  <1>11. w + k <= l
    BY <1>4, <1>5, <1>6, <1>8
  <1>12. /\ L!Moved(b, w, k) = k /\ b1 \in Seq(Cell) /\ Len(b1) = l
         /\ \A c \in 1..k : b1[w + c] = b[r + c]
         /\ \A x \in 1..l : x <= w \/ x > w + k => b1[x] = b[x]
    <2>1. b1 = L!Copied(b, w, r, k)
      BY <1>10
    <2>2. k \in Nat /\ w + k <= Len(b) /\ r + k <= Len(b)
      BY <1>6, <1>8, <1>11 DEF l
    <2>3. L!Moved(b, w, k) = k /\ Moves(L!Copied(b, w, r, k), b, w, r, k)
      BY <1>4, <2>2, Copies
    <2> HIDE DEF b1
    <2> QED BY <2>1, <2>3 DEF Moves, l
  <1>13. w1 = w + k /\ r1 = r + k /\ r1 + v <= l /\ w1 + (n - p) <= r1
    BY <1>4, <1>5, <1>6, <1>8, <1>10, <1>12
  <1> HIDE DEF b1, w1, r1
  <1>14. k \in Nat /\ v \in Nat /\ 1 <= k /\ 1 <= v
    BY <1>6
  <1>15. w1 \in Nat /\ r1 \in Nat /\ w1 + 1 <= r1
    <2>1. w1 \in Nat /\ r1 \in Nat
      BY <1>4, <1>13, <1>14
    <2>2. 1 <= n - p /\ n - p \in Nat
      BY <1>4, <1>5
    <2> QED BY <1>13, <2>1, <2>2
  <1>16. \A c \in 1..v : b1[r1 + c] = V[c]
    <2> TAKE c \in 1..v
    <2>1. r1 + c \in 1..l /\ r1 + c > w + k /\ r1 + c = r + k + c
      BY <1>4, <1>6, <1>13, <1>15
    <2> QED BY <1>8, <1>12, <2>1
  <1>17. 1 \in 1..v /\ b1[r1 + 1] = V[1]
    BY <1>6, <1>16
  <1>18. L!SkipLen(b1, r1) = v /\ last - r1 = v /\ last = r1 + v
    <2>1. L!SkipLen(b1, r1) = v
      BY <1>6, <1>12, <1>13, <1>17 DEF L!SkipLen, L!Moved
    <2> QED BY <1>6, <1>15, <2>1
  <1>19. has <=> V[1].of = "label"
    BY <1>17
  <1> HIDE DEF last, has
  <1>20. /\ b2 \in Seq(Cell) /\ Len(b2) = l
         /\ \A x \in 1..l : x # w1 + 1 => b2[x] = b1[x]
         /\ has => b2 = b1
         /\ ~has => b2[w1 + 1] = L!LabelTag
         /\ w2 \in Nat /\ w1 <= w2 /\ w2 <= w1 + 1 /\ (has => w2 = w1) /\ (~has => w2 = w1 + 1)
    <2>1. w1 + 1 \in 1..Len(b1)
      BY <1>4, <1>12, <1>13, <1>15, <1>14
    <2> DEFINE t == L!LabelTag  z == [b1 EXCEPT ![w1 + 1] = t]
    <2>2. t \in Cell
      BY DEF L!LabelTag, Cell, Names
    <2> HIDE DEF t
    <2>3. z \in Seq(Cell) /\ Len(z) = l /\ z[w1 + 1] = t /\ \A x \in 1..l : x # w1 + 1 => z[x] = b1[x]
      BY <1>12, <2>1, <2>2, ExceptSeq
    <2>4. b2 = IF has THEN b1 ELSE z
      BY DEF t
    <2> HIDE DEF z, b2
    <2>5. w2 \in Nat /\ w1 <= w2 /\ w2 <= w1 + 1 /\ (has => w2 = w1) /\ (~has => w2 = w1 + 1)
      BY <1>15
    <2> HIDE DEF w2
    <2> QED BY <1>12, <2>3, <2>4, <2>5 DEF t
  <1> HIDE DEF b2, w2
  <1>21. b' = L!Copied(b2, w2, r1, v) /\ w' = w2 + L!Moved(b2, w2, v) /\ r' = r1 + v /\ stage' = stage
    <2>1. r1 # Len(b) /\ w1 # Len(b)
      BY <1>4, <1>6, <1>13, <1>15 DEF l
    <2> QED BY <1>9, <1>18, <2>1
  <1>22. w2 + v <= r1 + v /\ w2 + v <= l
    BY <1>4, <1>6, <1>13, <1>15, <1>20
  <1>23. /\ L!Moved(b2, w2, v) = v /\ b' \in Seq(Cell) /\ Len(b') = l
         /\ \A c \in 1..v : b'[w2 + c] = b2[r1 + c]
         /\ \A x \in 1..l : x <= w2 \/ x > w2 + v => b'[x] = b2[x]
    <2>1. v \in Nat /\ w2 + v <= Len(b2) /\ r1 + v <= Len(b2)
      BY <1>6, <1>13, <1>20, <1>22
    <2>2. L!Moved(b2, w2, v) = v /\ Moves(L!Copied(b2, w2, r1, v), b2, w2, r1, v)
      BY <1>15, <1>20, <2>1, Copies
    <2> QED BY <1>20, <1>21, <2>2 DEF Moves
  <1>24. \A x \in 1..l : x <= w \/ x > r' => b'[x] = b[x]
    <2> TAKE x \in 1..l
    <2>1. ASSUME x <= w \/ x > r'
          PROVE  (x <= w2 \/ x > w2 + v) /\ x # w1 + 1 /\ (x <= w \/ x > w + k)
      BY <1>4, <1>6, <1>13, <1>15, <1>20, <1>21, <1>22, <2>1
    <2> QED BY <1>12, <1>20, <1>23, <2>1
  <1>25. Holds(b', w, K)
    <2>1. \A c \in 1..k : b'[w + c] = K[c]
      <3> TAKE c \in 1..k
      <3>1. w + c \in 1..l /\ w + c <= w2 /\ w + c # w1 + 1
        BY <1>4, <1>6, <1>11, <1>13, <1>15, <1>20
      <3> QED BY <1>8, <1>12, <1>20, <1>23, <3>1
    <2> QED BY <1>11, <1>23, <2>1 DEF Holds, k
  <1>26. Holds(b', w2, V)
    <2>1. \A c \in 1..v : b'[w2 + c] = V[c]
      <3> TAKE c \in 1..v
      <3>1. r1 + c \in 1..l /\ r1 + c # w1 + 1
        BY <1>4, <1>6, <1>13, <1>15
      <3> QED BY <1>16, <1>20, <1>23, <3>1
    <2> QED BY <1>22, <1>23, <2>1 DEF Holds, v
  <1>27. /\ Holds(b', w + k, L!Labelled(V)) /\ L!Labelled(V) \in Seq(Cell)
         /\ w' = w + k + Len(L!Labelled(V))
    <2>1. CASE has
      BY <1>4, <1>6, <1>13, <1>19, <1>20, <1>21, <1>23, <1>26, <2>1, LabelledTyped DEF v
    <2>2. CASE ~has
      <3> DEFINE t == <<L!LabelTag>>
      <3>1. L!Labelled(V) = t \o V /\ t \in Seq(Cell) /\ Len(t) = 1 /\ t[1] = L!LabelTag
        BY <1>6, <1>19, <2>2, LabelledTyped
      <3> HIDE DEF t
      <3>2. w1 + 1 \in 1..l /\ w1 + 1 <= w2 /\ w1 + 1 = w2
        BY <1>4, <1>6, <1>13, <1>15, <1>20, <2>2
      <3>3. b'[w1 + 1] = L!LabelTag
        BY <1>20, <1>23, <2>2, <3>2
      <3>4. Holds(b', w1, t)
        <4>1. \A c \in 1..1 : b'[w1 + c] = t[c]
          BY <3>1, <3>3
        <4> QED BY <1>23, <3>1, <3>2, <4>1 DEF Holds
      <3>5. Holds(b', w1 + Len(t), V)
        BY <1>26, <3>1, <3>2
      <3>6. Holds(b', w1, t \o V) /\ t \o V \in Seq(Cell) /\ Len(t \o V) = 1 + v
        BY <1>6, <1>15, <3>1, <3>4, <3>5, HoldsBoth DEF v
      <3>7. w' = w + k + (1 + v)
        BY <1>4, <1>6, <1>13, <1>21, <1>23, <3>2
      <3> QED BY <1>13, <3>1, <3>6, <3>7
    <2> QED BY <2>1, <2>2
  <1>28. Holds(b', w, LabelledPair(made[q])) /\ LabelledPair(made[q]) \in Seq(Cell)
         /\ w' = w + Len(LabelledPair(made[q]))
    <2> DEFINE f == L!Labelled(V)
    <2>1. LabelledPair(made[q]) = K \o f
      BY DEF LabelledPair, K, V
    <2>2. Holds(b', w + Len(K), f) /\ f \in Seq(Cell) /\ Len(f) \in Nat /\ w' = w + k + Len(f)
      BY <1>27, LenProperties DEF k
    <2> HIDE DEF f
    <2>3. Holds(b', w, K \o f) /\ K \o f \in Seq(Cell) /\ Len(K \o f) = k + Len(f)
      BY <1>4, <1>6, <1>25, <2>2, HoldsBoth DEF k
    <2>4. w' = w + (k + Len(f))
      BY <1>4, <1>6, <2>2
    <2> QED BY <2>1, <2>3, <2>4
  <1>29. /\ Wanted(made, p) \in Seq(Cell) /\ LabelledPair(made[q]) \in Seq(Cell)
         /\ Wanted(made, q) = Wanted(made, p) \o LabelledPair(made[q])
    <2>1. \A x \in 1..p + 1 : Whole(made[x].key) /\ Whole(made[x].value)
      <3> TAKE x \in 1..p + 1
      <3>1. x \in 1..n
        BY <1>4, <1>5 DEF q
      <3> QED BY <1>1, <3>1 DEF PairsWhole, n
    <2> QED BY <2>1, WantedStep DEF q
  <1>30. Holds(b', 0, Wanted(made, q)) /\ w' = Len(Wanted(made, q))
    <2> DEFINE e == Wanted(made, p)  f == LabelledPair(made[q])
    <2>1. Holds(b, 0, e)
      BY <1>3 DEF Moving
    <2>2. e \in Seq(Cell) /\ f \in Seq(Cell) /\ Len(e) = w /\ Wanted(made, q) = e \o f
          /\ Holds(b', w, f) /\ w' = w + Len(f)
      BY <1>5, <1>28, <1>29
    <2> HIDE DEF e, f
    <2>3. Holds(b', 0, e)
      <3>1. \A c \in 1..Len(e) : b'[0 + c] = b[0 + c]
        <4> TAKE c \in 1..Len(e)
        <4>1. 0 + c = c /\ c <= w /\ c \in 1..l
          BY <1>4, <1>6, <1>11, <2>2
        <4> QED BY <1>24, <4>1
      <3> QED BY <1>4, <1>23, <2>1, <2>2, <3>1, HoldsOn DEF l
    <2>4. Holds(b', 0 + Len(e), f)
      BY <1>4, <2>2
    <2>5. Holds(b', 0, e \o f) /\ Len(e \o f) = Len(e) + Len(f)
      BY <2>2, <2>3, <2>4, HoldsBoth
    <2> QED BY <2>2, <2>5
  <1>31. r' = off[q] /\ w' + (n - q) <= r' /\ w' \in Nat /\ r' \in Nat /\ q \in 0..n
    <2>1. r' = off[q]
      BY <1>7, <1>13, <1>21
    <2>2. w' = w2 + v /\ r' = r1 + v
      BY <1>21, <1>23
    <2>3. w1 + (n - p) <= r1 /\ w2 <= w1 + 1 /\ w1 \in Nat /\ w2 \in Nat /\ r1 \in Nat
      BY <1>13, <1>15, <1>20
    <2>4. q \in 0..n /\ n - q = n - p - 1
      BY <1>4, <1>5 DEF q
    <2>5. w2 + (n - q) <= r1
      BY <1>4, <2>3, <2>4
    <2> QED BY <1>4, <1>14, <2>1, <2>2, <2>3, <2>4, <2>5
  <1>32. Untouched(off, q, made, b')
    <2> SUFFICES ASSUME NEW x \in q + 1..n
                 PROVE  /\ Holds(b', off[x - 1], made[x].key)
                        /\ Holds(b', off[x - 1] + Len(made[x].key), made[x].value)
      BY DEF Untouched, n
    <2>1. x \in p + 1..n /\ x \in 1..n /\ x - 1 \in 0..n /\ q \in 0..n /\ q <= x - 1
      BY <1>4, <1>5, <1>31
    <2>2. off[x - 1] \in Nat /\ off[q] <= off[x - 1]
      BY <1>3, <2>1 DEF Placed, n
    <2>3. Holds(b, off[x - 1], made[x].key) /\ Holds(b, off[x - 1] + Len(made[x].key), made[x].value)
      BY <1>3, <2>1 DEF Moving, Untouched, n
    <2> DEFINE e == made[x].key  f == made[x].value  at == off[x - 1]
    <2>4. e \in Seq(Cell) /\ f \in Seq(Cell) /\ Len(e) \in Nat /\ Len(f) \in Nat
      BY <1>1, <2>1 DEF PairsWhole, Whole, n
    <2> HIDE DEF e, f, at
    <2>5. at + Len(e) <= l /\ at + Len(e) + Len(f) <= l /\ at \in Nat /\ r' <= at /\ r' \in Nat
      BY <1>31, <2>2, <2>3 DEF Holds, e, f, at, l
    <2> DEFINE x1 == Len(e)  x2 == Len(f)
    <2>11. x1 \in Nat /\ x2 \in Nat /\ at + x1 <= l /\ at + x1 + x2 <= l
      BY <2>4, <2>5
    <2> HIDE DEF x1, x2
    <2>6. \A c \in 1..Len(e) : b'[at + c] = b[at + c]
      <3> SUFFICES ASSUME NEW c \in 1..x1 PROVE b'[at + c] = b[at + c]
        BY DEF x1
      <3>1. at + c \in 1..l /\ at + c > r'
        BY <1>4, <2>5, <2>11
      <3> QED BY <1>24, <3>1
    <2>7. \A c \in 1..Len(f) : b'[at + Len(e) + c] = b[at + Len(e) + c]
      <3> SUFFICES ASSUME NEW c \in 1..x2 PROVE b'[at + x1 + c] = b[at + x1 + c]
        BY DEF x1, x2
      <3>1. at + x1 + c \in 1..l /\ at + x1 + c > r'
        BY <1>4, <2>5, <2>11
      <3> QED BY <1>24, <3>1
    <2> DEFINE new == b'
    <2>10. Len(b) \in Nat /\ Len(new) \in Nat /\ Len(b) <= Len(new)
           /\ Holds(b, at, e) /\ Holds(b, at + Len(e), f)
      BY <1>4, <1>23, <2>3 DEF e, f, at, l
    <2> HIDE DEF new
    <2>8. Holds(new, at, e)
      <3>1. \A c \in 1..Len(e) : new[at + c] = b[at + c]
        BY <2>6 DEF new
      <3> QED BY <2>4, <2>5, <2>10, <3>1, HoldsOn
    <2>9. Holds(new, at + Len(e), f)
      <3>1. \A c \in 1..Len(f) : new[at + Len(e) + c] = b[at + Len(e) + c]
        BY <2>7 DEF new
      <3> DEFINE y == at + Len(e)
      <3>2. y \in Nat
        BY <2>4, <2>5
      <3> HIDE DEF y
      <3> QED BY <2>4, <2>10, <3>1, <3>2, HoldsOn DEF y
    <2> QED BY <2>8, <2>9 DEF e, f, at, new
  <1>33. Moving(off, q, made, b', w', r')
    BY <1>30, <1>31, <1>32 DEF Moving, n
  <1>34. LabelsTypeOK' /\ PairsWhole' /\ PairsCounted' /\ stage' = "labels" /\ made' = made /\ kvs' = kvs
    <2>1. LabelsTypeOK'
      BY <1>1, <1>21, <1>23, <1>31 DEF LabelsTypeOK
    <2>2. PairsWhole' /\ PairsCounted'
      BY <1>1, <1>21 DEF PairsWhole, PairsCounted
    <2> QED BY <1>1, <1>21, <2>1, <2>2
  <1>35. Placed(off, made', L!Reserve(kvs'), Len(b')) /\ q \in Nat
    BY <1>3, <1>23, <1>31, <1>34 DEF l, q
  <1> QED BY <1>33, <1>34, <1>35 DEF LabelInv

-----------------------------------------------------------------------------
(* Pairs are made behind those that are there.                             *)
LEMMA HoldsLonger ==
  ASSUME NEW e \in Seq(Cell), NEW f \in Seq(Cell), NEW mem \in Seq(Cell)
  PROVE  /\ \A at \in Nat : Holds(mem, at, e) => Holds(mem \o f, at, e)
         /\ Holds(mem \o f, Len(mem), f)
  <1> DEFINE new == mem \o f
  <1>1. Len(e) \in Nat /\ Len(f) \in Nat /\ Len(mem) \in Nat
    BY LenProperties
  <1>2. /\ Len(new) = Len(mem) + Len(f)
        /\ \A x \in 1..Len(mem) + Len(f) : new[x] = IF x <= Len(mem) THEN mem[x] ELSE f[x - Len(mem)]
    BY ConcatProperties
  <1> HIDE DEF new
  <1>3. ASSUME NEW at \in Nat, Holds(mem, at, e)
        PROVE  Holds(new, at, e)
    <2>1. at + Len(e) <= Len(mem) /\ \A c \in 1..Len(e) : mem[at + c] = e[c]
      BY <1>3 DEF Holds
    <2>2. \A c \in 1..Len(e) : new[at + c] = e[c]
      <3> TAKE c \in 1..Len(e)
      <3>1. at + c \in 1..Len(mem) + Len(f) /\ at + c <= Len(mem)
        BY <1>1, <2>1
      <3> QED BY <1>2, <2>1, <3>1
    <2>3. at + Len(e) <= Len(new)
      BY <1>1, <1>2, <2>1
    <2> QED BY <2>2, <2>3 DEF Holds
  <1>4. Holds(new, Len(mem), f)
    <2>1. \A c \in 1..Len(f) : new[Len(mem) + c] = f[c]
      <3> TAKE c \in 1..Len(f)
      <3>1. Len(mem) + c \in 1..Len(mem) + Len(f) /\ ~(Len(mem) + c <= Len(mem)) /\ Len(mem) + c - Len(mem) = c
        BY <1>1
      <3> QED BY <1>2, <3>1
    <2> QED BY <1>1, <1>2, <2>1 DEF Holds
  <1> QED BY <1>3, <1>4 DEF new

Makings == [key : Seq(Cell), value : Seq(Cell)]

LEMMA KeyAdded ==
  ASSUME NEW ms \in Seq(Makings), NEW m \in Makings, NEW mem \in Seq(Cell), NEW gap,
         m.value = << >>, Laid(ms, gap, mem)
  PROVE  Laid(Append(ms, m), gap, mem \o m.key)
  <1>12. PICK off : Placed(off, ms, gap, Len(mem)) /\ Untouched(off, 0, ms, mem)
    BY DEF Laid
  <1> DEFINE n == Len(ms)  ns == Append(ms, m)  new == mem \o m.key  l == Len(mem)
             on == [x \in 0..n + 1 |-> IF x <= n THEN off[x] ELSE Len(new)]
  <1>1. n \in Nat /\ l \in Nat /\ m.key \in Seq(Cell) /\ Len(m.key) \in Nat /\ Len(m.value) = 0
    BY LenProperties, EmptySeq DEF Makings
  <1>2. Len(new) = l + Len(m.key)
    BY <1>1, ConcatProperties
  <1>3. Len(ns) = n + 1 /\ ns[n + 1] = m /\ \A q \in 1..n : ns[q] = ms[q]
    BY AppendProperties
  <1>4. /\ off \in [0..n -> Nat] /\ off[0] = gap /\ off[n] = l
        /\ \A q \in 1..n : off[q] = off[q - 1] + Len(ms[q].key) + Len(ms[q].value)
        /\ \A x, y \in 0..n : x <= y => off[x] <= off[y]
    BY <1>12 DEF Placed
  <1>5. \A q \in 1..n : ms[q].key \in Seq(Cell) /\ ms[q].value \in Seq(Cell)
    <2>1. \A q \in 1..n : ms[q] \in Makings
      BY ElementOfSeq
    <2> QED BY <2>1 DEF Makings
  <1> HIDE DEF n, ns, new, l
  <1>6. /\ \A x \in 0..n : on[x] = off[x]
        /\ on[n + 1] = l + Len(m.key) /\ on \in [0..n + 1 -> Nat]
    BY <1>1, <1>2, <1>4
  <1> HIDE DEF on
  <1>7. \A q \in 1..n + 1 : on[q] = on[q - 1] + Len(ns[q].key) + Len(ns[q].value)
    <2> TAKE q \in 1..n + 1
    <2>1. CASE q = n + 1
      <3>1. q - 1 = n /\ on[q - 1] = l /\ on[q] = l + Len(m.key)
        BY <1>1, <1>4, <1>6, <2>1
      <3>2. ns[q] = m
        BY <1>3, <2>1
      <3>3. l + Len(m.key) = l + Len(m.key) + Len(m.value)
        BY <1>1
      <3> QED BY <3>1, <3>2, <3>3
    <2>2. CASE q # n + 1
      <3>1. q \in 1..n /\ q \in 0..n /\ q - 1 \in 0..n
        BY <1>1, <2>2
      <3> QED BY <1>3, <1>4, <1>6, <3>1
    <2> QED BY <2>1, <2>2
  <1>8. ASSUME NEW x \in 0..n + 1, NEW y \in 0..n + 1, x <= y PROVE on[x] <= on[y]
    <2>1. CASE y # n + 1
      <3>1. x \in 0..n /\ y \in 0..n
        BY <1>1, <1>8, <2>1
      <3> QED BY <1>4, <1>6, <1>8, <3>1
    <2>2. CASE y = n + 1 /\ x # n + 1
      <3>1. x \in 0..n /\ n \in 0..n /\ x <= n
        BY <1>1, <2>2
      <3>2. off[x] <= l /\ off[x] \in Nat
        BY <1>4, <3>1
      <3> QED BY <1>1, <1>6, <2>2, <3>1, <3>2
    <2>3. CASE y = n + 1 /\ x = n + 1
      BY <1>1, <1>6, <2>3
    <2> QED BY <2>1, <2>2, <2>3
  <1>9. Placed(on, ns, gap, Len(new))
    <2>1. on[0] = gap
      BY <1>1, <1>4, <1>6
    <2> QED BY <1>2, <1>3, <1>6, <1>7, <1>8, <2>1 DEF Placed
  <1>10. ASSUME NEW q \in 0 + 1..n + 1
         PROVE  Holds(new, on[q - 1], ns[q].key) /\ Holds(new, on[q - 1] + Len(ns[q].key), ns[q].value)
    <2>1. CASE q = n + 1
      <3>1. on[q - 1] = l /\ ns[q] = m
        BY <1>1, <1>3, <1>4, <1>6, <2>1
      <3>2. Holds(new, l, m.key)
        BY <1>1, HoldsLonger DEF new, l
      <3>3. Holds(new, l + Len(m.key), m.value)
        BY <1>1, <1>2 DEF Holds
      <3> QED BY <3>1, <3>2, <3>3
    <2>2. CASE q # n + 1
      <3>1. q \in 0 + 1..n /\ q \in 1..n /\ q - 1 \in 0..n
        BY <1>1, <2>2
      <3> DEFINE e == ms[q].key  f == ms[q].value  at == off[q - 1]
      <3>2. Holds(mem, at, e) /\ Holds(mem, at + Len(e), f)
        BY <1>12, <3>1 DEF Untouched, n
      <3>3. e \in Seq(Cell) /\ f \in Seq(Cell) /\ at \in Nat /\ at + Len(e) \in Nat
        <4>1. e \in Seq(Cell) /\ f \in Seq(Cell) /\ at \in Nat
          BY <1>4, <1>5, <3>1
        <4>2. Len(e) \in Nat
          BY <4>1, LenProperties
        <4> HIDE DEF e, at
        <4> QED BY <4>1, <4>2
      <3> HIDE DEF e, f, at
      <3> DEFINE y == at + Len(e)
      <3>4. Holds(new, at, e)
        BY <1>1, <3>2, <3>3, HoldsLonger DEF new
      <3>5. Holds(new, y, f)
        <4>1. y \in Nat /\ Holds(mem, y, f)
          BY <3>2, <3>3
        <4> HIDE DEF y
        <4> QED BY <1>1, <3>3, <4>1, HoldsLonger DEF new
      <3> QED BY <1>3, <1>6, <3>1, <3>4, <3>5 DEF e, f, at
    <2> QED BY <2>1, <2>2
  <1>11. Untouched(on, 0, ns, new)
    BY <1>3, <1>10 DEF Untouched
  <1> QED BY <1>9, <1>11 DEF ns, new, Laid

(* The last pair has its value now. *)
Filled(ns, ms, e) ==
  /\ ns \in Seq(Makings) /\ Len(ns) = Len(ms)
  /\ \A q \in 1..Len(ms) : ns[q] = IF q = Len(ms) THEN [key |-> ms[q].key, value |-> e] ELSE ms[q]

LEMMA ValueAdded ==
  ASSUME NEW ms \in Seq(Makings), Len(ms) # 0, NEW e \in Seq(Cell), NEW mem \in Seq(Cell),
         NEW gap, NEW ns, ns = [ms EXCEPT ![Len(ms)].value = e],
         ms[Len(ms)].value = << >>, Laid(ms, gap, mem)
  PROVE  Filled(ns, ms, e) /\ Laid(ns, gap, mem \o e)
  <1>16. PICK off : Placed(off, ms, gap, Len(mem)) /\ Untouched(off, 0, ms, mem)
    BY DEF Laid
  <1> DEFINE n == Len(ms)  m == [key |-> ms[n].key, value |-> e]
             new == mem \o e  l == Len(mem)
             on == [off EXCEPT ![n] = Len(new)]
  <1>1. n \in Nat \ {0} /\ n \in 1..n /\ l \in Nat /\ Len(e) \in Nat /\ DOMAIN ms = 1..n
        /\ \A q \in 1..n : ms[q] \in Makings
    BY LenProperties, ElementOfSeq
  <1>2. m \in Makings /\ ms[n] = [key |-> ms[n].key, value |-> ms[n].value]
    BY <1>1 DEF Makings
  <1>3. ns = [ms EXCEPT ![n] = m]
    <2>1. [ms[n] EXCEPT !.value = e] = m
      BY <1>2
    <2> QED BY <2>1
  <1> HIDE DEF m
  <1>4. /\ ns \in Seq(Makings) /\ Len(ns) = n
        /\ \A q \in 1..n : ns[q] = IF q = n THEN m ELSE ms[q]
    BY <1>1, <1>2, <1>3, ExceptSeq
  <1>5. Len(new) = l + Len(e)
    BY ConcatProperties
  <1>6. /\ off \in [0..n -> Nat] /\ off[0] = gap /\ off[n] = l
        /\ \A q \in 1..n : off[q] = off[q - 1] + Len(ms[q].key) + Len(ms[q].value)
        /\ \A x, y \in 0..n : x <= y => off[x] <= off[y]
    BY <1>16 DEF Placed
  <1>7. \A q \in 1..n : /\ ms[q].key \in Seq(Cell) /\ ms[q].value \in Seq(Cell)
                        /\ Len(ms[q].key) \in Nat /\ Len(ms[q].value) \in Nat
    BY <1>1, LenProperties DEF Makings
  <1>8. Len(ms[n].value) = 0 /\ m.key = ms[n].key /\ m.value = e
    BY EmptySeq DEF m, n
  <1> HIDE DEF n, new, l
  <1>9. /\ \A x \in 0..n - 1 : on[x] = off[x]
        /\ on[n] = l + Len(e) /\ on \in [0..n -> Nat]
    BY <1>1, <1>5, <1>6
  <1> HIDE DEF on
  <1>10. off[n] = off[n - 1] + Len(ms[n].key) /\ off[n - 1] \in Nat /\ n - 1 \in 0..n - 1 /\ n - 1 \in 0..n
    BY <1>1, <1>6, <1>7, <1>8
  <1>11. \A q \in 1..n : on[q] = on[q - 1] + Len(ns[q].key) + Len(ns[q].value)
    <2> TAKE q \in 1..n
    <2>1. CASE q = n
      <3>1. Len(ns[q].key) = Len(ms[n].key) /\ Len(ns[q].value) = Len(e) /\ on[q - 1] = off[n - 1]
        BY <1>1, <1>4, <1>8, <1>9, <1>10, <2>1
      <3> QED BY <1>1, <1>6, <1>7, <1>9, <1>10, <2>1, <3>1
    <2>2. CASE q # n
      <3>1. q \in 0..n - 1 /\ q - 1 \in 0..n - 1
        BY <1>1, <2>2
      <3> QED BY <1>4, <1>6, <1>9, <2>2, <3>1
    <2> QED BY <2>1, <2>2
  <1>12. ASSUME NEW x \in 0..n, NEW y \in 0..n, x <= y PROVE on[x] <= on[y]
    <2>1. CASE y # n
      <3>1. x \in 0..n - 1 /\ y \in 0..n - 1
        BY <1>1, <1>12, <2>1
      <3> QED BY <1>6, <1>9, <1>12, <3>1
    <2>2. CASE y = n /\ x # n
      <3>1. x \in 0..n - 1 /\ n \in 0..n /\ x <= n
        BY <1>1, <2>2
      <3>2. off[x] <= l /\ off[x] \in Nat
        BY <1>6, <3>1
      <3> QED BY <1>1, <1>9, <2>2, <3>1, <3>2
    <2>3. CASE y = n /\ x = n
      BY <1>1, <1>9, <2>3
    <2> QED BY <2>1, <2>2, <2>3
  <1>13. Placed(on, ns, gap, Len(new))
    <2>1. 0 \in 0..n - 1
      BY <1>1
    <2>2. on[0] = gap
      BY <1>6, <1>9, <2>1
    <2> QED BY <1>4, <1>5, <1>9, <1>11, <1>12, <2>2 DEF Placed
  <1>14. ASSUME NEW q \in 0 + 1..n
         PROVE  Holds(new, on[q - 1], ns[q].key) /\ Holds(new, on[q - 1] + Len(ns[q].key), ns[q].value)
    <2> DEFINE k == ms[q].key  f == ms[q].value  at == off[q - 1]
    <2>1. q \in 1..n /\ q - 1 \in 0..n - 1 /\ q - 1 \in 0..n
      BY <1>1
    <2>2. Holds(mem, at, k) /\ Holds(mem, at + Len(k), f)
      BY <1>16 DEF Untouched, n
    <2>3. k \in Seq(Cell) /\ f \in Seq(Cell) /\ at \in Nat /\ Len(k) \in Nat /\ on[q - 1] = at
      BY <1>6, <1>7, <1>9, <2>1
    <2> HIDE DEF k, f, at
    <2>4. Holds(new, at, k)
      BY <2>2, <2>3, HoldsLonger DEF new
    <2>5. CASE q = n
      <3>1. ns[q].key = k /\ ns[q].value = e
        BY <1>4, <1>8, <2>1, <2>5 DEF k
      <3>2. at + Len(k) = l
        BY <1>6, <1>10, <2>5 DEF at, k
      <3>3. Holds(new, l, e)
        BY HoldsLonger DEF new, l
      <3> QED BY <2>3, <2>4, <3>1, <3>2, <3>3
    <2>6. CASE q # n
      <3>1. ns[q].key = k /\ ns[q].value = f
        BY <1>4, <2>1, <2>6 DEF k, f
      <3> DEFINE y == at + Len(k)
      <3>2. y \in Nat /\ Holds(mem, y, f)
        BY <2>2, <2>3
      <3> HIDE DEF y
      <3>3. Holds(new, y, f)
        BY <2>3, <3>2, HoldsLonger DEF new
      <3> QED BY <2>3, <2>4, <3>1, <3>3 DEF y
    <2> QED BY <2>5, <2>6
  <1>15. Untouched(on, 0, ns, new)
    BY <1>4, <1>14 DEF Untouched
  <1>17. Laid(ns, gap, new)
    BY <1>13, <1>15 DEF Laid
  <1> QED BY <1>4, <1>17 DEF new, n, m, Filled

-----------------------------------------------------------------------------
(* The invariant of AppendKVs and AppendLabels.                            *)
LEMMA LabelInit == L!Init => LabelInv
  <1> SUFFICES ASSUME L!Init PROVE LabelInv
    OBVIOUS
  <1> DEFINE gap == L!Reserve(kvs)  off == [x \in 0..0 |-> gap]
  <1>1. kvs \in Seq(L!Kinds) /\ Len(kvs) \in Nat
    <2>1. PICK n \in 0..MaxArgs : kvs \in [1..n -> L!Kinds]
      BY DEF L!Init, L!Calls
    <2>2. n \in Nat
      BY <2>1
    <2> QED BY <2>1, <2>2, OfLength
  <1>2. gap \in Nat
    BY <1>1 DEF L!Reserve
  <1>3. /\ done = 0 /\ stage = "key" /\ mods = << >> /\ b = L!Spaces(gap) /\ w = 0 /\ r = gap
        /\ keyed = TRUE /\ made = << >>
    BY DEF L!Init
  <1>4. b \in Seq(Cell) /\ Len(b) = gap
    <2>1. L!Spaces(gap) \in [1..gap -> Cell]
      BY <1>2 DEF L!Spaces, Cell, Names
    <2> HIDE DEF gap
    <2> QED BY <1>2, <1>3, <2>1, OfLength
  <1>5. Len(made) = 0 /\ made \in Seq(Makings) /\ mods \in Seq({"label", "modify"})
    BY <1>3, EmptySeq
  <1> HIDE DEF gap
  <1>6. Placed(off, made, gap, Len(b))
    BY <1>2, <1>4, <1>5 DEF Placed
  <1>7. Untouched(off, 0, made, b)
    BY <1>5 DEF Untouched
  <1>8. LabelsTypeOK
    BY <1>1, <1>2, <1>3, <1>4, <1>5 DEF LabelsTypeOK, Makings
  <1>9. PairsWhole /\ PairsCounted
    BY <1>3, <1>5 DEF PairsWhole, PairsCounted
  <1>10. Laid(made, gap, b)
    BY <1>6, <1>7 DEF Laid
  <1> QED BY <1>3, <1>8, <1>9, <1>10 DEF LabelInv, gap

LEMMA MakingIs ==
  ASSUME LabelInv, keyed
  PROVE  /\ LabelsTypeOK /\ PairsWhole /\ PairsCounted /\ made \in Seq(Makings)
         /\ Len(made) \in Nat /\ Len(kvs) \in Nat /\ done \in Nat /\ done <= Len(kvs)
         /\ b \in Seq(Cell)
         /\ stage \in {"key", "value"} =>
              w = 0 /\ r = L!Reserve(kvs) /\ Laid(made, L!Reserve(kvs), b)
  <1>1. LabelsTypeOK /\ PairsWhole /\ PairsCounted
        /\ (stage \in {"key", "value"} =>
              w = 0 /\ r = L!Reserve(kvs) /\ Laid(made, L!Reserve(kvs), b))
    BY DEF LabelInv
  <1>2. made \in Seq(Makings) /\ kvs \in Seq(L!Kinds) /\ done \in 0..Len(kvs) /\ b \in Seq(Cell)
    BY <1>1 DEF LabelsTypeOK, Makings
  <1>3. Len(made) \in Nat /\ Len(kvs) \in Nat
    BY <1>2, LenProperties
  <1> QED BY <1>1, <1>2, <1>3

LEMMA KeyMakes ==
  ASSUME LabelInv, keyed, keyed', L!Key
  PROVE  LabelInv'
  <1> DEFINE e == L!Encoded("key", << >>)  m == [key |-> e, value |-> << >>]  n == Len(made)
  <1>1. /\ stage = "key" /\ done < Len(kvs) /\ b' = b \o e /\ made' = Append(made, m)
        /\ done' = done + 1 /\ stage' = "value" /\ UNCHANGED <<kvs, mods, w, r>>
    BY DEF L!Key, L!Arg
  <1>2. Whole(e) /\ e \in Seq(Cell)
    <2>1. << >> \in Seq({"label", "modify"}) /\ "key" \in Names
      BY EmptySeq DEF Names
    <2>2. Whole(e)
      BY <2>1, EncodedWhole
    <2> QED BY <2>2 DEF Whole
  <1>3. m \in Makings /\ m.key = e /\ m.value = << >>
    BY <1>2, EmptySeq DEF Makings
  <1> HIDE DEF e, m
  <1>4. /\ LabelsTypeOK /\ PairsWhole /\ PairsCounted /\ made \in Seq(Makings)
        /\ n \in Nat /\ Len(kvs) \in Nat /\ done \in Nat /\ b \in Seq(Cell)
        /\ w = 0 /\ r = L!Reserve(kvs) /\ Laid(made, L!Reserve(kvs), b)
    BY <1>1, MakingIs
  <1>5. Laid(made', L!Reserve(kvs), b')
    <2>1. Laid(Append(made, m), L!Reserve(kvs), b \o m.key)
      BY <1>3, <1>4, KeyAdded
    <2> QED BY <1>1, <1>3, <2>1
  <1>6. /\ made' \in Seq(Makings) /\ Len(made') = n + 1 /\ made'[n + 1] = m
        /\ \A q \in 1..n : made'[q] = made[q]
    BY <1>1, <1>3, <1>4, AppendProperties
  <1>7. b' \in Seq(Cell)
    BY <1>1, <1>2, <1>4, ConcatProperties
  <1> HIDE DEF n
  <1>8. LabelsTypeOK'
    BY <1>1, <1>4, <1>6, <1>7 DEF LabelsTypeOK, Makings
  <1>9. PairsWhole'
    <2> SUFFICES ASSUME NEW q \in 1..n + 1
                 PROVE  /\ Whole(made'[q].key)
                        /\ IF q = n + 1 THEN made'[q].value = << >> ELSE Whole(made'[q].value)
      BY <1>1, <1>6 DEF PairsWhole
    <2>1. CASE q = n + 1
      BY <1>2, <1>3, <1>6, <2>1
    <2>2. CASE q # n + 1
      <3>1. q \in 1..n
        BY <1>4, <2>2
      <3> QED BY <1>1, <1>4, <1>6, <2>2, <3>1 DEF PairsWhole, n
    <2> QED BY <2>1, <2>2
  <1>10. PairsCounted'
    <2>1. 2 * n <= done
      BY <1>1, <1>4 DEF PairsCounted, n
    <2>2. 2 * (n + 1) <= done + 1 + 1 /\ n + 1 # 0
      BY <1>4, <2>1
    <2> QED BY <1>1, <1>6, <2>2 DEF PairsCounted
  <1> QED BY <1>1, <1>4, <1>5, <1>8, <1>9, <1>10 DEF LabelInv

LEMMA ModifyMakes ==
  ASSUME LabelInv, keyed, L!Modify
  PROVE  LabelInv'
  <1>1. /\ stage = "value" /\ done < Len(kvs) /\ \E m \in {"label", "modify"} : mods' = Append(mods, m)
        /\ done' = done + 1 /\ UNCHANGED <<kvs, stage, b, w, r, keyed, made>>
    BY DEF L!Modify
  <1>2. /\ LabelsTypeOK /\ PairsWhole /\ PairsCounted
        /\ Len(made) \in Nat /\ Len(kvs) \in Nat /\ done \in Nat
        /\ w = 0 /\ r = L!Reserve(kvs) /\ Laid(made, L!Reserve(kvs), b)
    BY <1>1, MakingIs
  <1>3. LabelsTypeOK'
    <2>1. mods' \in Seq({"label", "modify"})
      BY <1>1, <1>2, AppendProperties DEF LabelsTypeOK
    <2>2. done' \in 0..Len(kvs)
      BY <1>1, <1>2
    <2> QED BY <1>1, <1>2, <2>1, <2>2 DEF LabelsTypeOK
  <1>4. PairsWhole' /\ PairsCounted'
    <2>1. PairsWhole'
      BY <1>1, <1>2 DEF PairsWhole
    <2>2. 2 * Len(made) <= done + 1 + 1 /\ Len(made) # 0
      BY <1>1, <1>2 DEF PairsCounted
    <2> QED BY <1>1, <2>1, <2>2 DEF PairsCounted
  <1> QED BY <1>1, <1>2, <1>3, <1>4 DEF LabelInv

LEMMA ValueMakes ==
  ASSUME LabelInv, keyed, L!Value
  PROVE  LabelInv'
  <1> DEFINE args == IF done < Len(kvs) /\ L!Arg = "format" THEN 2 ELSE 1
             name == IF done + args > Len(kvs) THEN "undefined" ELSE "value"
             e == L!Encoded(name, mods)  n == Len(made)
  <1>1. /\ stage = "value" /\ b' = b \o e
        /\ made' = [made EXCEPT ![n].value = e]
        /\ done' = (IF name = "value" THEN done + args ELSE Len(kvs))
        /\ mods' = << >> /\ stage' = "key" /\ UNCHANGED <<kvs, w, r, keyed>>
    BY DEF L!Value
  <1>2. /\ LabelsTypeOK /\ PairsWhole /\ PairsCounted /\ made \in Seq(Makings)
        /\ n \in Nat /\ Len(kvs) \in Nat /\ done \in Nat /\ done <= Len(kvs) /\ b \in Seq(Cell)
        /\ w = 0 /\ r = L!Reserve(kvs) /\ Laid(made, L!Reserve(kvs), b)
    BY <1>1, MakingIs
  <1>3. args \in {1, 2}
    OBVIOUS
  <1> HIDE DEF args
  <1>4. name \in {"value", "undefined"} /\ (name = "value" => done + args <= Len(kvs))
    BY <1>2, <1>3
  <1> HIDE DEF name
  <1>5. Whole(e) /\ e \in Seq(Cell)
    <2>1. mods \in Seq({"label", "modify"}) /\ name \in Names
      BY <1>2, <1>4 DEF Names, LabelsTypeOK
    <2>2. Whole(e)
      BY <2>1, EncodedWhole
    <2> QED BY <2>2 DEF Whole
  <1> HIDE DEF e
  <1>6. n # 0 /\ n \in 1..n /\ made[n].value = << >>
    <2>1. n # 0
      BY <1>1, <1>2 DEF PairsCounted
    <2>2. n \in 1..n
      BY <1>2, <2>1
    <2> QED BY <1>1, <1>2, <2>1, <2>2 DEF PairsWhole
  <1>7. /\ made' \in Seq(Makings) /\ Len(made') = n
        /\ \A q \in 1..n : made'[q] = IF q = n THEN [key |-> made[q].key, value |-> e] ELSE made[q]
        /\ Laid(made', L!Reserve(kvs), b')
    <2> DEFINE ns == made'  gap == L!Reserve(kvs)
    <2>1. ns = [made EXCEPT ![Len(made)].value = e] /\ b' = b \o e /\ Laid(made, gap, b)
      BY <1>1, <1>2
    <2> HIDE DEF ns, gap
    <2>2. Filled(ns, made, e) /\ Laid(ns, gap, b \o e)
      BY <1>2, <1>5, <1>6, <2>1, ValueAdded
    <2> QED BY <2>1, <2>2 DEF ns, gap, Filled
  <1>8. b' \in Seq(Cell)
    BY <1>1, <1>2, <1>5, ConcatProperties
  <1> HIDE DEF n
  <1>9. done' \in 0..Len(kvs) /\ (done' < Len(kvs) => 2 * n <= done') /\ 2 * n <= done' + 1
    <2>1. 2 * n <= done + 1
      BY <1>2 DEF PairsCounted, n
    <2> QED BY <1>1, <1>2, <1>3, <1>4, <2>1
  <1>10. LabelsTypeOK'
    <2>1. mods' \in Seq({"label", "modify"})
      BY <1>1, EmptySeq
    <2> QED BY <1>1, <1>2, <1>7, <1>8, <1>9, <2>1 DEF LabelsTypeOK, Makings
  <1>11. PairsWhole'
    <2> SUFFICES ASSUME NEW q \in 1..n
                 PROVE  Whole(made'[q].key) /\ Whole(made'[q].value)
      BY <1>1, <1>7 DEF PairsWhole
    <2>1. Whole(made[q].key) /\ (q # n => Whole(made[q].value))
      BY <1>1, <1>2 DEF PairsWhole, n
    <2>2. CASE q = n
      <3>1. made'[q].key = made[q].key /\ made'[q].value = e
        BY <1>7, <2>2
      <3> QED BY <1>5, <2>1, <3>1
    <2>3. CASE q # n
      BY <1>7, <2>1, <2>3
    <2> QED BY <2>2, <2>3
  <1>12. PairsCounted'
    BY <1>1, <1>7, <1>9 DEF PairsCounted
  <1> QED BY <1>1, <1>2, <1>7, <1>10, <1>11, <1>12 DEF LabelInv

LEMMA MadeAll ==
  ASSUME LabelInv, keyed, L!EndKVs
  PROVE  LabelInv'
  <1> DEFINE n == Len(made)  gap == L!Reserve(kvs)
  <1>1. stage = "key" /\ stage' = "labels" /\ UNCHANGED <<kvs, done, mods, b, w, r, keyed, made>>
    BY DEF L!EndKVs
  <1>2. /\ LabelsTypeOK /\ PairsWhole /\ PairsCounted
        /\ n \in Nat /\ Len(kvs) \in Nat /\ done \in Nat /\ done <= Len(kvs) /\ b \in Seq(Cell)
        /\ w = 0 /\ r = gap
    BY <1>1, MakingIs
  <1>3. PICK off : Placed(off, made, gap, Len(b)) /\ Untouched(off, 0, made, b)
    BY <1>1, MakingIs DEF Laid
  <1>4. n <= gap /\ gap \in Nat
    <2>1. 2 * n <= Len(kvs) + 1
      BY <1>2 DEF PairsCounted
    <2> QED BY <1>2, <2>1 DEF L!Reserve
  <1> HIDE DEF n, gap
  <1>5. Wanted(made, 0) = << >> /\ Len(Wanted(made, 0)) = 0
    BY WantedNone, EmptySeq
  <1>6. Len(b) \in Nat
    BY <1>2, LenProperties
  <1>7. Holds(b, 0, Wanted(made, 0))
    BY <1>5, <1>6 DEF Holds
  <1>8. off[0] = gap /\ 0 \in 0..n /\ 0 \in Nat /\ w + (n - 0) <= r
    BY <1>2, <1>3, <1>4 DEF Placed
  <1>9. Moving(off, 0, made, b, w, r)
    BY <1>2, <1>3, <1>5, <1>7, <1>8 DEF Moving, n
  <1>10. LabelsTypeOK' /\ PairsWhole' /\ PairsCounted'
    BY <1>1, <1>2 DEF LabelsTypeOK, PairsWhole, PairsCounted
  <1> QED BY <1>1, <1>3, <1>8, <1>9, <1>10 DEF LabelInv, gap

LEMMA MovedAll ==
  ASSUME LabelInv, keyed, L!Done
  PROVE  LabelInv'
  <1> DEFINE n == Len(made)  gap == L!Reserve(kvs)
  <1>1. stage = "labels" /\ r >= Len(b) /\ stage' = "done"
        /\ UNCHANGED <<kvs, done, mods, b, w, r, keyed, made>>
    BY DEF L!Done
  <1>2. LabelsTypeOK /\ PairsWhole /\ PairsCounted /\ n \in Nat
    BY MakingIs
  <1>3. PICK off : \E p \in Nat : Placed(off, made, gap, Len(b)) /\ Moving(off, p, made, b, w, r)
    BY <1>1 DEF LabelInv
  <1>4. PICK p \in Nat : Placed(off, made, gap, Len(b)) /\ Moving(off, p, made, b, w, r)
    BY <1>3
  <1>5. p = n
    <2>1. p \in 0..n /\ r = off[p]
      BY <1>4 DEF Moving
    <2>2. ASSUME p # n PROVE FALSE
      <3> DEFINE K == made[p + 1].key
      <3>1. p + 1 \in p + 1..n /\ p + 1 \in 1..n /\ p + 1 - 1 = p
        BY <1>2, <2>1, <2>2
      <3>2. Holds(b, off[p + 1 - 1], K) /\ Len(K) \in Nat \ {0}
        BY <1>2, <1>4, <3>1 DEF Moving, Untouched, PairsWhole, Whole
      <3> HIDE DEF K
      <3>3. r + Len(K) <= Len(b)
        BY <2>1, <3>1, <3>2 DEF Holds
      <3>4. r \in Nat /\ Len(b) \in Nat
        BY <1>2, LenProperties DEF LabelsTypeOK
      <3> QED BY <1>1, <3>2, <3>3, <3>4
    <2> QED BY <2>2
  <1>6. LabelsTypeOK' /\ PairsWhole' /\ PairsCounted'
    BY <1>1, <1>2 DEF LabelsTypeOK, PairsWhole, PairsCounted
  <1> QED BY <1>1, <1>3, <1>4, <1>5, <1>6 DEF LabelInv

LEMMA LabelNext == LabelInv /\ [L!Next]_(L!vars) => LabelInv'
  <1> SUFFICES ASSUME LabelInv, [L!Next]_(L!vars), keyed' PROVE LabelInv'
    BY DEF LabelInv
  <1>1. keyed /\ ~L!Pair
    BY DEF L!Next, L!vars, L!Key, L!Pair, L!Modify, L!Value, L!EndKVs, L!Label, L!Done, L!Returned
  <1>2. CASE L!Returned \/ UNCHANGED L!vars
    <2>1. UNCHANGED <<kvs, done, stage, mods, b, w, r, keyed, made>>
      BY <1>2 DEF L!Returned, L!vars
    <2> QED BY <1>1, <2>1 DEF LabelInv, LabelsTypeOK, PairsWhole, PairsCounted
  <1> QED BY <1>1, <1>2, KeyMakes, ModifyMakes, ValueMakes, MadeAll, LabelMoves, MovedAll DEF L!Next

LEMMA LabelsImplied == LabelInv => LabelsMade
  <1> SUFFICES ASSUME LabelInv, keyed, stage \in {"done", "panicked"}
               PROVE  SubSeq(b, 1, w) = L!FlattenSeq([k \in DOMAIN made |-> made[k].key \o L!Labelled(made[k].value)])
    BY DEF LabelsMade, L!LabelsMade
  <1> DEFINE n == Len(made)  text == Wanted(made, n)
  <1>1. LabelsTypeOK /\ PairsWhole /\ n \in Nat /\ b \in Seq(Cell) /\ stage = "done" /\ made \in Seq(Makings)
    BY MakingIs DEF LabelsTypeOK
  <1>2. PICK off : \E p \in Nat : /\ Placed(off, made, L!Reserve(kvs), Len(b))
                                  /\ Moving(off, p, made, b, w, r)
                                  /\ stage = "done" => p = n
    BY <1>1 DEF LabelInv
  <1>3. w = Len(text) /\ Holds(b, 0, text)
    BY <1>1, <1>2 DEF Moving
  <1>4. text \in Seq(Cell)
    <2>1. CASE n = 0
      BY <2>1, WantedNone, EmptySeq
    <2>2. CASE n # 0
      <3> DEFINE p == n - 1
      <3>1. p \in Nat /\ p + 1 = n
        BY <1>1, <2>2
      <3>2. \A k \in 1..p + 1 : Whole(made[k].key) /\ Whole(made[k].value)
        BY <1>1, <3>1 DEF PairsWhole
      <3> HIDE DEF p
      <3>3. /\ Wanted(made, p) \in Seq(Cell) /\ LabelledPair(made[p + 1]) \in Seq(Cell)
            /\ Wanted(made, p + 1) = Wanted(made, p) \o LabelledPair(made[p + 1])
        BY <3>1, <3>2, WantedStep
      <3> QED BY <3>1, <3>3, ConcatProperties
    <2> QED BY <2>1, <2>2
  <1>5. Len(text) \in Nat /\ DOMAIN made = 1..n /\ Len(b) \in Nat
    BY <1>1, <1>4, LenProperties
  <1>6. text = L!FlattenSeq([k \in DOMAIN made |-> made[k].key \o L!Labelled(made[k].value)])
    <2> DEFINE F == [k \in DOMAIN made |-> made[k].key \o L!Labelled(made[k].value)]
    <2>1. text = FlattenSeq(F)
      BY <1>5 DEF Wanted, LabelledPair
    <2> HIDE DEF F
    <2>2. FlattenSeq(F) = L!FlattenSeq(F)
      BY DEF FlattenSeq, L!FlattenSeq
    <2> QED BY <2>1, <2>2 DEF F
  <1> HIDE DEF text, n
  <1>7. w <= Len(b) /\ \A c \in 1..w : b[c] = text[c]
    <2>1. \A c \in 1..w : 0 + c = c
      BY <1>3, <1>5
    <2> QED BY <1>3, <1>5, <2>1 DEF Holds
  <1>8. SubSeq(b, 1, w) = text
    <2> DEFINE z == SubSeq(b, 1, w)
    <2>1. 0 \in 0..Len(b) /\ w \in 0..Len(b)
      BY <1>3, <1>5, <1>7
    <2>2. /\ SubSeq(b, 0 + 1, w) \in Seq(Cell) /\ Len(SubSeq(b, 0 + 1, w)) = w - 0
          /\ \A c \in 1..w - 0 : SubSeq(b, 0 + 1, w)[c] = b[0 + c]
      BY <1>1, <2>1, PartIs
    <2>3. z \in Seq(Cell) /\ Len(z) = w /\ \A c \in 1..w : z[c] = b[c]
      BY <1>3, <1>5, <2>2
    <2> HIDE DEF z
    <2>4. z = text
      BY <1>3, <1>4, <1>7, <2>3, SeqEqual
    <2> QED BY <2>4 DEF z
  <1> QED BY <1>6, <1>8

(* AppendLabels (wire.go:60) returns the pairs it was given, each value    *)
(* with one label tag, whole and in order, for any list of arguments in    *)
(* which every pair has its key.                                           *)
THEOREM LabelsAreMade == L!Spec => []LabelsMade
  <1>1. L!Spec => []LabelInv
    BY LabelInit, LabelNext, PTL DEF L!Spec
  <1> QED BY <1>1, LabelsImplied, PTL


-----------------------------------------------------------------------------
(* Sequences of anything, one after the other.                             *)
IsSeq(s) == \E S : s \in Seq(S)

LEMMA SeqsShare ==
  ASSUME NEW s, NEW t, IsSeq(s), IsSeq(t)
  PROVE  \E S : s \in Seq(S) /\ t \in Seq(S)
  <1>1. PICK A : s \in Seq(A)
    BY DEF IsSeq
  <1>2. PICK B : t \in Seq(B)
    BY DEF IsSeq
  <1> DEFINE C == A \union B
  <1>3. A \subseteq C /\ B \subseteq C
    OBVIOUS
  <1> HIDE DEF C
  <1>4. s \in Seq(C)
    BY <1>1, <1>3, SeqMonotonic
  <1>5. t \in Seq(C)
    BY <1>2, <1>3, SeqMonotonic
  <1> QED BY <1>4, <1>5

LEMMA ConcatIsSeq ==
  ASSUME NEW s, NEW t, IsSeq(s), IsSeq(t)
  PROVE  IsSeq(s \o t)
  <1>1. PICK S : s \in Seq(S) /\ t \in Seq(S)
    BY SeqsShare
  <1>2. s \o t \in Seq(S)
    BY <1>1, ConcatProperties
  <1> QED BY <1>2 DEF IsSeq

LEMMA ElementsIn ==
  ASSUME NEW S, NEW T, NEW s \in Seq(S), \A k \in 1..Len(s) : s[k] \in T
  PROVE  s \in Seq(T)
  <1>1. Len(s) \in Nat /\ s \in [1..Len(s) -> T]
    BY LenProperties
  <1> QED BY <1>1, OfLength

LEMMA ConcatParts ==
  ASSUME NEW s, NEW t, IsSeq(s), IsSeq(t), NEW T, s \o t \in Seq(T)
  PROVE  s \in Seq(T) /\ t \in Seq(T)
  <1>1. PICK S : s \in Seq(S) /\ t \in Seq(S)
    BY SeqsShare
  <1> DEFINE m == Len(s)  n == Len(t)  u == s \o t
  <1>2. /\ m \in Nat /\ n \in Nat /\ Len(u) = m + n
        /\ \A k \in 1..m + n : u[k] = IF k <= m THEN s[k] ELSE t[k - m]
    BY <1>1, ConcatProperties, LenProperties
  <1>3. \A k \in 1..Len(u) : u[k] \in T
    BY ElementOfSeq
  <1> HIDE DEF m, n, u
  <1>4. \A k \in 1..m : s[k] \in T
    <2> TAKE k \in 1..m
    <2>1. k \in 1..m + n /\ k <= m
      BY <1>2
    <2> QED BY <1>2, <1>3, <2>1
  <1>5. \A k \in 1..n : t[k] \in T
    <2> TAKE k \in 1..n
    <2> DEFINE c == m + k
    <2>1. c \in 1..m + n /\ ~(c <= m) /\ c - m = k
      BY <1>2
    <2> HIDE DEF c
    <2> QED BY <1>2, <1>3, <2>1
  <1>6. \A k \in 1..Len(s) : s[k] \in T
    BY <1>4 DEF m
  <1>7. \A k \in 1..Len(t) : t[k] \in T
    BY <1>5 DEF n
  <1>8. s \in Seq(T)
    BY <1>1, <1>6, ElementsIn
  <1>9. t \in Seq(T)
    BY <1>1, <1>7, ElementsIn
  <1> QED BY <1>8, <1>9

LEMMA SeqsAlike ==
  ASSUME NEW n \in Nat, NEW F, DOMAIN F = 1..n, F = [k \in DOMAIN F |-> F[k]],
         \A k \in 1..n : IsSeq(F[k])
  PROVE  \E S : F \in [1..n -> Seq(S)]
  <1> DEFINE A(k) == CHOOSE S : F[k] \in Seq(S)
             C == UNION {A(k) : k \in 1..n}
  <1>1. \A k \in 1..n : F[k] \in Seq(A(k)) /\ A(k) \subseteq C
    BY DEF IsSeq
  <1> HIDE DEF A, C
  <1>2. \A k \in 1..n : F[k] \in Seq(C)
    BY <1>1, SeqMonotonic
  <1> QED BY <1>2

LEMMA FlattenIsSeq ==
  ASSUME NEW n \in Nat, NEW F, DOMAIN F = 1..n, F = [k \in DOMAIN F |-> F[k]],
         \A k \in 1..n : IsSeq(F[k])
  PROVE  IsSeq(FlattenSeq(F))
  <1>1. PICK S : F \in [1..n -> Seq(S)]
    BY SeqsAlike
  <1>2. FlattenSeq(F) \in Seq(S)
    BY <1>1, FlattenTyped
  <1> QED BY <1>2 DEF IsSeq

(* The beginning of a function, and one sequence more. *)
First(F, n) == [k \in 1..n |-> F[k]]

LEMMA FlattenFirst ==
  ASSUME NEW S, NEW n \in Nat, NEW F \in [1..n -> Seq(S)], NEW j \in 0..n
  PROVE  First(F, j) \in [1..j -> Seq(S)] /\ FlattenSeq(First(F, j)) \in Seq(S)
  <1>1. First(F, j) \in [1..j -> Seq(S)]
    BY DEF First
  <1>2. FlattenSeq(First(F, j)) \in Seq(S)
    BY <1>1, FlattenTyped
  <1> QED BY <1>1, <1>2

LEMMA FlattenEnds ==
  ASSUME NEW S, NEW n \in Nat, NEW F \in [1..n -> Seq(S)]
  PROVE  First(F, n) = F /\ FlattenSeq(First(F, 0)) = << >>
  <1>1. First(F, n) = F
    BY DEF First
  <1>2. First(F, 0) \in [1..0 -> Seq(S)]
    BY DEF First
  <1>3. FlattenSeq(First(F, 0)) = << >>
    BY <1>2, FlattenNone
  <1> QED BY <1>1, <1>3

LEMMA FlattenMore ==
  ASSUME NEW S, NEW n \in Nat, NEW F \in [1..n -> Seq(S)], NEW j \in 0..n, j # n
  PROVE  FlattenSeq(First(F, j + 1)) = FlattenSeq(First(F, j)) \o F[j + 1]
  <1> DEFINE m == j + 1
  <1>1. m \in 0..n /\ j \in Nat /\ m \in 1..m
    OBVIOUS
  <1>2. First(F, m) \in [1..m -> Seq(S)]
    BY <1>1, FlattenFirst
  <1>3. FlattenSeq(First(F, j)) \in Seq(S) /\ First(F, j) \in [1..j -> Seq(S)]
    BY FlattenFirst
  <1>4. Grows(First(F, j), First(F, m), j, S)
    <2>1. \A k \in 1..j : First(F, m)[k] = First(F, j)[k]
      BY <1>1 DEF First
    <2> HIDE DEF First
    <2> QED BY <1>2, <1>3, <2>1 DEF Grows, Begins
  <1>5. First(F, m)[m] = F[m]
    BY <1>1 DEF First
  <1>6. FlattenSeq(First(F, m)) = FlattenSeq(First(F, j)) \o First(F, m)[j + 1]
    BY <1>1, <1>3, <1>4, FlattenStep
  <1> QED BY <1>5, <1>6

LEMMA FlattenParts ==
  ASSUME NEW S, NEW n \in Nat, NEW F \in [1..n -> Seq(S)], NEW T, FlattenSeq(F) \in Seq(T)
  PROVE  \A j \in 1..n : F[j] \in Seq(T) /\ FlattenSeq(First(F, j)) \in Seq(T)
  <1> DEFINE Q(j) == FlattenSeq(First(F, j)) \in Seq(T)
             U == {m \in 0..n : ~Q(n - m)}
  <1>1. \A j \in 0..n : /\ FlattenSeq(First(F, j)) \in Seq(S)
                        /\ j # n => FlattenSeq(First(F, j + 1)) = FlattenSeq(First(F, j)) \o F[j + 1]
    <2> TAKE j \in 0..n
    <2> HIDE DEF Q, U
    <2> QED BY FlattenFirst, FlattenMore
  <1>2. \A j \in 0..n : j # n /\ Q(j + 1) => Q(j) /\ F[j + 1] \in Seq(T)
    <2> SUFFICES ASSUME NEW j \in 0..n, j # n, Q(j + 1) PROVE Q(j) /\ F[j + 1] \in Seq(T)
      OBVIOUS
    <2> DEFINE s == FlattenSeq(First(F, j))  t == F[j + 1]
    <2>1. s \o t \in Seq(T)
      BY <1>1
    <2>2. s \in Seq(S) /\ t \in Seq(S)
      BY <1>1
    <2> HIDE DEF s, t
    <2>3. IsSeq(s) /\ IsSeq(t)
      BY <2>2 DEF IsSeq
    <2>4. s \in Seq(T) /\ t \in Seq(T)
      BY <2>1, <2>3, ConcatParts
    <2> QED BY <2>4 DEF s, t
  <1>3. Q(n)
    <2>1. First(F, n) = F
      BY FlattenEnds
    <2> QED BY <2>1
  <1> HIDE DEF Q
  <1>4. ASSUME U # {} PROVE FALSE
    <2>1. PICK x \in U : \A y \in U : x <= y
      <3>1. U \subseteq Nat
        OBVIOUS
      <3> HIDE DEF U
      <3> QED BY <1>4, <3>1, SmallestExists
    <2>2. x \in 0..n /\ ~Q(n - x)
      BY <2>1
    <2>3. x # 0
      BY <1>3, <2>2
    <2>4. x - 1 \in 0..n /\ ~(x <= x - 1) /\ n - x \in 0..n /\ n - x # n /\ n - (x - 1) = n - x + 1
      BY <2>2, <2>3
    <2>5. Q(n - (x - 1))
      BY <2>1, <2>4
    <2> QED BY <1>2, <2>2, <2>4, <2>5
  <1>5. \A j \in 0..n : Q(j)
    <2> TAKE j \in 0..n
    <2>1. n - j \in 0..n /\ n - (n - j) = j
      OBVIOUS
    <2> QED BY <1>4, <2>1
  <1>6. \A j \in 1..n : j - 1 \in 0..n /\ j - 1 # n /\ j - 1 + 1 = j /\ j \in 0..n
    OBVIOUS
  <1> HIDE DEF U
  <1> QED BY <1>2, <1>5, <1>6 DEF Q

Follows(S, F, m, G, n, H) ==
  /\ m \in Nat /\ n \in Nat
  /\ F \in [1..m -> Seq(S)] /\ G \in [1..n -> Seq(S)] /\ H \in [1..m + n -> Seq(S)]
  /\ \A j \in 1..m : H[j] = F[j]
  /\ \A j \in 1..n : H[m + j] = G[j]

LEMMA FlattenConcat ==
  ASSUME NEW S, NEW m, NEW n, NEW F, NEW G, NEW H, Follows(S, F, m, G, n, H)
  PROVE  FlattenSeq(H) = FlattenSeq(F) \o FlattenSeq(G)
  <1> DEFINE e == FlattenSeq(F)
             Q(j) == FlattenSeq(First(H, m + j)) = e \o FlattenSeq(First(G, j))
             U == {j \in 0..n : ~Q(j)}
  <1>0. m \in Nat /\ n \in Nat /\ F \in [1..m -> Seq(S)] /\ G \in [1..n -> Seq(S)] /\ H \in [1..m + n -> Seq(S)]
    BY DEF Follows
  <1>1. e \in Seq(S) /\ m + n \in Nat
    BY <1>0, FlattenTyped
  <1>2. Q(0)
    <2>1. First(H, m + 0) = F
      BY <1>0 DEF First, Follows
    <2>2. FlattenSeq(First(G, 0)) = << >>
      BY <1>0, FlattenEnds
    <2> QED BY <1>1, <2>1, <2>2, ConcatEmptySeq
  <1>3. ASSUME NEW j \in 0..n, j # n, Q(j) PROVE Q(j + 1)
    <2> DEFINE c == m + j  d == m + n  x == FlattenSeq(First(G, j))  y == G[j + 1]
    <2>1. c \in 0..d /\ c # d /\ d \in Nat /\ j + 1 \in 1..n /\ m + (j + 1) = c + 1
      BY <1>0, <1>3
    <2>2. x \in Seq(S) /\ y \in Seq(S) /\ FlattenSeq(First(G, j + 1)) = x \o y
      BY <1>0, <1>3, <2>1, FlattenFirst, FlattenMore
    <2>3. H[c + 1] = y
      BY <1>0, <2>1 DEF Follows
    <2>4. H \in [1..d -> Seq(S)]
      BY <1>0
    <2>5. FlattenSeq(First(H, c)) = e \o x
      BY <1>3
    <2> HIDE DEF c, d, x, y
    <2>6. FlattenSeq(First(H, c + 1)) = FlattenSeq(First(H, c)) \o H[c + 1]
      BY <2>1, <2>4, FlattenMore
    <2> HIDE DEF e
    <2>7. (e \o x) \o y = e \o (x \o y)
      <3>1. e \in Seq(S) /\ x \in Seq(S) /\ y \in Seq(S)
        BY <1>1, <2>2
      <3> QED BY <3>1, ConcatAssociative
    <2> QED BY <2>1, <2>2, <2>3, <2>5, <2>6, <2>7
  <1> HIDE DEF Q
  <1>4. ASSUME U # {} PROVE FALSE
    <2>1. PICK x \in U : \A y \in U : x <= y
      <3>1. U \subseteq Nat
        OBVIOUS
      <3> HIDE DEF U
      <3> QED BY <1>4, <3>1, SmallestExists
    <2>2. x \in 0..n /\ ~Q(x)
      BY <2>1
    <2>3. x # 0
      BY <1>2, <2>2
    <2>4. x - 1 \in 0..n /\ ~(x <= x - 1) /\ x - 1 # n /\ x - 1 + 1 = x
      BY <1>0, <2>2, <2>3
    <2>5. Q(x - 1)
      BY <2>1, <2>4
    <2> QED BY <1>3, <2>2, <2>4, <2>5
  <1>5. Q(n)
    <2>1. n \in 0..n
      BY <1>0
    <2> QED BY <1>4, <2>1
  <1>6. First(H, m + n) = H /\ First(G, n) = G
    BY <1>0, <1>1, FlattenEnds
  <1> QED BY <1>5, <1>6 DEF Q

Encs(vs) == [j \in DOMAIN vs |-> Enc(vs[j])]

LEMMA EncsTyped ==
  ASSUME NEW vs \in Seq(Values)
  PROVE  /\ Len(vs) \in Nat /\ Encs(vs) \in [1..Len(vs) -> Seq(Byte)] /\ Stream(vs) = FlattenSeq(Encs(vs))
         /\ \A j \in 1..Len(vs) : Encs(vs)[j] = Enc(vs[j])
  <1>1. Len(vs) \in Nat /\ DOMAIN vs = 1..Len(vs)
    BY LenProperties
  <1>2. \A j \in 1..Len(vs) : Enc(vs[j]) \in Seq(Byte)
    BY EncGood, ElementOfSeq DEF Good
  <1> QED BY <1>1, <1>2 DEF Encs, Stream

LEMMA StreamConcat ==
  ASSUME NEW s \in Seq(Values), NEW t \in Seq(Values)
  PROVE  Stream(s \o t) = Stream(s) \o Stream(t) /\ s \o t \in Seq(Values)
  <1> DEFINE m == Len(s)  n == Len(t)  u == s \o t  F == Encs(s)  G == Encs(t)  H == Encs(u)
  <1>1. /\ u \in Seq(Values) /\ Len(u) = m + n
        /\ \A k \in 1..m + n : u[k] = IF k <= m THEN s[k] ELSE t[k - m]
    BY ConcatProperties
  <1>2. /\ m \in Nat /\ F \in [1..m -> Seq(Byte)] /\ Stream(s) = FlattenSeq(F)
        /\ \A j \in 1..m : F[j] = Enc(s[j])
    BY EncsTyped
  <1>3. /\ n \in Nat /\ G \in [1..n -> Seq(Byte)] /\ Stream(t) = FlattenSeq(G)
        /\ \A j \in 1..n : G[j] = Enc(t[j])
    BY EncsTyped
  <1> HIDE DEF u
  <1>4. /\ H \in [1..Len(u) -> Seq(Byte)] /\ Stream(u) = FlattenSeq(H)
        /\ \A j \in 1..Len(u) : H[j] = Enc(u[j])
    BY <1>1, EncsTyped
  <1> HIDE DEF m, n, F, G, H
  <1>5. \A j \in 1..m : H[j] = F[j]
    <2> TAKE j \in 1..m
    <2>1. j \in 1..m + n /\ j <= m
      BY <1>2, <1>3
    <2> QED BY <1>1, <1>2, <1>4, <2>1
  <1>6. \A j \in 1..n : H[m + j] = G[j]
    <2> TAKE j \in 1..n
    <2> DEFINE c == m + j
    <2>1. c \in 1..m + n /\ ~(c <= m) /\ c - m = j
      BY <1>2, <1>3
    <2> HIDE DEF c
    <2>2. H[c] = G[j]
      BY <1>1, <1>3, <1>4, <2>1
    <2> QED BY <2>2 DEF c
  <1>7. H \in [1..m + n -> Seq(Byte)]
    BY <1>1, <1>4
  <1>8. FlattenSeq(H) = FlattenSeq(F) \o FlattenSeq(G)
    <2>1. Follows(Byte, F, m, G, n, H)
      BY <1>2, <1>3, <1>5, <1>6, <1>7 DEF Follows
    <2> QED BY <2>1, FlattenConcat
  <1> QED BY <1>1, <1>2, <1>3, <1>4, <1>8 DEF u

LEMMA StreamNone == Stream(<< >>) = << >>
  <1>1. << >> \in Seq(Values) /\ Len(<< >>) = 0
    BY EmptySeq
  <1> DEFINE none == << >>
  <1>2. none \in Seq(Values) /\ Len(none) = 0
    BY <1>1
  <1> HIDE DEF none
  <1>3. Encs(none) \in [1..0 -> Seq(Byte)] /\ Stream(none) = FlattenSeq(Encs(none))
    BY <1>2, EncsTyped
  <1>4. Stream(none) = << >>
    BY <1>3, FlattenNone
  <1> QED BY <1>4 DEF none

LEMMA FlattenOne ==
  ASSUME NEW S, NEW F \in [1..1 -> Seq(S)]
  PROVE  FlattenSeq(F) = F[1]
  <1> DEFINE n == 1
  <1>1. n \in Nat /\ n # 0 /\ F \in [1..n -> Seq(S)]
    OBVIOUS
  <1> HIDE DEF n
  <1>2. Len(F) = n
    BY <1>1, OfLength
  <1>3. PICK f : Joins(f, F, n) /\ FlattenSeq(F) = f[n]
    BY <1>1, <1>2, FlattenJoins
  <1> QED BY <1>3 DEF Joins, n

LEMMA StreamOne ==
  ASSUME NEW v \in Values
  PROVE  Stream(<<v>>) = Enc(v) /\ <<v>> \in Seq(Values)
  <1> DEFINE vs == <<v>>
  <1>1. vs \in Seq(Values) /\ Len(vs) = 1 /\ vs[1] = v
    OBVIOUS
  <1> HIDE DEF vs
  <1>2. /\ Encs(vs) \in [1..1 -> Seq(Byte)] /\ Stream(vs) = FlattenSeq(Encs(vs))
        /\ Encs(vs)[1] = Enc(v)
    <2>1. /\ Encs(vs) \in [1..Len(vs) -> Seq(Byte)] /\ Stream(vs) = FlattenSeq(Encs(vs))
          /\ \A j \in 1..Len(vs) : Encs(vs)[j] = Enc(vs[j])
      BY <1>1, EncsTyped
    <2> QED BY <1>1, <2>1
  <1>3. Stream(vs) = Enc(v)
    BY <1>2, FlattenOne
  <1> QED BY <1>1, <1>3 DEF vs

LEMMA StreamPair ==
  ASSUME NEW v \in Values, NEW u \in Values
  PROVE  Stream(<<v, u>>) = Enc(v) \o Enc(u) /\ <<v, u>> \in Seq(Values)
  <1> DEFINE s == <<v>>  t == <<u>>  p == <<v, u>>
  <1>1. Stream(s) = Enc(v) /\ s \in Seq(Values) /\ Stream(t) = Enc(u) /\ t \in Seq(Values)
    BY StreamOne
  <1>2. p \in Seq(Values) /\ Len(p) = 2 /\ p[1] = v /\ p[2] = u
    OBVIOUS
  <1>3. Len(t) = 1 /\ t[1] = u
    OBVIOUS
  <1> HIDE DEF t
  <1>4. s \o t \in Seq(Values) /\ Len(s \o t) = 1 + Len(t) /\ (s \o t)[1] = v
        /\ \A c \in 1..Len(t) : (s \o t)[1 + c] = t[c]
    BY <1>1, OneMore
  <1> HIDE DEF s, p
  <1>5. Len(s \o t) = 2 /\ (s \o t)[2] = u
    BY <1>3, <1>4
  <1>6. \A k \in 1..Len(p) : p[k] = (s \o t)[k]
    BY <1>2, <1>4, <1>5
  <1>7. p = s \o t
    BY <1>2, <1>4, <1>5, <1>6, SeqEqual
  <1>8. Stream(s \o t) = Stream(s) \o Stream(t)
    BY <1>1, StreamConcat
  <1>9. Stream(p) = Enc(v) \o Enc(u) /\ p \in Seq(Values)
    BY <1>1, <1>2, <1>7, <1>8
  <1> QED BY <1>9 DEF p

LEMMA StreamFlat ==
  ASSUME NEW n \in Nat, NEW F \in [1..n -> Seq(Values)]
  PROVE  Stream(FlattenSeq(F)) = FlattenSeq([j \in 1..n |-> Stream(F[j])])
  <1> DEFINE E == [j \in 1..n |-> Stream(F[j])]
             Q(j) == Stream(FlattenSeq(First(F, j))) = FlattenSeq(First(E, j))
             U == {j \in 0..n : ~Q(j)}
  <1>1. E \in [1..n -> Seq(Byte)] /\ \A j \in 1..n : E[j] = Stream(F[j])
    BY StreamTyped
  <1> HIDE DEF E
  <1>2. Q(0)
    BY <1>1, FlattenEnds, StreamNone
  <1>3. ASSUME NEW j \in 0..n, j # n, Q(j) PROVE Q(j + 1)
    <2> DEFINE x == FlattenSeq(First(F, j))
    <2>1. x \in Seq(Values) /\ F[j + 1] \in Seq(Values) /\ j + 1 \in 1..n
      <3>1. j + 1 \in 1..n
        BY <1>3
      <3>2. x \in Seq(Values)
        BY <1>3, FlattenFirst
      <3> QED BY <3>1, <3>2
    <2>2. FlattenSeq(First(F, j + 1)) = x \o F[j + 1]
      BY <1>3, FlattenMore
    <2>3. FlattenSeq(First(E, j + 1)) = FlattenSeq(First(E, j)) \o E[j + 1]
      BY <1>1, <1>3, FlattenMore
    <2>4. E[j + 1] = Stream(F[j + 1])
      BY <1>1, <2>1
    <2>5. Stream(x) = FlattenSeq(First(E, j))
      BY <1>3
    <2> HIDE DEF x
    <2>6. Stream(x \o F[j + 1]) = Stream(x) \o Stream(F[j + 1])
      BY <2>1, StreamConcat
    <2> QED BY <2>2, <2>3, <2>4, <2>5, <2>6
  <1> HIDE DEF Q
  <1>4. ASSUME U # {} PROVE FALSE
    <2>1. PICK x \in U : \A y \in U : x <= y
      <3>1. U \subseteq Nat
        OBVIOUS
      <3> HIDE DEF U
      <3> QED BY <1>4, <3>1, SmallestExists
    <2>2. x \in 0..n /\ ~Q(x)
      BY <2>1
    <2>3. x # 0
      BY <1>2, <2>2
    <2>4. x - 1 \in 0..n /\ ~(x <= x - 1) /\ x - 1 # n /\ x - 1 + 1 = x
      BY <2>2, <2>3
    <2>5. Q(x - 1)
      BY <2>1, <2>4
    <2> QED BY <1>3, <2>2, <2>4, <2>5
  <1>5. Q(n)
    BY <1>4
  <1>6. First(F, n) = F /\ First(E, n) = E
    BY <1>1, FlattenEnds
  <1> QED BY <1>5, <1>6 DEF Q, E

-----------------------------------------------------------------------------
(* What is inside of a value is a value.                                   *)
LEMMA ValueInside ==
  ASSUME NEW v \in Values
  PROVE  \/ v \in Scalars
         \/ v \in [k : {"label"}, v : Values]
         \/ /\ v \in [k : {"array", "map"}, vs : Seq(Values), open : BOOLEAN]
            /\ Fits(Len(v.vs), 4)
            /\ v.k = "map" => Len(v.vs) % 2 = 0
  <1>1. MaxDepth \in 0..MaxDepth
    BY DepthAssumption
  <1>2. v \in Over(Values)
    BY <1>1, LayersNest DEF Values
  <1> QED BY <1>2 DEF Over

LEMMA LabelInside ==
  ASSUME NEW t, Tagged(t) \in Values
  PROVE  t \in Values /\ Enc(Tagged(t)) = Size("label", 1) \o Enc(t) /\ Size("label", 1) \in Seq(Byte)
  <1> DEFINE v == Tagged(t)
  <1>1. v \in Values /\ v.k = "label" /\ v.v = t
    BY DEF Tagged
  <1> HIDE DEF v
  <1>2. t \in Values
    BY <1>1, ValueInside DEF Scalars
  <1>3. Enc(v) = << <<"label", "short", 1>> >> \o Encode[t]
    BY <1>1, EncGood DEF EncodeStep
  <1>4. Width(1) = 0
    BY DEF Width
  <1>5. Size("label", 1) = << <<"label", "short", 1>> >>
    BY <1>4 DEF Size, Header
  <1>6. <<"label", "short", 1>> \in Byte
    BY DEF Byte, Details
  <1>7. << <<"label", "short", 1>> >> \in Seq(Byte)
    BY <1>6
  <1> QED BY <1>2, <1>3, <1>5, <1>7 DEF v, Enc

LEMMA ElementsInside ==
  ASSUME NEW v \in Values, v.k \in {"array", "map"}
  PROVE  /\ v.vs \in Seq(Values) /\ v.open \in BOOLEAN /\ Len(v.vs) \in Nat
         /\ Count(v) \in Nat /\ Header(v.k, Count(v), Width(Count(v))) \in Seq(Byte)
         /\ <<Break>> \in Seq(Byte) /\ << <<v.k, "open", 0>> >> \in Seq(Byte)
  <1>1. v.vs \in Seq(Values) /\ v.open \in BOOLEAN
    BY ValueInside DEF Scalars
  <1>2. Len(v.vs) \in Nat
    BY <1>1, LenProperties
  <1>3. Count(v) \in Nat
    <2>1. Len(v.vs) \div 2 \in Nat
      <3> DEFINE n == Len(v.vs)
      <3>1. n \in Nat
        BY <1>2
      <3> HIDE DEF n
      <3>2. n \div 2 \in Nat
        BY <3>1
      <3> QED BY <3>2 DEF n
    <2> QED BY <1>2, <2>1 DEF Count
  <1>4. v.k \in Tags
    BY DEF Tags
  <1>5. Width(Count(v)) \in Widths
    BY DEF Width, Widths
  <1>6. Header(v.k, Count(v), Width(Count(v))) \in Seq(Byte)
    BY <1>3, <1>4, <1>5, HeaderTyped
  <1>7. Break \in Byte /\ <<v.k, "open", 0>> \in Byte
    <2>1. Break \in Byte
      BY DEF Break, Byte, Details, DecoderLen, SpecialLen
    <2>2. <<v.k, "open", 0>> \in Byte
      BY DEF Byte, Details
    <2> QED BY <2>1, <2>2
  <1>8. <<Break>> \in Seq(Byte) /\ << <<v.k, "open", 0>> >> \in Seq(Byte)
    BY <1>7
  <1> QED BY <1>1, <1>2, <1>3, <1>6, <1>8

LEMMA OpenEncoded ==
  ASSUME NEW v \in Values, v.k \in {"array", "map"}, v.open
  PROVE  Enc(v) = << <<v.k, "open", 0>> >> \o Stream(v.vs) \o <<Break>>
  <1>1. Enc(v) = EncodeStep(Encode, v)
    BY EncGood
  <1>2. FlattenSeq([j \in DOMAIN v.vs |-> Encode[v.vs[j]]]) = Stream(v.vs)
    BY DEF Stream, Enc
  <1> QED BY <1>1, <1>2 DEF EncodeStep

LEMMA GivenEncoded ==
  ASSUME NEW v \in Values, v.k \in {"array", "map"}, ~v.open
  PROVE  Enc(v) = Header(v.k, Count(v), Width(Count(v))) \o Stream(v.vs)
  <1>1. Enc(v) = EncodeStep(Encode, v)
    BY EncGood
  <1>2. FlattenSeq([j \in DOMAIN v.vs |-> Encode[v.vs[j]]]) = Stream(v.vs)
    BY DEF Stream, Enc
  <1> QED BY <1>1, <1>2 DEF EncodeStep

LEMMA OpenMapIs ==
  ASSUME NEW vs, Map(vs, TRUE) \in Values
  PROVE  /\ vs \in Seq(Values) /\ Enc(Map(vs, TRUE)) = OpenMap \o Stream(vs) \o <<Break>>
         /\ OpenMap \in Seq(Byte) /\ <<Break>> \in Seq(Byte)
  <1> DEFINE v == Map(vs, TRUE)
  <1>1. v \in Values /\ v.k = "map" /\ v.vs = vs /\ v.open
    BY DEF Map
  <1> HIDE DEF v
  <1>2. /\ v.vs \in Seq(Values) /\ <<Break>> \in Seq(Byte) /\ << <<v.k, "open", 0>> >> \in Seq(Byte)
    BY <1>1, ElementsInside
  <1>3. Enc(v) = << <<v.k, "open", 0>> >> \o Stream(v.vs) \o <<Break>>
    BY <1>1, OpenEncoded
  <1> QED BY <1>1, <1>2, <1>3 DEF OpenMap, v

LEMMA GivenMapIs ==
  ASSUME NEW vs, Map(vs, FALSE) \in Values
  PROVE  /\ vs \in Seq(Values)
         /\ Enc(Map(vs, FALSE)) = Size("map", Len(vs) \div 2) \o Stream(vs)
         /\ Size("map", Len(vs) \div 2) \in Seq(Byte)
  <1> DEFINE v == Map(vs, FALSE)
  <1>1. v \in Values /\ v.k = "map" /\ v.vs = vs /\ ~v.open
    BY DEF Map
  <1> HIDE DEF v
  <1>2. v.vs \in Seq(Values) /\ Header(v.k, Count(v), Width(Count(v))) \in Seq(Byte)
    BY <1>1, ElementsInside
  <1>3. Enc(v) = Header(v.k, Count(v), Width(Count(v))) \o Stream(v.vs)
    BY <1>1, GivenEncoded
  <1>4. Count(v) = Len(vs) \div 2
    BY <1>1 DEF Count
  <1> QED BY <1>1, <1>2, <1>3, <1>4 DEF Size, v

LEMMA ArrayIs ==
  ASSUME NEW vs, NEW v, v = [k |-> "array", open |-> FALSE, vs |-> vs], v \in Values
  PROVE  /\ vs \in Seq(Values)
         /\ Enc(v) = Size("array", Len(vs)) \o Stream(vs)
         /\ Size("array", Len(vs)) \in Seq(Byte)
  <1>1. v.k = "array" /\ v.vs = vs /\ ~v.open
    OBVIOUS
  <1>2. v.vs \in Seq(Values) /\ Header(v.k, Count(v), Width(Count(v))) \in Seq(Byte)
    BY <1>1, ElementsInside
  <1>3. Enc(v) = Header(v.k, Count(v), Width(Count(v))) \o Stream(v.vs)
    BY <1>1, GivenEncoded
  <1>4. Count(v) = Len(vs)
    BY <1>1 DEF Count
  <1> QED BY <1>1, <1>2, <1>3, <1>4 DEF Size

-----------------------------------------------------------------------------
(* A loop of calls, given what each leaves.                                *)
LEMMA EachIs ==
  ASSUME NEW calls, NEW st, NEW xs, Len(xs) \in Nat, NEW g, g[0] = st,
         \A k \in 1..Len(xs) : calls[<<g[k - 1], xs[k]>>] = g[k]
  PROVE  Each(calls, st, xs) = g[Len(xs)]
  <1> DEFINE n == Len(xs)
             Loops(f) == f = [j \in 0..n |-> IF j = 0 THEN st ELSE calls[<<f[j - 1], xs[j]>>]]
             u == CHOOSE f : Loops(f)
             U == {j \in 0..n : u[j] # g[j]}
  <1>1. Each(calls, st, xs) = u[n]
    BY DEF Each
  <1>2. Loops(u)
    <2> DEFINE f == [j \in 0..n |-> g[j]]
    <2>1. \A j \in 0..n : f[j] = IF j = 0 THEN st ELSE calls[<<f[j - 1], xs[j]>>]
      <3> TAKE j \in 0..n
      <3>1. CASE j = 0
        BY <3>1
      <3>2. CASE j # 0
        <4>1. j \in 1..n /\ j - 1 \in 0..n
          BY <3>2
        <4>2. f[j] = g[j] /\ f[j - 1] = g[j - 1]
          BY <4>1
        <4> HIDE DEF f
        <4> QED BY <3>2, <4>1, <4>2
      <3> QED BY <3>1, <3>2
    <2>2. f = [j \in 0..n |-> f[j]]
      OBVIOUS
    <2> HIDE DEF f
    <2>3. Loops(f)
      BY <2>1, <2>2
    <2> HIDE DEF Loops
    <2> QED BY <2>3
  <1> HIDE DEF u
  <1>3. ASSUME U # {} PROVE FALSE
    <2>1. PICK x \in U : \A y \in U : x <= y
      <3>1. U \subseteq Nat
        OBVIOUS
      <3> HIDE DEF U
      <3> QED BY <1>3, <3>1, SmallestExists
    <2>2. x \in 0..n /\ u[x] # g[x]
      BY <2>1
    <2>3. u[x] = IF x = 0 THEN st ELSE calls[<<u[x - 1], xs[x]>>]
      BY <1>2, <2>2
    <2>4. x # 0
      BY <2>2, <2>3
    <2>5. x - 1 \in 0..n /\ ~(x <= x - 1) /\ x \in 1..n
      BY <2>2, <2>4
    <2>6. u[x - 1] = g[x - 1]
      BY <2>1, <2>5
    <2> QED BY <2>2, <2>3, <2>4, <2>5, <2>6
  <1>4. u[n] = g[n]
    <2>1. n \in 0..n
      OBVIOUS
    <2> QED BY <1>3, <2>1
  <1> QED BY <1>1, <1>4

ThreeBytes(x, y, z) == x \in Seq(Byte) /\ y \in Seq(Byte) /\ z \in Seq(Byte)

LEMMA Regrouped ==
  ASSUME NEW x, NEW y, NEW z, ThreeBytes(x, y, z)
  PROVE  (x \o y) \o z = x \o (y \o z) /\ x \o y \in Seq(Byte)
  <1>1. x \in Seq(Byte) /\ y \in Seq(Byte) /\ z \in Seq(Byte)
    BY DEF ThreeBytes
  <1>2. (x \o y) \o z = x \o (y \o z)
    BY <1>1, ConcatAssociative
  <1>3. x \o y \in Seq(Byte)
    BY <1>1, ConcatProperties
  <1> QED BY <1>2, <1>3

LEMMA PutMakes ==
  ASSUME NEW st \in States, NEW x
  PROVE  Put(st, x) = [b |-> st.b \o x, visited |-> st.visited]
  <1> DEFINE e == st.b \o x
  <1>1. Put(st, x) = [st EXCEPT !.b = e]
    BY DEF Put
  <1> HIDE DEF e
  <1>2. [st EXCEPT !.b = e] = [b |-> e, visited |-> st.visited]
    BY DEF States
  <1> QED BY <1>1, <1>2 DEF e

LEMMA PutIs ==
  ASSUME NEW st \in States, NEW x \in Seq(Byte)
  PROVE  /\ Put(st, x) \in States /\ Put(st, x).visited = st.visited /\ Put(st, x).b = st.b \o x
         /\ st.b \in Seq(Byte) /\ st.visited \subseteq Nat
  <1> DEFINE s == st.b
  <1>1. s \in Seq(Byte) /\ st.visited \in SUBSET Nat
    BY DEF States
  <1> HIDE DEF s
  <1>2. s \o x \in Seq(Byte)
    BY <1>1, ConcatProperties
  <1>3. Put(st, x) = [b |-> s \o x, visited |-> st.visited]
    BY PutMakes DEF s
  <1> DEFINE e == s \o x
  <1>4. e \in Seq(Byte) /\ Put(st, x) = [b |-> e, visited |-> st.visited]
    BY <1>2, <1>3
  <1> HIDE DEF e
  <1>5. Put(st, x) \in States /\ Put(st, x).visited = st.visited /\ Put(st, x).b = e
    BY <1>1, <1>4 DEF States
  <1> QED BY <1>1, <1>5 DEF e, s

LEMMA PutPut ==
  ASSUME NEW st \in States, NEW x \in Seq(Byte), NEW y \in Seq(Byte)
  PROVE  Put(Put(st, x), y) = Put(st, x \o y)
  <1> DEFINE s == st.b
  <1>1. s \in Seq(Byte)
    BY PutIs DEF s
  <1> HIDE DEF s
  <1>2. (s \o x) \o y = s \o (x \o y)
    <2>1. ThreeBytes(s, x, y)
      BY <1>1 DEF ThreeBytes
    <2> QED BY <2>1, Regrouped
  <1>3. Put(st, x) \in States /\ Put(st, x).b = s \o x /\ Put(st, x).visited = st.visited
    BY PutIs DEF s
  <1>4. Put(Put(st, x), y) = [b |-> (s \o x) \o y, visited |-> st.visited]
    <2> DEFINE p == Put(st, x)
    <2>1. p \in States /\ p.b = s \o x /\ p.visited = st.visited
      BY <1>3
    <2> HIDE DEF p
    <2>2. Put(p, y) = [b |-> p.b \o y, visited |-> p.visited]
      BY <2>1, PutMakes
    <2>3. Put(p, y) = [b |-> (s \o x) \o y, visited |-> st.visited]
      BY <2>1, <2>2
    <2> QED BY <2>3 DEF p
  <1>5. Put(st, x \o y) = [b |-> s \o (x \o y), visited |-> st.visited]
    BY PutMakes DEF s
  <1> QED BY <1>2, <1>4, <1>5

LEMMA PutNothing ==
  ASSUME NEW st \in States
  PROVE  Put(st, << >>) = st
  <1>1. st.b \in Seq(Byte)
    BY DEF States
  <1>2. st.b \o << >> = st.b
    BY <1>1, ConcatEmptySeq
  <1> QED BY <1>2 DEF Put, States

-----------------------------------------------------------------------------
(* The recursive definitions of Encoding, by levels: each is one table     *)
(* over the one below it.                                                  *)

(* The levels of AppendRaw. *)
Raws(d, below) ==
  [at \in States \X Items |->
     LET st == Put(at[1], at[2][1])  v == at[2][2]  part == at[2][3] IN
     IF d = 0 \/ part = "nothing" THEN st
     ELSE IF part = "fields" THEN Fields(below, st, v) ELSE AppendStep(below, st, v)]

RawsTables(f, n) == f = [d \in 0..n |-> Raws(d, f[d - 1])]

LEMMA RawsExist == ASSUME NEW n \in Nat PROVE \E f : RawsTables(f, n)
  <1> DEFINE T == {k \in Nat : ~ \E f : RawsTables(f, k)}
  <1>1. \A x, y : Raws(0, x) = Raws(0, y)
    BY DEF Raws
  <1>2. ASSUME T # {} PROVE FALSE
    <2>1. PICK x \in T : \A y \in T : x <= y
      <3>1. T \subseteq Nat
        OBVIOUS
      <3> HIDE DEF T
      <3> QED BY <1>2, <3>1, SmallestExists
    <2>2. x \in Nat /\ ~ \E f : RawsTables(f, x)
      BY <2>1
    <2>3. x # 0
      <3> DEFINE f == [d \in 0..0 |-> Raws(0, 0)]
      <3>1. \A d \in 0..0 : f[d] = Raws(d, f[d - 1])
        BY <1>1
      <3>2. f = [d \in 0..0 |-> f[d]]
        OBVIOUS
      <3> HIDE DEF f
      <3>3. RawsTables(f, 0)
        BY <3>1, <3>2 DEF RawsTables
      <3> QED BY <2>2, <3>3
    <2>4. x - 1 \in Nat /\ ~(x <= x - 1)
      BY <2>2, <2>3
    <2>5. PICK f : RawsTables(f, x - 1)
      BY <2>1, <2>4
    <2> DEFINE g == [d \in 0..x |-> Raws(d, f[d - 1])]
    <2>6. \A d \in 0..x - 1 : g[d] = f[d]
      BY <2>4, <2>5 DEF RawsTables
    <2>7. \A d \in 0..x : d # 0 => d - 1 \in 0..x - 1
      BY <2>2
    <2>8. RawsTables(g, x)
      <3>1. \A d \in 0..x : g[d] = Raws(d, g[d - 1])
        <4> TAKE d \in 0..x
        <4>1. g[d] = Raws(d, f[d - 1])
          OBVIOUS
        <4> HIDE DEF g
        <4>2. CASE d = 0
          BY <1>1, <4>1, <4>2
        <4>3. CASE d # 0
          BY <2>6, <2>7, <4>1, <4>3
        <4> QED BY <4>2, <4>3
      <3>2. g = [d \in 0..x |-> g[d]]
        OBVIOUS
      <3> HIDE DEF g
      <3> QED BY <3>1, <3>2 DEF RawsTables
    <2> QED BY <2>2, <2>8
  <1> QED BY <1>2

LEMMA RawsAre == \A d \in 0..MaxDepth : AppendRaw[d] = Raws(d, AppendRaw[d - 1])
  <1>1. \E f : RawsTables(f, MaxDepth)
    BY DepthAssumption, RawsExist
  <1>2. AppendRaw = CHOOSE f : RawsTables(f, MaxDepth)
    BY DEF AppendRaw, RawsTables, Raws
  <1>3. RawsTables(AppendRaw, MaxDepth)
    BY <1>1, <1>2
  <1> QED BY <1>3 DEF RawsTables

(* The levels of AppendAttr. *)
Adds(d, below) ==
  [at \in Seq(Byte) \X Attrs |-> IF d = 0 THEN at[1] ELSE AttrStep(below, at[1], at[2])]

AddsTables(f, n) == f = [d \in 0..n |-> Adds(d, f[d - 1])]

LEMMA AddsExist == ASSUME NEW n \in Nat PROVE \E f : AddsTables(f, n)
  <1> DEFINE T == {k \in Nat : ~ \E f : AddsTables(f, k)}
  <1>1. \A x, y : Adds(0, x) = Adds(0, y)
    BY DEF Adds
  <1>2. ASSUME T # {} PROVE FALSE
    <2>1. PICK x \in T : \A y \in T : x <= y
      <3>1. T \subseteq Nat
        OBVIOUS
      <3> HIDE DEF T
      <3> QED BY <1>2, <3>1, SmallestExists
    <2>2. x \in Nat /\ ~ \E f : AddsTables(f, x)
      BY <2>1
    <2>3. x # 0
      <3> DEFINE f == [d \in 0..0 |-> Adds(0, 0)]
      <3>1. \A d \in 0..0 : f[d] = Adds(d, f[d - 1])
        BY <1>1
      <3>2. f = [d \in 0..0 |-> f[d]]
        OBVIOUS
      <3> HIDE DEF f
      <3>3. AddsTables(f, 0)
        BY <3>1, <3>2 DEF AddsTables
      <3> QED BY <2>2, <3>3
    <2>4. x - 1 \in Nat /\ ~(x <= x - 1)
      BY <2>2, <2>3
    <2>5. PICK f : AddsTables(f, x - 1)
      BY <2>1, <2>4
    <2> DEFINE g == [d \in 0..x |-> Adds(d, f[d - 1])]
    <2>6. \A d \in 0..x - 1 : g[d] = f[d]
      BY <2>4, <2>5 DEF AddsTables
    <2>7. \A d \in 0..x : d # 0 => d - 1 \in 0..x - 1
      BY <2>2
    <2>8. AddsTables(g, x)
      <3>1. \A d \in 0..x : g[d] = Adds(d, g[d - 1])
        <4> TAKE d \in 0..x
        <4>1. g[d] = Adds(d, f[d - 1])
          OBVIOUS
        <4> HIDE DEF g
        <4>2. CASE d = 0
          BY <1>1, <4>1, <4>2
        <4>3. CASE d # 0
          BY <2>6, <2>7, <4>1, <4>3
        <4> QED BY <4>2, <4>3
      <3>2. g = [d \in 0..x |-> g[d]]
        OBVIOUS
      <3> HIDE DEF g
      <3> QED BY <3>1, <3>2 DEF AddsTables
    <2> QED BY <2>2, <2>8
  <1> QED BY <1>2

LEMMA AddsAre == \A d \in 0..MaxDepth : AppendAttr[d] = Adds(d, AppendAttr[d - 1])
  <1>1. \E f : AddsTables(f, MaxDepth)
    BY DepthAssumption, AddsExist
  <1>2. AppendAttr = CHOOSE f : AddsTables(f, MaxDepth)
    BY DEF AppendAttr, AddsTables, Adds
  <1>3. AddsTables(AppendAttr, MaxDepth)
    BY <1>1, <1>2
  <1> QED BY <1>3 DEF AddsTables

(* The levels of Trees. *)
Grown(d, below) ==
  [at \in GoValues \X Insides \X {"value", "fields", "nothing"} |->
     IF d = 0 \/ at[3] = "nothing" THEN << >>
     ELSE IF at[3] = "fields" THEN FieldTrees(below, at[1], at[2])
     ELSE TreeStep(below, at[1], at[2])]

GrownTables(f, n) == f = [d \in 0..n |-> Grown(d, f[d - 1])]

LEMMA GrownExist == ASSUME NEW n \in Nat PROVE \E f : GrownTables(f, n)
  <1> DEFINE T == {k \in Nat : ~ \E f : GrownTables(f, k)}
  <1>1. \A x, y : Grown(0, x) = Grown(0, y)
    BY DEF Grown
  <1>2. ASSUME T # {} PROVE FALSE
    <2>1. PICK x \in T : \A y \in T : x <= y
      <3>1. T \subseteq Nat
        OBVIOUS
      <3> HIDE DEF T
      <3> QED BY <1>2, <3>1, SmallestExists
    <2>2. x \in Nat /\ ~ \E f : GrownTables(f, x)
      BY <2>1
    <2>3. x # 0
      <3> DEFINE f == [d \in 0..0 |-> Grown(0, 0)]
      <3>1. \A d \in 0..0 : f[d] = Grown(d, f[d - 1])
        BY <1>1
      <3>2. f = [d \in 0..0 |-> f[d]]
        OBVIOUS
      <3> HIDE DEF f
      <3>3. GrownTables(f, 0)
        BY <3>1, <3>2 DEF GrownTables
      <3> QED BY <2>2, <3>3
    <2>4. x - 1 \in Nat /\ ~(x <= x - 1)
      BY <2>2, <2>3
    <2>5. PICK f : GrownTables(f, x - 1)
      BY <2>1, <2>4
    <2> DEFINE g == [d \in 0..x |-> Grown(d, f[d - 1])]
    <2>6. \A d \in 0..x - 1 : g[d] = f[d]
      BY <2>4, <2>5 DEF GrownTables
    <2>7. \A d \in 0..x : d # 0 => d - 1 \in 0..x - 1
      BY <2>2
    <2>8. GrownTables(g, x)
      <3>1. \A d \in 0..x : g[d] = Grown(d, g[d - 1])
        <4> TAKE d \in 0..x
        <4>1. g[d] = Grown(d, f[d - 1])
          OBVIOUS
        <4> HIDE DEF g
        <4>2. CASE d = 0
          BY <1>1, <4>1, <4>2
        <4>3. CASE d # 0
          BY <2>6, <2>7, <4>1, <4>3
        <4> QED BY <4>2, <4>3
      <3>2. g = [d \in 0..x |-> g[d]]
        OBVIOUS
      <3> HIDE DEF g
      <3> QED BY <3>1, <3>2 DEF GrownTables
    <2> QED BY <2>2, <2>8
  <1> QED BY <1>2

LEMMA GrownAre == \A d \in 0..MaxDepth : Trees[d] = Grown(d, Trees[d - 1])
  <1>1. \E f : GrownTables(f, MaxDepth)
    BY DepthAssumption, GrownExist
  <1>2. Trees = CHOOSE f : GrownTables(f, MaxDepth)
    BY DEF Trees, GrownTables, Grown
  <1>3. GrownTables(Trees, MaxDepth)
    BY <1>1, <1>2
  <1> QED BY <1>3 DEF GrownTables

(* The levels of PairsOf. *)
Paired(d, below) ==
  [a \in Attrs |-> IF d = 0 THEN << >> ELSE PairsStep(below, a)]

PairedTables(f, n) == f = [d \in 0..n |-> Paired(d, f[d - 1])]

LEMMA PairedExist == ASSUME NEW n \in Nat PROVE \E f : PairedTables(f, n)
  <1> DEFINE T == {k \in Nat : ~ \E f : PairedTables(f, k)}
  <1>1. \A x, y : Paired(0, x) = Paired(0, y)
    BY DEF Paired
  <1>2. ASSUME T # {} PROVE FALSE
    <2>1. PICK x \in T : \A y \in T : x <= y
      <3>1. T \subseteq Nat
        OBVIOUS
      <3> HIDE DEF T
      <3> QED BY <1>2, <3>1, SmallestExists
    <2>2. x \in Nat /\ ~ \E f : PairedTables(f, x)
      BY <2>1
    <2>3. x # 0
      <3> DEFINE f == [d \in 0..0 |-> Paired(0, 0)]
      <3>1. \A d \in 0..0 : f[d] = Paired(d, f[d - 1])
        BY <1>1
      <3>2. f = [d \in 0..0 |-> f[d]]
        OBVIOUS
      <3> HIDE DEF f
      <3>3. PairedTables(f, 0)
        BY <3>1, <3>2 DEF PairedTables
      <3> QED BY <2>2, <3>3
    <2>4. x - 1 \in Nat /\ ~(x <= x - 1)
      BY <2>2, <2>3
    <2>5. PICK f : PairedTables(f, x - 1)
      BY <2>1, <2>4
    <2> DEFINE g == [d \in 0..x |-> Paired(d, f[d - 1])]
    <2>6. \A d \in 0..x - 1 : g[d] = f[d]
      BY <2>4, <2>5 DEF PairedTables
    <2>7. \A d \in 0..x : d # 0 => d - 1 \in 0..x - 1
      BY <2>2
    <2>8. PairedTables(g, x)
      <3>1. \A d \in 0..x : g[d] = Paired(d, g[d - 1])
        <4> TAKE d \in 0..x
        <4>1. g[d] = Paired(d, f[d - 1])
          OBVIOUS
        <4> HIDE DEF g
        <4>2. CASE d = 0
          BY <1>1, <4>1, <4>2
        <4>3. CASE d # 0
          BY <2>6, <2>7, <4>1, <4>3
        <4> QED BY <4>2, <4>3
      <3>2. g = [d \in 0..x |-> g[d]]
        OBVIOUS
      <3> HIDE DEF g
      <3> QED BY <3>1, <3>2 DEF PairedTables
    <2> QED BY <2>2, <2>8
  <1> QED BY <1>2

LEMMA PairedAre == \A d \in 0..MaxDepth : PairsOf[d] = Paired(d, PairsOf[d - 1])
  <1>1. \E f : PairedTables(f, MaxDepth)
    BY DepthAssumption, PairedExist
  <1>2. PairsOf = CHOOSE f : PairedTables(f, MaxDepth)
    BY DEF PairsOf, PairedTables, Paired
  <1>3. PairedTables(PairsOf, MaxDepth)
    BY <1>1, <1>2
  <1> QED BY <1>3 DEF PairedTables

(* The levels of PlainAttr. *)
Plains(d, below) ==
  [a \in Attrs |->
     /\ d # 0
     /\ IF IsGroup(a)
        THEN \A j \in DOMAIN a.group : /\ below[a.group[j]]
                                       /\ a.key # 0 => Len(PairsOf[d - 1][a.group[j]]) = 2
        ELSE a.key = 0 \/ Apart[MaxDepth][<<a.value, {}>>]]

PlainsTables(f, n) == f = [d \in 0..n |-> Plains(d, f[d - 1])]

LEMMA PlainsExist == ASSUME NEW n \in Nat PROVE \E f : PlainsTables(f, n)
  <1> DEFINE T == {k \in Nat : ~ \E f : PlainsTables(f, k)}
  <1>1. \A x, y : Plains(0, x) = Plains(0, y)
    BY DEF Plains
  <1>2. ASSUME T # {} PROVE FALSE
    <2>1. PICK x \in T : \A y \in T : x <= y
      <3>1. T \subseteq Nat
        OBVIOUS
      <3> HIDE DEF T
      <3> QED BY <1>2, <3>1, SmallestExists
    <2>2. x \in Nat /\ ~ \E f : PlainsTables(f, x)
      BY <2>1
    <2>3. x # 0
      <3> DEFINE f == [d \in 0..0 |-> Plains(0, 0)]
      <3>1. \A d \in 0..0 : f[d] = Plains(d, f[d - 1])
        BY <1>1
      <3>2. f = [d \in 0..0 |-> f[d]]
        OBVIOUS
      <3> HIDE DEF f
      <3>3. PlainsTables(f, 0)
        BY <3>1, <3>2 DEF PlainsTables
      <3> QED BY <2>2, <3>3
    <2>4. x - 1 \in Nat /\ ~(x <= x - 1)
      BY <2>2, <2>3
    <2>5. PICK f : PlainsTables(f, x - 1)
      BY <2>1, <2>4
    <2> DEFINE g == [d \in 0..x |-> Plains(d, f[d - 1])]
    <2>6. \A d \in 0..x - 1 : g[d] = f[d]
      BY <2>4, <2>5 DEF PlainsTables
    <2>7. \A d \in 0..x : d # 0 => d - 1 \in 0..x - 1
      BY <2>2
    <2>8. PlainsTables(g, x)
      <3>1. \A d \in 0..x : g[d] = Plains(d, g[d - 1])
        <4> TAKE d \in 0..x
        <4>1. g[d] = Plains(d, f[d - 1])
          OBVIOUS
        <4> HIDE DEF g
        <4>2. CASE d = 0
          BY <1>1, <4>1, <4>2
        <4>3. CASE d # 0
          BY <2>6, <2>7, <4>1, <4>3
        <4> QED BY <4>2, <4>3
      <3>2. g = [d \in 0..x |-> g[d]]
        OBVIOUS
      <3> HIDE DEF g
      <3> QED BY <3>1, <3>2 DEF PlainsTables
    <2> QED BY <2>2, <2>8
  <1> QED BY <1>2

LEMMA PlainsAre == \A d \in 0..MaxDepth : PlainAttr[d] = Plains(d, PlainAttr[d - 1])
  <1>1. \E f : PlainsTables(f, MaxDepth)
    BY DepthAssumption, PlainsExist
  <1>2. PlainAttr = CHOOSE f : PlainsTables(f, MaxDepth)
    BY DEF PlainAttr, PlainsTables, Plains
  <1>3. PlainsTables(PlainAttr, MaxDepth)
    BY <1>1, <1>2
  <1> QED BY <1>3 DEF PlainsTables

(* The levels of Apart. *)
Aparts(d, below) ==
  [at \in GoValues \X Insides |-> d # 0 /\ ApartStep(below, at[1], at[2])]

ApartsTables(f, n) == f = [d \in 0..n |-> Aparts(d, f[d - 1])]

LEMMA ApartsExist == ASSUME NEW n \in Nat PROVE \E f : ApartsTables(f, n)
  <1> DEFINE T == {k \in Nat : ~ \E f : ApartsTables(f, k)}
  <1>1. \A x, y : Aparts(0, x) = Aparts(0, y)
    BY DEF Aparts
  <1>2. ASSUME T # {} PROVE FALSE
    <2>1. PICK x \in T : \A y \in T : x <= y
      <3>1. T \subseteq Nat
        OBVIOUS
      <3> HIDE DEF T
      <3> QED BY <1>2, <3>1, SmallestExists
    <2>2. x \in Nat /\ ~ \E f : ApartsTables(f, x)
      BY <2>1
    <2>3. x # 0
      <3> DEFINE f == [d \in 0..0 |-> Aparts(0, 0)]
      <3>1. \A d \in 0..0 : f[d] = Aparts(d, f[d - 1])
        BY <1>1
      <3>2. f = [d \in 0..0 |-> f[d]]
        OBVIOUS
      <3> HIDE DEF f
      <3>3. ApartsTables(f, 0)
        BY <3>1, <3>2 DEF ApartsTables
      <3> QED BY <2>2, <3>3
    <2>4. x - 1 \in Nat /\ ~(x <= x - 1)
      BY <2>2, <2>3
    <2>5. PICK f : ApartsTables(f, x - 1)
      BY <2>1, <2>4
    <2> DEFINE g == [d \in 0..x |-> Aparts(d, f[d - 1])]
    <2>6. \A d \in 0..x - 1 : g[d] = f[d]
      BY <2>4, <2>5 DEF ApartsTables
    <2>7. \A d \in 0..x : d # 0 => d - 1 \in 0..x - 1
      BY <2>2
    <2>8. ApartsTables(g, x)
      <3>1. \A d \in 0..x : g[d] = Aparts(d, g[d - 1])
        <4> TAKE d \in 0..x
        <4>1. g[d] = Aparts(d, f[d - 1])
          OBVIOUS
        <4> HIDE DEF g
        <4>2. CASE d = 0
          BY <1>1, <4>1, <4>2
        <4>3. CASE d # 0
          BY <2>6, <2>7, <4>1, <4>3
        <4> QED BY <4>2, <4>3
      <3>2. g = [d \in 0..x |-> g[d]]
        OBVIOUS
      <3> HIDE DEF g
      <3> QED BY <3>1, <3>2 DEF ApartsTables
    <2> QED BY <2>2, <2>8
  <1> QED BY <1>2

LEMMA ApartsAre == \A d \in 0..MaxDepth : Apart[d] = Aparts(d, Apart[d - 1])
  <1>1. \E f : ApartsTables(f, MaxDepth)
    BY DepthAssumption, ApartsExist
  <1>2. Apart = CHOOSE f : ApartsTables(f, MaxDepth)
    BY DEF Apart, ApartsTables, Aparts
  <1>3. ApartsTables(Apart, MaxDepth)
    BY <1>1, <1>2
  <1> QED BY <1>3 DEF ApartsTables

(* The levels of Nested. *)
Nests(by, pairs, d, below) ==
  IF d = 0 THEN pairs ELSE Within(by[Len(by) + 1 - d], below)

NestsTables(by, pairs, f, n) == f = [d \in 0..n |-> Nests(by, pairs, d, f[d - 1])]

LEMMA NestsExist == ASSUME NEW by, NEW pairs, NEW n \in Nat PROVE \E f : NestsTables(by, pairs, f, n)
  <1> DEFINE T == {k \in Nat : ~ \E f : NestsTables(by, pairs, f, k)}
  <1>1. \A x, y : Nests(by, pairs, 0, x) = Nests(by, pairs, 0, y)
    BY DEF Nests
  <1>2. ASSUME T # {} PROVE FALSE
    <2>1. PICK x \in T : \A y \in T : x <= y
      <3>1. T \subseteq Nat
        OBVIOUS
      <3> HIDE DEF T
      <3> QED BY <1>2, <3>1, SmallestExists
    <2>2. x \in Nat /\ ~ \E f : NestsTables(by, pairs, f, x)
      BY <2>1
    <2>3. x # 0
      <3> DEFINE f == [d \in 0..0 |-> Nests(by, pairs, 0, 0)]
      <3>1. \A d \in 0..0 : f[d] = Nests(by, pairs, d, f[d - 1])
        BY <1>1
      <3>2. f = [d \in 0..0 |-> f[d]]
        OBVIOUS
      <3> HIDE DEF f
      <3>3. NestsTables(by, pairs, f, 0)
        BY <3>1, <3>2 DEF NestsTables
      <3> QED BY <2>2, <3>3
    <2>4. x - 1 \in Nat /\ ~(x <= x - 1)
      BY <2>2, <2>3
    <2>5. PICK f : NestsTables(by, pairs, f, x - 1)
      BY <2>1, <2>4
    <2> DEFINE g == [d \in 0..x |-> Nests(by, pairs, d, f[d - 1])]
    <2>6. \A d \in 0..x - 1 : g[d] = f[d]
      BY <2>4, <2>5 DEF NestsTables
    <2>7. \A d \in 0..x : d # 0 => d - 1 \in 0..x - 1
      BY <2>2
    <2>8. NestsTables(by, pairs, g, x)
      <3>1. \A d \in 0..x : g[d] = Nests(by, pairs, d, g[d - 1])
        <4> TAKE d \in 0..x
        <4>1. g[d] = Nests(by, pairs, d, f[d - 1])
          OBVIOUS
        <4> HIDE DEF g
        <4>2. CASE d = 0
          BY <1>1, <4>1, <4>2
        <4>3. CASE d # 0
          BY <2>6, <2>7, <4>1, <4>3
        <4> QED BY <4>2, <4>3
      <3>2. g = [d \in 0..x |-> g[d]]
        OBVIOUS
      <3> HIDE DEF g
      <3> QED BY <3>1, <3>2 DEF NestsTables
    <2> QED BY <2>2, <2>8
  <1> QED BY <1>2

LEMMA NestedIs ==
  ASSUME NEW by, NEW pairs, Len(by) \in Nat
  PROVE  \E f : NestsTables(by, pairs, f, Len(by)) /\ Nested(by, pairs) = f[Len(by)]
  <1> DEFINE f == CHOOSE f : NestsTables(by, pairs, f, Len(by))
  <1>1. Nested(by, pairs) = f[Len(by)]
    BY DEF Nested, NestsTables, Nests
  <1>2. NestsTables(by, pairs, f, Len(by))
    BY NestsExist
  <1> QED BY <1>1, <1>2

-----------------------------------------------------------------------------
(* Values: what is appended is the encoding of the tree.                   *)
PutsEach(calls, vis, xs, n, E) ==
  /\ n \in Nat /\ Len(xs) = n /\ E \in [1..n -> Seq(Byte)]
  /\ \A s \in States, j \in 1..n : s.visited = vis => calls[<<s, xs[j]>>] = Put(s, E[j])

LEMMA EachPuts ==
  ASSUME NEW calls, NEW st \in States, NEW xs, NEW n, NEW E, PutsEach(calls, st.visited, xs, n, E)
  PROVE  Each(calls, st, xs) = Put(st, FlattenSeq(E)) /\ FlattenSeq(E) \in Seq(Byte)
  <1> DEFINE g == [k \in 0..n |-> Put(st, FlattenSeq(First(E, k)))]
  <1>1. /\ n \in Nat /\ Len(xs) = n /\ E \in [1..n -> Seq(Byte)]
        /\ \A s \in States, j \in 1..n : s.visited = st.visited => calls[<<s, xs[j]>>] = Put(s, E[j])
    BY DEF PutsEach
  <1>2. g[0] = st
    <2>1. FlattenSeq(First(E, 0)) = << >>
      BY <1>1, FlattenEnds
    <2>2. g[0] = Put(st, << >>)
      BY <1>1, <2>1
    <2> QED BY <2>2, PutNothing
  <1>3. ASSUME NEW k \in 1..n PROVE calls[<<g[k - 1], xs[k]>>] = g[k]
    <2> DEFINE h == k - 1  x == FlattenSeq(First(E, h))  y == E[k]
    <2>1. h \in 0..n /\ h # n /\ h + 1 = k /\ k \in 0..n
      BY <1>1
    <2>2. g[h] = Put(st, x) /\ g[k] = Put(st, FlattenSeq(First(E, k)))
      BY <2>1
    <2>3. y \in Seq(Byte)
      BY <1>1
    <2> HIDE DEF h, g
    <2>4. x \in Seq(Byte) /\ FlattenSeq(First(E, h + 1)) = x \o E[h + 1]
      BY <1>1, <2>1, FlattenFirst, FlattenMore
    <2> HIDE DEF x, y
    <2>5. FlattenSeq(First(E, k)) = x \o y
      BY <2>1, <2>4 DEF y
    <2>6. Put(st, x) \in States /\ Put(st, x).visited = st.visited
      BY <2>4, PutIs
    <2>7. calls[<<Put(st, x), xs[k]>>] = Put(Put(st, x), y)
      BY <1>1, <2>6 DEF y
    <2>8. Put(Put(st, x), y) = Put(st, x \o y)
      BY <2>3, <2>4, PutPut
    <2> QED BY <2>2, <2>5, <2>7, <2>8 DEF h
  <1>4. g[n] = Put(st, FlattenSeq(E))
    <2>1. First(E, n) = E /\ n \in 0..n
      BY <1>1, FlattenEnds
    <2> QED BY <2>1
  <1> HIDE DEF g
  <1>5. Each(calls, st, xs) = g[n]
    <2>1. Len(xs) \in Nat /\ \A k \in 1..Len(xs) : calls[<<g[k - 1], xs[k]>>] = g[k]
      BY <1>1, <1>3
    <2>2. Each(calls, st, xs) = g[Len(xs)]
      BY <1>2, <2>1, EachIs
    <2> QED BY <1>1, <2>2
  <1>6. FlattenSeq(E) \in Seq(Byte)
    BY <1>1, FlattenTyped
  <1> QED BY <1>4, <1>5, <1>6

(* Its like for attributes. *)
AddsEach(calls, xs, n, E) ==
  /\ n \in Nat /\ Len(xs) = n /\ E \in [1..n -> Seq(Byte)]
  /\ \A s \in Seq(Byte), j \in 1..n : calls[<<s, xs[j]>>] = s \o E[j]

LEMMA EachAdds ==
  ASSUME NEW calls, NEW st \in Seq(Byte), NEW xs, NEW n, NEW E, AddsEach(calls, xs, n, E)
  PROVE  Each(calls, st, xs) = st \o FlattenSeq(E) /\ FlattenSeq(E) \in Seq(Byte)
  <1> DEFINE g == [k \in 0..n |-> st \o FlattenSeq(First(E, k))]
  <1>1. /\ n \in Nat /\ Len(xs) = n /\ E \in [1..n -> Seq(Byte)]
        /\ \A s \in Seq(Byte), j \in 1..n : calls[<<s, xs[j]>>] = s \o E[j]
    BY DEF AddsEach
  <1>2. g[0] = st
    <2>1. FlattenSeq(First(E, 0)) = << >>
      BY <1>1, FlattenEnds
    <2>2. g[0] = st \o << >>
      BY <1>1, <2>1
    <2> QED BY <2>2, ConcatEmptySeq
  <1>3. ASSUME NEW k \in 1..n PROVE calls[<<g[k - 1], xs[k]>>] = g[k]
    <2> DEFINE h == k - 1  x == FlattenSeq(First(E, h))  y == E[k]
    <2>1. h \in 0..n /\ h # n /\ h + 1 = k /\ k \in 0..n
      BY <1>1
    <2>2. g[h] = st \o x /\ g[k] = st \o FlattenSeq(First(E, k))
      BY <2>1
    <2>3. y \in Seq(Byte)
      BY <1>1
    <2> HIDE DEF h, g
    <2>4. x \in Seq(Byte) /\ FlattenSeq(First(E, h + 1)) = x \o E[h + 1]
      <3>1. x \in Seq(Byte)
        BY <1>1, <2>1, FlattenFirst
      <3>2. FlattenSeq(First(E, h + 1)) = x \o E[h + 1]
        BY <1>1, <2>1, FlattenMore, Zenon
      <3> QED BY <3>1, <3>2
    <2> HIDE DEF x, y
    <2>5. FlattenSeq(First(E, k)) = x \o y
      BY <2>1, <2>4 DEF y
    <2>6. st \o x \in Seq(Byte)
      <3>1. ThreeBytes(st, x, y)
        BY <2>3, <2>4 DEF ThreeBytes
      <3> QED BY <3>1, Regrouped
    <2>7. calls[<<st \o x, xs[k]>>] = (st \o x) \o y
      BY <1>1, <2>6 DEF y
    <2>8. (st \o x) \o y = st \o (x \o y)
      <3>1. ThreeBytes(st, x, y)
        BY <2>3, <2>4 DEF ThreeBytes
      <3> QED BY <3>1, Regrouped
    <2> QED BY <2>2, <2>5, <2>7, <2>8 DEF h
  <1>4. g[n] = st \o FlattenSeq(E)
    <2>1. First(E, n) = E /\ n \in 0..n
      BY <1>1, FlattenEnds
    <2> QED BY <2>1
  <1> HIDE DEF g
  <1>5. Each(calls, st, xs) = g[n]
    <2>1. Len(xs) \in Nat /\ \A k \in 1..Len(xs) : calls[<<g[k - 1], xs[k]>>] = g[k]
      BY <1>1, <1>3
    <2>2. Each(calls, st, xs) = g[Len(xs)]
      BY <1>2, <2>1, EachIs
    <2> QED BY <1>1, <2>2
  <1>6. FlattenSeq(E) \in Seq(Byte)
    BY <1>1, FlattenTyped
  <1> QED BY <1>4, <1>5, <1>6

Kinds == {"value", "fields", "nothing"}
GoField == [name : Nat, opt : Opts, v : GoValues]

(* What a Go value is made of. *)
LEMMA GoValueIs ==
  ASSUME NEW v \in GoValues
  PROVE  /\ v.k = "ptr" => v.at \in Nat /\ v.to \in DOMAIN Heap /\ Heap[v.to] \in GoValues
         /\ v.k \in {"list", "gomap"} => v.vs \in Seq(GoValues)
         /\ v.k = "struct" => v.fs \in Seq(GoField)
         /\ v.k \notin {"nil", "func", "ptr", "list", "gomap", "struct"} => v \in Values
  <1>1. \/ v \in Values \/ v.k \in {"nil", "func"}
        \/ v.k = "ptr" /\ v.at \in Nat /\ v.to \in DOMAIN Heap /\ Heap[v.to] \in GoValues
        \/ v.k \in {"list", "gomap"} /\ v.vs \in Seq(GoValues)
        \/ v.k = "struct" /\ v.fs \in Seq(GoField)
    BY GoValuesAssumption DEF GoField
  <1>2. v \in Values => v.k \in {"int", "bytes", "str", "special", "label", "array", "map"}
    BY ValueInside DEF Scalars
  <1> QED BY <1>1, <1>2

LEMMA PartKinds ==
  ASSUME NEW f
  PROVE  /\ Part(f) \in Kinds
         /\ Part(f) = "fields" => f.v.k = "struct"
  BY DEF Part, Kinds

TreeAt(d, v, inside, part) == Trees[d][<<v, inside, part>>]

LEMMA TreeIs ==
  ASSUME NEW d \in 0..MaxDepth, NEW v \in GoValues, NEW inside \in Insides, NEW part \in Kinds
  PROVE  TreeAt(d, v, inside, part) =
           IF d = 0 \/ part = "nothing" THEN << >>
           ELSE IF part = "fields" THEN FieldTrees(Trees[d - 1], v, inside)
           ELSE TreeStep(Trees[d - 1], v, inside)
  <1>1. <<v, inside, part>> \in GoValues \X Insides \X {"value", "fields", "nothing"}
    BY DEF Kinds
  <1>2. Trees[d] = Grown(d, Trees[d - 1])
    BY GrownAre
  <1>3. Grown(d, Trees[d - 1])[<<v, inside, part>>] =
           IF d = 0 \/ part = "nothing" THEN << >>
           ELSE IF part = "fields" THEN FieldTrees(Trees[d - 1], v, inside)
           ELSE TreeStep(Trees[d - 1], v, inside)
    BY <1>1 DEF Grown
  <1> QED BY <1>2, <1>3 DEF TreeAt

LEMMA RawIs ==
  ASSUME NEW d \in 0..MaxDepth, NEW st \in States, NEW front \in Seq(Byte), NEW v \in GoValues,
         NEW part \in Kinds
  PROVE  AppendRaw[d][<<st, <<front, v, part>>>>] =
           IF d = 0 \/ part = "nothing" THEN Put(st, front)
           ELSE IF part = "fields" THEN Fields(AppendRaw[d - 1], Put(st, front), v)
           ELSE AppendStep(AppendRaw[d - 1], Put(st, front), v)
  <1> DEFINE at == <<st, <<front, v, part>>>>
  <1>1. at \in States \X Items /\ at[1] = st /\ at[2][1] = front /\ at[2][2] = v /\ at[2][3] = part
    BY DEF Items, Kinds
  <1> HIDE DEF at
  <1>2. AppendRaw[d] = Raws(d, AppendRaw[d - 1])
    BY RawsAre
  <1>3. Raws(d, AppendRaw[d - 1])[at] =
          IF d = 0 \/ at[2][3] = "nothing" THEN Put(at[1], at[2][1])
          ELSE IF at[2][3] = "fields" THEN Fields(AppendRaw[d - 1], Put(at[1], at[2][1]), at[2][2])
          ELSE AppendStep(AppendRaw[d - 1], Put(at[1], at[2][1]), at[2][2])
    BY <1>1 DEF Raws
  <1>4. AppendRaw[d][at] =
           IF d = 0 \/ part = "nothing" THEN Put(st, front)
           ELSE IF part = "fields" THEN Fields(AppendRaw[d - 1], Put(st, front), v)
           ELSE AppendStep(AppendRaw[d - 1], Put(st, front), v)
    BY <1>1, <1>2, <1>3
  <1> QED BY <1>4 DEF at

IsApart(d, v, inside) == Apart[d][<<v, inside>>] = TRUE

LEMMA ApartIs ==
  ASSUME NEW d \in 0..MaxDepth, NEW v \in GoValues, NEW inside \in Insides
  PROVE  IsApart(d, v, inside) <=> d # 0 /\ ApartStep(Apart[d - 1], v, inside)
  <1>1. Apart[d] = Aparts(d, Apart[d - 1])
    BY ApartsAre
  <1>2. Aparts(d, Apart[d - 1])[<<v, inside>>] = (d # 0 /\ ApartStep(Apart[d - 1], v, inside))
    BY DEF Aparts
  <1>3. Apart[d][<<v, inside>>] = (d # 0 /\ ApartStep(Apart[d - 1], v, inside))
    BY <1>1, <1>2
  <1> QED BY <1>3 DEF IsApart

LEMMA ApartTrue ==
  ASSUME NEW d \in 0..MaxDepth, NEW v \in GoValues, NEW inside \in Insides, Apart[d][<<v, inside>>]
  PROVE  IsApart(d, v, inside)
  <1>1. Apart[d] = Aparts(d, Apart[d - 1])
    BY ApartsAre
  <1>2. Aparts(d, Apart[d - 1])[<<v, inside>>] = (d # 0 /\ ApartStep(Apart[d - 1], v, inside))
    BY DEF Aparts
  <1>3. Apart[d][<<v, inside>>] = (d # 0 /\ ApartStep(Apart[d - 1], v, inside))
    BY <1>1, <1>2
  <1> QED BY <1>3 DEF IsApart

LEMMA FieldsApart ==
  ASSUME NEW d \in 0..MaxDepth, NEW v \in GoValues, v.k = "struct", NEW inside \in Insides,
         ApartStep(Apart[d], v, inside), NEW j \in DOMAIN v.fs, Part(v.fs[j]) # "nothing"
  PROVE  IsApart(d, v.fs[j].v, inside)
  <1> DEFINE x == v.fs[j].v
  <1>1. Apart[d][<<x, inside>>]
    BY DEF ApartStep
  <1>2. x \in GoValues
    <2>1. v.fs \in Seq(GoField)
      BY GoValueIs
    <2>2. v.fs[j] \in GoField
      BY <2>1, LenProperties, ElementOfSeq
    <2> QED BY <2>2 DEF GoField
  <1> HIDE DEF x
  <1>3. IsApart(d, x, inside)
    BY <1>1, <1>2, ApartTrue
  <1> QED BY <1>3 DEF x

Ats(inside) == {q[1] : q \in inside}
Told(part, t) == IF part = "value" THEN Enc(t) ELSE IF part = "fields" THEN Stream(t) ELSE << >>
Asked(d, v, inside, part) ==
  /\ part = "fields" => v.k = "struct"
  /\ part # "nothing" => IsApart(d, v, inside)
  /\ part = "value" => TreeAt(d, v, inside, part) \in Values
  /\ part = "fields" => TreeAt(d, v, inside, part) \in Seq(Values)

(* The claim about the calls of one level. *)
Level(d) ==
  \A v \in GoValues, inside \in Insides, part \in Kinds, st \in States, front \in Seq(Byte) :
    st.visited = Ats(inside) /\ Asked(d, v, inside, part) =>
      AppendRaw[d][<<st, <<front, v, part>>>>] = Put(st, front \o Told(part, TreeAt(d, v, inside, part)))

LEMMA LevelSays ==
  ASSUME NEW d, Level(d), NEW v \in GoValues, NEW inside \in Insides, NEW part \in Kinds,
         NEW st \in States, NEW front \in Seq(Byte), st.visited = Ats(inside), Asked(d, v, inside, part)
  PROVE  AppendRaw[d][<<st, <<front, v, part>>>>] = Put(st, front \o Told(part, TreeAt(d, v, inside, part)))
  BY DEF Level

(* A field, and the pairs of it. *)
FrontOf(f) == IF Part(f) = "value" THEN Key(f.name) \o IF f.opt = "hex" THEN Size("label", 1) ELSE << >> ELSE << >>
PieceOf(d, f, inside) ==
  LET t == TreeAt(d, f.v, inside, Part(f)) IN
  IF Part(f) = "value" THEN <<Str(f.name), IF f.opt = "hex" THEN Tagged(t) ELSE t>> ELSE t

LEMMA FieldIs ==
  ASSUME NEW f
  PROVE  Field(f) = <<FrontOf(f), f.v, Part(f)>>
  BY DEF Field, FrontOf

LEMMA TwoInside ==
  ASSUME NEW S, NEW x, NEW y, <<x, y>> \in Seq(S)
  PROVE  x \in S /\ y \in S
  <1> DEFINE s == <<x, y>>
  <1>1. s \in Seq(S) /\ Len(s) = 2 /\ s[1] = x /\ s[2] = y
    OBVIOUS
  <1> HIDE DEF s
  <1>2. 1 \in 1..Len(s) /\ 2 \in 1..Len(s)
    BY <1>1
  <1>3. s[1] \in S /\ s[2] \in S
    BY <1>1, <1>2, ElementOfSeq
  <1> QED BY <1>1, <1>3

LEMMA FieldLevel ==
  ASSUME NEW d \in 0..MaxDepth, Level(d), NEW f \in GoField, NEW inside \in Insides, NEW st \in States,
         st.visited = Ats(inside), Part(f) # "nothing" => IsApart(d, f.v, inside),
         PieceOf(d, f, inside) \in Seq(Values)
  PROVE  AppendRaw[d][<<st, Field(f)>>] = Put(st, Stream(PieceOf(d, f, inside)))
  <1> DEFINE part == Part(f)  t == TreeAt(d, f.v, inside, part)  v == f.v
  <1>1. v \in GoValues /\ part \in Kinds /\ (part = "fields" => v.k = "struct")
    BY PartKinds DEF GoField
  <1>2. Field(f) = <<FrontOf(f), v, part>>
    BY FieldIs
  <1>3. CASE part = "value" /\ f.opt = "hex"
    <2> DEFINE key == Key(f.name)  tag == Size("label", 1)
    <2>1. PieceOf(d, f, inside) = <<Str(f.name), Tagged(t)>> /\ FrontOf(f) = key \o tag
      BY <1>3 DEF PieceOf, FrontOf
    <2>2. Str(f.name) \in Values /\ Tagged(t) \in Values
      BY <2>1, TwoInside
    <2>3. t \in Values /\ Enc(Tagged(t)) = tag \o Enc(t) /\ tag \in Seq(Byte)
      BY <2>2, LabelInside
    <2>4. Stream(PieceOf(d, f, inside)) = key \o Enc(Tagged(t))
      BY <2>1, <2>2, StreamPair DEF Key
    <2>5. key \in Seq(Byte) /\ Enc(t) \in Seq(Byte)
      BY <2>2, <2>3, EncGood DEF Good, Key
    <2>6. Asked(d, v, inside, part)
      BY <1>1, <1>3, <2>3 DEF Asked
    <2>7. Told(part, t) = Enc(t)
      BY <1>3 DEF Told
    <2> DEFINE e == Enc(t)
    <2> HIDE DEF part, t, v, key, tag, e
    <2>8. key \o tag \in Seq(Byte) /\ (key \o tag) \o e = key \o (tag \o e)
      <3>1. ThreeBytes(key, tag, e)
        BY <2>3, <2>5 DEF e, ThreeBytes
      <3> QED BY <3>1, Regrouped
    <2>9. AppendRaw[d][<<st, <<key \o tag, v, part>>>>] = Put(st, (key \o tag) \o Told(part, TreeAt(d, v, inside, part)))
      BY <1>1, <2>6, <2>8, LevelSays
    <2> QED BY <1>2, <2>1, <2>3, <2>4, <2>7, <2>8, <2>9 DEF t, v, e
  <1>4. CASE part = "value" /\ f.opt # "hex"
    <2> DEFINE key == Key(f.name)
    <2>1. PieceOf(d, f, inside) = <<Str(f.name), t>> /\ FrontOf(f) = key \o << >>
      BY <1>4 DEF PieceOf, FrontOf
    <2>2. Str(f.name) \in Values /\ t \in Values
      BY <2>1, TwoInside
    <2>3. Stream(PieceOf(d, f, inside)) = key \o Enc(t)
      BY <2>1, <2>2, StreamPair DEF Key
    <2>4. key \in Seq(Byte)
      BY <2>2, EncGood DEF Good, Key
    <2>5. key \o << >> = key
      BY <2>4, ConcatEmptySeq
    <2>6. Asked(d, v, inside, part)
      BY <1>1, <1>4, <2>2 DEF Asked
    <2>7. Told(part, t) = Enc(t)
      BY <1>4 DEF Told
    <2> HIDE DEF part, t, v, key
    <2>8. AppendRaw[d][<<st, <<key, v, part>>>>] = Put(st, key \o Told(part, TreeAt(d, v, inside, part)))
      BY <1>1, <2>4, <2>6, LevelSays
    <2> QED BY <1>2, <2>1, <2>3, <2>5, <2>7, <2>8 DEF t, v
  <1>5. CASE part # "value"
    <2>1. PieceOf(d, f, inside) = t /\ FrontOf(f) = << >>
      BY <1>5 DEF PieceOf, FrontOf
    <2>2. Asked(d, v, inside, part)
      BY <1>1, <1>5, <2>1 DEF Asked
    <2>3. Told(part, t) = Stream(t) /\ Stream(t) \in Seq(Byte)
      <3>1. CASE part = "fields"
        BY <2>1, <3>1, StreamTyped DEF Told
      <3>2. CASE part = "nothing"
        <4>1. t = << >>
          BY <1>1, <3>2, TreeIs
        <4>2. Told(part, t) = << >>
          BY <3>2 DEF Told
        <4> QED BY <4>1, <4>2, StreamNone, EmptySeq
      <3> QED BY <1>1, <1>5, <3>1, <3>2 DEF Kinds
    <2> DEFINE none == << >>
    <2>4. none \in Seq(Byte)
      BY EmptySeq
    <2>5. none \o Stream(t) = Stream(t)
      BY <2>3, ConcatEmptySeq
    <2> HIDE DEF part, t, v, none
    <2>6. AppendRaw[d][<<st, <<none, v, part>>>>] = Put(st, none \o Told(part, TreeAt(d, v, inside, part)))
      BY <1>1, <2>2, <2>4, LevelSays
    <2> QED BY <1>2, <2>1, <2>3, <2>5, <2>6 DEF t, v, none
  <1> QED BY <1>3, <1>4, <1>5

Pieces(d, v, inside) == [j \in DOMAIN v.fs |-> PieceOf(d, v.fs[j], inside)]

LEMMA FieldTreesAre ==
  ASSUME NEW d, NEW v, NEW inside
  PROVE  FieldTrees(Trees[d], v, inside) = FlattenSeq(Pieces(d, v, inside))
  BY DEF FieldTrees, Pieces, PieceOf, TreeAt

SeqLevel(d) == \A f \in GoField, inside \in Insides : IsSeq(PieceOf(d, f, inside))

LEMMA TwoIsSeq == ASSUME NEW x, NEW y PROVE IsSeq(<<x, y>>)
  <1>1. <<x, y>> \in Seq({x, y})
    OBVIOUS
  <1> QED BY <1>1 DEF IsSeq

LEMMA NoneIsSeq == IsSeq(<< >>)
  <1>1. << >> \in Seq({})
    OBVIOUS
  <1> QED BY <1>1 DEF IsSeq

LEMMA PiecesFlat ==
  ASSUME NEW d, SeqLevel(d), NEW v \in GoValues, v.k = "struct", NEW inside \in Insides
  PROVE  /\ IsSeq(FlattenSeq(Pieces(d, v, inside)))
         /\ Len(v.fs) \in Nat /\ DOMAIN v.fs = 1..Len(v.fs) /\ \A j \in 1..Len(v.fs) : v.fs[j] \in GoField
         /\ \E S : Pieces(d, v, inside) \in [1..Len(v.fs) -> Seq(S)]
  <1> DEFINE n == Len(v.fs)  F == Pieces(d, v, inside)
  <1>1. v.fs \in Seq(GoField)
    BY GoValueIs
  <1>2. n \in Nat /\ DOMAIN v.fs = 1..n /\ \A j \in 1..n : v.fs[j] \in GoField
    BY <1>1, LenProperties, ElementOfSeq
  <1>3. DOMAIN F = 1..n /\ F = [j \in DOMAIN F |-> F[j]] /\ \A j \in 1..n : F[j] = PieceOf(d, v.fs[j], inside)
    BY <1>2 DEF Pieces
  <1> HIDE DEF F, n
  <1>4. \A j \in 1..n : IsSeq(F[j])
    BY <1>2, <1>3 DEF SeqLevel
  <1>5. IsSeq(FlattenSeq(F))
    BY <1>2, <1>3, <1>4, FlattenIsSeq
  <1>6. \E S : F \in [1..n -> Seq(S)]
    BY <1>2, <1>3, <1>4, SeqsAlike
  <1> QED BY <1>2, <1>5, <1>6 DEF F, n

LEMMA SeqLevels == \A d \in 0..MaxDepth : SeqLevel(d)
  <1> DEFINE T == {d \in 0..MaxDepth : ~SeqLevel(d)}
  <1>1. ASSUME T # {} PROVE FALSE
    <2>1. PICK x \in T : \A y \in T : x <= y
      <3>1. T \subseteq Nat
        BY DepthAssumption
      <3> HIDE DEF T
      <3> QED BY <1>1, <3>1, SmallestExists
    <2>2. x \in 0..MaxDepth /\ ~SeqLevel(x)
      BY <2>1
    <2>3. PICK f \in GoField, inside \in Insides : ~IsSeq(PieceOf(x, f, inside))
      BY <2>2 DEF SeqLevel
    <2> DEFINE part == Part(f)  t == TreeAt(x, f.v, inside, part)
    <2>4. f.v \in GoValues /\ part \in Kinds /\ (part = "fields" => f.v.k = "struct")
      BY PartKinds DEF GoField
    <2>5. part # "value" /\ ~IsSeq(t)
      <3>1. CASE part = "value"
        <4>1. \E y : PieceOf(x, f, inside) = <<Str(f.name), y>>
          BY <3>1 DEF PieceOf
        <4> QED BY <2>3, <4>1, TwoIsSeq
      <3>2. CASE part # "value"
        BY <2>3, <3>2 DEF PieceOf
      <3> QED BY <3>1, <3>2
    <2>6. t = IF x = 0 \/ part = "nothing" THEN << >> ELSE FieldTrees(Trees[x - 1], f.v, inside)
      <3> HIDE DEF part
      <3>1. TreeAt(x, f.v, inside, part) =
              IF x = 0 \/ part = "nothing" THEN << >>
              ELSE IF part = "fields" THEN FieldTrees(Trees[x - 1], f.v, inside)
              ELSE TreeStep(Trees[x - 1], f.v, inside)
        BY <2>2, <2>4, TreeIs
      <3>2. part \in {"fields", "nothing"}
        BY <2>4, <2>5 DEF Kinds
      <3> QED BY <3>1, <3>2
    <2>7. x # 0 /\ part # "nothing"
      <3> HIDE DEF part, t
      <3> QED BY <2>5, <2>6, NoneIsSeq
    <2>8. x - 1 \in 0..MaxDepth /\ ~(x <= x - 1)
      BY <2>2, <2>7, DepthAssumption
    <2>9. SeqLevel(x - 1)
      BY <2>1, <2>8
    <2>10. part = "fields"
      BY <2>4, <2>5, <2>7 DEF Kinds
    <2>11. t = FlattenSeq(Pieces(x - 1, f.v, inside))
      <3> HIDE DEF part, t
      <3> QED BY <2>6, <2>7, FieldTreesAre
    <2>12. IsSeq(FlattenSeq(Pieces(x - 1, f.v, inside)))
      <3> DEFINE d == x - 1  v == f.v
      <3>1. SeqLevel(d) /\ v \in GoValues /\ v.k = "struct"
        BY <2>4, <2>9, <2>10
      <3> HIDE DEF d, v
      <3>2. IsSeq(FlattenSeq(Pieces(d, v, inside)))
        BY <3>1, PiecesFlat
      <3> QED BY <3>2 DEF d, v
    <2> HIDE DEF t
    <2> QED BY <2>5, <2>11, <2>12
  <1> QED BY <1>1

LEMMA FieldsLevel ==
  ASSUME NEW d \in 0..MaxDepth, Level(d), NEW v \in GoValues, v.k = "struct", NEW inside \in Insides,
         NEW st \in States, st.visited = Ats(inside),
         \A j \in DOMAIN v.fs : Part(v.fs[j]) # "nothing" => IsApart(d, v.fs[j].v, inside),
         FieldTrees(Trees[d], v, inside) \in Seq(Values)
  PROVE  Fields(AppendRaw[d], st, v) = Put(st, Stream(FieldTrees(Trees[d], v, inside)))
  <1> DEFINE n == Len(v.fs)  F == Pieces(d, v, inside)  E == [j \in 1..n |-> Stream(F[j])]
             xs == [j \in DOMAIN v.fs |-> Field(v.fs[j])]
  <1>1. SeqLevel(d)
    BY SeqLevels
  <1>2. /\ n \in Nat /\ DOMAIN v.fs = 1..n /\ \A j \in 1..n : v.fs[j] \in GoField
        /\ \E S : F \in [1..n -> Seq(S)]
    BY <1>1, PiecesFlat
  <1>3. \A j \in 1..n : F[j] = PieceOf(d, v.fs[j], inside)
    BY <1>2 DEF Pieces
  <1>4. FieldTrees(Trees[d], v, inside) = FlattenSeq(F) /\ FlattenSeq(F) \in Seq(Values)
    BY FieldTreesAre
  <1>5. xs \in [1..n -> {Field(v.fs[j]) : j \in DOMAIN v.fs}] /\ \A j \in 1..n : xs[j] = Field(v.fs[j])
    BY <1>2
  <1>6. Len(xs) = n
    <2> HIDE DEF xs, n
    <2> QED BY <1>2, <1>5, OfLength
  <1>7. Fields(AppendRaw[d], st, v) = Each(AppendRaw[d], st, xs)
    BY DEF Fields
  <1> HIDE DEF F, n, xs
  <1>8. \A j \in 1..n : F[j] \in Seq(Values)
    <2>1. PICK S : F \in [1..n -> Seq(S)]
      BY <1>2
    <2> QED BY <1>2, <1>4, <2>1, FlattenParts
  <1>9. F \in [1..n -> Seq(Values)]
    BY <1>2, <1>8
  <1>10. Stream(FlattenSeq(F)) = FlattenSeq(E)
    BY <1>2, <1>9, StreamFlat
  <1>11. E \in [1..n -> Seq(Byte)] /\ \A j \in 1..n : E[j] = Stream(F[j])
    BY <1>8, StreamTyped
  <1> HIDE DEF E
  <1>12. ASSUME NEW s \in States, NEW j \in 1..n, s.visited = st.visited
         PROVE  AppendRaw[d][<<s, xs[j]>>] = Put(s, E[j])
    <2> DEFINE f == v.fs[j]
    <2>1. /\ f \in GoField /\ (Part(f) # "nothing" => IsApart(d, f.v, inside))
          /\ PieceOf(d, f, inside) \in Seq(Values) /\ s.visited = Ats(inside)
      BY <1>2, <1>3, <1>8, <1>12
    <2>2. xs[j] = Field(f) /\ E[j] = Stream(PieceOf(d, f, inside))
      BY <1>3, <1>5, <1>11
    <2> HIDE DEF f
    <2>3. AppendRaw[d][<<s, Field(f)>>] = Put(s, Stream(PieceOf(d, f, inside)))
      BY <2>1, FieldLevel
    <2> QED BY <2>2, <2>3
  <1>13. PutsEach(AppendRaw[d], st.visited, xs, n, E)
    BY <1>2, <1>6, <1>11, <1>12 DEF PutsEach
  <1>14. Each(AppendRaw[d], st, xs) = Put(st, FlattenSeq(E))
    <2> DEFINE calls == AppendRaw[d]
    <2>1. PutsEach(calls, st.visited, xs, n, E)
      BY <1>13
    <2> HIDE DEF calls
    <2>2. Each(calls, st, xs) = Put(st, FlattenSeq(E))
      BY <2>1, EachPuts
    <2> QED BY <2>2 DEF calls
  <1> QED BY <1>4, <1>7, <1>10, <1>14

Trees1(d, v, inside) == [j \in DOMAIN v.vs |-> TreeAt(d, v.vs[j], inside, "value")]

LEMMA ElemsLevel ==
  ASSUME NEW d \in 0..MaxDepth, Level(d), NEW v \in GoValues, v.k \in {"list", "gomap"}, NEW inside \in Insides,
         NEW st \in States, st.visited = Ats(inside),
         \A j \in DOMAIN v.vs : IsApart(d, v.vs[j], inside),
         Trees1(d, v, inside) \in Seq(Values)
  PROVE  /\ Each(AppendRaw[d], st, [j \in DOMAIN v.vs |-> Item(v.vs[j])]) = Put(st, Stream(Trees1(d, v, inside)))
         /\ Len(Trees1(d, v, inside)) = Len(v.vs) /\ Len(v.vs) \in Nat
  <1> DEFINE n == Len(v.vs)  F == Trees1(d, v, inside)  E == Encs(F)
             xs == [j \in DOMAIN v.vs |-> Item(v.vs[j])]
  <1>1. n \in Nat /\ DOMAIN v.vs = 1..n /\ \A j \in 1..n : v.vs[j] \in GoValues
    <2>1. v.vs \in Seq(GoValues)
      BY GoValueIs
    <2> QED BY <2>1, LenProperties, ElementOfSeq
  <1>2. DOMAIN F = 1..n /\ \A j \in 1..n : F[j] = TreeAt(d, v.vs[j], inside, "value")
    BY <1>1 DEF Trees1
  <1>3. xs \in [1..n -> {Item(v.vs[j]) : j \in DOMAIN v.vs}] /\ \A j \in 1..n : xs[j] = Item(v.vs[j])
    BY <1>1
  <1>4. Len(xs) = n
    <2> HIDE DEF xs, n
    <2> QED BY <1>1, <1>3, OfLength
  <1> HIDE DEF F, n, xs
  <1>5. F \in Seq(Values) /\ Len(F) = n
    <2>1. F \in Seq(Values)
      BY DEF F
    <2>2. Len(F) \in Nat /\ DOMAIN F = 1..Len(F)
      BY <2>1, LenProperties
    <2> QED BY <1>1, <1>2, <2>1, <2>2
  <1>6. /\ E \in [1..n -> Seq(Byte)] /\ Stream(F) = FlattenSeq(E)
        /\ \A j \in 1..n : E[j] = Enc(F[j])
    BY <1>5, EncsTyped
  <1>7. \A j \in 1..n : F[j] \in Values /\ Enc(F[j]) \in Seq(Byte)
    BY <1>5, ElementOfSeq, EncGood DEF Good
  <1> HIDE DEF E
  <1>8. ASSUME NEW s \in States, NEW j \in 1..n, s.visited = st.visited
        PROVE  AppendRaw[d][<<s, xs[j]>>] = Put(s, E[j])
    <2> DEFINE x == v.vs[j]  none == << >>  part == "value"  t == TreeAt(d, x, inside, part)
    <2>1. x \in GoValues /\ IsApart(d, x, inside) /\ none \in Seq(Byte) /\ part \in Kinds /\ s.visited = Ats(inside)
      BY <1>1, <1>8, EmptySeq DEF Kinds
    <2>2. xs[j] = <<none, x, part>>
      BY <1>3 DEF Item
    <2>3. t = F[j]
      BY <1>2
    <2>4. Asked(d, x, inside, part) /\ Told(part, t) = Enc(t)
      BY <1>7, <2>1, <2>3 DEF Asked, Told
    <2>5. none \o Enc(t) = Enc(t)
      BY <1>7, <2>3, ConcatEmptySeq
    <2> HIDE DEF x, none, part
    <2>6. AppendRaw[d][<<s, <<none, x, part>>>>] = Put(s, none \o Told(part, TreeAt(d, x, inside, part)))
      BY <2>1, <2>4, LevelSays
    <2> QED BY <1>6, <2>2, <2>3, <2>4, <2>5, <2>6
  <1>9. PutsEach(AppendRaw[d], st.visited, xs, n, E)
    BY <1>1, <1>4, <1>6, <1>8 DEF PutsEach
  <1>10. Each(AppendRaw[d], st, xs) = Put(st, FlattenSeq(E))
    <2> DEFINE calls == AppendRaw[d]
    <2>1. PutsEach(calls, st.visited, xs, n, E)
      BY <1>9
    <2> HIDE DEF calls
    <2>2. Each(calls, st, xs) = Put(st, FlattenSeq(E))
      BY <2>1, EachPuts
    <2> QED BY <2>2 DEF calls
  <1>11. Each(AppendRaw[d], st, xs) = Put(st, Stream(F)) /\ Len(F) = n /\ n \in Nat
    BY <1>1, <1>5, <1>6, <1>10
  <1> QED BY <1>11 DEF F, n, xs

LEMMA MarkIs ==
  ASSUME NEW s, Mark(s) \in Values
  PROVE  Enc(Mark(s)) = Special(s)
  <1> DEFINE v == Mark(s)  x == <<"special", s, 0>>
  <1>1. v \in Values /\ v.k = "special" /\ v.s = s /\ v.more = 0
    BY DEF Mark
  <1> HIDE DEF v
  <1>2. v \in Scalars
    BY <1>1, ValueInside
  <1>3. x \in Byte
    <2>1. s \in DOMAIN DecoderLen
      BY <1>1, <1>2 DEF Scalars
    <2>2. s \in Details
      BY <2>1 DEF Details
    <2> QED BY <2>2 DEF Byte
  <1>4. Enc(v) = EncodeStep(Encode, v)
    BY <1>1, EncGood
  <1>5. Enc(v) = <<x>> \o Raw(0)
    BY <1>1, <1>4 DEF EncodeStep
  <1>6. Raw(0) = << >>
    <2>1. Raw(0) \in Seq(Byte) /\ Len(Raw(0)) = 0
      BY RawTyped
    <2> QED BY <2>1, EmptySeq
  <1>7. <<x>> \o << >> = <<x>>
    <2> HIDE DEF x
    <2>1. <<x>> \in Seq(Byte)
      BY <1>3
    <2> QED BY <2>1, ConcatEmptySeq
  <1> QED BY <1>5, <1>6, <1>7 DEF v, Special

LEMMA ListLevel ==
  ASSUME NEW d \in 0..MaxDepth, Level(d), NEW v \in GoValues, v.k \in {"list", "gomap"}, NEW inside \in Insides,
         NEW st \in States, st.visited = Ats(inside),
         ApartStep(Apart[d], v, inside), TreeStep(Trees[d], v, inside) \in Values
  PROVE  AppendStep(AppendRaw[d], st, v) = Put(st, Enc(TreeStep(Trees[d], v, inside)))
  <1> DEFINE t == TreeStep(Trees[d], v, inside)  vs == Trees1(d, v, inside)  n == Len(v.vs)
             xs == [j \in DOMAIN v.vs |-> Item(v.vs[j])]
             head == IF v.k = "list" THEN Size("array", n) ELSE Size("map", n \div 2)
  <1>1. AppendStep(AppendRaw[d], st, v) = Each(AppendRaw[d], Put(st, head), xs)
    BY DEF AppendStep
  <1>2. vs = [j \in DOMAIN v.vs |-> Trees[d][<<v.vs[j], inside, "value">>]]
    BY DEF Trees1, TreeAt
  <1>3. \A j \in DOMAIN v.vs : IsApart(d, v.vs[j], inside)
    <2>1. \A j \in DOMAIN v.vs : Apart[d][<<v.vs[j], inside>>]
      BY DEF ApartStep
    <2>2. \A j \in DOMAIN v.vs : v.vs[j] \in GoValues
      BY GoValueIs, ElementOfSeq, LenProperties
    <2> TAKE j \in DOMAIN v.vs
    <2>3. Apart[d] = Aparts(d, Apart[d - 1])
      BY ApartsAre
    <2>4. Apart[d][<<v.vs[j], inside>>] = (d # 0 /\ ApartStep(Apart[d - 1], v.vs[j], inside))
      <3> DEFINE x == v.vs[j]
      <3>1. x \in GoValues
        BY <2>2
      <3> HIDE DEF x
      <3>2. Aparts(d, Apart[d - 1])[<<x, inside>>] = (d # 0 /\ ApartStep(Apart[d - 1], x, inside))
        BY <3>1 DEF Aparts
      <3> QED BY <2>3, <3>2 DEF x
    <2> QED BY <2>1, <2>4 DEF IsApart
  <1>4. /\ vs \in Seq(Values) /\ head \in Seq(Byte) /\ Enc(t) = head \o Stream(vs)
        /\ Len(vs) = n
    <2>1. Len(vs) = n
      <3>1. v.vs \in Seq(GoValues)
        BY GoValueIs
      <3>2. n \in Nat /\ DOMAIN v.vs = 1..n
        BY <3>1, LenProperties
      <3>3. vs \in [1..n -> {vs[j] : j \in 1..n}]
        BY <3>2 DEF Trees1
      <3> HIDE DEF vs, n
      <3> QED BY <3>2, <3>3, OfLength
    <2>2. CASE v.k = "list"
      <3>1. t = [k |-> "array", open |-> FALSE, vs |-> vs] /\ head = Size("array", n) /\ t \in Values
        BY <1>2, <2>2 DEF TreeStep
      <3> HIDE DEF t, vs, n, head
      <3>2. vs \in Seq(Values) /\ Enc(t) = Size("array", Len(vs)) \o Stream(vs) /\ Size("array", Len(vs)) \in Seq(Byte)
        BY <3>1, ArrayIs
      <3> QED BY <2>1, <3>1, <3>2
    <2>3. CASE v.k = "gomap"
      <3>1. t = Map(vs, FALSE) /\ head = Size("map", n \div 2) /\ t \in Values
        BY <1>2, <2>3 DEF TreeStep
      <3> HIDE DEF t, vs, n, head
      <3>2. /\ vs \in Seq(Values) /\ Enc(Map(vs, FALSE)) = Size("map", Len(vs) \div 2) \o Stream(vs)
            /\ Size("map", Len(vs) \div 2) \in Seq(Byte)
        BY <3>1, GivenMapIs
      <3> QED BY <2>1, <3>1, <3>2
    <2> QED BY <2>2, <2>3
  <1> HIDE DEF t, head
  <1>5. Put(st, head) \in States /\ Put(st, head).visited = Ats(inside)
    BY <1>4, PutIs
  <1>6. Each(AppendRaw[d], Put(st, head), xs) = Put(Put(st, head), Stream(vs))
    BY <1>3, <1>4, <1>5, ElemsLevel
  <1>7. Stream(vs) \in Seq(Byte)
    BY <1>4, StreamTyped
  <1>8. Put(Put(st, head), Stream(vs)) = Put(st, head \o Stream(vs))
    BY <1>4, <1>7, PutPut
  <1> QED BY <1>1, <1>4, <1>6, <1>8 DEF t

LEMMA StructLevel ==
  ASSUME NEW d \in 0..MaxDepth, Level(d), NEW v \in GoValues, v.k = "struct", NEW inside \in Insides,
         NEW st \in States, st.visited = Ats(inside),
         ApartStep(Apart[d], v, inside), TreeStep(Trees[d], v, inside) \in Values
  PROVE  AppendStep(AppendRaw[d], st, v) = Put(st, Enc(TreeStep(Trees[d], v, inside)))
  <1> DEFINE vs == FieldTrees(Trees[d], v, inside)  end == <<Break>>
  <1>1. AppendStep(AppendRaw[d], st, v) = Put(Fields(AppendRaw[d], Put(st, OpenMap), v), end)
    BY DEF AppendStep
  <1>2. TreeStep(Trees[d], v, inside) = Map(vs, TRUE) /\ Map(vs, TRUE) \in Values
    BY DEF TreeStep
  <1>3. \A j \in DOMAIN v.fs : Part(v.fs[j]) # "nothing" => IsApart(d, v.fs[j].v, inside)
    BY FieldsApart
  <1> HIDE DEF vs
  <1>4. /\ vs \in Seq(Values) /\ Enc(Map(vs, TRUE)) = OpenMap \o Stream(vs) \o end
        /\ OpenMap \in Seq(Byte) /\ end \in Seq(Byte)
    BY <1>2, OpenMapIs
  <1> DEFINE e == Stream(vs)  a == Put(st, OpenMap)
  <1>5. a \in States /\ a.visited = Ats(inside)
    BY <1>4, PutIs
  <1>6. e \in Seq(Byte)
    BY <1>4, StreamTyped
  <1> HIDE DEF a
  <1>7. Fields(AppendRaw[d], a, v) = Put(a, e)
    <2>1. FieldTrees(Trees[d], v, inside) \in Seq(Values)
      BY <1>4 DEF vs
    <2>2. Fields(AppendRaw[d], a, v) = Put(a, Stream(FieldTrees(Trees[d], v, inside)))
      BY <1>3, <1>5, <2>1, FieldsLevel
    <2> QED BY <2>2 DEF vs
  <1> HIDE DEF e, end
  <1>8. Put(Put(a, e), end) = Put(a, e \o end)
    BY <1>4, <1>5, <1>6, PutPut
  <1>9. e \o end \in Seq(Byte)
    BY <1>4, <1>6, ConcatProperties
  <1>10. a = Put(st, OpenMap)
    BY DEF a
  <1>11. Put(a, e \o end) = Put(st, OpenMap \o (e \o end))
    BY <1>4, <1>9, <1>10, PutPut
  <1>12. (OpenMap \o e) \o end = OpenMap \o (e \o end)
    <2>1. ThreeBytes(OpenMap, e, end)
      BY <1>4, <1>6 DEF ThreeBytes
    <2> QED BY <2>1, Regrouped
  <1> QED BY <1>1, <1>2, <1>4, <1>7, <1>8, <1>10, <1>11, <1>12 DEF e

LEMMA ItemLevel ==
  ASSUME NEW d, Level(d), NEW x \in GoValues, NEW inside \in Insides, NEW st \in States,
         st.visited = Ats(inside), IsApart(d, x, inside), TreeAt(d, x, inside, "value") \in Values
  PROVE  AppendRaw[d][<<st, Item(x)>>] = Put(st, Enc(TreeAt(d, x, inside, "value")))
  <1> DEFINE none == << >>  part == "value"  t == TreeAt(d, x, inside, part)
  <1>1. none \in Seq(Byte) /\ part \in Kinds
    BY EmptySeq DEF Kinds
  <1>2. Item(x) = <<none, x, part>>
    BY DEF Item
  <1>3. Asked(d, x, inside, part) /\ Told(part, t) = Enc(t)
    BY DEF Asked, Told
  <1>4. none \o Enc(t) = Enc(t)
    BY EncGood, ConcatEmptySeq DEF Good
  <1> HIDE DEF none, part
  <1>5. AppendRaw[d][<<st, <<none, x, part>>>>] = Put(st, none \o Told(part, TreeAt(d, x, inside, part)))
    BY <1>1, <1>3, LevelSays
  <1> QED BY <1>2, <1>3, <1>4, <1>5 DEF part

LEMMA VisitedIs ==
  ASSUME NEW st \in States, NEW at \in Nat
  PROVE  Visited(st, at) = [b |-> st.b, visited |-> st.visited \union {at}] /\ Visited(st, at) \in States
  <1> DEFINE e == st.visited \union {at}
  <1>1. e \in SUBSET Nat
    BY DEF States
  <1>2. Visited(st, at) = [st EXCEPT !.visited = e]
    BY DEF Visited
  <1> HIDE DEF e
  <1>3. [st EXCEPT !.visited = e] = [b |-> st.b, visited |-> e] /\ st.b \in Seq(Byte)
    BY DEF States
  <1>4. [b |-> st.b, visited |-> e] \in States
    BY <1>1, <1>3 DEF States
  <1> QED BY <1>2, <1>3, <1>4 DEF e

LEMMA AtsMore ==
  ASSUME NEW inside, NEW at, NEW to
  PROVE  Ats(inside \union {<<at, to>>}) = Ats(inside) \union {at}
  <1> DEFINE p == <<at, to>>
  <1>1. p[1] = at
    OBVIOUS
  <1> HIDE DEF p
  <1>2. Ats(inside \union {p}) = Ats(inside) \union {at}
    BY <1>1, Zenon DEF Ats
  <1> QED BY <1>2 DEF p

LEMMA AtsHas ==
  ASSUME NEW inside, NEW at, NEW to, at \notin Ats(inside)
  PROVE  <<at, to>> \notin inside
  <1> DEFINE p == <<at, to>>
  <1>1. p[1] = at
    OBVIOUS
  <1> HIDE DEF p
  <1>2. p \notin inside
    BY <1>1 DEF Ats
  <1> QED BY <1>2 DEF p

LEMMA PtrLevel ==
  ASSUME NEW d \in 0..MaxDepth, Level(d), NEW v \in GoValues, v.k = "ptr", NEW inside \in Insides,
         NEW st \in States, st.visited = Ats(inside),
         ApartStep(Apart[d], v, inside), TreeStep(Trees[d], v, inside) \in Values
  PROVE  AppendStep(AppendRaw[d], st, v) = Put(st, Enc(TreeStep(Trees[d], v, inside)))
  <1> DEFINE at == v.at  to == v.to  x == Heap[to]  in == inside \union {<<at, to>>}
  <1>1. at \in Nat /\ to \in DOMAIN Heap /\ x \in GoValues
    BY GoValueIs
  <1>2. /\ \A q \in inside : q[1] = at <=> q[2] = to
        /\ <<at, to>> \in inside \/ Apart[d][<<x, in>>]
    BY DEF ApartStep
  <1>3. AppendStep(AppendRaw[d], st, v) =
          IF at \in st.visited THEN Put(st, Special("selfref"))
          ELSE Left(AppendRaw[d][<<Visited(st, at), Item(x)>>], at)
    BY DEF AppendStep
  <1>4. TreeStep(Trees[d], v, inside) =
          IF \E q \in inside : q[2] = to THEN Mark("selfref") ELSE TreeAt(d, x, in, "value")
    BY DEF TreeStep, TreeAt
  <1>5. at \in st.visited <=> \E q \in inside : q[2] = to
    BY <1>2 DEF Ats
  <1>6. in \in Insides
    BY <1>1 DEF Insides
  <1> HIDE DEF at, to, x
  <1>7. CASE at \in st.visited
    <2>1. TreeStep(Trees[d], v, inside) = Mark("selfref")
      BY <1>4, <1>5, <1>7
    <2>2. Enc(Mark("selfref")) = Special("selfref")
      BY <2>1, MarkIs
    <2> QED BY <1>3, <1>7, <2>1, <2>2
  <1>8. CASE at \notin st.visited
    <2> DEFINE t == TreeAt(d, x, in, "value")  s == Visited(st, at)  e == Enc(t)
    <2>1. TreeStep(Trees[d], v, inside) = t /\ t \in Values
      BY <1>4, <1>5, <1>8
    <2>2. <<at, to>> \notin inside
      BY <1>8, AtsHas
    <2>3. s = [b |-> st.b, visited |-> st.visited \union {at}] /\ s \in States
      BY <1>1, VisitedIs
    <2>4. s.visited = Ats(in)
      <3>1. Ats(in) = Ats(inside) \union {at}
        BY AtsMore
      <3> HIDE DEF s, in
      <3>2. s.visited = st.visited \union {at}
        BY <2>3
      <3> QED BY <3>1, <3>2
    <2>5. IsApart(d, x, in)
      <3>1. Apart[d][<<x, in>>]
        BY <1>2, <2>2
      <3> HIDE DEF in
      <3> QED BY <1>1, <1>6, <3>1, ApartTrue
    <2> HIDE DEF s, in
    <2>6. AppendRaw[d][<<s, Item(x)>>] = Put(s, e)
      BY <1>1, <1>6, <2>1, <2>3, <2>4, <2>5, ItemLevel
    <2>7. e \in Seq(Byte)
      BY <2>1, EncGood DEF Good
    <2> HIDE DEF e
    <2>8. Put(s, e) = [b |-> st.b \o e, visited |-> st.visited \union {at}]
      <3>1. Put(s, e) = [b |-> s.b \o e, visited |-> s.visited]
        BY <2>3, <2>7, PutMakes
      <3> QED BY <2>3, <3>1
    <2>9. Left(Put(s, e), at) = [b |-> st.b \o e, visited |-> st.visited]
      <3> DEFINE f == st.b \o e
      <3>1. Put(s, e) = [b |-> f, visited |-> st.visited \union {at}]
        BY <2>8
      <3> HIDE DEF f
      <3>2. (st.visited \union {at}) \ {at} = st.visited
        BY <1>8
      <3>3. Left(Put(s, e), at) = [b |-> f, visited |-> (st.visited \union {at}) \ {at}]
        BY <3>1 DEF Left
      <3> QED BY <3>2, <3>3 DEF f
    <2>10. Put(st, e) = [b |-> st.b \o e, visited |-> st.visited]
      BY <2>7, PutMakes
    <2>11. Put(st, e) = Left(AppendRaw[d][<<s, Item(x)>>], at)
      BY <2>6, <2>9, <2>10
    <2>12. AppendStep(AppendRaw[d], st, v) = Put(st, e)
      BY <1>3, <1>8, <2>11 DEF s
    <2> QED BY <2>1, <2>12 DEF e
  <1> QED BY <1>7, <1>8

LEMMA StepLevel ==
  ASSUME NEW d \in 0..MaxDepth, Level(d), NEW v \in GoValues, NEW inside \in Insides,
         NEW st \in States, st.visited = Ats(inside),
         ApartStep(Apart[d], v, inside), TreeStep(Trees[d], v, inside) \in Values
  PROVE  AppendStep(AppendRaw[d], st, v) = Put(st, Enc(TreeStep(Trees[d], v, inside)))
  <1>1. CASE v.k = "nil"
    <2>1. TreeStep(Trees[d], v, inside) = Mark("nil")
      BY <1>1 DEF TreeStep
    <2>2. AppendStep(AppendRaw[d], st, v) = Put(st, Special("nil"))
      BY <1>1 DEF AppendStep
    <2>3. Enc(Mark("nil")) = Special("nil")
      BY <2>1, MarkIs
    <2> QED BY <2>1, <2>2, <2>3
  <1>2. CASE v.k = "func"
    <2>1. TreeStep(Trees[d], v, inside) = Mark("undefined")
      BY <1>2 DEF TreeStep
    <2>2. AppendStep(AppendRaw[d], st, v) = Put(st, Special("undefined"))
      BY <1>2 DEF AppendStep
    <2>3. Enc(Mark("undefined")) = Special("undefined")
      BY <2>1, MarkIs
    <2> QED BY <2>1, <2>2, <2>3
  <1>3. CASE v.k = "ptr"
    BY <1>3, PtrLevel
  <1>4. CASE v.k \in {"list", "gomap"}
    BY <1>4, ListLevel
  <1>5. CASE v.k = "struct"
    BY <1>5, StructLevel
  <1>6. CASE v.k \notin {"nil", "func", "ptr", "list", "gomap", "struct"}
    BY <1>6 DEF AppendStep, TreeStep
  <1> QED BY <1>1, <1>2, <1>3, <1>4, <1>5, <1>6

LEMMA Levels == \A d \in 0..MaxDepth : Level(d)
  <1> DEFINE T == {d \in 0..MaxDepth : ~Level(d)}
  <1>1. ASSUME T # {} PROVE FALSE
    <2>1. PICK d \in T : \A y \in T : d <= y
      <3>1. T \subseteq Nat
        BY DepthAssumption
      <3> HIDE DEF T
      <3> QED BY <1>1, <3>1, SmallestExists
    <2>2. d \in 0..MaxDepth /\ ~Level(d)
      BY <2>1
    <2>3. PICK v \in GoValues, inside \in Insides, part \in Kinds, st \in States, front \in Seq(Byte) :
            /\ st.visited = Ats(inside) /\ Asked(d, v, inside, part)
            /\ AppendRaw[d][<<st, <<front, v, part>>>>] # Put(st, front \o Told(part, TreeAt(d, v, inside, part)))
      BY <2>2 DEF Level
    <2> DEFINE t == TreeAt(d, v, inside, part)  s == Put(st, front)
    <2>4. t = IF d = 0 \/ part = "nothing" THEN << >>
              ELSE IF part = "fields" THEN FieldTrees(Trees[d - 1], v, inside)
              ELSE TreeStep(Trees[d - 1], v, inside)
      BY <2>2, TreeIs
    <2>5. AppendRaw[d][<<st, <<front, v, part>>>>] =
            IF d = 0 \/ part = "nothing" THEN s
            ELSE IF part = "fields" THEN Fields(AppendRaw[d - 1], s, v)
            ELSE AppendStep(AppendRaw[d - 1], s, v)
      BY <2>2, RawIs
    <2>6. part # "nothing" => d # 0 /\ ApartStep(Apart[d - 1], v, inside)
      BY <2>2, <2>3, ApartIs DEF Asked
    <2>7. part # "nothing"
      <3>1. ASSUME part = "nothing" PROVE FALSE
        <4>1. Told(part, t) = << >>
          BY <3>1 DEF Told
        <4>2. front \o << >> = front
          BY ConcatEmptySeq
        <4> QED BY <2>3, <2>5, <3>1, <4>1, <4>2
      <3> QED BY <3>1
    <2> DEFINE c == d - 1
    <2>8. c \in 0..MaxDepth /\ ~(d <= c) /\ ApartStep(Apart[c], v, inside)
      BY <2>2, <2>6, <2>7, DepthAssumption
    <2>9. Level(c)
      BY <2>1, <2>8
    <2>10. s \in States /\ s.visited = Ats(inside)
      BY <2>3, PutIs
    <2>11. CASE part = "value"
      <3>1. t = TreeStep(Trees[c], v, inside) /\ t \in Values
        BY <2>3, <2>4, <2>6, <2>7, <2>11 DEF Asked
      <3>2. AppendRaw[d][<<st, <<front, v, part>>>>] = AppendStep(AppendRaw[c], s, v)
        BY <2>5, <2>6, <2>7, <2>11
      <3> HIDE DEF c, s, t
      <3>3. AppendStep(AppendRaw[c], s, v) = Put(s, Enc(TreeStep(Trees[c], v, inside)))
        BY <2>8, <2>9, <2>10, <3>1, StepLevel
      <3>4. Enc(t) \in Seq(Byte) /\ Told(part, t) = Enc(t)
        BY <2>11, <3>1, EncGood DEF Good, Told
      <3>5. Put(Put(st, front), Enc(t)) = Put(st, front \o Enc(t))
        BY <3>4, PutPut
      <3> QED BY <2>3, <3>1, <3>2, <3>3, <3>4, <3>5 DEF s, t
    <2>12. CASE part = "fields"
      <3>1. t = FieldTrees(Trees[c], v, inside) /\ t \in Seq(Values) /\ v.k = "struct"
        BY <2>3, <2>4, <2>6, <2>7, <2>12 DEF Asked
      <3>2. AppendRaw[d][<<st, <<front, v, part>>>>] = Fields(AppendRaw[c], s, v)
        BY <2>5, <2>6, <2>7, <2>12
      <3> HIDE DEF c, s, t
      <3>3. \A j \in DOMAIN v.fs : Part(v.fs[j]) # "nothing" => IsApart(c, v.fs[j].v, inside)
        BY <2>8, <3>1, FieldsApart
      <3>4. FieldTrees(Trees[c], v, inside) \in Seq(Values)
        BY <3>1
      <3>5. Fields(AppendRaw[c], s, v) = Put(s, Stream(FieldTrees(Trees[c], v, inside)))
        BY <2>8, <2>9, <2>10, <3>1, <3>3, <3>4, FieldsLevel
      <3>6. Stream(t) \in Seq(Byte) /\ Told(part, t) = Stream(t)
        BY <2>12, <3>1, StreamTyped DEF Told
      <3>7. Put(Put(st, front), Stream(t)) = Put(st, front \o Stream(t))
        BY <3>6, PutPut
      <3> QED BY <2>3, <3>1, <3>2, <3>5, <3>6, <3>7 DEF s, t
    <2> QED BY <2>7, <2>11, <2>12 DEF Kinds
  <1> QED BY <1>1

LEMMA FlattenLen ==
  ASSUME NEW S, NEW n \in Nat, NEW F \in [1..n -> Seq(S)], \A j \in 1..n : Len(F[j]) = 2
  PROVE  Len(FlattenSeq(F)) = 2 * n
  <1> DEFINE len(j) == Len(FlattenSeq(First(F, j)))
             U == {j \in 0..n : len(j) # 2 * j}
  <1>1. ASSUME U # {} PROVE FALSE
    <2>1. PICK j \in U : \A y \in U : j <= y
      <3>1. U \subseteq Nat
        OBVIOUS
      <3> HIDE DEF U
      <3> QED BY <1>1, <3>1, SmallestExists
    <2>2. j # 0
      <3>1. FlattenSeq(First(F, 0)) = << >>
        BY FlattenEnds
      <3>2. len(0) = 0
        BY <3>1
      <3> QED BY <2>1, <3>2
    <2> DEFINE h == j - 1
    <2>3. h \in 0..n /\ h # n /\ h + 1 = j /\ h + 1 \in 1..n /\ ~(j <= h)
      BY <2>1, <2>2
    <2>4. len(h) = 2 * h
      BY <2>1, <2>3
    <2> HIDE DEF h
    <2>5. FlattenSeq(First(F, h + 1)) = FlattenSeq(First(F, h)) \o F[h + 1]
      BY <2>3, FlattenMore
    <2>6. FlattenSeq(First(F, h)) \in Seq(S)
      BY <2>3, FlattenFirst
    <2> DEFINE x == FlattenSeq(First(F, h))  y == F[h + 1]
    <2>7. x \in Seq(S) /\ y \in Seq(S) /\ Len(x) = 2 * h /\ Len(y) = 2
      BY <2>3, <2>4, <2>6
    <2>8. len(h + 1) = Len(x \o y)
      BY <2>5
    <2> HIDE DEF x, y, len
    <2>9. Len(x \o y) = Len(x) + Len(y)
      BY <2>7, ConcatProperties
    <2>10. len(h + 1) = 2 * h + 2
      BY <2>7, <2>8, <2>9
    <2>11. len(j) # 2 * j
      BY <2>1
    <2> QED BY <2>3, <2>10, <2>11
  <1>2. n \in 0..n /\ First(F, n) = F
    BY FlattenEnds
  <1>3. len(n) = 2 * n
    BY <1>1, <1>2
  <1> QED BY <1>2, <1>3

(* What an attribute is made of, and its definitions at one level. *)
LEMMA AttrMade ==
  ASSUME NEW a \in Attrs
  PROVE  /\ a.key \in Nat
         /\ IsGroup(a) => a.group \in Seq(Attrs) /\ Len(a.group) \in Nat /\ DOMAIN a.group = 1..Len(a.group)
         /\ ~IsGroup(a) => a.value \in GoValues
  <1>1. a \in [key : Nat, value : GoValues] \/ a \in [key : Nat, group : Seq(Attrs)]
    BY AttrsAssumption
  <1>2. CASE a \in [key : Nat, value : GoValues]
    <2>1. DOMAIN a = {"key", "value"}
      BY <1>2
    <2> QED BY <1>2, <2>1 DEF IsGroup
  <1>3. CASE a \in [key : Nat, group : Seq(Attrs)]
    <2>1. a.group \in Seq(Attrs) /\ a.key \in Nat
      BY <1>3
    <2>2. DOMAIN a = {"key", "group"}
      BY <1>3
    <2>3. IsGroup(a)
      BY <2>2 DEF IsGroup
    <2> QED BY <2>1, <2>3, LenProperties
  <1> QED BY <1>1, <1>2, <1>3

LEMMA PairsAt ==
  ASSUME NEW d \in 0..MaxDepth, NEW a \in Attrs
  PROVE  PairsOf[d][a] = IF d = 0 THEN << >> ELSE PairsStep(PairsOf[d - 1], a)
  <1>1. PairsOf[d] = Paired(d, PairsOf[d - 1])
    BY PairedAre
  <1> QED BY <1>1 DEF Paired

LEMMA AppendAt ==
  ASSUME NEW d \in 0..MaxDepth, NEW bs \in Seq(Byte), NEW a \in Attrs
  PROVE  AppendAttr[d][<<bs, a>>] = IF d = 0 THEN bs ELSE AttrStep(AppendAttr[d - 1], bs, a)
  <1> DEFINE at == <<bs, a>>
  <1>1. at \in Seq(Byte) \X Attrs /\ at[1] = bs /\ at[2] = a
    OBVIOUS
  <1> HIDE DEF at
  <1>2. AppendAttr[d] = Adds(d, AppendAttr[d - 1])
    BY AddsAre
  <1>3. Adds(d, AppendAttr[d - 1])[at] = IF d = 0 THEN at[1] ELSE AttrStep(AppendAttr[d - 1], at[1], at[2])
    BY <1>1 DEF Adds
  <1>4. AppendAttr[d][at] = IF d = 0 THEN bs ELSE AttrStep(AppendAttr[d - 1], bs, a)
    BY <1>1, <1>2, <1>3
  <1> QED BY <1>4 DEF at

LEMMA PlainAt ==
  ASSUME NEW d \in 0..MaxDepth, NEW a \in Attrs, PlainAttr[d][a]
  PROVE  /\ d # 0
         /\ IsGroup(a) => \A j \in DOMAIN a.group : /\ PlainAttr[d - 1][a.group[j]]
                                                    /\ a.key # 0 => Len(PairsOf[d - 1][a.group[j]]) = 2
         /\ ~IsGroup(a) => a.key = 0 \/ Apart[MaxDepth][<<a.value, {}>>]
  <1>1. PlainAttr[d] = Plains(d, PlainAttr[d - 1])
    BY PlainsAre
  <1>2. Plains(d, PlainAttr[d - 1])[a] =
          (/\ d # 0
           /\ IF IsGroup(a)
              THEN \A j \in DOMAIN a.group : /\ PlainAttr[d - 1][a.group[j]]
                                             /\ a.key # 0 => Len(PairsOf[d - 1][a.group[j]]) = 2
              ELSE a.key = 0 \/ Apart[MaxDepth][<<a.value, {}>>])
    BY DEF Plains
  <1> QED BY <1>1, <1>2

AllPairs(d, a) == [j \in DOMAIN a.group |-> PairsOf[d][a.group[j]]]

LEMMA PairsStepIs ==
  ASSUME NEW d, NEW a
  PROVE  PairsStep(PairsOf[d], a) =
           IF ~IsGroup(a) THEN IF a.key = 0 THEN << >> ELSE <<Str(a.key), Tree(a.value)>>
           ELSE IF a.key = 0 \/ a.group = << >> THEN FlattenSeq(AllPairs(d, a))
           ELSE <<Str(a.key), Map(FlattenSeq(AllPairs(d, a)), FALSE)>>
  BY DEF PairsStep, AllPairs

PairsLevel(d) == \A a \in Attrs : IsSeq(PairsOf[d][a])

LEMMA AllPairsFlat ==
  ASSUME NEW d, PairsLevel(d), NEW a \in Attrs, IsGroup(a)
  PROVE  /\ IsSeq(FlattenSeq(AllPairs(d, a)))
         /\ \E S : AllPairs(d, a) \in [1..Len(a.group) -> Seq(S)]
         /\ \A j \in 1..Len(a.group) : AllPairs(d, a)[j] = PairsOf[d][a.group[j]] /\ a.group[j] \in Attrs
  <1> DEFINE n == Len(a.group)  F == AllPairs(d, a)
  <1>1. a.group \in Seq(Attrs) /\ n \in Nat /\ DOMAIN a.group = 1..n
    BY AttrMade
  <1>2. \A j \in 1..n : a.group[j] \in Attrs
    BY <1>1, ElementOfSeq
  <1>3. DOMAIN F = 1..n /\ F = [j \in DOMAIN F |-> F[j]] /\ \A j \in 1..n : F[j] = PairsOf[d][a.group[j]]
    BY <1>1 DEF AllPairs
  <1> HIDE DEF F, n
  <1>4. \A j \in 1..n : IsSeq(F[j])
    BY <1>2, <1>3 DEF PairsLevel
  <1>5. IsSeq(FlattenSeq(F))
    BY <1>1, <1>3, <1>4, FlattenIsSeq
  <1>6. \E S : F \in [1..n -> Seq(S)]
    BY <1>1, <1>3, <1>4, SeqsAlike
  <1> QED BY <1>2, <1>3, <1>5, <1>6 DEF F, n

LEMMA PairsLevels == \A d \in 0..MaxDepth : PairsLevel(d)
  <1> DEFINE T == {d \in 0..MaxDepth : ~PairsLevel(d)}
  <1>1. ASSUME T # {} PROVE FALSE
    <2>1. PICK x \in T : \A y \in T : x <= y
      <3>1. T \subseteq Nat
        BY DepthAssumption
      <3> HIDE DEF T
      <3> QED BY <1>1, <3>1, SmallestExists
    <2>2. x \in 0..MaxDepth /\ ~PairsLevel(x)
      BY <2>1
    <2>3. PICK a \in Attrs : ~IsSeq(PairsOf[x][a])
      BY <2>2 DEF PairsLevel
    <2>4. PairsOf[x][a] = IF x = 0 THEN << >> ELSE PairsStep(PairsOf[x - 1], a)
      BY <2>2, PairsAt
    <2>5. x # 0
      BY <2>3, <2>4, NoneIsSeq
    <2> DEFINE d == x - 1
    <2>6. d \in 0..MaxDepth /\ ~(x <= d)
      BY <2>2, <2>5, DepthAssumption
    <2>7. PairsLevel(d)
      BY <2>1, <2>6
    <2>8. PairsOf[x][a] = PairsStep(PairsOf[d], a)
      BY <2>4, <2>5
    <2> HIDE DEF d
    <2>9. PairsStep(PairsOf[d], a) =
           IF ~IsGroup(a) THEN IF a.key = 0 THEN << >> ELSE <<Str(a.key), Tree(a.value)>>
           ELSE IF a.key = 0 \/ a.group = << >> THEN FlattenSeq(AllPairs(d, a))
           ELSE <<Str(a.key), Map(FlattenSeq(AllPairs(d, a)), FALSE)>>
      BY PairsStepIs
    <2>10. CASE IsGroup(a)
      <3>1. IsSeq(FlattenSeq(AllPairs(d, a)))
        BY <2>7, <2>10, AllPairsFlat
      <3>2. IsSeq(<<Str(a.key), Map(FlattenSeq(AllPairs(d, a)), FALSE)>>)
        BY TwoIsSeq
      <3> QED BY <2>3, <2>8, <2>9, <2>10, <3>1, <3>2
    <2>11. CASE ~IsGroup(a)
      <3>1. IsSeq(<<Str(a.key), Tree(a.value)>>)
        BY TwoIsSeq
      <3> QED BY <2>3, <2>8, <2>9, <2>11, <3>1, NoneIsSeq
    <2> QED BY <2>10, <2>11
  <1> QED BY <1>1

LEMMA ValueAppended ==
  ASSUME NEW bs \in Seq(Byte), NEW v \in GoValues, Apart[MaxDepth][<<v, {}>>], Tree(v) \in Values
  PROVE  AppendValue(bs, v) = bs \o Enc(Tree(v))
  <1> DEFINE d == MaxDepth  inside == {}  st == [b |-> bs, visited |-> {}]
  <1>1. d \in 0..MaxDepth
    BY DepthAssumption
  <1>2. st \in States /\ st.visited = {} /\ st.b = bs
    BY DEF States
  <1>3. inside \in Insides /\ Ats(inside) = {}
    BY DEF Insides, Ats
  <1>4. AppendValue(bs, v) = AppendRaw[d][<<st, Item(v)>>].b
    BY DEF AppendValue
  <1>5. Tree(v) = TreeAt(d, v, inside, "value") /\ Apart[d][<<v, inside>>]
    BY DEF Tree, TreeAt
  <1>6. Level(d)
    BY <1>1, Levels
  <1> HIDE DEF d, inside, st
  <1>7. IsApart(d, v, inside)
    BY <1>1, <1>3, <1>5, ApartTrue
  <1>8. AppendRaw[d][<<st, Item(v)>>] = Put(st, Enc(TreeAt(d, v, inside, "value")))
    BY <1>2, <1>3, <1>5, <1>6, <1>7, ItemLevel
  <1>9. Enc(Tree(v)) \in Seq(Byte)
    BY EncGood DEF Good
  <1>10. Put(st, Enc(Tree(v))).b = st.b \o Enc(Tree(v))
    BY <1>2, <1>9, PutIs
  <1> QED BY <1>2, <1>4, <1>5, <1>8, <1>10

AttrLevel(d) ==
  \A a \in Attrs, bs \in Seq(Byte) :
    PlainAttr[d][a] /\ PairsOf[d][a] \in Seq(Values) => AppendAttr[d][<<bs, a>>] = bs \o Stream(PairsOf[d][a])

LEMMA AttrSays ==
  ASSUME NEW d, AttrLevel(d), NEW a \in Attrs, NEW bs \in Seq(Byte), PlainAttr[d][a], PairsOf[d][a] \in Seq(Values)
  PROVE  AppendAttr[d][<<bs, a>>] = bs \o Stream(PairsOf[d][a])
  BY DEF AttrLevel

LEMMA GroupLevel ==
  ASSUME NEW d \in 0..MaxDepth, AttrLevel(d), NEW a \in Attrs, IsGroup(a), NEW bs \in Seq(Byte),
         \A j \in DOMAIN a.group : PlainAttr[d][a.group[j]],
         FlattenSeq(AllPairs(d, a)) \in Seq(Values)
  PROVE  Each(AppendAttr[d], bs, a.group) = bs \o Stream(FlattenSeq(AllPairs(d, a)))
  <1> DEFINE n == Len(a.group)  F == AllPairs(d, a)  xs == a.group  calls == AppendAttr[d]
  <1>1. xs \in Seq(Attrs) /\ n \in Nat /\ DOMAIN xs = 1..n /\ Len(xs) = n
    BY AttrMade
  <1>2. /\ \E S : F \in [1..n -> Seq(S)]
        /\ \A j \in 1..n : F[j] = PairsOf[d][xs[j]] /\ xs[j] \in Attrs
    <2>1. PairsLevel(d)
      BY PairsLevels
    <2> QED BY <2>1, AllPairsFlat
  <1>3. \A j \in 1..n : PlainAttr[d][xs[j]]
    BY <1>1
  <1>4. FlattenSeq(F) \in Seq(Values)
    OBVIOUS
  <1> HIDE DEF F, n, xs
  <1>5. \A j \in 1..n : F[j] \in Seq(Values)
    BY <1>1, <1>2, <1>4, FlattenParts
  <1>6. F \in [1..n -> Seq(Values)]
    BY <1>2, <1>5
  <1> DEFINE E == [j \in 1..n |-> Stream(F[j])]
  <1>7. Stream(FlattenSeq(F)) = FlattenSeq(E)
    BY <1>1, <1>6, StreamFlat
  <1>8. E \in [1..n -> Seq(Byte)] /\ \A j \in 1..n : E[j] = Stream(F[j])
    BY <1>5, StreamTyped
  <1> HIDE DEF E
  <1>9. ASSUME NEW s \in Seq(Byte), NEW j \in 1..n
        PROVE  calls[<<s, xs[j]>>] = s \o E[j]
    <2> DEFINE x == xs[j]
    <2>1. x \in Attrs /\ PlainAttr[d][x] /\ F[j] = PairsOf[d][x] /\ F[j] \in Seq(Values)
      BY <1>2, <1>3, <1>5
    <2> HIDE DEF x
    <2>2. AppendAttr[d][<<s, x>>] = s \o Stream(PairsOf[d][x])
      BY <2>1, AttrSays, Zenon
    <2>3. E[j] = Stream(PairsOf[d][x])
      BY <1>8, <2>1
    <2>4. AppendAttr[d][<<s, x>>] = s \o E[j]
      BY <2>2, <2>3
    <2> QED BY <2>4 DEF x
  <1> HIDE DEF calls
  <1>10. AddsEach(calls, xs, n, E)
    BY <1>1, <1>8, <1>9 DEF AddsEach
  <1>11. Each(calls, bs, xs) = bs \o FlattenSeq(E)
    BY <1>10, EachAdds, Zenon
  <1>12. Each(calls, bs, xs) = bs \o Stream(FlattenSeq(F))
    BY <1>7, <1>11
  <1> QED BY <1>12 DEF calls, xs, F

LEMMA AllPairsLen ==
  ASSUME NEW d \in 0..MaxDepth, NEW a \in Attrs, IsGroup(a),
         \A j \in DOMAIN a.group : Len(PairsOf[d][a.group[j]]) = 2
  PROVE  Len(FlattenSeq(AllPairs(d, a))) \div 2 = Len(a.group)
  <1> DEFINE n == Len(a.group)  F == AllPairs(d, a)
  <1>1. n \in Nat /\ DOMAIN a.group = 1..n
    BY AttrMade
  <1>2. PairsLevel(d)
    BY PairsLevels
  <1>3. /\ \E S : F \in [1..n -> Seq(S)]
        /\ \A j \in 1..n : F[j] = PairsOf[d][a.group[j]]
    BY <1>2, AllPairsFlat
  <1>4. \A j \in 1..n : Len(F[j]) = 2
    BY <1>1, <1>3
  <1> HIDE DEF F, n
  <1>5. Len(FlattenSeq(F)) = 2 * n
    BY <1>1, <1>3, <1>4, FlattenLen
  <1> DEFINE len == Len(FlattenSeq(F))
  <1>6. len = 2 * n
    BY <1>5
  <1> HIDE DEF len
  <1>7. len \div 2 = n
    BY <1>1, <1>6
  <1> QED BY <1>7 DEF len, F, n

LEMMA AttrLevels == \A d \in 0..MaxDepth : AttrLevel(d)
  <1> DEFINE T == {d \in 0..MaxDepth : ~AttrLevel(d)}
  <1>1. ASSUME T # {} PROVE FALSE
    <2>1. PICK x \in T : \A y \in T : x <= y
      <3>1. T \subseteq Nat
        BY DepthAssumption
      <3> HIDE DEF T
      <3> QED BY <1>1, <3>1, SmallestExists
    <2>2. x \in 0..MaxDepth /\ ~AttrLevel(x)
      BY <2>1
    <2>3. PICK a \in Attrs, bs \in Seq(Byte) :
            /\ PlainAttr[x][a] /\ PairsOf[x][a] \in Seq(Values)
            /\ AppendAttr[x][<<bs, a>>] # bs \o Stream(PairsOf[x][a])
      BY <2>2 DEF AttrLevel
    <2> DEFINE d == x - 1
    <2>4. /\ x # 0
          /\ IsGroup(a) => \A j \in DOMAIN a.group : /\ PlainAttr[d][a.group[j]]
                                                     /\ a.key # 0 => Len(PairsOf[d][a.group[j]]) = 2
          /\ ~IsGroup(a) => a.key = 0 \/ Apart[MaxDepth][<<a.value, {}>>]
      BY <2>2, <2>3, PlainAt
    <2>5. d \in 0..MaxDepth /\ ~(x <= d)
      BY <2>2, <2>4, DepthAssumption
    <2>6. AttrLevel(d)
      BY <2>1, <2>5
    <2>7. AppendAttr[x][<<bs, a>>] = AttrStep(AppendAttr[d], bs, a)
      <3>1. AppendAttr[x][<<bs, a>>] = IF x = 0 THEN bs ELSE AttrStep(AppendAttr[x - 1], bs, a)
        BY <2>2, AppendAt
      <3> QED BY <2>4, <3>1
    <2>8. PairsOf[x][a] = PairsStep(PairsOf[d], a)
      <3>1. PairsOf[x][a] = IF x = 0 THEN << >> ELSE PairsStep(PairsOf[x - 1], a)
        BY <2>2, PairsAt
      <3> QED BY <2>4, <3>1
    <2> HIDE DEF d
    <2> DEFINE all == FlattenSeq(AllPairs(d, a))  calls == AppendAttr[d]  key == Key(a.key)
               pairs == PairsOf[x][a]
    <2>9. pairs =
           IF ~IsGroup(a) THEN IF a.key = 0 THEN << >> ELSE <<Str(a.key), Tree(a.value)>>
           ELSE IF a.key = 0 \/ a.group = << >> THEN all ELSE <<Str(a.key), Map(all, FALSE)>>
      BY <2>8, PairsStepIs
    <2>10. AppendAttr[x][<<bs, a>>] =
            IF ~IsGroup(a) THEN IF a.key = 0 THEN bs ELSE AppendValue(bs \o key, a.value)
            ELSE IF a.group = << >> THEN bs
            ELSE Each(calls, IF a.key = 0 THEN bs ELSE bs \o key \o Size("map", Len(a.group)), a.group)
      BY <2>7 DEF AttrStep
    <2>11. bs \o << >> = bs
      BY ConcatEmptySeq
    <2> HIDE DEF calls, all, pairs, key
    <2>12. CASE ~IsGroup(a) /\ a.key = 0
      BY <2>3, <2>9, <2>10, <2>11, <2>12, StreamNone DEF pairs
    <2>13. CASE ~IsGroup(a) /\ a.key # 0
      <3> DEFINE t == Tree(a.value)
      <3>1. pairs = <<Str(a.key), t>> /\ pairs \in Seq(Values)
        BY <2>3, <2>9, <2>13 DEF pairs
      <3>2. Str(a.key) \in Values /\ t \in Values
        BY <3>1, TwoInside
      <3>3. Stream(pairs) = key \o Enc(t)
        BY <3>1, <3>2, StreamPair DEF Key, key
      <3>4. key \in Seq(Byte) /\ Enc(t) \in Seq(Byte)
        BY <3>2, EncGood DEF Good, Key, key
      <3>5. bs \o key \in Seq(Byte)
        BY <3>4, ConcatProperties
      <3> DEFINE v == a.value
      <3>6. v \in GoValues /\ Apart[MaxDepth][<<v, {}>>] /\ Tree(v) \in Values
        BY <2>4, <2>13, <3>2, AttrMade
      <3> HIDE DEF v
      <3>7. AppendValue(bs \o key, v) = (bs \o key) \o Enc(Tree(v))
        BY <3>5, <3>6, ValueAppended
      <3> DEFINE e == Enc(t)
      <3>8. e \in Seq(Byte) /\ Stream(pairs) = key \o e /\ AppendValue(bs \o key, a.value) = (bs \o key) \o e
        BY <3>3, <3>4, <3>7 DEF v
      <3> HIDE DEF e
      <3>9. (bs \o key) \o e = bs \o (key \o e)
        <4>1. ThreeBytes(bs, key, e)
          BY <3>4, <3>8 DEF ThreeBytes
        <4> QED BY <4>1, Regrouped
      <3> QED BY <2>3, <2>10, <2>13, <3>8, <3>9 DEF pairs
    <2>14. CASE IsGroup(a) /\ a.group = << >>
      <3>1. AllPairs(d, a) = << >>
        BY <2>14 DEF AllPairs
      <3>2. all = << >>
        <4>1. FlattenSeq(<< >>) = << >>
          <5> DEFINE none == << >>
          <5>1. none \in [1..0 -> Seq(Byte)]
            OBVIOUS
          <5>2. 0 \in Nat
            OBVIOUS
          <5> HIDE DEF none
          <5>3. First(none, 0) = none /\ FlattenSeq(First(none, 0)) = << >>
            BY <5>1, <5>2, FlattenEnds
          <5> QED BY <5>3 DEF none
        <4> QED BY <3>1, <4>1 DEF all
      <3>3. pairs = << >>
        BY <2>9, <2>14, <3>2
      <3> QED BY <2>3, <2>10, <2>11, <2>14, <3>3, StreamNone DEF pairs
    <2>15. CASE IsGroup(a) /\ a.group # << >> /\ a.key = 0
      <3>1. pairs = all /\ AppendAttr[x][<<bs, a>>] = Each(calls, bs, a.group)
        BY <2>9, <2>10, <2>15
      <3>2. FlattenSeq(AllPairs(d, a)) \in Seq(Values)
        BY <2>3, <3>1 DEF all, pairs
      <3>3. \A j \in DOMAIN a.group : PlainAttr[d][a.group[j]]
        BY <2>4, <2>15
      <3>4. Each(AppendAttr[d], bs, a.group) = bs \o Stream(FlattenSeq(AllPairs(d, a)))
        BY <2>5, <2>6, <2>15, <3>2, <3>3, GroupLevel
      <3> QED BY <2>3, <3>1, <3>4 DEF all, calls, pairs
    <2>16. CASE IsGroup(a) /\ a.group # << >> /\ a.key # 0
      <3> DEFINE head == Size("map", Len(a.group))
      <3>1. /\ pairs = <<Str(a.key), Map(all, FALSE)>> /\ pairs \in Seq(Values)
            /\ AppendAttr[x][<<bs, a>>] = Each(calls, (bs \o key) \o head, a.group)
        BY <2>3, <2>9, <2>10, <2>16 DEF pairs
      <3>2. Str(a.key) \in Values /\ Map(all, FALSE) \in Values
        BY <3>1, TwoInside
      <3>3. Stream(pairs) = key \o Enc(Map(all, FALSE))
        BY <3>1, <3>2, StreamPair DEF Key, key
      <3>4. Len(all) \div 2 = Len(a.group)
        <4>1. \A j \in DOMAIN a.group : Len(PairsOf[d][a.group[j]]) = 2
          BY <2>4, <2>16
        <4>2. Len(FlattenSeq(AllPairs(d, a))) \div 2 = Len(a.group)
          BY <2>5, <2>16, <4>1, AllPairsLen
        <4> QED BY <4>2 DEF all
      <3>5. all \in Seq(Values) /\ Enc(Map(all, FALSE)) = head \o Stream(all) /\ head \in Seq(Byte)
        <4>1. /\ all \in Seq(Values)
              /\ Enc(Map(all, FALSE)) = Size("map", Len(all) \div 2) \o Stream(all)
              /\ Size("map", Len(all) \div 2) \in Seq(Byte)
          BY <3>2, GivenMapIs
        <4> QED BY <3>4, <4>1
      <3>6. key \in Seq(Byte) /\ Stream(all) \in Seq(Byte)
        BY <3>2, <3>5, EncGood, StreamTyped DEF Good, Key, key
      <3> DEFINE e == Stream(all)
      <3>7. e \in Seq(Byte) /\ Stream(pairs) = key \o (head \o e)
        BY <3>3, <3>5, <3>6
      <3>8. FlattenSeq(AllPairs(d, a)) \in Seq(Values)
        BY <3>5 DEF all
      <3>9. \A j \in DOMAIN a.group : PlainAttr[d][a.group[j]]
        BY <2>4, <2>16
      <3> HIDE DEF head
      <3> DEFINE f == (bs \o key) \o head
      <3>10. f \in Seq(Byte)
        BY <3>5, <3>6, ConcatProperties
      <3> HIDE DEF f
      <3>11. Each(AppendAttr[d], f, a.group) = f \o Stream(FlattenSeq(AllPairs(d, a)))
        BY <2>5, <2>6, <2>16, <3>8, <3>9, <3>10, GroupLevel
      <3>12. AppendAttr[x][<<bs, a>>] = f \o e
        BY <3>1, <3>11 DEF f, calls, e, all
      <3> HIDE DEF e
      <3>13. f \o e = bs \o (key \o (head \o e))
        <4>1. bs \o key \in Seq(Byte) /\ head \o e \in Seq(Byte)
          BY <3>5, <3>6, <3>7, ConcatProperties
        <4> DEFINE bk == bs \o key
        <4>2. bk \in Seq(Byte)
          BY <4>1
        <4> HIDE DEF bk
        <4>3. (bk \o head) \o e = bk \o (head \o e)
          <5>1. ThreeBytes(bk, head, e)
            BY <3>5, <3>7, <4>2 DEF ThreeBytes
          <5> QED BY <5>1, Regrouped
        <4> DEFINE he == head \o e
        <4>4. he \in Seq(Byte)
          BY <4>1
        <4> HIDE DEF he
        <4>5. (bs \o key) \o he = bs \o (key \o he)
          <5>1. ThreeBytes(bs, key, he)
            BY <3>6, <4>4 DEF ThreeBytes
          <5> QED BY <5>1, Regrouped
        <4> QED BY <4>3, <4>5 DEF f, bk, he
      <3> QED BY <2>3, <3>7, <3>12, <3>13 DEF pairs
    <2> QED BY <2>12, <2>13, <2>14, <2>15, <2>16
  <1> QED BY <1>1

(* What a handler was derived by, and what it has to put.                  *)
LEMMA NestedNone ==
  ASSUME NEW x
  PROVE  Nested(<< >>, x) = x
  <1> DEFINE by == << >>
  <1>1. Len(by) = 0
    OBVIOUS
  <1> HIDE DEF by
  <1>2. PICK f : NestsTables(by, x, f, Len(by)) /\ Nested(by, x) = f[Len(by)]
    BY <1>1, NestedIs
  <1>3. f = [d \in 0..0 |-> Nests(by, x, d, f[d - 1])]
    BY <1>1, <1>2 DEF NestsTables
  <1>4. f[0] = Nests(by, x, 0, f[0 - 1])
    BY <1>3
  <1> QED BY <1>1, <1>2, <1>4 DEF Nests, by

LEMMA NestedAppend ==
  ASSUME NEW S, NEW by \in Seq(S), NEW op \in S, NEW x
  PROVE  Nested(Append(by, op), x) = Nested(by, Within(op, x))
  <1> DEFINE n == Len(by)  all == Append(by, op)  y == Within(op, x)
  <1>1. n \in Nat /\ all \in Seq(S) /\ Len(all) = n + 1 /\ all[n + 1] = op /\ \A j \in 1..n : all[j] = by[j]
    BY AppendProperties, LenProperties
  <1> HIDE DEF n, all, y
  <1>2. PICK f : NestsTables(all, x, f, n + 1) /\ Nested(all, x) = f[n + 1]
    BY <1>1, NestedIs
  <1>3. PICK g : NestsTables(by, y, g, n) /\ Nested(by, y) = g[n]
    BY <1>1, NestedIs DEF n
  <1>4. \A d \in 0..n + 1 : f[d] = IF d = 0 THEN x ELSE Within(all[(n + 1) + 1 - d], f[d - 1])
    BY <1>1, <1>2 DEF NestsTables, Nests
  <1>5. \A d \in 0..n : g[d] = IF d = 0 THEN y ELSE Within(by[n + 1 - d], g[d - 1])
    BY <1>1, <1>3 DEF NestsTables, Nests, n
  <1>6. f[1] = y
    <2>1. f[0] = x
      BY <1>1, <1>4
    <2>2. f[1] = Within(all[(n + 1) + 1 - 1], f[1 - 1])
      BY <1>1, <1>4
    <2>3. (n + 1) + 1 - 1 = n + 1 /\ 1 - 1 = 0
      BY <1>1
    <2> QED BY <1>1, <2>1, <2>2, <2>3 DEF y
  <1> DEFINE T == {d \in 0..n : f[d + 1] # g[d]}
  <1>7. ASSUME T # {} PROVE FALSE
    <2>1. PICK d \in T : \A z \in T : d <= z
      <3>1. T \subseteq Nat
        BY <1>1
      <3> HIDE DEF T
      <3> QED BY <1>7, <3>1, SmallestExists
    <2>2. d # 0
      <3>1. g[0] = y
        BY <1>1, <1>5
      <3>2. 0 + 1 = 1
        OBVIOUS
      <3> QED BY <1>6, <2>1, <3>1, <3>2
    <2> DEFINE h == d - 1  k == n + 1 - d
    <2>3. h \in 0..n /\ ~(d <= h) /\ h + 1 = d /\ k \in 1..n /\ (n + 1) + 1 - (d + 1) = k /\ (d + 1) - 1 = d
      BY <1>1, <2>1, <2>2
    <2>4. f[d] = g[h]
      BY <2>1, <2>3
    <2>5. g[d] = Within(by[k], g[h])
      BY <1>5, <2>1, <2>2
    <2>6. f[d + 1] = Within(all[k], f[d])
      <3>1. d + 1 \in 0..n + 1 /\ d + 1 # 0
        BY <1>1, <2>1
      <3> QED BY <1>4, <2>3, <3>1
    <2>7. all[k] = by[k]
      BY <1>1, <2>3
    <2> QED BY <2>1, <2>4, <2>5, <2>6, <2>7
  <1>8. f[n + 1] = g[n]
    BY <1>1, <1>7
  <1> QED BY <1>2, <1>3, <1>8 DEF all, y

LEMMA BreaksAre ==
  ASSUME NEW n \in Nat
  PROVE  Breaks(n + 1) = <<Break>> \o Breaks(n)
  <1> DEFINE m == n + 1  s == <<Break>>  t == Breaks(n)  u == Breaks(m)  C == {Break}
  <1>1. t \in [1..n -> C] /\ u \in [1..m -> C] /\ m \in Nat
    BY DEF Breaks
  <1>2. s \in Seq(C) /\ Len(s) = 1 /\ s[1] = Break
    OBVIOUS
  <1> HIDE DEF s, t, u, m, C
  <1>3. t \in Seq(C) /\ Len(t) = n /\ u \in Seq(C) /\ Len(u) = m
    <2>1. t \in Seq(C) /\ Len(t) = n
      BY <1>1, OfLength
    <2>2. u \in Seq(C) /\ Len(u) = m
      BY <1>1, OfLength
    <2> QED BY <2>1, <2>2
  <1>4. /\ s \o t \in Seq(C) /\ Len(s \o t) = Len(s) + Len(t)
        /\ \A k \in 1..Len(s) + Len(t) : (s \o t)[k] = IF k <= Len(s) THEN s[k] ELSE t[k - Len(s)]
    BY <1>2, <1>3, ConcatProperties
  <1>5. \A k \in 1..m : u[k] = Break /\ (s \o t)[k] = Break
    <2> TAKE k \in 1..m
    <2>1. u[k] \in C /\ (s \o t)[k] \in C
      <3>1. m = 1 + n
        BY DEF m
      <3> QED BY <1>2, <1>3, <1>4, <3>1, ElementOfSeq
    <2> QED BY <2>1 DEF C
  <1>6. m = 1 + n
    BY DEF m
  <1>7. u = s \o t
    BY <1>2, <1>3, <1>4, <1>5, <1>6, SeqEqual
  <1> QED BY <1>7 DEF u, s, t, m

LEMMA BreaksNone == Breaks(0) = << >>
  <1>1. DOMAIN Breaks(0) = {}
    BY DEF Breaks
  <1>2. Breaks(0) \in [1..0 -> {Break}]
    BY DEF Breaks
  <1> DEFINE z == 0  bs == Breaks(0)
  <1>3. z \in Nat /\ bs \in [1..z -> {Break}]
    BY <1>2
  <1> HIDE DEF bs, z
  <1>4. bs \in Seq({Break}) /\ Len(bs) = z
    BY <1>3, OfLength
  <1> QED BY <1>4, EmptySeq DEF bs, z

LEMMA BreakIsByte == Break \in Byte
  BY DEF Break, Byte, Details, DecoderLen, SpecialLen

LEMMA BreaksTyped ==
  ASSUME NEW n \in Nat
  PROVE  Breaks(n) \in Seq(Byte)
  <1> DEFINE bs == Breaks(n)
  <1>1. bs \in [1..n -> Byte]
    BY BreakIsByte DEF Breaks
  <1> HIDE DEF bs
  <1>2. bs \in Seq(Byte)
    BY <1>1, OfLength
  <1> QED BY <1>2 DEF bs

FourBytes(x, y, z, e) == x \in Seq(Byte) /\ y \in Seq(Byte) /\ z \in Seq(Byte) /\ e \in Seq(Byte)

LEMMA FourJoined ==
  ASSUME NEW x, NEW y, NEW z, NEW e, FourBytes(x, y, z, e)
  PROVE  (x \o y) \o (z \o e) = x \o ((y \o z) \o e)
  <1> DEFINE ze == z \o e
  <1>0. x \in Seq(Byte) /\ y \in Seq(Byte) /\ z \in Seq(Byte) /\ e \in Seq(Byte)
    BY DEF FourBytes
  <1>1. ze \in Seq(Byte)
    BY <1>0, ConcatProperties
  <1> HIDE DEF ze
  <1>2. (x \o y) \o ze = x \o (y \o ze)
    <2>1. ThreeBytes(x, y, ze)
      BY <1>0, <1>1 DEF ThreeBytes
    <2> QED BY <2>1, Regrouped
  <1>3. (y \o z) \o e = y \o (z \o e)
    <2>1. ThreeBytes(y, z, e)
      BY <1>0 DEF ThreeBytes
    <2> QED BY <2>1, Regrouped
  <1> QED BY <1>2, <1>3 DEF ze

SixBytes(o, g, u, e, br, z) == ThreeBytes(o, g, u) /\ ThreeBytes(e, br, z)

Joined(o, g, u, e, br, z) ==
  (((o \o g) \o (u \o e)) \o br) \o z = o \o ((g \o (u \o (e \o br))) \o z)

LEMMA SixJoined ==
  ASSUME NEW o, NEW g, NEW u, NEW e, NEW br, NEW z, SixBytes(o, g, u, e, br, z)
  PROVE  Joined(o, g, u, e, br, z)
  <1> DEFINE ue == u \o e  gue == g \o ue  y == gue \o br
  <1>1. /\ o \in Seq(Byte) /\ g \in Seq(Byte) /\ u \in Seq(Byte)
        /\ e \in Seq(Byte) /\ br \in Seq(Byte) /\ z \in Seq(Byte)
    BY DEF SixBytes, ThreeBytes
  <1>2. ThreeBytes(u, e, br)
    BY <1>1 DEF ThreeBytes
  <1>3. ue \o br = u \o (e \o br) /\ ue \in Seq(Byte)
    BY <1>2, Regrouped
  <1> HIDE DEF ue
  <1>4. ThreeBytes(g, ue, br) /\ ThreeBytes(o, g, ue)
    BY <1>1, <1>3 DEF ThreeBytes
  <1>5. gue \o br = g \o (ue \o br) /\ gue \in Seq(Byte)
    BY <1>4, Regrouped
  <1>6. (o \o g) \o ue = o \o gue
    BY <1>4, Regrouped
  <1> HIDE DEF gue
  <1>7. ThreeBytes(o, gue, br) /\ ThreeBytes(gue, br, z)
    BY <1>1, <1>5 DEF ThreeBytes
  <1>8. (o \o gue) \o br = o \o y
    BY <1>7, Regrouped
  <1>9. y \in Seq(Byte)
    BY <1>7, Regrouped
  <1> HIDE DEF y
  <1>10. ThreeBytes(o, y, z)
    BY <1>1, <1>9 DEF ThreeBytes
  <1>11. (o \o y) \o z = o \o (y \o z)
    BY <1>10, Regrouped
  <1>12. (((o \o g) \o ue) \o br) \o z = o \o (y \o z)
    BY <1>6, <1>8, <1>11
  <1>13. y = g \o (u \o (e \o br))
    BY <1>3, <1>5 DEF y
  <1> QED BY <1>12, <1>13 DEF ue, Joined

AllPlain(by) == \A a \in AttrsOf(by) : PlainAttr[MaxDepth][a]

(* What a handler puts in front of the pairs of a record and behind them. *)
Enclosed(h, x) ==
  /\ x \in Seq(Values) /\ h.prefix \in Seq(Byte)
  /\ Stream(Nested(h.by, x)) = h.prefix \o (Stream(x) \o Breaks(h.depth))
HandlerFits(h) ==
  AllPlain(h.by) => \A x : IsSeq(x) /\ Nested(h.by, x) \in Seq(Values) => Enclosed(h, x)
NestsSeq(by) == \A x : IsSeq(x) => IsSeq(Nested(by, x))
HandlerOk(h) == h.depth \in Nat /\ IsSeq(h.by) /\ NestsSeq(h.by) /\ HandlerFits(h)

LEMMA FitsSays ==
  ASSUME NEW h, HandlerFits(h), AllPlain(h.by), NEW x, IsSeq(x), Nested(h.by, x) \in Seq(Values)
  PROVE  Enclosed(h, x)
  BY DEF HandlerFits

LEMMA PairsAppended ==
  ASSUME NEW a \in Attrs, NEW bs \in Seq(Byte), PlainAttr[MaxDepth][a], Pairs(a) \in Seq(Values)
  PROVE  Attr(bs, a) = bs \o Stream(Pairs(a))
  <1> DEFINE d == MaxDepth
  <1>1. d \in 0..MaxDepth
    BY DepthAssumption
  <1>2. AttrLevel(d)
    BY <1>1, AttrLevels
  <1>3. Attr(bs, a) = AppendAttr[d][<<bs, a>>] /\ Pairs(a) = PairsOf[d][a] /\ PlainAttr[d][a]
    BY DEF Attr, Pairs
  <1> HIDE DEF d
  <1>4. AppendAttr[d][<<bs, a>>] = bs \o Stream(PairsOf[d][a])
    BY <1>2, <1>3, AttrSays
  <1> QED BY <1>3, <1>4

LEMMA PairsIsSeq ==
  ASSUME NEW a \in Attrs
  PROVE  IsSeq(Pairs(a))
  <1>1. PairsLevel(MaxDepth)
    BY DepthAssumption, PairsLevels
  <1> QED BY <1>1 DEF PairsLevel, Pairs

LEMMA AppendedBy ==
  ASSUME NEW by, IsSeq(by), NEW op
  PROVE  /\ IsSeq(Append(by, op))
         /\ \A x : Nested(Append(by, op), x) = Nested(by, Within(op, x))
         /\ AttrsOf(by) \subseteq AttrsOf(Append(by, op))
         /\ "attr" \in DOMAIN op => op.attr \in AttrsOf(Append(by, op))
  <1>1. PICK A : by \in Seq(A)
    BY DEF IsSeq
  <1> DEFINE S == A \union {op}  all == Append(by, op)  n == Len(by)
  <1>2. by \in Seq(S) /\ op \in S
    <2>1. \A k \in 1..Len(by) : by[k] \in S
      BY <1>1, ElementOfSeq
    <2> HIDE DEF S
    <2>2. by \in Seq(S)
      BY <1>1, <2>1, ElementsIn
    <2> QED BY <2>2 DEF S
  <1> HIDE DEF S
  <1>3. /\ all \in Seq(S) /\ n \in Nat /\ Len(all) = n + 1 /\ all[n + 1] = op
        /\ \A k \in 1..n : all[k] = by[k]
    BY <1>2, AppendProperties, LenProperties
  <1>4. DOMAIN by = 1..n /\ DOMAIN all = 1..n + 1
    <2> HIDE DEF all
    <2>1. DOMAIN by = 1..Len(by)
      BY <1>2, LenProperties
    <2>2. DOMAIN all = 1..Len(all)
      BY <1>3, LenProperties
    <2> QED BY <1>3, <2>1, <2>2
  <1>5. \A x : Nested(all, x) = Nested(by, Within(op, x))
    BY <1>2, NestedAppend
  <1> HIDE DEF all, n
  <1>6. AttrsOf(by) \subseteq AttrsOf(all)
    <2> SUFFICES ASSUME NEW j \in DOMAIN by, "attr" \in DOMAIN by[j] PROVE by[j].attr \in AttrsOf(all)
      BY DEF AttrsOf
    <2>1. j \in DOMAIN all /\ all[j] = by[j]
      BY <1>3, <1>4
    <2> QED BY <2>1 DEF AttrsOf
  <1>7. ASSUME "attr" \in DOMAIN op PROVE op.attr \in AttrsOf(all)
    <2> DEFINE j == n + 1
    <2>1. j \in DOMAIN all /\ all[j] = op
      BY <1>3, <1>4
    <2> QED BY <1>7, <2>1 DEF AttrsOf
  <1>8. IsSeq(all)
    BY <1>3 DEF IsSeq
  <1> QED BY <1>5, <1>6, <1>7, <1>8 DEF all

LEMMA WithAttrsFits ==
  ASSUME NEW h, HandlerOk(h), NEW a \in Attrs, NEW g,
         g = [prefix |-> Attr(h.prefix, a), depth |-> h.depth, by |-> Append(h.by, [attr |-> a])]
  PROVE  HandlerOk(g)
  <1> DEFINE op == [attr |-> a]  by == h.by  all == Append(by, op)
  <1>1. "attr" \in DOMAIN op /\ "open" \notin DOMAIN op /\ op.attr = a
    OBVIOUS
  <1>2. g.prefix = Attr(h.prefix, a) /\ g.depth = h.depth /\ g.by = all
    OBVIOUS
  <1>3. h.depth \in Nat /\ IsSeq(by) /\ NestsSeq(by) /\ HandlerFits(h)
    BY DEF HandlerOk
  <1> HIDE DEF op, by
  <1>4. /\ IsSeq(all) /\ \A x : Nested(all, x) = Nested(by, Within(op, x))
        /\ AttrsOf(by) \subseteq AttrsOf(all) /\ a \in AttrsOf(all)
    BY <1>1, <1>3, AppendedBy
  <1> HIDE DEF all
  <1>5. ASSUME AllPlain(g.by), NEW x, IsSeq(x), Nested(g.by, x) \in Seq(Values)
        PROVE  Enclosed(g, x)
    <2> DEFINE ps == Pairs(a)  y == Within(op, x)
    <2>1. y = ps \o x
      BY <1>1 DEF Within
    <2>2. IsSeq(ps) /\ PlainAttr[MaxDepth][a] /\ AllPlain(by)
      BY <1>2, <1>4, <1>5, PairsIsSeq DEF AllPlain
    <2> HIDE DEF ps, y
    <2>3. IsSeq(y)
      BY <1>5, <2>1, <2>2, ConcatIsSeq
    <2>4. Nested(g.by, x) = Nested(by, y)
      BY <1>2, <1>4 DEF y
    <2>5. Enclosed(h, y)
      BY <1>3, <1>5, <2>2, <2>3, <2>4, FitsSays DEF by
    <2> DEFINE u == h.prefix  z == Stream(x)  br == Breaks(h.depth)  e == Stream(ps)
    <2>6. y \in Seq(Values) /\ u \in Seq(Byte) /\ Stream(Nested(by, y)) = u \o (Stream(y) \o br)
      BY <2>5 DEF Enclosed, by
    <2>7. ps \in Seq(Values) /\ x \in Seq(Values)
      BY <1>5, <2>1, <2>2, <2>6, ConcatParts
    <2>8. Stream(y) = e \o z
      BY <2>1, <2>7, StreamConcat
    <2>9. e \in Seq(Byte) /\ z \in Seq(Byte)
      BY <2>7, StreamTyped
    <2>10. br \in Seq(Byte)
      BY <1>3, BreaksTyped
    <2>11. Attr(u, a) = u \o e
      BY <2>2, <2>6, <2>7, PairsAppended DEF ps
    <2> HIDE DEF u, z, br, e
    <2>12. (u \o e) \o (z \o br) = u \o ((e \o z) \o br)
      <3>1. FourBytes(u, e, z, br)
        BY <2>6, <2>9, <2>10 DEF FourBytes
      <3> QED BY <3>1, FourJoined
    <2>13. u \o e \in Seq(Byte)
      BY <2>6, <2>9, ConcatProperties
    <2>14. Stream(Nested(g.by, x)) = g.prefix \o (z \o br) /\ g.prefix \in Seq(Byte)
      BY <1>2, <2>4, <2>6, <2>8, <2>11, <2>12, <2>13 DEF u
    <2> QED BY <1>2, <2>7, <2>14 DEF Enclosed, z, br
  <1>6. NestsSeq(g.by)
    <2> SUFFICES ASSUME NEW x, IsSeq(x) PROVE IsSeq(Nested(g.by, x))
      BY DEF NestsSeq
    <2> DEFINE y == Within(op, x)
    <2>1. IsSeq(y)
      BY <1>1, PairsIsSeq, ConcatIsSeq DEF Within
    <2>2. Nested(g.by, x) = Nested(by, y)
      BY <1>2, <1>4
    <2> HIDE DEF y
    <2> QED BY <1>3, <2>1, <2>2 DEF NestsSeq
  <1> QED BY <1>2, <1>3, <1>4, <1>5, <1>6 DEF HandlerOk, HandlerFits

LEMMA WithGroupFits ==
  ASSUME NEW h, HandlerOk(h), NEW name, NEW g,
         g = [prefix |-> h.prefix \o Key(name) \o OpenMap, depth |-> h.depth + 1, by |-> Append(h.by, [open |-> name])]
  PROVE  HandlerOk(g)
  <1> DEFINE op == [open |-> name]  by == h.by  all == Append(by, op)  key == Key(name)
  <1>1. "open" \in DOMAIN op /\ op.open = name
    OBVIOUS
  <1>2. g.prefix = (h.prefix \o key) \o OpenMap /\ g.depth = h.depth + 1 /\ g.by = all
    OBVIOUS
  <1>3. h.depth \in Nat /\ h.depth + 1 \in Nat /\ IsSeq(by) /\ NestsSeq(by) /\ HandlerFits(h)
    BY DEF HandlerOk
  <1> HIDE DEF op, by
  <1>4. /\ IsSeq(all) /\ \A x : Nested(all, x) = Nested(by, Within(op, x))
        /\ AttrsOf(by) \subseteq AttrsOf(all)
    BY <1>3, AppendedBy
  <1> HIDE DEF all
  <1>5. ASSUME AllPlain(g.by), NEW x, IsSeq(x), Nested(g.by, x) \in Seq(Values)
        PROVE  Enclosed(g, x)
    <2> DEFINE y == Within(op, x)  m == Map(x, TRUE)
    <2>1. y = <<Str(name), m>>
      BY <1>1 DEF Within
    <2>2. AllPlain(by)
      BY <1>2, <1>4, <1>5 DEF AllPlain
    <2> HIDE DEF y
    <2>3. IsSeq(y)
      BY <2>1, TwoIsSeq
    <2>4. Nested(g.by, x) = Nested(by, y)
      BY <1>2, <1>4 DEF y
    <2>5. Enclosed(h, y)
      BY <1>3, <1>5, <2>2, <2>3, <2>4, FitsSays DEF by
    <2> DEFINE u == h.prefix  z == Stream(x)  br == Breaks(h.depth)  one == <<Break>>  o == OpenMap
    <2>6. y \in Seq(Values) /\ u \in Seq(Byte) /\ Stream(Nested(by, y)) = u \o (Stream(y) \o br)
      BY <2>5 DEF Enclosed, by
    <2>7. Str(name) \in Values /\ m \in Values
      <3> HIDE DEF m
      <3> QED BY <2>1, <2>6, TwoInside
    <2>8. /\ x \in Seq(Values) /\ Enc(m) = (o \o z) \o one
          /\ o \in Seq(Byte) /\ one \in Seq(Byte)
      BY <2>7, OpenMapIs
    <2>9. key \in Seq(Byte) /\ z \in Seq(Byte)
      BY <2>7, <2>8, EncGood, StreamTyped DEF Good, Key
    <2>10. Stream(y) = key \o Enc(m)
      <3> HIDE DEF m
      <3> QED BY <2>1, <2>7, StreamPair DEF Key
    <2>11. br \in Seq(Byte) /\ Breaks(h.depth + 1) = one \o br
      <3>1. br \in Seq(Byte)
        BY <1>3, BreaksTyped
      <3>2. Breaks(h.depth + 1) = one \o br
        BY <1>3, BreaksAre
      <3> QED BY <3>1, <3>2
    <2> HIDE DEF u, z, br, one, o, key, m
    <2>12. /\ ((u \o key) \o o) \o (z \o (one \o br)) = u \o ((key \o ((o \o z) \o one)) \o br)
           /\ (u \o key) \o o \in Seq(Byte)
      <3> DEFINE uk == u \o key  ob == one \o br  oz == o \o z  zob == z \o ob
                 ozo == oz \o one
      <3>1. uk \in Seq(Byte)
        BY <2>6, <2>9, ConcatProperties
      <3>2. ob \in Seq(Byte)
        BY <2>8, <2>11, ConcatProperties
      <3>3. oz \in Seq(Byte)
        BY <2>8, <2>9, ConcatProperties
      <3> HIDE DEF uk, ob, oz
      <3>4. (uk \o o) \o (z \o ob) = uk \o ((o \o z) \o ob)
        <4>1. FourBytes(uk, o, z, ob)
          BY <2>8, <2>9, <3>1, <3>2 DEF FourBytes
        <4> QED BY <4>1, FourJoined
      <3>5. (oz \o one) \o br = oz \o (one \o br)
        <4>1. ThreeBytes(oz, one, br)
          BY <2>8, <2>11, <3>3 DEF ThreeBytes
        <4> QED BY <4>1, Regrouped
      <3>6. ozo \in Seq(Byte)
        BY <2>8, <3>3, ConcatProperties
      <3> HIDE DEF ozo
      <3>7. (u \o key) \o (ozo \o br) = u \o ((key \o ozo) \o br)
        <4>1. FourBytes(u, key, ozo, br)
          BY <2>6, <2>9, <2>11, <3>6 DEF FourBytes
        <4> QED BY <4>1, FourJoined
      <3>8. uk \o o \in Seq(Byte)
        BY <2>8, <3>1, ConcatProperties
      <3> QED BY <3>4, <3>5, <3>7, <3>8 DEF uk, ob, oz, ozo
    <2>13. Stream(Nested(g.by, x)) = g.prefix \o (z \o (one \o br)) /\ g.prefix \in Seq(Byte)
      BY <1>2, <2>4, <2>6, <2>8, <2>10, <2>12 DEF u, o
    <2> QED BY <1>2, <2>8, <2>11, <2>13 DEF Enclosed, z
  <1>6. NestsSeq(g.by)
    <2> SUFFICES ASSUME NEW x, IsSeq(x) PROVE IsSeq(Nested(g.by, x))
      BY DEF NestsSeq
    <2> DEFINE y == Within(op, x)
    <2>1. IsSeq(y)
      BY <1>1, TwoIsSeq DEF Within
    <2>2. Nested(g.by, x) = Nested(by, y)
      BY <1>2, <1>4
    <2> HIDE DEF y
    <2> QED BY <1>3, <2>1, <2>2 DEF NestsSeq
  <1> QED BY <1>2, <1>3, <1>4, <1>5, <1>6 DEF HandlerOk, HandlerFits

(* A record between what its handler puts in front of it and behind it. *)
LEMMA RecordEncoded ==
  ASSUME NEW h, HandlerOk(h), AllPlain(h.by), NEW a \in Attrs, PlainAttr[MaxDepth][a], NEW m,
         m = Map(<<Str(1), Tagged(Str(1))>> \o Nested(h.by, Pairs(a)) \o LabelPairs, TRUE),
         m \in Values
  PROVE  OpenMap \o Message \o Attr(h.prefix, a) \o Breaks(h.depth) \o Stream(LabelPairs) \o <<Break>> = Enc(m)
  <1> DEFINE one == <<Break>>  o == OpenMap  ps == Pairs(a)  mid == Nested(h.by, ps)  ls == LabelPairs
             text == <<Str(1), Tagged(Str(1))>>  vs == (text \o mid) \o ls
             u == h.prefix  br == Breaks(h.depth)
  <1>1. m = Map(vs, TRUE)
    OBVIOUS
  <1> HIDE DEF vs
  <1>2. vs \in Seq(Values) /\ Enc(m) = (o \o Stream(vs)) \o one /\ o \in Seq(Byte) /\ one \in Seq(Byte)
    BY <1>1, OpenMapIs
  <1>3. IsSeq(text) /\ IsSeq(mid) /\ IsSeq(ls)
    <2>1. IsSeq(mid)
      BY PairsIsSeq DEF HandlerOk, NestsSeq
    <2>2. IsSeq(text)
      BY TwoIsSeq
    <2>3. IsSeq(ls)
      BY LabelsAssumption DEF IsSeq
    <2> QED BY <2>1, <2>2, <2>3
  <1> HIDE DEF text, mid, ls
  <1>4. text \o mid \in Seq(Values) /\ ls \in Seq(Values)
    <2> DEFINE tm == text \o mid
    <2>1. IsSeq(tm)
      BY <1>3, ConcatIsSeq
    <2>2. tm \o ls \in Seq(Values)
      BY <1>2 DEF vs
    <2> HIDE DEF tm
    <2>3. tm \in Seq(Values) /\ ls \in Seq(Values)
      BY <1>3, <2>1, <2>2, ConcatParts
    <2> QED BY <2>3 DEF tm
  <1>5. text \in Seq(Values) /\ mid \in Seq(Values)
    BY <1>3, <1>4, ConcatParts
  <1>6. Stream(vs) = (Stream(text) \o Stream(mid)) \o Stream(ls)
    <2>1. Stream(text \o mid) = Stream(text) \o Stream(mid)
      BY <1>5, StreamConcat
    <2> DEFINE tm == text \o mid
    <2>2. tm \in Seq(Values)
      BY <1>4
    <2>3. vs = tm \o ls
      BY DEF vs
    <2> HIDE DEF tm
    <2>4. Stream(vs) = Stream(tm) \o Stream(ls)
      BY <1>4, <2>2, <2>3, StreamConcat
    <2> QED BY <2>1, <2>4 DEF tm
  <1>7. Stream(text) = Message
    <2> DEFINE s == Str(1)  t == Tagged(s)  key == Key(1)  tag == Size("label", 1)
    <2>1. s \in Values /\ t \in Values
      <3> HIDE DEF s, t
      <3>1. <<s, t>> \in Seq(Values)
        BY <1>5 DEF text, s, t
      <3> QED BY <3>1, TwoInside
    <2>2. Enc(t) = tag \o Enc(s) /\ tag \in Seq(Byte)
      BY <2>1, LabelInside
    <2>3. Stream(<<s, t>>) = Enc(s) \o Enc(t)
      <3> HIDE DEF s, t
      <3> QED BY <2>1, StreamPair
    <2>4. key = Enc(s) /\ key \in Seq(Byte)
      BY <2>1, EncGood DEF Key, Good
    <2>5. Stream(text) = key \o (tag \o key) /\ Message = (key \o tag) \o key
      <3>1. Message = (key \o tag) \o key
        BY DEF Message
      <3> HIDE DEF key, s, t, tag
      <3>2. Stream(text) = key \o (tag \o key)
        BY <2>2, <2>3, <2>4 DEF text, s, t
      <3> QED BY <3>1, <3>2
    <2> HIDE DEF key, tag
    <2>6. (key \o tag) \o key = key \o (tag \o key)
      <3>1. ThreeBytes(key, tag, key)
        BY <2>2, <2>4 DEF ThreeBytes
      <3> QED BY <3>1, Regrouped
    <2> QED BY <2>5, <2>6
  <1>8. IsSeq(ps) /\ HandlerFits(h) /\ h.depth \in Nat
    BY PairsIsSeq DEF HandlerOk
  <1>9. Enclosed(h, ps)
    BY <1>5, <1>8, FitsSays DEF mid
  <1> HIDE DEF ps
  <1>10. /\ ps \in Seq(Values) /\ u \in Seq(Byte)
         /\ Stream(mid) = u \o (Stream(ps) \o br)
    BY <1>9 DEF Enclosed, mid
  <1>11. Attr(u, a) = u \o Stream(ps)
    BY <1>10, PairsAppended DEF ps
  <1>12. br \in Seq(Byte)
    BY <1>8, BreaksTyped
  <1>13. Stream(ps) \in Seq(Byte) /\ Stream(ls) \in Seq(Byte) /\ Stream(text) \in Seq(Byte)
    BY <1>4, <1>5, <1>10, StreamTyped
  <1> DEFINE e == Stream(ps)  z == Stream(ls)  g == Message
  <1>14. e \in Seq(Byte) /\ z \in Seq(Byte) /\ g \in Seq(Byte)
    BY <1>7, <1>13
  <1>15. OpenMap \o Message \o Attr(h.prefix, a) \o Breaks(h.depth) \o Stream(LabelPairs) \o <<Break>>
           = ((((o \o g) \o (u \o e)) \o br) \o z) \o one
    BY <1>11 DEF ls
  <1> HIDE DEF one, o, u, br, e, z, g
  <1>16. Enc(m) = (o \o ((g \o (u \o (e \o br))) \o z)) \o one
    BY <1>2, <1>6, <1>7, <1>10 DEF e, z, g
  <1>17. SixBytes(o, g, u, e, br, z)
    BY <1>2, <1>10, <1>12, <1>14 DEF SixBytes, ThreeBytes
  <1>18. Joined(o, g, u, e, br, z)
    BY <1>17, SixJoined
  <1>19. (((o \o g) \o (u \o e)) \o br) \o z = o \o ((g \o (u \o (e \o br))) \o z)
    BY <1>18 DEF Joined
  <1> QED BY <1>15, <1>16, <1>19

(* The handlers, however they were derived, and the event. *)
EncInv == IsSeq(handlers) /\ (\A h \in ToSet(handlers) : HandlerOk(h)) /\ EncodedAsMeant

LEMMA EncStart == EncInit => EncInv
  <1> SUFFICES ASSUME EncInit PROVE EncInv
    OBVIOUS
  <1> DEFINE h == [prefix |-> << >>, depth |-> 0, by |-> << >>]
  <1>1. handlers = <<h>> /\ event = << >>
    BY DEF EncInit
  <1>2. h.prefix = << >> /\ h.depth = 0 /\ h.by = << >>
    OBVIOUS
  <1> HIDE DEF h
  <1>3. ASSUME NEW x, Nested(h.by, x) \in Seq(Values)
        PROVE  Enclosed(h, x)
    <2>1. Nested(h.by, x) = x
      BY <1>2, NestedNone
    <2> DEFINE none == << >>  z == Stream(x)
    <2>2. x \in Seq(Values) /\ none \in Seq(Byte) /\ z \in Seq(Byte)
      BY <1>3, <2>1, EmptySeq, StreamTyped
    <2>3. z \o none = z /\ none \o z = z
      BY <2>2, ConcatEmptySeq
    <2>4. Breaks(h.depth) = none /\ h.prefix = none
      BY <1>2, BreaksNone
    <2> HIDE DEF none, z
    <2>5. Stream(Nested(h.by, x)) = h.prefix \o (z \o Breaks(h.depth))
      BY <2>1, <2>3, <2>4 DEF z
    <2> QED BY <2>2, <2>4, <2>5 DEF Enclosed, z
  <1>4. HandlerOk(h)
    <2>1. NestsSeq(h.by)
      BY <1>2, NestedNone DEF NestsSeq
    <2> QED BY <1>2, <1>3, <2>1, NoneIsSeq DEF HandlerOk, HandlerFits
  <1>5. IsSeq(<<h>>) /\ ToSet(<<h>>) = {h}
    <2>1. <<h>> \in Seq({h})
      OBVIOUS
    <2>2. DOMAIN <<h>> = {1} /\ <<h>>[1] = h
      OBVIOUS
    <2> QED BY <2>1, <2>2 DEF IsSeq, ToSet
  <1> QED BY <1>1, <1>4, <1>5 DEF EncInv, EncodedAsMeant

LEMMA DerivedOk ==
  ASSUME EncInv, NEW g, HandlerOk(g), handlers' = Append(handlers, g), event' = << >>
  PROVE  EncInv'
  <1>1. PICK A : handlers \in Seq(A)
    BY DEF EncInv, IsSeq
  <1> DEFINE S == A \union {g}  hs == handlers  n == Len(handlers)
  <1>2. hs \in Seq(S) /\ g \in S
    <2>1. \A k \in 1..Len(hs) : hs[k] \in S
      BY <1>1, ElementOfSeq
    <2> HIDE DEF S
    <2>2. hs \in Seq(S)
      BY <1>1, <2>1, ElementsIn
    <2> QED BY <2>2 DEF S
  <1> HIDE DEF S
  <1>3. /\ handlers' \in Seq(S) /\ n \in Nat /\ Len(handlers') = n + 1 /\ handlers'[n + 1] = g
        /\ \A k \in 1..n : handlers'[k] = hs[k]
    BY <1>2, AppendProperties, LenProperties
  <1>4. DOMAIN hs = 1..n /\ DOMAIN handlers' = 1..n + 1
    BY <1>2, <1>3, LenProperties
  <1>5. ASSUME NEW h \in ToSet(handlers') PROVE HandlerOk(h)
    <2>1. PICK k \in DOMAIN handlers' : h = handlers'[k]
      BY <1>5 DEF ToSet
    <2>2. CASE k = n + 1
      BY <1>3, <2>1, <2>2
    <2>3. CASE k # n + 1
      <3>1. k \in 1..n
        BY <1>3, <1>4, <2>1, <2>3
      <3>2. h \in ToSet(handlers)
        BY <1>3, <1>4, <2>1, <3>1 DEF ToSet
      <3> QED BY <3>2 DEF EncInv
    <2> QED BY <2>2, <2>3
  <1>6. EncodedAsMeant'
    BY DEF EncodedAsMeant
  <1>7. IsSeq(handlers')
    BY <1>3 DEF IsSeq
  <1> QED BY <1>5, <1>6, <1>7 DEF EncInv

(* attr, group and Handle of the Handler (slog.go:68) *)
LEMMA EncStep == EncInv /\ [EncNext]_encVars => EncInv'
  <1> SUFFICES ASSUME EncInv, [EncNext]_encVars PROVE EncInv'
    OBVIOUS
  <1>1. CASE UNCHANGED encVars
    BY <1>1 DEF EncInv, encVars, EncodedAsMeant, Plain, Meant
  <1>2. CASE EncNext
    <2>1. PICK h \in ToSet(handlers) :
            \/ \E a \in Attrs : WithAttrs(h, a) \/ Handle(h, a)
            \/ \E name \in GroupNames : WithGroup(h, name)
      BY <1>2 DEF EncNext
    <2>2. HandlerOk(h)
      BY DEF EncInv
    <2>3. ASSUME NEW a \in Attrs, WithAttrs(h, a) PROVE EncInv'
      <3> DEFINE g == [prefix |-> Attr(h.prefix, a), depth |-> h.depth, by |-> Append(h.by, [attr |-> a])]
      <3>1. handlers' = Append(handlers, g) /\ event' = << >>
        BY <2>3 DEF WithAttrs, Derive
      <3>2. HandlerOk(g)
        BY <2>2, WithAttrsFits
      <3> HIDE DEF g
      <3> QED BY <3>1, <3>2, DerivedOk
    <2>4. ASSUME NEW name \in GroupNames, WithGroup(h, name) PROVE EncInv'
      <3>1. CASE UNCHANGED encVars
        BY <1>1, <3>1
      <3>2. CASE Derive(h, [open |-> name], h.prefix \o Key(name) \o OpenMap, h.depth + 1)
        <4> DEFINE g == [prefix |-> h.prefix \o Key(name) \o OpenMap, depth |-> h.depth + 1,
                         by |-> Append(h.by, [open |-> name])]
        <4>1. handlers' = Append(handlers, g) /\ event' = << >>
          BY <3>2 DEF Derive
        <4>2. HandlerOk(g)
          BY <2>2, WithGroupFits
        <4> HIDE DEF g
        <4> QED BY <4>1, <4>2, DerivedOk
      <3> QED BY <2>4, <3>1, <3>2 DEF WithGroup
    <2>5. ASSUME NEW a \in Attrs, Handle(h, a) PROVE EncInv'
      <3>1. /\ record' = [by |-> h.by, attr |-> a] /\ handlers' = handlers
            /\ event' = OpenMap \o Message \o Attr(h.prefix, a) \o Breaks(h.depth) \o Stream(LabelPairs) \o <<Break>>
        BY <2>5 DEF Handle
      <3> DEFINE m == Map(<<Str(1), Tagged(Str(1))>> \o Nested(h.by, Pairs(a)) \o LabelPairs, TRUE)
      <3>2. Meant' = m
        BY <3>1 DEF Meant
      <3>3. ASSUME Plain' PROVE event' = Enc(Meant')
        <4>1. AllPlain(h.by) /\ PlainAttr[MaxDepth][a] /\ m \in Values
          BY <3>1, <3>2, <3>3 DEF Plain, AllPlain
        <4>2. OpenMap \o Message \o Attr(h.prefix, a) \o Breaks(h.depth) \o Stream(LabelPairs) \o <<Break>> = Enc(m)
          BY <2>2, <4>1, RecordEncoded
        <4> QED BY <3>1, <3>2, <4>2
      <3>4. EncodedAsMeant'
        BY <3>3 DEF EncodedAsMeant
      <3> QED BY <3>1, <3>4 DEF EncInv
    <2> QED BY <2>1, <2>3, <2>4, <2>5
  <1> QED BY <1>1, <1>2

(* EncodedAsMeant, for any values, attributes and labels: AppendValue      *)
(* (encoder_value.go) and the Handler (slog.go) encode what was logged.    *)
THEOREM RecordsAreEncoded == EncSpec => []EncodedAsMeant
  <1>1. EncInv => EncodedAsMeant
    BY DEF EncInv
  <1> QED BY <1>1, EncStart, EncStep, PTL DEF EncSpec
=============================================================================
