------------------------------ MODULE Encoding ------------------------------
(***************************************************************************)
(* Encoder.AppendValue (src/tlwire/encoder_value.go, struct.go), which     *)
(* walks Go values by reflection and remembers the pointers it is inside   *)
(* of, and the slog Handler (src/ext/tlslog/slog.go), which encodes        *)
(* records with it: handlers are derived from handlers, each keeps what it *)
(* has to put before the attributes, and how many groups that opens.       *)
(*                                                                         *)
(* A Go value is a value of Codec (a scalar, a string, and what encodes    *)
(* itself), a nil, a func, a pointer to an object of the heap at some      *)
(* address, a list, a map or a struct.  Keys are told apart by their       *)
(* length.  Left out: maps and slices that contain themselves without a    *)
(* pointer (the encoder never returns), encoders that panic, fields whose  *)
(* own IsZero decides for omitzero, and a LogValuer that resolves to a     *)
(* group (attr looks at the kind before it resolves, and appends the       *)
(* attributes as a list of structs).                                       *)
(***************************************************************************)
EXTENDS Codec, FiniteSets

CONSTANTS
  GoValues,      (* values, with all that are in them                      *)
  Heap,          (* objects that pointers point to                         *)
  Attrs,         (* attributes, with those in their groups: a key (0:      *)
                 (* empty), and a value or a group                         *)
  GroupNames,
  LabelPairs,    (* the labels of the Logger                               *)
  MaxOps         (* bound: handlers derived                                *)

(* The tag of a field: none, one with a name only, or with an option.      *)
Opts == {"plain", "named", "hex", "omitempty", "omitzero", "embed", "private"}

(* What is in a value, an object or a group is listed too.                 *)
ASSUME GoValuesAssumption ==
  \A v \in GoValues :
    \/ v \in Values \/ v.k \in {"nil", "func"}
    \/ v.k = "ptr" /\ v.at \in Nat /\ v.to \in DOMAIN Heap /\ Heap[v.to] \in GoValues
    \/ v.k \in {"list", "gomap"} /\ v.vs \in Seq(GoValues)
    \/ v.k = "struct" /\ v.fs \in Seq([name : Nat, opt : Opts, v : GoValues])

ASSUME AttrsAssumption ==
  \A a \in Attrs : a \in [key : Nat, value : GoValues] \/ a \in [key : Nat, group : Seq(Attrs)]

ASSUME LabelsAssumption == LabelPairs \in Seq(Values)

VARIABLES
  handlers,      (* prefix and depth of each, and what it was derived by   *)
  record,        (* attributes of the record handled, if that came last    *)
  event          (* what was written for it                                *)

encVars == <<handlers, record, event>>

-----------------------------------------------------------------------------
(* Values.  st is the buffer and the set visited.                          *)
States == [b : Seq(Byte), visited : SUBSET Nat]

Put(st, bytes) == [st EXCEPT !.b = @ \o bytes]
Str(n) == [k |-> "str", n |-> n, long |-> Width(n)]
Key(n) == Enc(Str(n))
Size(tag, n) == Header(tag, n, Width(n))
OpenMap == << <<"map", "open", 0>> >>
Special(s) == << <<"special", s, 0>> >>

Visited(st, at) == [st EXCEPT !.visited = @ \union {at}]

(* Mutant: pointers stay visited. *)
LeftNot(st, at) == st
Left(st, at) == [st EXCEPT !.visited = @ \ {at}]

(* reflect.Value.IsZero: zero, an empty text, false, nil, and a struct of   *)
(* such fields.                                                            *)
ZeroStep(zero, v) ==
  \/ v.k = "nil" \/ (v.k = "int" /\ v.more = 0) \/ (v.k = "str" /\ v.n = 0)
  \/ v.k = "special" /\ v.s = "false"
  \/ v.k = "struct" /\ \A j \in DOMAIN v.fs : zero[v.fs[j].v]
Zero[d \in 0..MaxDepth] == [v \in GoValues |-> d # 0 /\ ZeroStep(Zero[d - 1], v)]
IsZero(v) == Zero[MaxDepth][v]

(* What is written of a field.  parseStruct leaves out fields that are     *)
(* private or named "-", and funcs without a tag; omitempty and omitzero   *)
(* leave out zero values.                                                  *)
Part(f) ==
  IF \/ f.opt = "private" \/ (f.opt = "plain" /\ f.v.k = "func")
     \/ f.opt \in {"omitempty", "omitzero"} /\ IsZero(f.v)
  THEN "nothing"
  ELSE IF f.opt = "embed" /\ f.v.k = "struct" THEN "fields" ELSE "value"

(* A value is appended, or the fields of a struct, behind some bytes.      *)
Items == Seq(Byte) \X GoValues \X {"value", "fields", "nothing"}
Item(v) == << << >>, v, "value">>
Field(f) ==
  LET hex == IF f.opt = "hex" THEN Size("label", 1) ELSE << >> IN
  <<IF Part(f) = "value" THEN Key(f.name) \o hex ELSE << >>, f.v, Part(f)>>

(* One call after the other, given what they return. *)
Each(calls, st, xs) ==
  LET upto[j \in 0..Len(xs)] == IF j = 0 THEN st ELSE calls[<<upto[j - 1], xs[j]>>] IN upto[Len(xs)]

Fields(calls, st, v) == Each(calls, st, [j \in DOMAIN v.fs |-> Field(v.fs[j])])

AppendStep(calls, st, v) ==
  CASE v.k = "nil" -> Put(st, Special("nil"))
    [] v.k = "func" -> Put(st, Special("undefined"))
    [] v.k = "ptr" ->
         IF v.at \in st.visited THEN Put(st, Special("selfref"))
         ELSE Left(calls[<<Visited(st, v.at), Item(Heap[v.to])>>], v.at)
    [] v.k \in {"list", "gomap"} ->
         Each(calls, Put(st, IF v.k = "list" THEN Size("array", Len(v.vs)) ELSE Size("map", Len(v.vs) \div 2)),
              [j \in DOMAIN v.vs |-> Item(v.vs[j])])
    [] v.k = "struct" -> Put(Fields(calls, Put(st, OpenMap), v), <<Break>>)
    [] OTHER -> Put(st, Enc(v))

(* Calls of appendRaw and appendStructFields, up to d inside of each other. *)
AppendRaw[d \in 0..MaxDepth] ==
  [at \in States \X Items |->
     LET st == Put(at[1], at[2][1])  v == at[2][2]  part == at[2][3] IN
     IF d = 0 \/ part = "nothing" THEN st
     ELSE IF part = "fields" THEN Fields(AppendRaw[d - 1], st, v) ELSE AppendStep(AppendRaw[d - 1], st, v)]

AppendValue(b, v) == AppendRaw[MaxDepth][<<[b |-> b, visited |-> {}], Item(v)>>].b

-----------------------------------------------------------------------------
(* The Handler.                                                            *)
IsGroup(a) == "group" \in DOMAIN a

(* attr: an attribute without key is left out, a group without attributes  *)
(* too, a group without key is inlined, any other is a map of as many      *)
(* pairs as the group has attributes.                                      *)
AttrStep(calls, b, a) ==
  IF ~IsGroup(a) THEN IF a.key = 0 THEN b ELSE AppendValue(b \o Key(a.key), a.value)
  ELSE IF a.group = << >> THEN b
  ELSE Each(calls, IF a.key = 0 THEN b ELSE b \o Key(a.key) \o Size("map", Len(a.group)), a.group)

AppendAttr[d \in 0..MaxDepth] ==
  [at \in Seq(Byte) \X Attrs |-> IF d = 0 THEN at[1] ELSE AttrStep(AppendAttr[d - 1], at[1], at[2])]

Attr(b, a) == AppendAttr[MaxDepth][<<b, a>>]

Message == Key(1) \o Size("label", 1) \o Key(1)

Breaks(n) == [k \in 1..n |-> Break]

EncInit ==
  /\ handlers = <<[prefix |-> << >>, depth |-> 0, by |-> << >>]>>
  /\ record = << >> /\ event = << >>

Derive(h, op, prefix, depth) ==
  /\ Len(handlers) <= MaxOps
  /\ handlers' = Append(handlers, [prefix |-> prefix, depth |-> depth, by |-> Append(h.by, op)])
  /\ record' = << >> /\ event' = << >>

WithAttrs(h, a) == Derive(h, [attr |-> a], Attr(h.prefix, a), h.depth)

(* A group without a name is none: the handler itself is returned. *)
WithGroup(h, name) ==
  \/ name = 0 /\ UNCHANGED encVars
  \/ name # 0 /\ Derive(h, [open |-> name], h.prefix \o Key(name) \o OpenMap, h.depth + 1)

(* Handle: the groups are closed before the labels are appended.           *)
Handle(h, a) ==
  /\ record' = [by |-> h.by, attr |-> a]
  /\ event' = OpenMap \o Message \o Attr(h.prefix, a) \o Breaks(h.depth) \o Stream(LabelPairs) \o <<Break>>
  /\ UNCHANGED handlers

EncNext ==
  \E h \in ToSet(handlers) :
    \/ \E a \in Attrs : WithAttrs(h, a) \/ Handle(h, a)
    \/ \E name \in GroupNames : WithGroup(h, name)

EncSpec == EncInit /\ [][EncNext]_encVars

-----------------------------------------------------------------------------
(* What a value means: its tree, in which a pointer to an object that      *)
(* contains it is a self reference, and no other is.  inside are the       *)
(* addresses and objects a value is in.                                    *)
Map(vs, open) == [k |-> "map", vs |-> vs, open |-> open]
Mark(s) == [k |-> "special", s |-> s, more |-> 0]
Tagged(v) == [k |-> "label", v |-> v]

Insides == SUBSET (Nat \X DOMAIN Heap)

FieldTrees(trees, v, inside) ==
  FlattenSeq([j \in DOMAIN v.fs |->
    LET f == v.fs[j]  t == trees[<<f.v, inside, Part(f)>>] IN
    IF Part(f) = "value" THEN <<Str(f.name), IF f.opt = "hex" THEN Tagged(t) ELSE t>> ELSE t])

TreeStep(trees, v, inside) ==
  LET Elems == [j \in DOMAIN v.vs |-> trees[<<v.vs[j], inside, "value">>]] IN
  CASE v.k = "nil" -> Mark("nil")
    [] v.k = "func" -> Mark("undefined")
    [] v.k = "ptr" ->
         IF \E q \in inside : q[2] = v.to THEN Mark("selfref")
         ELSE trees[<<Heap[v.to], inside \union {<<v.at, v.to>>}, "value">>]
    [] v.k = "list" -> [k |-> "array", open |-> FALSE, vs |-> Elems]
    [] v.k = "gomap" -> Map(Elems, FALSE)
    [] v.k = "struct" -> Map(FieldTrees(trees, v, inside), TRUE)
    [] OTHER -> v

Trees[d \in 0..MaxDepth] ==
  [at \in GoValues \X Insides \X {"value", "fields", "nothing"} |->
     IF d = 0 \/ at[3] = "nothing" THEN << >>
     ELSE IF at[3] = "fields" THEN FieldTrees(Trees[d - 1], at[1], at[2])
     ELSE TreeStep(Trees[d - 1], at[1], at[2])]

Tree(v) == Trees[MaxDepth][<<v, {}, "value">>]

(* Pairs of an attribute, and of what a handler was derived by.            *)
PairsStep(pairs, a) ==
  IF ~IsGroup(a) THEN IF a.key = 0 THEN << >> ELSE <<Str(a.key), Tree(a.value)>>
  ELSE LET all == FlattenSeq([j \in DOMAIN a.group |-> pairs[a.group[j]]]) IN
       IF a.key = 0 \/ a.group = << >> THEN all ELSE <<Str(a.key), Map(all, FALSE)>>

PairsOf[d \in 0..MaxDepth] == [a \in Attrs |-> IF d = 0 THEN << >> ELSE PairsStep(PairsOf[d - 1], a)]

Pairs(a) == PairsOf[MaxDepth][a]

Within(op, pairs) ==
  IF "open" \in DOMAIN op THEN <<Str(op.open), Map(pairs, TRUE)>> ELSE Pairs(op.attr) \o pairs
Nested(by, pairs) ==
  LET last[n \in 0..Len(by)] == IF n = 0 THEN pairs ELSE Within(by[Len(by) + 1 - n], last[n - 1])
  IN last[Len(by)]

Meant == Map(<<Str(1), Tagged(Str(1))>> \o Nested(record.by, Pairs(record.attr)) \o LabelPairs, TRUE)

(* Values in which pointers have the same address when they point to the   *)
(* same object: one to the first field of a struct has the address of the  *)
(* struct.                                                                 *)
ApartStep(apart, v, inside) ==
  CASE v.k = "ptr" ->
         /\ \A q \in inside : q[1] = v.at <=> q[2] = v.to
         /\ <<v.at, v.to>> \in inside \/ apart[<<Heap[v.to], inside \union {<<v.at, v.to>>}>>]
    [] v.k \in {"list", "gomap"} -> \A j \in DOMAIN v.vs : apart[<<v.vs[j], inside>>]
    [] v.k = "struct" -> \A j \in DOMAIN v.fs : Part(v.fs[j]) = "nothing" \/ apart[<<v.fs[j].v, inside>>]
    [] OTHER -> TRUE

Apart[d \in 0..MaxDepth] ==
  [at \in GoValues \X Insides |-> d # 0 /\ ApartStep(Apart[d - 1], at[1], at[2])]

(* Attributes with such values, and with groups that have the number of    *)
(* pairs they announce if they are named, which is that of attributes.     *)
PlainAttr[d \in 0..MaxDepth] ==
  [a \in Attrs |->
     /\ d # 0
     /\ IF IsGroup(a)
        THEN \A j \in DOMAIN a.group : /\ PlainAttr[d - 1][a.group[j]]
                                       /\ a.key # 0 => Len(PairsOf[d - 1][a.group[j]]) = 2
        ELSE a.key = 0 \/ Apart[MaxDepth][<<a.value, {}>>]]

AttrsOf(by) == {by[j].attr : j \in {n \in DOMAIN by : "attr" \in DOMAIN by[n]}}

(* A record of such attributes, and what it means has an encoding.         *)
Plain ==
  /\ \A a \in AttrsOf(record.by) \union {record.attr} : PlainAttr[MaxDepth][a]
  /\ Meant \in Values

(* A record is encoded as one event that says what was logged: each group  *)
(* holds its attributes and ends before the labels, from whatever handler  *)
(* it comes, and a value is written out but where it contains itself.      *)
(* (Named groups with attributes left out or inlined announce too many or  *)
(* too few pairs, and a first field is taken for its struct.)              *)
EncodedAsMeant == event # << >> /\ Plain => event = Enc(Meant)
=============================================================================
