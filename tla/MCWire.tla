------------------------------- MODULE MCWire --------------------------------
(* The wire format for TLC, three parts beside each other: the reader of a *)
(* stream, the encoding and rewriting of records, and the labels.          *)
EXTENDS Wire

(* Values of every kind, in the forms of Codec. *)
Small == [k |-> "int", more |-> 0]
LongInt == [k |-> "int", more |-> 2]
Text(n) == [k |-> "str", n |-> n, long |-> 0]
LongText(n, len) == [k |-> "str", n |-> n, long |-> len]
Labelled(v) == [k |-> "label", v |-> v]
Sp(s, more) == [k |-> "special", s |-> s, more |-> more]
MapOf(vs, open) == [k |-> "map", vs |-> vs, open |-> open]
Array(vs, open) == [k |-> "array", vs |-> vs, open |-> open]

Singles == {Small, Text(2), LongText(1, 1), Labelled(LongInt), Sp("nil", 0), Sp("float16", 2)}
Containers == {Array(<<Small, Text(1)>>, FALSE), Array(<< >>, TRUE),
               MapOf(<<Text(1), Sp("true", 0)>>, FALSE), Labelled(Array(<<Labelled(Small)>>, TRUE))}
SelfRefs == {MapOf(<<Text(1), Sp("selfref", 0)>>, TRUE)}
(* Events, as the Logger emits them: maps of open length. *)
MapsOpen == {MapOf(<<Text(1), v>>, TRUE) : v \in Singles \union Containers}
            \union {MapOf(<<Text(1), Small, Text(0), LongText(2, 2)>>, TRUE), MapOf(<< >>, TRUE),
                    MapOf(<<Text(1), Small>>, FALSE)} \union SelfRefs

-----------------------------------------------------------------------------
(* Go values: a ring of pointers, an object shared by two, a struct with a *)
(* pointer to its first field (which has the same address).                *)
Ptr(p, o) == [k |-> "ptr", at |-> p, to |-> o]
Struct(fields) == [k |-> "struct", fs |-> fields]
Named(n, opt, v) == [name |-> n, opt |-> opt, v |-> v]
List(vs) == [k |-> "list", vs |-> vs]
Nothing == [k |-> "nil"]

MCHeap ==
  << Struct(<<Named(1, "omitempty", Nothing), Named(2, "plain", Ptr(2, 2))>>),
     List(<<Ptr(1, 1), Ptr(3, 3), Ptr(3, 3)>>),
     Struct(<<Named(1, "hex", LongInt), Named(1, "private", Ptr(1, 1)),
              Named(3, "embed", Struct(<<Named(2, "named", [k |-> "func"]), Named(1, "plain", [k |-> "func"]),
                                                Named(3, "omitempty", Text(1)),
                                                Named(1, "omitzero", Struct(<<Named(1, "plain", Text(0))>>))>>))>>),
     Struct(<<Named(1, "plain", LongInt), Named(2, "plain", Ptr(4, 5))>>),
     LongInt >>

Of(n, v) == [key |-> n, value |-> v]
Group(n, as) == [key |-> n, group |-> as]
MCAttrs ==
  {Of(2, Ptr(1, 1)), Of(3, Ptr(4, 4)), Of(0, Small), Of(2, Small), Group(3, << >>),
   Of(2, List(<<Labelled(Small), Nothing, [k |-> "gomap", vs |-> <<Text(2), Ptr(3, 3)>>]>>)),
   Of(2, [k |-> "gomap", vs |-> <<Small, Text(1)>>]),
   Group(2, <<Of(3, LongInt), Of(2, Small)>>), Of(3, LongInt), Of(2, Labelled(LongInt)),
   Group(3, <<Of(2, Labelled(LongInt)), Group(2, <<Of(3, LongInt), Of(2, Small)>>)>>),
   Group(0, <<Of(2, Small), Group(3, << >>), Of(0, Small)>>)}
MCLabels == <<Text(4), Labelled(Text(5))>>

RECURSIVE PartsOf(_)
PartsOf(v) ==
  {v} \union CASE v.k \in {"list", "gomap"} -> UNION {PartsOf(v.vs[j]) : j \in DOMAIN v.vs}
               [] v.k = "struct" -> UNION {PartsOf(v.fs[j].v) : j \in DOMAIN v.fs}
               [] OTHER -> {}
MCGoValues == UNION {PartsOf(v) : v \in ToSet(MCHeap) \union {a.value : a \in {x \in MCAttrs : ~IsGroup(x)}}}

(* Rules: rename, add a prefix or leave out, at the key or behind its tag. *)
Rule(remove, rename, prefix) == [remove |-> remove, rename |-> rename, prefix |-> prefix]
Tag == << <<"label", "short", 1>> >>
K(n) == Enc(Text(n))
MCRuleSets ==
  {[q \in {<<K(1), Tag>>} |-> Rule(TRUE, 0, 0)],
   [q \in {<<K(2)>>, <<K(3), K(2)>>} |-> Rule(q = <<K(2)>>, 6, 0)],
   [q \in {<<K(4), Tag>>, <<K(3), K(2), Tag>>, <<K(3), K(3), K(3)>>} |-> Rule(FALSE, 0, 2)],
   [q \in {<<K(2), K(2)>>, <<K(3), K(2)>>, <<K(3), K(3)>>} |-> Rule(TRUE, 0, 0)]}

-----------------------------------------------------------------------------
VARIABLE part

writing == <<handlers, record, event>>
labelling == <<kvs, done, stage, mods, b, w, r, keyed, made>>

MCInit ==
  /\ part \in {"read", "write", "label"}
  /\ IF part = "read" THEN Init
     ELSE /\ sent = << >> /\ src = << >> /\ buf = << >> /\ i = 1
          /\ pc = "none" /\ err = "none" /\ got = << >> /\ faults = 0
  /\ EncInit
  /\ IF part = "label" THEN L!Init
     ELSE /\ kvs = << >> /\ done = 0 /\ stage = "none" /\ mods = << >>
          /\ b = << >> /\ w = 0 /\ r = 0 /\ keyed = TRUE /\ made = << >>

(* Handle leaves the handlers as they are, so what can be done after it    *)
(* can be done without it: a record is the last of its behavior.           *)
Recorded == event # << >> /\ UNCHANGED writing

MCNext ==
  /\ UNCHANGED part
  /\ \/ part = "read" /\ Next /\ UNCHANGED <<writing, labelling>>
     \/ part = "write" /\ (Recorded \/ (event = << >> /\ EncNext)) /\ UNCHANGED <<vars, labelling>>
     \/ part = "label" /\ L!Next /\ UNCHANGED <<vars, writing>>

MCSpec == MCInit /\ [][MCNext]_<<part, vars, writing, labelling>>
=============================================================================
