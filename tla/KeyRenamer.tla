------------------------------ MODULE KeyRenamer -----------------------------
(***************************************************************************)
(* convert.Rewriter with a KeyRenamer (src/convert/rewriter.go): copies an *)
(* event pair by pair; a rule whose path is that of a pair gives its key   *)
(* another name or a prefix, or leaves the pair out.  The path of a value  *)
(* is the keys above it, the label tags before it and a mark for each      *)
(* array around it.  The key of a pair is held back until the value behind *)
(* it and its label tags is met, as a rule may want neither.               *)
(*                                                                         *)
(* It is fed with what Encoding writes.  Rules are told apart by paths of  *)
(* their own; names are lengths as there: a prefix is added to a key.      *)
(***************************************************************************)
EXTENDS Encoding

CONSTANT RuleSets      (* sets of rules: functions of paths                *)

Paths == Seq(Seq(Byte))

ArrayMark == << <<"array", "short", 0>> >>

(* Mutant: a rule that renames drops the label tags behind the key. *)
RenamedBare(rule, p, kst, st) ==
  Key(rule.prefix + IF rule.rename = 0 THEN p[kst][3] ELSE rule.rename)

(* KeyRenamer.Rewrite, where a rule fits: the value follows unchanged.     *)
Renamed(rule, p, kst, st) ==
  LET key == ReadTag(p, kst) IN
  Key(rule.prefix + IF rule.rename = 0 THEN key.l ELSE rule.rename)
    \o SubSeq(p, key.next + key.l, st - 1)

Apply(rule, b, p, kst, st) ==
  LET end == DecoderSkip(p, st) IN
  [i |-> end,
   b |-> IF rule.remove THEN b ELSE b \o Renamed(rule, p, kst, st) \o SubSeq(p, st, end - 1)]

(* An element of an array or a pair of a map, given the calls for values.  *)
(* A key is read as a text: its number is a length whatever its tag says.  *)
(* One that reaches past the event makes the code panic; nothing is said   *)
(* of that here, nor of a special as a key.                                *)
Element(calls, at, p, path, tag) ==
  IF tag # "map" THEN calls[<<at.b, Append(path, ArrayMark), 0, at.i>>]
  ELSE LET key == ReadTag(p, at.i)
           st == key.next + key.l
       IN calls[<<at.b, Append(path, SubSeq(p, at.i, st - 1)), at.i, st>>]

(* All of them, n or up to a Break; one left out is counted all the same.  *)
Outs == [b : Seq(Byte), i : Nat \ {0}]

Elements(calls, start, p, path, tag, n) ==
  LET upto[left \in 0..Len(p)] ==
        [at \in Outs |->
           IF left = 0 \/ (n < 0 /\ p[at.i] = Break) THEN at
           ELSE upto[left - 1][Element(calls, at, p, path, tag)]]
      end == upto[IF n < 0 THEN Len(p) ELSE n][start]
  IN IF n < 0 THEN [b |-> Append(end.b, Break), i |-> end.i + 1] ELSE end

(* The value at st of p, with its key at kst (0: none), behind b.          *)
RewriteStep(calls, rules, p, b, path, kst, st) ==
  LET t == ReadTag(p, st)
      named == IF kst = 0 THEN b ELSE b \o SubSeq(p, kst, st - 1)
  IN IF path \in DOMAIN rules THEN Apply(rules[path], b, p, kst, st)
     ELSE IF st = Len(p) + 1 THEN [b |-> b, i |-> st]
     ELSE CASE t.tag = "label" -> calls[<<b, Append(path, SubSeq(p, st, t.next - 1)), kst, t.next>>]
            [] t.tag \in {"array", "map"} ->
                 Elements(calls, [b |-> named \o SubSeq(p, st, t.next - 1), i |-> t.next], p, path, t.tag, t.l)
            [] OTHER ->
                 LET end == DecoderSkip(p, st) IN [b |-> named \o SubSeq(p, st, end - 1), i |-> end]

(* Calls of Rewrite, up to d inside of each other.                         *)
Rewrite(rules, p) ==
  LET calls[d \in 0..MaxDepth + 1] ==
        [at \in Seq(Byte) \X Paths \X Nat \X (Nat \ {0}) |->
           IF d = 0 THEN [b |-> at[1], i |-> at[4]]
           ELSE RewriteStep(calls[d - 1], rules, p, at[1], at[2], at[3], at[4])]
  IN calls

(* Rewriter.Write: what the writer below gets.                             *)
Write(rules, p) == Rewrite(rules, p)[MaxDepth + 1][<< << >>, << >>, 0, 1 >>].b

-----------------------------------------------------------------------------
(* What the rules make of a value and the path it is at: which of them is  *)
(* for the pair it is in (at the key, or behind the label tags), and what  *)
(* it should become when none is, pairs below it renamed or left out.      *)
Sites == Values \X Paths
Under(at, v, mark) == <<v, Append(at[2], mark)>>

Fitting(rules, at) == IF at[2] \in DOMAIN rules THEN <<rules[at[2]]>> ELSE << >>
RuleStep(below, rules, at) ==
  IF Fitting(rules, at) = << >> /\ at[1].k = "label"
  THEN below.rule[Under(at, at[1].v, Size("label", 1))] ELSE Fitting(rules, at)

NewName(rule, key) == Str(rule.prefix + IF rule.rename = 0 THEN key.n ELSE rule.rename)

(* The key of pair j of a map, and its value below the map. *)
KeyAt(v, j) == v.vs[2 * j - 1]
PairAt(at, j) == Under(at, at[1].vs[2 * j], Enc(KeyAt(at[1], j)))

RuledPair(below, key, pair) ==
  LET by == below.rule[pair] IN
  IF by = << >> THEN <<key, below.tree[pair]>>
  ELSE IF by[1].remove THEN << >> ELSE <<NewName(by[1], key), pair[1]>>

RuledStep(below, at) ==
  LET v == at[1] IN
  CASE v.k = "label" -> Tagged(below.tree[Under(at, v.v, Size("label", 1))])
    [] v.k = "array" ->
         [v EXCEPT !.vs = [j \in DOMAIN v.vs |-> below.tree[Under(at, v.vs[j], ArrayMark)]]]
    [] v.k = "map" ->
         Map(FlattenSeq([j \in 1..Count(v) |-> RuledPair(below, KeyAt(v, j), PairAt(at, j))]), v.open)
    [] OTHER -> v

(* Whether the Rewriter keeps to that: it does not copy the label tags of  *)
(* array elements and has no key for rules about them, leaves the length a *)
(* map announces when a pair is left out, and goes astray in a map with    *)
(* other keys than texts (those of a Go map of integers, say), unless the  *)
(* map is in a pair that a rule takes as a whole.                          *)
PairKept(below, open, key, pair) ==
  LET by == below.rule[pair] IN
  /\ key.k \in {"bytes", "str"}
  /\ \/ by = << >> /\ below.kept[pair]
     \/ by # << >> /\ by[1].remove /\ open
     \/ by # << >> /\ ~by[1].remove /\ NewName(by[1], key) \in Values

KeptStep(below, at) ==
  LET v == at[1] IN
  CASE v.k = "label" -> below.kept[Under(at, v.v, Size("label", 1))]
    [] v.k = "array" -> \A j \in DOMAIN v.vs :
         LET elem == Under(at, v.vs[j], ArrayMark) IN
         v.vs[j].k # "label" /\ below.rule[elem] = << >> /\ below.kept[elem]
    [] v.k = "map" -> \A j \in 1..Count(v) : PairKept(below, v.open, KeyAt(v, j), PairAt(at, j))
    [] OTHER -> TRUE

(* Values up to d inside of each other.                                    *)
Rulings(rules) ==
  LET up[d \in 0..MaxDepth] ==
        IF d = 0 THEN [rule |-> [at \in Sites |-> Fitting(rules, at)], tree |-> [at \in Sites |-> at[1]],
                       kept |-> [at \in Sites |-> TRUE]]
        ELSE [rule |-> [at \in Sites |-> RuleStep(up[d - 1], rules, at)],
              tree |-> [at \in Sites |-> RuledStep(up[d - 1], at)],
              kept |-> [at \in Sites |-> KeptStep(up[d - 1], at)]]
  IN up

(* A rewritten event differs from the one written in what the rules name   *)
(* and in nothing else, at any depth, when every map the Rewriter descends *)
(* into has texts as keys.                                                 *)
RewrittenAsRuled ==
  event # << >> /\ Plain => \A rules \in RuleSets :
    LET at == <<Meant, << >> >>  all == Rulings(rules)[MaxDepth] IN
    all.rule[at] = << >> /\ all.kept[at] => Write(rules, event) = Enc(all.tree[at])
=============================================================================
