------------------------------- MODULE Labels -------------------------------
(***************************************************************************)
(* AppendKVs and AppendLabels (src/wire.go).  AppendKVs takes a list of    *)
(* arguments, keys and values in turns, with keys to be guessed, modifiers *)
(* and formats in between.  AppendLabels encodes them behind a gap in the  *)
(* same buffer and then moves them down, pair by pair, to put a label tag  *)
(* before each value that has none: the gap must be large enough that what *)
(* is written never overtakes what is still to be read.                    *)
(*                                                                         *)
(* A cell stands for a byte: a label tag, or the name and the place of a   *)
(* byte of an encoded value, which is len cells long.                      *)
(***************************************************************************)
EXTENDS Integers, Sequences, SequencesExt

(* A string, KeyAuto, NextIs(WireLabel), another modifier, a format, some  *)
(* value, and a TlogAppender that appends a pair.                          *)
Kinds == {"string", "auto", "label", "modify", "format", "value", "pair"}

CONSTANT MaxArgs    (* bound: arguments                                    *)

Calls == UNION {[1..n -> Kinds] : n \in 0..MaxArgs}

VARIABLES
  kvs, i,      (* the arguments, how many of them are done                 *)
  stage,       (* where AppendKVs and AppendLabels are                     *)
  mods,        (* modifiers appended before the next value                 *)
  b, w, r,     (* the buffer; bytes written and read of it                 *)
  keyed,       (* history: every pair had a string for its key             *)
  made         (* history: the pairs encoded                               *)

vars == <<kvs, i, stage, mods, b, w, r, keyed, made>>

LabelTag == [of |-> "label", at |-> 1, len |-> 1]
Spaces(n) == [k \in 1..n |-> [of |-> "space", at |-> 1, len |-> 1]]

(* A value of two bytes with its modifiers, one value together.            *)
Encoded(name, before) ==
  LET n == Len(before) + 2 IN
  [k \in 1..n |-> [of |-> IF k <= Len(before) THEN before[k] ELSE name, at |-> k, len |-> n]]

(* Mutant: a gap of a half of the arguments, rounded down. *)
ReserveHalf(args) == Len(args) \div 2

Reserve(args) == Len(args) \div 2 + 1

Init ==
  /\ kvs \in Calls /\ i = 0
  /\ stage = "key" /\ mods = << >>
  /\ b = Spaces(Reserve(kvs)) /\ w = 0 /\ r = Reserve(kvs)
  /\ keyed = TRUE /\ made = << >>

Arg == kvs[i + 1]

-----------------------------------------------------------------------------
(* The key of a pair; what is no string is left to be the value.           *)
Key ==
  /\ stage = "key" /\ i < Len(kvs) /\ Arg # "pair"
  /\ b' = b \o Encoded("key", << >>)
  /\ made' = Append(made, [key |-> Encoded("key", << >>), value |-> << >>])
  /\ i' = IF Arg \in {"string", "auto"} THEN i + 1 ELSE i
  /\ keyed' = (keyed /\ Arg \in {"string", "auto"})
  /\ stage' = "value"
  /\ UNCHANGED <<kvs, mods, w, r>>

(* A TlogAppender appends what it likes: one pair.                         *)
Pair ==
  /\ stage = "key" /\ i < Len(kvs) /\ Arg = "pair"
  /\ b' = b \o Encoded("key", << >>) \o Encoded("value", << >>)
  /\ made' = Append(made, [key |-> Encoded("key", << >>), value |-> Encoded("value", << >>)])
  /\ i' = i + 1 /\ keyed' = FALSE
  /\ UNCHANGED <<kvs, stage, mods, w, r>>

(* goto value: a modifier is of the value that follows.                    *)
Modify ==
  /\ stage = "value" /\ i < Len(kvs) /\ Arg \in {"label", "modify"}
  /\ mods' = Append(mods, Arg) /\ i' = i + 1
  /\ UNCHANGED <<kvs, stage, b, w, r, keyed, made>>

(* The value: Undefined when there is none, also behind a format.          *)
Value ==
  /\ stage = "value"
  /\ i < Len(kvs) => Arg \notin {"label", "modify"}
  /\ LET args == IF i < Len(kvs) /\ Arg = "format" THEN 2 ELSE 1
         name == IF i + args > Len(kvs) THEN "undefined" ELSE "value"
     IN /\ b' = b \o Encoded(name, mods)
        /\ made' = [made EXCEPT ![Len(made)].value = Encoded(name, mods)]
        /\ i' = IF name = "value" THEN i + args ELSE Len(kvs)
  /\ mods' = << >> /\ stage' = "key"
  /\ UNCHANGED <<kvs, w, r, keyed>>

EndKVs ==
  /\ stage = "key" /\ i = Len(kvs)
  /\ stage' = "labels"
  /\ UNCHANGED <<kvs, i, mods, b, w, r, keyed, made>>

-----------------------------------------------------------------------------
(* copy(b[to:], b[from:end]): what fits into the buffer.                   *)
Moved(buf, to, n) == IF to + n <= Len(buf) THEN n ELSE Len(buf) - to
Copied(buf, to, from, n) ==
  [k \in DOMAIN buf |-> IF k \in to + 1..to + Moved(buf, to, n) THEN buf[k - to + from] ELSE buf[k]]

SkipLen(buf, st) == Moved(buf, st, buf[st + 1].len)

(* One turn of AppendLabels: the key goes down, a tag is put before the    *)
(* value unless it starts with one, the value goes down.  When pairs that  *)
(* had no key made w overtake r it may run out of the buffer.              *)
Label ==
  /\ stage = "labels" /\ r < Len(b)
  /\ LET b1 == Copied(b, w, r, SkipLen(b, r))
         w1 == w + Moved(b, w, SkipLen(b, r))
         r1 == r + SkipLen(b, r)
         last == r1 + SkipLen(b1, r1)
         has == b1[r1 + 1].of = "label"
         b2 == IF has THEN b1 ELSE [b1 EXCEPT ![w1 + 1] = LabelTag]
         w2 == IF has THEN w1 ELSE w1 + 1
     IN IF r1 = Len(b) \/ (w1 = Len(b) /\ ~has)
        THEN stage' = "panicked" /\ UNCHANGED <<b, w, r>>
        ELSE /\ b' = Copied(b2, w2, r1, last - r1)
             /\ w' = w2 + Moved(b2, w2, last - r1) /\ r' = last
             /\ UNCHANGED stage
  /\ UNCHANGED <<kvs, i, mods, keyed, made>>

Done ==
  /\ stage = "labels" /\ r >= Len(b)
  /\ stage' = "done"
  /\ UNCHANGED <<kvs, i, mods, b, w, r, keyed, made>>

Returned == stage \in {"done", "panicked"} /\ UNCHANGED vars

Next == Key \/ Pair \/ Modify \/ Value \/ EndKVs \/ Label \/ Done \/ Returned

Spec == Init /\ [][Next]_vars

-----------------------------------------------------------------------------
Labelled(v) == IF v[1].of = "label" THEN v ELSE <<LabelTag>> \o v

(* What AppendLabels returns are the pairs it was given, each value with   *)
(* one label tag, whole and in order, if every pair had its key.  (Pairs   *)
(* without one are more than the gap is made for.)                         *)
LabelsMade ==
  keyed /\ stage \in {"done", "panicked"} =>
    SubSeq(b, 1, w) = FlattenSeq([k \in DOMAIN made |-> made[k].key \o Labelled(made[k].value)])
=============================================================================
