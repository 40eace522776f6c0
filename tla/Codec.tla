------------------------------- MODULE Codec --------------------------------
(***************************************************************************)
(* The bytes of events, and how tlwire.Reader skips over them              *)
(* (src/tlwire/reader.go).                                                 *)
(*                                                                         *)
(* A byte is a tag, its detail and a number: "short" and a length, "long"  *)
(* and how many bytes of length follow, "open", the name of a special; or  *)
(* "raw" and what it is worth as a part of a length.  Enc is the encoding  *)
(* of values (nikand.dev/go/cbor, used by the encoders of tlwire); bytes   *)
(* inside of strings may look like tags.                                   *)
(***************************************************************************)
EXTENDS Integers, Sequences, SequencesExt

CONSTANT MaxDepth     (* bound: values inside of each other                *)

ASSUME DepthAssumption == MaxDepth \in Nat

Break == <<"special", "break", 0>>

(* Specials the Reader knows, and the bytes that follow them; those of the *)
(* format.                                                                 *)
SpecialLen ==
  [s \in {"false", "true", "nil", "undefined", "break", "float8", "float16", "float32", "float64"} |->
     CASE s = "float8" -> 1 [] s = "float16" -> 2 [] s = "float32" -> 4 [] s = "float64" -> 8
       [] OTHER -> 0]
DecoderLen ==
  [s \in DOMAIN SpecialLen \union {"none", "hidden", "selfref"} |->
     IF s \in DOMAIN SpecialLen THEN SpecialLen[s] ELSE 0]

(* Nobody writes strings of open length.                                   *)
Details == {"short", "long", "open", "byte"} \union DOMAIN DecoderLen
Byte ==
  {x \in {"int", "bytes", "str", "label", "array", "map", "special", "raw"} \X Details \X Nat :
     x[1] \in {"bytes", "str"} => x[2] # "open"}

-----------------------------------------------------------------------------
(* A length is in the tag or in the 1, 2, 4 or 8 bytes behind it.          *)
Widths == {0, 1, 2, 4, 8}

(* Byte q of a number, counted from its end.                               *)
High(n) == n \div 256
Digit(n, q) ==
  CASE q = 0 -> n % 256 [] q = 1 -> High(n) % 256
    [] q = 2 -> High(High(n)) % 256 [] q = 3 -> High(High(High(n))) [] OTHER -> 0

Fits(n, long) ==
  /\ n \in Nat /\ High(High(High(n))) < 128
  /\ long = 0 => n < 24
  /\ long = 1 => n < 256
  /\ long = 2 => High(n) < 256
Width(n) == IF n < 24 THEN 0 ELSE IF n < 256 THEN 1 ELSE IF High(n) < 256 THEN 2 ELSE 4

Header(tag, n, long) ==
  IF long = 0 THEN << <<tag, "short", n>> >>
  ELSE << <<tag, "long", long>> >> \o [j \in 1..long |-> <<"raw", "byte", Digit(n, long - j)>>]

(* Values: a scalar of some further bytes, a string with a short or an     *)
(* explicit length, a special; a labelled value, an array or a map of      *)
(* given or open length.                                                   *)
Scalars ==
  [k : {"int"}, more : Widths]
  \union {v \in [k : {"bytes", "str"}, n : Nat, long : Widths] : Fits(v.n, v.long)}
  \union {v \in [k : {"special"}, s : DOMAIN DecoderLen \ {"break"}, more : Nat] : v.more = DecoderLen[v.s]}

Over(inner) ==
  Scalars
  \union [k : {"label"}, v : inner]
  \union {v \in [k : {"array", "map"}, vs : Seq(inner), open : BOOLEAN] :
            /\ Fits(Len(v.vs), 4)
            /\ v.k = "map" => Len(v.vs) % 2 = 0}

Layer[d \in 0..MaxDepth] == IF d = 0 THEN Scalars ELSE Over(Layer[d - 1])

Values == Layer[MaxDepth]

Raw(n) == [j \in 1..n |-> <<"raw", "byte", j>>]

Count(v) == IF v.k = "map" THEN Len(v.vs) \div 2 ELSE Len(v.vs)

EncodeStep(enc, v) ==
  CASE v.k = "int" -> << IF v.more = 0 THEN <<"int", "short", 3>> ELSE <<"int", "long", v.more>> >> \o Raw(v.more)
    [] v.k \in {"bytes", "str"} -> Header(v.k, v.n, v.long) \o [j \in 1..v.n |-> Break]
    [] v.k = "special" -> << <<"special", v.s, 0>> >> \o Raw(v.more)
    [] v.k = "label" -> << <<"label", "short", 1>> >> \o enc[v.v]
    [] v.k \in {"array", "map"} ->
         LET all == FlattenSeq([j \in DOMAIN v.vs |-> enc[v.vs[j]]]) IN
         IF v.open THEN << <<v.k, "open", 0>> >> \o all \o << Break >>
         ELSE Header(v.k, Count(v), Width(Count(v))) \o all

Encode[v \in Values] == EncodeStep(Encode, v)

Enc(v) == Encode[v]
Stream(vs) == FlattenSeq([j \in DOMAIN vs |-> Enc(vs[j])])

-----------------------------------------------------------------------------
UnexpectedEOF == -1
BadFormat == -2
BadSpecial == -3

(* What the n bytes of a length behind at are worth. *)
Worth(b, at, n) ==
  LET Four(high, p) ==
        (((high * 256 + b[p + 1][3]) * 256 + b[p + 2][3]) * 256 + b[p + 3][3]) * 256 + b[p + 4][3]
  IN CASE n = 1 -> b[at + 1][3]
       [] n = 2 -> b[at + 1][3] * 256 + b[at + 2][3]
       [] n = 4 -> Four(0, at)
       [] n = 8 -> Four(Four(0, at), at + 4)

(* readTag: the tag at st, its length, which may be in the next 1, 2, 4 or *)
(* 8 bytes, and the position behind.                                       *)
ReadTag(b, st) ==
  IF st > Len(b) THEN [tag |-> "int", l |-> 0, next |-> UnexpectedEOF]
  ELSE LET tag == b[st][1]  sub == b[st][2]  n == b[st][3] IN
       CASE tag = "special" \/ sub = "short" -> [tag |-> tag, l |-> n, next |-> st + 1]
         [] tag # "special" /\ sub = "open" -> [tag |-> tag, l |-> -1, next |-> st + 1]
         [] tag # "special" /\ sub = "long" /\ n \in Widths \ {0} ->
              IF st + n > Len(b) THEN [tag |-> tag, l |-> 0, next |-> UnexpectedEOF]
              ELSE [tag |-> tag, l |-> Worth(b, st, n), next |-> st + 1 + n]
         [] OTHER -> [tag |-> tag, l |-> 0, next |-> BadFormat]

(* skip, and its loop over the elements of an array or a map, of which     *)
(* some are left (a negative number: it is open), call each other: skip is *)
(* the function of where they are.  The result is the position behind, or  *)
(* why there is none, given the specials it knows.                         *)
Places == (Nat \ {0}) \X {"value", "array", "map"} \X Int

SkipElems(b, skip, at, tag, left) ==
  IF left = 0 THEN at
  ELSE IF at > Len(b) THEN UnexpectedEOF
  ELSE IF left < 0 /\ b[at] = Break THEN at + 1
  ELSE LET val == IF tag = "map" THEN skip[<<at, "value", 1>>] ELSE at
           end == IF val < 0 THEN val ELSE skip[<<val, "value", 1>>]
       IN IF end < 0 THEN end ELSE skip[<<end, tag, left - 1>>]

SkipValue(lens, b, skip, st) ==
  LET t == ReadTag(b, st)
      end == CASE t.tag \in {"bytes", "str"} -> t.next + t.l
               [] t.tag \in {"array", "map"} -> skip[<<t.next, t.tag, t.l>>]
               [] t.tag = "label" -> skip[<<t.next, "value", 1>>]
               [] t.tag = "special" ->
                    IF b[st][2] \in DOMAIN lens THEN t.next + lens[b[st][2]]
                    ELSE BadSpecial
               [] OTHER -> t.next
  IN IF t.next < 0 THEN t.next
     ELSE IF end > Len(b) + 1 THEN UnexpectedEOF ELSE end

SkipStep(lens, b, skip, at) ==
  IF at[2] = "value" THEN SkipValue(lens, b, skip, at[1]) ELSE SkipElems(b, skip, at[1], at[2], at[3])

SkipBy(lens, b, st) ==
  LET skip[at \in Places] == SkipStep(lens, b, skip, at) IN skip[<<st, "value", 1>>]

Skip(b, st) == SkipBy(SpecialLen, b, st)

(* The decoder (nikand.dev/go/cbor) skips alike, and knows all specials.   *)
DecoderSkip(b, st) == SkipBy(DecoderLen, b, st)
=============================================================================
