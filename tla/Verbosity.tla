------------------------------ MODULE Verbosity ------------------------------
(***************************************************************************)
(* The verbosity filter (src/verbosity_filter.go): goroutines ask whether  *)
(* topics are enabled at a place of the program while others replace the   *)
(* filter.  The filter is an object behind an atomic pointer; it caches    *)
(* its answers under a mutex of its own, looking them up once under RLock  *)
(* and once more under Lock.                                               *)
(*                                                                         *)
(* A filter text is a sequence of rules; a rule selects or unselects ("!") *)
(* topics at some places.  A place pattern that does not compile panics in *)
(* regexp.MustCompile, under the mutex.                                    *)
(***************************************************************************)
EXTENDS Naturals, Sequences, Functions

CONSTANTS
  Askers,           (* threads                                             *)
  Texts,            (* filter texts: sequences of rules                    *)
  Keys,             (* [place, topics] asked for                           *)
  MaxFilters, MaxAsks,   (* bounds: SetVerbosity calls, questions          *)
  Star, Broken      (* the topic "*"; a place pattern that does not compile *)

ASSUME FilterBoundsAssumption == MaxFilters \in Nat /\ MaxAsks \in Nat
ASSUME TextsAssumption ==
  \A f \in Texts : f \in Seq(Range(f)) /\ \A j \in DOMAIN f : f[j].set \in BOOLEAN

(* A filter object is its number, 0 is the nil pointer. *)
Filters == 1..MaxFilters

VARIABLES
  filter, made,     (* Logger.filter; filters made so far                  *)
  text, c,          (* filter.f and filter.c                               *)
  fmu,              (* filter.mu: 0, or the thread that holds it           *)
  asking, ask,      (* position of a thread; object and key it asks        *)
  ans,              (* its answer: "yes", "no" or "panic"                  *)
  asks, matched     (* questions asked; history: times a pattern was run   *)

filterVars == <<filter, made, text, c, fmu, asking, ask, ans, asks, matched>>

NoOne == 0
ASSUME AskersAssumption == NoOne \notin Askers

-----------------------------------------------------------------------------
(* A rule applies when the place fits its pattern (an empty one fits all)  *)
(* and one of the topics is one it names, or it names "*".                 *)
AtPlace(rule, place) == rule.places = {} \/ place \in rule.places
matchTopics(rule, topics) == Star \in rule.topics \/ rule.topics \intersect topics # {}

(* Mutant: the first rule that applies decides. *)
matchPatternFirst(f, k) ==
  IF \E j \in DOMAIN f : AtPlace(f[j], k.place) /\ matchTopics(f[j], k.topics)
  THEN f[CHOOSE j \in DOMAIN f :
           /\ AtPlace(f[j], k.place) /\ matchTopics(f[j], k.topics)
           /\ \A i \in 1..j - 1 : ~(AtPlace(f[i], k.place) /\ matchTopics(f[i], k.topics))].set
  ELSE f # << >> /\ ~f[1].set

(* matchPattern: the rules in order over the answer so far, which is yes   *)
(* before the first one when the text begins with "!".                     *)
matchPattern(f, k) ==
  LET r[j \in 0..Len(f)] ==
        IF j = 0 THEN f # << >> /\ ~f[1].set
        ELSE IF AtPlace(f[j], k.place) /\ matchTopics(f[j], k.topics) THEN f[j].set
        ELSE r[j - 1]
  IN r[Len(f)]

(* matchPath and matchType compile the patterns they come to. *)
PatternPanics(f) == \E j \in DOMAIN f : Broken \in f[j].places

All(f) == Len(f) = 1 /\ f[1].set /\ f[1].places = {} /\ f[1].topics = {Star}
Word(r) == IF r THEN "yes" ELSE "no"

FilterInit ==
  /\ filter = 0 /\ made = 0
  /\ text = [f \in Filters |-> << >>]
  /\ c = [f \in Filters |-> [k \in {} |-> FALSE]]
  /\ fmu = [f \in Filters |-> NoOne]
  /\ asking = [t \in Askers |-> "idle"]
  /\ ask = [t \in Askers |-> [f |-> 0, k |-> CHOOSE k \in Keys : TRUE]]
  /\ ans = [t \in Askers |-> "no"]
  /\ asks = 0
  /\ matched = [f \in Filters |-> [k \in Keys |-> 0]]

(* Mutant: the filter in use gets the new text. *)
SetVerbosityInPlace ==
  /\ made < MaxFilters
  /\ \/ filter' = 0 /\ UNCHANGED <<made, text>>
     \/ /\ made' = made + 1
        /\ filter' = IF filter = 0 THEN made' ELSE filter
        /\ \E f \in Texts : text' = [text EXCEPT ![filter'] = f]
  /\ UNCHANGED <<c, fmu, asking, ask, ans, asks, matched>>

(* SetVerbosity: a new filter with an empty cache, or nil for "". *)
SetVerbosity ==
  /\ made < MaxFilters
  /\ \/ filter # 0 /\ filter' = 0 /\ UNCHANGED <<made, text>>
     \/ /\ made' = made + 1 /\ filter' = made'
        /\ \E f \in Texts : text' = [text EXCEPT ![made'] = f]
  /\ UNCHANGED <<c, fmu, asking, ask, ans, asks, matched>>

Reach(t, label) == asking' = [asking EXCEPT ![t] = label]
Answer(t, word) == ans' = [ans EXCEPT ![t] = word]

(* ifv: the pointer is loaded once; nil and "*" need no matching.          *)
Ask(t) ==
  /\ asking[t] = "idle" /\ asks < MaxAsks
  /\ asks' = asks + 1
  /\ \E k \in Keys : ask' = [ask EXCEPT ![t] = [f |-> filter, k |-> k]]
  /\ IF filter = 0 THEN Answer(t, "no") /\ UNCHANGED asking
     ELSE IF All(text[filter]) THEN Answer(t, "yes") /\ UNCHANGED asking
     ELSE Reach(t, "rlock") /\ UNCHANGED ans
  /\ UNCHANGED <<filter, made, text, c, fmu, matched>>

CacheOf(t) == c[ask[t].f]
Cached(t) == ask[t].k \in DOMAIN CacheOf(t)

(* match under RLock, which waits for a holder of Lock. *)
Lookup(t) ==
  /\ asking[t] = "rlock" /\ fmu[ask[t].f] = NoOne
  /\ IF Cached(t) THEN Answer(t, Word(CacheOf(t)[ask[t].k])) /\ Reach(t, "idle")
     ELSE Reach(t, "lock") /\ UNCHANGED ans
  /\ UNCHANGED <<filter, made, text, c, fmu, ask, asks, matched>>

LockFilter(t) ==
  /\ asking[t] = "lock" /\ fmu[ask[t].f] = NoOne
  /\ fmu' = [fmu EXCEPT ![ask[t].f] = t]
  /\ Reach(t, "again")
  /\ UNCHANGED <<filter, made, text, c, ask, ans, asks, matched>>

(* Mutant: what another thread filled in between is not looked for. *)
AgainNot(t) ==
  /\ asking[t] = "again"
  /\ Reach(t, "fill") /\ UNCHANGED ans
  /\ UNCHANGED <<filter, made, text, c, fmu, ask, asks, matched>>

(* The second look, under Lock. *)
Again(t) ==
  /\ asking[t] = "again"
  /\ IF Cached(t) THEN Answer(t, Word(CacheOf(t)[ask[t].k])) /\ Reach(t, "unlock")
     ELSE Reach(t, "fill") /\ UNCHANGED ans
  /\ UNCHANGED <<filter, made, text, c, fmu, ask, asks, matched>>

(* Mutant: a panic is recovered from and the pattern tried again. *)
FillRetried(t) ==
  /\ asking[t] = "fill"
  /\ LET f == ask[t].f  k == ask[t].k  r == matchPattern(text[f], k) IN
       IF PatternPanics(text[f]) THEN Answer(t, "panic") /\ UNCHANGED <<c, matched, asking>>
       ELSE /\ matched' = [matched EXCEPT ![f][k] = @ + 1]
            /\ c' = [c EXCEPT ![f] = [x \in DOMAIN @ \union {k} |-> IF x = k THEN r ELSE @[x]]]
            /\ Answer(t, Word(r)) /\ Reach(t, "unlock")
  /\ UNCHANGED <<filter, made, text, fmu, ask, asks>>

(* matchPattern and the store into the cache; a panic stores nothing.      *)
Fill(t) ==
  /\ asking[t] = "fill"
  /\ LET f == ask[t].f  k == ask[t].k  r == matchPattern(text[f], k) IN
       /\ matched' = [matched EXCEPT ![f][k] = @ + 1]
       /\ IF PatternPanics(text[f]) THEN Answer(t, "panic") /\ UNCHANGED c
          ELSE /\ c' = [c EXCEPT ![f] = [x \in DOMAIN @ \union {k} |-> IF x = k THEN r ELSE @[x]]]
               /\ Answer(t, Word(r))
  /\ Reach(t, "unlock")
  /\ UNCHANGED <<filter, made, text, fmu, ask, asks>>

(* The deferred Unlock, of the filter that was loaded. *)
UnlockFilter(t) ==
  /\ asking[t] = "unlock"
  /\ fmu' = [fmu EXCEPT ![ask[t].f] = NoOne]
  /\ Reach(t, "idle")
  /\ UNCHANGED <<filter, made, text, c, ask, ans, asks, matched>>

(* All questions are asked and answered: only the bound stops the program. *)
AllAsked == asks = MaxAsks /\ (\A t \in Askers : asking[t] = "idle") /\ UNCHANGED filterVars

Acquire(t) == Lookup(t) \/ LockFilter(t)
Finishing(t) == Again(t) \/ Fill(t) \/ UnlockFilter(t)
FilterNext == SetVerbosity \/ (\E t \in Askers : Ask(t) \/ Acquire(t) \/ Finishing(t)) \/ AllAsked

FilterSpec == FilterInit /\ [][FilterNext]_filterVars

(* Threads run, and sync.RWMutex lets neither readers nor writers starve.  *)
FilterFairSpec == FilterSpec /\ \A t \in Askers : WF_filterVars(Finishing(t)) /\ SF_filterVars(Acquire(t))

-----------------------------------------------------------------------------
(* What a text means: of the rules that apply the last one decides ("You   *)
(* can select all in the file and then unselect some functions"); without  *)
(* one the answer is yes if the text begins by unselecting.                *)
Meaning(f, k) ==
  LET applying == {j \in DOMAIN f : AtPlace(f[j], k.place) /\ matchTopics(f[j], k.topics)} IN
  \/ \E j \in applying : f[j].set /\ \A i \in applying : i <= j
  \/ applying = {} /\ f # << >> /\ ~f[1].set

(* An answer is what the text in force when the question was asked means,  *)
(* whoever computed and cached it, and however the filter was replaced.    *)
AnswersRight ==
  \A t \in Askers :
    asking[t] \in {"idle", "unlock"} /\ ask[t].f # 0 /\ ans[t] # "panic" =>
      ans[t] = Word(Meaning(text[ask[t].f], ask[t].k))

(* A pattern is run at most once for a place and topics in the life of a   *)
(* filter, however many threads miss the cache together, unless it panics. *)
MatchedOnce ==
  \A f \in Filters : \A k \in Keys : ~PatternPanics(text[f]) => matched[f][k] <= 1

(* Every question is answered, also when a pattern panics in another one.  *)
EveryAskReturns == \A t \in Askers : asking[t] # "idle" ~> asking[t] = "idle"
=============================================================================
