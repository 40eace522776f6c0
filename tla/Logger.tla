------------------------------- MODULE Logger -------------------------------
(***************************************************************************)
(* tlog.Logger and tlog.Span (src/tlog.go): goroutines that log through    *)
(* one Logger.  Every emitter locks the Logger, builds its event in the    *)
(* shared buffer l.b, starting with l.b[:0], appends the labels and a      *)
(* break, passes the buffer to Writer.Write and unlocks in a defer.        *)
(* newspan takes the span id and the start time before it locks.           *)
(*                                                                         *)
(* The key-value pairs run user code (TlogAppend, Error, String) under the *)
(* lock; it may panic, the caller may recover, and the deferred Unlock is  *)
(* all that is undone.  SetLabels builds the labels in place: a panic      *)
(* there leaves them torn.                                                 *)
(***************************************************************************)
EXTENDS Naturals, Sequences

CONSTANTS
  Threads,
  LabelSets, Torn,     (* labels a program sets; overwritten half-way      *)
  Panics,              (* kinds of call whose user code may panic          *)
  Kinds,               (* kinds of call the program makes                  *)
  WriterFails,         (* Writer.Write may return an error                 *)
  MaxCalls, MaxClock   (* bounds: calls made, time                         *)

ASSUME BoundsAssumption == MaxCalls \in Nat /\ MaxClock \in Nat
ASSUME KindsAssumption ==
  /\ Kinds \subseteq {"message", "event", "start", "finish", "labels", "raw"}
  /\ Panics \subseteq Kinds \ {"raw"}
  /\ WriterFails \in BOOLEAN
ASSUME LabelsAssumption == LabelSets # {} /\ Torn \notin LabelSets

Spans == 0..MaxCalls       (* span ids; 0 is the zero ID *)
Free == "free"
ASSUME FreeAssumption == Free \notin Threads

VARIABLES
  mu,                 (* Logger.Mutex: Free or the thread that holds it    *)
  b, ls,              (* Logger.b and Logger.ls                            *)
  out,                (* what Writer.Write was given                       *)
  clock,
  calls,              (* calls made                                        *)
  started, live,      (* Span.StartedAt; spans whose Start has returned    *)
  pc, call            (* position and current call of a thread             *)

env == <<clock, calls, started, live>>
vars == <<mu, b, ls, out, env, pc, call>>

Phase(position) ==
  CASE position = "ready" -> "idle"
    [] position = "unlock" -> "done"
    [] OTHER -> "pending"

E == INSTANCE EventLog WITH Stamps <- 0..MaxClock,
       log <- out, labels <- ls, op <- call,
       phase <- [t \in Threads |-> Phase(pc[t])]

NoCall(l) == [n |-> 0, kind |-> "raw", span |-> 0, par |-> 0, arg |-> l]

Init ==
  /\ mu = Free /\ b = << >> /\ out = << >> /\ ls \in LabelSets
  /\ clock = 0 /\ calls = 0 /\ live = {}
  /\ started = [s \in Spans |-> 0]
  /\ pc = [t \in Threads |-> "ready"]
  /\ call = [t \in Threads |-> NoCall(ls)]

Goto(t, label) == pc' = [pc EXCEPT ![t] = label]

(* A thread calls Printw, Event, Start or Spawn, Finish, SetLabels or      *)
(* Write.  Any span whose Start has returned may be used by any thread.    *)
Call(t, kind, s, l) ==
  /\ pc[t] = "ready" /\ calls < MaxCalls
  /\ calls' = calls + 1
  /\ call' = [call EXCEPT ![t] =
       [n |-> calls + 1, kind |-> kind, arg |-> l,
        span |-> IF kind = "start" THEN 0 ELSE s,
        par |-> IF kind = "start" THEN s ELSE 0]]
  /\ Goto(t, IF kind = "start" THEN "newid" ELSE "lock")
  /\ UNCHANGED <<mu, b, ls, out, clock, started, live>>

Begin(t) ==
  \/ \E kind \in Kinds \intersect {"message", "event", "start"}, s \in live \union {0} :
       Call(t, kind, s, call[t].arg)
  \/ \E kind \in Kinds \intersect {"finish"}, s \in live : Call(t, kind, s, call[t].arg)
  \/ \E kind \in Kinds \intersect {"labels"}, l \in LabelSets : Call(t, kind, 0, l)
  \/ \E kind \in Kinds \intersect {"raw"} : Call(t, kind, 0, call[t].arg)

(* Mutant: the span is handed out when its id is taken. *)
NewSpanEarly(t) ==
  /\ pc[t] = "newid"
  /\ started' = [started EXCEPT ![call[t].n] = clock]
  /\ call' = [call EXCEPT ![t] = E!Named(@, @.n)]
  /\ live' = live \union {call[t].n}
  /\ Goto(t, "lock")
  /\ UNCHANGED <<mu, b, ls, out, clock, calls>>

(* newspan: s.ID = l.NewID(), s.StartedAt = l.now(), not yet locked.  Ids  *)
(* are drawn at random and taken to be distinct: the call's number.        *)
NewSpan(t) ==
  /\ pc[t] = "newid"
  /\ started' = [started EXCEPT ![call[t].n] = clock]
  /\ call' = [call EXCEPT ![t] = E!Named(@, @.n)]
  /\ Goto(t, "lock")
  /\ UNCHANGED <<mu, b, ls, out, clock, calls, live>>

Lock(t) ==
  /\ pc[t] = "lock"
  /\ mu = Free
  /\ mu' = t
  /\ Goto(t, CASE call[t].kind = "raw" -> "write"
               [] call[t].kind = "labels" -> "labels"
               [] OTHER -> "head")
  /\ UNCHANGED <<b, ls, out, env, call>>

(* Mutant: every event is stamped with the start of its span. *)
StampStarted(c) == CASE c.kind = "event" -> 0
                     [] c.span = 0 -> clock
                     [] OTHER -> started[c.span]

(* The time an event is stamped with, and what a finish reports.  Event    *)
(* writes no timestamp: 0 stands for none.                                 *)
Stamp(c) == CASE c.kind = "start" -> started[c.span]
              [] c.kind = "event" -> 0
              [] OTHER -> clock
Elapsed(c) == IF c.kind = "finish" THEN clock - started[c.span] ELSE 0

(* Mutant: the event is appended to what the buffer still holds. *)
BuildHeadAppends(t) ==
  /\ pc[t] = "head"
  /\ b' = (IF Len(b) = 4 THEN << >> ELSE b)
            \o << E!Header(call[t], Stamp(call[t]), Elapsed(call[t])) >>
  /\ Goto(t, "pairs")
  /\ UNCHANGED <<mu, ls, out, env, call>>

(* The map is begun in l.b[:0]; the id, and the timestamp and kind of all  *)
(* but Event, are appended.                                                *)
BuildHead(t) ==
  /\ pc[t] = "head"
  /\ b' = << E!Header(call[t], Stamp(call[t]), Elapsed(call[t])) >>
  /\ Goto(t, "pairs")
  /\ UNCHANGED <<mu, ls, out, env, call>>

(* Mutant: a panic leaves without the Unlock, which is not deferred. *)
BuildPairsUndeferred(t) ==
  /\ pc[t] = "pairs"
  /\ \/ b' = Append(b, E!Pairs(call[t])) /\ Goto(t, "tail")
     \/ call[t].kind \in Panics /\ Goto(t, "ready") /\ UNCHANGED b
  /\ UNCHANGED <<mu, ls, out, env, call>>

(* Mutant: a panic is recovered from and the event is built again. *)
BuildPairsRetried(t) ==
  /\ pc[t] = "pairs"
  /\ \/ b' = Append(b, E!Pairs(call[t])) /\ Goto(t, "tail")
     \/ call[t].kind \in Panics /\ Goto(t, "head") /\ UNCHANGED b
  /\ UNCHANGED <<mu, ls, out, env, call>>

(* AppendKVs runs user code: it appends the pairs, or panics having        *)
(* appended them or not.                                                   *)
BuildPairs(t) ==
  /\ pc[t] = "pairs"
  /\ \/ b' = Append(b, E!Pairs(call[t])) /\ Goto(t, "tail")
     \/ call[t].kind \in Panics /\ Goto(t, "unlock") /\ b' \in {b, Append(b, E!Pairs(call[t]))}
  /\ UNCHANGED <<mu, ls, out, env, call>>

BuildTail(t) ==
  /\ pc[t] = "tail"
  /\ b' = b \o << E!Labels(ls), E!Break >>
  /\ Goto(t, "write")
  /\ UNCHANGED <<mu, ls, out, env, call>>

(* Mutant: the event is written again when the writer reports an error     *)
(* after having taken it.                                                  *)
WriteRetried(t) ==
  /\ pc[t] = "write"
  /\ out' = Append(out, IF call[t].kind = "raw" THEN << E!Raw(call[t]) >> ELSE b)
  /\ Goto(t, "unlock") \/ Goto(t, "write")
  /\ Len(out) <= MaxCalls
  /\ UNCHANGED <<mu, b, ls, env, call>>

(* Writer.Write(l.b), or of the caller's own event in Logger.Write; an     *)
(* error loses the event (message and spans ignore it, Event returns it).  *)
Write(t) ==
  /\ pc[t] = "write"
  /\ \/ out' = Append(out, IF call[t].kind = "raw" THEN << E!Raw(call[t]) >> ELSE b)
     \/ WriterFails /\ out' = out
  /\ Goto(t, "unlock")
  /\ UNCHANGED <<mu, b, ls, env, call>>

(* SetLabels: AppendLabels(l.ls[:0], kvs) overwrites the old labels in     *)
(* place; when user code panics the old length is left over new bytes.     *)
WriteLabels(t) ==
  /\ pc[t] = "labels"
  /\ \/ ls' = call[t].arg
     \/ "labels" \in Panics /\ ls' \in {ls, Torn}
  /\ Goto(t, "unlock")
  /\ UNCHANGED <<mu, b, out, env, call>>

(* The deferred Unlock; Start returns the span. *)
Unlock(t) ==
  /\ pc[t] = "unlock"
  /\ mu' = Free
  /\ live' = IF call[t].kind = "start" THEN live \union {call[t].span} ELSE live
  /\ Goto(t, "ready")
  /\ UNCHANGED <<b, ls, out, clock, calls, started, call>>

Tick ==
  /\ clock < MaxClock /\ clock' = clock + 1
  /\ UNCHANGED <<mu, b, ls, out, calls, started, live, pc, call>>

Step(t) == \/ NewSpan(t) \/ BuildHead(t) \/ BuildPairs(t) \/ BuildTail(t)
           \/ Write(t) \/ WriteLabels(t) \/ Unlock(t)

(* All calls are made and have returned: only the bound stops the program. *)
Terminated == calls = MaxCalls /\ (\A t \in Threads : pc[t] = "ready") /\ UNCHANGED vars

Next == (\E t \in Threads : Begin(t) \/ Lock(t) \/ Step(t)) \/ Tick \/ Terminated

Spec == Init /\ [][Next]_vars

(* Threads run; sync.Mutex hands the lock to a waiter that was passed over *)
(* (its starvation mode), which is strong fairness of Lock.                *)
FairSpec == Spec /\ \A t \in Threads : WF_vars(Step(t)) /\ SF_vars(Lock(t))

-----------------------------------------------------------------------------
(* Positions at which a thread holds the lock. *)
Holding == {"head", "pairs", "tail", "write", "labels", "unlock"}

Parts ==
  [part : {"head"}, call : E!Calls, ts : Nat, elapsed : Nat]
    \union [part : {"pairs"}, call : E!Calls]
    \union [part : {"labels"}, labels : LabelSets \union {Torn}]
    \union [part : {"break"}]
    \union [part : {"raw"}, call : E!Calls]

TypeOK ==
  /\ mu \in Threads \union {Free}
  /\ b \in Seq(Parts) /\ out \in Seq(Seq(Parts))
  /\ ls \in LabelSets \union {Torn}
  /\ clock \in 0..MaxClock
  /\ calls \in 0..MaxCalls
  /\ started \in [Spans -> 0..MaxClock]
  /\ live \subseteq Spans \ {0}
  /\ pc \in [Threads -> {"ready", "newid", "lock"} \union Holding]
  /\ call \in [Threads -> E!Calls]

(* The Logger is locked exactly by the goroutine that is between Lock and  *)
(* its deferred Unlock, also after a panic.                                *)
LockHeld == \A t \in Threads : pc[t] \in Holding <=> mu = t

(* Every event the writer is given is one whole event of one call, however *)
(* the calls interleave in the one buffer they share and whatever a        *)
(* panicking call left in it.                                              *)
Whole(e) ==
  \/ Len(e) = 1 /\ e[1].part = "raw"
  \/ /\ Len(e) = 4 /\ e[1].part = "head" /\ e[3].part = "labels"
     /\ e = E!Encode(e[1].call, e[1].ts, e[1].elapsed, e[3].labels)
EventsWhole == \A i \in DOMAIN out : Whole(out[i])

Of(i) == out[i][1].call
Built == {i \in DOMAIN out : out[i][1].part = "head"}

(* A span starts before anything else is written of it or of its children, *)
(* and it starts once, although newspan takes the id outside the lock.     *)
StartFirst ==
  \A i, j \in Built : i < j /\ Of(j).kind = "start" =>
    Of(j).span \notin {Of(i).span, Of(i).par}

(* Events come out in the order of their timestamps, but for span starts,  *)
(* which are stamped before the lock is taken, and for those of Event,     *)
(* which have none; and what a finish reports as elapsed is the distance   *)
(* to the timestamp of its start.                                          *)
StampsOrdered ==
  \A i, j \in Built : i < j /\ Of(j).kind \notin {"start", "event"} =>
    /\ out[i][1].ts <= out[j][1].ts
    /\ Of(i).kind = "start" /\ Of(j).kind = "finish" /\ Of(i).span = Of(j).span =>
         out[i][1].ts + out[j][1].elapsed = out[j][1].ts

(* The Logger implements the event log: each call takes effect at one      *)
(* instant, at most once and with the labels then in force, torn ones too. *)
ImplementsEventLog == E!Spec

(* Every logging call returns, whatever others do and whoever panics.      *)
EveryCallReturns == \A t \in Threads : pc[t] # "ready" ~> pc[t] = "ready"
=============================================================================
