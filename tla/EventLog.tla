------------------------------ MODULE EventLog ------------------------------
(***************************************************************************)
(* What tlog.Logger promises its callers: every logging call takes effect  *)
(* at one instant between its invocation and its return.  At that instant  *)
(* it appends one complete event, carrying the labels in force, to the     *)
(* log, or replaces the labels, or (user code panicked, the writer failed) *)
(* does nothing.  Setting labels may also tear them: events then carry the *)
(* torn labels until they are set anew.  Logger.tla implements this.       *)
(***************************************************************************)
EXTENDS Naturals, Sequences

CONSTANTS Threads, LabelSets, Torn, Spans, Stamps

CallKinds == {"message", "event", "start", "finish", "labels", "raw"}

(* A call: its number, what it is, its span and parent, its new labels.    *)
Calls == [n : Nat, kind : CallKinds, span : Spans, par : Spans, arg : LabelSets]

Named(c, s) == [n |-> c.n, kind |-> c.kind, span |-> s, par |-> c.par, arg |-> c.arg]

(* The parts of an encoded event. *)
Header(c, ts, elapsed) ==
  [part |-> "head", call |-> c, ts |-> ts, elapsed |-> elapsed]
Pairs(c) == [part |-> "pairs", call |-> c]
Labels(l) == [part |-> "labels", labels |-> l]
Break == [part |-> "break"]
Raw(c) == [part |-> "raw", call |-> c]

(* The complete event of call c, stamped ts under the labels l. *)
Encode(c, ts, elapsed, l) ==
  IF c.kind = "raw" THEN << Raw(c) >>
  ELSE << Header(c, ts, elapsed), Pairs(c), Labels(l), Break >>

VARIABLES log, labels, phase, op

vars == <<log, labels, phase, op>>

Init ==
  /\ log = << >>
  /\ labels \in LabelSets
  /\ phase = [t \in Threads |-> "idle"]
  /\ op \in [Threads -> Calls]

Invoke(t) ==
  /\ phase[t] = "idle"
  /\ phase' = [phase EXCEPT ![t] = "pending"]
  /\ op'[t] \in Calls /\ op' = [op EXCEPT ![t] = op'[t]]
  /\ UNCHANGED <<log, labels>>

(* newspan picks the id of the new span before the event is emitted. *)
NameSpan(t) ==
  /\ phase[t] = "pending" /\ op[t].kind = "start"
  /\ \E s \in Spans : op' = [op EXCEPT ![t] = Named(@, s)]
  /\ UNCHANGED <<log, labels, phase>>

Done(t) == phase[t] = "pending" /\ phase' = [phase EXCEPT ![t] = "done"]

Emit(t) ==
  /\ Done(t) /\ op[t].kind # "labels"
  /\ \E ts, elapsed \in Stamps : log' = Append(log, Encode(op[t], ts, elapsed, labels))
  /\ UNCHANGED <<labels, op>>

SetLabels(t) ==
  /\ Done(t) /\ op[t].kind = "labels"
  /\ labels' = op[t].arg
  /\ UNCHANGED <<log, op>>

(* User code panicked while the labels were built. *)
Tear(t) ==
  /\ Done(t) /\ op[t].kind = "labels"
  /\ labels' = Torn
  /\ UNCHANGED <<log, op>>

Lose(t) == Done(t) /\ UNCHANGED <<log, labels, op>>

Return(t) ==
  /\ phase[t] = "done"
  /\ phase' = [phase EXCEPT ![t] = "idle"]
  /\ UNCHANGED <<log, labels, op>>

Next == \E t \in Threads : \/ Invoke(t) \/ NameSpan(t) \/ Emit(t)
                           \/ SetLabels(t) \/ Tear(t) \/ Lose(t) \/ Return(t)

Spec == Init /\ [][Next]_vars
=============================================================================
