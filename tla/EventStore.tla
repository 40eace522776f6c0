----------------------------- MODULE EventStore -----------------------------
(***************************************************************************)
(* What agent.Agent (src/agent/agent.go) promises whoever writes to it: a  *)
(* payload it acknowledged is in one file, behind those that were written  *)
(* to that file before, and can be read there as long as the file is not   *)
(* spoiled.  A payload may be there that nobody was told of: the process   *)
(* died before it answered.  A file is spoiled as a whole: a write failed  *)
(* in it, or it was opened a second time.  Agent implements it;            *)
(* AgentServer stands on it.                                               *)
(***************************************************************************)
EXTENDS Naturals, Sequences, SequencesExt, Functions

CONSTANTS Files, Payloads

VARIABLES
  kept,       (* file -> the payloads that can be read from it             *)
  answered,   (* payloads acknowledged and not in a spoiled file           *)
  spoiled     (* files nothing is promised of                              *)

vars == <<kept, answered, spoiled>>

Init == kept = << >> /\ answered = {} /\ spoiled = {}

Create(x) ==
  /\ x \notin DOMAIN kept \union spoiled
  /\ kept' = [y \in DOMAIN kept \union {x} |-> IF y = x THEN << >> ELSE kept[y]]
  /\ UNCHANGED <<answered, spoiled>>

(* The payload is written, and acknowledged if the process still can. *)
Store(x, n) ==
  /\ x \in DOMAIN kept /\ \A m \in ToSet(kept[x]) : m < n
  /\ \A y \in DOMAIN kept : n \notin ToSet(kept[y])
  /\ kept' = [kept EXCEPT ![x] = Append(@, n)]
  /\ answered' \in {answered, answered \union {n}}
  /\ UNCHANGED spoiled

Spoil(x) ==
  /\ x \in DOMAIN kept /\ spoiled' = spoiled \union {x}
  /\ kept' = Restrict(kept, DOMAIN kept \ {x})
  /\ answered' = answered \ ToSet(kept[x])

Next ==
  \/ \E x \in Files : Create(x) \/ Spoil(x)
  \/ \E x \in Files, n \in Payloads : Store(x, n)

Spec == Init /\ [][Next]_vars
=============================================================================
