------------------------------- MODULE MCAgent -------------------------------
(* Instances of Agent for TLC: two streams. *)
EXTENDS Agent

Two == {"a", "b"}
SumTwo == [l \in Two |-> IF l = "a" THEN 1 ELSE 2]
=============================================================================
