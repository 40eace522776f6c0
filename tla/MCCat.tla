-------------------------------- MODULE MCCat --------------------------------
(* Instances of Cat for TLC: one file that grows by whole events and one    *)
(* that only starts an event, or one file alone.                            *)
EXTENDS Cat

CONSTANTS f, g

OneGrows == [x \in Files |-> IF x = f THEN 4 ELSE 1]
=============================================================================
