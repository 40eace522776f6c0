----------------------------- MODULE MCRotating -----------------------------
(* Instances of Rotating for TLC: what is on disk when the program starts. *)
EXTENDS Rotating

NoDisk == {{}}
Disks == {{}, {1, 2}}
=============================================================================
