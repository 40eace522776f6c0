------------------------------ MODULE MCLogger ------------------------------
(* Instances of Logger for TLC.  "event" takes every step "message" takes  *)
(* and no stamp, so the run leaves it out; the proofs are for every kind.  *)
EXTENDS Logger

RunKinds == {"message", "start", "finish", "labels", "raw"}
=============================================================================
