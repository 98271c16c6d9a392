------------------------------ MODULE MCOutbox ------------------------------
(***************************************************************************)
(* Instances of the outbox for TLC: the bounds are in the configurations.   *)
(***************************************************************************)
EXTENDS AgentOutbox, TLC

WorkerSymmetry == Permutations(Workers)
=============================================================================
