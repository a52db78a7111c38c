----------------------------- MODULE MCEventHub -----------------------------
(* Instances of EventHub for TLC. *)
EXTENDS EventHub, TLC

ConnSymmetry == Permutations(Conns)
=============================================================================
