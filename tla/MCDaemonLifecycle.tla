------------------------- MODULE MCDaemonLifecycle -------------------------
(* Instances of DaemonLifecycle for TLC. *)
EXTENDS DaemonLifecycle, TLC

\* The pids are interchangeable: they are only compared for equality.
PidSymmetry == Permutations(Pids)
=============================================================================
