----------------------------- MODULE MCHosting ------------------------------
(* Instances of Hosting for TLC. *)
EXTENDS Hosting, TLC

\* Versions are only compared for equality; no order among them matters here.
VersionSymmetry == Permutations(Versions)
=============================================================================
