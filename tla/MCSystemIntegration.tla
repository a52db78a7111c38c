------------------------ MODULE MCSystemIntegration ------------------------
(* Instances of SystemIntegration for TLC; the cfg files choose the faults. *)
EXTENDS SystemIntegration

CONSTANTS c1, c2, d1, d2
=============================================================================
