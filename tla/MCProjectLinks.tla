-------------------------- MODULE MCProjectLinks ---------------------------
(* Instances of ProjectLinks for TLC. *)
EXTENDS ProjectLinks, TLC

CONSTANTS p1, p2, n1, n2

\* Two directories with different names.
TwoBaseNames == p1 :> n1 @@ p2 :> n2

\* One Laravel project inside the other.
Nested == p1 :> {} @@ p2 :> {p1}
=============================================================================
