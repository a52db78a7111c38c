--------------------------- MODULE MCPhpRuntimes ---------------------------
(* Instances of PhpRuntimes for TLC. *)
EXTENDS PhpRuntimes

\* A patch within a branch, and two branches whose order as text is wrong.
ThreeVersions == {<<8, 9, 1>>, <<8, 10, 0>>, <<8, 10, 1>>}
=============================================================================
