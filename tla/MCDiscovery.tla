----------------------------- MODULE MCDiscovery -----------------------------
(* Instances of Discovery for TLC. *)
EXTENDS Discovery, TLC

CONSTANTS i1, i2

\* The immortal instance, if any, is i2; with both mortal they are alike.
Symmetry == Permutations(Instances)
=============================================================================
