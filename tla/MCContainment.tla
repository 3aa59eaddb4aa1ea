---------------------------- MODULE MCContainment ----------------------------
(* Small instances of Containment for TLC. *)
EXTENDS ContainmentInvariant, TLC

Symmetry == Permutations(Assets) \cup Permutations(Procs) \cup Permutations(Ifaces)
=============================================================================
