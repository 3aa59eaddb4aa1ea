------------------------------ MODULE MCCanary ------------------------------
(* A small instance of Canary for TLC. *)
EXTENDS Canary, TLC

Symmetry == Permutations(Procs) \cup Permutations(Bases) \cup Permutations(Domains)
                \cup Permutations(Places)
=============================================================================
