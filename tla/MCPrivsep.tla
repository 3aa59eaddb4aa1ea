------------------------------ MODULE MCPrivsep ------------------------------
(* Small instances of Privsep for TLC. *)
EXTENDS Privsep, TLC

CONSTANTS c1, c2, c3

\* c1 and c2 have the same automatic assets, c3 has others.
PoliciesOfThree == [c \in {c1, c2, c3} |-> IF c = c3 THEN "q" ELSE "p"]
PoliciesOfTwo == [c \in {c1, c2} |-> IF c = c2 THEN "q" ELSE "p"]

Symmetry == Permutations(Uids) \cup Permutations(Keys)
=============================================================================
