---------------------------- MODULE MCModelStore ----------------------------
(* Instances of ModelStore. *)
EXTENDS ModelStore, TLC

CONSTANTS p1, p2, a, b

Symmetry == Permutations(Procs) \cup Permutations(Layers)

\* What follows an overlap of two operations is of no account for the properties,
\* which excuse it: behaviours are not followed beyond it.
UntilRaced == ~raced
=============================================================================
