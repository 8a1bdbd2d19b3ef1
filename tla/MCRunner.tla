------------------------------ MODULE MCRunner ------------------------------
(* Instances of Runner. *)
EXTENDS Runner, TLC

CONSTANTS q1, q2, q3

Shape(p, limit, keep, shift, truncate) ==
    [prompt |-> p, limit |-> limit, keep |-> keep, shift |-> shift, truncate |-> truncate]

\* A prompt that is truncated to <<1, 2, 1>>, and one that is a prefix of it.
MCShapes ==
    {Shape(<<2, 1, 2, 1>>, 3, 0, TRUE, TRUE), Shape(<<1, 2>>, 2, -1, FALSE, TRUE)}

\* A prompt that fills the context, and one that is refused.
MCLongShapes ==
    {Shape(<<1, 2, 1>>, 2, 0, TRUE, TRUE), Shape(<<1, 2, 2, 1>>, 2, 0, TRUE, FALSE)}

RequestSymmetry == Permutations(Requests)
=============================================================================
