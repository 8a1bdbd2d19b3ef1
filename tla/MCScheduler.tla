---------------------------- MODULE MCScheduler ----------------------------
(* Instances of the scheduler for TLC. *)
EXTENDS Scheduler, TLC

CONSTANTS r1, r2, r3

\* num_gpu: left to the server, none, one layer.
MCOpts == {-1, 0, 1}

\* The requests differ only in their contents, which Init chooses.
RequestSymmetry == Permutations(Requests)

\* Two requests for one model and one for another, in any order of arrival.
ContendedInit == Init /\ \A q \in Requests : req[q].key = IF q = r2 THEN 2 ELSE 1

ContendedSpec == ContendedInit /\ [][Next]_vars /\ Fairness

\* A request for the GGUF model, and one for it or for the MLX model.
MixedInit == Init /\ req[r1].key = 1

MixedSpec == MixedInit /\ [][Next]_vars /\ Fairness
=============================================================================
