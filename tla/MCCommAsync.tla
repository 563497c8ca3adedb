---------------------------- MODULE MCCommAsync -----------------------------
EXTENDS CommAsync, TLC

(* The threads of a team are interchangeable. *)
WorkerSymmetry == Permutations(Worker)
=============================================================================
