---------------------------- MODULE MCThreadPool ----------------------------
(* Model-checking instance of ThreadPool: interchangeable workers and tasks. *)
EXTENDS ThreadPool, TLC

Symmetry == Permutations(Thread) \cup Permutations(Resident)
                \cup Permutations(Task \ Resident)
=============================================================================
