----------------------------- MODULE MCAtChannel -----------------------------
(* Small instances of AtChannel for TLC. *)
EXTENDS AtChannel, TLC

\* No property or action names a thread.
Symmetry == Permutations(Threads)
=============================================================================
