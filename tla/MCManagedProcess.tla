-------------------------- MODULE MCManagedProcess --------------------------
(* Small instances of ManagedProcess for TLC. *)
EXTENDS ManagedProcess, TLC

\* Calls are interchangeable: nothing but their kind tells them apart.
Symmetry == Permutations(Op)
=============================================================================
