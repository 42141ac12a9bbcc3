-------------------------- MODULE MCUserBootstrap --------------------------
(* TLC instances of UserBootstrap. *)
EXTENDS UserBootstrap, TLC

Symmetry == Permutations(Caller) \cup Permutations(InstID)
=============================================================================
