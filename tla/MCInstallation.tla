---------------------------- MODULE MCInstallation ----------------------------
(* TLC instances of Installation. *)
EXTENDS Installation, TLC

Symmetry == Permutations(Caller) \cup Permutations(InstID)
=============================================================================
