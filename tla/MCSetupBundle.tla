---------------------------- MODULE MCSetupBundle ---------------------------
(* Instance of SetupBundle: two commands, two directories, two setups. *)
EXTENDS SetupBundle, TLC

Symmetry == Permutations(Procs) \cup Permutations(Dirs)
=============================================================================
