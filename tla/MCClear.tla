------------------------------- MODULE MCClear ------------------------------
(* Instance of Clear: two users, three accounts, a ring of at most two. *)
EXTENDS Clear, TLC

Symmetry == Permutations(Users) \cup Permutations(Accounts) \cup Permutations(Messages)
=============================================================================
