------------------------------ MODULE MCVault ------------------------------
(***************************************************************************)
(* Vault for TLC.                                                          *)
(***************************************************************************)
EXTENDS Vault, TLC

\* Workers, handles, issues and secrets are interchangeable.
Symmetry ==
    Permutations(Workers) \cup Permutations(Handles)
        \cup Permutations(Issues) \cup Permutations(Secrets)

=============================================================================
