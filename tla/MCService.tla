----------------------------- MODULE MCService -----------------------------
EXTENDS Service, TLC

\* Accounts are interchangeable, and so are the users that are not blank and the
\* proofs of a statement.
Symmetry ==
    Permutations(Accounts) \cup Permutations(Users \ {Blank}) \cup Permutations(Proofs)

=============================================================================
