------------------------------- MODULE MCTrust ------------------------------
(* Two users, three accounts of which two share a secret, two authorities. *)
EXTENDS Trust, TLC

CONSTANTS a1, a2, b1, x, y

MCSecretOf == (a1 :> x) @@ (a2 :> x) @@ (b1 :> y)
MCWindows == {[from |-> 0, to |-> 2], [from |-> 1, to |-> 3], [from |-> 2, to |-> 2]}
\* Authorities, users and messages are interchangeable, and so are the two
\* accounts of one secret.
Symmetry ==
  Permutations(Keys) \cup Permutations(Users) \cup Permutations(Messages)
    \cup Permutations({a1, a2})
=============================================================================
