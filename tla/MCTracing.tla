------------------------------ MODULE MCTracing -----------------------------
(* Instance of Tracing over the fields of order 13 and 11: two users, one of *)
(* them with two accounts, rings of at most two.                             *)
EXTENDS Tracing, TLC

CONSTANTS u1, u2, a1, a2, b1, m1, m2

MCUserOf == a1 :> u1 @@ a2 :> u1 @@ b1 :> u2
MCX == u1 :> 3 @@ u2 :> 5
MCD == a1 :> 2 @@ a2 :> 7 @@ b1 :> 4

MCMemberHash(u, y) == (u + 5 * y) % Q
\* Challenges of the two messages coincide in some rings and are zero in others.
MCChallengeHash(issue, r, m, nym, k) ==
  ((IF m = m1 THEN 1 ELSE 4) * (1 + Len(r)) + nym[1] * (IF a2 \in Range(r) THEN 1 ELSE 2) + k) % P

\* Among the seeds some whose denominators vanish at the first or at the second
\* counter, and a zero one.
MCSeedChoices == {<<3, 5>>, <<12, 4>>, <<6, 11>>, <<0, 7>>}

Symmetry == Permutations(Participants)
=============================================================================
