---------------------------- MODULE OneTimePass ----------------------------
(***************************************************************************)
(* What a k-times signer promises, whatever it is built from: for a user   *)
(* secret and an issue it releases proofs for the one-time passes 0..k-1,  *)
(* each pass at most once and in increasing order, under a quota k that    *)
(* the first release pins for good.  Two proofs for one pass would expose  *)
(* the user to Trace (protocol.go), so this is the property that keeps an  *)
(* honest signer anonymous.                                                *)
(***************************************************************************)
EXTENDS Naturals

CONSTANTS
    Secrets,    \* user secrets x
    Issues,     \* issue digests
    MaxQuota    \* largest quota a caller may ask for

VARIABLES
    issued,     \* issued[<<x, i, c>>]: proofs released for pass c of x at i
    quota       \* quota[<<x, i>>]: the pinned k, 0 while nothing is pinned

Passes == 0 .. (MaxQuota - 1)
Slots == Secrets \X Issues \X Passes
Keys == Secrets \X Issues

Init ==
    /\ issued = [s \in Slots |-> 0]
    /\ quota = [p \in Keys |-> 0]

\* Release the proof of pass c: it is below the quota, and neither it nor any
\* later pass has been released before.
Issue(x, i, k, c) ==
    /\ quota[<<x, i>>] \in {0, k}
    /\ c < k
    /\ \A d \in Passes : d >= c => issued[<<x, i, d>>] = 0
    /\ issued' = [issued EXCEPT ![<<x, i, c>>] = 1]
    /\ quota' = [quota EXCEPT ![<<x, i>>] = k]

Next ==
    \E x \in Secrets, i \in Issues, k \in 1 .. MaxQuota, c \in Passes :
        Issue(x, i, k, c)

Spec == Init /\ [][Next]_<<issued, quota>>

=============================================================================
