------------------------------- MODULE Tracing ------------------------------
(***************************************************************************)
(* The protocol over the algebra of Profile: after the ceremony accounts   *)
(* join and leave the ring (Snapshot in profile.go, RevokeUser in          *)
(* protocol.go), users sign with an in-memory signer that forgets its      *)
(* counters when it is made again (Signer), and anybody verifies, links    *)
(* and traces what was published.                                          *)
(***************************************************************************)
EXTENDS Ceremony

CONSTANTS
  Issues, Messages, Quotas,
  SeedChoices,      \* pairs of seeds the hash of a secret and an issue may be
  MaxUpdates,       \* bound: ring updates
  MaxSigned         \* bound: signatures published

ASSUME TracingConstants ==
  /\ SeedChoices \subseteq (0 .. P - 1) \X (0 .. P - 1)
  /\ Quotas \subseteq 1 .. 2 ^ Width - 1
  /\ MaxUpdates \in Nat /\ MaxSigned \in Nat

ASSUME ChallengeBelowP ==
  \A issue \in Issues, n \in 0 .. Capacity, m \in Messages, k \in Quotas :
    \A r \in [1 .. n -> Accounts], g0, g1, g2 \in 0 .. Q - 1 :
      ChallengeHash(issue, r, m, <<g0, g1, g2>>, k) \in 0 .. P - 1

VARIABLES
  seeds,      \* the hash of each user's secret with each issue
  ring,       \* accounts of the current snapshot, in order
  updates,    \* ring updates so far
  next,       \* Signer.next
  signed      \* signatures published

vars == <<ceremonyVars, seeds, ring, updates, next, signed>>

\* Seeds are hashes: two users do not share a pseudonym.
Init ==
  /\ CeremonyInit
  /\ seeds \in [Users -> [Issues -> SeedChoices]]
  /\ \A i \in Issues, u, v \in Users :
       u # v => Nym(X[u], seeds[u][i]) # Nym(X[v], seeds[v][i])
  /\ ring = <<>>
  /\ updates = 0
  /\ next = [u \in Users |-> [i \in Issues |-> 0]]
  /\ signed = {}

\* NewSnapshot: a complete new snapshot or an error and no change.
NewSnapshot(r) ==
  /\ updates < MaxUpdates
  /\ \E p \in params : Accumulates(p, r)
  /\ ring' = r
  /\ updates' = updates + 1
  /\ UNCHANGED <<ceremonyVars, seeds, next, signed>>

Join(a) == NewSnapshot(Append(ring, a))

\* The accounts of r that are in S, in their order.
Keep(r, S) ==
  LET kept[n \in 0 .. Len(r)] ==
        IF n = 0 THEN <<>>
        ELSE IF r[n] \in S THEN Append(kept[n - 1], r[n]) ELSE kept[n - 1]
  IN kept[Len(r)]

Exit(a) ==
  /\ a \in Range(ring)
  /\ NewSnapshot(Keep(ring, {b \in Accounts : Member(b) # Member(a)}))

RevokeUser(u) == NewSnapshot(Keep(ring, {b \in Accounts : UserOf[b] # u}))

\* Signer.Sign: the counter moves when the proof is made.
Sign(u, i, issue, k, m) ==
  LET c == next[u][issue]
      s == seeds[u][issue]
  IN /\ Cardinality(signed) < MaxSigned
     /\ i \in DOMAIN ring
     /\ \E p \in params :
          LET st == MakeStatement(p, ring, i, X[u], s, issue, m, k, c)
          IN /\ Makes(p, ring, i, X[u], s, issue, m, k, c)
             /\ Define(p, s, st)
             /\ signed' = signed \cup {st}
     /\ next' = [next EXCEPT ![u][issue] = c + 1]
     /\ UNCHANGED <<ceremonyVars, seeds, ring, updates>>

\* NewSigner for a secret that has signed before.
NewSigner(u) ==
  /\ next' = [next EXCEPT ![u] = [i \in Issues |-> 0]]
  /\ UNCHANGED <<ceremonyVars, seeds, ring, updates, signed>>

Next ==
  \/ CeremonyNext /\ UNCHANGED <<seeds, ring, updates, next, signed>>
  \/ \E a \in Accounts : Join(a) \/ Exit(a)
  \/ \E u \in Users : RevokeUser(u) \/ NewSigner(u)
  \/ \E u \in Users, i \in 1 .. Capacity, issue \in Issues, k \in Quotas, m \in Messages :
       Sign(u, i, issue, k, m)

Spec == Init /\ [][Next]_vars

-----------------------------------------------------------------------------
(* Properties *)

Signers(st) == {u \in Users : X[u] = st.witness.x}
Context(st) == [issue |-> st.issue, k |-> st.k, ring |-> st.ring]

\* MakeStatement and the circuit agree: whenever MakeStatement succeeds the prover
\* finds the relation of Define satisfied, so a counter is never refused for any
\* reason but those of MakeStatement, and the signature passes check in the ring it
\* was made for.
StatementsProve ==
  \A p \in params, u \in Users, i \in DOMAIN ring, issue \in Issues, k \in Quotas, m \in Messages :
    LET s == seeds[u][issue]
        c == next[u][issue]
        st == MakeStatement(p, ring, i, X[u], s, issue, m, k, c)
    IN Makes(p, ring, i, X[u], s, issue, m, k, c)
         => Define(p, s, st) /\ check(p, Context(st), m, st)

\* A membership witness is good for exactly the set of accounts it was made for:
\* it opens the current accumulator if and only if the ring has the same accounts
\* as when its owner signed, whatever joined, left or was revoked in between.
WitnessIsCurrent ==
  \A p \in params, st \in signed :
    VerifyMembership(p, Accumulate(p, ring), st.witness.w, MemberHash(st.witness.u, st.witness.y))
      <=> Range(ring) = Range(st.ring)

\* Trace says what happened: signatures of one user for one issue and quota are legal
\* under different counters, a replay under one counter and one challenge, and
\* traced to that user, and nobody else, under one counter and two challenges; no
\* other pair is comparable, and "serial collision" never happens.
TraceTellsTruth ==
  \A x, y \in signed :
    Trace(x, y) =
      IF Signers(x) # Signers(y) \/ x.issue # y.issue \/ x.k # y.k THEN <<"invalid", {}>>
      ELSE IF x.witness.counter # y.witness.counter THEN <<"legal", {}>>
      ELSE IF x.r = y.r THEN <<"replay", {}>>
      ELSE <<"traced", Signers(x)>>

\* The circuit's range check: whatever counter a prover puts into a witness, there
\* are at most k serial numbers for a secret, an issue and a quota k.
AtMostQuotaSerials ==
  \A u \in Users, issue \in Issues, k \in 1 .. 2 ^ Width - 1 :
    LET s == seeds[u][issue]
        counters == {c \in 0 .. Q - 1 : CounterInRange(k, c) /\ Denominators(s, c)[1] # 0}
    IN Cardinality({SPoint(s, c) : c \in counters}) <= k
=============================================================================
