---------------------------- MODULE TracingProofs ---------------------------
(***************************************************************************)
(* Proofs about Ceremony and Tracing for any two prime fields, capacity,   *)
(* users, accounts, issues, quotas, hashes, participants, snapshots and    *)
(* signatures.                                                             *)
(*                                                                         *)
(* The inductive invariant has three parts.  CeremonyInv: a draft or a     *)
(* contribution is made of the factors before it and its own, and the      *)
(* parameters come from a finalised ceremony.  SignedInv: every signature  *)
(* has the tags of one user who owns an account.  WitnessInv: the ring     *)
(* fits the parameters, and every signature's witness is the polynomial of *)
(* its ring without one account.  What the witnesses open is algebra and   *)
(* comes from ProfileProofs.                                               *)
(***************************************************************************)
EXTENDS Tracing, ProfileProofs

-----------------------------------------------------------------------------
(* The ceremony *)

Contribution ==
  [n : {ceremonyDomain(c) : c \in {Capacity, WrongCapacity}}, tau : Seq(Participants) \ {<<>>}]

CeremonyTypeOK ==
  /\ transcript \in Seq(Contribution)
  /\ draft \in [Participants -> SUBSET Contribution]

ParamsDerived == \A p \in params : p.hTau = Tau /\ p.powers = DerivedPowers /\ ValidateParams(p)

CeremonyInv == CeremonyTypeOK /\ EveryFactorCounts /\ ParamsDerived

\* ceremonyDomain: the loop ends with enough powers.
LEMMA DomainSuffices ==
  ASSUME NEW cap \in Nat \ {0}
  PROVE  ceremonyDomain(cap) \in Nat /\ 2 * ceremonyDomain(cap) - 1 >= cap + 1
<1>. DEFINE body(f) == [i \in 0 .. cap |-> IF i = 0 THEN 2
                                 ELSE IF 2 * f[i - 1] - 1 < cap + 1 THEN 2 * f[i - 1] ELSE f[i - 1]]
            n == CHOOSE f : f = body(f)
<1>0. ceremonyDomain(cap) = n[cap]
  BY DEF ceremonyDomain
<1>1. \E f : f = body(f)
  <2>. DEFINE g == [i \in 1 .. cap |-> [v \in Nat |-> IF 2 * v - 1 < cap + 1 THEN 2 * v ELSE v]]
  <2>1. g \in [1 .. cap -> [Nat -> Nat]]
    OBVIOUS
  <2>2. PICK f \in [0 .. cap -> Nat] : f[0] = 2 /\ \A i \in 1 .. cap : f[i] = g[i][f[i - 1]]
    <3>. HIDE DEF g
    <3>1. cap \in Nat /\ 2 \in Nat
      OBVIOUS
    <3>2. \E f \in [0 .. cap -> Nat] : Iterates(f, cap, 2, g)
      BY ONLY <3>1, <2>1, Recursion
    <3>. QED BY <3>2 DEF Iterates
  <2>3. ASSUME NEW i \in 1 .. cap PROVE f[i] = IF 2 * f[i - 1] - 1 < cap + 1 THEN 2 * f[i - 1] ELSE f[i - 1]
    <3>1. f[i - 1] \in Nat
      OBVIOUS
    <3>2. f[i] = g[i][f[i - 1]]
      BY <2>2
    <3>3. g[i][f[i - 1]] = IF 2 * f[i - 1] - 1 < cap + 1 THEN 2 * f[i - 1] ELSE f[i - 1]
      <4>. DEFINE d == f[i - 1]
      <4>1. d \in Nat
        BY <3>1
      <4>. HIDE DEF d
      <4>2. g[i][d] = IF 2 * d - 1 < cap + 1 THEN 2 * d ELSE d
        BY <4>1
      <4>. QED BY ONLY <4>2 DEF d
    <3>. QED BY ONLY <3>2, <3>3
  <2>4. f = body(f)
    <3>. HIDE DEF g
    <3>1. f = [i \in 0 .. cap |-> f[i]]
      OBVIOUS
    <3>2. ASSUME NEW i \in 0 .. cap
          PROVE  f[i] = IF i = 0 THEN 2 ELSE IF 2 * f[i - 1] - 1 < cap + 1 THEN 2 * f[i - 1] ELSE f[i - 1]
      <4>1. CASE i = 0
        BY <2>2, <4>1
      <4>2. CASE i # 0
        <5>1. i \in 1 .. cap
          BY <4>2
        <5>. QED BY <2>3, <4>2, <5>1
      <4>. QED BY <4>1, <4>2
    <3>. QED BY ONLY <3>1, <3>2
  <2>. QED BY <2>4
<1>2. n = body(n)
  BY <1>1
<1>. HIDE DEF n
<1>. DEFINE Good == {i \in Nat : i <= cap => n[i] \in Nat /\ n[i] >= 2
                                          /\ (n[i] >= i + 2 \/ 2 * n[i] - 1 >= cap + 1)}
<1>3. n[0] = 2
  BY <1>2
<1>4. 0 \in Good
  BY <1>3
<1>5. ASSUME NEW i \in Nat, i \in Good PROVE i + 1 \in Good
  <2>. SUFFICES ASSUME i + 1 <= cap
                PROVE  /\ n[i + 1] \in Nat /\ n[i + 1] >= 2
                       /\ (n[i + 1] >= (i + 1) + 2 \/ 2 * n[i + 1] - 1 >= cap + 1)
    OBVIOUS
  <2>1. i + 1 \in 0 .. cap /\ i + 1 # 0 /\ (i + 1) - 1 = i /\ i <= cap
    OBVIOUS
  <2>2. n[i + 1] = IF 2 * n[i] - 1 < cap + 1 THEN 2 * n[i] ELSE n[i]
    BY <1>2, <2>1
  <2>3. n[i] \in Nat /\ n[i] >= 2 /\ (n[i] >= i + 2 \/ 2 * n[i] - 1 >= cap + 1)
    BY <1>5, <2>1
  <2>. QED BY <2>2, <2>3
<1>. HIDE DEF Good
<1>6. cap \in Good
  BY <1>4, <1>5, SetInduction
<1>7. n[cap] \in Nat /\ n[cap] >= 2 /\ (n[cap] >= cap + 2 \/ 2 * n[cap] - 1 >= cap + 1)
  BY <1>6 DEF Good
<1>. QED BY <1>0, <1>7

\* A nonempty sequence is its front and its last element.
LEMMA FrontLast ==
  ASSUME NEW S, NEW s \in Seq(S), s # <<>>
  PROVE  /\ Front(s) \in Seq(S) /\ Last(s) \in S
         /\ Len(Front(s)) = Len(s) - 1
         /\ \A i \in 1 .. Len(s) - 1 : Front(s)[i] = s[i]
         /\ Len(s) \in Nat \ {0} /\ Last(s) = s[Len(s)]
<1>1. Len(s) \in Nat \ {0}
  BY EmptySeq, LenProperties
<1>2. Last(s) = s[Len(s)]
  BY DEF Last
<1>3. Last(s) \in S
  BY <1>1, <1>2, ElementOfSeq
<1>. DEFINE n == Len(s) - 1
            f == Front(s)
<1>4. n \in Nat /\ n + 1 = Len(s) /\ f = SubSeq(s, 1, n)
  BY <1>1 DEF Front
<1>5. \A i \in 1 .. n : s[i] \in S
  BY <1>1, ElementOfSeq
<1>. HIDE DEF n, f
<1>6. /\ f \in Seq(S)
      /\ Len(f) = IF 1 <= n THEN n - 1 + 1 ELSE 0
      /\ \A i \in 1 .. n - 1 + 1 : f[i] = s[1 + i - 1]
  BY <1>4, <1>5, SubSeqProperties
<1>7. Len(f) = n
  BY <1>4, <1>6
<1>8. ASSUME NEW i \in 1 .. n PROVE f[i] = s[i]
  <2>1. i \in 1 .. n - 1 + 1 /\ 1 + i - 1 = i
    BY <1>4
  <2>. QED BY <2>1, <1>6
<1>. QED BY <1>1, <1>2, <1>3, <1>6, <1>7, <1>8 DEF n, f

\* The first N contributions of t each extend the one before.
Chained(t, N) == \A i \in 1 .. N : Front(t[i].tau) = IF i = 1 THEN <<>> ELSE t[i - 1].tau
Factors(t, N, S) == \A i \in 1 .. N : t[i].tau \in Seq(S) \ {<<>>}
Lasts(t, n) == [j \in 1 .. n |-> Last(t[j].tau)]

\* In a chain every tau is the sequence of the last factors up to it.
LEMMA ChainIsLasts ==
  ASSUME NEW S, NEW t, NEW N \in Nat, Factors(t, N, S), Chained(t, N)
  PROVE  \A n \in 1 .. N : t[n].tau = Lasts(t, n)
<1>. DEFINE L(n) == [j \in 1 .. n |-> Last(t[j].tau)]
            Good == {n \in Nat : n \in 1 .. N => t[n].tau = L(n)}
<1>. USE DEF Factors, Chained
<1>1. 0 \in Good
  OBVIOUS
<1>2. ASSUME NEW n \in Nat, n \in Good PROVE n + 1 \in Good
  <2>. SUFFICES ASSUME n + 1 \in 1 .. N PROVE t[n + 1].tau = L(n + 1)
    OBVIOUS
  <2>. DEFINE s == t[n + 1].tau
  <2>1. s \in Seq(S) /\ s # <<>>
    OBVIOUS
  <2>2. Front(s) = IF n + 1 = 1 THEN <<>> ELSE t[(n + 1) - 1].tau
    OBVIOUS
  <2>3. Len(Front(s)) = n /\ \A j \in 1 .. n : Front(s)[j] = Last(t[j].tau)
    <3>1. CASE n = 0
      BY <2>2, <3>1
    <3>2. CASE n # 0
      <4>1. n \in 1 .. N /\ (n + 1) - 1 = n /\ n + 1 # 1
        BY <3>2
      <4>2. Front(s) = L(n)
        BY <4>1, <2>2, <1>2
      <4>3. L(n) \in Seq(S)
        BY <2>1, <4>2, FrontLast
      <4>. QED BY <4>2, <4>3, LenProperties
    <3>. QED BY <3>1, <3>2
  <2>. HIDE DEF s
  <2>4. Len(s) = n + 1 /\ \A j \in 1 .. n : s[j] = Last(t[j].tau)
    <3>1. /\ Len(Front(s)) = Len(s) - 1 /\ Len(s) \in Nat
          /\ \A i \in 1 .. Len(s) - 1 : Front(s)[i] = s[i]
      BY <2>1, FrontLast
    <3>2. Len(s) - 1 = n /\ Len(s) = n + 1
      BY <3>1, <2>3
    <3>. QED BY <3>1, <3>2, <2>3
  <2>5. s[n + 1] = Last(s)
    BY <2>1, <2>4, FrontLast
  <2>6. \A j \in 1 .. n + 1 : s[j] = Last(t[j].tau)
    BY <2>4, <2>5 DEF s
  <2>7. s = [j \in 1 .. Len(s) |-> s[j]]
    BY <2>1, LenProperties
  <2>. QED BY <2>4, <2>6, <2>7 DEF s
<1>. HIDE DEF Good
<1>3. Nat \subseteq Good
  BY <1>1, <1>2, SetInduction
<1>. QED BY <1>3 DEF Good, Lasts
\* The ceremony starts with an empty transcript.
LEMMA CeremonyInitInv == CeremonyInit => CeremonyInv
<1>1. <<>> \in Seq(Contribution)
  BY EmptySeq
<1>. QED BY <1>1 DEF CeremonyInit, CeremonyInv, CeremonyTypeOK, EveryFactorCounts, ParamsDerived

\* ContributeQSDH: a draft is the transcript's last tau and one factor more.
LEMMA ContributeStep ==
  ASSUME CeremonyInv, NEW q \in Participants, NEW capacity \in {Capacity, WrongCapacity},
         ContributeQSDH(q, capacity)
  PROVE  CeremonyInv'
<1>. DEFINE t == Append(Latest(transcript), q)
            c == [n |-> ceremonyDomain(capacity), tau |-> t]
<1>1. /\ params = {} /\ params' = params /\ transcript' = transcript
      /\ draft' = [draft EXCEPT ![q] = {c}]
  BY DEF ContributeQSDH
<1>2. /\ transcript \in Seq(Contribution)
      /\ draft \in [Participants -> SUBSET Contribution]
  BY DEF CeremonyInv, CeremonyTypeOK
<1>3. Latest(transcript) \in Seq(Participants)
  <2>1. CASE transcript = <<>>
    BY <2>1, EmptySeq DEF Latest
  <2>2. CASE transcript # <<>>
    <3>1. Last(transcript) \in Contribution
      BY <2>2, <1>2, FrontLast
    <3>. QED BY <2>2, <3>1 DEF Latest, Contribution
  <2>. QED BY <2>1, <2>2
<1>4. t \in Seq(Participants) \ {<<>>}
  BY <1>3, AppendProperties
<1>. HIDE DEF t
<1>5. c \in Contribution
  BY <1>4 DEF Contribution
<1>. HIDE DEF c
<1>6. draft' \in [Participants -> SUBSET Contribution]
  BY <1>1, <1>2, <1>5
<1>. QED BY <1>1, <1>2, <1>6 DEF CeremonyInv, CeremonyTypeOK, EveryFactorCounts, ParamsDerived

\* Collect: the coordinator appends a draft as it was made.
LEMMA CollectStep ==
  ASSUME CeremonyInv, NEW q \in Participants, Collect(q) PROVE CeremonyInv'
<1>1. /\ transcript \in Seq(Contribution)
      /\ draft \in [Participants -> SUBSET Contribution]
  BY DEF CeremonyInv, CeremonyTypeOK
<1>2. params = {} /\ params' = params /\ draft' = [draft EXCEPT ![q] = {}]
  BY DEF Collect
<1>3. PICK c \in draft[q] : transcript' = Append(transcript, c)
  BY DEF Collect
<1>4. c \in Contribution
  BY <1>1
<1>5. transcript' \in Seq(Contribution)
  BY <1>1, <1>3, <1>4, AppendProperties
<1>6. draft' \in [Participants -> SUBSET Contribution]
  BY <1>1, <1>2
<1>. QED BY <1>2, <1>5, <1>6 DEF CeremonyInv, CeremonyTypeOK, EveryFactorCounts, ParamsDerived

\* Withdraw: the transcript loses its last contribution.
LEMMA WithdrawStep ==
  ASSUME CeremonyInv, Withdraw PROVE CeremonyInv'
<1>1. /\ transcript \in Seq(Contribution)
      /\ draft \in [Participants -> SUBSET Contribution]
  BY DEF CeremonyInv, CeremonyTypeOK
<1>2. /\ params = {} /\ params' = params /\ draft' = draft
      /\ transcript # <<>> /\ transcript' = Front(transcript)
  BY DEF Withdraw
<1>3. transcript' \in Seq(Contribution)
  BY <1>1, <1>2, FrontLast
<1>. QED BY <1>1, <1>2, <1>3 DEF CeremonyInv, CeremonyTypeOK, EveryFactorCounts, ParamsDerived

\* FinalizeQSDHCeremony: a chain that passes its checks is the transcript, factor
\* by factor.
LEMMA FinalizeStep ==
  ASSUME CeremonyInv, NEW beacon \in {Beacon, NoBeacon}, FinalizeQSDHCeremony(beacon)
  PROVE  CeremonyInv'
<1>. DEFINE N == Len(transcript)
            sealed == Append(Latest(transcript), Beacon)
            long == [i \in 1 .. 2 * ceremonyDomain(Capacity) - 1 |-> Monomial(i - 1)]
            powers == SubSeq(long, 1, Capacity + 1)
            made == [tau |-> sealed, powers |-> powers, hTau |-> Tau]
<1>1. transcript \in Seq(Contribution)
  BY DEF CeremonyInv, CeremonyTypeOK
<1>2. /\ transcript' = transcript /\ draft' = [q \in Participants |-> {}]
      /\ N >= 2 /\ checkedQSDHChain(Capacity, transcript)
      /\ params' = {made} /\ ValidateParams(made)
  <2>1. beacon = Beacon
    BY DEF FinalizeQSDHCeremony
  <2>. QED BY <2>1 DEF FinalizeQSDHCeremony, Monomial
<1>3. N \in Nat /\ DOMAIN transcript = 1 .. N
  BY <1>1, LenProperties
<1>4. Factors(transcript, N, Participants)
  <2>1. ASSUME NEW i \in 1 .. N PROVE transcript[i] \in Contribution
    BY <1>1, ElementOfSeq
  <2>. QED BY <2>1 DEF Contribution, Factors
<1>5. Chained(transcript, N)
  BY <1>2, <1>3 DEF checkedQSDHChain, Chained
<1>. HIDE DEF N
<1>6. transcript[N].tau = Lasts(transcript, N)
  <2>1. N \in 1 .. N
    BY <1>2, <1>3
  <2>. QED BY <2>1, <1>3, <1>4, <1>5, ChainIsLasts
<1>7. Latest(transcript) = transcript[N].tau
  <2>1. transcript # <<>>
    BY <1>2, EmptySeq DEF N
  <2>. QED BY <2>1 DEF Latest, Last, N
<1>8. sealed = Append([i \in DOMAIN transcript |-> Last(transcript[i].tau)], Beacon)
  BY <1>3, <1>6, <1>7 DEF Lasts
<1>9. Len(powers) = Capacity + 1 /\ powers = DerivedPowers
  <2>. DEFINE M == 2 * ceremonyDomain(Capacity) - 1
  <2>1. Capacity \in Nat \ {0} /\ ceremonyDomain(Capacity) \in Nat /\ M >= Capacity + 1
    BY FieldConstants, DomainSuffices
  <2>. HIDE DEF M
  <2>2. \A i \in 1 .. Capacity + 1 : long[i] = Monomial(i - 1) /\ long[i] \in {Monomial(j) : j \in Nat}
    BY <2>1 DEF M
  <2>. HIDE DEF long
  <2>3. /\ powers \in Seq({Monomial(j) : j \in Nat})
        /\ Len(powers) = Capacity + 1
        /\ \A i \in 1 .. Capacity + 1 : powers[i] = long[i]
    BY <2>1, <2>2, SubSeqProperties
  <2>4. powers = [i \in 1 .. Capacity + 1 |-> powers[i]]
    BY <2>3, LenProperties
  <2>. QED BY <2>2, <2>3, <2>4 DEF DerivedPowers
<1>. HIDE DEF sealed, powers
<1>. DEFINE final == made
<1>13. final.tau = sealed /\ final.powers = powers /\ final.hTau = Tau
  OBVIOUS
<1>14. params' = {final} /\ ValidateParams(final)
  BY <1>2
<1>. HIDE DEF made, final
<1>10. CeremonyTypeOK'
  BY <1>1, <1>2 DEF CeremonyTypeOK
<1>11. EveryFactorCounts'
  BY <1>2, <1>8, <1>9, <1>13, <1>14 DEF EveryFactorCounts
<1>12. ParamsDerived'
  BY <1>9, <1>13, <1>14 DEF ParamsDerived
<1>. QED BY <1>10, <1>11, <1>12 DEF CeremonyInv

\* Every step of the ceremony keeps its invariant.
LEMMA CeremonyStep ==
  ASSUME CeremonyInv, CeremonyNext \/ UNCHANGED ceremonyVars PROVE CeremonyInv'
<1>1. CASE UNCHANGED ceremonyVars
  BY <1>1 DEF ceremonyVars, CeremonyInv, CeremonyTypeOK, EveryFactorCounts, ParamsDerived
<1>. QED BY <1>1, ContributeStep, CollectStep, WithdrawStep, FinalizeStep DEF CeremonyNext

\* Every step of Tracing is a step of the ceremony or leaves it alone.
LEMMA CeremonyOrNot ==
  ASSUME [Next]_vars PROVE CeremonyNext \/ UNCHANGED ceremonyVars
<1>1. ASSUME NEW r, NewSnapshot(r) PROVE UNCHANGED ceremonyVars
  BY <1>1 DEF NewSnapshot
<1>2. ASSUME NEW a, Join(a) PROVE UNCHANGED ceremonyVars
  BY <1>1, <1>2 DEF Join
<1>3. ASSUME NEW a, Exit(a) PROVE UNCHANGED ceremonyVars
  BY <1>1, <1>3, Zenon DEF Exit
<1>4. ASSUME NEW u, RevokeUser(u) PROVE UNCHANGED ceremonyVars
  BY <1>1, <1>4, Zenon DEF RevokeUser
<1>5. ASSUME NEW u, NewSigner(u) PROVE UNCHANGED ceremonyVars
  BY <1>5 DEF NewSigner
<1>6. ASSUME NEW u, NEW i, NEW issue, NEW k, NEW m, Sign(u, i, issue, k, m)
      PROVE  UNCHANGED ceremonyVars
  BY <1>6 DEF Sign
<1>7. CASE UNCHANGED vars
  BY <1>7 DEF vars
<1>. QED BY <1>2, <1>3, <1>4, <1>5, <1>6, <1>7 DEF Next

-----------------------------------------------------------------------------
(* Signatures and their signers *)

\* Serial numbers are an image of the counters below the quota.
LEMMA SerialsWithinQuota == AtMostQuotaSerials
BY SerialsBounded DEF AtMostQuotaSerials

\* Keep: a ring without some of its accounts is a ring.
LEMMA KeepIsRing ==
  ASSUME NEW r \in Seq(Accounts), NEW S PROVE Keep(r, S) \in Seq(Accounts)
<1>. DEFINE N == Len(r)
            R == Seq(Accounts)
            step(n, v) == IF r[n] \in S THEN Append(v, r[n]) ELSE v
            body(f) == [n \in 0 .. N |-> IF n = 0 THEN <<>> ELSE step(n, f[n - 1])]
            kept == CHOOSE f : f = body(f)
            g == [n \in 1 .. N |-> [v \in R |-> step(n, v)]]
<1>1. Keep(r, S) = kept[N]
  BY DEF Keep
<1>2. N \in Nat /\ <<>> \in R /\ \A n \in 1 .. N : r[n] \in Accounts
  BY LenProperties, EmptySeq, ElementOfSeq
<1>3. \A n \in 1 .. N, v \in R : step(n, v) \in R
  BY <1>2, AppendProperties
<1>. HIDE DEF N, R
<1>4. g \in [1 .. N -> [R -> R]]
  <2>. HIDE DEF step
  <2>. QED BY <1>3
<1>5. \E f \in [0 .. N -> R] : Iterates(f, N, <<>>, g)
  <2>. HIDE DEF g
  <2>. QED BY ONLY <1>2, <1>4, Recursion
<1>6. PICK f \in [0 .. N -> R] : Iterates(f, N, <<>>, g)
  BY <1>5
<1>7. ASSUME NEW n \in 1 .. N PROVE f[n] = step(n, f[n - 1]) /\ n \in 0 .. N /\ n # 0
  <2>1. f[n - 1] \in R /\ n \in 0 .. N /\ n # 0
    BY <1>2
  <2>2. f[n] = g[n][f[n - 1]]
    BY <1>6 DEF Iterates
  <2>. HIDE DEF step
  <2>. QED BY <2>1, <2>2
<1>8. f = body(f)
  <2>1. f[0] = <<>>
    BY <1>6 DEF Iterates
  <2>. HIDE DEF step
  <2>. QED BY <1>2, <1>7, <2>1
<1>9. kept = body(kept)
  BY <1>8
<1>. HIDE DEF kept
<1>. DEFINE Good == {n \in Nat : n <= N => kept[n] \in R}
<1>10. 0 \in Good
  BY <1>2, <1>9
<1>11. ASSUME NEW n \in Nat, n \in Good PROVE n + 1 \in Good
  <2>. SUFFICES ASSUME n + 1 <= N PROVE kept[n + 1] \in R
    OBVIOUS
  <2>1. n + 1 \in 0 .. N /\ n + 1 \in 1 .. N /\ n + 1 # 0 /\ (n + 1) - 1 = n /\ n <= N
    BY <1>2
  <2>2. kept[n + 1] = step(n + 1, kept[n])
    BY <1>9, <2>1
  <2>3. kept[n] \in R
    BY <1>11, <2>1
  <2>. HIDE DEF step
  <2>. QED BY <1>3, <2>1, <2>2, <2>3
<1>. HIDE DEF Good
<1>12. N \in Good
  BY <1>2, <1>10, <1>11, SetInduction
<1>. QED BY <1>1, <1>2, <1>12 DEF Good, R

\* What st says if u signed it.
SignedBy(u, st) ==
  LET s == seeds[u][st.issue]
      c == st.witness.counter
  IN /\ st.issue \in Issues
     /\ st.witness.x = X[u]
     /\ st.nym = Nym(X[u], s)
     /\ st.r \in 1 .. P - 1
     /\ CounterInRange(st.k, c)
     /\ 0 \notin Range(Denominators(s, c))
     /\ st.s = SPoint(s, c)
     /\ st.t = TPoint(X[u], s, c, st.r)
     /\ \E a \in Accounts : UserOf[a] = u

NymsDiffer ==
  \A i \in Issues, u, v \in Users : u # v => Nym(X[u], seeds[u][i]) # Nym(X[v], seeds[v][i])

SignedInv ==
  /\ seeds \in [Users -> [Issues -> SeedChoices]]
  /\ NymsDiffer
  /\ ring \in Seq(Accounts)
  /\ \A st \in signed : \E u \in Users : SignedBy(u, st)

\* Denominators of a signature are units.
LEMMA DenominatorUnits ==
  ASSUME NEW s \in SeedChoices, NEW c \in Nat, 0 \notin Range(Denominators(s, c))
  PROVE  /\ s[1] \in 0 .. P - 1 /\ s[2] \in 0 .. P - 1
         /\ Denominators(s, c)[1] = (s[1] + c + 1) % P
         /\ Denominators(s, c)[1] \in 1 .. P - 1 /\ Denominators(s, c)[2] \in 1 .. P - 1
<1>1. s[1] \in 0 .. P - 1 /\ s[2] \in 0 .. P - 1
  BY TracingConstants
<1>. DEFINE m == s[1] + c + 1
            n == s[2] + c + 1
            d == Denominators(s, c)
<1>2. m \in Int /\ n \in Int
  BY <1>1
<1>3. d = <<m % P, n % P>>
  BY DEF Denominators
<1>4. d[1] = m % P /\ d[2] = n % P
  BY <1>3
<1>5. d[1] # 0 /\ d[2] # 0
  <2>1. Range(d) = {d[j] : j \in {1, 2}}
    BY <1>3 DEF Range
  <2>. QED BY <2>1
<1>. HIDE DEF m, n, d
<1>6. m % P \in 0 .. P - 1 /\ n % P \in 0 .. P - 1
  BY <1>2, Constants, ModRange
<1>7. d[1] \in 1 .. P - 1 /\ d[2] \in 1 .. P - 1
  BY <1>4, <1>5, <1>6, Constants
<1>. QED BY <1>1, <1>4, <1>7 DEF m, n, d

\* The seeds a user drew for an issue.
LEMMA SeedsOf ==
  ASSUME SignedInv, NEW u \in Users, NEW i \in Issues PROVE seeds[u][i] \in SeedChoices
BY DEF SignedInv

\* A signature has one signer.
LEMMA SignersIs ==
  ASSUME NEW u \in Users, NEW st, SignedBy(u, st) PROVE Signers(st) = {u}
BY RegistryAccepts DEF Signers, SignedBy

\* Distinct serial numbers for distinct counters.
LEMMA SerialsDiffer ==
  ASSUME NEW s \in SeedChoices, NEW c \in 0 .. P - 1, NEW d \in 0 .. P - 1, c # d,
         0 \notin Range(Denominators(s, c)), 0 \notin Range(Denominators(s, d))
  PROVE  SPoint(s, c) # SPoint(s, d)
<1>. DEFINE a == Denominators(s, c)[1]
            b == Denominators(s, d)[1]
<1>1. c \in Nat /\ d \in Nat
  BY Constants
<1>2. a \in 1 .. P - 1 /\ b \in 1 .. P - 1 /\ a = (s[1] + c + 1) % P /\ b = (s[1] + d + 1) % P
      /\ s[1] \in 0 .. P - 1
  BY <1>1, DenominatorUnits
<1>3. a # b
  <2>. DEFINE s1 == s[1]
  <2>1. s1 \in 0 .. P - 1 /\ a = (s1 + c + 1) % P /\ b = (s1 + d + 1) % P
    BY <1>2
  <2>. HIDE DEF s1, a, b
  <2>. QED BY <2>1, DenominatorsDiffer
<1>. HIDE DEF a, b
<1>4. ModInverse(a, P) # ModInverse(b, P)
  BY <1>2, <1>3, Constants, InverseInjective
<1>. DEFINE v == ModInverse(a, P)
            w == ModInverse(b, P)
<1>5. SPoint(s, c) = <<0, v>> /\ SPoint(s, d) = <<0, w>>
  BY DEF SPoint, a, b
<1>. HIDE DEF v, w
<1>. QED BY <1>4, <1>5 DEF v, w

\* The two points of a tag.
LEMMA TagPoints ==
  ASSUME NEW x, NEW s, NEW c, NEW r
  PROVE  /\ TPoint(x, s, c, r)[1] = x
         /\ TPoint(x, s, c, r)[2] = (r * ModInverse(Denominators(s, c)[2], P)) % P
BY DEF TPoint

\* Two challenges under one counter lead to the signer.
LEMMA TracesSigner ==
  ASSUME SignedInv, NEW u \in Users, NEW x, NEW y, SignedBy(u, x), SignedBy(u, y),
         x.issue = y.issue, x.witness.counter = y.witness.counter, x.r # y.r
  PROVE  Resolve(Extract(x, y)) = {u}
<1>. DEFINE s == seeds[u][x.issue]
            c == x.witness.counter
            den == Denominators(s, c)[2]
            e == ModInverse(den, P)
<1>1. /\ x.t = TPoint(X[u], s, c, x.r) /\ y.t = TPoint(X[u], s, c, y.r)
      /\ x.r \in 1 .. P - 1 /\ y.r \in 1 .. P - 1
      /\ CounterInRange(x.k, c) /\ x.issue \in Issues
      /\ 0 \notin Range(Denominators(s, c))
      /\ \E a \in Accounts : UserOf[a] = u
  BY DEF SignedBy
<1>2. s \in SeedChoices /\ c \in Nat
  <2>1. x.issue \in Issues /\ CounterInRange(x.k, c)
    BY ONLY <1>1
  <2>2. s \in SeedChoices
    BY <2>1, SeedsOf
  <2>. DEFINE k == x.k
  <2>. HIDE DEF c, k
  <2>3. CounterInRange(k, c)
    BY ONLY <2>1 DEF k
  <2>4. c \in 0 .. k - 1 /\ k \in Nat
    BY ONLY <2>3, CounterBelowQuota
  <2>5. c \in Nat
    BY ONLY <2>4
  <2>. QED BY ONLY <2>2, <2>5
<1>3. den \in 1 .. P - 1
  BY <1>1, <1>2, DenominatorUnits
<1>4. /\ x.t[1] = X[u] /\ x.t[2] = (x.r * e) % P
      /\ y.t[1] = X[u] /\ y.t[2] = (y.r * e) % P
  <2>. HIDE DEF s, c
  <2>1. x.t = TPoint(X[u], s, c, x.r) /\ y.t = TPoint(X[u], s, c, y.r)
    BY ONLY <1>1
  <2>2. TPoint(X[u], s, c, x.r)[1] = X[u] /\ TPoint(X[u], s, c, x.r)[2] = (x.r * e) % P
    BY ONLY TagPoints DEF e, den
  <2>3. TPoint(X[u], s, c, y.r)[1] = X[u] /\ TPoint(X[u], s, c, y.r)[2] = (y.r * e) % P
    BY ONLY TagPoints DEF e, den
  <2>. QED BY ONLY <2>1, <2>2, <2>3
<1>. HIDE DEF den
<1>5. e \in Int
  BY <1>3, Constants, InverseInField
<1>. HIDE DEF s, c, e
<1>6. X[u] \in 1 .. P - 1
  BY AccountConstants
<1>. DEFINE ux == Extract(x, y)
            i == ModInverse((y.r - x.r) % P, P)
<1>7. /\ ux[1] = ((y.r * X[u] - x.r * X[u]) * i) % P
      /\ ux[2] = ((y.r * ((x.r * e) % P) - x.r * ((y.r * e) % P)) * i) % P
  BY <1>4 DEF Extract
<1>8. ux[1] = X[u] /\ ux[2] = 0
  <2>. DEFINE X1 == X[u]
              r == x.r
              q == y.r
  <2>1. X1 \in 1 .. P - 1 /\ r \in 1 .. P - 1 /\ q \in 1 .. P - 1 /\ r # q
    BY <1>1, <1>6
  <2>2. /\ ux[1] = ((q * X1 - r * X1) * ModInverse((q - r) % P, P)) % P
        /\ ux[2] = ((q * ((r * e) % P) - r * ((q * e) % P)) * ModInverse((q - r) % P, P)) % P
    BY <1>7
  <2>. HIDE DEF X1, r, q, ux
  <2>3. ux[1] = X1 /\ ux[2] = 0
    BY <1>5, <2>1, <2>2, ExtractSecret
  <2>. QED BY <2>3 DEF X1
<1>. HIDE DEF ux
<1>9. Resolve(ux) = {u}
  BY <1>1, <1>8, ResolveOwner
<1>. QED BY <1>9 DEF ux

\* Trace: the verdict on two signatures is what their signers did.
LEMMA TraceVerdict == SignedInv => TraceTellsTruth
<1>. SUFFICES ASSUME SignedInv, NEW x \in signed, NEW y \in signed
              PROVE  Trace(x, y) =
                       IF Signers(x) # Signers(y) \/ x.issue # y.issue \/ x.k # y.k
                       THEN <<"invalid", {}>>
                       ELSE IF x.witness.counter # y.witness.counter THEN <<"legal", {}>>
                       ELSE IF x.r = y.r THEN <<"replay", {}>>
                       ELSE <<"traced", Signers(x)>>
  BY DEF TraceTellsTruth
<1>1. PICK u \in Users : SignedBy(u, x)
  BY DEF SignedInv
<1>2. PICK v \in Users : SignedBy(v, y)
  BY DEF SignedInv
<1>3. Signers(x) = {u} /\ Signers(y) = {v}
  BY <1>1, <1>2, SignersIs
<1>4. CASE x.issue # y.issue \/ x.k # y.k
  BY <1>4 DEF Trace
<1>5. CASE x.issue = y.issue /\ x.k = y.k /\ u # v
  <2>1. x.nym # y.nym
    <3>. DEFINE i == x.issue
    <3>1. i \in Issues /\ x.nym = Nym(X[u], seeds[u][i]) /\ y.nym = Nym(X[v], seeds[v][i])
      BY <1>1, <1>2, <1>5 DEF SignedBy
    <3>2. NymsDiffer
      BY DEF SignedInv
    <3>. HIDE DEF i
    <3>3. Nym(X[u], seeds[u][i]) # Nym(X[v], seeds[v][i])
      BY <1>5, <3>1, <3>2 DEF NymsDiffer
    <3>. QED BY ONLY <3>1, <3>3
  <2>2. Trace(x, y) = <<"invalid", {}>>
    BY <2>1 DEF Trace
  <2>3. Signers(x) # Signers(y)
    BY <1>3, <1>5
  <2>. QED BY <2>2, <2>3
<1>6. CASE x.issue = y.issue /\ x.k = y.k /\ u = v
  <2>. DEFINE s == seeds[u][x.issue]
              c == x.witness.counter
              d == y.witness.counter
  <2>1. /\ x.nym = Nym(X[u], s) /\ y.nym = Nym(X[u], s)
        /\ x.s = SPoint(s, c) /\ y.s = SPoint(s, d)
        /\ x.t = TPoint(X[u], s, c, x.r) /\ y.t = TPoint(X[u], s, d, y.r)
        /\ CounterInRange(x.k, c) /\ CounterInRange(x.k, d) /\ x.issue \in Issues
        /\ 0 \notin Range(Denominators(s, c)) /\ 0 \notin Range(Denominators(s, d))
    BY <1>1, <1>2, <1>6 DEF SignedBy
  <2>2. s \in SeedChoices /\ c \in 0 .. P - 1 /\ d \in 0 .. P - 1
    <3>1. s \in SeedChoices
      BY <2>1, SeedsOf
    <3>. DEFINE k == x.k
    <3>. HIDE DEF c, d, k, s
    <3>2. CounterInRange(k, c) /\ CounterInRange(k, d)
      BY ONLY <2>1 DEF k
    <3>3. c \in 0 .. k - 1 /\ d \in 0 .. k - 1 /\ k \in Nat /\ k < Q
      BY ONLY <3>2, CounterBelowQuota
    <3>4. c \in 0 .. P - 1 /\ d \in 0 .. P - 1
      BY ONLY <3>3, Constants
    <3>. QED BY ONLY <3>1, <3>4
  <2>3. Signers(x) = Signers(y) /\ Signers(x) = {u}
    BY <1>3, <1>6
  <2>4. CASE c # d
    <3>1. x.s # y.s
      BY <2>1, <2>2, <2>4, SerialsDiffer
    <3>2. Trace(x, y) = <<"legal", {}>>
      BY <1>6, <2>1, <3>1 DEF Trace
    <3>. QED BY <1>6, <2>3, <2>4, <3>2
  <2>5. CASE c = d /\ x.r = y.r
    <3>1. x.s = y.s /\ x.t = y.t
      BY <2>1, <2>5
    <3>2. Trace(x, y) = <<"replay", {}>>
      BY <1>6, <2>1, <2>5, <3>1 DEF Trace
    <3>. QED BY <1>6, <2>3, <2>5, <3>2
  <2>6. CASE c = d /\ x.r # y.r
    <3>1. x.s = y.s
      BY <2>1, <2>6
    <3>2. Resolve(Extract(x, y)) = {u}
      BY <1>1, <1>2, <1>6, <2>6, TracesSigner
    <3>3. Trace(x, y) = <<"traced", {u}>>
      BY <1>6, <2>1, <2>6, <3>1, <3>2 DEF Trace
    <3>. QED BY <1>6, <2>3, <2>6, <3>3
  <2>. QED BY <2>4, <2>5, <2>6
<1>. QED BY <1>4, <1>5, <1>6

\* A new snapshot changes nothing of the signatures made.
LEMMA SnapshotKeepsSigned ==
  ASSUME SignedInv, NEW r \in Seq(Accounts), NewSnapshot(r) PROVE SignedInv'
<1>1. ring' = r /\ seeds' = seeds /\ signed' = signed
  BY DEF NewSnapshot
<1>. QED BY <1>1 DEF SignedInv, NymsDiffer, SignedBy

\* The fields of a statement.
IsStatement(st, p, r, i, x, s, issue, m, k, c) ==
  LET h == ChallengeHash(issue, r, m, Nym(x, s), k)
  IN /\ st.issue = issue /\ st.k = k /\ st.nym = Nym(x, s)
     /\ st.witness.x = x /\ st.witness.counter = c
     /\ st.v = Accumulate(p, r) /\ st.ring = r /\ st.m = m
     /\ st.r = h /\ st.s = SPoint(s, c) /\ st.t = TPoint(x, s, c, h)
     /\ st.witness.d = D[r[i]] /\ st.witness.u = U(r[i]) /\ st.witness.y = Y(r[i])
     /\ st.witness.w = MembershipWitness(p, r, i)

LEMMA StatementFields ==
  ASSUME NEW p, NEW r, NEW i, NEW x, NEW s, NEW issue, NEW m, NEW k, NEW c
  PROVE  IsStatement(MakeStatement(p, r, i, x, s, issue, m, k, c), p, r, i, x, s, issue, m, k, c)
BY DEF MakeStatement, IsStatement

\* Sign: a statement that satisfies the circuit was made by its account's owner.
LEMMA SignKeepsSigned ==
  ASSUME SignedInv, NEW u \in Users, NEW i, NEW issue \in Issues, NEW k, NEW m,
         Sign(u, i, issue, k, m)
  PROVE  SignedInv'
<1>. DEFINE c == next[u][issue]
            s == seeds[u][issue]
            St(p) == MakeStatement(p, ring, i, X[u], s, issue, m, k, c)
<1>1. PICK p \in params : /\ Makes(p, ring, i, X[u], s, issue, m, k, c)
                          /\ Define(p, s, St(p))
                          /\ signed' = signed \cup {St(p)}
  BY DEF Sign
<1>2. i \in DOMAIN ring /\ ring' = ring /\ seeds' = seeds
  BY DEF Sign
<1>. DEFINE st == St(p)
<1>a. IsStatement(st, p, ring, i, X[u], s, issue, m, k, c)
  BY StatementFields
<1>. HIDE DEF st, s, c
<1>3. /\ st.issue = issue /\ st.k = k /\ st.nym = Nym(X[u], s)
      /\ st.witness.x = X[u] /\ st.witness.counter = c
  BY ONLY <1>a DEF IsStatement
<1>4. \E a \in Accounts : UserOf[a] = u
  <2>1. ring[i] \in Accounts
    BY <1>2, LenProperties, ElementOfSeq DEF SignedInv
  <2>2. (D[ring[i]] * X[u]) % P = Y(ring[i])
    BY <1>1 DEF Makes
  <2>3. u = UserOf[ring[i]]
    BY <2>1, <2>2, SecretOfOwner
  <2>. QED BY <2>1, <2>3
<1>5. Define(p, s, st)
  BY <1>1 DEF st
<1>6. /\ st.r \in 1 .. P - 1 /\ CounterInRange(k, c)
      /\ 0 \notin Range(Denominators(s, c))
      /\ st.s = SPoint(s, c)
      /\ st.t = TPoint(X[u], s, c, st.r)
  BY <1>3, <1>5 DEF Define
<1>7. SignedBy(u, st)
  BY <1>3, <1>4, <1>6 DEF SignedBy, s
<1>8. signed' = signed \cup {st}
  BY <1>1 DEF st
<1>9. ASSUME NEW z \in signed' PROVE \E v \in Users : SignedBy(v, z)
  BY <1>7, <1>8 DEF SignedInv
<1>10. ASSUME NEW v, NEW z, SignedBy(v, z) PROVE SignedBy(v, z)'
  <2>1. seeds'[v] = seeds[v]
    BY ONLY <1>2
  <2>. QED BY ONLY <1>10, <2>1 DEF SignedBy
<1>. QED BY <1>2, <1>9, <1>10 DEF SignedInv, NymsDiffer

\* Every step keeps the signatures and their signers.
LEMMA SignedStep ==
  ASSUME SignedInv, [Next]_vars PROVE SignedInv'
<1>0. ring \in Seq(Accounts)
  BY DEF SignedInv
<1>1. ASSUME ring' = ring, seeds' = seeds, signed' = signed PROVE SignedInv'
  BY <1>1 DEF SignedInv, NymsDiffer, SignedBy
<1>2. ASSUME NEW a \in Accounts, Join(a) PROVE SignedInv'
  <2>1. Append(ring, a) \in Seq(Accounts)
    BY <1>0, AppendProperties
  <2>. QED BY <1>2, <2>1, SnapshotKeepsSigned DEF Join
<1>3. ASSUME NEW a \in Accounts, Exit(a) PROVE SignedInv'
  BY <1>0, <1>3, KeepIsRing, SnapshotKeepsSigned DEF Exit
<1>4. ASSUME NEW u \in Users, RevokeUser(u) PROVE SignedInv'
  BY <1>0, <1>4, KeepIsRing, SnapshotKeepsSigned DEF RevokeUser
<1>5. ASSUME NEW u \in Users, NewSigner(u) PROVE SignedInv'
  BY <1>1, <1>5 DEF NewSigner
<1>6. CASE CeremonyNext /\ UNCHANGED <<seeds, ring, updates, next, signed>>
  BY <1>1, <1>6
<1>7. CASE UNCHANGED vars
  BY <1>1, <1>7 DEF vars
<1>. QED BY <1>2, <1>3, <1>4, <1>5, <1>6, <1>7, SignKeepsSigned DEF Next

\* Nothing is signed at first.
LEMMA SignedInit == Init => SignedInv
<1>1. <<>> \in Seq(Accounts)
  BY EmptySeq
<1>. QED BY <1>1 DEF Init, SignedInv, NymsDiffer

-----------------------------------------------------------------------------
(* Statements *)

\* CounterInRange: every counter below an issued quota passes.
LEMMA CounterFits ==
  ASSUME NEW k \in Quotas, NEW c \in Nat, c < k PROVE CounterInRange(k, c)
<1>. DEFINE W == 2 ^ Width
            n == k - c - 1
<1>1. W \in Nat /\ 2 * W <= Q /\ Q \in Nat \ {0} /\ k \in 1 .. W - 1
  BY FieldConstants, TracingConstants
<1>2. SUFFICES c \in 0 .. W - 1 /\ k \in 1 .. W - 1 /\ n % Q < W
  BY DEF CounterInRange
<1>. HIDE DEF W
<1>3. n \in 0 .. Q - 1 /\ n < W
  BY <1>1
<1>. HIDE DEF n
<1>4. n % Q = n
  BY <1>1, <1>3, ModSmall
<1>. QED BY <1>1, <1>3, <1>4

\* ChallengeHash: the challenge is a residue of the circuit field.
LEMMA ChallengeRange ==
  ASSUME NEW r \in Seq(Accounts), Len(r) <= Capacity, NEW x \in Int, NEW s \in SeedChoices,
         NEW issue \in Issues, NEW m \in Messages, NEW k \in Quotas
  PROVE  ChallengeHash(issue, r, m, Nym(x, s), k) \in 0 .. P - 1
<1>1. s[1] \in Int /\ s[2] \in Int
  BY TracingConstants, Constants
<1>. DEFINE g0 == s[1] % Q
            g1 == s[2] % Q
            g2 == x % Q
<1>2. g0 \in 0 .. Q - 1 /\ g1 \in 0 .. Q - 1 /\ g2 \in 0 .. Q - 1
  BY <1>1, Constants, ModRange
<1>3. Nym(x, s) = <<g0, g1, g2>>
  BY DEF Nym
<1>. HIDE DEF g0, g1, g2
<1>4. Len(r) \in 0 .. Capacity /\ r \in [1 .. Len(r) -> Accounts]
  BY LenProperties, DegreeFacts
<1>5. ChallengeHash(issue, r, m, <<g0, g1, g2>>, k) \in 0 .. P - 1
  BY <1>2, <1>4, ChallengeBelowP
<1>. QED BY <1>3, <1>5

\* Points of a tag are not infinity.
LEMMA TagsNonzero ==
  ASSUME NEW x \in 1 .. P - 1, NEW s \in SeedChoices, NEW c \in Nat, NEW r,
         0 \notin Range(Denominators(s, c))
  PROVE  SPoint(s, c) # <<0, 0>> /\ TPoint(x, s, c, r) # <<0, 0>>
<1>. DEFINE d == Denominators(s, c)[1]
            i == ModInverse(d, P)
            z == (r * ModInverse(Denominators(s, c)[2], P)) % P
<1>1. d \in 1 .. P - 1
  BY DenominatorUnits
<1>. HIDE DEF d
<1>2. i \in 1 .. P - 1
  BY <1>1, Constants, InverseInField
<1>3. SPoint(s, c) = <<0, i>> /\ TPoint(x, s, c, r) = <<x, z>>
  BY DEF SPoint, TPoint, d
<1>. HIDE DEF i, z
<1>4. i # 0 /\ x # 0
  BY <1>2, Constants
<1>. QED BY <1>3, <1>4

\* Whatever MakeStatement makes satisfies the circuit and passes check.
LEMMA StatementProves ==
  ASSUME NEW p, Usable(p), NEW r \in Seq(Accounts), NEW i \in 1 .. Len(r), NEW u \in Users,
         NEW s \in SeedChoices, NEW issue \in Issues, NEW m \in Messages, NEW k \in Quotas,
         NEW c \in Nat, Makes(p, r, i, X[u], s, issue, m, k, c)
  PROVE  LET st == MakeStatement(p, r, i, X[u], s, issue, m, k, c)
         IN Define(p, s, st) /\ check(p, Context(st), m, st)
<1>. DEFINE st == MakeStatement(p, r, i, X[u], s, issue, m, k, c)
            x == X[u]
            a == r[i]
            nym == Nym(x, s)
            h == ChallengeHash(issue, r, m, nym, k)
            v == RingPolynomial(r)
            w == RingPolynomial(RemoveAt(r, i))
            n == Member(a)
<1>1. /\ c < k /\ (D[a] * x) % P = Y(a) /\ Accumulates(p, r) /\ nym # <<0, 0, 0>>
      /\ h # 0 /\ 0 \notin Range(Denominators(s, c)) /\ 0 \notin {s[1], s[2]}
  BY DEF Makes
<1>2. Len(r) <= Capacity /\ n \in 1 .. Q - 1
  BY <1>1, RingFits
<1>3. /\ Accumulate(p, r) = v /\ MembershipWitness(p, r, i) = w
      /\ RemoveAt(r, i) \in Seq(Accounts) /\ Len(RemoveAt(r, i)) <= Capacity + 1
  <2>1. /\ Accumulate(p, r) = v /\ MembershipWitness(p, r, i) = w
        /\ RemoveAt(r, i) \in Seq(Accounts) /\ Len(RemoveAt(r, i)) <= Capacity
    BY <1>2, AccumulatorIs
  <2>. QED BY <2>1, LenProperties, DegreeFacts
<1>4. a \in Accounts /\ x \in 1 .. P - 1 /\ D[a] \in 1 .. P - 1 /\ x \in Int
  <2>1. a \in Accounts
    BY ElementOfSeq
  <2>2. D[a] \in 1 .. P - 1 /\ x \in 1 .. P - 1
    BY <2>1, AccountConstants
  <2>. HIDE DEF x, a
  <2>3. x \in Int
    BY ONLY <2>2, Constants
  <2>. QED BY ONLY <2>1, <2>2, <2>3
<1>5. h \in 1 .. P - 1
  <2>1. h \in 0 .. P - 1
    BY <1>2, <1>4, ChallengeRange
  <2>. HIDE DEF h, nym, x, a
  <2>2. h # 0
    BY ONLY <1>1
  <2>. QED BY ONLY <2>1, <2>2, Constants
<1>a. IsStatement(st, p, r, i, x, s, issue, m, k, c)
  BY StatementFields
<1>6. /\ st.v = v /\ st.nym = nym /\ st.issue = issue /\ st.ring = r /\ st.m = m /\ st.k = k
      /\ st.r = h /\ st.s = SPoint(s, c) /\ st.t = TPoint(x, s, c, h)
  <2>. HIDE DEF st, x, v, w
  <2>. QED BY ONLY <1>3, <1>a DEF IsStatement, nym, h
<1>7. /\ st.witness.x = x /\ st.witness.d = D[a] /\ st.witness.u = U(a) /\ st.witness.y = Y(a)
      /\ st.witness.w = w /\ st.witness.counter = c
  <2>. HIDE DEF st, x, v, w
  <2>. QED BY ONLY <1>3, <1>a DEF IsStatement, a
<1>8. v # Infinity /\ w # Infinity
  <2>1. Len(r) <= Capacity + 1
    BY <1>2, LenProperties, DegreeFacts
  <2>. QED BY <1>3, <2>1, RingPolynomialNonzero
<1>9. SPoint(s, c) # <<0, 0>> /\ TPoint(x, s, c, h) # <<0, 0>>
  BY <1>1, <1>4, TagsNonzero
<1>10. U(a) # 0 /\ Y(a) # 0 /\ U(a) = D[a]
  <2>. HIDE DEF a
  <2>1. a \in Accounts
    BY ONLY <1>4
  <2>2. U(a) \in 1 .. P - 1 /\ Y(a) \in 1 .. P - 1
    BY ONLY <2>1, PointsNonzero
  <2>3. U(a) # 0 /\ Y(a) # 0
    BY ONLY <2>2, Constants
  <2>4. U(a) = D[a]
    BY ONLY DEF U
  <2>. QED BY ONLY <2>3, <2>4
<1>11. CounterInRange(k, c)
  BY <1>1, CounterFits
<1>12. MemberHash(U(a), Y(a)) = n /\ n # 0 /\ n \in 0 .. Q - 1
  <2>1. MemberHash(U(a), Y(a)) = n
    <3>. HIDE DEF a
    <3>. QED BY ONLY DEF n, Member
  <2>. HIDE DEF n
  <2>2. n # 0 /\ n \in 0 .. Q - 1
    BY ONLY <1>2, Constants
  <2>. QED BY ONLY <2>1, <2>2
<1>13. p.hTau = Tau
  BY DEF Usable
<1>14. Add(Pair(Add(Scale(n, w), Neg(v)), Constant(1)), Pair(w, Tau)) = Infinity
  <2>1. v = TimesMember(w, n)
    BY WitnessFactor
  <2>2. w \in Poly
    BY <1>3, RingPolynomialPoly
  <2>. HIDE DEF v, w, n
  <2>. QED BY <1>12, <2>1, <2>2, CircuitMembership
<1>. HIDE DEF st, x, a, nym, h, v, w, n
<1>15. nym = Nym(x, s) /\ h = ChallengeHash(issue, r, m, nym, k)
  BY DEF nym, h
<1>16. Define(p, s, st)
  <2>1. (U(a) * x) % P = Y(a)
    BY <1>1, <1>10
  <2>. QED BY <1>1, <1>4, <1>5, <1>6, <1>7, <1>8, <1>9, <1>10, <1>11, <1>12, <1>13, <1>14, <1>15,
              <2>1 DEF Define
<1>17. check(p, Context(st), m, st)
  BY <1>1, <1>3, <1>5, <1>6, <1>15 DEF check, Context
<1>. QED BY <1>16, <1>17 DEF st, x

-----------------------------------------------------------------------------
(* Witnesses *)

\* What a signature's witness opens: the ring it was made for, at its account.
Opens(st) ==
  /\ Sound(st.ring)
  /\ \E i \in 1 .. Len(st.ring) :
       /\ st.witness.w = RingPolynomial(RemoveAt(st.ring, i))
       /\ MemberHash(st.witness.u, st.witness.y) = Member(st.ring[i])

WitnessInv ==
  /\ next \in [Users -> [Issues -> Nat]]
  /\ Sound(ring)
  /\ \A st \in signed : Opens(st)

\* The parameters of the ceremony serve.
LEMMA ParamsUsable ==
  ASSUME CeremonyInv, NEW p \in params PROVE Usable(p)
BY DEF CeremonyInv, ParamsDerived, Usable

\* Whatever MakeStatement makes of the current ring can be proved and verified.
LEMMA EveryStatementProves ==
  CeremonyInv /\ SignedInv /\ WitnessInv => StatementsProve
<1>. SUFFICES ASSUME CeremonyInv, SignedInv, WitnessInv,
                     NEW p \in params, NEW u \in Users, NEW i \in DOMAIN ring, NEW issue \in Issues,
                     NEW k \in Quotas, NEW m \in Messages,
                     Makes(p, ring, i, X[u], seeds[u][issue], issue, m, k, next[u][issue])
              PROVE  LET s == seeds[u][issue]
                         c == next[u][issue]
                         st == MakeStatement(p, ring, i, X[u], s, issue, m, k, c)
                     IN Define(p, s, st) /\ check(p, Context(st), m, st)
  BY DEF StatementsProve
<1>1. ring \in Seq(Accounts) /\ i \in 1 .. Len(ring)
  BY LenProperties DEF SignedInv
<1>2. seeds[u][issue] \in SeedChoices /\ next[u][issue] \in Nat
  BY SeedsOf DEF WitnessInv
<1>3. Usable(p)
  BY ParamsUsable
<1>. QED BY <1>1, <1>2, <1>3, StatementProves

\* A witness opens the ring's accumulator exactly when the accounts are the same.
LEMMA EveryWitnessIsCurrent ==
  CeremonyInv /\ WitnessInv => WitnessIsCurrent
<1>. SUFFICES ASSUME CeremonyInv, WitnessInv, NEW p \in params, NEW st \in signed
              PROVE  VerifyMembership(p, Accumulate(p, ring), st.witness.w,
                                      MemberHash(st.witness.u, st.witness.y))
                       <=> Range(ring) = Range(st.ring)
  BY DEF WitnessIsCurrent
<1>1. Usable(p)
  BY ParamsUsable
<1>2. Sound(ring) /\ Sound(st.ring)
  BY DEF WitnessInv, Opens
<1>3. PICK i \in 1 .. Len(st.ring) :
        /\ st.witness.w = RingPolynomial(RemoveAt(st.ring, i))
        /\ MemberHash(st.witness.u, st.witness.y) = Member(st.ring[i])
  BY DEF WitnessInv, Opens
<1>. DEFINE r == st.ring
            q == RemoveAt(r, i)
            w == RingPolynomial(q)
            m == Member(r[i])
            v == RingPolynomial(ring)
<1>4. /\ r \in Seq(Accounts) /\ Len(r) <= Capacity /\ ValidMembers(r)
      /\ ring \in Seq(Accounts) /\ Len(ring) <= Capacity
  BY <1>2 DEF Sound
<1>5. q \in Seq(Accounts) /\ Len(q) = Len(r) - 1 /\ r[i] \in Accounts /\ i \in DOMAIN r
  BY <1>4, RemoveAtIs, ElementOfSeq, LenProperties
<1>6. Accumulate(p, ring) = v
  BY <1>1, <1>4, CombineIsPolynomial DEF Usable, Accumulate
<1>7. m \in 1 .. Q - 1
  <2>1. m # 0
    BY <1>4, <1>5 DEF ValidMembers
  <2>2. m \in 0 .. Q - 1
    BY <1>5, MemberFacts
  <2>. HIDE DEF m
  <2>. QED BY <2>1, <2>2, Constants
<1>8. RingPolynomial(r) = TimesMember(w, m)
  BY <1>4, WitnessFactor
<1>. HIDE DEF q
<1>9. w \in Poly /\ v \in Poly
  BY <1>4, <1>5, RingPolynomialPoly
<1>10. w # Infinity /\ v # Infinity
  <2>1. Len(q) <= Capacity + 1 /\ Len(ring) <= Capacity + 1
    BY <1>4, <1>5, LenProperties, DegreeFacts
  <2>. QED BY <1>4, <1>5, <2>1, RingPolynomialNonzero
<1>11. RingPolynomial(ring) = RingPolynomial(r) <=> Range(ring) = Range(r)
  BY <1>2, AccumulatorIsSet
<1>12. st.witness.w = w /\ MemberHash(st.witness.u, st.witness.y) = m
  BY <1>3 DEF q
<1>. HIDE DEF w, m, v
<1>13. VerifyMembership(p, v, w, m) <=> TimesMember(w, m) = v
  BY <1>1, <1>7, <1>9, <1>10, VerifyIsEqual
<1>14. v = RingPolynomial(ring)
  BY DEF v
<1>. QED BY <1>6, <1>8, <1>11, <1>12, <1>13, <1>14

\* NewSnapshot: only a ring the parameters serve is published.
LEMMA SnapshotKeepsWitness ==
  ASSUME CeremonyInv, WitnessInv, NEW r \in Seq(Accounts), NewSnapshot(r) PROVE WitnessInv'
<1>1. ring' = r /\ next' = next /\ signed' = signed
  BY DEF NewSnapshot
<1>2. PICK p \in params : Accumulates(p, r)
  BY DEF NewSnapshot
<1>3. Len(r) <= Capacity
  BY <1>2, ParamsUsable, RingFits
<1>4. Sound(r)
  BY <1>2, <1>3 DEF Accumulates, Sound
<1>. QED BY <1>1, <1>4 DEF WitnessInv

\* Sign: a signature's witness is the polynomial of its ring without the signer.
LEMMA SignKeepsWitness ==
  ASSUME CeremonyInv, WitnessInv, NEW u \in Users, NEW i, NEW issue \in Issues, NEW k, NEW m,
         Sign(u, i, issue, k, m)
  PROVE  WitnessInv'
<1>. DEFINE c == next[u][issue]
            s == seeds[u][issue]
            St(p) == MakeStatement(p, ring, i, X[u], s, issue, m, k, c)
<1>1. PICK p \in params : signed' = signed \cup {St(p)}
  BY DEF Sign
<1>2. i \in DOMAIN ring /\ ring' = ring /\ next' = [next EXCEPT ![u][issue] = c + 1]
  BY DEF Sign
<1>3. Sound(ring) /\ ring \in Seq(Accounts) /\ Len(ring) <= Capacity
  BY DEF WitnessInv, Sound
<1>4. i \in 1 .. Len(ring)
  BY <1>2, <1>3, LenProperties
<1>. DEFINE st == St(p)
<1>a. IsStatement(st, p, ring, i, X[u], s, issue, m, k, c)
  BY StatementFields
<1>. HIDE DEF st
<1>5. /\ st.ring = ring /\ st.witness.w = MembershipWitness(p, ring, i)
      /\ st.witness.u = U(ring[i]) /\ st.witness.y = Y(ring[i])
  BY ONLY <1>a DEF IsStatement
<1>6. MembershipWitness(p, ring, i) = RingPolynomial(RemoveAt(ring, i))
  BY <1>3, <1>4, ParamsUsable, AccumulatorIs
<1>7. Opens(st)
  BY <1>3, <1>4, <1>5, <1>6 DEF Opens, Member
<1>8. signed' = signed \cup {st}
  BY <1>1 DEF st
<1>9. next' \in [Users -> [Issues -> Nat]]
  <2>0. next \in [Users -> [Issues -> Nat]]
    BY DEF WitnessInv
  <2>1. c \in Nat
    BY ONLY <2>0
  <2>. HIDE DEF c
  <2>2. c + 1 \in Nat
    BY ONLY <2>1
  <2>. QED BY ONLY <1>2, <2>0, <2>2
<1>. QED BY <1>2, <1>3, <1>7, <1>8, <1>9 DEF WitnessInv

\* Every step keeps the witnesses.
LEMMA WitnessStep ==
  ASSUME CeremonyInv, WitnessInv, [Next]_vars PROVE WitnessInv'
<1>0. ring \in Seq(Accounts)
  BY DEF WitnessInv, Sound
<1>1. ASSUME ring' = ring, next' \in [Users -> [Issues -> Nat]], signed' = signed PROVE WitnessInv'
  BY <1>1 DEF WitnessInv
<1>2. ASSUME NEW a \in Accounts, Join(a) PROVE WitnessInv'
  <2>1. Append(ring, a) \in Seq(Accounts)
    BY <1>0, AppendProperties
  <2>. QED BY <1>2, <2>1, SnapshotKeepsWitness DEF Join
<1>3. ASSUME NEW a \in Accounts, Exit(a) PROVE WitnessInv'
  BY <1>0, <1>3, KeepIsRing, SnapshotKeepsWitness DEF Exit
<1>4. ASSUME NEW u \in Users, RevokeUser(u) PROVE WitnessInv'
  BY <1>0, <1>4, KeepIsRing, SnapshotKeepsWitness DEF RevokeUser
<1>5. ASSUME NEW u \in Users, NewSigner(u) PROVE WitnessInv'
  BY <1>1, <1>5 DEF NewSigner, WitnessInv
<1>6. CASE CeremonyNext /\ UNCHANGED <<seeds, ring, updates, next, signed>>
  BY <1>1, <1>6 DEF WitnessInv
<1>7. CASE UNCHANGED vars
  BY <1>1, <1>7 DEF vars, WitnessInv
<1>. QED BY <1>2, <1>3, <1>4, <1>5, <1>6, <1>7, SignKeepsWitness DEF Next

\* The first ring is empty.
LEMMA WitnessInit == Init => WitnessInv
<1>. SUFFICES ASSUME Init PROVE WitnessInv
  OBVIOUS
<1>1. ring = <<>> /\ signed = {} /\ next \in [Users -> [Issues -> Nat]]
  BY DEF Init
<1>2. <<>> \in Seq(Accounts) /\ Len(<<>>) = 0
  BY EmptySeq
<1>3. ValidMembers(<<>>)
  <2>1. DOMAIN <<>> = {}
    BY <1>2, LenProperties
  <2>2. membersOf(<<>>) = <<>>
    BY <2>1 DEF membersOf
  <2>3. Range(<<>>) = {}
    BY <2>1 DEF Range
  <2>. QED BY <1>2, <2>1, <2>2, <2>3, CountNothing DEF ValidMembers
<1>4. Sound(<<>>)
  BY <1>2, <1>3, DegreeFacts DEF Sound
<1>. QED BY <1>1, <1>4 DEF WitnessInv

-----------------------------------------------------------------------------
(* The theorems *)

\* Nothing weaker is inductive: what a signature says of its signer needs the seeds
\* and the ring's accounts, what its witness opens needs the powers the ceremony
\* derived, and those need the transcript's types.
IInv == CeremonyInv /\ SignedInv /\ WitnessInv

\* IInv holds in every state Tracing reaches.
THEOREM Invariance == Spec => []IInv
<1>1. Init => IInv
  BY CeremonyInitInv, SignedInit, WitnessInit DEF Init, IInv
<1>2. IInv /\ [Next]_vars => IInv'
  BY CeremonyStep, CeremonyOrNot, SignedStep, WitnessStep DEF IInv
<1>. QED BY <1>1, <1>2, PTL DEF Spec

\* FinalizeQSDHCeremony: the finalised tau holds the factor of every contribution of
\* the transcript once and in order, the beacon last, and Capacity + 1 powers.
THEOREM FactorsCount == Spec => []EveryFactorCounts
<1>1. IInv => EveryFactorCounts
  BY DEF IInv, CeremonyInv
<1>. QED BY <1>1, Invariance, PTL

\* MakeStatement and Define agree: a statement MakeStatement makes satisfies the
\* circuit and passes VerificationContext.check.
THEOREM StatementsAreProved == Spec => []StatementsProve
<1>1. IInv => StatementsProve
  BY EveryStatementProves DEF IInv
<1>. QED BY <1>1, Invariance, PTL

\* VerifyMembership: the witness of a signature opens the accumulator of the current
\* snapshot exactly when the ring has the accounts it had at signing.
THEOREM WitnessesCurrent == Spec => []WitnessIsCurrent
<1>1. IInv => WitnessIsCurrent
  BY EveryWitnessIsCurrent DEF IInv
<1>. QED BY <1>1, Invariance, PTL

\* Trace: legal, replay, traced to the one signer or not comparable, as it happened;
\* never a serial collision, and never somebody else's name.
THEOREM TraceTruth == Spec => []TraceTellsTruth
<1>1. IInv => TraceTellsTruth
  BY TraceVerdict DEF IInv
<1>. QED BY <1>1, Invariance, PTL

\* CounterInRange: at most k serial numbers for a secret, an issue and a quota k,
\* whatever counter a prover puts into a witness.
THEOREM QuotaHolds == Spec => []AtMostQuotaSerials
BY SerialsWithinQuota, PTL
=============================================================================
