------------------------------- MODULE Profile ------------------------------
(***************************************************************************)
(* The algebra of src/nativeproof: the accumulator and its membership      *)
(* witnesses, statements (profile.go), the relation the proof is about     *)
(* (circuit.go), verification (backend.go), linking and tracing            *)
(* (protocol.go), over small prime fields.                                 *)
(*                                                                         *)
(* Group elements are written in generators nobody knows a relation of: a  *)
(* BN254 point of the accumulator is a polynomial in the setup's tau, a    *)
(* pseudonym its coordinates over g0, g1, g2, a secp256k1 point its        *)
(* coordinates over u and the issue's base ut.  A pairing multiplies       *)
(* polynomials.  Hashes are constants.                                     *)
(***************************************************************************)
EXTENDS Integers, Sequences, FiniteSetsExt

CONSTANTS
  P,                   \* order of secp256k1, a prime
  Q,                   \* order of BN254, a smaller prime
  Width,               \* bits of a counter and of a quota
  Capacity,            \* largest ring of the setup
  Users, Accounts,     \* registered users and accounts
  UserOf,              \* the owner of an account
  X,                   \* the secret of a user
  D,                   \* the exponent of an account
  MemberHash(_, _),    \* of an account's two points, below Q
  ChallengeHash(_, _, _, _, _)  \* of issue, ring, message, pseudonym and quota, below P

\* Every nonzero residue has an inverse: m is prime.
IsField(m) == \A n \in 1 .. m - 1 : \E i \in 1 .. m - 1 : (i * n) % m = 1

ASSUME FieldConstants ==
  /\ P \in Nat /\ Q \in Nat \ {0, 1} /\ Q < P
  /\ IsField(P) /\ IsField(Q)
  /\ 2 ^ Width \in Nat /\ 2 * 2 ^ Width <= Q
  /\ Capacity \in Nat \ {0}

ASSUME AccountConstants ==
  /\ UserOf \in [Accounts -> Users]
  /\ X \in [Users -> 1 .. P - 1] /\ D \in [Accounts -> 1 .. P - 1]
  /\ \A u, y \in 0 .. P - 1 : MemberHash(u, y) \in 0 .. Q - 1

ModInverse(n, m) == CHOOSE i \in 1 .. m - 1 : (i * n) % m = 1

-----------------------------------------------------------------------------
(* Polynomials in tau over Q: G1 and G2 *)

Degrees == 0 .. Capacity + 1
Constant(c) == [i \in Degrees |-> IF i = 0 THEN c % Q ELSE 0]
Tau == [i \in Degrees |-> IF i = 1 THEN 1 ELSE 0]
Infinity == Constant(0)

Add(a, b) == [i \in Degrees |-> (a[i] + b[i]) % Q]
Scale(c, a) == [i \in Degrees |-> (c * a[i]) % Q]
Neg(a) == Scale(Q - 1, a)
Pair(a, b) ==
  [i \in Degrees |->
     LET sum[j \in 0 .. i] == a[j] * b[i - j] + IF j = 0 THEN 0 ELSE sum[j - 1]
     IN sum[i] % Q]

\* Powers of tau in G1, the generator of G2 and its multiple by tau.
ValidateParams(p) ==
  /\ Len(p.powers) >= 2
  /\ p.powers[1] = Constant(1)
  /\ \A i \in 2 .. Len(p.powers) :
       p.powers[i] # Infinity /\ Pair(p.powers[i], Constant(1)) = Pair(p.powers[i - 1], p.hTau)

-----------------------------------------------------------------------------
(* Accounts, rings and the accumulator *)

U(a) == D[a]
Y(a) == (D[a] * X[UserOf[a]]) % P
Member(a) == MemberHash(U(a), Y(a))

\* NewRegistry: no secret is registered for two users, no account twice.
ASSUME RegistryAccepts ==
  /\ \A u, v \in Users : X[u] = X[v] => u = v
  /\ \A a, b \in Accounts : Member(a) = Member(b) => a = b

\* membersOf: every member hash is nonzero and there are no duplicates.
membersOf(ring) == [i \in DOMAIN ring |-> Member(ring[i])]
ValidMembers(ring) ==
  /\ \A i \in DOMAIN ring : Member(ring[i]) # 0
  /\ Cardinality(Range(membersOf(ring))) = Len(ring)

\* The product of (tau + member), coefficient by coefficient.
TimesMember(c, m) ==
  [i \in Degrees |-> (c[i] * m + (IF i = 0 THEN 0 ELSE c[i - 1])) % Q]
memberPolynomial(members) ==
  LET c[n \in 0 .. Len(members)] ==
        IF n = 0 THEN Constant(1) ELSE TimesMember(c[n - 1], members[n])
  IN c[Len(members)]

\* The sum of the coefficients' multiples of the powers of tau.
combinePowers(p, members) ==
  LET c == memberPolynomial(members)
      sum[n \in 0 .. Len(members) + 1] ==
        IF n = 0 THEN Infinity ELSE Add(sum[n - 1], Scale(c[n - 1], p.powers[n]))
  IN sum[Len(members) + 1]

\* Accumulate, and NewSnapshot which keeps its result.
Accumulates(p, ring) == ValidateParams(p) /\ ValidMembers(ring) /\ Len(ring) < Len(p.powers)
Accumulate(p, ring) == combinePowers(p, membersOf(ring))

\* Mutant of MembershipWitness: the account itself is not left out.
WitnessWithSelf(p, ring, i) == combinePowers(p, membersOf(ring))

\* The sequence s without its element i.
RemoveAt(s, i) == SubSeq(s, 1, i - 1) \o SubSeq(s, i + 1, Len(s))
MembershipWitness(p, ring, i) == combinePowers(p, membersOf(RemoveAt(ring, i)))

\* Mutant of VerifyMembership: the member is left out of the exponent.
VerifyAnyMember(p, v, w, member) ==
  Pair(w, p.hTau) = Pair(v, Constant(1))

\* e(w, member H + HTau) = e(v, H).
VerifyMembership(p, v, w, member) ==
  /\ member \in 1 .. Q - 1 /\ v # Infinity /\ w # Infinity /\ ValidateParams(p)
  /\ Pair(w, Add(Constant(member), p.hTau)) = Pair(v, Constant(1))

-----------------------------------------------------------------------------
(* Statements *)

\* Seeds are a hash of the secret and the issue, given here as a pair.
Nym(x, seeds) == <<seeds[1] % Q, seeds[2] % Q, x % Q>>
Denominators(seeds, c) == <<(seeds[1] + c + 1) % P, (seeds[2] + c + 1) % P>>
SPoint(seeds, c) == <<0, ModInverse(Denominators(seeds, c)[1], P)>>
TPoint(x, seeds, c, r) == <<x, (r * ModInverse(Denominators(seeds, c)[2], P)) % P>>

\* MakeStatement succeeds: the counter is below the quota, the secret opens the
\* selected account, the ring accumulates, and no seed, hash or denominator is zero.
Makes(p, ring, i, x, seeds, issue, m, k, c) ==
  /\ k > 0 /\ c < k
  /\ (D[ring[i]] * x) % P = Y(ring[i])
  /\ Accumulates(p, ring)
  /\ 0 \notin {seeds[1], seeds[2]}
  /\ Nym(x, seeds) # <<0, 0, 0>>
  /\ ChallengeHash(issue, ring, m, Nym(x, seeds), k) # 0
  /\ 0 \notin Range(Denominators(seeds, c))

\* The statement with the witness of its proof.
MakeStatement(p, ring, i, x, seeds, issue, m, k, c) ==
  LET nym == Nym(x, seeds)
      r == ChallengeHash(issue, ring, m, nym, k)
  IN [v |-> Accumulate(p, ring), nym |-> nym, issue |-> issue, ring |-> ring, m |-> m, k |-> k,
      r |-> r, s |-> SPoint(seeds, c), t |-> TPoint(x, seeds, c, r),
      witness |-> [x |-> x, d |-> D[ring[i]], u |-> U(ring[i]), y |-> Y(ring[i]),
                   w |-> MembershipWitness(p, ring, i), counter |-> c]]

-----------------------------------------------------------------------------
(* The circuit *)

\* Mutant of CounterInRange: the counter is not decomposed into bits.
CounterWraps(k, c) ==
  /\ k \in 1 .. 2 ^ Width - 1
  /\ (k - c - 1) % Q < 2 ^ Width

\* The counter and the quota fit Width bits, and so does k - counter - 1, which is
\* computed modulo Q.
CounterInRange(k, c) ==
  /\ c \in 0 .. 2 ^ Width - 1 /\ k \in 1 .. 2 ^ Width - 1
  /\ (k - c - 1) % Q < 2 ^ Width

\* Define: what a proof for the statement st shows of the witness.
Define(p, seeds, st) ==
  LET w == st.witness
      a == MemberHash(w.u, w.y)
      aWminusV == Add(Scale(a, w.w), Neg(st.v))
      den == Denominators(seeds, w.counter)
  IN /\ <<0, 0>> \notin {st.s, st.t} /\ 0 \notin {w.u, w.y}
     /\ Infinity \notin {st.v, w.w} /\ st.nym # <<0, 0, 0>>
     /\ {w.x, w.d, st.r} \subseteq 1 .. P - 1
     /\ CounterInRange(st.k, w.counter)
     /\ 0 \notin {seeds[1], seeds[2]}
     /\ st.nym = Nym(w.x, seeds)
     /\ w.d = w.u /\ (w.u * w.x) % P = w.y
     /\ a # 0
     /\ Add(Pair(aWminusV, Constant(1)), Pair(w.w, p.hTau)) = Infinity
     /\ st.r = ChallengeHash(st.issue, st.ring, st.m, st.nym, st.k)
     /\ 0 \notin Range(den)
     /\ st.s = SPoint(seeds, w.counter)
     /\ st.t = TPoint(w.x, seeds, w.counter, st.r)

-----------------------------------------------------------------------------
(* Verification, linking and tracing *)

\* VerificationContext.check.
check(p, ctx, m, st) ==
  /\ st.issue = ctx.issue /\ st.k = ctx.k
  /\ st.m = m
  /\ st.ring = ctx.ring
  /\ Accumulates(p, ctx.ring) /\ st.v = Accumulate(p, ctx.ring)
  /\ st.r \in 1 .. P - 1
  /\ st.r = ChallengeHash(st.issue, st.ring, st.m, st.nym, st.k)

\* Registry.Resolve: the users whose account has the extracted key, {} for none.
Resolve(ux) ==
  {UserOf[a] : a \in {b \in Accounts : <<(ux[1] * D[b]) % P, (ux[2] * D[b]) % P>> = <<Y(b), 0>>}}

\* Mutant of Extract: the tags are weighted with their own challenges.
ExtractOwn(x, y) ==
  [j \in 1 .. 2 |-> ((x.r * x.t[j] - y.r * y.t[j]) * ModInverse((y.r - x.r) % P, P)) % P]

Extract(x, y) ==
  [j \in 1 .. 2 |-> ((y.r * x.t[j] - x.r * y.t[j]) * ModInverse((y.r - x.r) % P, P)) % P]

\* Trace of two signatures that verify.
Trace(x, y) ==
  CASE x.issue # y.issue \/ x.k # y.k \/ x.nym # y.nym -> <<"invalid", {}>>
    [] OTHER ->
       CASE x.s # y.s -> <<"legal", {}>>
         [] x.s = y.s /\ x.r = y.r /\ x.t = y.t -> <<"replay", {}>>
         [] x.s = y.s /\ x.r = y.r /\ x.t # y.t -> <<"serial collision", {}>>
         [] OTHER -> <<"traced", Resolve(Extract(x, y))>>
=============================================================================
