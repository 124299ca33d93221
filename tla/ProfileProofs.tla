---------------------------- MODULE ProfileProofs ---------------------------
(***************************************************************************)
(* Lemmas about the algebra of Profile, for any two prime fields, any      *)
(* capacity, users, accounts and hashes.                                   *)
(*                                                                         *)
(* The recursive functions of the model are unfolded with an induction     *)
(* over sets of numbers (SetInduction) and the existence of the function   *)
(* an iteration defines (Recursion).  A point of the accumulator is then   *)
(* the product of the factors of the ring's accounts: the pairings of      *)
(* VerifyMembership and Define multiply and divide by one factor, and two  *)
(* rings have the same product exactly when they have the same accounts.   *)
(***************************************************************************)
EXTENDS Profile, FiniteSetTheorems, SequenceTheorems, TLAPS

-----------------------------------------------------------------------------
(* Induction, recursion and counting *)

\* A nonempty set of numbers has a least element.
LEMMA LeastNumber ==
  ASSUME NEW T, T \subseteq Nat, T # {}
  PROVE  \E x \in T : \A y \in T : ~(y < x)
<1>. DEFINE R == OpToRel(<, Nat)
<1>1. IsWellFoundedOn(R, Nat)
  BY NatLessThanWellFounded
<1>. HIDE DEF R
<1>2. PICK x \in T : \A y \in T : ~(<<y, x>> \in R)
  BY <1>1, WFMin
<1>3. ASSUME NEW y \in T PROVE ~(y < x)
  <2>1. <<y, x>> \notin R
    BY <1>2
  <2>. QED BY <2>1 DEF R, OpToRel
<1>. QED BY <1>2, <1>3

\* Induction on the numbers, as a statement about sets.
LEMMA SetInduction ==
  ASSUME NEW S, 0 \in S, \A n \in Nat : n \in S => n + 1 \in S
  PROVE  Nat \subseteq S
<1>. DEFINE T == Nat \ S
<1>. SUFFICES ASSUME T # {} PROVE FALSE
  OBVIOUS
<1>1. PICK x \in T : \A y \in T : ~(y < x)
  BY LeastNumber
<1>2. x # 0 /\ x \in Nat
  OBVIOUS
<1>3. x - 1 \in Nat /\ x - 1 < x /\ (x - 1) + 1 = x
  BY <1>2
<1>4. x - 1 \in S
  BY <1>1, <1>3
<1>. QED BY <1>3, <1>4

\* f is the recursive function on 0..N with value base at 0 and step g.
Iterates(f, N, base, g) == f[0] = base /\ \A n \in 1 .. N : f[n] = g[n][f[n - 1]]

\* Such a function exists.
LEMMA Recursion ==
  ASSUME NEW N \in Nat, NEW C, NEW base \in C, NEW g \in [1 .. N -> [C -> C]]
  PROVE  \E f \in [0 .. N -> C] : Iterates(f, N, base, g)
<1>. DEFINE Up(k, f) == f[0] = base /\ \A n \in 1 .. k : f[n] = g[n][f[n - 1]]
            Good == {k \in Nat : k <= N => \E f \in [0 .. k -> C] : Up(k, f)}
<1>1. 0 \in Good
  <2>1. [n \in 0 .. 0 |-> base] \in [0 .. 0 -> C] /\ Up(0, [n \in 0 .. 0 |-> base])
    OBVIOUS
  <2>. QED BY <2>1
<1>2. ASSUME NEW k \in Nat, k \in Good PROVE k + 1 \in Good
  <2>. SUFFICES ASSUME k + 1 <= N PROVE \E f \in [0 .. k + 1 -> C] : Up(k + 1, f)
    OBVIOUS
  <2>0. k <= N
    OBVIOUS
  <2>1. PICK f \in [0 .. k -> C] : Up(k, f)
    BY <1>2, <2>0
  <2>. DEFINE h == [n \in 0 .. k + 1 |-> IF n = k + 1 THEN g[k + 1][f[k]] ELSE f[n]]
  <2>2. f[k] \in C /\ k + 1 \in 1 .. N
    OBVIOUS
  <2>3. g[k + 1][f[k]] \in C
    BY <2>2
  <2>4. h \in [0 .. k + 1 -> C]
    BY <2>3
  <2>5. h[0] = base /\ h[k + 1] = g[k + 1][f[k]] /\ \A n \in 0 .. k : h[n] = f[n]
    BY <2>1
  <2>. HIDE DEF h
  <2>6. ASSUME NEW n \in 1 .. k + 1 PROVE h[n] = g[n][h[n - 1]]
    <3>1. CASE n = k + 1
      <4>1. n - 1 = k /\ k \in 0 .. k
        BY <3>1
      <4>. QED BY <4>1, <3>1, <2>5
    <3>2. CASE n # k + 1
      <4>1. n \in 1 .. k /\ n - 1 \in 0 .. k /\ n \in 0 .. k
        BY <3>2
      <4>. QED BY <4>1, <2>5, <2>1
    <3>. QED BY <3>1, <3>2
  <2>. QED BY <2>4, <2>5, <2>6
<1>. HIDE DEF Good
<1>3. N \in Good
  BY <1>1, <1>2, SetInduction
<1>. QED BY <1>3 DEF Good, Iterates

\* A set of k numbers has at most k images.
LEMMA ImagesBounded ==
  ASSUME NEW k \in Nat \ {0}, NEW S, S \subseteq 0 .. k - 1, NEW f, DOMAIN f = S, NEW T,
         T = {f[c] : c \in S}, f = [c \in S |-> f[c]]
  PROVE  Cardinality(T) <= k
<1>1. IsFiniteSet(0 .. k - 1) /\ Cardinality(0 .. k - 1) = k
  <2>1. 0 \in Int /\ k - 1 \in Int /\ ~(0 > k - 1) /\ (k - 1) - 0 + 1 = k
    OBVIOUS
  <2>. QED BY <2>1, FS_Interval
<1>2. IsFiniteSet(S) /\ Cardinality(S) <= k
  BY <1>1, FS_Subset
<1>3. f \in Surjection(S, T)
  BY DEF Surjection
<1>4. /\ Cardinality(S) \in Nat /\ Cardinality(T) \in Nat
      /\ Cardinality(T) <= Cardinality(S)
  BY <1>2, <1>3, FS_Surjection, FS_CardinalityType
<1>. QED BY <1>2, <1>4

\* A sequence of n elements with n values repeats none.
LEMMA CountedOnce ==
  ASSUME NEW n \in Nat, NEW f, f = [k \in 1 .. n |-> f[k]], Cardinality(Range(f)) = n,
         NEW i \in 1 .. n, NEW j \in 1 .. n, f[i] = f[j]
  PROVE  i = j
<1>. DEFINE S == 1 .. n
            T == Range(f)
<1>1. f = [k \in S |-> f[k]] /\ i \in S /\ j \in S /\ f[i] = f[j] /\ Cardinality(T) = n
  OBVIOUS
<1>2. IsFiniteSet(S) /\ Cardinality(S) = n
  <2>1. 1 \in Int /\ n \in Int /\ (IF 1 > n THEN 0 ELSE n - 1 + 1) = n
    OBVIOUS
  <2>. QED BY <2>1, FS_Interval
<1>. HIDE DEF S
<1>3. f \in Surjection(S, T)
  <2>1. DOMAIN f = S
    BY <1>1
  <2>. QED BY <1>1, <2>1 DEF Range, Surjection
<1>. HIDE DEF T
<1>4. f \in Injection(S, T)
  BY <1>1, <1>2, <1>3, FS_SurjSameCardinalityImpliesInj
<1>5. \A a, b \in S : f[a] = f[b] => a = b
  BY ONLY <1>4 DEF Injection, IsInjective
<1>. QED BY <1>1, <1>5

\* The empty set has no elements.
LEMMA CountNothing == Cardinality({}) = 0
BY FS_EmptySet

-----------------------------------------------------------------------------
(* Arithmetic modulo q *)

\* A remainder is below its modulus.
LEMMA ModRange ==
  ASSUME NEW q \in Nat \ {0}, NEW n \in Int PROVE n % q \in 0 .. q - 1
OBVIOUS

\* Division with remainder.
LEMMA ModDecomposes ==
  ASSUME NEW q \in Nat \ {0}, NEW n \in Int PROVE \E k \in Int : n = k * q + (n % q)
<1>1. n = (n \div q) * q + (n % q) /\ n \div q \in Int
  OBVIOUS
<1>. QED BY <1>1

\* Adding a multiple of the modulus does not change a remainder.
LEMMA ModUnique ==
  ASSUME NEW q \in Nat \ {0}, NEW k \in Int, NEW r \in 0 .. q - 1 PROVE (k * q + r) % q = r
OBVIOUS

\* A number below the modulus is its own remainder.
LEMMA ModSmall ==
  ASSUME NEW q \in Nat \ {0}, NEW r \in 0 .. q - 1 PROVE r % q = r
OBVIOUS

\* Numbers a multiple of q apart have the same residue, and only they do.
LEMMA ModShift ==
  ASSUME NEW q \in Nat \ {0}, NEW n \in Int, NEW k \in Int PROVE (n + k * q) % q = n % q
<1>1. PICK j \in Int : n = j * q + (n % q)
  BY ModDecomposes
<1>. DEFINE r == n % q
<1>2. r \in 0 .. q - 1
  BY ModRange
<1>. HIDE DEF r
<1>3. n + k * q = (j + k) * q + r
  <2>1. n = j * q + r
    BY <1>1 DEF r
  <2>. QED BY <2>1, <1>2
<1>4. j + k \in Int
  OBVIOUS
<1>5. ((j + k) * q + r) % q = r
  BY <1>2, <1>4, ModUnique
<1>. QED BY <1>3, <1>5 DEF r

\* Equal remainders differ by a multiple of the modulus.
LEMMA ModSame ==
  ASSUME NEW q \in Nat \ {0}, NEW m \in Int, NEW n \in Int, m % q = n % q
  PROVE  \E k \in Int : m = n + k * q
<1>1. PICK i \in Int : m = i * q + (m % q)
  BY ModDecomposes
<1>2. PICK j \in Int : n = j * q + (n % q)
  BY ModDecomposes
<1>. DEFINE r == n % q
<1>3. m % q = r /\ n % q = r /\ r \in Int
  BY ModRange
<1>. HIDE DEF r
<1>4. m = i * q + r /\ n = j * q + r
  BY <1>1, <1>2, <1>3
<1>5. m = n + (i - j) * q /\ i - j \in Int
  BY <1>3, <1>4
<1>. QED BY <1>5

Congruent(m, n, q) == \E k \in Int : m = n + k * q

\* Equal remainders, as a relation.
LEMMA SameIsCongruent ==
  ASSUME NEW q \in Nat \ {0}, NEW m \in Int, NEW n \in Int, m % q = n % q
  PROVE  Congruent(m, n, q)
<1>1. PICK k \in Int : m = n + k * q
  BY ModSame
<1>. QED BY ONLY <1>1 DEF Congruent

\* A residue may stand for the number inside a sum or a product.
LEMMA ModPlus ==
  ASSUME NEW q \in Nat \ {0}, NEW m \in Int, NEW n \in Int PROVE ((m % q) + n) % q = (m + n) % q
<1>1. PICK k \in Int : m = k * q + (m % q)
  BY ModDecomposes
<1>. DEFINE r == m % q
<1>2. r \in Int
  BY ModRange
<1>. HIDE DEF r
<1>3. m + n = (r + n) + k * q /\ r + n \in Int
  BY <1>1, <1>2 DEF r
<1>4. ((r + n) + k * q) % q = (r + n) % q
  BY <1>3, ModShift
<1>. QED BY <1>3, <1>4 DEF r

\* A factor may be reduced before it is multiplied.
LEMMA ModTimes ==
  ASSUME NEW q \in Nat \ {0}, NEW m \in Int, NEW n \in Int PROVE ((m % q) * n) % q = (m * n) % q
<1>1. PICK k \in Int : m = k * q + (m % q)
  BY ModDecomposes
<1>. DEFINE r == m % q
<1>2. r \in Int
  BY ModRange
<1>. HIDE DEF r
<1>3. m * n = (r * n) + (k * n) * q /\ r * n \in Int /\ k * n \in Int
  BY <1>1, <1>2 DEF r
<1>4. ((r * n) + (k * n) * q) % q = (r * n) % q
  BY <1>3, ModShift
<1>. QED BY <1>3, <1>4 DEF r

\* Multiples have remainder 0.
LEMMA ModMultiple ==
  ASSUME NEW q \in Nat \ {0}, NEW k \in Int PROVE (k * q) % q = 0
<1>1. 0 \in 0 .. q - 1 /\ (k * q) + 0 = k * q
  OBVIOUS
<1>. QED BY <1>1, ModUnique

\* Remainder 0 means a multiple.
LEMMA ModZero ==
  ASSUME NEW q \in Nat \ {0}, NEW n \in Int, n % q = 0 PROVE \E k \in Int : n = k * q
<1>1. PICK k \in Int : n = k * q + (n % q)
  BY ModDecomposes
<1>2. n = k * q
  BY <1>1
<1>. QED BY <1>2

-----------------------------------------------------------------------------
(* The fields *)

\* ModInverse is an inverse, and is not 0.
LEMMA InverseInField ==
  ASSUME NEW q \in Nat \ {0, 1}, IsField(q), NEW n \in 1 .. q - 1
  PROVE  ModInverse(n, q) \in 1 .. q - 1 /\ (ModInverse(n, q) * n) % q = 1
BY DEF IsField, ModInverse

\* No zero divisors.
LEMMA FieldCancels ==
  ASSUME NEW q \in Nat \ {0, 1}, IsField(q), NEW a \in 1 .. q - 1, NEW b \in Int, (a * b) % q = 0
  PROVE  b % q = 0
<1>1. PICK i \in 1 .. q - 1 : (i * a) % q = 1
  BY DEF IsField
<1>. DEFINE ia == i * a
            ab == a * b
<1>2. ia \in Int /\ ab \in Int /\ ia % q = 1 /\ ab % q = 0 /\ i * ab = ia * b
  BY <1>1
<1>. HIDE DEF ia, ab
<1>3. PICK j \in Int : ia = j * q + 1
  BY <1>2, ModDecomposes
<1>4. PICK k \in Int : ab = k * q
  BY <1>2, ModZero
<1>. DEFINE ik == i * k
            jb == j * b
<1>5. ik \in Int /\ jb \in Int /\ i * (k * q) = ik * q /\ (j * q + 1) * b = jb * q + b
  OBVIOUS
<1>. HIDE DEF ik, jb
<1>6. ik * q = jb * q + b
  BY <1>2, <1>3, <1>4, <1>5
<1>. DEFINE e == ik - jb
<1>7. e \in Int /\ b = e * q
  BY <1>5, <1>6
<1>. HIDE DEF e
<1>. QED BY <1>7, ModMultiple

\* Residues whose difference is a multiple of q are equal.
LEMMA ResiduesDiffer ==
  ASSUME NEW q \in Nat \ {0}, NEW a \in 0 .. q - 1, NEW b \in 0 .. q - 1, (a - b) % q = 0
  PROVE  a = b
<1>1. PICK k \in Int : a - b = k * q + 0
  <2>1. a - b \in Int
    OBVIOUS
  <2>. QED BY <2>1, ModDecomposes
<1>2. CASE k = 0
  BY <1>1, <1>2
<1>3. CASE k >= 1
  <2>1. k * q >= q
    BY <1>3
  <2>. QED BY <1>1, <2>1
<1>4. CASE k <= 0 - 1
  <2>1. k * q <= 0 - q
    BY <1>4
  <2>. QED BY <1>1, <2>1
<1>. QED BY <1>2, <1>3, <1>4

\* Multiplying by a unit loses nothing.
LEMMA FieldTimesInjective ==
  ASSUME NEW q \in Nat \ {0, 1}, IsField(q), NEW i \in 1 .. q - 1,
         NEW a \in 0 .. q - 1, NEW b \in 0 .. q - 1, (i * a) % q = (i * b) % q
  PROVE  a = b
<1>1. PICK k \in Int : i * a = i * b + k * q
  <2>1. i * a \in Int /\ i * b \in Int
    OBVIOUS
  <2>. QED BY <2>1, ModSame
<1>. DEFINE d == a - b
<1>2. d \in Int /\ i * d = i * a - i * b
  OBVIOUS
<1>. HIDE DEF d
<1>3. i * d = k * q
  BY <1>1, <1>2
<1>4. (i * d) % q = 0
  BY <1>3, ModMultiple
<1>5. d % q = 0
  BY <1>2, <1>4, FieldCancels
<1>. QED BY <1>5, ResiduesDiffer DEF d

\* Different units have different inverses.
LEMMA InverseInjective ==
  ASSUME NEW q \in Nat \ {0, 1}, IsField(q), NEW a \in 1 .. q - 1, NEW b \in 1 .. q - 1,
         ModInverse(a, q) = ModInverse(b, q)
  PROVE  a = b
<1>. DEFINE i == ModInverse(a, q)
<1>1. i \in 1 .. q - 1 /\ (i * a) % q = 1 /\ (i * b) % q = 1
  BY InverseInField
<1>. HIDE DEF i
<1>. QED BY <1>1, FieldTimesInjective

\* What FieldConstants says of the two primes.
LEMMA Constants ==
  /\ P \in Nat \ {0, 1} /\ P \in Nat \ {0} /\ IsField(P)
  /\ Q \in Nat \ {0, 1} /\ Q \in Nat \ {0} /\ IsField(Q) /\ Q < P
BY FieldConstants

-----------------------------------------------------------------------------
(* Counters, secrets and tags *)

\* CounterInRange: a counter whose two differences fit Width bits is below
\* the quota.
LEMMA CounterBelowQuota ==
  ASSUME NEW k, NEW c, CounterInRange(k, c) PROVE c \in 0 .. k - 1 /\ k \in Nat /\ k < Q
<1>. DEFINE W == 2 ^ Width
<1>1. W \in Nat /\ 2 * W <= Q /\ Q \in Nat \ {0}
  BY FieldConstants
<1>2. c \in 0 .. W - 1 /\ k \in 1 .. W - 1 /\ (k - c - 1) % Q < W
  BY DEF CounterInRange
<1>. HIDE DEF W
<1>3. SUFFICES ASSUME c >= k PROVE FALSE
  BY <1>1, <1>2
<1>. DEFINE n == c - k + 1
            r == Q - n
<1>4. n \in 1 .. W
  BY <1>1, <1>2, <1>3
<1>5. r \in 0 .. Q - 1 /\ k - c - 1 = (0 - 1) * Q + r /\ r >= W
  BY <1>1, <1>2, <1>4
<1>6. ((0 - 1) * Q + r) % Q = r
  <2>1. 0 - 1 \in Int
    OBVIOUS
  <2>. HIDE DEF r
  <2>. QED BY <1>1, <1>5, <2>1, ModUnique
<1>. HIDE DEF r
<1>. QED BY <1>1, <1>2, <1>5, <1>6

\* At most k counters pass the range check, so at most k serial numbers exist.
LEMMA SerialsBounded ==
  ASSUME NEW s, NEW k \in 1 .. 2 ^ Width - 1
  PROVE  LET counters == {c \in 0 .. Q - 1 : CounterInRange(k, c) /\ Denominators(s, c)[1] # 0}
         IN Cardinality({SPoint(s, c) : c \in counters}) <= k
<1>. DEFINE counters == {c \in 0 .. Q - 1 : CounterInRange(k, c) /\ Denominators(s, c)[1] # 0}
            f == [c \in counters |-> SPoint(s, c)]
            serials == {SPoint(s, c) : c \in counters}
<1>1. k \in Nat \ {0}
  BY FieldConstants
<1>2. counters \subseteq 0 .. k - 1
  BY CounterBelowQuota
<1>. HIDE DEF counters
<1>3. DOMAIN f = counters /\ serials = {f[c] : c \in counters} /\ f = [c \in counters |-> f[c]]
  OBVIOUS
<1>. HIDE DEF f, serials
<1>4. Cardinality(serials) <= k
  BY <1>1, <1>2, <1>3, ImagesBounded
<1>. QED BY <1>4 DEF serials, counters

\* A secret that opens an account is its owner's.
LEMMA SecretOfOwner ==
  ASSUME NEW a \in Accounts, NEW u \in Users, (D[a] * X[u]) % P = Y(a)
  PROVE  u = UserOf[a]
<1>1. D[a] \in 1 .. P - 1 /\ X[u] \in 1 .. P - 1 /\ UserOf[a] \in Users /\ X[UserOf[a]] \in 1 .. P - 1
  BY AccountConstants
<1>2. (D[a] * X[u]) % P = (D[a] * X[UserOf[a]]) % P
  BY DEF Y
<1>. DEFINE x == X[u]
            y == X[UserOf[a]]
            d == D[a]
<1>3. d \in 1 .. P - 1 /\ x \in 0 .. P - 1 /\ y \in 0 .. P - 1 /\ (d * x) % P = (d * y) % P
  BY <1>1, <1>2, Constants
<1>. HIDE DEF x, y, d
<1>4. x = y
  BY <1>3, Constants, FieldTimesInjective
<1>. QED BY <1>1, <1>4, RegistryAccepts DEF x, y

\* Denominators of counters below P differ.
LEMMA DenominatorsDiffer ==
  ASSUME NEW s \in 0 .. P - 1, NEW c \in 0 .. P - 1, NEW d \in 0 .. P - 1,
         (s + c + 1) % P = (s + d + 1) % P
  PROVE  c = d
<1>. DEFINE m == s + c + 1
            n == s + d + 1
<1>1. m \in Int /\ n \in Int /\ m % P = n % P /\ c - d = m - n
  BY Constants
<1>. HIDE DEF m, n
<1>2. PICK k \in Int : m = n + k * P
  BY <1>1, Constants, ModSame
<1>3. c - d = k * P
  BY <1>1, <1>2, Constants
<1>4. (c - d) % P = 0
  BY <1>3, Constants, ModMultiple
<1>. QED BY <1>4, Constants, ResiduesDiffer

\* The two coordinates of Extract for tags of one secret and one denominator.
LEMMA ExtractSecret ==
  ASSUME NEW x \in 1 .. P - 1, NEW e \in Int, NEW r \in 1 .. P - 1, NEW q \in 1 .. P - 1, r # q
  PROVE  /\ ((q * x - r * x) * ModInverse((q - r) % P, P)) % P = x
         /\ ((q * ((r * e) % P) - r * ((q * e) % P)) * ModInverse((q - r) % P, P)) % P = 0
<1>. DEFINE d == (q - r) % P
            i == ModInverse(d, P)
<1>1. d \in 1 .. P - 1
  <2>1. q - r \in Int
    OBVIOUS
  <2>2. d \in 0 .. P - 1
    BY <2>1, Constants, ModRange
  <2>3. d # 0
    <3>1. q \in 0 .. P - 1 /\ r \in 0 .. P - 1
      BY Constants
    <3>. QED BY <3>1, Constants, ResiduesDiffer
  <2>. HIDE DEF d
  <2>. QED BY <2>2, <2>3, Constants
<1>2. PICK j \in Int : q - r = j * P + d
  <2>1. q - r \in Int
    OBVIOUS
  <2>. QED BY <2>1, Constants, ModDecomposes
<1>. HIDE DEF d
<1>3. i \in 1 .. P - 1 /\ (i * d) % P = 1
  BY <1>1, Constants, InverseInField
<1>. HIDE DEF i
<1>4. PICK h \in Int : i * d = h * P + 1
  <2>. DEFINE id == i * d
  <2>1. id \in Int /\ id % P = 1
    BY <1>1, <1>3
  <2>. HIDE DEF id
  <2>2. PICK h \in Int : id = h * P + 1
    BY <2>1, Constants, ModDecomposes
  <2>. QED BY <2>2 DEF id
<1>5. ((q * x - r * x) * i) % P = x
  <2>. DEFINE ji == j * i
              k == ji + h
              kx == k * x
  <2>1. ji \in Int /\ k \in Int /\ kx \in Int
    BY <1>3
  <2>2. (q - r) * i = k * P + 1
    <3>1. (j * P + d) * i = (j * i) * P + i * d
      BY <1>1, <1>3, Constants
    <3>2. (q - r) * i = ji * P + (h * P + 1)
      BY <1>2, <1>4, <3>1
    <3>. HIDE DEF ji
    <3>. QED BY <2>1, <3>2, Constants
  <2>3. (q * x - r * x) * i = ((q - r) * i) * x
    BY <1>3
  <2>4. (k * P + 1) * x = kx * P + x
    <3>. HIDE DEF k
    <3>. QED BY <2>1, Constants
  <2>5. (q * x - r * x) * i = kx * P + x
    BY <2>2, <2>3, <2>4
  <2>. HIDE DEF kx
  <2>6. x \in 0 .. P - 1
    OBVIOUS
  <2>. QED BY <2>1, <2>5, <2>6, Constants, ModUnique
<1>6. ((q * ((r * e) % P) - r * ((q * e) % P)) * i) % P = 0
  <2>. DEFINE re == r * e
              qe == q * e
              a == re % P
              b == qe % P
  <2>1. re \in Int /\ qe \in Int /\ q * re = r * qe
    OBVIOUS
  <2>. HIDE DEF re, qe
  <2>2. PICK v \in Int : re = v * P + a
    BY <2>1, Constants, ModDecomposes
  <2>3. PICK w \in Int : qe = w * P + b
    BY <2>1, Constants, ModDecomposes
  <2>4. a \in Int /\ b \in Int
    BY <2>1, Constants, ModRange
  <2>. HIDE DEF a, b
  <2>. DEFINE qv == q * v
              rw == r * w
              z == rw - qv
              zi == z * i
  <2>5. qv \in Int /\ rw \in Int /\ z \in Int /\ zi \in Int
    BY <1>3
  <2>6. q * re = qv * P + q * a /\ r * qe = rw * P + r * b
    BY <2>2, <2>3, <2>4, Constants
  <2>7. q * a - r * b = z * P
    <3>. DEFINE qa == q * a
                rb == r * b
    <3>1. qa \in Int /\ rb \in Int
      BY <2>4
    <3>. HIDE DEF qa, rb, qv, rw
    <3>2. qv * P + qa = rw * P + rb
      BY <2>1, <2>6 DEF qa, rb
    <3>3. qa - rb = rw * P - qv * P
      BY <3>1, <3>2, <2>5, Constants
    <3>4. rw * P - qv * P = (rw - qv) * P
      BY <2>5, Constants
    <3>. QED BY <3>3, <3>4 DEF qa, rb
  <2>. HIDE DEF z
  <2>8. (q * a - r * b) * i = zi * P
    BY <2>5, <2>7, <1>3, Constants
  <2>. HIDE DEF zi
  <2>9. ((q * a - r * b) * i) % P = 0
    BY <2>5, <2>8, Constants, ModMultiple
  <2>. QED BY <2>9 DEF a, b, re, qe
<1>. QED BY <1>5, <1>6 DEF i, d

\* The key of one secret resolves to its owner.
LEMMA ResolveOwner ==
  ASSUME NEW u \in Users, NEW ux, ux[1] = X[u], ux[2] = 0, \E a \in Accounts : UserOf[a] = u
  PROVE  Resolve(ux) = {u}
<1>1. ASSUME NEW b \in Accounts
      PROVE  <<(ux[1] * D[b]) % P, (ux[2] * D[b]) % P>> = <<Y(b), 0>> <=> UserOf[b] = u
  <2>1. D[b] \in 1 .. P - 1 /\ X[u] \in 1 .. P - 1
    BY AccountConstants
  <2>2. ux[1] * D[b] = D[b] * X[u] /\ ux[2] * D[b] = 0
    BY <2>1
  <2>3. 0 % P = 0
    BY Constants, ModSmall
  <2>4. CASE UserOf[b] = u
    <3>1. Y(b) = (D[b] * X[u]) % P
      BY <2>4 DEF Y
    <3>. QED BY <2>2, <2>3, <2>4, <3>1
  <2>5. CASE UserOf[b] # u
    <3>1. (D[b] * X[u]) % P # Y(b)
      BY <2>5, SecretOfOwner
    <3>. QED BY <2>2, <2>5, <3>1
  <2>. QED BY <2>4, <2>5
<1>2. {b \in Accounts : <<(ux[1] * D[b]) % P, (ux[2] * D[b]) % P>> = <<Y(b), 0>>}
        = {b \in Accounts : UserOf[b] = u}
  BY <1>1
<1>3. Resolve(ux) = {UserOf[a] : a \in {b \in Accounts : UserOf[b] = u}}
  BY <1>2 DEF Resolve
<1>. QED BY <1>3

\* The points of an account are not infinity.
LEMMA PointsNonzero ==
  ASSUME NEW a \in Accounts
  PROVE  U(a) \in 1 .. P - 1 /\ Y(a) \in 1 .. P - 1
<1>. DEFINE d == D[a]
            x == X[UserOf[a]]
            n == d * x
<1>1. d \in 1 .. P - 1 /\ x \in 1 .. P - 1
  BY AccountConstants
<1>. HIDE DEF d, x
<1>2. n \in Int /\ x \in Int /\ x \in 0 .. P - 1 /\ x # 0
  BY <1>1, Constants
<1>3. x % P = x
  BY <1>2, Constants, ModSmall
<1>4. n % P # 0
  BY <1>1, <1>2, <1>3, Constants, FieldCancels
<1>. HIDE DEF n
<1>5. n % P \in 0 .. P - 1
  BY <1>2, Constants, ModRange
<1>6. n % P \in 1 .. P - 1
  BY <1>4, <1>5, Constants
<1>. QED BY <1>1, <1>6 DEF d, x, n, U, Y

-----------------------------------------------------------------------------
(* Polynomials *)

Poly == [Degrees -> 0 .. Q - 1]

\* The coefficient below i.
Below(c, i) == IF i = 0 THEN 0 ELSE c[i - 1]

\* The degrees of the polynomials: 0 to the capacity and one more.
LEMMA DegreeFacts ==
  /\ Capacity \in Nat \ {0}
  /\ 0 \in Degrees /\ 1 \in Degrees /\ Capacity + 1 \in Degrees
  /\ \A i \in Degrees : i \in Nat /\ i <= Capacity + 1 /\ (i # 0 => i - 1 \in Degrees)
BY FieldConstants DEF Degrees

\* Coefficients are residues.
LEMMA BelowInt ==
  ASSUME NEW c \in Poly, NEW i \in Degrees
  PROVE  c[i] \in 0 .. Q - 1 /\ Below(c, i) \in 0 .. Q - 1 /\ c[i] \in Int /\ Below(c, i) \in Int
BY Constants, DegreeFacts DEF Below, Poly

\* The coefficients of 1, of 0 and of tau.
LEMMA ConstantPoly ==
  /\ Constant(1) \in Poly
  /\ \A i \in Degrees : Constant(1)[i] = IF i = 0 THEN 1 ELSE 0
  /\ Infinity \in Poly /\ \A i \in Degrees : Infinity[i] = 0
  /\ Tau \in Poly /\ \A i \in Degrees : Tau[i] = IF i = 1 THEN 1 ELSE 0
<1>1. 1 % Q = 1 /\ 0 % Q = 0 /\ 1 \in 0 .. Q - 1 /\ 0 \in 0 .. Q - 1
  BY Constants, ModSmall
<1>. QED BY <1>1 DEF Constant, Infinity, Tau, Poly

\* The coefficients of a product with one factor (tau + m).
LEMMA TimesMemberAt ==
  ASSUME NEW c \in Poly, NEW m \in Int
  PROVE  /\ TimesMember(c, m) \in Poly
         /\ \A i \in Degrees : TimesMember(c, m)[i] = (c[i] * m + Below(c, i)) % Q
<1>1. \A i \in Degrees : TimesMember(c, m)[i] = (c[i] * m + Below(c, i)) % Q
  BY DEF TimesMember, Below
<1>2. ASSUME NEW i \in Degrees PROVE (c[i] * m + Below(c, i)) % Q \in 0 .. Q - 1
  <2>. DEFINE n == c[i] * m + Below(c, i)
  <2>1. n \in Int
    BY BelowInt
  <2>. HIDE DEF n
  <2>2. n % Q \in 0 .. Q - 1
    BY <2>1, Constants, ModRange
  <2>. QED BY <2>2 DEF n
<1>3. TimesMember(c, m) = [i \in Degrees |-> TimesMember(c, m)[i]]
  BY DEF TimesMember
<1>4. \A i \in Degrees : TimesMember(c, m)[i] \in 0 .. Q - 1
  BY <1>1, <1>2
<1>. QED BY <1>1, <1>3, <1>4 DEF Poly

\* A coefficient of a product with two factors.
LEMMA TwoMembers ==
  ASSUME NEW a \in Int, NEW b \in Int, NEW d \in Int, NEW m \in Int, NEW n \in Int
  PROVE  (((a * m + b) % Q) * n + ((b * m + d) % Q)) % Q = (a * (m * n) + b * (m + n) + d) % Q
<1>. DEFINE x == a * m + b
            y == b * m + d
            rx == x % Q
            ry == y % Q
            z == a * (m * n) + b * (m + n) + d
<1>1. x \in Int /\ y \in Int /\ z \in Int /\ x * n + y = z
  OBVIOUS
<1>. HIDE DEF x, y, z
<1>2. PICK j \in Int : x = j * Q + rx
  BY <1>1, Constants, ModDecomposes
<1>3. PICK k \in Int : y = k * Q + ry
  BY <1>1, Constants, ModDecomposes
<1>4. rx \in Int /\ ry \in Int
  BY <1>1, Constants, ModRange
<1>. HIDE DEF rx, ry
<1>. DEFINE rn == rx * n
            jn == j * n
            e == jn + k
            w == rn + ry
<1>5. rn \in Int /\ jn \in Int /\ e \in Int /\ w \in Int
  BY <1>4
<1>6. x * n = jn * Q + rn
  BY <1>2, <1>4, Constants
<1>. HIDE DEF rn, jn
<1>7. z = w + e * Q
  BY <1>1, <1>3, <1>4, <1>5, <1>6, Constants
<1>. HIDE DEF w, e
<1>8. (w + e * Q) % Q = w % Q
  BY <1>5, Constants, ModShift
<1>9. z % Q = w % Q
  BY <1>7, <1>8
<1>. QED BY <1>9 DEF w, z, rn, rx, ry, x, y

\* The coefficients of a product with two factors.
LEMMA TwoMembersAt ==
  ASSUME NEW c \in Poly, NEW m \in Int, NEW n \in Int, NEW i \in Degrees
  PROVE  TimesMember(TimesMember(c, m), n)[i]
           = (c[i] * (m * n) + Below(c, i) * (m + n)
                + (IF i = 0 THEN 0 ELSE Below(c, i - 1))) % Q
<1>. DEFINE t == TimesMember(c, m)
            a == c[i]
            b == Below(c, i)
            d == IF i = 0 THEN 0 ELSE Below(c, i - 1)
<1>1. t \in Poly /\ \A j \in Degrees : t[j] = (c[j] * m + Below(c, j)) % Q
  BY TimesMemberAt
<1>2. a \in Int /\ b \in Int /\ d \in Int
  BY BelowInt, DegreeFacts
<1>3. t[i] = (a * m + b) % Q
  BY <1>1
<1>4. Below(t, i) = (b * m + d) % Q
  <2>1. CASE i = 0
    <3>1. b * m + d = 0 /\ 0 % Q = 0
      BY <2>1, Constants, ModSmall DEF Below
    <3>. QED BY <2>1, <3>1 DEF Below
  <2>2. CASE i # 0
    <3>1. i - 1 \in Degrees
      BY <2>2, DegreeFacts
    <3>. QED BY <1>1, <2>2, <3>1 DEF Below
  <2>. QED BY <2>1, <2>2
<1>5. TimesMember(t, n)[i] = (t[i] * n + Below(t, i)) % Q
  <2>1. t \in Poly
    BY <1>1
  <2>. HIDE DEF t
  <2>. QED BY <2>1, TimesMemberAt
<1>. HIDE DEF a, b, d, t
<1>6. TimesMember(t, n)[i] = (a * (m * n) + b * (m + n) + d) % Q
  <2>1. TimesMember(t, n)[i] = (((a * m + b) % Q) * n + ((b * m + d) % Q)) % Q
    BY <1>3, <1>4, <1>5
  <2>. QED BY <1>2, <2>1, TwoMembers
<1>. QED BY <1>6 DEF a, b, d, t

\* The order of two factors does not matter.
LEMMA TimesCommutes ==
  ASSUME NEW c \in Poly, NEW m \in Int, NEW n \in Int
  PROVE  TimesMember(TimesMember(c, m), n) = TimesMember(TimesMember(c, n), m)
<1>. DEFINE l == TimesMember(TimesMember(c, m), n)
            r == TimesMember(TimesMember(c, n), m)
<1>1. l \in Poly /\ r \in Poly
  BY TimesMemberAt
<1>2. ASSUME NEW i \in Degrees PROVE l[i] = r[i]
  <2>1. m * n = n * m /\ m + n = n + m
    OBVIOUS
  <2>. QED BY <2>1, TwoMembersAt
<1>. HIDE DEF l, r
<1>3. l = r
  BY <1>1, <1>2 DEF Poly
<1>. QED BY <1>3 DEF l, r

-----------------------------------------------------------------------------
(* The polynomial of a ring *)

RingPolynomial(r) == memberPolynomial(membersOf(r))

\* The partial products memberPolynomial goes through.
ProductsBody(ms, f) ==
  [n \in 0 .. Len(ms) |-> IF n = 0 THEN Constant(1) ELSE TimesMember(f[n - 1], ms[n])]
Products(ms) == CHOOSE f : f = ProductsBody(ms, f)

\* memberPolynomial: the loop multiplies one member after the other.
LEMMA ProductsAt ==
  ASSUME NEW ms \in Seq(Int)
  PROVE  /\ memberPolynomial(ms) = Products(ms)[Len(ms)]
         /\ Products(ms)[0] = Constant(1)
         /\ \A n \in 1 .. Len(ms) : Products(ms)[n] = TimesMember(Products(ms)[n - 1], ms[n])
         /\ \A n \in 0 .. Len(ms) : Products(ms)[n] \in Poly
<1>. DEFINE N == Len(ms)
            g == [n \in 1 .. N |-> [v \in Poly |-> TimesMember(v, ms[n])]]
            c == Products(ms)
<1>1. memberPolynomial(ms) = c[N]
  BY DEF memberPolynomial, Products, ProductsBody
<1>2. N \in Nat /\ Constant(1) \in Poly /\ \A n \in 1 .. N : ms[n] \in Int
  BY LenProperties, ElementOfSeq, ConstantPoly
<1>. HIDE DEF N
<1>3. g \in [1 .. N -> [Poly -> Poly]]
  BY <1>2, TimesMemberAt
<1>4. \E f \in [0 .. N -> Poly] : Iterates(f, N, Constant(1), g)
  <2>. HIDE DEF g
  <2>. QED BY ONLY <1>2, <1>3, Recursion
<1>5. PICK f \in [0 .. N -> Poly] : Iterates(f, N, Constant(1), g)
  BY <1>4
<1>6. ASSUME NEW n \in 1 .. N
      PROVE  f[n] = TimesMember(f[n - 1], ms[n]) /\ n \in 0 .. N /\ n # 0
  <2>1. f[n - 1] \in Poly /\ n \in 0 .. N /\ n # 0
    BY <1>2
  <2>2. f[n] = g[n][f[n - 1]]
    BY <1>5 DEF Iterates
  <2>. QED BY <2>1, <2>2
<1>7. f = ProductsBody(ms, f)
  <2>1. f[0] = Constant(1)
    BY <1>5 DEF Iterates
  <2>. QED BY <1>2, <1>6, <2>1 DEF ProductsBody, N
<1>8. c = ProductsBody(ms, c)
  BY <1>7 DEF Products
<1>. HIDE DEF c
<1>9. c[0] = Constant(1) /\ \A n \in 1 .. N : c[n] = TimesMember(c[n - 1], ms[n])
  <2>1. c = [n \in 0 .. N |-> IF n = 0 THEN Constant(1) ELSE TimesMember(c[n - 1], ms[n])]
    BY ONLY <1>8 DEF ProductsBody, N
  <2>2. N \in Nat
    BY ONLY <1>2
  <2>3. c[0] = Constant(1)
    BY ONLY <2>1, <2>2
  <2>4. ASSUME NEW n \in 1 .. N PROVE c[n] = TimesMember(c[n - 1], ms[n])
    <3>1. n \in 0 .. N /\ n # 0
      BY ONLY <2>2
    <3>. QED BY ONLY <2>1, <3>1
  <2>. QED BY ONLY <2>3, <2>4
<1>. DEFINE Good == {n \in Nat : n <= N => c[n] \in Poly}
<1>10. 0 \in Good
  BY <1>2, <1>9
<1>11. ASSUME NEW n \in Nat, n \in Good PROVE n + 1 \in Good
  <2>. SUFFICES ASSUME n + 1 <= N PROVE c[n + 1] \in Poly
    OBVIOUS
  <2>1. n + 1 \in 1 .. N /\ (n + 1) - 1 = n /\ n <= N
    BY <1>2
  <2>2. c[n] \in Poly /\ ms[n + 1] \in Int
    BY <1>2, <1>11, <2>1
  <2>3. c[n + 1] = TimesMember(c[n], ms[n + 1])
    BY <1>9, <2>1
  <2>. QED BY <2>2, <2>3, TimesMemberAt
<1>. HIDE DEF Good
<1>12. Nat \subseteq Good
  BY <1>10, <1>11, SetInduction
<1>13. \A n \in 0 .. N : c[n] \in Poly
  BY <1>2, <1>12 DEF Good
<1>. QED BY <1>1, <1>9, <1>13 DEF N, c

\* Partial products of sequences that agree are equal.
LEMMA ProductsAgree ==
  ASSUME NEW s \in Seq(Int), NEW t \in Seq(Int), NEW N \in Nat, N <= Len(s), N <= Len(t),
         \A n \in 1 .. N : s[n] = t[n]
  PROVE  Products(s)[N] = Products(t)[N]
<1>. DEFINE Good == {n \in Nat : n <= N => Products(s)[n] = Products(t)[n]}
<1>0. Len(s) \in Nat /\ Len(t) \in Nat
  BY LenProperties
<1>1. 0 \in Good
  BY ProductsAt
<1>2. ASSUME NEW n \in Nat, n \in Good PROVE n + 1 \in Good
  <2>. SUFFICES ASSUME n + 1 <= N PROVE Products(s)[n + 1] = Products(t)[n + 1]
    OBVIOUS
  <2>1. /\ n + 1 \in 1 .. N /\ n + 1 \in 1 .. Len(s) /\ n + 1 \in 1 .. Len(t)
        /\ (n + 1) - 1 = n /\ n <= N
    BY <1>0
  <2>2. s[n + 1] = t[n + 1] /\ Products(s)[n] = Products(t)[n]
    BY <1>2, <2>1
  <2>3. Products(s)[n + 1] = TimesMember(Products(s)[n], s[n + 1])
    BY <2>1, ProductsAt
  <2>4. Products(t)[n + 1] = TimesMember(Products(t)[n], t[n + 1])
    BY <2>1, ProductsAt
  <2>. QED BY <2>2, <2>3, <2>4
<1>. HIDE DEF Good
<1>3. N \in Good
  BY <1>1, <1>2, SetInduction
<1>. QED BY <1>3 DEF Good

\* A member is a residue other than 0.
LEMMA MemberFacts ==
  ASSUME NEW a \in Accounts PROVE Member(a) \in 0 .. Q - 1 /\ Member(a) \in Int
<1>1. D[a] \in 1 .. P - 1 /\ X[UserOf[a]] \in 1 .. P - 1
  BY AccountConstants
<1>. DEFINE n == D[a] * X[UserOf[a]]
<1>2. n \in Int
  BY <1>1
<1>. HIDE DEF n
<1>3. n % P \in 0 .. P - 1
  BY <1>2, Constants, ModRange
<1>4. U(a) \in 0 .. P - 1 /\ Y(a) \in 0 .. P - 1
  BY <1>1, <1>3, Constants DEF U, Y, n
<1>5. Member(a) \in 0 .. Q - 1
  BY <1>4, AccountConstants DEF Member
<1>. QED BY <1>5, Constants

\* An interval from 1 has one end.
LEMMA IntervalEnd ==
  ASSUME NEW m \in Nat, NEW n \in Nat, 1 .. m = 1 .. n PROVE m = n
<1>1. CASE m < n
  <2>1. n \in 1 .. n /\ n \notin 1 .. m
    BY <1>1
  <2>. QED BY <2>1
<1>2. CASE n < m
  <2>1. m \in 1 .. m /\ m \notin 1 .. n
    BY <1>2
  <2>. QED BY <2>1
<1>. QED BY <1>1, <1>2

\* membersOf: the members of a ring, in its order.
LEMMA MembersOfRing ==
  ASSUME NEW r \in Seq(Accounts)
  PROVE  /\ membersOf(r) \in Seq(Int) /\ Len(membersOf(r)) = Len(r)
         /\ \A i \in 1 .. Len(r) : membersOf(r)[i] = Member(r[i])
<1>. DEFINE N == Len(r)
            ms == membersOf(r)
<1>1. N \in Nat /\ DOMAIN r = 1 .. N /\ \A i \in 1 .. N : r[i] \in Accounts
  BY LenProperties, ElementOfSeq
<1>. HIDE DEF N
<1>2. ms = [i \in 1 .. N |-> Member(r[i])]
  BY <1>1 DEF membersOf
<1>3. \A i \in 1 .. N : Member(r[i]) \in Int
  BY <1>1, MemberFacts
<1>4. ms \in [1 .. N -> Int]
  BY <1>2, <1>3
<1>5. ms \in Seq(Int)
  BY <1>1, <1>4, SeqDef
<1>6. Len(ms) = N
  <2>1. Len(ms) \in Nat /\ DOMAIN ms = 1 .. Len(ms)
    BY <1>5, LenProperties
  <2>2. 1 .. Len(ms) = 1 .. N
    BY <1>2, <2>1
  <2>. QED BY <1>1, <2>1, <2>2, IntervalEnd
<1>. QED BY <1>2, <1>5, <1>6 DEF N, ms

\* The polynomial of no account is 1.
LEMMA RingPolynomialEmpty == RingPolynomial(<<>>) = Constant(1)
<1>1. <<>> \in Seq(Accounts) /\ Len(<<>>) = 0
  BY EmptySeq
<1>. DEFINE ms == membersOf(<<>>)
<1>2. ms \in Seq(Int) /\ Len(ms) = 0
  BY <1>1, MembersOfRing
<1>. HIDE DEF ms
<1>3. memberPolynomial(ms) = Constant(1)
  BY <1>2, ProductsAt
<1>. QED BY <1>3 DEF RingPolynomial, ms

\* An account more is a factor more.
LEMMA RingPolynomialAppend ==
  ASSUME NEW r \in Seq(Accounts), NEW a \in Accounts
  PROVE  RingPolynomial(Append(r, a)) = TimesMember(RingPolynomial(r), Member(a))
<1>. DEFINE N == Len(r)
            q == Append(r, a)
            s == membersOf(r)
            t == membersOf(q)
<1>1. N \in Nat /\ q \in Seq(Accounts) /\ Len(q) = N + 1 /\ q[N + 1] = a /\ \A i \in 1 .. N : q[i] = r[i]
  BY LenProperties, AppendProperties
<1>. HIDE DEF q
<1>2. s \in Seq(Int) /\ Len(s) = N /\ \A i \in 1 .. N : s[i] = Member(r[i])
  BY MembersOfRing
<1>3. t \in Seq(Int) /\ Len(t) = N + 1 /\ \A i \in 1 .. N + 1 : t[i] = Member(q[i])
  BY <1>1, MembersOfRing
<1>. HIDE DEF N, s, t
<1>4. \A i \in 1 .. N : s[i] = t[i]
  BY <1>1, <1>2, <1>3
<1>5. Products(s)[N] = Products(t)[N]
  <2>1. N <= N /\ N <= N + 1
    BY <1>1
  <2>. QED BY <1>1, <1>2, <1>3, <1>4, <2>1, ProductsAgree
<1>6. N + 1 \in 1 .. N + 1 /\ (N + 1) - 1 = N
  BY <1>1
<1>7. Products(t)[N + 1] = TimesMember(Products(t)[N], t[N + 1])
  BY <1>3, <1>6, ProductsAt
<1>8. t[N + 1] = Member(a)
  BY <1>1, <1>3, <1>6
<1>9. memberPolynomial(t) = Products(t)[N + 1] /\ memberPolynomial(s) = Products(s)[N]
  BY <1>2, <1>3, ProductsAt
<1>. QED BY <1>5, <1>7, <1>8, <1>9 DEF RingPolynomial, s, t, q

\* The polynomial of a ring is a polynomial.
LEMMA RingPolynomialPoly ==
  ASSUME NEW r \in Seq(Accounts) PROVE RingPolynomial(r) \in Poly
<1>. DEFINE ms == membersOf(r)
<1>1. ms \in Seq(Int) /\ Len(ms) \in Nat
  BY MembersOfRing, LenProperties
<1>. HIDE DEF ms
<1>2. memberPolynomial(ms) \in Poly
  <2>1. Len(ms) \in 0 .. Len(ms)
    BY <1>1
  <2>. QED BY <1>1, <2>1, ProductsAt
<1>. QED BY <1>2 DEF RingPolynomial, ms

\* Induction on the length of a ring, as a statement about sets.
LEMMA RingInduction ==
  ASSUME NEW S, <<>> \in S,
         \A r \in Seq(Accounts), a \in Accounts : r \in S => Append(r, a) \in S
  PROVE  Seq(Accounts) \subseteq S
<1>. DEFINE Good == {n \in Nat : \A r \in Seq(Accounts) : Len(r) = n => r \in S}
<1>1. 0 \in Good
  BY EmptySeq
<1>2. ASSUME NEW n \in Nat, n \in Good PROVE n + 1 \in Good
  <2>. SUFFICES ASSUME NEW q \in Seq(Accounts), Len(q) = n + 1 PROVE q \in S
    OBVIOUS
  <2>1. q # <<>>
    BY EmptySeq
  <2>2. PICK r \in Seq(Accounts), a \in Accounts : q = Append(r, a)
    BY <2>1, SequenceEmptyOrAppend
  <2>3. Len(r) = n
    BY <2>2, AppendProperties, LenProperties
  <2>4. r \in S
    BY <1>2, <2>3
  <2>. QED BY <2>2, <2>4
<1>. HIDE DEF Good
<1>3. Nat \subseteq Good
  BY <1>1, <1>2, SetInduction
<1>. QED BY <1>3, LenProperties DEF Good

\* The polynomial of a ring is monic of the ring's length.
LEMMA RingDegree ==
  ASSUME NEW r \in Seq(Accounts), Len(r) <= Capacity + 1
  PROVE  /\ RingPolynomial(r)[Len(r)] = 1
         /\ \A j \in Degrees : j > Len(r) => RingPolynomial(r)[j] = 0
<1>. DEFINE Monic(s) == /\ RingPolynomial(s)[Len(s)] = 1
                        /\ \A j \in Degrees : j > Len(s) => RingPolynomial(s)[j] = 0
            S == {s \in Seq(Accounts) : Len(s) <= Capacity + 1 => Monic(s)}
<1>1. <<>> \in S
  BY EmptySeq, RingPolynomialEmpty, ConstantPoly, DegreeFacts
<1>2. ASSUME NEW s \in Seq(Accounts), NEW a \in Accounts, s \in S PROVE Append(s, a) \in S
  <2>. DEFINE q == Append(s, a)
              n == Len(s)
              c == RingPolynomial(s)
              m == Member(a)
  <2>1. q \in Seq(Accounts) /\ Len(q) = n + 1 /\ n \in Nat
    BY AppendProperties, LenProperties
  <2>2. SUFFICES ASSUME n + 1 <= Capacity + 1 PROVE Monic(q)
    BY <2>1
  <2>3. c \in Poly /\ m \in Int /\ RingPolynomial(q) = TimesMember(c, m)
    BY RingPolynomialPoly, MemberFacts, RingPolynomialAppend
  <2>4. c[n] = 1 /\ \A j \in Degrees : j > n => c[j] = 0
    <3>1. n <= Capacity + 1
      BY <2>1, <2>2, DegreeFacts
    <3>. QED BY <1>2, <3>1
  <2>. HIDE DEF q, n, c, m
  <2>5. \A i \in Degrees : TimesMember(c, m)[i] = (c[i] * m + Below(c, i)) % Q
    BY <2>3, TimesMemberAt
  <2>6. 0 % Q = 0 /\ 1 % Q = 1
    BY Constants, ModSmall
  <2>7. TimesMember(c, m)[n + 1] = 1
    <3>1. n + 1 \in Degrees /\ n + 1 # 0 /\ (n + 1) - 1 = n /\ n + 1 > n
      BY <2>1, <2>2, DegreeFacts DEF Degrees
    <3>2. c[n + 1] = 0 /\ Below(c, n + 1) = 1
      BY <2>4, <3>1 DEF Below
    <3>3. c[n + 1] * m + Below(c, n + 1) = 1
      BY <2>3, <3>2
    <3>. QED BY <2>5, <2>6, <3>1, <3>3
  <2>8. ASSUME NEW j \in Degrees, j > n + 1 PROVE TimesMember(c, m)[j] = 0
    <3>1. j \in Nat /\ j # 0 /\ j - 1 \in Degrees /\ j > n /\ j - 1 > n
      BY <2>1, <2>8, DegreeFacts
    <3>2. c[j] = 0 /\ Below(c, j) = 0
      BY <2>4, <3>1 DEF Below
    <3>3. c[j] * m + Below(c, j) = 0
      BY <2>3, <3>2
    <3>. QED BY <2>5, <2>6, <3>3
  <2>. QED BY <2>1, <2>3, <2>7, <2>8
<1>. HIDE DEF S
<1>3. Seq(Accounts) \subseteq S
  BY <1>1, <1>2, RingInduction
<1>. QED BY <1>3 DEF S

\* The polynomial of a ring that fits is not 0.
LEMMA RingPolynomialNonzero ==
  ASSUME NEW r \in Seq(Accounts), Len(r) <= Capacity + 1 PROVE RingPolynomial(r) # Infinity
<1>1. Len(r) \in Degrees
  BY LenProperties DEF Degrees
<1>2. RingPolynomial(r)[Len(r)] = 1
  BY RingDegree
<1>. QED BY <1>1, <1>2, ConstantPoly

-----------------------------------------------------------------------------
(* Taking an account out of a ring *)

\* What RemoveAt leaves.
LEMMA RemoveAtIs ==
  ASSUME NEW S, NEW s \in Seq(S), NEW i \in 1 .. Len(s)
  PROVE  /\ RemoveAt(s, i) \in Seq(S) /\ Len(RemoveAt(s, i)) = Len(s) - 1
         /\ \A j \in 1 .. Len(s) - 1 : RemoveAt(s, i)[j] = IF j < i THEN s[j] ELSE s[j + 1]
<1>. DEFINE n == Len(s)
            b == i - 1
            d == i + 1
            f == SubSeq(s, 1, b)
            g == SubSeq(s, d, n)
<1>1. n \in Nat /\ i \in Nat /\ b \in Nat /\ d \in Nat /\ i <= n /\ 1 <= i /\ \A j \in 1 .. n : s[j] \in S
  BY LenProperties, ElementOfSeq
<1>2. RemoveAt(s, i) = f \o g
  BY DEF RemoveAt
<1>3. /\ f \in Seq(S) /\ Len(f) = (IF 1 <= b THEN b - 1 + 1 ELSE 0)
      /\ \A j \in 1 .. b - 1 + 1 : f[j] = s[1 + j - 1]
  <2>1. \A j \in 1 .. b : s[j] \in S
    BY <1>1
  <2>. HIDE DEF b
  <2>. QED BY <1>1, <2>1, SubSeqProperties
<1>4. /\ g \in Seq(S) /\ Len(g) = (IF d <= n THEN n - d + 1 ELSE 0)
      /\ \A j \in 1 .. n - d + 1 : g[j] = s[d + j - 1]
  <2>1. \A j \in d .. n : s[j] \in S
    BY <1>1
  <2>. HIDE DEF d, n
  <2>. QED BY <1>1, <2>1, SubSeqProperties
<1>. HIDE DEF f, g
<1>5. Len(f) = b /\ Len(g) = n - i
  BY <1>1, <1>3, <1>4
<1>6. /\ f \o g \in Seq(S) /\ Len(f \o g) = Len(f) + Len(g)
      /\ \A j \in 1 .. Len(f) + Len(g) : (f \o g)[j] = IF j <= Len(f) THEN f[j] ELSE g[j - Len(f)]
  BY <1>3, <1>4, ConcatProperties
<1>7. Len(f \o g) = n - 1
  BY <1>1, <1>5, <1>6
<1>8. ASSUME NEW j \in 1 .. n - 1 PROVE (f \o g)[j] = IF j < i THEN s[j] ELSE s[j + 1]
  <2>1. j \in 1 .. Len(f) + Len(g)
    BY <1>1, <1>5
  <2>2. (f \o g)[j] = IF j <= b THEN f[j] ELSE g[j - b]
    BY <1>5, <1>6, <2>1
  <2>3. CASE j < i
    <3>1. j <= b /\ j \in 1 .. b - 1 + 1 /\ 1 + j - 1 = j
      BY <1>1, <2>3
    <3>. QED BY <1>3, <2>2, <2>3, <3>1
  <2>4. CASE ~(j < i)
    <3>1. ~(j <= b) /\ j - b \in 1 .. n - d + 1 /\ d + (j - b) - 1 = j + 1
      BY <1>1, <2>4
    <3>. QED BY <1>4, <2>2, <2>4, <3>1
  <2>. QED BY <2>3, <2>4
<1>. QED BY <1>2, <1>6, <1>7, <1>8

\* memberPolynomial and MembershipWitness: for any ring and any place in it, the
\* ring's polynomial is that of the ring without the account times its factor.
THEOREM WitnessFactor ==
  ASSUME NEW r \in Seq(Accounts), NEW i \in 1 .. Len(r)
  PROVE  RingPolynomial(r) = TimesMember(RingPolynomial(RemoveAt(r, i)), Member(r[i]))
<1>. DEFINE Splits(s, j) == RingPolynomial(s) = TimesMember(RingPolynomial(RemoveAt(s, j)), Member(s[j]))
            S == {s \in Seq(Accounts) : \A j \in 1 .. Len(s) : Splits(s, j)}
<1>1. <<>> \in S
  BY EmptySeq
<1>2. ASSUME NEW s \in Seq(Accounts), NEW a \in Accounts, s \in S PROVE Append(s, a) \in S
  <2>. DEFINE q == Append(s, a)
              n == Len(s)
  <2>1. /\ q \in Seq(Accounts) /\ Len(q) = n + 1 /\ n \in Nat
        /\ q[n + 1] = a /\ \A j \in 1 .. n : q[j] = s[j]
    BY AppendProperties, LenProperties
  <2>2. RingPolynomial(q) = TimesMember(RingPolynomial(s), Member(a))
    BY RingPolynomialAppend
  <2>3. RemoveAt(q, n + 1) = s
    <3>. DEFINE t == RemoveAt(q, n + 1)
    <3>. HIDE DEF q
    <3>1. n + 1 \in 1 .. Len(q)
      BY <2>1
    <3>2. /\ t \in Seq(Accounts) /\ Len(t) = Len(q) - 1
          /\ \A j \in 1 .. Len(q) - 1 : t[j] = IF j < n + 1 THEN q[j] ELSE q[j + 1]
      BY <2>1, <3>1, RemoveAtIs
    <3>. HIDE DEF t
    <3>3. Len(t) = Len(s) /\ \A j \in 1 .. Len(t) : t[j] = s[j]
      BY <2>1, <3>2
    <3>4. t = s
      BY <3>2, <3>3, SeqEqual
    <3>. QED BY <3>4 DEF t
  <2>4. ASSUME NEW j \in 1 .. n PROVE Splits(q, j)
    <3>. DEFINE t == RemoveAt(q, j)
                f == RemoveAt(s, j)
                h == Append(f, a)
                m == Member(s[j])
                c == RingPolynomial(f)
    <3>. HIDE DEF q
    <3>1. j \in 1 .. Len(q)
      BY <2>1
    <3>2. /\ t \in Seq(Accounts) /\ Len(t) = Len(q) - 1
          /\ \A k \in 1 .. Len(q) - 1 : t[k] = IF k < j THEN q[k] ELSE q[k + 1]
      BY <2>1, <3>1, RemoveAtIs
    <3>3. /\ f \in Seq(Accounts) /\ Len(f) = n - 1
          /\ \A k \in 1 .. n - 1 : f[k] = IF k < j THEN s[k] ELSE s[k + 1]
      BY RemoveAtIs
    <3>. HIDE DEF t, f
    <3>4. /\ h \in Seq(Accounts) /\ Len(h) = Len(f) + 1 /\ h[Len(f) + 1] = a
          /\ \A k \in 1 .. Len(f) : h[k] = f[k]
      BY <3>3, AppendProperties
    <3>. HIDE DEF h
    <3>5. Len(t) = n /\ Len(h) = n
      BY <2>1, <3>2, <3>3, <3>4
    <3>6. ASSUME NEW k \in 1 .. Len(t) PROVE t[k] = h[k]
      <4>1. t[k] = IF k < j THEN q[k] ELSE q[k + 1]
        BY <2>1, <3>2, <3>5
      <4>2. CASE k = n
        <5>1. ~(k < j) /\ h[k] = a /\ q[k + 1] = a
          BY <2>1, <3>3, <3>4, <4>2
        <5>. QED BY <4>1, <5>1
      <4>3. CASE k # n
        <5>1. k \in 1 .. n - 1 /\ k \in 1 .. n /\ k + 1 \in 1 .. n /\ k \in 1 .. Len(f)
          BY <2>1, <3>3, <3>5, <4>3
        <5>2. h[k] = IF k < j THEN s[k] ELSE s[k + 1]
          BY <3>3, <3>4, <5>1
        <5>3. q[k] = s[k] /\ q[k + 1] = s[k + 1]
          BY <2>1, <5>1
        <5>. QED BY <4>1, <5>2, <5>3
      <4>. QED BY <4>2, <4>3
    <3>7. t = h
      BY <3>2, <3>4, <3>5, <3>6, SeqEqual
    <3>8. RingPolynomial(h) = TimesMember(c, Member(a))
      BY <3>3, RingPolynomialAppend DEF h
    <3>9. RingPolynomial(s) = TimesMember(c, m)
      BY <1>2 DEF f
    <3>10. c \in Poly /\ m \in Int /\ Member(a) \in Int
      BY <3>3, RingPolynomialPoly, MemberFacts, ElementOfSeq
    <3>. HIDE DEF c, m
    <3>11. TimesMember(TimesMember(c, m), Member(a)) = TimesMember(TimesMember(c, Member(a)), m)
      BY <3>10, TimesCommutes
    <3>12. RingPolynomial(q) = TimesMember(TimesMember(c, m), Member(a))
      BY <2>2, <3>9 DEF q
    <3>13. q[j] = s[j]
      BY <2>1
    <3>. QED BY <3>7, <3>8, <3>11, <3>12, <3>13 DEF t, m
  <2>5. Splits(q, n + 1)
    BY <2>1, <2>2, <2>3
  <2>6. \A j \in 1 .. Len(q) : Splits(q, j)
    <3>1. \A j \in 1 .. Len(q) : j \in 1 .. n \/ j = n + 1
      BY <2>1
    <3>. QED BY <2>4, <2>5, <3>1
  <2>. QED BY <2>1, <2>6
<1>. HIDE DEF S
<1>3. Seq(Accounts) \subseteq S
  BY <1>1, <1>2, RingInduction
<1>. QED BY <1>3 DEF S

-----------------------------------------------------------------------------
(* Accumulate: the combination of the powers is the polynomial *)

\* Powers as FinalizeQSDHCeremony derives them.
Monomial(k) == [d \in Degrees |-> IF d = k THEN 1 ELSE 0]
DerivedPowers == [i \in 1 .. Capacity + 1 |-> Monomial(i - 1)]

\* What the prover and the verifier are given.
Usable(p) == p.hTau = Tau /\ p.powers = DerivedPowers /\ ValidateParams(p)

SumsBody(p, N, c, f) ==
  [n \in 0 .. N |-> IF n = 0 THEN Infinity ELSE Add(f[n - 1], Scale(c[n - 1], p.powers[n]))]
Sums(p, N, c) == CHOOSE f : f = SumsBody(p, N, c, f)

\* The coefficients of sums and multiples.
LEMMA AddScalePoly ==
  ASSUME NEW a \in Poly, NEW b \in Poly, NEW k \in Int
  PROVE  /\ Add(a, b) \in Poly /\ Scale(k, a) \in Poly
         /\ \A i \in Degrees : Add(a, b)[i] = (a[i] + b[i]) % Q
         /\ \A i \in Degrees : Scale(k, a)[i] = (k * a[i]) % Q
<1>1. ASSUME NEW i \in Degrees PROVE (a[i] + b[i]) % Q \in 0 .. Q - 1 /\ (k * a[i]) % Q \in 0 .. Q - 1
  <2>. DEFINE m == a[i] + b[i]
              n == k * a[i]
  <2>1. m \in Int /\ n \in Int
    BY BelowInt
  <2>. HIDE DEF m, n
  <2>2. m % Q \in 0 .. Q - 1 /\ n % Q \in 0 .. Q - 1
    BY <2>1, Constants, ModRange
  <2>. QED BY <2>2 DEF m, n
<1>. QED BY <1>1 DEF Add, Scale, Poly

\* combinePowers: for any ring within the capacity, the powers of a finalised
\* ceremony combine to the product of the members' factors.
THEOREM CombineIsPolynomial ==
  ASSUME NEW p, p.powers = DerivedPowers, NEW r \in Seq(Accounts), Len(r) <= Capacity
  PROVE  combinePowers(p, membersOf(r)) = RingPolynomial(r)
<1>. DEFINE c == RingPolynomial(r)
            L == Len(r)
            N == L + 1
            g == [n \in 1 .. N |-> [v \in Poly |-> Add(v, Scale(c[n - 1], p.powers[n]))]]
            sum == Sums(p, N, c)
<1>1. L \in Nat /\ N \in Nat /\ Len(membersOf(r)) = L /\ N <= Capacity + 1 /\ L <= Capacity + 1
  BY LenProperties, MembersOfRing, DegreeFacts
<1>2. combinePowers(p, membersOf(r)) = sum[N]
  BY <1>1 DEF combinePowers, Sums, SumsBody, RingPolynomial
<1>3. c \in Poly /\ \A j \in Degrees : j > L => c[j] = 0
  BY <1>1, RingPolynomialPoly, RingDegree
<1>4. ASSUME NEW n \in 1 .. N
      PROVE  n - 1 \in Degrees /\ c[n - 1] \in Int /\ p.powers[n] \in Poly
             /\ \A d \in Degrees : p.powers[n][d] = IF d = n - 1 THEN 1 ELSE 0
  <2>1. n - 1 \in Degrees /\ n \in 1 .. Capacity + 1
    BY <1>1, DegreeFacts DEF Degrees
  <2>2. c[n - 1] \in Int
    BY <1>3, <2>1, BelowInt
  <2>3. p.powers[n] = Monomial(n - 1)
    BY <2>1 DEF DerivedPowers
  <2>4. 0 \in 0 .. Q - 1 /\ 1 \in 0 .. Q - 1
    BY Constants
  <2>. QED BY <2>1, <2>2, <2>3, <2>4 DEF Monomial, Poly
<1>. HIDE DEF c, L
<1>5. g \in [1 .. N -> [Poly -> Poly]]
  <2>1. ASSUME NEW n \in 1 .. N, NEW v \in Poly PROVE Add(v, Scale(c[n - 1], p.powers[n])) \in Poly
    BY <1>4, AddScalePoly
  <2>. HIDE DEF N
  <2>. QED BY <2>1
<1>6. \E f \in [0 .. N -> Poly] : Iterates(f, N, Infinity, g)
  <2>1. Infinity \in Poly
    BY ConstantPoly
  <2>. HIDE DEF g, N
  <2>. QED BY ONLY <1>1, <1>5, <2>1, Recursion
<1>. HIDE DEF N
<1>7. PICK f \in [0 .. N -> Poly] : Iterates(f, N, Infinity, g)
  BY <1>6
<1>8. ASSUME NEW n \in 1 .. N
      PROVE  f[n] = Add(f[n - 1], Scale(c[n - 1], p.powers[n])) /\ n \in 0 .. N /\ n # 0
  <2>1. f[n - 1] \in Poly /\ n \in 0 .. N /\ n # 0
    BY <1>1
  <2>2. f[n] = g[n][f[n - 1]]
    BY <1>7 DEF Iterates
  <2>. QED BY <2>1, <2>2
<1>9. f = SumsBody(p, N, c, f)
  <2>1. f[0] = Infinity
    BY <1>7 DEF Iterates
  <2>. QED BY <1>1, <1>8, <2>1 DEF SumsBody
<1>10. sum = SumsBody(p, N, c, sum)
  BY <1>9 DEF Sums
<1>. HIDE DEF sum
<1>11. /\ sum[0] = Infinity
       /\ \A n \in 1 .. N : sum[n] = Add(sum[n - 1], Scale(c[n - 1], p.powers[n]))
  BY <1>1, <1>10 DEF SumsBody
<1>. DEFINE Upto(n) == sum[n] \in Poly /\ \A d \in Degrees : sum[n][d] = IF d < n THEN c[d] ELSE 0
            Good == {n \in Nat : n <= N => Upto(n)}
<1>12. 0 \in Good
  <2>1. sum[0] \in Poly /\ \A d \in Degrees : sum[0][d] = 0
    BY ONLY <1>11, ConstantPoly
  <2>2. \A d \in Degrees : ~(d < 0)
    <3>. SUFFICES ASSUME NEW d \in Degrees PROVE ~(d < 0)
      OBVIOUS
    <3>1. d \in Nat
      BY DegreeFacts
    <3>. QED BY ONLY <3>1
  <2>3. Upto(0)
    BY ONLY <2>1, <2>2 DEF Upto
  <2>. QED BY ONLY <2>3 DEF Good
<1>13. ASSUME NEW n \in Nat, n \in Good PROVE n + 1 \in Good
  <2>. SUFFICES ASSUME n + 1 <= N PROVE Upto(n + 1)
    OBVIOUS
  <2>1. n + 1 \in 1 .. N /\ (n + 1) - 1 = n /\ n <= N
    BY <1>1
  <2>2. Upto(n)
    BY <1>13, <2>1
  <2>. DEFINE pw == p.powers[n + 1]
              t == Scale(c[n], pw)
  <2>3. n \in Degrees /\ c[n] \in Int /\ pw \in Poly /\ \A d \in Degrees : pw[d] = IF d = n THEN 1 ELSE 0
    BY <1>4, <2>1
  <2>4. sum[n + 1] = Add(sum[n], t)
    BY <1>11, <2>1
  <2>. HIDE DEF pw
  <2>5. t \in Poly /\ \A d \in Degrees : t[d] = (c[n] * pw[d]) % Q
    <3>. DEFINE k == c[n]
    <3>1. pw \in Poly /\ k \in Int
      BY ONLY <2>3
    <3>. HIDE DEF k
    <3>2. Scale(k, pw) \in Poly /\ \A d \in Degrees : Scale(k, pw)[d] = (k * pw[d]) % Q
      BY ONLY <3>1, AddScalePoly
    <3>. QED BY ONLY <3>2 DEF t, k
  <2>. HIDE DEF t
  <2>6. sum[n + 1] \in Poly /\ \A d \in Degrees : sum[n + 1][d] = (sum[n][d] + t[d]) % Q
    BY <2>2, <2>4, <2>5, AddScalePoly
  <2>7. ASSUME NEW d \in Degrees PROVE sum[n + 1][d] = IF d < n + 1 THEN c[d] ELSE 0
    <3>1. c[d] \in 0 .. Q - 1 /\ c[n] \in 0 .. Q - 1 /\ d \in Nat /\ c[d] \in Int
      BY <1>3, <2>3, BelowInt, DegreeFacts
    <3>2. 0 % Q = 0 /\ c[d] % Q = c[d]
      <4>1. Q \in Nat \ {0}
        BY Constants
      <4>2. 0 \in 0 .. Q - 1
        BY ONLY <4>1
      <4>3. 0 % Q = 0
        BY ONLY <4>1, <4>2, ModSmall
      <4>. DEFINE x == c[d]
      <4>4. x \in 0 .. Q - 1
        BY ONLY <3>1
      <4>. HIDE DEF x
      <4>5. x % Q = x
        BY ONLY <4>1, <4>4, ModSmall
      <4>. QED BY ONLY <4>3, <4>5 DEF x
    <3>3. CASE d = n
      <4>1. t[d] = c[d]
        <5>1. c[n] * pw[d] = c[d]
          BY <2>3, <3>1, <3>3
        <5>. QED BY <2>5, <3>2, <5>1
      <4>2. sum[n][d] = 0
        BY <2>2, <3>3, <3>1
      <4>. QED BY <2>6, <3>1, <3>2, <3>3, <4>1, <4>2
    <3>4. CASE d # n
      <4>1. t[d] = 0
        <5>1. c[n] * pw[d] = 0
          BY <2>3, <3>4
        <5>. QED BY <2>5, <3>2, <5>1
      <4>2. sum[n][d] = IF d < n THEN c[d] ELSE 0
        BY <2>2
      <4>3. d < n + 1 <=> d < n
        BY <3>1, <3>4
      <4>. QED BY <2>6, <3>1, <3>2, <4>1, <4>2, <4>3
    <3>. QED BY <3>3, <3>4
  <2>. QED BY <2>6, <2>7
<1>. HIDE DEF Good
<1>14. N \in Good
  BY <1>1, <1>12, <1>13, SetInduction
<1>15. Upto(N)
  BY <1>1, <1>14 DEF Good
<1>16. ASSUME NEW d \in Degrees PROVE sum[N][d] = c[d]
  <2>1. CASE d < N
    BY <1>15, <2>1
  <2>2. CASE ~(d < N)
    <3>0. d \in Nat
      BY DegreeFacts
    <3>1. d > L
      BY <1>1, <2>2, <3>0 DEF N
    <3>. QED BY <1>3, <1>15, <2>2, <3>1
  <2>. QED BY <2>1, <2>2
<1>17. sum[N] = c
  BY <1>3, <1>15, <1>16 DEF Poly
<1>. QED BY <1>2, <1>17 DEF c

-----------------------------------------------------------------------------
(* Rings and sets of accounts *)

\* The ring has no account twice.
LEMMA MembersDiffer ==
  ASSUME NEW r \in Seq(Accounts), ValidMembers(r), NEW i \in 1 .. Len(r), NEW j \in 1 .. Len(r),
         r[i] = r[j]
  PROVE  i = j
<1>. DEFINE n == Len(r)
            f == membersOf(r)
<1>1. n \in Nat /\ DOMAIN r = 1 .. n
  BY LenProperties
<1>2. f = [k \in 1 .. n |-> Member(r[k])]
  BY <1>1 DEF membersOf
<1>3. f[i] = f[j] /\ i \in 1 .. n /\ j \in 1 .. n
  BY <1>2
<1>4. Cardinality(Range(f)) = n
  BY DEF ValidMembers
<1>5. f = [k \in 1 .. n |-> f[k]]
  BY <1>2
<1>. HIDE DEF n, f
<1>. QED BY <1>1, <1>3, <1>4, <1>5, CountedOnce

Injective(r) == \A i, j \in 1 .. Len(r) : r[i] = r[j] => i = j
AccountsOf(r) == {r[i] : i \in 1 .. Len(r)}

\* RemoveAt from a ring without duplicates takes its account away.
LEMMA RemoveAccount ==
  ASSUME NEW r \in Seq(Accounts), Injective(r), NEW i \in 1 .. Len(r)
  PROVE  /\ Injective(RemoveAt(r, i))
         /\ AccountsOf(RemoveAt(r, i)) = AccountsOf(r) \ {r[i]}
<1>. DEFINE q == RemoveAt(r, i)
            n == Len(r)
<1>1. /\ q \in Seq(Accounts) /\ Len(q) = n - 1
      /\ \A j \in 1 .. n - 1 : q[j] = IF j < i THEN r[j] ELSE r[j + 1]
  BY RemoveAtIs
<1>2. n \in Nat /\ i \in 1 .. n /\ i \in Nat
  BY LenProperties
<1>. HIDE DEF q
<1>. DEFINE at(j) == IF j < i THEN j ELSE j + 1
<1>3. ASSUME NEW j \in 1 .. n - 1 PROVE q[j] = r[at(j)] /\ at(j) \in 1 .. n /\ at(j) # i
  BY <1>1, <1>2, <1>3
<1>4. ASSUME NEW j \in 1 .. n - 1, NEW k \in 1 .. n - 1, at(j) = at(k) PROVE j = k
  BY <1>2, <1>4
<1>5. ASSUME NEW j \in 1 .. n, j # i PROVE \E k \in 1 .. n - 1 : at(k) = j
  <2>1. CASE j < i
    <3>1. j \in 1 .. n - 1 /\ at(j) = j
      BY <1>2, <2>1
    <3>. QED BY <3>1
  <2>2. CASE ~(j < i)
    <3>1. j - 1 \in 1 .. n - 1 /\ at(j - 1) = j
      BY <1>2, <1>5, <2>2
    <3>. QED BY <3>1
  <2>. QED BY <2>1, <2>2
<1>. HIDE DEF at
<1>6. Injective(q)
  <2>1. ASSUME NEW j \in 1 .. Len(q), NEW k \in 1 .. Len(q), q[j] = q[k] PROVE j = k
    <3>1. j \in 1 .. n - 1 /\ k \in 1 .. n - 1
      BY <1>1
    <3>2. r[at(j)] = r[at(k)] /\ at(j) \in 1 .. n /\ at(k) \in 1 .. n
      BY <1>3, <2>1, <3>1
    <3>3. at(j) = at(k)
      BY <3>2 DEF Injective
    <3>. QED BY ONLY <1>4, <3>1, <3>3
  <2>. QED BY ONLY <2>1, Zenon DEF Injective
<1>7. AccountsOf(q) = AccountsOf(r) \ {r[i]}
  <2>1. ASSUME NEW j \in 1 .. n - 1 PROVE q[j] \in AccountsOf(r) /\ q[j] # r[i]
    BY <1>2, <1>3 DEF Injective, AccountsOf
  <2>2. ASSUME NEW j \in 1 .. n, r[j] # r[i] PROVE r[j] \in AccountsOf(q)
    <3>1. PICK k \in 1 .. n - 1 : at(k) = j
      BY <1>5, <2>2
    <3>. QED BY <1>1, <1>3, <3>1 DEF AccountsOf
  <2>. QED BY <1>1, <2>1, <2>2 DEF AccountsOf
<1>. QED BY <1>6, <1>7 DEF q

\* The order in which accounts joined does not matter to the accumulator.
LEMMA OrderIrrelevant ==
  ASSUME NEW r \in Seq(Accounts), NEW q \in Seq(Accounts), Injective(r), Injective(q),
         AccountsOf(r) = AccountsOf(q)
  PROVE  RingPolynomial(r) = RingPolynomial(q)
<1>. DEFINE Same(s) == \A t \in Seq(Accounts) :
                         Injective(s) /\ Injective(t) /\ AccountsOf(s) = AccountsOf(t)
                           => RingPolynomial(s) = RingPolynomial(t)
            S == {s \in Seq(Accounts) : Same(s)}
<1>1. <<>> \in S
  <2>1. <<>> \in Seq(Accounts) /\ AccountsOf(<<>>) = {}
    BY EmptySeq DEF AccountsOf
  <2>2. ASSUME NEW t \in Seq(Accounts), AccountsOf(t) = {} PROVE t = <<>>
    <3>1. SUFFICES ASSUME t # <<>> PROVE FALSE
      OBVIOUS
    <3>2. Len(t) \in Nat \ {0}
      BY <3>1, EmptySeq
    <3>3. 1 \in 1 .. Len(t)
      BY <3>2
    <3>. QED BY <2>2, <3>3 DEF AccountsOf
  <2>. QED BY <2>1, <2>2
<1>2. ASSUME NEW s \in Seq(Accounts), NEW a \in Accounts, s \in S PROVE Append(s, a) \in S
  <2>. DEFINE z == Append(s, a)
              n == Len(s)
  <2>1. /\ z \in Seq(Accounts) /\ Len(z) = n + 1 /\ n \in Nat
        /\ z[n + 1] = a /\ \A j \in 1 .. n : z[j] = s[j]
    BY AppendProperties, LenProperties
  <2>2. RingPolynomial(z) = TimesMember(RingPolynomial(s), Member(a))
    BY RingPolynomialAppend
  <2>. HIDE DEF z
  <2>3. SUFFICES ASSUME NEW t \in Seq(Accounts), Injective(z), Injective(t),
                        AccountsOf(z) = AccountsOf(t)
                 PROVE  RingPolynomial(z) = RingPolynomial(t)
    BY <2>1 DEF z
  <2>4. 1 .. n \subseteq 1 .. n + 1 /\ n + 1 \in 1 .. n + 1 /\ n + 1 \notin 1 .. n
        /\ \A j \in 1 .. n + 1 : j \in 1 .. n \/ j = n + 1
    BY <2>1
  <2>5. Injective(s)
    BY <2>1, <2>3, <2>4 DEF Injective
  <2>6. AccountsOf(s) = AccountsOf(z) \ {a}
    <3>1. AccountsOf(z) = AccountsOf(s) \cup {a}
      BY <2>1, <2>4 DEF AccountsOf
    <3>2. a \notin AccountsOf(s)
      BY <2>1, <2>3, <2>4 DEF AccountsOf, Injective
    <3>. QED BY <3>1, <3>2
  <2>7. a \in AccountsOf(t)
    BY <2>1, <2>3, <2>4 DEF AccountsOf
  <2>8. PICK j \in 1 .. Len(t) : t[j] = a
    BY <2>7 DEF AccountsOf
  <2>9. /\ RemoveAt(t, j) \in Seq(Accounts) /\ Injective(RemoveAt(t, j))
        /\ AccountsOf(RemoveAt(t, j)) = AccountsOf(t) \ {a}
    BY <2>3, <2>8, RemoveAtIs, RemoveAccount
  <2>10. RingPolynomial(s) = RingPolynomial(RemoveAt(t, j))
    BY <1>2, <2>3, <2>5, <2>6, <2>9
  <2>11. RingPolynomial(t) = TimesMember(RingPolynomial(RemoveAt(t, j)), Member(a))
    BY <2>8, WitnessFactor
  <2>. QED BY <2>2, <2>10, <2>11
<1>. HIDE DEF S
<1>3. Seq(Accounts) \subseteq S
  BY <1>1, <1>2, RingInduction
<1>. QED BY <1>3 DEF S

\* A coefficient of TimesMember, and of the quotient by another member's factor.
Coefficient(x, below, m) == (x * m + below) % Q
Inverts(k, a, b) == (k * ((b - a) % Q)) % Q = 1
Scaled(k, x) == (k * x) % Q
Quotient(k, x, y) == Scaled(k, x - y)

\* Scaling a coefficient of a product scales both of its terms.
LEMMA ScaledSum ==
  ASSUME NEW k \in Int, NEW A \in Int, NEW B \in Int, NEW a \in Int
  PROVE  Coefficient(Scaled(k, A), Scaled(k, B), a) = Scaled(k, A * a + B)
<1>. DEFINE x == k * A
            y == k * B
            m == (x % Q) * a
            n == x * a
            r == y % Q
<1>1. x \in Int /\ y \in Int /\ n \in Int /\ k * (A * a + B) = y + n
  BY Constants
<1>. HIDE DEF x, y
<1>2. x % Q \in Int /\ r \in Int /\ Q \in Nat \ {0}
  BY <1>1, Constants, ModRange
<1>3. m \in Int /\ m % Q = n % Q
  <2>1. m \in Int
    BY <1>2
  <2>2. ((x % Q) * a) % Q = (x * a) % Q
    BY <1>1, <1>2, ModTimes
  <2>. QED BY <2>1, <2>2
<1>. HIDE DEF m, n, r
<1>4. ((m % Q) + r) % Q = (m + r) % Q /\ ((n % Q) + r) % Q = (n + r) % Q
  <2>1. ((m % Q) + r) % Q = (m + r) % Q
    BY ONLY <1>2, <1>3, ModPlus
  <2>2. ((n % Q) + r) % Q = (n + r) % Q
    BY ONLY <1>1, <1>2, ModPlus
  <2>. QED BY ONLY <2>1, <2>2
<1>5. (r + n) % Q = (y + n) % Q
  BY <1>1, <1>2, ModPlus DEF r
<1>6. n + r = r + n
  BY <1>1, <1>2
<1>7. (m + r) % Q = (y + n) % Q
  BY <1>3, <1>4, <1>5, <1>6
<1>. QED BY <1>1, <1>7 DEF x, y, m, r, Coefficient, Scaled

\* A coefficient of the quotient of two products that agree.
LEMMA DividedCoefficient ==
  ASSUME NEW k \in Int, NEW a \in Int, NEW b \in Int, Inverts(k, a, b),
         NEW wi \in Int, NEW wj \in Int, NEW vi \in 0 .. Q - 1, NEW vj \in Int,
         Coefficient(wi, wj, a) = Coefficient(vi, vj, b)
  PROVE  Coefficient(Quotient(k, wi, vi), Quotient(k, wj, vj), a) = vi
<1>. DEFINE e == b - a
            A == wi - vi
            B == wj - vj
            l == wi * a + wj
            r == vi * b + vj
            ve == vi * e
<1>0. Q \in Nat \ {0} /\ Q \in Int /\ vi \in Int
  BY Constants
<1>1. e \in Int /\ A \in Int /\ B \in Int /\ l \in Int /\ r \in Int /\ ve \in Int
  BY <1>0
<1>2. A * a + B = ve + (l - r)
  BY <1>0
<1>3. PICK q \in Int : l = r + q * Q
  <2>1. l % Q = r % Q
    BY DEF Coefficient
  <2>2. l \in Int /\ r \in Int
    BY <1>1
  <2>. HIDE DEF l, r
  <2>3. Congruent(l, r, Q)
    BY ONLY <1>0, <2>1, <2>2, SameIsCongruent
  <2>. QED BY ONLY <2>3 DEF Congruent
<1>4. PICK j \in Int : e * k = 1 + j * Q
  <2>1. (k * (e % Q)) % Q = 1
    BY DEF Inverts
  <2>. HIDE DEF e
  <2>. DEFINE f == e % Q
              n == e * k
  <2>2. f \in Int /\ n \in Int
    BY <1>0, <1>1, ModRange
  <2>3. (f * k) % Q = n % Q
    BY <1>0, <1>1, ModTimes
  <2>4. k * f = f * k
    BY <2>2
  <2>5. n % Q = 1
    BY <2>1, <2>3, <2>4
  <2>. HIDE DEF n, f
  <2>6. PICK i \in Int : n = i * Q + (n % Q)
    BY <1>0, <2>2, ModDecomposes
  <2>7. n = 1 + i * Q
    BY <1>0, <2>5, <2>6
  <2>. QED BY <2>7 DEF n
<1>. HIDE DEF A, B, l, r, e
<1>5. A * a + B = ve + q * Q
  <2>. DEFINE z == q * Q
  <2>1. z \in Int /\ l = r + z
    BY <1>0, <1>3
  <2>. HIDE DEF z, ve
  <2>2. A * a + B = ve + z
    BY <1>1, <1>2, <2>1
  <2>. QED BY <2>2 DEF z
<1>6. k * (ve + q * Q) = vi + (vi * j + k * q) * Q
  <2>1. k * (ve + q * Q) = vi * (e * k) + (k * q) * Q
    BY <1>0, <1>1
  <2>2. vi * (1 + j * Q) = vi + (vi * j) * Q
    BY <1>0
  <2>3. (vi * j) * Q + (k * q) * Q = (vi * j + k * q) * Q
    BY <1>0
  <2>. DEFINE c1 == (vi * j) * Q
              c2 == (k * q) * Q
              c3 == (vi * j + k * q) * Q
  <2>4. c1 \in Int /\ c2 \in Int /\ c3 \in Int /\ c1 + c2 = c3
    BY <1>0, <2>3
  <2>5. k * (ve + q * Q) = vi + c1 + c2
    BY <1>4, <2>1, <2>2
  <2>. HIDE DEF c1, c2, c3, ve
  <2>6. k * (ve + q * Q) = vi + c3
    BY <1>0, <2>4, <2>5
  <2>. QED BY <2>6 DEF c3
<1>. DEFINE t == vi * j + k * q
<1>7. t \in Int
  BY <1>0
<1>8. (vi + t * Q) % Q = vi % Q
  <2>. HIDE DEF t
  <2>. QED BY <1>0, <1>7, ModShift
<1>9. vi % Q = vi
  BY <1>0, ModSmall
<1>10. (k * (A * a + B)) % Q = vi
  BY <1>5, <1>6, <1>8, <1>9
<1>11. Coefficient(Scaled(k, A), Scaled(k, B), a) = Scaled(k, A * a + B)
  <2>1. A \in Int /\ B \in Int /\ k \in Int /\ a \in Int
    BY <1>1
  <2>. QED BY ONLY <2>1, ScaledSum
<1>. QED BY <1>10, <1>11 DEF A, B, Quotient, Scaled

\* The polynomial of degree at most Capacity that c is (tau + a) times.
Divides(a, c) == \E w \in Poly : w[Capacity + 1] = 0 /\ TimesMember(w, a) = c

\* Different factors divide one at a time.
LEMMA OtherFactor ==
  ASSUME NEW v \in Poly, v[Capacity + 1] = 0, NEW a \in 0 .. Q - 1, NEW b \in 0 .. Q - 1, a # b,
         Divides(a, TimesMember(v, b))
  PROVE  Divides(a, v)
<1>1. PICK w \in Poly : w[Capacity + 1] = 0 /\ TimesMember(w, a) = TimesMember(v, b)
  BY DEF Divides
<1>2. a \in Int /\ b \in Int /\ Q \in Nat \ {0} /\ b - a \in Int
  BY Constants
<1>. DEFINE e == (b - a) % Q
            k == ModInverse(e, Q)
            u == [i \in Degrees |-> Quotient(k, w[i], v[i])]
<1>3. e \in 1 .. Q - 1
  <2>1. e \in 0 .. Q - 1
    BY <1>2, ModRange
  <2>2. e # 0
    BY <1>2, ResiduesDiffer
  <2>. HIDE DEF e
  <2>. QED BY <1>2, <2>1, <2>2
<1>. HIDE DEF e
<1>4. k \in 1 .. Q - 1 /\ (k * e) % Q = 1
  BY <1>3, Constants, InverseInField
<1>. HIDE DEF k
<1>5. k \in Int
  BY <1>4
<1>6. ASSUME NEW x \in Int, NEW y \in Int
      PROVE  Quotient(k, x, y) \in 0 .. Q - 1 /\ (x = y => Quotient(k, x, y) = 0)
  <2>. DEFINE n == k * (x - y)
  <2>1. n \in Int /\ (x = y => n = 0)
    BY <1>5
  <2>. HIDE DEF n
  <2>2. n % Q \in 0 .. Q - 1 /\ 0 % Q = 0
    BY <1>2, <2>1, ModRange, ModSmall
  <2>. QED BY <2>1, <2>2 DEF n, Quotient, Scaled
<1>7. u \in Poly
  BY <1>6, BelowInt DEF Poly
<1>8. u[Capacity + 1] = 0
  BY <1>1, <1>6, BelowInt, DegreeFacts
<1>9. ASSUME NEW i \in Degrees PROVE TimesMember(u, a)[i] = v[i]
  <2>. DEFINE wi == w[i]
              wj == Below(w, i)
              vi == v[i]
              vj == Below(v, i)
  <2>1. wi \in Int /\ wj \in Int /\ vi \in 0 .. Q - 1 /\ vj \in Int
    BY BelowInt
  <2>2. Coefficient(wi, wj, a) = Coefficient(vi, vj, b)
    <3>1. TimesMember(w, a)[i] = (wi * a + wj) % Q
      BY <1>2, TimesMemberAt
    <3>2. TimesMember(v, b)[i] = (vi * b + vj) % Q
      BY <1>2, TimesMemberAt
    <3>. QED BY <1>1, <3>1, <3>2 DEF Coefficient
  <2>3. u[i] = Quotient(k, wi, vi)
    OBVIOUS
  <2>4. Below(u, i) = Quotient(k, wj, vj)
    <3>1. CASE i = 0
      <4>1. wj = 0 /\ vj = 0 /\ Below(u, i) = 0
        BY <3>1 DEF Below
      <4>. QED BY <1>6, <4>1
    <3>2. CASE i # 0
      <4>1. i - 1 \in Degrees
        BY <3>2, DegreeFacts
      <4>2. wj = w[i - 1] /\ vj = v[i - 1] /\ Below(u, i) = u[i - 1]
        BY <3>2 DEF Below
      <4>. QED BY <4>1, <4>2
    <3>. QED BY <3>1, <3>2
  <2>5. TimesMember(u, a)[i] = (u[i] * a + Below(u, i)) % Q
    <3>. HIDE DEF u
    <3>. QED BY <1>2, <1>7, TimesMemberAt
  <2>. HIDE DEF wi, wj, vi, vj, u
  <2>6. Coefficient(Quotient(k, wi, vi), Quotient(k, wj, vj), a) = vi
    <3>1. Inverts(k, a, b)
      BY <1>4 DEF e, Inverts
    <3>. QED BY ONLY <1>2, <1>5, <2>1, <2>2, <3>1, DividedCoefficient
  <2>. QED BY <2>3, <2>4, <2>5, <2>6 DEF vi, Coefficient
<1>. HIDE DEF u
<1>10. TimesMember(u, a) = v
  <2>1. TimesMember(u, a) \in Poly
    BY <1>2, <1>7, TimesMemberAt
  <2>. QED BY <1>9, <2>1 DEF Poly
<1>. QED BY <1>7, <1>8, <1>10 DEF Divides

\* The polynomial 1 has no factor.
LEMMA OneHasNoFactor ==
  ASSUME NEW a \in 0 .. Q - 1 PROVE ~Divides(a, Constant(1))
<1>1. SUFFICES ASSUME NEW w \in Poly, w[Capacity + 1] = 0, TimesMember(w, a) = Constant(1)
               PROVE  FALSE
  BY DEF Divides
<1>. DEFINE N == Capacity + 1
            Good == {n \in Nat : n <= N => w[N - n] = 0}
<1>2. a \in Int /\ Q \in Nat \ {0} /\ N \in Nat /\ 0 % Q = 0
  BY Constants, DegreeFacts, ModSmall
<1>3. \A i \in Degrees : TimesMember(w, a)[i] = (w[i] * a + Below(w, i)) % Q
  BY <1>2, TimesMemberAt
<1>4. 0 \in Good
  BY <1>1, <1>2
<1>5. ASSUME NEW n \in Nat, n \in Good PROVE n + 1 \in Good
  <2>. SUFFICES ASSUME n + 1 <= N PROVE w[N - (n + 1)] = 0
    OBVIOUS
  <2>. DEFINE i == N - n
              x == Below(w, i)
  <2>1. i \in Degrees /\ i # 0 /\ i - 1 = N - (n + 1) /\ n <= N
    BY <1>2 DEF Degrees
  <2>2. w[i] = 0
    BY <1>5, <2>1
  <2>3. (w[i] * a + x) % Q = 0
    BY <1>1, <1>3, <2>1, ConstantPoly
  <2>4. x \in 0 .. Q - 1 /\ x \in Int
    BY <2>1, BelowInt
  <2>5. x = w[N - (n + 1)]
    BY <2>1 DEF Below
  <2>. HIDE DEF x, i
  <2>6. w[i] * a + x = x
    BY <1>2, <2>2, <2>4
  <2>7. x % Q = x
    BY <1>2, <2>4, ModSmall
  <2>. QED BY <2>3, <2>5, <2>6, <2>7
<1>. HIDE DEF Good
<1>6. N \in Good
  BY <1>2, <1>4, <1>5, SetInduction
<1>7. w[0] = 0
  <2>1. N - N = 0
    BY <1>2
  <2>. QED BY <1>2, <1>6, <2>1 DEF Good
<1>8. w[0] * a + Below(w, 0) = 0
  BY <1>2, <1>7 DEF Below
<1>. QED BY <1>1, <1>2, <1>3, <1>8, ConstantPoly, DegreeFacts

\* Only the members of a ring are roots of its polynomial.
LEMMA FactorOfRing ==
  ASSUME NEW r \in Seq(Accounts), Len(r) <= Capacity, NEW a \in 0 .. Q - 1,
         Divides(a, RingPolynomial(r))
  PROVE  \E i \in 1 .. Len(r) : Member(r[i]) = a
<1>. DEFINE Has(s) == \E i \in 1 .. Len(s) : Member(s[i]) = a
            S == {s \in Seq(Accounts) :
                    Len(s) <= Capacity /\ Divides(a, RingPolynomial(s)) => Has(s)}
<1>1. <<>> \in S
  BY EmptySeq, RingPolynomialEmpty, OneHasNoFactor
<1>2. ASSUME NEW s \in Seq(Accounts), NEW b \in Accounts, s \in S PROVE Append(s, b) \in S
  <2>. DEFINE z == Append(s, b)
              n == Len(s)
              v == RingPolynomial(s)
              m == Member(b)
  <2>1. /\ z \in Seq(Accounts) /\ Len(z) = n + 1 /\ n \in Nat
        /\ z[n + 1] = b /\ \A j \in 1 .. n : z[j] = s[j]
    BY AppendProperties, LenProperties
  <2>2. RingPolynomial(z) = TimesMember(v, m)
    BY RingPolynomialAppend
  <2>3. SUFFICES ASSUME n + 1 <= Capacity, Divides(a, TimesMember(v, m)) PROVE Has(z)
    BY <2>1, <2>2
  <2>4. n <= Capacity /\ n <= Capacity + 1 /\ Capacity + 1 > n /\ Capacity + 1 \in Degrees
    BY <2>1, <2>3, DegreeFacts
  <2>5. v \in Poly /\ v[Capacity + 1] = 0 /\ m \in 0 .. Q - 1
    BY <2>4, RingPolynomialPoly, RingDegree, MemberFacts
  <2>6. CASE m = a
    <3>1. n + 1 \in 1 .. Len(z)
      BY <2>1
    <3>. QED BY <2>1, <2>6, <3>1
  <2>7. CASE m # a
    <3>1. Divides(a, v)
      <4>. HIDE DEF v, m
      <4>. QED BY <2>3, <2>5, <2>7, OtherFactor
    <3>2. PICK i \in 1 .. n : Member(s[i]) = a
      BY <1>2, <2>4, <3>1
    <3>3. i \in 1 .. Len(z) /\ z[i] = s[i]
      BY <2>1
    <3>. QED BY <3>2, <3>3
  <2>. QED BY <2>6, <2>7
<1>. HIDE DEF S
<1>3. Seq(Accounts) \subseteq S
  BY <1>1, <1>2, RingInduction
<1>. QED BY <1>3 DEF S

\* A ring the setup can accumulate.
Sound(r) == r \in Seq(Accounts) /\ Len(r) <= Capacity /\ ValidMembers(r)

\* A ring with the accumulator of another has its accounts.
LEMMA AccumulatorHasAccounts ==
  ASSUME NEW r, NEW q, Sound(r), Sound(q), RingPolynomial(r) = RingPolynomial(q)
  PROVE  AccountsOf(r) \subseteq AccountsOf(q)
<1>0. r \in Seq(Accounts) /\ Len(r) <= Capacity /\ q \in Seq(Accounts) /\ Len(q) <= Capacity
  BY DEF Sound
<1>. SUFFICES ASSUME NEW i \in 1 .. Len(r) PROVE r[i] \in AccountsOf(q)
  BY DEF AccountsOf
<1>. DEFINE s == RemoveAt(r, i)
            w == RingPolynomial(s)
            a == Member(r[i])
<1>1. s \in Seq(Accounts) /\ Len(s) = Len(r) - 1 /\ r[i] \in Accounts
  BY <1>0, RemoveAtIs, ElementOfSeq
<1>2. RingPolynomial(q) = TimesMember(w, a)
  BY <1>0, WitnessFactor
<1>3. a \in 0 .. Q - 1
  BY <1>1, MemberFacts
<1>. HIDE DEF s
<1>4. Len(s) <= Capacity + 1 /\ Capacity + 1 > Len(s)
  BY <1>0, <1>1, LenProperties, DegreeFacts
<1>5. w \in Poly /\ w[Capacity + 1] = 0
  BY <1>1, <1>4, RingPolynomialPoly, RingDegree, DegreeFacts
<1>. HIDE DEF w, a
<1>6. Divides(a, RingPolynomial(q))
  BY <1>2, <1>5 DEF Divides
<1>7. PICK j \in 1 .. Len(q) : Member(q[j]) = a
  BY <1>0, <1>3, <1>6, FactorOfRing
<1>8. q[j] \in Accounts /\ Member(q[j]) = Member(r[i])
  BY <1>0, <1>7, ElementOfSeq DEF a
<1>9. q[j] = r[i]
  BY <1>1, <1>8, RegistryAccepts
<1>. QED BY <1>9 DEF AccountsOf

\* Accumulate: two rings the registry admits have the same accumulator exactly
\* when they have the same accounts, in whatever order.
THEOREM AccumulatorIsSet ==
  ASSUME NEW r, NEW q, Sound(r), Sound(q)
  PROVE  RingPolynomial(r) = RingPolynomial(q) <=> Range(r) = Range(q)
<1>0. r \in Seq(Accounts) /\ q \in Seq(Accounts)
  BY DEF Sound
<1>1. Range(r) = AccountsOf(r) /\ Range(q) = AccountsOf(q)
  BY <1>0, LenProperties DEF Range, AccountsOf
<1>2. Injective(r) /\ Injective(q)
  BY MembersDiffer DEF Injective, Sound
<1>3. ASSUME RingPolynomial(r) = RingPolynomial(q) PROVE AccountsOf(r) = AccountsOf(q)
  BY <1>3, AccumulatorHasAccounts
<1>4. ASSUME AccountsOf(r) = AccountsOf(q) PROVE RingPolynomial(r) = RingPolynomial(q)
  BY <1>0, <1>2, <1>4, OrderIrrelevant
<1>. QED BY <1>1, <1>3, <1>4

-----------------------------------------------------------------------------
(* Pairings *)

\* The sums a coefficient of a pairing goes through.
TermsBody(a, b, i, f) ==
  [j \in 0 .. i |-> a[j] * b[i - j] + IF j = 0 THEN 0 ELSE f[j - 1]]
Terms(a, b, i) == CHOOSE f : f = TermsBody(a, b, i, f)

\* Pairing with a polynomial of degree one.
LEMMA PairLinear ==
  ASSUME NEW a \in Poly, NEW b \in Poly, \A j \in Degrees : j > 1 => b[j] = 0
  PROVE  \A i \in Degrees : Pair(a, b)[i] = (a[i] * b[0] + Below(a, i) * b[1]) % Q
<1>. SUFFICES ASSUME NEW i \in Degrees
              PROVE  Pair(a, b)[i] = (a[i] * b[0] + Below(a, i) * b[1]) % Q
  OBVIOUS
<1>. DEFINE sum == Terms(a, b, i)
            t(j) == a[j] * b[i - j]
            g == [j \in 1 .. i |-> [v \in Int |-> t(j) + v]]
<1>1. Pair(a, b)[i] = sum[i] % Q
  BY DEF Pair, Terms, TermsBody
<1>2. i \in Nat /\ i <= Capacity + 1 /\ \A j \in 0 .. i : j \in Degrees /\ i - j \in Degrees
  BY DegreeFacts DEF Degrees
<1>3. \A j \in 0 .. i : a[j] \in Int /\ b[i - j] \in Int /\ t(j) \in Int
  <2>1. ASSUME NEW j \in 0 .. i PROVE a[j] \in Int /\ b[i - j] \in Int
    BY <1>2, BelowInt
  <2>. QED BY <2>1
<1>4. g \in [1 .. i -> [Int -> Int]]
  <2>1. \A j \in 1 .. i, v \in Int : t(j) + v \in Int
    BY <1>2, <1>3
  <2>. HIDE DEF t
  <2>. QED BY <2>1
<1>5. \E f \in [0 .. i -> Int] : Iterates(f, i, t(0), g)
  <2>1. t(0) \in Int
    BY <1>2, <1>3
  <2>. HIDE DEF g, t
  <2>. QED BY ONLY <1>2, <1>4, <2>1, Recursion
<1>6. PICK f \in [0 .. i -> Int] : Iterates(f, i, t(0), g)
  BY <1>5
<1>7. ASSUME NEW j \in 0 .. i PROVE f[j] = t(j) + IF j = 0 THEN 0 ELSE f[j - 1]
  <2>1. t(j) \in Int
    BY <1>3
  <2>2. CASE j = 0
    <3>1. f[0] = t(0)
      BY <1>6 DEF Iterates
    <3>. HIDE DEF t
    <3>. QED BY <2>1, <2>2, <3>1
  <2>3. CASE j # 0
    <3>1. j \in 1 .. i /\ f[j - 1] \in Int
      BY <1>2, <2>3
    <3>2. f[j] = g[j][f[j - 1]]
      BY <1>6, <3>1 DEF Iterates
    <3>. HIDE DEF t
    <3>. QED BY <2>3, <3>1, <3>2
  <2>. QED BY <2>2, <2>3
<1>8. f = TermsBody(a, b, i, f)
  <2>. HIDE DEF t
  <2>. QED BY <1>2, <1>7 DEF TermsBody, t
<1>9. sum = TermsBody(a, b, i, sum)
  BY <1>8 DEF Terms
<1>. HIDE DEF sum
<1>10. \A j \in 0 .. i : sum[j] = t(j) + IF j = 0 THEN 0 ELSE sum[j - 1]
  BY <1>9 DEF TermsBody
<1>11. ASSUME NEW j \in 0 .. i, i - j > 1 PROVE t(j) = 0
  <2>1. b[i - j] = 0 /\ a[j] \in Int
    BY <1>2, <1>3, <1>11
  <2>. QED BY <2>1
<1>12. t(i) = a[i] * b[0]
  BY <1>2
<1>13. i # 0 => t(i - 1) = a[i - 1] * b[1]
  <2>1. i # 0 => i - (i - 1) = 1
    BY <1>2
  <2>. QED BY <2>1
<1>14. \A j \in 0 .. i : t(j) \in Int
  BY <1>3
<1>. HIDE DEF t
<1>. DEFINE Good == {j \in Nat : j <= i /\ i - j > 1 => sum[j] = 0}
<1>15. 0 \in Good
  BY <1>2, <1>10, <1>11
<1>16. ASSUME NEW j \in Nat, j \in Good PROVE j + 1 \in Good
  <2>. SUFFICES ASSUME j + 1 <= i, i - (j + 1) > 1 PROVE sum[j + 1] = 0
    OBVIOUS
  <2>1. j + 1 \in 0 .. i /\ (j + 1) - 1 = j /\ j + 1 # 0 /\ j <= i /\ i - j > 1
    BY <1>2
  <2>2. sum[j] = 0
    BY <1>16, <2>1
  <2>3. t(j + 1) = 0
    BY <1>11, <2>1
  <2>. QED BY <1>10, <2>1, <2>2, <2>3
<1>. HIDE DEF Good
<1>17. Nat \subseteq Good
  BY <1>15, <1>16, SetInduction
<1>18. i # 0 => sum[i - 1] = t(i - 1)
  <2>. SUFFICES ASSUME i # 0 PROVE sum[i - 1] = t(i - 1)
    OBVIOUS
  <2>1. i - 1 \in 0 .. i /\ t(i - 1) \in Int
    BY <1>2, <1>14
  <2>2. CASE i = 1
    BY <1>10, <2>1, <2>2
  <2>3. CASE i # 1
    <3>1. i - 2 \in Nat /\ i - 2 <= i /\ i - (i - 2) > 1 /\ i - 1 # 0 /\ (i - 1) - 1 = i - 2
      BY <1>2, <2>3
    <3>2. sum[i - 2] = 0
      BY <1>17, <3>1 DEF Good
    <3>. QED BY <1>10, <2>1, <3>1, <3>2
  <2>. QED BY <2>2, <2>3
<1>19. sum[i] = a[i] * b[0] + Below(a, i) * b[1]
  <2>0. 1 \in Degrees /\ i \in 0 .. i
    BY <1>2, DegreeFacts
  <2>1. i \in 0 .. i /\ b[1] \in Int /\ t(i) \in Int
    BY <1>14, <2>0, BelowInt
  <2>2. CASE i = 0
    <3>1. Below(a, i) * b[1] = 0
      BY <2>1, <2>2 DEF Below
    <3>2. sum[i] = t(i)
      BY <1>10, <2>1, <2>2
    <3>. QED BY <1>12, <2>1, <3>1, <3>2
  <2>3. CASE i # 0
    <3>1. sum[i] = t(i) + t(i - 1)
      BY <1>10, <1>18, <2>1, <2>3
    <3>. QED BY <1>12, <1>13, <2>3, <3>1 DEF Below
  <2>. QED BY <2>2, <2>3
<1>. QED BY <1>1, <1>19

\* Pairing with a polynomial of degree at most 1 stays within the degrees.
LEMMA PairPoly ==
  ASSUME NEW a \in Poly, NEW b \in Poly, \A j \in Degrees : j > 1 => b[j] = 0
  PROVE  Pair(a, b) \in Poly
<1>1. ASSUME NEW i \in Degrees PROVE Pair(a, b)[i] \in 0 .. Q - 1
  <2>. DEFINE n == a[i] * b[0] + Below(a, i) * b[1]
  <2>1. a[i] \in Int /\ b[0] \in Int /\ Below(a, i) \in Int /\ b[1] \in Int
    BY BelowInt, DegreeFacts
  <2>2. n \in Int
    BY <2>1
  <2>3. Pair(a, b)[i] = n % Q
    BY PairLinear
  <2>. HIDE DEF n
  <2>. QED BY <2>2, <2>3, Constants, ModRange
<1>2. Pair(a, b) = [i \in Degrees |-> Pair(a, b)[i]]
  BY DEF Pair
<1>. QED BY <1>1, <1>2 DEF Poly

\* Pairing with 1 changes nothing.
LEMMA PairOne ==
  ASSUME NEW a \in Poly PROVE Pair(a, Constant(1)) = a
<1>. DEFINE b == Constant(1)
            c == Pair(a, b)
<1>1. b \in Poly /\ b[0] = 1 /\ b[1] = 0 /\ \A j \in Degrees : j > 1 => b[j] = 0
  BY ConstantPoly, DegreeFacts
<1>. HIDE DEF b
<1>2. c \in Poly
  BY <1>1, PairPoly
<1>3. ASSUME NEW i \in Degrees PROVE c[i] = a[i]
  <2>1. c[i] = (a[i] * b[0] + Below(a, i) * b[1]) % Q
    BY <1>1, PairLinear
  <2>2. a[i] \in 0 .. Q - 1 /\ a[i] \in Int /\ Below(a, i) \in Int
    BY BelowInt
  <2>3. a[i] * b[0] + Below(a, i) * b[1] = a[i]
    BY <1>1, <2>2
  <2>4. a[i] % Q = a[i]
    BY <2>2, Constants, ModSmall
  <2>. QED BY <2>1, <2>3, <2>4
<1>. HIDE DEF c
<1>4. c = a
  BY <1>2, <1>3 DEF Poly
<1>. QED BY <1>4 DEF b, c

\* Pairing with tau moves every coefficient one degree up.
LEMMA PairTau ==
  ASSUME NEW a \in Poly
  PROVE  Pair(a, Tau) \in Poly /\ \A i \in Degrees : Pair(a, Tau)[i] = Below(a, i)
<1>1. Tau \in Poly /\ Tau[0] = 0 /\ Tau[1] = 1 /\ \A j \in Degrees : j > 1 => Tau[j] = 0
  BY ConstantPoly, DegreeFacts
<1>2. Pair(a, Tau) \in Poly
  BY <1>1, PairPoly
<1>3. ASSUME NEW i \in Degrees PROVE Pair(a, Tau)[i] = Below(a, i)
  <2>1. Pair(a, Tau)[i] = (a[i] * Tau[0] + Below(a, i) * Tau[1]) % Q
    BY <1>1, PairLinear
  <2>2. Below(a, i) \in 0 .. Q - 1 /\ a[i] \in Int /\ Below(a, i) \in Int
    BY BelowInt
  <2>3. a[i] * Tau[0] + Below(a, i) * Tau[1] = Below(a, i)
    BY <1>1, <2>2
  <2>4. Below(a, i) % Q = Below(a, i)
    BY <2>2, Constants, ModSmall
  <2>. QED BY <2>1, <2>3, <2>4
<1>. QED BY <1>2, <1>3

\* The pairing of VerifyMembership multiplies by the account's factor.
LEMMA PairMember ==
  ASSUME NEW a \in Poly, NEW m \in 0 .. Q - 1
  PROVE  Pair(a, Add(Constant(m), Tau)) = TimesMember(a, m)
<1>. DEFINE b == Add(Constant(m), Tau)
            c == Pair(a, b)
<1>0. m % Q = m /\ 0 % Q = 0 /\ 1 % Q = 1 /\ m \in Int
  BY Constants, ModSmall
<1>1. Constant(m) \in Poly /\ \A i \in Degrees : Constant(m)[i] = IF i = 0 THEN m ELSE 0
  <2>1. 0 \in 0 .. Q - 1
    BY Constants
  <2>. QED BY <1>0, <2>1 DEF Constant, Poly
<1>2. b \in Poly /\ \A i \in Degrees : b[i] = (Constant(m)[i] + Tau[i]) % Q
  BY <1>1, ConstantPoly, AddScalePoly
<1>. HIDE DEF b
<1>3. b[0] = m
  <2>1. Constant(m)[0] = m /\ Tau[0] = 0
    BY <1>1, ConstantPoly, DegreeFacts
  <2>2. m + 0 = m
    BY <1>0
  <2>. QED BY <1>0, <1>2, <2>1, <2>2, DegreeFacts
<1>4. b[1] = 1
  <2>1. Constant(m)[1] = 0 /\ Tau[1] = 1
    BY <1>1, ConstantPoly, DegreeFacts
  <2>2. 0 + 1 = 1
    OBVIOUS
  <2>. QED BY <1>0, <1>2, <2>1, <2>2, DegreeFacts
<1>5. ASSUME NEW j \in Degrees, j > 1 PROVE b[j] = 0
  <2>1. j # 0 /\ j # 1
    BY <1>5, DegreeFacts
  <2>2. Constant(m)[j] = 0 /\ Tau[j] = 0
    BY <1>1, <2>1, ConstantPoly
  <2>3. 0 + 0 = 0
    OBVIOUS
  <2>. QED BY <1>0, <1>2, <2>2, <2>3
<1>6. c \in Poly /\ TimesMember(a, m) \in Poly
  BY <1>0, <1>2, <1>5, PairPoly, TimesMemberAt
<1>7. ASSUME NEW i \in Degrees PROVE c[i] = TimesMember(a, m)[i]
  <2>1. c[i] = (a[i] * b[0] + Below(a, i) * b[1]) % Q
    BY <1>2, <1>5, PairLinear
  <2>2. TimesMember(a, m)[i] = (a[i] * m + Below(a, i)) % Q
    BY <1>0, TimesMemberAt
  <2>3. Below(a, i) \in Int
    BY BelowInt
  <2>4. Below(a, i) * b[1] = Below(a, i)
    BY <1>4, <2>3
  <2>. QED BY <1>3, <2>1, <2>2, <2>4
<1>. HIDE DEF c
<1>8. c = TimesMember(a, m)
  BY <1>6, <1>7 DEF Poly
<1>. QED BY <1>8 DEF b, c

\* The circuit's form of the same equation.
LEMMA CircuitSum ==
  ASSUME NEW a \in Int, NEW x \in Int, NEW b \in Int
  PROVE  (((((a * x) % Q) + (((Q - 1) * ((x * a + b) % Q)) % Q)) % Q) + b) % Q = 0
<1>. DEFINE ax == a * x
            A == ax % Q
            y == ax + b
            V == y % Q
            z == (Q - 1) * V
            N == z % Q
            t == A + N
            S == t % Q
<1>1. ax \in Int /\ y \in Int /\ x * a + b = y /\ Q \in Int
  BY Constants
<1>. HIDE DEF ax, y
<1>2. PICK j1 \in Int : ax = j1 * Q + A
  BY <1>1, Constants, ModDecomposes
<1>3. PICK j2 \in Int : y = j2 * Q + V
  BY <1>1, Constants, ModDecomposes
<1>4. A \in Int /\ V \in Int
  BY <1>1, Constants, ModRange
<1>. HIDE DEF A, V
<1>5. z \in Int /\ z = Q * V - V
  BY <1>1, <1>4
<1>. HIDE DEF z
<1>6. PICK j3 \in Int : z = j3 * Q + N
  BY <1>5, Constants, ModDecomposes
<1>7. N \in Int
  BY <1>5, Constants, ModRange
<1>. HIDE DEF N
<1>8. t \in Int
  BY <1>4, <1>7
<1>9. PICK j4 \in Int : t = j4 * Q + S
  <2>. HIDE DEF t
  <2>. QED BY <1>8, Constants, ModDecomposes
<1>10. S \in Int
  <2>. HIDE DEF t
  <2>. QED BY <1>8, Constants, ModRange
<1>. HIDE DEF S
<1>. DEFINE k == V + j2 - j1 - j3 - j4
<1>11. k \in Int
  BY <1>4
<1>12. S + b = Q * V + j2 * Q - j1 * Q - j3 * Q - j4 * Q
  <2>. DEFINE q1 == j1 * Q
              q2 == j2 * Q
              q3 == j3 * Q
              q4 == j4 * Q
              qv == Q * V
  <2>1. q1 \in Int /\ q2 \in Int /\ q3 \in Int /\ q4 \in Int /\ qv \in Int
    BY <1>1, <1>4
  <2>2. ax = q1 + A /\ ax + b = q2 + V /\ qv - V = q3 + N /\ A + N = q4 + S
    BY <1>2, <1>3, <1>5, <1>6, <1>9 DEF y, t
  <2>. HIDE DEF q1, q2, q3, q4, qv
  <2>3. S + b = qv + q2 - q1 - q3 - q4
    BY <1>1, <1>4, <1>7, <1>10, <2>1, <2>2
  <2>. QED BY <2>3 DEF q1, q2, q3, q4, qv
<1>13. Q * V + j2 * Q - j1 * Q - j3 * Q - j4 * Q = k * Q
  BY <1>1, <1>4
<1>. HIDE DEF k
<1>14. (k * Q) % Q = 0
  BY <1>11, Constants, ModMultiple
<1>15. (S + b) % Q = 0
  BY <1>12, <1>13, <1>14
<1>. QED BY <1>1, <1>15 DEF S, t, N, z, V, A, ax

\* Define: the membership equation holds for the quotient by the own factor.
LEMMA CircuitMembership ==
  ASSUME NEW w \in Poly, NEW a \in 0 .. Q - 1
  PROVE  LET v == TimesMember(w, a)
             aWminusV == Add(Scale(a, w), Neg(v))
         IN Add(Pair(aWminusV, Constant(1)), Pair(w, Tau)) = Infinity
<1>. DEFINE v == TimesMember(w, a)
            aw == Scale(a, w)
            nv == Neg(v)
            d == Add(aw, nv)
            pt == Pair(w, Tau)
            e == Add(d, pt)
<1>0. a \in Int /\ Q - 1 \in Int
  BY Constants
<1>1. v \in Poly /\ \A i \in Degrees : v[i] = (w[i] * a + Below(w, i)) % Q
  BY <1>0, TimesMemberAt
<1>2. aw \in Poly /\ \A i \in Degrees : aw[i] = (a * w[i]) % Q
  BY <1>0, AddScalePoly
<1>. HIDE DEF v, aw
<1>3. nv \in Poly /\ \A i \in Degrees : nv[i] = ((Q - 1) * v[i]) % Q
  BY <1>0, <1>1, AddScalePoly DEF Neg
<1>. HIDE DEF nv
<1>4. d \in Poly /\ \A i \in Degrees : d[i] = (aw[i] + nv[i]) % Q
  BY <1>2, <1>3, AddScalePoly
<1>. HIDE DEF d
<1>5. pt \in Poly /\ \A i \in Degrees : pt[i] = Below(w, i)
  BY PairTau
<1>. HIDE DEF pt
<1>6. e \in Poly /\ \A i \in Degrees : e[i] = (d[i] + pt[i]) % Q
  BY <1>4, <1>5, AddScalePoly
<1>. HIDE DEF e
<1>7. ASSUME NEW i \in Degrees PROVE e[i] = 0
  <2>. DEFINE x == w[i]
              b == Below(w, i)
  <2>1. x \in Int /\ b \in Int
    BY BelowInt
  <2>2. e[i] = (((((a * x) % Q) + (((Q - 1) * ((x * a + b) % Q)) % Q)) % Q) + b) % Q
    BY <1>1, <1>2, <1>3, <1>4, <1>5, <1>6
  <2>. HIDE DEF x, b
  <2>. QED BY <1>0, <2>1, <2>2, CircuitSum
<1>8. e = Infinity
  BY <1>6, <1>7, ConstantPoly DEF Poly
<1>9. Pair(d, Constant(1)) = d
  BY <1>4, PairOne
<1>. QED BY <1>8, <1>9 DEF e, d, pt, nv, aw, v

-----------------------------------------------------------------------------
(* Rings the parameters serve *)

\* MakeStatement succeeds only for rings within the capacity.
LEMMA RingFits ==
  ASSUME NEW p, Usable(p), NEW r \in Seq(Accounts), Accumulates(p, r)
  PROVE  Len(r) <= Capacity /\ \A i \in 1 .. Len(r) : Member(r[i]) \in 1 .. Q - 1
<1>1. Len(DerivedPowers) = Capacity + 1
  BY DegreeFacts DEF DerivedPowers
<1>2. Len(r) <= Capacity
  BY <1>1, LenProperties, DegreeFacts DEF Accumulates, Usable
<1>3. ASSUME NEW i \in 1 .. Len(r) PROVE Member(r[i]) \in 1 .. Q - 1
  <2>1. r[i] \in Accounts /\ i \in DOMAIN r
    BY ElementOfSeq, LenProperties
  <2>2. Member(r[i]) # 0
    BY <2>1 DEF Accumulates, ValidMembers
  <2>3. Member(r[i]) \in 0 .. Q - 1
    BY <2>1, MemberFacts
  <2>. QED BY <2>2, <2>3, Constants
<1>. QED BY <1>2, <1>3

\* Accumulate and MembershipWitness on such a ring.
LEMMA AccumulatorIs ==
  ASSUME NEW p, Usable(p), NEW r \in Seq(Accounts), Len(r) <= Capacity, NEW i \in 1 .. Len(r)
  PROVE  /\ Accumulate(p, r) = RingPolynomial(r)
         /\ MembershipWitness(p, r, i) = RingPolynomial(RemoveAt(r, i))
         /\ RemoveAt(r, i) \in Seq(Accounts) /\ Len(RemoveAt(r, i)) = Len(r) - 1
         /\ Len(RemoveAt(r, i)) <= Capacity
<1>. DEFINE q == RemoveAt(r, i)
<1>1. q \in Seq(Accounts) /\ Len(q) = Len(r) - 1
  BY RemoveAtIs
<1>. HIDE DEF q
<1>2. Len(q) <= Capacity
  BY <1>1, LenProperties, DegreeFacts
<1>3. p.powers = DerivedPowers
  BY DEF Usable
<1>4. combinePowers(p, membersOf(q)) = RingPolynomial(q)
  BY <1>1, <1>2, <1>3, CombineIsPolynomial
<1>5. combinePowers(p, membersOf(r)) = RingPolynomial(r)
  BY <1>3, CombineIsPolynomial
<1>. QED BY <1>1, <1>2, <1>4, <1>5 DEF q, Accumulate, MembershipWitness

\* VerifyMembership: for any two points and any member, the two pairings agree
\* exactly when the point is the witness times the member's factor.
THEOREM VerifyIsEqual ==
  ASSUME NEW p, Usable(p), NEW v \in Poly, NEW w \in Poly, NEW m \in 1 .. Q - 1,
         v # Infinity, w # Infinity
  PROVE  VerifyMembership(p, v, w, m) <=> TimesMember(w, m) = v
<1>1. m \in 0 .. Q - 1
  BY Constants
<1>2. Pair(w, Add(Constant(m), Tau)) = TimesMember(w, m)
  BY <1>1, PairMember
<1>3. Pair(v, Constant(1)) = v
  BY PairOne
<1>. QED BY <1>2, <1>3 DEF VerifyMembership, Usable
=============================================================================
