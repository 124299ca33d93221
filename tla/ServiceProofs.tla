--------------------------- MODULE ServiceProofs ----------------------------
(***************************************************************************)
(* Proofs about Service for any users, accounts, issues, quotas, ring      *)
(* capacities and process lifetimes.  The inductive invariant says that    *)
(* each of the three copies of the ledger (memory, file, file after a      *)
(* power loss) covers every answer given so far, that a Signer's counter   *)
(* is past every signature of its lifetime, and that the accounts behind a *)
(* signature stay registered as long as the process lives.                 *)
(***************************************************************************)
EXTENDS Service, FiniteSetTheorems, TLAPS

\* The ledger L covers what was answered: the revocations g, the consumed
\* envelopes c and the signatures r given out.
Covers(L, g, c, r) ==
  /\ g \subseteq L.revoked
  /\ c \subseteq L.seen
  /\ \A s \in r : L.policies[s.issue] = s.k
  /\ Blank \notin L.revoked

LedgerInv ==
  /\ Covers(visible, ackRevoked, accepted, released)
  /\ Covers(durable, ackRevoked, accepted, released)
  /\ running => Covers(mem, ackRevoked, accepted, released)

MemoryInv ==
  /\ running => life \in Lives
  /\ ~running => mem = EmptyState /\ active = {}
  /\ Blank \notin users
  /\ \A a \in Accounts : accounts[a] # None => accounts[a] \in users

\* Signatures of this lifetime are below their Signer's counter, and an account
\* in their ring is the signer's.
SignedInv ==
  \A s \in released :
    /\ s.x[2] <= life
    /\ running /\ s.x[2] = life =>
         /\ s.c < next[s.x[1]][s.issue]
         /\ \E a \in s.ring : accounts[a] = s.x[1]

\* At most one signature per one-time pass.
UniqueInv ==
  /\ \A s, t \in released : SlotOf(s) = SlotOf(t) => s = t
  /\ \A p \in Slots :
       issued[p] = IF \E s \in released : SlotOf(s) = p THEN 1 ELSE 0

\* What this lifetime reported as verified it has recorded as consumed.
ReportInv ==
  /\ VerifiedOnce
  /\ \A n \in DOMAIN reports :
       /\ reports[n].signed.x[2] <= life
       /\ running /\ reports[n].signed.x[2] = life => reports[n] \in mem.seen

IInv ==
  TypeOK /\ LedgerInv /\ MemoryInv /\ RingSound /\ SignedInv /\ UniqueInv /\ ReportInv

-----------------------------------------------------------------------------
(* Persistence and types *)

\* Whatever becomes of the write, both files cover the answers given: the new
\* ledger does, and an answer is only added when the write is known to last.
LEMMA Persisted ==
  ASSUME NEW m, NEW o \in Outcomes, persistState(m, o),
         NEW g, NEW c, NEW r, NEW h, NEW d, NEW q,
         Covers(visible, g, c, r), Covers(durable, g, c, r), Covers(m, h, d, q),
         o # "synced" => g = h /\ c = d /\ r = q
  PROVE  Covers(visible', h, d, q) /\ Covers(durable', h, d, q)
BY DEF persistState, Outcomes

LEMMA PersistedType ==
  ASSUME NEW m \in durableServiceState, NEW o, persistState(m, o),
         visible \in durableServiceState, durable \in durableServiceState
  PROVE  visible' \in durableServiceState /\ durable' \in durableServiceState
BY DEF persistState

LEMMA Types ==
  ASSUME TypeOK
  PROVE  /\ mem \in durableServiceState
         /\ visible \in durableServiceState /\ durable \in durableServiceState
         /\ life \in Nat /\ capacity \in Nat
         /\ \A u \in Users, i \in Issues : next[u][i] \in 0 .. MaxQuota
BY ServiceAssumption DEF TypeOK

LEMMA SignatureTypes ==
  ASSUME NEW s \in Signature
  PROVE  /\ s.x \in Secrets /\ s.x[1] \in Users /\ s.x[2] \in Nat /\ s.x[2] \in Lives
         /\ s.x = <<s.x[1], s.x[2]>>
         /\ s.issue \in Issues /\ s.c \in Passes /\ s.c \in Nat
         /\ s.k \in 1 .. MaxQuota /\ s.ring \in SUBSET Accounts
         /\ SlotOf(s) \in Slots /\ SlotOf(s)[1] = s.x
BY ServiceAssumption DEF Signature, Secrets, Lives, Passes, SlotOf, Slots

LEMMA EmptyLedger ==
  EmptyState \in durableServiceState /\ EmptyState.revoked = {}
BY ServiceAssumption DEF EmptyState, durableServiceState

LEMMA Ring ==
  ASSUME NEW S \in SUBSET Accounts
  PROVE  IsFiniteSet(S) /\ Cardinality(S) \in Nat
BY ServiceAssumption, FS_Subset, FS_CardinalityType

\* A part of a ring that fits a setup fits it too.
LEMMA SmallerRing ==
  ASSUME NEW S \in SUBSET Accounts, NEW T \in SUBSET S, capacity \in Nat,
         Cardinality(S) <= capacity
  PROVE  Cardinality(T) <= capacity
<1>1. IsFiniteSet(S) /\ Cardinality(S) \in Nat /\ Cardinality(T) \in Nat
  BY Ring
<1>2. Cardinality(T) <= Cardinality(S)
  BY <1>1, FS_Subset
<1>. QED
  BY <1>1, <1>2

LEMMA InitIInv == Init => IInv
<1>. SUFFICES ASSUME Init PROVE IInv
  OBVIOUS
<1>1. EmptyState \in durableServiceState
  BY EmptyLedger
<1>2. TypeOK
  <2>1. /\ next \in [Users -> [Issues -> 0 .. MaxQuota]]
        /\ issued \in [Slots -> Nat]
        /\ accounts \in [Accounts -> Users \cup {None}]
    BY ServiceAssumption DEF Init
  <2>2. life \in 0 .. MaxLives /\ capacity \in 0 .. MaxCapacity
    BY ServiceAssumption DEF Init
  <2>3. reports \in Seq(Envelope)
    BY DEF Init
  <2>. QED
    BY <1>1, <2>1, <2>2, <2>3 DEF Init, TypeOK
<1>3. LedgerInv
  BY DEF Init, LedgerInv, Covers, EmptyState
<1>4. MemoryInv
  BY DEF Init, MemoryInv
<1>5. RingSound
  BY FS_EmptySet DEF Init, RingSound, NewSnapshot
<1>6. SignedInv /\ UniqueInv /\ ReportInv
  BY DEF Init, SignedInv, UniqueInv, ReportInv, VerifiedOnce
<1>. QED
  BY <1>2, <1>3, <1>4, <1>5, <1>6 DEF IInv

-----------------------------------------------------------------------------
(* Requests that leave the ledger's contents and the history alone *)

\* The parts of the invariant about the ledger and the signatures, for a request
\* that at most persists the ledger as it is and registers accounts.
LEMMA CalmStep ==
  ASSUME IInv, UNCHANGED <<life, running, next, mem, history>>, running,
         \/ UNCHANGED files
         \/ \E o \in Outcomes : persistState(mem, o),
         \A a \in Accounts : accounts[a] # None => accounts'[a] = accounts[a]
  PROVE  /\ LedgerInv' /\ SignedInv' /\ UniqueInv' /\ ReportInv'
         /\ visible' \in durableServiceState /\ durable' \in durableServiceState
<1>. USE DEF history, files
<1>0. TypeOK /\ LedgerInv /\ SignedInv /\ UniqueInv /\ ReportInv
  BY DEF IInv
<1>1. /\ visible' \in durableServiceState /\ durable' \in durableServiceState
  BY <1>0, Types, PersistedType
<1>2. LedgerInv'
  <2>1. CASE UNCHANGED files
    BY <1>0, <2>1 DEF LedgerInv
  <2>2. CASE \E o \in Outcomes : persistState(mem, o)
    BY <1>0, <2>2, Persisted DEF LedgerInv
  <2>. QED
    BY <2>1, <2>2
<1>3. SignedInv'
  <2>. SUFFICES ASSUME NEW s \in released
                PROVE  /\ s.x[2] <= life
                       /\ s.x[2] = life =>
                            /\ s.c < next[s.x[1]][s.issue]
                            /\ \E a \in s.ring : accounts'[a] = s.x[1]
    BY DEF SignedInv
  <2>1. s.x[1] \in Users /\ s.ring \in SUBSET Accounts
    BY <1>0, SignatureTypes DEF TypeOK
  <2>2. ASSUME s.x[2] = life PROVE \E a \in s.ring : accounts'[a] = s.x[1]
    <3>1. PICK a \in s.ring : accounts[a] = s.x[1]
      BY <1>0, <2>2 DEF SignedInv
    <3>. QED
      BY <2>1, <3>1, ServiceAssumption
  <2>. QED
    BY <1>0, <2>2 DEF SignedInv
<1>4. UniqueInv' /\ ReportInv'
  BY <1>0 DEF UniqueInv, ReportInv, VerifiedOnce
<1>. QED
  BY <1>1, <1>2, <1>3, <1>4

\* LoadSetup and setup: the ring is empty when the capacity is chosen.
LEMMA SetupStep ==
  ASSUME IInv, NEW n \in 1 .. MaxCapacity,
         LoadSetup(n) \/ \E o \in Outcomes : setup(n, o)
  PROVE  IInv'
<1>. USE DEF history, files
<1>0. TypeOK /\ MemoryInv /\ RingSound
  BY DEF IInv
<1>1. /\ running /\ capacity = 0 /\ capacity' = n
      /\ UNCHANGED <<life, running, users, next, accounts, active, mem, history>>
      /\ UNCHANGED files \/ \E o \in Outcomes : persistState(mem, o)
  BY DEF LoadSetup, setup
<1>2. /\ LedgerInv' /\ SignedInv' /\ UniqueInv' /\ ReportInv'
      /\ visible' \in durableServiceState /\ durable' \in durableServiceState
  BY <1>1, CalmStep
<1>3. TypeOK'
  BY <1>0, <1>1, <1>2, ServiceAssumption DEF TypeOK
<1>4. MemoryInv'
  BY <1>0, <1>1 DEF MemoryInv
<1>5. RingSound'
  <2>1. Cardinality(active) \in Nat
    BY <1>0, Ring DEF TypeOK
  <2>. QED
    BY <1>0, <1>1, <2>1, ServiceAssumption DEF RingSound, NewSnapshot
<1>. QED
  BY <1>2, <1>3, <1>4, <1>5 DEF IInv

LEMMA KeygenStep ==
  ASSUME IInv, NEW u \in Users, NEW a \in Accounts, NEW o \in Outcomes, keygen(u, a, o)
  PROVE  IInv'
<1>. USE DEF history
<1>0. TypeOK /\ MemoryInv /\ RingSound
  BY DEF IInv
<1>1. /\ running /\ u # Blank /\ users' = users \cup {u} /\ accounts[a] = None
      /\ UNCHANGED <<life, running, capacity, next, active, mem, history>>
      /\ persistState(mem, o)
  BY DEF keygen, Ready
<1>2. /\ accounts' \in [Accounts -> Users \cup {None}]
      /\ accounts'[a] \in {None, u}
      /\ \A b \in Accounts \ {a} : accounts'[b] = accounts[b]
  BY <1>0, <1>1 DEF TypeOK, keygen
<1>3. /\ LedgerInv' /\ SignedInv' /\ UniqueInv' /\ ReportInv'
      /\ visible' \in durableServiceState /\ durable' \in durableServiceState
  BY <1>1, <1>2, CalmStep
<1>4. TypeOK'
  BY <1>0, <1>1, <1>2, <1>3 DEF TypeOK
<1>5. MemoryInv'
  BY <1>0, <1>1, <1>2 DEF MemoryInv
<1>6. RingSound'
  <2>1. a \notin active
    BY <1>0, <1>1, ServiceAssumption DEF RingSound, TypeOK
  <2>. QED
    BY <1>0, <1>1, <1>2, <2>1 DEF RingSound, NewSnapshot, TypeOK
<1>. QED
  BY <1>3, <1>4, <1>5, <1>6 DEF IInv

LEMMA RingStep ==
  ASSUME IInv, NEW a \in Accounts, NEW o \in Outcomes, join(a, o) \/ exit(a, o)
  PROVE  IInv'
<1>. USE DEF history
<1>0. TypeOK /\ MemoryInv /\ RingSound
  BY DEF IInv
<1>1. /\ running /\ persistState(mem, o)
      /\ UNCHANGED <<life, running, capacity, users, next, accounts, mem, history>>
  BY DEF join, exit, Ready
<1>2. /\ LedgerInv' /\ SignedInv' /\ UniqueInv' /\ ReportInv'
      /\ visible' \in durableServiceState /\ durable' \in durableServiceState
  BY <1>1, CalmStep
<1>3. active' \subseteq Accounts
  BY <1>0 DEF join, exit, TypeOK
<1>4. TypeOK'
  BY <1>0, <1>1, <1>2, <1>3 DEF TypeOK
<1>5. MemoryInv'
  BY <1>0, <1>1 DEF MemoryInv
<1>6. RingSound'
  <2>1. CASE join(a, o)
    BY <1>0, <1>1, <2>1 DEF RingSound, NewSnapshot, join, MemoryInv
  <2>2. CASE exit(a, o)
    <3>1. Cardinality(active') <= capacity
      BY <1>0, <2>2, Types, SmallerRing DEF RingSound, NewSnapshot, exit, TypeOK
    <3>. QED
      BY <1>0, <1>1, <2>2, <3>1 DEF RingSound, NewSnapshot, exit
  <2>. QED
    BY <2>1, <2>2
<1>. QED
  BY <1>2, <1>4, <1>5, <1>6 DEF IInv

-----------------------------------------------------------------------------
(* Requests that change the ledger *)

LEMMA RevokeStep ==
  ASSUME IInv, NEW u \in Users, NEW o \in Outcomes, revoke_user(u, o)
  PROVE  IInv'
<1>0. TypeOK /\ LedgerInv /\ MemoryInv /\ RingSound /\ SignedInv /\ UniqueInv /\ ReportInv
  BY DEF IInv
<1>1. /\ running /\ u \in users /\ persistState(mem', o)
      /\ active' = {a \in active : accounts[a] # u}
      /\ UNCHANGED <<life, running, capacity, users, next, accounts, issued, released,
                     accepted, reports>>
      /\ ackRevoked' = IF o = "synced" THEN ackRevoked \cup {u} ELSE ackRevoked
  BY DEF revoke_user, Ready
<1>2. /\ mem' \in durableServiceState
      /\ mem'.revoked = mem.revoked \cup {u}
      /\ mem'.policies = mem.policies /\ mem'.seen = mem.seen
  <2>1. mem \in durableServiceState /\ mem' = [mem EXCEPT !.revoked = mem.revoked \cup {u}]
    BY <1>0, Types DEF revoke_user
  <2>. QED
    BY <2>1 DEF durableServiceState
<1>3. TypeOK'
  <2>1. visible' \in durableServiceState /\ durable' \in durableServiceState
    BY <1>0, <1>1, <1>2, Types, PersistedType
  <2>2. ackRevoked' \subseteq Users /\ active' \subseteq Accounts
    BY <1>0, <1>1 DEF TypeOK
  <2>. QED
    BY <1>0, <1>1, <1>2, <2>1, <2>2 DEF TypeOK
<1>4. LedgerInv'
  <2>1. Covers(mem', ackRevoked', accepted, released)
    BY <1>0, <1>1, <1>2 DEF LedgerInv, Covers, MemoryInv
  <2>2. Covers(visible, ackRevoked, accepted, released)
        /\ Covers(durable, ackRevoked, accepted, released)
    BY <1>0 DEF LedgerInv
  <2>3. o # "synced" => ackRevoked' = ackRevoked
    BY <1>1
  <2>4. /\ Covers(visible', ackRevoked', accepted, released)
        /\ Covers(durable', ackRevoked', accepted, released)
    BY <1>1, <2>1, <2>2, <2>3, Persisted
  <2>. QED
    BY <1>1, <2>1, <2>4 DEF LedgerInv
<1>5. MemoryInv'
  BY <1>0, <1>1 DEF MemoryInv
<1>6. RingSound'
  <2>1. Cardinality(active') <= capacity
    BY <1>0, <1>1, Types, SmallerRing DEF RingSound, NewSnapshot, TypeOK
  <2>. QED
    BY <1>0, <1>1, <1>2, <2>1 DEF RingSound, NewSnapshot
<1>7. SignedInv' /\ UniqueInv'
  BY <1>0, <1>1 DEF SignedInv, UniqueInv
<1>8. ReportInv'
  BY <1>0, <1>1, <1>2 DEF ReportInv, VerifiedOnce
<1>. QED
  BY <1>3, <1>4, <1>5, <1>6, <1>7, <1>8 DEF IInv

\* What every sign request does, whether or not its signature leaves the service.
LEMMA SignFacts ==
  ASSUME IInv, NEW a \in Accounts, NEW i \in Issues, NEW k \in 0 .. MaxQuota,
         SignRequest(a, i, k)
  PROVE  /\ running /\ accounts[a] \in Users /\ k \in 1 .. MaxQuota /\ a \in active
         /\ UNCHANGED <<life, running, capacity, users, accounts, active, ackRevoked,
                        accepted, reports>>
         /\ mem.policies[i] \in {0, k}
         /\ next' \in [Users -> [Issues -> 0 .. MaxQuota]]
         /\ next[accounts[a]][i] \in Passes
         /\ next'[accounts[a]][i] = next[accounts[a]][i] + 1
         /\ \A v \in Users, j \in Issues : <<v, j>> # <<accounts[a], i>> =>
              next'[v][j] = next[v][j]
         /\ \A v \in Users, j \in Issues :
              /\ next[v][j] \in Nat /\ next'[v][j] \in Nat
              /\ next[v][j] <= next'[v][j]
<1>0. TypeOK /\ RingSound
  BY DEF IInv
<1>1. /\ running /\ a \in active /\ k # 0 /\ mem.policies[i] \in {0, k}
      /\ UNCHANGED <<life, running, capacity, users, accounts, active, ackRevoked,
                     accepted, reports>>
      /\ next[accounts[a]][i] < k
      /\ next' = [next EXCEPT ![accounts[a]][i] = @ + 1]
  BY DEF SignRequest, Ready, policy, SignerSign
<1>2. accounts[a] \in Users
  BY <1>0, <1>1 DEF RingSound, TypeOK
<1>. DEFINE u == accounts[a]
<1>3. /\ next \in [Users -> [Issues -> 0 .. MaxQuota]] /\ MaxQuota \in Nat
  BY <1>0, ServiceAssumption DEF TypeOK
<1>. HIDE DEF u
<1>4. next' = [next EXCEPT ![u][i] = next[u][i] + 1] /\ u \in Users /\ next[u][i] < k
  BY <1>1, <1>2 DEF u
<1>5. next[u][i] \in 0 .. MaxQuota /\ next[u][i] + 1 \in 0 .. MaxQuota
      /\ next[u][i] \in Passes
  BY <1>1, <1>3, <1>4 DEF Passes
<1>6. next' \in [Users -> [Issues -> 0 .. MaxQuota]] /\ next'[u][i] = next[u][i] + 1
  BY <1>3, <1>4, <1>5
<1>7. \A v \in Users, j \in Issues : <<v, j>> # <<u, i>> => next'[v][j] = next[v][j]
  BY <1>3, <1>4
<1>8. \A v \in Users, j \in Issues :
        /\ next[v][j] \in Nat /\ next'[v][j] \in Nat
        /\ next[v][j] <= next'[v][j]
  <2>. SUFFICES ASSUME NEW v \in Users, NEW j \in Issues
                PROVE  /\ next[v][j] \in Nat /\ next'[v][j] \in Nat
                       /\ next[v][j] <= next'[v][j]
    OBVIOUS
  <2>1. next[v][j] \in 0 .. MaxQuota /\ next'[v][j] \in 0 .. MaxQuota
    BY <1>3, <1>6
  <2>2. next'[v][j] = next[v][j] \/ next'[v][j] = next[v][j] + 1
    BY <1>6, <1>7
  <2>. QED
    BY <2>1, <2>2
<1>9. k \in 1 .. MaxQuota
  BY <1>1, <1>3
<1>. QED
  BY <1>1, <1>2, <1>5, <1>6, <1>7, <1>8, <1>9 DEF u

\* The signatures given out before stay below the Signers' counters.
LEMMA SignedStill ==
  ASSUME IInv, NEW a \in Accounts, NEW i \in Issues, NEW k \in 0 .. MaxQuota,
         SignRequest(a, i, k), NEW s \in released
  PROVE  /\ s.x[2] <= life'
         /\ running' /\ s.x[2] = life' =>
              /\ s.c < next'[s.x[1]][s.issue]
              /\ \E b \in s.ring : accounts'[b] = s.x[1]
<1>1. s \in Signature
  BY DEF IInv, TypeOK
<1>2. s.x[1] \in Users /\ s.issue \in Issues /\ s.c \in Nat
  BY <1>1, SignatureTypes
<1>3. /\ next[s.x[1]][s.issue] \in Nat /\ next'[s.x[1]][s.issue] \in Nat
      /\ next[s.x[1]][s.issue] <= next'[s.x[1]][s.issue]
      /\ UNCHANGED <<life, running, accounts>>
  BY <1>2, SignFacts
<1>4. /\ s.x[2] <= life
      /\ running /\ s.x[2] = life =>
           /\ s.c < next[s.x[1]][s.issue]
           /\ \E b \in s.ring : accounts[b] = s.x[1]
  BY DEF IInv, SignedInv
<1>5. ASSUME s.c < next[s.x[1]][s.issue] PROVE s.c < next'[s.x[1]][s.issue]
  BY <1>2, <1>3, <1>5
<1>. QED
  BY <1>3, <1>4, <1>5

LEMMA SignUnmarshalledStep ==
  ASSUME IInv, NEW a \in Accounts, NEW i \in Issues, NEW k \in 0 .. MaxQuota,
         SignUnmarshalled(a, i, k)
  PROVE  IInv'
<1>0. TypeOK /\ LedgerInv /\ MemoryInv /\ RingSound /\ UniqueInv /\ ReportInv
  BY DEF IInv
<1>1. SignRequest(a, i, k) /\ UNCHANGED <<mem, visible, durable, issued, released>>
  BY DEF SignUnmarshalled, files
<1>2. /\ UNCHANGED <<life, running, capacity, users, accounts, active, ackRevoked,
                     accepted, reports>>
      /\ next' \in [Users -> [Issues -> 0 .. MaxQuota]]
  BY <1>1, SignFacts
<1>3. TypeOK'
  BY <1>0, <1>1, <1>2 DEF TypeOK
<1>4. LedgerInv' /\ MemoryInv' /\ RingSound' /\ UniqueInv' /\ ReportInv'
  BY <1>0, <1>1, <1>2
     DEF LedgerInv, MemoryInv, RingSound, NewSnapshot, UniqueInv, ReportInv, VerifiedOnce
<1>5. SignedInv'
  BY <1>1, SignedStill DEF SignedInv
<1>. QED
  BY <1>3, <1>4, <1>5 DEF IInv

\* The new signature is of a pass no signature was given out for.
Fresh(s, a, i, k) ==
  /\ s \in Signature /\ SlotOf(s) \in Slots
  /\ s.x = <<accounts[a], life>> /\ s.issue = i /\ s.k = k /\ s.ring = active
  /\ s.c = next[accounts[a]][i] /\ s.c < k
  /\ \A t \in released : t.x = s.x /\ t.issue = i => t.c < s.c
  /\ \A t \in released : SlotOf(t) # SlotOf(s)

LEMMA FreshPass ==
  ASSUME IInv, NEW a \in Accounts, NEW i \in Issues, NEW k \in 0 .. MaxQuota,
         SignRequest(a, i, k)
  PROVE  Fresh(SignedBy(a, i, k), a, i, k)
<1>. DEFINE s == SignedBy(a, i, k)
<1>1. /\ running /\ accounts[a] \in Users /\ k \in 1 .. MaxQuota /\ a \in active
      /\ next[accounts[a]][i] \in Passes
  BY SignFacts
<1>2. TypeOK /\ SignedInv
  BY DEF IInv
<1>3. life \in Lives
  BY <1>1 DEF IInv, MemoryInv
<1>4. /\ s.x = <<accounts[a], life>> /\ s.issue = i /\ s.k = k /\ s.ring = active
      /\ s.c = next[accounts[a]][i]
  BY DEF SignedBy
<1>5. s \in Signature
  BY <1>1, <1>2, <1>3 DEF SignedBy, Signature, Secrets, TypeOK
<1>6. s.c < k
  BY <1>4 DEF SignRequest, SignerSign
<1>7. ASSUME NEW t \in released, t.x = s.x, t.issue = i PROVE t.c < s.c
  <2>1. t.x[2] = life /\ t.x[1] = accounts[a]
    BY <1>4, <1>7
  <2>2. t.c < next[t.x[1]][t.issue]
    BY <1>1, <1>2, <2>1 DEF SignedInv
  <2>. QED
    BY <1>4, <1>7, <2>1, <2>2
<1>8. ASSUME NEW t \in released PROVE SlotOf(t) # SlotOf(s)
  <2>1. t \in Signature
    BY <1>2 DEF TypeOK
  <2>2. t.c \in Nat /\ s.c \in Nat
    BY <1>5, <2>1, SignatureTypes
  <2>3. SlotOf(t) = SlotOf(s) => t.x = s.x /\ t.issue = i /\ t.c = s.c
    BY <1>4 DEF SlotOf
  <2>. QED
    BY <1>7, <2>2, <2>3
<1>9. SlotOf(s) \in Slots
  BY <1>5, SignatureTypes
<1>. QED
  BY <1>4, <1>5, <1>6, <1>7, <1>8, <1>9 DEF Fresh

LEMMA SignStep ==
  ASSUME IInv, NEW a \in Accounts, NEW i \in Issues, NEW k \in 0 .. MaxQuota,
         NEW o \in Outcomes, sign(a, i, k, o)
  PROVE  IInv'
<1>. DEFINE s == SignedBy(a, i, k)
<1>0. TypeOK /\ LedgerInv /\ MemoryInv /\ RingSound /\ SignedInv /\ UniqueInv /\ ReportInv
  BY DEF IInv
<1>1. SignRequest(a, i, k) /\ persistState(mem', o)
  BY DEF sign
<1>2. /\ running /\ accounts[a] \in Users /\ k \in 1 .. MaxQuota /\ a \in active
      /\ UNCHANGED <<life, running, capacity, users, accounts, active, ackRevoked,
                     accepted, reports>>
      /\ mem.policies[i] \in {0, k}
      /\ next' \in [Users -> [Issues -> 0 .. MaxQuota]]
      /\ next'[accounts[a]][i] = next[accounts[a]][i] + 1
      /\ next[accounts[a]][i] \in Passes
  BY <1>1, SignFacts
<1>3. /\ s \in Signature /\ SlotOf(s) \in Slots
      /\ s.x = <<accounts[a], life>> /\ s.issue = i /\ s.k = k /\ s.ring = active
      /\ s.c = next[accounts[a]][i]
      /\ \A t \in released : SlotOf(t) # SlotOf(s)
  <2>1. Fresh(s, a, i, k)
    BY <1>1, FreshPass
  <2>. HIDE DEF s
  <2>. QED
    BY <2>1 DEF Fresh
<1>. HIDE DEF s
<1>4. /\ mem' \in durableServiceState
      /\ mem'.revoked = mem.revoked /\ mem'.seen = mem.seen
      /\ mem'.policies[i] = k
      /\ \A j \in Issues \ {i} : mem'.policies[j] = mem.policies[j]
  <2>1. /\ mem \in durableServiceState
        /\ mem' = [mem EXCEPT !.policies = [mem.policies EXCEPT ![i] = k]]
    BY <1>0, Types DEF sign
  <2>. QED
    BY <2>1 DEF durableServiceState
<1>5. \/ /\ o = "synced" /\ released' = released \cup {s}
         /\ issued' = [issued EXCEPT ![SlotOf(s)] = issued[SlotOf(s)] + 1]
      \/ o # "synced" /\ released' = released /\ issued' = issued
  BY DEF sign, s
<1>6. TypeOK'
  <2>1. visible' \in durableServiceState /\ durable' \in durableServiceState
    BY <1>0, <1>1, <1>4, Types, PersistedType
  <2>2. /\ issued \in [Slots -> Nat] /\ released \subseteq Signature
    BY <1>0 DEF TypeOK
  <2>3. issued' \in [Slots -> Nat]
    BY <1>5, <2>2
  <2>4. released' \subseteq Signature
    BY <1>3, <1>5, <2>2
  <2>. QED
    BY <1>0, <1>2, <1>4, <2>1, <2>3, <2>4 DEF TypeOK
<1>7. LedgerInv'
  <2>1. Covers(mem', ackRevoked, accepted, released')
    <3>1. ASSUME NEW t \in released
          PROVE  mem.policies[t.issue] = t.k /\ t.k # 0 /\ t.issue \in Issues
      <4>1. t \in Signature
        BY <1>0 DEF TypeOK
      <4>2. t.k \in 1 .. MaxQuota /\ t.issue \in Issues
        BY <4>1, SignatureTypes
      <4>3. t.k # 0
        BY <4>2
      <4>4. mem.policies[t.issue] = t.k
        BY <1>0, <1>2 DEF LedgerInv, Covers
      <4>. QED
        BY <4>2, <4>3, <4>4
    <3>2. \A t \in released : mem'.policies[t.issue] = t.k
      BY <1>2, <1>4, <3>1
    <3>3. \A t \in released' : mem'.policies[t.issue] = t.k
      BY <1>3, <1>4, <1>5, <3>2
    <3>4. /\ ackRevoked \subseteq mem.revoked /\ accepted \subseteq mem.seen
          /\ Blank \notin mem.revoked
      BY <1>0, <1>2 DEF LedgerInv, Covers
    <3>. QED
      BY <1>4, <1>5, <3>3, <3>4 DEF Covers
  <2>2. /\ Covers(visible, ackRevoked, accepted, released)
        /\ Covers(durable, ackRevoked, accepted, released)
    BY <1>0 DEF LedgerInv
  <2>3. /\ Covers(visible', ackRevoked, accepted, released')
        /\ Covers(durable', ackRevoked, accepted, released')
    BY <1>1, <1>5, <2>1, <2>2, Persisted
  <2>. QED
    BY <1>2, <2>1, <2>3 DEF LedgerInv
<1>8. MemoryInv' /\ RingSound'
  BY <1>0, <1>2, <1>4 DEF MemoryInv, RingSound, NewSnapshot
<1>9. SignedInv'
  <2>1. ASSUME NEW t \in released
        PROVE  /\ t.x[2] <= life'
               /\ running' /\ t.x[2] = life' =>
                    /\ t.c < next'[t.x[1]][t.issue]
                    /\ \E b \in t.ring : accounts'[b] = t.x[1]
    BY <1>1, SignedStill
  <2>2. /\ s.x[2] <= life'
        /\ s.c < next'[s.x[1]][s.issue]
        /\ \E b \in s.ring : accounts'[b] = s.x[1]
    <3>1. s.x = <<accounts[a], life>> /\ s.issue = i /\ s.c = next[accounts[a]][i]
          /\ s.ring = active /\ s \in Signature
      BY <1>3
    <3>2. s.x[1] = accounts[a] /\ s.x[2] = life
      BY <3>1
    <3>3. life \in Nat
      BY <1>0, Types
    <3>4. s.c \in Nat
      BY <3>1, SignatureTypes
    <3>5. s.x[2] <= life'
      BY <1>2, <3>2, <3>3
    <3>6. s.c < next'[s.x[1]][s.issue]
      BY <1>2, <3>1, <3>2, <3>4
    <3>. QED
      BY <1>2, <3>1, <3>2, <3>5, <3>6
  <2>. QED
    BY <1>5, <2>1, <2>2 DEF SignedInv
<1>10. UniqueInv'
  <2>1. CASE o = "synced"
    <3>1. released' = released \cup {s}
      BY <1>5, <2>1
    <3>2. \A t, q \in released' : SlotOf(t) = SlotOf(q) => t = q
      BY <1>0, <1>3, <3>1 DEF UniqueInv
    <3>3. /\ issued[SlotOf(s)] = 0 /\ issued'[SlotOf(s)] = 1
          /\ \A p \in Slots \ {SlotOf(s)} : issued'[p] = issued[p]
      <4>1. issued[SlotOf(s)] = 0
        BY <1>0, <1>3 DEF UniqueInv
      <4>2. issued \in [Slots -> Nat] /\ SlotOf(s) \in Slots
        BY <1>0, <1>3 DEF TypeOK
      <4>3. issued' = [issued EXCEPT ![SlotOf(s)] = issued[SlotOf(s)] + 1]
        BY <1>5, <2>1
      <4>. QED
        BY <4>1, <4>2, <4>3
    <3>4. ASSUME NEW p \in Slots
          PROVE  issued'[p] = IF \E t \in released' : SlotOf(t) = p THEN 1 ELSE 0
      <4>1. CASE p = SlotOf(s)
        BY <3>1, <3>3, <4>1
      <4>2. CASE p # SlotOf(s)
        <5>1. (\E t \in released' : SlotOf(t) = p) <=> (\E t \in released : SlotOf(t) = p)
          BY <3>1, <4>2
        <5>2. issued[p] = IF \E t \in released : SlotOf(t) = p THEN 1 ELSE 0
          BY <1>0 DEF UniqueInv
        <5>. QED
          BY <3>3, <4>2, <5>1, <5>2
      <4>. QED
        BY <4>1, <4>2
    <3>. QED
      BY <3>2, <3>4 DEF UniqueInv
  <2>2. CASE o # "synced"
    BY <1>0, <1>5, <2>2 DEF UniqueInv
  <2>. QED
    BY <2>1, <2>2
<1>11. ReportInv'
  BY <1>0, <1>2, <1>4 DEF ReportInv, VerifiedOnce
<1>. QED
  BY <1>6, <1>7, <1>8, <1>9, <1>10, <1>11 DEF IInv

\* An envelope is consumed once: it is not among the consumed ones, so this
\* lifetime has not reported it, and no earlier one can have.
LEMMA VerifyStep ==
  ASSUME IInv, NEW e \in [signed : released, proof : Proofs], NEW o \in Outcomes,
         verify(e, o)
  PROVE  IInv'
<1>0. TypeOK /\ LedgerInv /\ MemoryInv /\ RingSound /\ SignedInv /\ UniqueInv /\ ReportInv
  BY DEF IInv
<1>1. /\ running /\ persistState(mem', o) /\ e \notin mem.seen /\ e.signed.x[2] = life
      /\ UNCHANGED <<life, running, capacity, users, next, accounts, active, issued,
                     released, ackRevoked>>
      /\ accepted' = IF o = "synced" THEN accepted \cup {e} ELSE accepted
      /\ reports' = Append(reports, e)
  BY DEF verify, Ready, Verifies
<1>2. e \in Envelope
  BY <1>0 DEF TypeOK, Envelope
<1>3. life \in Nat
  BY <1>0, Types
<1>4. /\ mem' \in durableServiceState
      /\ mem'.revoked = mem.revoked /\ mem'.policies = mem.policies
      /\ mem'.seen = mem.seen \cup {e}
  <2>1. mem \in durableServiceState /\ mem' = [mem EXCEPT !.seen = mem.seen \cup {e}]
    BY <1>0, Types DEF verify
  <2>. QED
    BY <1>2, <2>1 DEF durableServiceState
<1>5. \A n \in DOMAIN reports : reports[n] # e
  BY <1>0, <1>1 DEF ReportInv
<1>6. /\ reports' \in Seq(Envelope)
      /\ DOMAIN reports' = DOMAIN reports \cup {Len(reports) + 1}
      /\ reports'[Len(reports) + 1] = e
      /\ \A n \in DOMAIN reports : reports'[n] = reports[n]
  <2>1. reports \in Seq(Envelope) /\ reports' = Append(reports, e)
    BY <1>0, <1>1 DEF TypeOK
  <2>. QED
    BY <1>2, <2>1
<1>7. TypeOK'
  <2>1. visible' \in durableServiceState /\ durable' \in durableServiceState
    BY <1>0, <1>1, <1>4, Types, PersistedType
  <2>2. accepted' \subseteq Envelope
    BY <1>0, <1>1, <1>2 DEF TypeOK
  <2>. QED
    BY <1>0, <1>1, <1>4, <1>6, <2>1, <2>2 DEF TypeOK
<1>8. LedgerInv'
  <2>1. Covers(mem', ackRevoked, accepted', released)
    BY <1>0, <1>1, <1>4 DEF LedgerInv, Covers
  <2>2. /\ Covers(visible, ackRevoked, accepted, released)
        /\ Covers(durable, ackRevoked, accepted, released)
    BY <1>0 DEF LedgerInv
  <2>3. o # "synced" => accepted' = accepted
    BY <1>1
  <2>4. /\ Covers(visible', ackRevoked, accepted', released)
        /\ Covers(durable', ackRevoked, accepted', released)
    BY <1>1, <2>1, <2>2, <2>3, Persisted
  <2>. QED
    BY <1>1, <2>1, <2>4 DEF LedgerInv
<1>9. MemoryInv' /\ RingSound'
  BY <1>0, <1>1, <1>4 DEF MemoryInv, RingSound, NewSnapshot
<1>10. SignedInv' /\ UniqueInv'
  BY <1>0, <1>1 DEF SignedInv, UniqueInv
<1>11. ReportInv'
  <2>1. VerifiedOnce'
    BY <1>0, <1>5, <1>6 DEF ReportInv, VerifiedOnce
  <2>2. ASSUME NEW n \in DOMAIN reports'
        PROVE  /\ reports'[n].signed.x[2] <= life
               /\ reports'[n].signed.x[2] = life => reports'[n] \in mem'.seen
    <3>1. CASE n \in DOMAIN reports
      BY <1>0, <1>1, <1>4, <1>6, <3>1 DEF ReportInv
    <3>2. CASE n = Len(reports) + 1
      <4>1. reports'[n] = e
        BY <1>6, <3>2
      <4>2. e.signed.x[2] <= life
        BY <1>1, <1>3
      <4>. QED
        BY <1>4, <4>1, <4>2
    <3>. QED
      BY <1>6, <3>1, <3>2
  <2>. QED
    BY <1>1, <2>1, <2>2 DEF ReportInv, VerifiedOnce
<1>. QED
  BY <1>7, <1>8, <1>9, <1>10, <1>11 DEF IInv

-----------------------------------------------------------------------------
(* Starts, ends and the disk *)

LEMMA Forgotten ==
  ASSUME ForgetMemory, TypeOK
  PROVE  /\ capacity' \in 0 .. MaxCapacity /\ users' = {} /\ active' = {}
         /\ next' \in [Users -> [Issues -> 0 .. MaxQuota]]
         /\ accounts' \in [Accounts -> Users \cup {None}]
         /\ \A a \in Accounts : accounts'[a] = None
         /\ Cardinality(active') <= capacity'
BY ServiceAssumption, FS_EmptySet DEF ForgetMemory

LEMMA StartStep ==
  ASSUME IInv, NewPersistentService
  PROVE  IInv'
<1>. USE DEF history, files
<1>0. TypeOK /\ LedgerInv /\ SignedInv /\ UniqueInv /\ ReportInv
  BY DEF IInv
<1>1. /\ ~running /\ life < MaxLives /\ life' = life + 1 /\ running' = TRUE
      /\ mem' = visible /\ ForgetMemory
      /\ UNCHANGED <<visible, durable, issued, released, ackRevoked, accepted, reports>>
  BY DEF NewPersistentService
<1>2. life \in Nat /\ life' \in 0 .. MaxLives /\ life' \in Lives
  BY <1>0, <1>1, Types, ServiceAssumption DEF Lives
<1>3. TypeOK'
  <2>1. mem' \in durableServiceState
    BY <1>0, <1>1, Types
  <2>. QED
    BY <1>0, <1>1, <1>2, <2>1, Forgotten DEF TypeOK
<1>4. LedgerInv'
  BY <1>0, <1>1 DEF LedgerInv
<1>5. MemoryInv' /\ RingSound'
  BY <1>0, <1>1, <1>2, Forgotten DEF MemoryInv, RingSound, NewSnapshot
<1>6. SignedInv'
  <2>. SUFFICES ASSUME NEW s \in released PROVE s.x[2] <= life' /\ s.x[2] # life'
    BY <1>1 DEF SignedInv
  <2>1. s.x[2] \in Nat /\ s.x[2] <= life
    BY <1>0, SignatureTypes DEF TypeOK, SignedInv
  <2>. QED
    BY <1>1, <1>2, <2>1
<1>7. UniqueInv'
  BY <1>0, <1>1 DEF UniqueInv
<1>8. ReportInv'
  <2>1. VerifiedOnce'
    BY <1>0, <1>1 DEF ReportInv, VerifiedOnce
  <2>2. ASSUME NEW n \in DOMAIN reports
        PROVE  reports[n].signed.x[2] <= life' /\ reports[n].signed.x[2] # life'
    <3>1. reports[n] \in Envelope
      BY <1>0 DEF TypeOK
    <3>2. reports[n].signed.x[2] \in Nat
      BY <3>1, SignatureTypes DEF Envelope
    <3>3. reports[n].signed.x[2] <= life
      BY <1>0 DEF ReportInv
    <3>. QED
      BY <1>1, <1>2, <3>2, <3>3
  <2>. QED
    BY <1>1, <2>1, <2>2 DEF ReportInv, VerifiedOnce
<1>. QED
  BY <1>3, <1>4, <1>5, <1>6, <1>7, <1>8 DEF IInv

LEMMA EndStep ==
  ASSUME IInv, Stop \/ PowerLoss
  PROVE  IInv'
<1>. USE DEF history, files
<1>0. TypeOK /\ LedgerInv /\ SignedInv /\ UniqueInv /\ ReportInv
  BY DEF IInv
<1>1. /\ running' = FALSE /\ mem' = EmptyState /\ ForgetMemory
      /\ visible' \in {visible, durable} /\ durable' = durable
      /\ UNCHANGED <<life, issued, released, ackRevoked, accepted, reports>>
  BY DEF Stop, PowerLoss
<1>2. TypeOK'
  <2>1. mem' \in durableServiceState /\ visible' \in durableServiceState
        /\ durable' \in durableServiceState
    BY <1>0, <1>1, Types, EmptyLedger
  <2>. QED
    BY <1>0, <1>1, <2>1, Forgotten DEF TypeOK
<1>3. LedgerInv'
  BY <1>0, <1>1 DEF LedgerInv
<1>4. MemoryInv' /\ RingSound'
  BY <1>0, <1>1, Forgotten DEF MemoryInv, RingSound, NewSnapshot
<1>5. SignedInv' /\ UniqueInv' /\ ReportInv'
  BY <1>0, <1>1 DEF SignedInv, UniqueInv, ReportInv, VerifiedOnce
<1>. QED
  BY <1>2, <1>3, <1>4, <1>5 DEF IInv

LEMMA DiskStep ==
  ASSUME IInv, Writeback \/ UNCHANGED vars
  PROVE  IInv'
<1>1. /\ durable' \in {visible, durable} /\ visible' = visible
      /\ UNCHANGED <<life, running, capacity, users, next, accounts, active, mem, issued,
                     released, ackRevoked, accepted, reports>>
  BY DEF Writeback, vars, memory, files, history
<1>2. TypeOK'
  <2>1. durable' \in durableServiceState
    BY <1>1, Types DEF IInv
  <2>. QED
    BY <1>1, <2>1 DEF IInv, TypeOK
<1>3. LedgerInv'
  BY <1>1 DEF IInv, LedgerInv
<1>4. MemoryInv' /\ RingSound' /\ SignedInv' /\ UniqueInv' /\ ReportInv'
  BY <1>1 DEF IInv, MemoryInv, RingSound, NewSnapshot, SignedInv, UniqueInv,
              ReportInv, VerifiedOnce
<1>. QED
  BY <1>2, <1>3, <1>4 DEF IInv

-----------------------------------------------------------------------------
(* Theorems *)

\* Every request, with every outcome of its write, and every start, end, power
\* loss and writeback keeps the inductive invariant.
LEMMA NextIInv == IInv /\ [Next]_vars => IInv'
<1>. SUFFICES ASSUME IInv, [Next]_vars PROVE IInv'
  OBVIOUS
<1>1. ASSUME NEW o \in Outcomes, Request(o) PROVE IInv'
  BY <1>1, SetupStep, KeygenStep, RingStep, RevokeStep, SignStep, VerifyStep DEF Request
<1>2. ASSUME NEW n \in 1 .. MaxCapacity, LoadSetup(n) PROVE IInv'
  BY <1>2, SetupStep
<1>3. ASSUME NEW a \in Accounts, NEW i \in Issues, NEW k \in 0 .. MaxQuota,
             SignUnmarshalled(a, i, k)
      PROVE  IInv'
  BY <1>3, SignUnmarshalledStep
<1>4. CASE NewPersistentService
  BY <1>4, StartStep
<1>5. CASE Stop \/ PowerLoss
  BY <1>5, EndStep
<1>6. CASE Writeback \/ UNCHANGED vars
  BY <1>6, DiskStep
<1>. QED
  BY <1>1, <1>2, <1>3, <1>4, <1>5, <1>6 DEF Next

\* The inductive invariant holds of every behaviour of the service and its disk.
THEOREM Invariance == Spec => []IInv
<1>. QED
  BY InitIInv, NextIInv, PTL DEF Spec

\* Type correctness of the service's memory, its ledger file and the history.
THEOREM TypeCorrect == Spec => []TypeOK
<1>1. IInv => TypeOK
  BY DEF IInv
<1>. QED
  BY Invariance, <1>1, PTL

\* The ring holds registered accounts of users that are not revoked, and fits.
THEOREM RingStaysSound == Spec => []RingSound
<1>1. IInv => RingSound
  BY DEF IInv
<1>. QED
  BY Invariance, <1>1, PTL

\* What handle() answered ok survives every crash and power loss.
THEOREM Durability == Spec => []AcksAreDurable
<1>1. IInv => AcksAreDurable
  BY DEF IInv, LedgerInv, Covers, AcksAreDurable
<1>. QED
  BY Invariance, <1>1, PTL

\* All signatures for an issue, over all lifetimes and users, carry one quota.
THEOREM QuotaPinned == Spec => []OneQuotaPerIssue
<1>1. IInv => OneQuotaPerIssue
  BY DEF IInv, LedgerInv, Covers, OneQuotaPerIssue
<1>. QED
  BY Invariance, <1>1, PTL

\* No envelope is reported as verified twice, over all lifetimes.
THEOREM NoDoubleReport == Spec => []VerifiedOnce
<1>1. IInv => VerifiedOnce
  BY DEF IInv, ReportInv
<1>. QED
  BY Invariance, <1>1, PTL

\* Nothing a revoked user ever signed verifies against the current ring: an
\* account of theirs is in the signature's ring and can be in no later one.
THEOREM RevocationHolds == Spec => []RevokedNeverVerifies
<1>1. ASSUME IInv PROVE RevokedNeverVerifies
  <2>. SUFFICES ASSUME NEW s \in released, s.x[1] \in mem.revoked, Verifies(s) PROVE FALSE
    BY DEF RevokedNeverVerifies
  <2>1. running
    <3>1. ~running => mem = EmptyState
      BY <1>1 DEF IInv, MemoryInv
    <3>. QED
      BY <3>1, EmptyLedger
  <2>2. PICK a \in s.ring : accounts[a] = s.x[1]
    BY <1>1, <2>1 DEF IInv, SignedInv, Verifies
  <2>3. a \in active
    BY <2>2 DEF Verifies
  <2>. QED
    BY <1>1, <2>2, <2>3 DEF IInv, RingSound
<1>. QED
  BY Invariance, <1>1, PTL

\* The ledger file can be loaded again after any sequence of requests.
THEOREM Restartable == Spec => []AlwaysRestartable
<1>1. IInv => AlwaysRestartable
  BY DEF IInv, LedgerInv, Covers, AlwaysRestartable, Loadable
<1>. QED
  BY Invariance, <1>1, PTL

-----------------------------------------------------------------------------
(* The service implements OneTimePass *)

\* A pinned quota is in the ledger for good.
LEMMA PinStays ==
  ASSUME IInv, IInv', released \subseteq released', NEW s \in released
  PROVE  /\ durable.policies[s.issue] = s.k
         /\ durable'.policies[s.issue] = s.k
BY DEF IInv, LedgerInv, Covers

\* A slot has been issued exactly when a signature of it was given out.
LEMMA IssuedIsReleased ==
  ASSUME IInv, NEW p \in Slots
  PROVE  /\ issued[p] \in {0, 1}
         /\ issued[p] > 0 <=> \E s \in released : SlotOf(s) = p
<1>1. issued[p] = IF \E s \in released : SlotOf(s) = p THEN 1 ELSE 0
  BY DEF IInv, UniqueInv
<1>. QED
  BY <1>1

LEMMA QuietSteps ==
  ASSUME IInv, [Next]_vars
  PROVE  \/ UNCHANGED <<issued, released>>
         \/ \E a \in Accounts, i \in Issues, k \in 0 .. MaxQuota : sign(a, i, k, "synced")
<1>1. ASSUME NEW o \in Outcomes, Request(o)
      PROVE  \/ UNCHANGED <<issued, released>>
             \/ \E a \in Accounts, i \in Issues, k \in 0 .. MaxQuota :
                   sign(a, i, k, "synced")
  <2>1. ASSUME NEW a \in Accounts, NEW i \in Issues, NEW k \in 0 .. MaxQuota, sign(a, i, k, o)
        PROVE  UNCHANGED <<issued, released>> \/ o = "synced"
    BY <2>1 DEF sign
  <2>. QED
    BY <1>1, <2>1 DEF Request, setup, keygen, join, exit, revoke_user, verify, history
<1>. QED
  BY <1>1 DEF Next, NewPersistentService, LoadSetup, SignUnmarshalled, Stop, PowerLoss,
     Writeback, vars, history

LEMMA PinnedSame ==
  ASSUME IInv, IInv', UNCHANGED <<issued, released>>
  PROVE  PinnedQuota' = PinnedQuota
<1>1. ASSUME NEW p \in Secrets \X Issues, \E c \in Passes : issued[<<p[1], p[2], c>>] > 0
      PROVE  durable'.policies[p[2]] = durable.policies[p[2]]
  <2>1. PICK c \in Passes : issued[<<p[1], p[2], c>>] > 0
    BY <1>1
  <2>2. <<p[1], p[2], c>> \in Slots
    BY DEF Slots
  <2>3. PICK s \in released : SlotOf(s) = <<p[1], p[2], c>>
    BY <2>1, <2>2, IssuedIsReleased
  <2>4. s.issue = p[2]
    BY <2>3 DEF SlotOf
  <2>. QED
    BY <2>4, PinStays
<1>. QED
  BY <1>1 DEF PinnedQuota

\* A sign request answered ok is one Issue step of OneTimePass.
LEMMA SignIssues ==
  ASSUME IInv, IInv', NEW a \in Accounts, NEW i \in Issues, NEW k \in 0 .. MaxQuota,
         sign(a, i, k, "synced")
  PROVE  OTP!Next
<1>. DEFINE s == SignedBy(a, i, k)
            x == s.x
            n == s.c
            p == <<x, i, n>>
<1>1. SignRequest(a, i, k)
  BY DEF sign
<1>2. /\ s \in Signature /\ s.issue = i /\ s.k = k /\ n < k
      /\ \A t \in released : t.x = x /\ t.issue = i => t.c < n
  <2>1. Fresh(s, a, i, k)
    BY <1>1, FreshPass
  <2>. HIDE DEF s
  <2>. QED
    BY <2>1 DEF Fresh
<1>3. x \in Secrets /\ n \in Passes /\ n \in Nat /\ k \in 1 .. MaxQuota
  BY <1>2, SignatureTypes
<1>4. /\ released' = released \cup {s}
      /\ issued \in [Slots -> Nat] /\ issued' = [issued EXCEPT ![p] = issued[p] + 1]
  BY <1>2 DEF sign, SlotOf, IInv, TypeOK
<1>. HIDE DEF s
<1>5. \A d \in Passes : d >= n => issued[<<x, i, d>>] = 0
  <2>. SUFFICES ASSUME NEW d \in Passes, d >= n, issued[<<x, i, d>>] # 0 PROVE FALSE
    OBVIOUS
  <2>1. <<x, i, d>> \in Slots
    BY <1>3 DEF Slots
  <2>2. issued[<<x, i, d>>] > 0
    BY <2>1, IssuedIsReleased
  <2>3. PICK t \in released : SlotOf(t) = <<x, i, d>>
    BY <2>1, <2>2, IssuedIsReleased
  <2>4. t.x = x /\ t.issue = i /\ t.c = d
    BY <2>3 DEF SlotOf
  <2>5. d < n
    BY <1>2, <2>4
  <2>6. d \in Nat
    BY ServiceAssumption DEF Passes
  <2>. QED
    BY <1>3, <2>5, <2>6
<1>6. p \in Slots /\ issued[p] = 0
  <2>1. p \in Slots
    BY <1>3 DEF Slots
  <2>2. n \in Passes /\ n >= n
    BY <1>3
  <2>. QED
    BY <1>5, <2>1, <2>2
<1>7. issued' = [issued EXCEPT ![p] = 1]
  BY <1>4, <1>6
<1>8. durable'.policies[i] = k
  BY <1>2, <1>4 DEF IInv, LedgerInv, Covers
<1>9. ASSUME NEW q \in Secrets \X Issues, \E c \in Passes : issued[<<q[1], q[2], c>>] > 0
      PROVE  durable'.policies[q[2]] = durable.policies[q[2]]
  <2>1. PICK c \in Passes : issued[<<q[1], q[2], c>>] > 0
    BY <1>9
  <2>2. <<q[1], q[2], c>> \in Slots
    BY DEF Slots
  <2>3. PICK t \in released : SlotOf(t) = <<q[1], q[2], c>>
    BY <2>1, <2>2, IssuedIsReleased
  <2>4. t.issue = q[2]
    BY <2>3 DEF SlotOf
  <2>5. released \subseteq released'
    BY <1>4
  <2>6. durable.policies[t.issue] = t.k /\ durable'.policies[t.issue] = t.k
    BY <2>5, PinStays
  <2>. QED
    BY <2>4, <2>6
<1>. DEFINE Before(q) == \E c \in Passes : issued[<<q[1], q[2], c>>] > 0
            After(q) == \E c \in Passes : issued'[<<q[1], q[2], c>>] > 0
<1>10. After(<<x, i>>)
  <2>1. issued'[p] = 1
    BY <1>4, <1>6, <1>7
  <2>. QED
    BY <1>3, <2>1
<1>11. ASSUME NEW q \in Secrets \X Issues, q # <<x, i>>
       PROVE  After(q) <=> Before(q)
  <2>1. ASSUME NEW c \in Passes
        PROVE  issued'[<<q[1], q[2], c>>] = issued[<<q[1], q[2], c>>]
    <3>1. <<q[1], q[2], c>> \in Slots
      BY DEF Slots
    <3>2. <<q[1], q[2], c>> # p
      BY <1>11
    <3>. QED
      BY <1>4, <1>7, <3>1, <3>2
  <2>. QED
    BY <2>1
<1>12. PinnedQuota' = [q \in Secrets \X Issues |->
                          IF After(q) THEN durable'.policies[q[2]] ELSE 0]
  BY DEF PinnedQuota
<1>13. PinnedQuota = [q \in Secrets \X Issues |->
                          IF Before(q) THEN durable.policies[q[2]] ELSE 0]
  BY DEF PinnedQuota
<1>14. ASSUME NEW q \in Secrets \X Issues, Before(q)
       PROVE  durable'.policies[q[2]] = durable.policies[q[2]]
  BY <1>9, <1>14
<1>. HIDE DEF Before, After
<1>15. <<x, i>> \in Secrets \X Issues /\ PinnedQuota[<<x, i>>] \in {0, k}
  <2>1. <<x, i>> \in Secrets \X Issues
    BY <1>3
  <2>2. Before(<<x, i>>) => durable.policies[i] = k
    BY <1>8, <1>14, <2>1
  <2>. QED
    BY <1>13, <2>1, <2>2
<1>16. ASSUME NEW q \in Secrets \X Issues
       PROVE  PinnedQuota'[q] = IF q = <<x, i>> THEN k ELSE PinnedQuota[q]
  <2>1. CASE q = <<x, i>>
    <3>1. PinnedQuota'[q] = durable'.policies[q[2]] /\ q[2] = i
      BY <1>10, <1>12, <2>1
    <3>. QED
      BY <1>8, <2>1, <3>1
  <2>2. CASE q # <<x, i>>
    BY <1>11, <1>12, <1>13, <1>14, <2>2
  <2>. QED
    BY <2>1, <2>2
<1>17. PinnedQuota' = [PinnedQuota EXCEPT ![<<x, i>>] = k]
  <2>1. /\ PinnedQuota' = [q \in Secrets \X Issues |-> PinnedQuota'[q]]
        /\ PinnedQuota = [q \in Secrets \X Issues |-> PinnedQuota[q]]
    BY <1>12, <1>13
  <2>. QED
    BY <1>15, <1>16, <2>1
<1>18. OTP!Issue(x, i, k, n)
  BY <1>2, <1>5, <1>7, <1>15, <1>17 DEF OTP!Issue, OTP!Passes, Passes
<1>. QED
  BY <1>3, <1>18 DEF OTP!Next, OTP!Passes, Passes

\* The service's Signers implement OneTimePass per user and lifetime: each pass
\* given out at most once, in increasing order, under the quota of the ledger.
THEOREM Refinement == Spec => ImplementsOneTimePass
<1>1. Init => OTP!Init
  <2>. SUFFICES ASSUME Init PROVE OTP!Init
    OBVIOUS
  <2>1. issued = [p \in Slots |-> 0]
    BY DEF Init
  <2>2. ASSUME NEW q \in Secrets \X Issues, NEW c \in Passes
        PROVE  ~(issued[<<q[1], q[2], c>>] > 0)
    <3>1. <<q[1], q[2], c>> \in Slots
      BY DEF Slots
    <3>2. issued[<<q[1], q[2], c>>] = 0
      BY <2>1, <3>1
    <3>. QED
      BY <3>2
  <2>3. PinnedQuota = [q \in Secrets \X Issues |-> 0]
    BY <2>2 DEF PinnedQuota
  <2>. QED
    BY <2>1, <2>3 DEF OTP!Init, OTP!Slots, OTP!Keys, OTP!Passes, Slots, Passes
<1>2. IInv /\ [Next]_vars => [OTP!Next]_<<issued, PinnedQuota>>
  <2>. SUFFICES ASSUME IInv, [Next]_vars
                PROVE  OTP!Next \/ UNCHANGED <<issued, PinnedQuota>>
    OBVIOUS
  <2>1. IInv'
    BY NextIInv
  <2>2. CASE UNCHANGED <<issued, released>>
    BY <2>1, <2>2, PinnedSame
  <2>. QED
    BY <2>1, <2>2, QuietSteps, SignIssues
<1>. QED
  BY <1>1, <1>2, Invariance, PTL DEF Spec, ImplementsOneTimePass, OTP!Spec
=============================================================================
