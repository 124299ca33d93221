------------------------------ MODULE Service ------------------------------
(***************************************************************************)
(* The stdio proof service of nativeproof/service.go with a persistent     *)
(* ledger (LKTRS_STATE_PATH), over its whole life: requests, failing       *)
(* writes, crashes, power losses and restarts.                             *)
(*                                                                         *)
(* Handle() runs under the service's mutex, so one request is one action.  *)
(* Its last step is persistState(), which may fail before the ledger file  *)
(* is replaced, after that, or not at all (Outcomes).  A request that is   *)
(* refused before it changes anything is a stuttering step and has no      *)
(* action.  Keys are fresh random values: a user's secret is the user and  *)
(* the process lifetime it was drawn in.                                   *)
(*                                                                         *)
(* One statement has many proofs, since proving is randomised; an envelope *)
(* is a signature with one of its proofs.  verify() consumes envelopes,    *)
(* and takes two proofs of one statement for two of them.                  *)
(***************************************************************************)
EXTENDS Naturals, FiniteSets, Sequences

CONSTANTS
    Users,        \* user names a request may give
    Blank,        \* the user name that is only white space
    Accounts,     \* account names
    Issues,       \* issue digests
    Proofs,       \* the different proofs of one statement
    MaxQuota,     \* largest k of a request (2^32 - 1 in the code)
    MaxCapacity,  \* largest ring capacity of a setup (65536 in the code)
    MaxLives,     \* process lifetimes considered
    MaxReports,   \* answers verified = true considered
    None          \* no user

ASSUME ServiceAssumption ==
    /\ MaxQuota \in Nat \ {0}
    /\ MaxCapacity \in Nat \ {0}
    /\ MaxLives \in Nat \ {0}
    /\ MaxReports \in Nat
    /\ Blank \in Users
    /\ None \notin Users
    /\ IsFiniteSet(Accounts)

VARIABLES
    life,        \* how often the service has been started
    running,     \* whether it is up
    capacity,    \* s.params, 0 while s.prover is nil
    users,       \* users with a Signer
    next,        \* next[u][i]: the Signer's counter
    accounts,    \* accounts[a]: the user a registered account belongs to
    active,      \* accounts in the current ring
    mem,         \* s.policies, s.revoked and s.seen
    visible,     \* the ledger file as the next start reads it
    durable,     \* the ledger file as it is after a power loss
    issued,      \* issued[slot]: signatures given out for a one-time pass
    released,    \* every signature ever given out
    ackRevoked,  \* users whose revocation was answered ok
    accepted,    \* envelopes whose verify was answered ok
    reports      \* the envelopes for which verify answered verified = true, in order

memory == <<capacity, users, next, accounts, active, mem>>
files == <<visible, durable>>
history == <<issued, released, ackRevoked, accepted, reports>>
vars == <<life, running, memory, files, history>>

-----------------------------------------------------------------------------
(* Signatures and the ledger *)

Lives == 1 .. MaxLives
Secrets == Users \X Lives
Passes == 0 .. (MaxQuota - 1)
Slots == Secrets \X Issues \X Passes

\* What a signature is made of, as far as any check of it goes.
Signature == [x : Secrets, issue : Issues, c : Passes, k : 1 .. MaxQuota,
              ring : SUBSET Accounts]
SlotOf(s) == <<s.x, s.issue, s.c>>

\* MarshalSigned: the statement with its proof, which the ledger knows by its digest.
Envelope == [signed : Signature, proof : Proofs]

\* policies[i] = 0 stands for an issue without a policy.
durableServiceState == [policies : [Issues -> 0 .. MaxQuota],
                        revoked : SUBSET Users,
                        seen : SUBSET Envelope]
EmptyState == [policies |-> [i \in Issues |-> 0], revoked |-> {}, seen |-> {}]

\* What loadState() accepts.
Loadable(state) == Blank \notin state.revoked

Outcomes == {"synced", "renamed", "failed"}

\* Mutant of persistState: success is reported without syncing the directory.
persistUnsynced(state, o) ==
    /\ visible' = IF o = "failed" THEN visible ELSE state
    /\ UNCHANGED durable

\* persistState() of the ledger as this request leaves it.  Only "synced" is
\* answered ok.  The directory of the ledger is taken to be there: the entry of one
\* that MkdirAll makes is never synced (service.go:160).
persistState(state, o) ==
    /\ visible' = IF o = "failed" THEN visible ELSE state
    /\ durable' = IF o = "synced" THEN state ELSE durable

-----------------------------------------------------------------------------

ForgetMemory ==
    /\ capacity' = 0
    /\ users' = {}
    /\ next' = [u \in Users |-> [i \in Issues |-> 0]]
    /\ accounts' = [a \in Accounts |-> None]
    /\ active' = {}

Init ==
    /\ life = 0
    /\ running = FALSE
    /\ capacity = 0
    /\ users = {}
    /\ next = [u \in Users |-> [i \in Issues |-> 0]]
    /\ accounts = [a \in Accounts |-> None]
    /\ active = {}
    /\ mem = EmptyState
    /\ visible = EmptyState
    /\ durable = EmptyState
    /\ issued = [s \in Slots |-> 0]
    /\ released = {}
    /\ ackRevoked = {}
    /\ accepted = {}
    /\ reports = <<>>

\* NewPersistentService: a missing file is an empty ledger.
NewPersistentService ==
    /\ ~running
    /\ life < MaxLives
    /\ Loadable(visible)
    /\ life' = life + 1
    /\ running' = TRUE
    /\ mem' = visible
    /\ ForgetMemory
    /\ UNCHANGED <<files, history>>

\* LoadSetup: artifacts from disk; nothing is persisted.
LoadSetup(n) ==
    /\ running
    /\ capacity = 0
    /\ capacity' = n
    /\ UNCHANGED <<life, running, users, next, accounts, active, mem, files,
                   history>>

\* setup: a failing persistState() leaves the setup completed.
setup(n, o) ==
    /\ running
    /\ capacity = 0
    /\ capacity' = n
    /\ persistState(mem, o)
    /\ UNCHANGED <<life, running, users, next, accounts, active, mem, history>>

\* Every other request needs a completed setup.
Ready == running /\ capacity # 0

\* Mutant of keygen: the user name is not checked.
keygenUnchecked(u, a, o) ==
    /\ Ready
    /\ accounts[a] = None
    /\ u \notin mem.revoked
    /\ users' = users \cup {u}
    /\ accounts' = IF o = "synced" THEN [accounts EXCEPT ![a] = u] ELSE accounts
    /\ persistState(mem, o)
    /\ UNCHANGED <<life, running, capacity, next, active, mem, history>>

\* Mutant of keygen: every account gets a Signer of its own, with the user's
\* secret.
keygenNewSigner(u, a, o) ==
    /\ Ready
    /\ u # Blank
    /\ accounts[a] = None
    /\ u \notin mem.revoked
    /\ users' = users \cup {u}
    /\ next' = [next EXCEPT ![u] = [i \in Issues |-> 0]]
    /\ accounts' = IF o = "synced" THEN [accounts EXCEPT ![a] = u] ELSE accounts
    /\ persistState(mem, o)
    /\ UNCHANGED <<life, running, capacity, active, mem, history>>

\* keygen: a failing persistState() takes the account back, not the Signer.
keygen(u, a, o) ==
    /\ Ready
    /\ u # Blank
    /\ accounts[a] = None
    /\ u \notin mem.revoked
    /\ users' = users \cup {u}
    /\ accounts' = IF o = "synced" THEN [accounts EXCEPT ![a] = u] ELSE accounts
    /\ persistState(mem, o)
    /\ UNCHANGED <<life, running, capacity, next, active, mem, history>>

\* NewSnapshot accepts a ring that the powers of the setup can accumulate.
NewSnapshot(ring) == Cardinality(ring) <= capacity

\* Mutant of join: the tombstone is not looked at.
joinRevoked(a, o) ==
    /\ Ready
    /\ accounts[a] # None
    /\ NewSnapshot(active)
    /\ a \notin active
    /\ NewSnapshot(active \cup {a})
    /\ active' = active \cup {a}
    /\ persistState(mem, o)
    /\ UNCHANGED <<life, running, capacity, users, next, accounts, mem, history>>

\* join: the ring keeps the account even when persistState() fails.
join(a, o) ==
    /\ Ready
    /\ accounts[a] # None
    /\ NewSnapshot(active)
    /\ accounts[a] \notin mem.revoked
    /\ a \notin active
    /\ NewSnapshot(active \cup {a})
    /\ active' = active \cup {a}
    /\ persistState(mem, o)
    /\ UNCHANGED <<life, running, capacity, users, next, accounts, mem, history>>

\* exit, likewise.
exit(a, o) ==
    /\ Ready
    /\ accounts[a] # None
    /\ NewSnapshot(active)
    /\ a \in active
    /\ active' = active \ {a}
    /\ persistState(mem, o)
    /\ UNCHANGED <<life, running, capacity, users, next, accounts, mem, history>>

\* Mutant of revoke_user: the accounts stay in the ring.
revokeNameOnly(u, o) ==
    /\ Ready
    /\ u \in users
    /\ mem' = [mem EXCEPT !.revoked = @ \cup {u}]
    /\ persistState(mem', o)
    /\ ackRevoked' = IF o = "synced" THEN ackRevoked \cup {u} ELSE ackRevoked
    /\ UNCHANGED <<life, running, capacity, users, next, accounts, active, issued,
                   released, accepted, reports>>

\* revoke_user: in memory the tombstone stands even when persistState() fails.
revoke_user(u, o) ==
    /\ Ready
    /\ u \in users
    /\ active' = {a \in active : accounts[a] # u}
    /\ mem' = [mem EXCEPT !.revoked = @ \cup {u}]
    /\ persistState(mem', o)
    /\ ackRevoked' = IF o = "synced" THEN ackRevoked \cup {u} ELSE ackRevoked
    /\ UNCHANGED <<life, running, capacity, users, next, accounts, issued,
                   released, accepted, reports>>

-----------------------------------------------------------------------------
(* sign *)

\* Mutant of policy: the pinned quota is not compared.
policyUnpinned(i, k, create) ==
    /\ k # 0
    /\ mem.policies[i] # 0 \/ create

policy(i, k, create) ==
    /\ k # 0
    /\ IF mem.policies[i] # 0 THEN mem.policies[i] = k ELSE create

\* NewVerificationContext also wants a ring that is not empty.
NewVerificationContext(ring) == ring # {} /\ NewSnapshot(ring)

\* Mutant of SignerSign: the quota test is off by one.
SignerSignOneMore(u, i, k) ==
    /\ next[u][i] <= k
    /\ next' = [next EXCEPT ![u][i] = @ + 1]

\* Signer.Sign has a pass left and the prover succeeds; the Signer's counter
\* moves on and stays there whatever happens next.
SignerSign(u, i, k) ==
    /\ next[u][i] < k
    /\ next' = [next EXCEPT ![u][i] = @ + 1]

SignRequest(a, i, k) ==
    /\ Ready
    /\ policy(i, k, TRUE)
    /\ NewVerificationContext(active)
    /\ a \in active
    /\ SignerSign(accounts[a], i, k)
    /\ UNCHANGED <<life, running, capacity, users, accounts, active, ackRevoked,
                   accepted, reports>>

\* MarshalSigned fails: the pass is spent, the policy is not pinned.
SignUnmarshalled(a, i, k) ==
    /\ SignRequest(a, i, k)
    /\ UNCHANGED <<mem, files, issued, released>>

SignedBy(a, i, k) ==
    [x |-> <<accounts[a], life>>, issue |-> i, c |-> next[accounts[a]][i],
     k |-> k, ring |-> active]

\* The signature leaves the service only with its policy saved.
sign(a, i, k, o) ==
    /\ SignRequest(a, i, k)
    /\ mem' = [mem EXCEPT !.policies[i] = k]
    /\ persistState(mem', o)
    /\ IF o = "synced"
       THEN LET s == SignedBy(a, i, k) IN
               /\ released' = released \cup {s}
               /\ issued' = [issued EXCEPT ![SlotOf(s)] = @ + 1]
       ELSE UNCHANGED <<issued, released>>

-----------------------------------------------------------------------------
(* verify *)

\* Verifier.Verify in the context of the current ring: only a ring of this
\* life and of these very accounts has the digest the signature carries.
Verifies(s) == s.x[2] = life /\ s.ring = active

\* Mutant of verify: consumed envelopes are not looked up.
verifyAgain(e, o) ==
    /\ Ready
    /\ policy(e.signed.issue, e.signed.k, FALSE)
    /\ NewVerificationContext(active)
    /\ Verifies(e.signed)
    /\ mem' = [mem EXCEPT !.seen = @ \cup {e}]
    /\ reports' = Append(reports, e)
    /\ persistState(mem', o)
    /\ accepted' = IF o = "synced" THEN accepted \cup {e} ELSE accepted
    /\ UNCHANGED <<life, running, capacity, users, next, accounts, active, issued,
                   released, ackRevoked>>

\* verify: when persistState() fails the answer still says verified = true,
\* and the envelope stays consumed.
verify(e, o) ==
    /\ Ready
    /\ policy(e.signed.issue, e.signed.k, FALSE)
    /\ NewVerificationContext(active)
    /\ e \notin mem.seen
    /\ Verifies(e.signed)
    /\ mem' = [mem EXCEPT !.seen = @ \cup {e}]
    /\ reports' = Append(reports, e)
    /\ persistState(mem', o)
    /\ accepted' = IF o = "synced" THEN accepted \cup {e} ELSE accepted
    /\ UNCHANGED <<life, running, capacity, users, next, accounts, active, issued,
                   released, ackRevoked>>

-----------------------------------------------------------------------------
(* The world *)

\* The process ends, at the latest when its input does.
Stop ==
    /\ running
    /\ running' = FALSE
    /\ mem' = EmptyState
    /\ ForgetMemory
    /\ UNCHANGED <<life, files, history>>

PowerLoss ==
    /\ running' = FALSE
    /\ mem' = EmptyState
    /\ ForgetMemory
    /\ visible' = durable
    /\ UNCHANGED <<life, durable, history>>

\* The file system may write the directory back at any time.
Writeback ==
    /\ durable' = visible
    /\ UNCHANGED <<life, running, memory, visible, history>>

-----------------------------------------------------------------------------

Request(o) ==
    \/ \E n \in 1 .. MaxCapacity : setup(n, o)
    \/ \E u \in Users, a \in Accounts : keygen(u, a, o)
    \/ \E a \in Accounts : join(a, o) \/ exit(a, o)
    \/ \E u \in Users : revoke_user(u, o)
    \/ \E a \in Accounts, i \in Issues, k \in 0 .. MaxQuota : sign(a, i, k, o)
    \/ /\ Len(reports) < MaxReports
       /\ \E e \in [signed : released, proof : Proofs] : verify(e, o)

Next ==
    \/ NewPersistentService
    \/ \E n \in 1 .. MaxCapacity : LoadSetup(n)
    \/ \E o \in Outcomes : Request(o)
    \/ \E a \in Accounts, i \in Issues, k \in 0 .. MaxQuota :
          SignUnmarshalled(a, i, k)
    \/ Stop
    \/ PowerLoss
    \/ Writeback

Spec == Init /\ [][Next]_vars

-----------------------------------------------------------------------------
(* Properties *)

\* Type invariant of the service's memory, its ledger file and the history.
TypeOK ==
    /\ life \in 0 .. MaxLives
    /\ running \in BOOLEAN
    /\ capacity \in 0 .. MaxCapacity
    /\ users \subseteq Users
    /\ next \in [Users -> [Issues -> 0 .. MaxQuota]]
    /\ accounts \in [Accounts -> Users \cup {None}]
    /\ active \subseteq Accounts
    /\ {mem, visible, durable} \subseteq durableServiceState
    /\ issued \in [Slots -> Nat]
    /\ released \subseteq Signature
    /\ ackRevoked \subseteq Users
    /\ accepted \subseteq Envelope
    /\ reports \in Seq(Envelope)

\* The current ring can be used by every later request: its accounts are
\* registered, belong to nobody revoked and fit the setup (join, revoke_user).
RingSound ==
    /\ \A a \in active : accounts[a] \in users \ mem.revoked
    /\ NewSnapshot(active)

\* Whatever was answered ok survives every crash and power loss: revocations,
\* consumed envelopes and the quota of every signature given out
\* (persistState before the answer).
AcksAreDurable ==
    /\ ackRevoked \subseteq durable.revoked
    /\ accepted \subseteq durable.seen
    /\ \A s \in released : durable.policies[s.issue] = s.k

\* All signatures ever given out for an issue, over all lifetimes and users,
\* carry one and the same quota ("pins k on first signing", service.go:552).
OneQuotaPerIssue ==
    \A s, t \in released : s.issue = t.issue => s.k = t.k

\* An envelope is reported as verified at most once, over failing writes, power
\* losses that take its record away, and restarts, whether or not the answer also
\* carried a persistence error (verify and s.seen).  It is a promise about
\* envelopes, not about passes: another proof of the same statement is another
\* envelope ("independently randomized proofs are not deduplicated",
\* nativeproof/README.md:67).
VerifiedOnce == \A m, n \in DOMAIN reports : reports[m] = reports[n] => m = n

\* After a revocation nothing the revoked user ever signed verifies against
\* the current ring, whatever joins and exits follow (revoke_user, join).
RevokedNeverVerifies ==
    \A s \in released : s.x[1] \in mem.revoked => ~Verifies(s)

\* The ledger file can always be loaded again: no sequence of requests leaves
\* a service that cannot be restarted (loadState against persistState).
AlwaysRestartable == Loadable(visible) /\ Loadable(durable)

\* The signers of the service implement the one-time passes of OneTimePass,
\* per user and lifetime; the pinned quota is the one in the ledger.
PinnedQuota ==
    [p \in Secrets \X Issues |->
        IF \E c \in Passes : issued[<<p[1], p[2], c>>] > 0
        THEN durable.policies[p[2]]
        ELSE 0]

OTP == INSTANCE OneTimePass WITH quota <- PinnedQuota

ImplementsOneTimePass == OTP!Spec

\* "mutate current public ring atomically" (nativeproof/README.md:36): a join or
\* exit that is answered with an error leaves the ring as it was.
RingOpsAtomic ==
    [][\A a \in Accounts, o \in Outcomes \ {"synced"} :
          join(a, o) \/ exit(a, o) => active' = active]_vars

=============================================================================
