------------------------------- MODULE Vault -------------------------------
(***************************************************************************)
(* The encrypted signer wallet of nativeproof/vault.go: one wallet file    *)
(* shared by any number of SignerVault handles, in one process or several, *)
(* each handle used by any number of goroutines.  A Sign reserves a        *)
(* counter (read, increment, atomically replace, sync the directory) under *)
(* the handle's mutex and the wallet's flock, and only then proves.        *)
(*                                                                         *)
(* The wallet file is kept twice: "visible" is what a read sees,           *)
(* "durable" what is left of it after a power loss.  A rename changes      *)
(* only the first; syncing the directory, or the file system writing back  *)
(* when it likes, brings the second up to date.                            *)
(*                                                                         *)
(* Encryption, permissions and JSON are left out: a file is either the     *)
(* state it holds or absent.  Rolled-back and cloned wallet files are      *)
(* outside the code's promise (vault.go:3-6) and outside the model.        *)
(***************************************************************************)
EXTENDS Naturals, FiniteSets

CONSTANTS
    Workers,     \* goroutines calling the API
    Handles,     \* SignerVault objects
    Issues,      \* issue digests
    Secrets,     \* user secrets x a wallet may be created with
    MaxQuota,    \* largest k a caller passes (2^32 - 1 in the code)
    IssueLimit,  \* issues one wallet may hold (10000 in the code)
    None,        \* no worker, handle, issue or secret
    NoFile       \* the wallet file is absent

ASSUME VaultAssumption ==
    /\ MaxQuota \in Nat \ {0}
    /\ IssueLimit \in Nat \ {0}
    /\ IsFiniteSet(Issues)
    /\ None \notin Workers \cup Handles \cup Issues \cup Secrets

VARIABLES
    handle,   \* life of each SignerVault: its wrapping key is held or wiped
    mu,       \* holder of each handle's mutex
    flock,    \* holder of the wallet's exclusive flock
    visible,  \* the wallet file as the next read sees it
    durable,  \* the wallet file as it is after a power loss
    pc,       \* where each goroutine is
    call,     \* the call each goroutine is executing
    state,    \* its local copy of the wallet, as read or as created
    proofs    \* proofs[<<x, i, c>>]: how often (x, i, c) reached the prover

vars == <<handle, mu, flock, visible, durable, pc, call, state, proofs>>

-----------------------------------------------------------------------------
(* Wallet contents *)

Passes == 0 .. (MaxQuota - 1)
Slots == Secrets \X Issues \X Passes

\* An issue missing from the map reads as Go's zero value, and k = 0 is
\* refused by every check, so k = 0 stands for "no entry".
vaultCounter == [next : 0 .. MaxQuota, k : 0 .. MaxQuota]
ZeroCounter == [next |-> 0, k |-> 0]
vaultState == [x : Secrets, counters : [Issues -> vaultCounter]]

ASSUME NoFileAssumption == NoFile \notin vaultState

Known(s) == {i \in Issues : s.counters[i].k # 0}

\* What read() accepts of a decrypted file.
Readable(s) ==
    /\ Cardinality(Known(s)) <= IssueLimit
    /\ \A i \in Issues : s.counters[i].next <= s.counters[i].k

\* Mutants of MayReserve: the quota test is off by one; the pinned quota is not
\* compared; the issue limit is off by one.
MayReserveOneMore(s, i, k) ==
    /\ k # 0
    /\ i \in Known(s) => s.counters[i].k = k
    /\ s.counters[i].next <= k
    /\ i \notin Known(s) => Cardinality(Known(s)) < IssueLimit

MayReserveUnpinned(s, i, k) ==
    /\ k # 0
    /\ s.counters[i].next < k
    /\ i \notin Known(s) => Cardinality(Known(s)) < IssueLimit

MayReserveManyIssues(s, i, k) ==
    /\ k # 0
    /\ i \in Known(s) => s.counters[i].k = k
    /\ s.counters[i].next < k
    /\ i \notin Known(s) => Cardinality(Known(s)) <= IssueLimit

\* The condition under which reserveAndProve reserves a slot.
MayReserve(s, i, k) ==
    /\ k # 0
    /\ i \in Known(s) => s.counters[i].k = k
    /\ s.counters[i].next < k
    /\ i \notin Known(s) => Cardinality(Known(s)) < IssueLimit

\* The state reserveAndProve writes: the slot is consumed, the quota pinned.
Reserved(s, i, k) ==
    [s EXCEPT !.counters[i] = [next |-> s.counters[i].next + 1, k |-> k]]

EmptyWallet(x) == [x |-> x, counters |-> [i \in Issues |-> ZeroCounter]]

-----------------------------------------------------------------------------
(* Calls *)

Ops == {"create", "open", "next", "sign", "close"}
Call(op, h, i, k, x) == [op |-> op, h |-> h, issue |-> i, k |-> k, x |-> x]
Idle == Call("none", None, None, 0, None)
Calls == [op : Ops \cup {"none"}, h : Handles \cup {None},
          issue : Issues \cup {None}, k : 0 .. MaxQuota,
          x : Secrets \cup {None}]

Constructing(w) == call[w].op \in {"create", "open"}

Init ==
    /\ handle = [h \in Handles |-> "none"]
    /\ mu = [h \in Handles |-> None]
    /\ flock = None
    /\ visible = NoFile
    /\ durable = NoFile
    /\ pc = [w \in Workers |-> "idle"]
    /\ call = [w \in Workers |-> Idle]
    /\ state = [w \in Workers |-> NoFile]
    /\ proofs = [s \in Slots |-> 0]

\* A goroutine enters the API with call c.
Enter(w, c) ==
    /\ pc[w] = "idle"
    /\ pc' = [pc EXCEPT ![w] = "lock"]
    /\ call' = [call EXCEPT ![w] = c]
    /\ UNCHANGED <<mu, flock, visible, durable, state, proofs>>

\* The constructors make a fresh object that nobody else can reach yet.
Fresh(h) ==
    /\ handle[h] \in {"none", "closed"}
    /\ \A w \in Workers : call[w].h # h

CreateSignerVault(w, h, x) ==
    /\ Fresh(h)
    /\ handle' = [handle EXCEPT ![h] = "new"]
    /\ Enter(w, Call("create", h, None, 0, x))

OpenSignerVault(w, h) ==
    /\ Fresh(h)
    /\ handle' = [handle EXCEPT ![h] = "new"]
    /\ Enter(w, Call("open", h, None, 0, None))

\* The methods may be called on a handle that is, or is about to be, closed.
Method(w, c) ==
    /\ handle[c.h] \in {"open", "closed"}
    /\ UNCHANGED handle
    /\ Enter(w, c)

NextCounter(w, h, i) ==
    Method(w, Call("next", h, i, 0, None))

Sign(w, h, i, k) ==
    Method(w, Call("sign", h, i, k, None))

Close(w, h) ==
    Method(w, Call("close", h, None, 0, None))

-----------------------------------------------------------------------------
(* Leaving a call: the deferred unlock gives up the flock and the mutex; a *)
(* failing constructor also discards its handle.                           *)

Unlock(w) ==
    /\ flock' = IF flock = w THEN None ELSE flock
    /\ mu' = [h \in Handles |-> IF mu[h] = w THEN None ELSE mu[h]]

Leave(w) ==
    /\ Unlock(w)
    /\ pc' = [pc EXCEPT ![w] = "idle"]
    /\ call' = [call EXCEPT ![w] = Idle]
    /\ state' = [state EXCEPT ![w] = NoFile]

Fail(w) ==
    /\ Leave(w)
    /\ handle' = IF Constructing(w)
                 THEN [handle EXCEPT ![call[w].h] = "none"]
                 ELSE handle

Succeed(w) ==
    /\ Leave(w)
    /\ handle' = IF Constructing(w)
                 THEN [handle EXCEPT ![call[w].h] = "open"]
                 ELSE handle

-----------------------------------------------------------------------------
(* lock() and Close() *)

\* v.mu.Lock() of lock(): refused when the key has been wiped.
LockMutex(w) ==
    /\ pc[w] = "lock"
    /\ call[w].op # "close"
    /\ mu[call[w].h] = None
    /\ IF handle[call[w].h] = "closed"
       THEN Fail(w)
       ELSE /\ mu' = [mu EXCEPT ![call[w].h] = w]
            /\ pc' = [pc EXCEPT ![w] = "flock"]
            /\ UNCHANGED <<handle, flock, call, state>>
    /\ UNCHANGED <<visible, durable, proofs>>

\* Mutant of CloseHandle: the key is wiped without taking the mutex.
CloseWithoutMutex(w) ==
    /\ pc[w] = "lock"
    /\ call[w].op = "close"
    /\ handle' = [handle EXCEPT ![call[w].h] = "closed"]
    /\ Leave(w)
    /\ UNCHANGED <<visible, durable, proofs>>

\* Close() wipes the key under the same mutex.
CloseHandle(w) ==
    /\ pc[w] = "lock"
    /\ call[w].op = "close"
    /\ mu[call[w].h] = None
    /\ handle' = [handle EXCEPT ![call[w].h] = "closed"]
    /\ Leave(w)
    /\ UNCHANGED <<visible, durable, proofs>>

\* The lock file cannot be opened, or flock fails.
LockFails(w) ==
    /\ pc[w] = "flock"
    /\ Fail(w)
    /\ UNCHANGED <<visible, durable, proofs>>

\* Mutant of LockFile: only the handle's own mutex is taken.
LockFileUnguarded(w) ==
    /\ pc[w] = "flock"
    /\ flock' = w
    /\ IF call[w].op = "create"
       THEN /\ pc' = [pc EXCEPT ![w] = "write"]
            /\ state' = [state EXCEPT ![w] = EmptyWallet(call[w].x)]
       ELSE /\ pc' = [pc EXCEPT ![w] = "read"]
            /\ UNCHANGED state
    /\ UNCHANGED <<handle, mu, visible, durable, call, proofs>>

\* flock(LOCK_EX) is granted; create goes straight to write().
LockFile(w) ==
    /\ pc[w] = "flock"
    /\ flock = None
    /\ flock' = w
    /\ IF call[w].op = "create"
       THEN /\ pc' = [pc EXCEPT ![w] = "write"]
            /\ state' = [state EXCEPT ![w] = EmptyWallet(call[w].x)]
       ELSE /\ pc' = [pc EXCEPT ![w] = "read"]
            /\ UNCHANGED state
    /\ UNCHANGED <<handle, mu, visible, durable, call, proofs>>

-----------------------------------------------------------------------------
(* read() and what follows it *)

\* Mutant of ReadFails: an error return that unlocks the mutex and leaves the lock
\* file's descriptor open, and with it the flock.
ReadFailsLocked(w) ==
    /\ pc[w] = "read"
    /\ mu' = [h \in Handles |-> IF mu[h] = w THEN None ELSE mu[h]]
    /\ handle' = IF Constructing(w)
                 THEN [handle EXCEPT ![call[w].h] = "none"]
                 ELSE handle
    /\ pc' = [pc EXCEPT ![w] = "idle"]
    /\ call' = [call EXCEPT ![w] = Idle]
    /\ UNCHANGED <<flock, visible, durable, state, proofs>>

\* The file is missing or rejected, or any input error.
ReadFails(w) ==
    /\ pc[w] = "read"
    /\ Fail(w)
    /\ UNCHANGED <<visible, durable, proofs>>

\* Open and NextCounter return once the file has been read; a Sign goes on
\* to write(), or is refused for its quota or the issue limit.
Read(w) ==
    /\ pc[w] = "read"
    /\ visible # NoFile
    /\ Readable(visible)
    /\ \/ /\ call[w].op # "sign"
          /\ Succeed(w)
       \/ /\ call[w].op = "sign"
          /\ ~MayReserve(visible, call[w].issue, call[w].k)
          /\ Fail(w)
       \/ /\ call[w].op = "sign"
          /\ MayReserve(visible, call[w].issue, call[w].k)
          /\ state' = [state EXCEPT ![w] = visible]
          /\ pc' = [pc EXCEPT ![w] = "write"]
          /\ UNCHANGED <<handle, mu, flock, call>>
    /\ UNCHANGED <<visible, durable, proofs>>

-----------------------------------------------------------------------------
(* write() *)

\* Nothing has replaced the wallet yet: temporary file, sync, rename or link
\* failed (a link fails whenever the wallet exists).
WriteFails(w) ==
    /\ pc[w] = "write"
    /\ Fail(w)
    /\ UNCHANGED <<visible, durable, proofs>>

\* Mutant of Replace: a new wallet is renamed into place, too.
ReplaceAlways(w) ==
    /\ pc[w] = "write"
    /\ \/ /\ call[w].op = "create"
          /\ visible' = state[w]
       \/ /\ call[w].op = "sign"
          /\ visible' = Reserved(state[w], call[w].issue, call[w].k)
    /\ pc' = [pc EXCEPT ![w] = "sync"]
    /\ UNCHANGED <<handle, mu, flock, durable, call, state, proofs>>

\* os.Link for a new wallet, os.Rename for an existing one.
Replace(w) ==
    /\ pc[w] = "write"
    /\ \/ /\ call[w].op = "create"
          /\ visible = NoFile
          /\ visible' = state[w]
       \/ /\ call[w].op = "sign"
          /\ visible' = Reserved(state[w], call[w].issue, call[w].k)
    /\ pc' = [pc EXCEPT ![w] = "sync"]
    /\ UNCHANGED <<handle, mu, flock, durable, call, state, proofs>>

\* The directory cannot be opened or synced: the new file stays visible.
SyncFails(w) ==
    /\ pc[w] = "sync"
    /\ Fail(w)
    /\ UNCHANGED <<visible, durable, proofs>>

\* Mutant of SyncDirectory: the directory is not synced after the rename.
SyncSkipped(w) ==
    /\ pc[w] = "sync"
    /\ \/ /\ call[w].op = "create"
          /\ Succeed(w)
       \/ /\ call[w].op = "sign"
          /\ pc' = [pc EXCEPT ![w] = "prove"]
          /\ UNCHANGED <<handle, mu, flock, call, state>>
    /\ UNCHANGED <<visible, durable, proofs>>

\* dir.Sync() succeeded: create is done, a Sign may prove.
SyncDirectory(w) ==
    /\ pc[w] = "sync"
    /\ durable' = visible
    /\ \/ /\ call[w].op = "create"
          /\ Succeed(w)
       \/ /\ call[w].op = "sign"
          /\ pc' = [pc EXCEPT ![w] = "prove"]
          /\ UNCHANGED <<handle, mu, flock, call, state>>
    /\ UNCHANGED <<visible, proofs>>

-----------------------------------------------------------------------------
(* prove(x, counter.Next), still under the lock *)

ProofSlot(w) ==
    <<state[w].x, call[w].issue, state[w].counters[call[w].issue].next>>

Prove(w) ==
    /\ pc[w] = "prove"
    /\ proofs' = [proofs EXCEPT ![ProofSlot(w)] = @ + 1]
    /\ Succeed(w)
    /\ UNCHANGED <<visible, durable>>

\* MakeStatement or the prover fails: the reserved slot is burned.
ProveFails(w) ==
    /\ pc[w] = "prove"
    /\ Fail(w)
    /\ UNCHANGED <<visible, durable, proofs>>

-----------------------------------------------------------------------------
(* The world *)

\* The process that owns handle h dies.  Its flock goes with its descriptors
\* and the visible file stays.  A process with several handles dies in
\* several of these steps.
Kill(h) ==
    LET dead == {w \in Workers : call[w].h = h} IN
    /\ handle[h] # "none"
    /\ handle' = [handle EXCEPT ![h] = "none"]
    /\ mu' = [mu EXCEPT ![h] = None]
    /\ flock' = IF flock \in dead THEN None ELSE flock
    /\ pc' = [w \in Workers |-> IF w \in dead THEN "idle" ELSE pc[w]]
    /\ call' = [w \in Workers |-> IF w \in dead THEN Idle ELSE call[w]]
    /\ state' = [w \in Workers |-> IF w \in dead THEN NoFile ELSE state[w]]
    /\ UNCHANGED <<visible, durable, proofs>>

\* The machine stops: every process dies and the file reverts to what is
\* on disk.
PowerLoss ==
    /\ handle' = [h \in Handles |-> "none"]
    /\ mu' = [h \in Handles |-> None]
    /\ flock' = None
    /\ visible' = durable
    /\ pc' = [w \in Workers |-> "idle"]
    /\ call' = [w \in Workers |-> Idle]
    /\ state' = [w \in Workers |-> NoFile]
    /\ UNCHANGED <<durable, proofs>>

\* The file system may write the directory back at any time.
Writeback ==
    /\ durable' = visible
    /\ UNCHANGED <<handle, mu, flock, visible, pc, call, state, proofs>>

-----------------------------------------------------------------------------

\* What a goroutine does by itself once it is scheduled.  A blocked flock(LOCK_EX)
\* waits until it is granted: that it fails instead is possible, never due.
Proceed(w) ==
    \/ LockMutex(w) \/ CloseHandle(w) \/ LockFile(w)
    \/ Read(w) \/ ReadFails(w)
    \/ Replace(w) \/ WriteFails(w) \/ SyncDirectory(w) \/ SyncFails(w)
    \/ Prove(w) \/ ProveFails(w)

Step(w) == Proceed(w) \/ LockFails(w)

Request(w) ==
    \E h \in Handles :
        \/ OpenSignerVault(w, h)
        \/ Close(w, h)
        \/ \E x \in Secrets : CreateSignerVault(w, h, x)
        \/ \E i \in Issues :
              \/ NextCounter(w, h, i)
              \/ \E k \in 0 .. MaxQuota : Sign(w, h, i, k)

Next ==
    \/ \E w \in Workers : Step(w) \/ Request(w)
    \/ \E h \in Handles : Kill(h)
    \/ PowerLoss
    \/ Writeback

Spec == Init /\ [][Next]_vars

\* A goroutine whose next step stays possible is eventually scheduled.  A lock
\* that is free only now and then may be won by others for ever: nothing in
\* flock(2) promises a fair queue; and a lock that nobody gives up is waited for
\* for ever.
FairSpec == Spec /\ \A w \in Workers : WF_vars(Proceed(w))

-----------------------------------------------------------------------------
(* Properties *)

PCs == {"idle", "lock", "flock", "read", "write", "sync", "prove"}

\* Type invariant of the wallet, its handles and the calls in progress.
TypeOK ==
    /\ handle \in [Handles -> {"none", "new", "open", "closed"}]
    /\ mu \in [Handles -> Workers \cup {None}]
    /\ flock \in Workers \cup {None}
    /\ visible \in vaultState \cup {NoFile}
    /\ durable \in vaultState \cup {NoFile}
    /\ pc \in [Workers -> PCs]
    /\ call \in [Workers -> Calls]
    /\ state \in [Workers -> vaultState \cup {NoFile}]
    /\ proofs \in [Slots -> Nat]

\* No counter of a secret and an issue ever reaches the prover twice
\* (reserveAndProve): not from two goroutines, two handles or two processes,
\* nor across failures at any step, kills and power losses.
NoSlotTwice == \A s \in Slots : proofs[s] <= 1

\* Whatever was proved is burned on disk: after any power loss the wallet that
\* comes back has the same secret and a next counter above every counter
\* proved ("Reserve and sync BEFORE releasing a proof", vault.go:260).
ProofsAreBurned ==
    \A x \in Secrets, i \in Issues, c \in Passes :
        proofs[<<x, i, c>>] > 0 =>
            /\ durable # NoFile
            /\ durable.x = x
            /\ c < durable.counters[i].next

\* The wallet never writes a file its own read() would refuse (counter above
\* quota, too many issues), in memory or on disk: it cannot lock itself out.
NeverUnreadable ==
    /\ visible # NoFile => Readable(visible)
    /\ durable # NoFile => Readable(durable)

\* Close() wipes the wrapping key only when no call is using it: a call that
\* got past lock() finds the key until it is done.
KeyHeldWhileInUse ==
    \A w \in Workers :
        pc[w] \in {"flock", "read", "write", "sync", "prove"} =>
            handle[call[w].h] # "closed"

\* Short of a power loss the wallet file only moves forward: it is not removed
\* or replaced by another wallet, no counter goes back and no pinned quota
\* changes (write with link for create, rename for a reservation).
Advances(old, new) ==
    old # NoFile =>
        /\ new # NoFile
        /\ new.x = old.x
        /\ \A i \in Issues :
              /\ new.counters[i].next >= old.counters[i].next
              /\ old.counters[i].k # 0 => new.counters[i].k = old.counters[i].k

OnlyForward == [][~PowerLoss => Advances(visible, visible')]_vars

\* The wallet implements the one-time passes of OneTimePass, the pinned quota
\* being the one on disk once a proof has been made.
PinnedQuota ==
    [p \in Secrets \X Issues |->
        IF \E c \in Passes : proofs[<<p[1], p[2], c>>] > 0
        THEN durable.counters[p[2]].k
        ELSE 0]

OTP == INSTANCE OneTimePass WITH issued <- proofs, quota <- PinnedQuota

ImplementsOneTimePass == OTP!Spec

\* If callers stop calling, every call in progress returns: no error path of
\* lock(), read(), write() or the prover keeps the mutex or the flock.
CallsDrain ==
    <>[][\A w \in Workers : ~Request(w)]_vars
        => <>[](\A w \in Workers : pc[w] = "idle")

=============================================================================
