---------------------------- MODULE VaultProofs ----------------------------
(***************************************************************************)
(* Proofs about Vault for any number of callers, handles, issues and       *)
(* secrets, any quota and any issue limit.                                 *)
(***************************************************************************)
EXTENDS Vault, FiniteSetTheorems, TLAPS

Critical == {"read", "write", "sync", "prove"}

\* The flock and the mutexes are held by exactly the calls past them.
LockInv ==
    /\ \A w \in Workers : flock = w <=> pc[w] \in Critical
    /\ \A w \in Workers, h \in Handles :
          mu[h] = w <=> call[w].h = h /\ pc[w] \in Critical \cup {"flock"}

\* What a call knows about its own arguments.
CallInv ==
    \A w \in Workers :
        /\ pc[w] = "idle" => call[w] = Idle
        /\ pc[w] # "idle" => call[w].h \in Handles /\ call[w].op \in Ops
        /\ call[w].op = "create" => call[w].x \in Secrets
        /\ call[w].op = "sign" => call[w].issue \in Issues
        /\ pc[w] = "flock" => call[w].op # "close"
        /\ pc[w] = "read" => call[w].op \in {"open", "next", "sign"}
        /\ pc[w] \in {"write", "sync"} => call[w].op \in {"create", "sign"}
        /\ pc[w] = "prove" => call[w].op = "sign"

\* What a writing call knows about the file while it holds the flock: its local
\* copy is the file it read, then the file it read is one reservation behind,
\* and when it proves the reservation is on disk.
WriterInv ==
    \A w \in Workers :
        /\ pc[w] = "write" /\ call[w].op = "create" =>
              state[w] = EmptyWallet(call[w].x)
        /\ pc[w] \in {"write", "sync", "prove"} /\ call[w].op = "sign" =>
              /\ state[w] \in vaultState
              /\ Readable(state[w])
              /\ MayReserve(state[w], call[w].issue, call[w].k)
        /\ pc[w] = "write" /\ call[w].op = "sign" => visible = state[w]
        /\ pc[w] \in {"sync", "prove"} /\ call[w].op = "sign" =>
              visible = Reserved(state[w], call[w].issue, call[w].k)
        /\ pc[w] = "sync" => visible # NoFile
        /\ pc[w] = "prove" => durable = visible

\* The slot a call is about to prove lies above everything proved before.
SlotInv ==
    \A w \in Workers, x \in Secrets, c \in Passes :
        /\ pc[w] \in {"write", "sync", "prove"}
        /\ call[w].op = "sign"
        /\ proofs[<<x, call[w].issue, c>>] > 0
        => c < state[w].counters[call[w].issue].next

IInv ==
    /\ TypeOK
    /\ LockInv
    /\ CallInv
    /\ WriterInv
    /\ NeverUnreadable
    /\ Advances(durable, visible)
    /\ ProofsAreBurned
    /\ SlotInv
    /\ NoSlotTwice
    /\ KeyHeldWhileInUse

-----------------------------------------------------------------------------
(* Wallet contents *)

\* A fresh wallet is well formed.
LEMMA EmptyWalletFacts ==
  ASSUME NEW x \in Secrets
  PROVE  /\ EmptyWallet(x) \in vaultState
         /\ Readable(EmptyWallet(x))
<1>1. EmptyWallet(x) \in vaultState
  BY VaultAssumption DEF EmptyWallet, vaultState, vaultCounter, ZeroCounter
<1>2. Known(EmptyWallet(x)) = {}
  BY DEF Known, EmptyWallet, ZeroCounter
<1>3. Cardinality(Known(EmptyWallet(x))) <= IssueLimit
  BY <1>2, FS_EmptySet, VaultAssumption
<1>. QED
  BY <1>1, <1>3 DEF Readable, EmptyWallet, ZeroCounter

\* A reservation consumes exactly one slot, keeps the wallet readable and only
\* moves it forward.
LEMMA ReservedFacts ==
  ASSUME NEW s \in vaultState, NEW i \in Issues, NEW k \in 0 .. MaxQuota,
         Readable(s), MayReserve(s, i, k)
  PROVE  /\ Reserved(s, i, k) \in vaultState
         /\ Readable(Reserved(s, i, k))
         /\ Advances(s, Reserved(s, i, k))
         /\ Reserved(s, i, k).x = s.x
         /\ Reserved(s, i, k).counters[i].next = s.counters[i].next + 1
         /\ Reserved(s, i, k).counters[i].k = k
         /\ s.counters[i].next \in Passes
         /\ s.counters[i].next < k
<1>. DEFINE r == Reserved(s, i, k)
<1>1. /\ s.x \in Secrets
      /\ s.counters \in [Issues -> vaultCounter]
  BY DEF vaultState
<1>2. /\ s.counters[i].next \in 0 .. MaxQuota
      /\ s.counters[i].k \in 0 .. MaxQuota
      /\ s.counters[i].next < k
      /\ k # 0
      /\ i \in Known(s) => s.counters[i].k = k
  BY <1>1 DEF vaultCounter, MayReserve
<1>3. s.counters[i].next \in Passes
  BY <1>2, VaultAssumption DEF Passes
<1>4. [next |-> s.counters[i].next + 1, k |-> k] \in vaultCounter
  BY <1>2, VaultAssumption DEF vaultCounter
<1>5. /\ r \in vaultState
      /\ r.x = s.x
      /\ r.counters = [s.counters EXCEPT ![i] =
                          [next |-> s.counters[i].next + 1, k |-> k]]
  BY <1>1, <1>4 DEF Reserved, vaultState
<1>6. /\ r.counters[i].next = s.counters[i].next + 1
      /\ r.counters[i].k = k
      /\ \A j \in Issues \ {i} : r.counters[j] = s.counters[j]
  BY <1>1, <1>5
<1>7. Known(r) = Known(s) \cup {i}
  BY <1>2, <1>6 DEF Known
<1>8. IsFiniteSet(Known(s))
  BY VaultAssumption, FS_Subset DEF Known
<1>9. Cardinality(Known(r)) <= IssueLimit
  <2>1. CASE i \in Known(s)
    BY <1>7, <2>1, Known(r) = Known(s) DEF Readable
  <2>2. CASE i \notin Known(s)
    <3>1. Cardinality(Known(r)) = Cardinality(Known(s)) + 1
      BY <1>7, <1>8, <2>2, FS_AddElement
    <3>2. Cardinality(Known(s)) \in Nat
      BY <1>8, FS_CardinalityType
    <3>3. Cardinality(Known(s)) < IssueLimit
      BY <2>2 DEF MayReserve
    <3>. QED
      BY <3>1, <3>2, <3>3, VaultAssumption
  <2>. QED
    BY <2>1, <2>2
<1>10. \A j \in Issues : r.counters[j].next <= r.counters[j].k
  BY <1>2, <1>6 DEF Readable
<1>11. Readable(r)
  BY <1>9, <1>10 DEF Readable
<1>12. Advances(s, r)
  <2>1. r # NoFile
    BY <1>5, NoFileAssumption
  <2>2. ASSUME NEW j \in Issues
        PROVE  /\ r.counters[j].next >= s.counters[j].next
               /\ s.counters[j].k # 0 => r.counters[j].k = s.counters[j].k
    <3>1. s.counters[j].next \in Nat
      BY <1>1 DEF vaultCounter
    <3>. QED
      BY <1>2, <1>6, <3>1 DEF Known
  <2>. QED
    BY <1>5, <2>1, <2>2 DEF Advances
<1>. QED
  BY <1>2, <1>3, <1>5, <1>6, <1>11, <1>12

\* Moving forward is a preorder on wallet files.
LEMMA AdvancesPreorder ==
  ASSUME NEW a \in vaultState \cup {NoFile},
         NEW b \in vaultState \cup {NoFile},
         NEW c \in vaultState \cup {NoFile}
  PROVE  /\ Advances(a, a)
         /\ Advances(a, b) /\ Advances(b, c) => Advances(a, c)
<1>1. ASSUME NEW s \in vaultState, NEW i \in Issues
      PROVE  s.counters[i].next \in Nat
  BY <1>1 DEF vaultState, vaultCounter
<1>2. Advances(a, a)
  BY <1>1 DEF Advances
<1>3. ASSUME Advances(a, b), Advances(b, c), a # NoFile
      PROVE  Advances(a, c)
  <2>1. /\ b # NoFile /\ c # NoFile
        /\ b.x = a.x /\ c.x = b.x
        /\ a \in vaultState /\ b \in vaultState /\ c \in vaultState
    BY <1>3 DEF Advances
  <2>2. ASSUME NEW i \in Issues
        PROVE  /\ c.counters[i].next >= a.counters[i].next
               /\ a.counters[i].k # 0 => c.counters[i].k = a.counters[i].k
    <3>1. /\ b.counters[i].next >= a.counters[i].next
          /\ c.counters[i].next >= b.counters[i].next
          /\ a.counters[i].k # 0 => b.counters[i].k = a.counters[i].k
          /\ b.counters[i].k # 0 => c.counters[i].k = b.counters[i].k
      BY <1>3, <2>1 DEF Advances
    <3>2. /\ a.counters[i].next \in Nat
          /\ b.counters[i].next \in Nat
          /\ c.counters[i].next \in Nat
      BY <1>1, <2>1
    <3>. QED
      BY <3>1, <3>2
  <2>. QED
    BY <2>1, <2>2 DEF Advances
<1>. QED
  BY <1>2, <1>3 DEF Advances

-----------------------------------------------------------------------------
(* Steps that end a call without touching the file *)

Leaves(w) ==
    /\ Leave(w)
    /\ handle' \in [Handles -> {"none", "new", "open", "closed"}]
    /\ \A h \in Handles :
          handle'[h] = "closed" => handle[h] = "closed" \/ mu[h] = None
    /\ UNCHANGED <<visible, durable, proofs>>

\* What Leave(w) does to the locks and the calls.
LEMMA LeaveFacts ==
  ASSUME TypeOK, LockInv, CallInv, NEW w \in Workers, Leave(w)
  PROVE  /\ pc' \in [Workers -> PCs]
         /\ call' \in [Workers -> Calls]
         /\ state' \in [Workers -> vaultState \cup {NoFile}]
         /\ flock' \in Workers \cup {None}
         /\ mu' \in [Handles -> Workers \cup {None}]
         /\ pc'[w] = "idle" /\ call'[w] = Idle
         /\ \A v \in Workers \ {w} :
               pc'[v] = pc[v] /\ call'[v] = call[v] /\ state'[v] = state[v]
         /\ LockInv'
         /\ CallInv'
<1>1. Idle \in Calls
  BY VaultAssumption DEF Idle, Call, Calls
<1>2. /\ pc' = [pc EXCEPT ![w] = "idle"]
      /\ call' = [call EXCEPT ![w] = Idle]
      /\ state' = [state EXCEPT ![w] = NoFile]
      /\ flock' = IF flock = w THEN None ELSE flock
      /\ mu' = [h \in Handles |-> IF mu[h] = w THEN None ELSE mu[h]]
  BY DEF Leave, Unlock
<1>3. /\ pc' \in [Workers -> PCs]
      /\ call' \in [Workers -> Calls]
      /\ state' \in [Workers -> vaultState \cup {NoFile}]
      /\ flock' \in Workers \cup {None}
      /\ mu' \in [Handles -> Workers \cup {None}]
  BY <1>1, <1>2 DEF TypeOK, PCs
<1>4. /\ pc'[w] = "idle" /\ call'[w] = Idle
      /\ \A v \in Workers \ {w} :
            pc'[v] = pc[v] /\ call'[v] = call[v] /\ state'[v] = state[v]
  BY <1>2 DEF TypeOK
<1>5. None \notin Workers
  BY VaultAssumption
<1>6. ASSUME NEW v \in Workers
      PROVE  flock' = v <=> pc'[v] \in Critical
  BY <1>2, <1>4, <1>5 DEF LockInv, Critical
<1>7. ASSUME NEW v \in Workers, NEW h \in Handles
      PROVE  mu'[h] = v <=> call'[v].h = h /\ pc'[v] \in Critical \cup {"flock"}
  BY <1>2, <1>4, <1>5 DEF LockInv, Critical
<1>8. LockInv'
  BY <1>6, <1>7 DEF LockInv
<1>9. CallInv'
  BY <1>4 DEF CallInv, Idle, Call
<1>. QED
  BY <1>3, <1>4, <1>8, <1>9

\* A call that returns without touching the file keeps the invariant: its
\* deferred unlock gives up exactly the locks it held.
LEMMA LeavesStep ==
  ASSUME IInv, NEW w \in Workers, Leaves(w)
  PROVE  IInv'
<1>1. TypeOK /\ LockInv /\ CallInv /\ Leave(w)
  BY DEF IInv, Leaves
<1>2. /\ pc' \in [Workers -> PCs]
      /\ call' \in [Workers -> Calls]
      /\ state' \in [Workers -> vaultState \cup {NoFile}]
      /\ flock' \in Workers \cup {None}
      /\ mu' \in [Handles -> Workers \cup {None}]
      /\ pc'[w] = "idle" /\ call'[w] = Idle
      /\ \A v \in Workers \ {w} :
            pc'[v] = pc[v] /\ call'[v] = call[v] /\ state'[v] = state[v]
      /\ LockInv'
      /\ CallInv'
  BY <1>1, LeaveFacts
<1>3. visible' = visible /\ durable' = durable /\ proofs' = proofs
  BY DEF Leaves
<1>4. TypeOK'
  BY <1>1, <1>2, <1>3 DEF TypeOK, Leaves
<1>5. WriterInv'
  BY <1>2, <1>3 DEF IInv, WriterInv
<1>6. SlotInv'
  BY <1>2, <1>3 DEF IInv, SlotInv
<1>7. (NeverUnreadable /\ Advances(durable, visible) /\ ProofsAreBurned
         /\ NoSlotTwice)'
  BY <1>3 DEF IInv, NeverUnreadable, ProofsAreBurned, NoSlotTwice
<1>8. KeyHeldWhileInUse'
  <2> SUFFICES ASSUME NEW v \in Workers,
                      pc'[v] \in {"flock", "read", "write", "sync", "prove"},
                      handle'[call'[v].h] = "closed"
               PROVE  FALSE
    BY DEF KeyHeldWhileInUse
  <2>1. v # w /\ pc[v] = pc'[v] /\ call[v] = call'[v]
    BY <1>2
  <2>2. call[v].h \in Handles
    BY <1>1, <2>1 DEF CallInv
  <2>3. mu[call[v].h] = v
    BY <1>1, <2>1, <2>2 DEF LockInv, Critical
  <2>4. handle[call[v].h] # "closed"
    BY <2>1 DEF IInv, KeyHeldWhileInUse
  <2>. QED
    BY <2>1, <2>2, <2>3, <2>4, VaultAssumption DEF Leaves
<1>. QED
  BY <1>2, <1>4, <1>5, <1>6, <1>7, <1>8 DEF IInv

\* Every error return, and every success that writes nothing, is such a step.
LEMMA FailLeaves ==
  ASSUME IInv, NEW w \in Workers, Fail(w) \/ Succeed(w),
         UNCHANGED <<visible, durable, proofs>>
  PROVE  Leaves(w)
BY DEF IInv, TypeOK, Fail, Succeed, Leaves

-----------------------------------------------------------------------------
(* Steps that advance a call without touching the file *)

\* A step of w that leaves every other call, the files and the proofs alone.
Frame(w) ==
    /\ \A v \in Workers \ {w} :
          pc'[v] = pc[v] /\ call'[v] = call[v] /\ state'[v] = state[v]
    /\ UNCHANGED <<visible, durable, proofs>>

\* The conjuncts about the files survive every step that leaves them alone.
LEMMA FilesUnchanged ==
  ASSUME IInv, UNCHANGED <<visible, durable, proofs>>
  PROVE  /\ NeverUnreadable'
         /\ Advances(durable, visible)'
         /\ ProofsAreBurned'
         /\ NoSlotTwice'
BY DEF IInv, NeverUnreadable, ProofsAreBurned, NoSlotTwice

\* A step that closes no handle and leaves one goroutine outside the mutex keeps
\* the key of every other.
LEMMA KeyKept ==
  ASSUME IInv, NEW w \in Workers, pc'[w] \in {"idle", "lock"},
         \A v \in Workers \ {w} : pc'[v] = pc[v] /\ call'[v] = call[v],
         \A h \in Handles : handle'[h] = "closed" => handle[h] = "closed"
  PROVE  KeyHeldWhileInUse'
<1>. SUFFICES ASSUME NEW v \in Workers,
                     pc'[v] \in {"flock", "read", "write", "sync", "prove"}
              PROVE  handle'[call'[v].h] # "closed"
  BY DEF KeyHeldWhileInUse
<1>1. v \in Workers \ {w}
  OBVIOUS
<1>2. pc'[v] = pc[v] /\ call'[v] = call[v]
  BY <1>1
<1>3. call[v].h \in Handles
  BY <1>2 DEF IInv, CallInv
<1>4. handle[call[v].h] # "closed"
  BY <1>2 DEF IInv, KeyHeldWhileInUse
<1>. QED
  BY <1>2, <1>3, <1>4

\* When the goroutine that held the flock leaves, nobody is writing.
LEMMA NobodyWrites ==
  ASSUME NEW w \in Workers, pc'[w] = "idle",
         \A v \in Workers \ {w} : pc'[v] = pc[v] /\ pc[v] \notin Critical
  PROVE  WriterInv' /\ SlotInv'
<1>1. \A v \in Workers : pc'[v] \notin {"write", "sync", "prove"}
  BY DEF Critical
<1>2. WriterInv'
  BY <1>1 DEF WriterInv
<1>3. SlotInv'
  BY <1>1 DEF SlotInv
<1>. QED
  BY <1>2, <1>3

\* A goroutine that is not writing disturbs nothing that a writer knows.
LEMMA OthersWrite ==
  ASSUME IInv, NEW w \in Workers, Frame(w), pc'[w] \notin {"write", "sync", "prove"}
  PROVE  WriterInv' /\ SlotInv'
<1>1. \A v \in Workers : pc'[v] \in {"write", "sync", "prove"} =>
        pc'[v] = pc[v] /\ call'[v] = call[v] /\ state'[v] = state[v]
  BY DEF Frame
<1>2. visible' = visible /\ durable' = durable /\ proofs' = proofs
  BY DEF Frame
<1>3. WriterInv'
  BY <1>1, <1>2 DEF IInv, WriterInv
<1>4. SlotInv'
  BY <1>1, <1>2 DEF IInv, SlotInv
<1>. QED
  BY <1>3, <1>4

\* Entering the API changes nothing but the entering goroutine.
LEMMA EnterStep ==
  ASSUME IInv, NEW w \in Workers, NEW c \in Calls, Enter(w, c),
         c.h \in Handles, c.op \in Ops,
         c.op = "create" => c.x \in Secrets,
         c.op = "sign" => c.issue \in Issues,
         handle' \in [Handles -> {"none", "new", "open", "closed"}],
         \A h \in Handles : handle'[h] = "closed" => handle[h] = "closed"
  PROVE  IInv'
<1>1. /\ pc' \in [Workers -> PCs] /\ call' \in [Workers -> Calls]
      /\ pc[w] = "idle" /\ pc'[w] = "lock" /\ call'[w] = c
      /\ mu' = mu /\ flock' = flock
      /\ Frame(w)
  BY DEF IInv, TypeOK, Enter, Frame, PCs
<1>2. TypeOK'
  BY <1>1 DEF IInv, TypeOK, Enter
<1>3. LockInv'
  <2>1. call[w].h = None
    BY <1>1 DEF IInv, CallInv, Idle, Call
  <2>. QED
    BY <1>1, <2>1 DEF IInv, LockInv, Critical, Frame
<1>4. CallInv'
  BY <1>1 DEF IInv, CallInv, Frame
<1>5. WriterInv' /\ SlotInv'
  BY <1>1, OthersWrite
<1>6. KeyHeldWhileInUse'
  BY <1>1, KeyKept DEF Frame
<1>. QED
  BY <1>1, <1>2, <1>3, <1>4, <1>5, <1>6, FilesUnchanged DEF IInv, Frame

\* Each of the five API calls keeps the invariant when it is made.
LEMMA RequestStep ==
  ASSUME IInv, NEW w \in Workers, Request(w)
  PROVE  IInv'
<1>1. PICK h \in Handles :
        \/ OpenSignerVault(w, h)
        \/ Close(w, h)
        \/ \E x \in Secrets : CreateSignerVault(w, h, x)
        \/ \E i \in Issues :
              \/ NextCounter(w, h, i)
              \/ \E k \in 0 .. MaxQuota : Sign(w, h, i, k)
  BY DEF Request
<1>2. ASSUME NEW op \in Ops, NEW i \in Issues \cup {None},
             NEW k \in 0 .. MaxQuota, NEW x \in Secrets \cup {None},
             op = "create" => x \in Secrets, op = "sign" => i \in Issues,
             Enter(w, Call(op, h, i, k, x)),
             handle' \in [Handles -> {"none", "new", "open", "closed"}],
             \A g \in Handles : handle'[g] = "closed" => handle[g] = "closed"
      PROVE  IInv'
  <2>. DEFINE c == Call(op, h, i, k, x)
  <2>1. /\ c.op = op /\ c.h = h /\ c.issue = i /\ c.x = x
        /\ c \in Calls
    BY DEF Call, Calls
  <2>. QED
    BY <1>2, <2>1, EnterStep
<1>3. 0 \in 0 .. MaxQuota
  BY VaultAssumption
<1>4. ASSUME OpenSignerVault(w, h) \/ \E x \in Secrets : CreateSignerVault(w, h, x)
      PROVE  /\ handle' \in [Handles -> {"none", "new", "open", "closed"}]
             /\ \A g \in Handles : handle'[g] = "closed" => handle[g] = "closed"
  BY <1>4 DEF OpenSignerVault, CreateSignerVault, IInv, TypeOK
<1>5. ASSUME UNCHANGED handle
      PROVE  /\ handle' \in [Handles -> {"none", "new", "open", "closed"}]
             /\ \A g \in Handles : handle'[g] = "closed" => handle[g] = "closed"
  BY <1>5 DEF IInv, TypeOK
<1>6. CASE OpenSignerVault(w, h)
  BY <1>2, <1>3, <1>4, <1>6 DEF OpenSignerVault, Ops
<1>7. CASE Close(w, h)
  BY <1>2, <1>3, <1>5, <1>7 DEF Close, Method, Ops
<1>8. ASSUME NEW x \in Secrets, CreateSignerVault(w, h, x)
      PROVE  IInv'
  BY <1>2, <1>3, <1>4, <1>8 DEF CreateSignerVault, Ops
<1>9. ASSUME NEW i \in Issues, NextCounter(w, h, i)
      PROVE  IInv'
  BY <1>2, <1>3, <1>5, <1>9 DEF NextCounter, Method, Ops
<1>10. ASSUME NEW i \in Issues, NEW k \in 0 .. MaxQuota, Sign(w, h, i, k)
       PROVE  IInv'
  BY <1>2, <1>5, <1>10 DEF Sign, Method, Ops
<1>. QED
  BY <1>1, <1>6, <1>7, <1>8, <1>9, <1>10

\* v.mu.Lock() with its check of the wiped key keeps the invariant.
LEMMA LockMutexStep ==
  ASSUME IInv, NEW w \in Workers, LockMutex(w)
  PROVE  IInv'
<1>1. /\ pc[w] = "lock" /\ mu[call[w].h] = None
      /\ UNCHANGED <<visible, durable, proofs>>
      /\ call[w].h \in Handles
  BY DEF LockMutex, IInv, CallInv
<1>2. CASE handle[call[w].h] = "closed"
  BY <1>1, <1>2, FailLeaves, LeavesStep DEF LockMutex
<1>3. CASE handle[call[w].h] # "closed"
  <2>1. /\ mu' = [mu EXCEPT ![call[w].h] = w]
        /\ pc' = [pc EXCEPT ![w] = "flock"]
        /\ UNCHANGED <<handle, flock, call, state>>
    BY <1>3 DEF LockMutex
  <2>2. /\ Frame(w)
        /\ pc' \in [Workers -> PCs]
        /\ pc'[w] = "flock"
    BY <1>1, <2>1 DEF Frame, IInv, TypeOK, PCs
  <2>3. TypeOK'
    BY <1>1, <2>1, <2>2 DEF IInv, TypeOK
  <2>4. LockInv'
    <3>1. \A v \in Workers : flock' = v <=> pc'[v] \in Critical
      BY <1>1, <2>1, <2>2 DEF IInv, LockInv, Critical, Frame
    <3>2. ASSUME NEW v \in Workers, NEW h \in Handles
          PROVE  mu'[h] = v <=>
                   call'[v].h = h /\ pc'[v] \in Critical \cup {"flock"}
      <4>1. mu'[h] = IF h = call[w].h THEN w ELSE mu[h]
        BY <1>1, <2>1 DEF IInv, TypeOK
      <4>2. mu[h] = v <=> call[v].h = h /\ pc[v] \in Critical \cup {"flock"}
        BY DEF IInv, LockInv
      <4>3. CASE v = w
        BY <1>1, <2>1, <2>2, <4>1, <4>2, <4>3 DEF Critical
      <4>4. CASE v # w
        <5>1. pc'[v] = pc[v] /\ call'[v] = call[v]
          BY <2>2, <4>4 DEF Frame
        <5>2. mu[call[w].h] # v
          BY <1>1, VaultAssumption
        <5>. QED
          BY <4>1, <4>2, <4>4, <5>1, <5>2
      <4>. QED
        BY <4>3, <4>4
    <3>. QED
      BY <3>1, <3>2 DEF LockInv
  <2>5. CallInv'
    BY <1>1, <2>1, <2>2 DEF IInv, CallInv, Frame, LockMutex
  <2>6. WriterInv' /\ SlotInv'
    BY <2>2, OthersWrite
  <2>7. KeyHeldWhileInUse'
    BY <1>1, <1>3, <2>1, <2>2 DEF IInv, KeyHeldWhileInUse, Frame
  <2>. QED
    BY <1>1, <2>3, <2>4, <2>5, <2>6, <2>7, FilesUnchanged DEF IInv
<1>. QED
  BY <1>2, <1>3

\* The flock is granted to one call at a time.
LEMMA LockFileStep ==
  ASSUME IInv, NEW w \in Workers, LockFile(w)
  PROVE  IInv'
<1>1. /\ pc[w] = "flock" /\ flock = None /\ flock' = w
      /\ UNCHANGED <<handle, mu, visible, durable, call, proofs>>
      /\ call[w].h \in Handles /\ call[w].op \in Ops
  BY DEF LockFile, IInv, CallInv
<1>2. \A v \in Workers : pc[v] \notin Critical
  BY <1>1, VaultAssumption DEF IInv, LockInv
<1>3. /\ \/ /\ call[w].op = "create" /\ pc'[w] = "write"
            /\ state'[w] = EmptyWallet(call[w].x)
         \/ /\ call[w].op # "create" /\ pc'[w] = "read"
      /\ pc' \in [Workers -> PCs]
      /\ state' \in [Workers -> vaultState \cup {NoFile}]
      /\ Frame(w)
  <2>1. CASE call[w].op = "create"
    <3>1. EmptyWallet(call[w].x) \in vaultState
      BY <2>1, EmptyWalletFacts DEF IInv, CallInv
    <3>. QED
      BY <1>1, <2>1, <3>1 DEF LockFile, IInv, TypeOK, PCs, Frame
  <2>2. CASE call[w].op # "create"
    BY <1>1, <2>2 DEF LockFile, IInv, TypeOK, PCs, Frame
  <2>. QED
    BY <2>1, <2>2
<1>4. TypeOK'
  BY <1>1, <1>3 DEF IInv, TypeOK
<1>5. LockInv'
  <2>1. \A v \in Workers : flock' = v <=> pc'[v] \in Critical
    BY <1>1, <1>2, <1>3 DEF Critical, Frame
  <2>2. \A v \in Workers, h \in Handles :
          mu'[h] = v <=> call'[v].h = h /\ pc'[v] \in Critical \cup {"flock"}
    BY <1>1, <1>2, <1>3 DEF IInv, LockInv, Critical, Frame
  <2>. QED
    BY <2>1, <2>2 DEF LockInv
<1>6. CallInv'
  <2>1. pc'[w] = "read" => call[w].op \in {"open", "next", "sign"}
    <3>1. call[w].op # "close"
      BY <1>1 DEF IInv, CallInv
    <3>. QED
      BY <1>1, <1>3, <3>1 DEF Ops
  <2>. QED
    BY <1>1, <1>3, <2>1 DEF IInv, CallInv, Frame
<1>7. WriterInv'
  BY <1>1, <1>2, <1>3 DEF IInv, WriterInv, Critical, Frame
<1>8. SlotInv'
  BY <1>1, <1>2, <1>3 DEF IInv, SlotInv, Critical, Frame
<1>9. KeyHeldWhileInUse'
  BY <1>1, <1>3 DEF IInv, KeyHeldWhileInUse, Frame
<1>. QED
  BY <1>1, <1>4, <1>5, <1>6, <1>7, <1>8, <1>9, FilesUnchanged DEF IInv

\* Past the flock a call is alone: nobody else reads, writes or proves.
LEMMA Alone ==
  ASSUME IInv, NEW w \in Workers, pc[w] \in Critical
  PROVE  /\ \A v \in Workers \ {w} : pc[v] \notin Critical
         /\ flock = w
         /\ call[w].h \in Handles /\ call[w].op \in Ops
         /\ handle[call[w].h] # "closed"
BY DEF IInv, LockInv, CallInv, KeyHeldWhileInUse, Critical

\* A step within the critical section keeps the lock invariants.
LEMMA StaysCritical ==
  ASSUME IInv, NEW w \in Workers, pc[w] \in Critical, pc'[w] \in Critical,
         \A v \in Workers \ {w} : pc'[v] = pc[v],
         UNCHANGED <<handle, mu, flock, call>>
  PROVE  LockInv' /\ KeyHeldWhileInUse'
<1>1. LockInv'
  BY DEF IInv, LockInv, Critical
<1>2. KeyHeldWhileInUse'
  BY DEF IInv, KeyHeldWhileInUse, Critical
<1>. QED
  BY <1>1, <1>2

\* The visible file, too, is past every proof.
LEMMA VisibleAboveProofs ==
  ASSUME IInv, NEW x \in Secrets, NEW i \in Issues, NEW c \in Passes,
         proofs[<<x, i, c>>] > 0
  PROVE  /\ visible # NoFile /\ visible.x = x
         /\ c < visible.counters[i].next
<1>1. /\ durable # NoFile /\ durable.x = x
      /\ c < durable.counters[i].next
      /\ Advances(durable, visible)
  BY DEF IInv, ProofsAreBurned
<1>2. /\ visible # NoFile /\ visible.x = x
      /\ visible.counters[i].next >= durable.counters[i].next
  BY <1>1 DEF Advances
<1>3. visible.counters[i].next \in Nat /\ durable.counters[i].next \in Nat
  BY <1>1, <1>2 DEF IInv, TypeOK, vaultState, vaultCounter
<1>. QED
  BY <1>1, <1>2, <1>3 DEF Passes

\* read() and the quota checks: what a Sign holds from here on is the file.
LEMMA ReadStep ==
  ASSUME IInv, NEW w \in Workers, Read(w)
  PROVE  IInv'
<1>1. /\ pc[w] = "read" /\ visible # NoFile /\ Readable(visible)
      /\ UNCHANGED <<visible, durable, proofs>>
      /\ visible \in vaultState
  BY DEF Read, IInv, TypeOK
<1>2. CASE Fail(w) \/ Succeed(w)
  BY <1>1, <1>2, FailLeaves, LeavesStep
<1>3. CASE /\ call[w].op = "sign"
           /\ MayReserve(visible, call[w].issue, call[w].k)
           /\ state' = [state EXCEPT ![w] = visible]
           /\ pc' = [pc EXCEPT ![w] = "write"]
           /\ UNCHANGED <<handle, mu, flock, call>>
  <2>1. /\ pc'[w] = "write" /\ state'[w] = visible
        /\ pc' \in [Workers -> PCs]
        /\ state' \in [Workers -> vaultState \cup {NoFile}]
        /\ Frame(w)
    BY <1>1, <1>3 DEF IInv, TypeOK, PCs, Frame
  <2>2. \A v \in Workers \ {w} : pc[v] \notin Critical
    BY <1>1, Alone DEF Critical
  <2>3. TypeOK'
    BY <1>1, <1>3, <2>1 DEF IInv, TypeOK
  <2>4. LockInv' /\ KeyHeldWhileInUse'
    BY <1>1, <1>3, <2>1, StaysCritical DEF Critical, Frame
  <2>5. CallInv'
    BY <1>1, <1>3, <2>1 DEF IInv, CallInv, Frame
  <2>6. WriterInv'
    BY <1>1, <1>3, <2>1, <2>2 DEF WriterInv, Critical, Frame
  <2>7. SlotInv'
    <3>1. call[w].issue \in Issues
      BY <1>3 DEF IInv, CallInv
    <3>2. \A x \in Secrets, c \in Passes :
            proofs[<<x, call[w].issue, c>>] > 0
              => c < visible.counters[call[w].issue].next
      BY <3>1, VisibleAboveProofs
    <3>. QED
      BY <1>1, <1>3, <2>1, <2>2, <3>2 DEF SlotInv, Critical, Frame
  <2>. QED
    BY <1>1, <2>3, <2>4, <2>5, <2>6, <2>7, FilesUnchanged DEF IInv
<1>. QED
  BY <1>2, <1>3 DEF Read

\* The rename or link: the visible file is replaced by one reservation more.
LEMMA ReplaceStep ==
  ASSUME IInv, NEW w \in Workers, Replace(w)
  PROVE  IInv'
<1>1. /\ pc[w] = "write"
      /\ pc' = [pc EXCEPT ![w] = "sync"]
      /\ UNCHANGED <<handle, mu, flock, durable, call, state, proofs>>
      /\ \A v \in Workers \ {w} : pc[v] \notin Critical
  BY Alone DEF Replace, Critical
<1>2. /\ pc'[w] = "sync"
      /\ \A v \in Workers \ {w} : pc'[v] = pc[v]
      /\ pc' \in [Workers -> PCs]
  BY <1>1 DEF IInv, TypeOK, PCs
<1>3. LockInv' /\ KeyHeldWhileInUse'
  BY <1>1, <1>2, StaysCritical DEF Critical
<1>4. CallInv'
  BY <1>1, <1>2 DEF IInv, CallInv
<1>5. NoSlotTwice' /\ ProofsAreBurned'
  BY <1>1 DEF IInv, NoSlotTwice, ProofsAreBurned
<1>6. SlotInv'
  BY <1>1, <1>2 DEF IInv, SlotInv, Critical
<1>7. /\ visible' \in vaultState
      /\ Readable(visible')
      /\ Advances(visible, visible')
      /\ call[w].op = "sign" =>
            visible' = Reserved(state[w], call[w].issue, call[w].k)
  <2>1. CASE /\ call[w].op = "create" /\ visible = NoFile
             /\ visible' = state[w]
    BY <1>1, <2>1, EmptyWalletFacts DEF IInv, WriterInv, CallInv, Advances
  <2>2. CASE /\ call[w].op = "sign"
             /\ visible' = Reserved(state[w], call[w].issue, call[w].k)
    <3>1. /\ state[w] \in vaultState /\ Readable(state[w])
          /\ MayReserve(state[w], call[w].issue, call[w].k)
          /\ visible = state[w]
      BY <1>1, <2>2 DEF IInv, WriterInv
    <3>2. call[w].issue \in Issues /\ call[w].k \in 0 .. MaxQuota
      BY <2>2 DEF IInv, CallInv, TypeOK, Calls
    <3>. QED
      BY <2>2, <3>1, <3>2, ReservedFacts
  <2>. QED
    BY <2>1, <2>2 DEF Replace
<1>8. TypeOK'
  BY <1>1, <1>2, <1>7 DEF IInv, TypeOK
<1>9. NeverUnreadable'
  BY <1>1, <1>7 DEF IInv, NeverUnreadable
<1>10. Advances(durable, visible)'
  <2>1. Advances(durable, visible')
    BY <1>7, AdvancesPreorder DEF IInv, TypeOK
  <2>. QED
    BY <1>1, <2>1
<1>11. WriterInv'
  <2>1. visible' # NoFile
    BY <1>7, NoFileAssumption
  <2>. QED
    BY <1>1, <1>2, <1>7, <2>1 DEF IInv, WriterInv, Critical
<1>. QED
  BY <1>3, <1>4, <1>5, <1>6, <1>8, <1>9, <1>10, <1>11 DEF IInv

\* What is on disk moves up to what is visible: durability is never lost.
LEMMA DurableCatchesUp ==
  ASSUME IInv, durable' = visible, UNCHANGED <<visible, proofs>>
  PROVE  /\ durable' \in vaultState \cup {NoFile}
         /\ NeverUnreadable'
         /\ Advances(durable, visible)'
         /\ ProofsAreBurned'
         /\ NoSlotTwice'
<1>1. durable' \in vaultState \cup {NoFile}
  BY DEF IInv, TypeOK
<1>2. NeverUnreadable'
  BY DEF IInv, NeverUnreadable
<1>3. Advances(durable', visible')
  BY AdvancesPreorder DEF IInv, TypeOK
<1>4. ProofsAreBurned'
  BY VisibleAboveProofs DEF ProofsAreBurned
<1>5. NoSlotTwice'
  BY DEF IInv, NoSlotTwice
<1>. QED
  BY <1>1, <1>2, <1>3, <1>4, <1>5

\* The file system writing back early keeps the invariant.
LEMMA WritebackStep ==
  ASSUME IInv, Writeback
  PROVE  IInv'
<1>1. /\ durable' = visible
      /\ UNCHANGED <<handle, mu, flock, visible, pc, call, state, proofs>>
  BY DEF Writeback
<1>2. TypeOK'
  BY <1>1, DurableCatchesUp DEF IInv, TypeOK
<1>3. LockInv' /\ CallInv'
  BY <1>1 DEF IInv, LockInv, CallInv
<1>4. SlotInv' /\ KeyHeldWhileInUse'
  BY <1>1 DEF IInv, SlotInv, KeyHeldWhileInUse
<1>5. WriterInv'
  BY <1>1 DEF IInv, WriterInv
<1>. QED
  BY <1>1, <1>2, <1>3, <1>4, <1>5, DurableCatchesUp DEF IInv

\* The directory sync: the reservation is on disk before the prover starts.
LEMMA SyncDirectoryStep ==
  ASSUME IInv, NEW w \in Workers, SyncDirectory(w)
  PROVE  IInv'
<1>1. /\ pc[w] = "sync" /\ durable' = visible
      /\ UNCHANGED <<visible, proofs>>
      /\ \A v \in Workers \ {w} : pc[v] \notin Critical
      /\ call[w].h \in Handles /\ handle[call[w].h] # "closed"
  BY Alone DEF SyncDirectory, Critical
<1>2. CASE call[w].op = "create" /\ Succeed(w)
  <2>1. TypeOK /\ LockInv /\ CallInv /\ Leave(w)
    BY <1>2 DEF IInv, Succeed
  <2>2. /\ pc' \in [Workers -> PCs]
        /\ call' \in [Workers -> Calls]
        /\ state' \in [Workers -> vaultState \cup {NoFile}]
        /\ flock' \in Workers \cup {None}
        /\ mu' \in [Handles -> Workers \cup {None}]
        /\ pc'[w] = "idle" /\ call'[w] = Idle
        /\ \A v \in Workers \ {w} :
              pc'[v] = pc[v] /\ call'[v] = call[v] /\ state'[v] = state[v]
        /\ LockInv'
        /\ CallInv'
    BY <2>1, LeaveFacts
  <2>3. /\ handle' \in [Handles -> {"none", "new", "open", "closed"}]
        /\ \A h \in Handles : handle'[h] = "closed" => handle[h] = "closed"
    BY <1>2 DEF Succeed, IInv, TypeOK
  <2>4. TypeOK'
    BY <1>1, <2>1, <2>2, <2>3, DurableCatchesUp DEF TypeOK
  <2>5. WriterInv' /\ SlotInv'
    BY <1>1, <2>2, NobodyWrites
  <2>6. KeyHeldWhileInUse'
    BY <2>2, <2>3, KeyKept
  <2>. QED
    BY <1>1, <2>2, <2>4, <2>5, <2>6, DurableCatchesUp DEF IInv
<1>3. CASE /\ call[w].op = "sign"
           /\ pc' = [pc EXCEPT ![w] = "prove"]
           /\ UNCHANGED <<handle, mu, flock, call, state>>
  <2>1. /\ pc'[w] = "prove"
        /\ \A v \in Workers \ {w} : pc'[v] = pc[v]
        /\ pc' \in [Workers -> PCs]
    BY <1>3 DEF IInv, TypeOK, PCs
  <2>2. TypeOK'
    BY <1>1, <1>3, <2>1, DurableCatchesUp DEF IInv, TypeOK
  <2>3. LockInv' /\ KeyHeldWhileInUse'
    BY <1>1, <1>3, <2>1, StaysCritical DEF Critical
  <2>4. CallInv'
    BY <1>1, <1>3, <2>1 DEF IInv, CallInv
  <2>5. WriterInv'
    BY <1>1, <1>3, <2>1 DEF IInv, WriterInv, Critical
  <2>6. SlotInv'
    BY <1>1, <1>3, <2>1 DEF IInv, SlotInv, Critical
  <2>. QED
    BY <1>1, <2>2, <2>3, <2>4, <2>5, <2>6, DurableCatchesUp DEF IInv
<1>. QED
  BY <1>2, <1>3 DEF SyncDirectory

\* The slot that is proved: a fresh one, on disk, and the highest so far.
LEMMA ProvedSlotIsFresh ==
  ASSUME IInv, NEW w \in Workers, pc[w] = "prove"
  PROVE  /\ state[w] \in vaultState
         /\ call[w].issue \in Issues /\ call[w].k \in 1 .. MaxQuota
         /\ ProofSlot(w) \in Slots
         /\ durable # NoFile /\ durable = visible
         /\ durable.x = state[w].x
         /\ durable.counters[call[w].issue].k = call[w].k
         /\ durable.counters[call[w].issue].next =
               state[w].counters[call[w].issue].next + 1
         /\ state[w].counters[call[w].issue].next \in Passes
         /\ state[w].counters[call[w].issue].next < call[w].k
         /\ \A x \in Secrets, c \in Passes :
               proofs[<<x, call[w].issue, c>>] > 0
                 => c < state[w].counters[call[w].issue].next
<1>1. call[w].op = "sign" /\ call[w].issue \in Issues
  BY DEF IInv, CallInv
<1>2. /\ state[w] \in vaultState /\ Readable(state[w])
      /\ MayReserve(state[w], call[w].issue, call[w].k)
      /\ durable = Reserved(state[w], call[w].issue, call[w].k)
      /\ durable = visible
  BY <1>1 DEF IInv, WriterInv
<1>3. call[w].k \in 0 .. MaxQuota
  BY DEF IInv, TypeOK, Calls
<1>4. /\ durable \in vaultState
      /\ durable.x = state[w].x
      /\ durable.counters[call[w].issue].k = call[w].k
      /\ durable.counters[call[w].issue].next =
            state[w].counters[call[w].issue].next + 1
      /\ state[w].counters[call[w].issue].next \in Passes
      /\ state[w].counters[call[w].issue].next < call[w].k
  <2>. DEFINE s == state[w]
              i == call[w].issue
              k == call[w].k
              r == Reserved(s, i, k)
  <2>2. durable = r
    BY <1>2
  <2>3. /\ s \in vaultState /\ i \in Issues /\ k \in 0 .. MaxQuota
        /\ Readable(s) /\ MayReserve(s, i, k)
    BY <1>1, <1>2, <1>3
  <2>. HIDE DEF s, i, k
  <2>1. /\ r \in vaultState
        /\ r.x = s.x
        /\ r.counters[i].k = k
        /\ r.counters[i].next = s.counters[i].next + 1
        /\ s.counters[i].next \in Passes
        /\ s.counters[i].next < k
    BY <2>3, ReservedFacts
  <2>. HIDE DEF r
  <2>. QED
    BY <2>1, <2>2 DEF s, i, k
<1>5. call[w].k \in 1 .. MaxQuota
  <2>1. call[w].k # 0
    BY <1>2 DEF MayReserve
  <2>. QED
    BY <1>3, <2>1, VaultAssumption
<1>6. ProofSlot(w) \in Slots
  BY <1>1, <1>2, <1>4 DEF ProofSlot, Slots, vaultState
<1>7. \A x \in Secrets, c \in Passes :
        proofs[<<x, call[w].issue, c>>] > 0
          => c < state[w].counters[call[w].issue].next
  BY <1>1 DEF IInv, SlotInv
<1>. QED
  BY <1>1, <1>2, <1>4, <1>5, <1>6, <1>7, NoFileAssumption

\* Proving consumes a slot nobody proved before, and one that is burned.
LEMMA ProveStep ==
  ASSUME IInv, NEW w \in Workers, Prove(w)
  PROVE  IInv'
<1>1. /\ pc[w] = "prove"
      /\ proofs' = [proofs EXCEPT ![ProofSlot(w)] = @ + 1]
      /\ UNCHANGED <<visible, durable>>
      /\ Succeed(w)
      /\ \A v \in Workers \ {w} : pc[v] \notin Critical
  BY Alone DEF Prove, Critical
<1>. DEFINE i == call[w].issue
            n == state[w].counters[i].next
            p == ProofSlot(w)
<1>2. /\ i \in Issues /\ n \in Passes /\ state[w].x \in Secrets
      /\ p = <<state[w].x, i, n>>
      /\ p \in Slots
      /\ durable # NoFile /\ durable.x = state[w].x
      /\ durable.counters[i].next = n + 1
      /\ \A x \in Secrets, c \in Passes : proofs[<<x, i, c>>] > 0 => c < n
  BY <1>1, ProvedSlotIsFresh DEF ProofSlot, vaultState
<1>3. proofs \in [Slots -> Nat] /\ proofs' = [proofs EXCEPT ![p] = @ + 1]
  BY <1>1 DEF IInv, TypeOK
<1>. HIDE DEF i, n, p
<1>n. n \in Passes
  BY <1>2
<1>4. proofs[p] = 0
  <2>1. n \in Nat
    BY <1>n, VaultAssumption DEF Passes
  <2>2. ~(n < n)
    BY <2>1
  <2>3. ~(proofs[<<state[w].x, i, n>>] > 0)
    BY <1>2, <2>2
  <2>4. proofs[p] \in Nat /\ ~(proofs[p] > 0)
    BY <1>2, <1>3, <2>3
  <2>. QED
    BY <2>4
<1>5. /\ proofs' \in [Slots -> Nat]
      /\ proofs'[p] = 1
      /\ \A s \in Slots : s # p => proofs'[s] = proofs[s]
  <2>1. p \in Slots
    BY <1>2
  <2>. QED
    BY <1>3, <1>4, <2>1
<1>6. NoSlotTwice'
  BY <1>5 DEF IInv, NoSlotTwice
<1>7. ProofsAreBurned'
  <2> SUFFICES ASSUME NEW x \in Secrets, NEW j \in Issues, NEW c \in Passes,
                      proofs'[<<x, j, c>>] > 0
               PROVE  /\ durable # NoFile
                      /\ durable.x = x
                      /\ c < durable.counters[j].next
    BY <1>1 DEF ProofsAreBurned
  <2>1. <<x, j, c>> \in Slots
    BY DEF Slots
  <2>2. CASE <<x, j, c>> = p
    <3>0. <<x, j, c>> = <<state[w].x, i, n>>
      BY <1>2, <2>2
    <3>1. x = state[w].x /\ j = i /\ c = n
      BY <3>0
    <3>2. n < n + 1
      BY <1>n, VaultAssumption DEF Passes
    <3>. QED
      BY <1>2, <3>1, <3>2
  <2>3. CASE <<x, j, c>> # p
    BY <1>5, <2>1, <2>3 DEF IInv, ProofsAreBurned
  <2>. QED
    BY <2>2, <2>3
<1>8. TypeOK /\ LockInv /\ CallInv /\ Leave(w)
  BY <1>1 DEF IInv, Succeed
<1>9. /\ pc' \in [Workers -> PCs]
      /\ call' \in [Workers -> Calls]
      /\ state' \in [Workers -> vaultState \cup {NoFile}]
      /\ flock' \in Workers \cup {None}
      /\ mu' \in [Handles -> Workers \cup {None}]
      /\ pc'[w] = "idle" /\ call'[w] = Idle
      /\ \A v \in Workers \ {w} :
            pc'[v] = pc[v] /\ call'[v] = call[v] /\ state'[v] = state[v]
      /\ LockInv'
      /\ CallInv'
  BY <1>8, LeaveFacts
<1>10. /\ handle' \in [Handles -> {"none", "new", "open", "closed"}]
       /\ \A h \in Handles : handle'[h] = "closed" => handle[h] = "closed"
  BY <1>1 DEF Succeed, IInv, TypeOK
<1>11. TypeOK'
  BY <1>1, <1>5, <1>8, <1>9, <1>10 DEF TypeOK
<1>12. WriterInv' /\ SlotInv'
  BY <1>1, <1>9, NobodyWrites
<1>13. KeyHeldWhileInUse'
  BY <1>9, <1>10, KeyKept
<1>14. NeverUnreadable' /\ Advances(durable, visible)'
  BY <1>1 DEF IInv, NeverUnreadable
<1>. QED
  BY <1>6, <1>7, <1>9, <1>11, <1>12, <1>13, <1>14 DEF IInv

-----------------------------------------------------------------------------
(* Deaths *)

\* A process that dies takes its locks with it and nothing else.
LEMMA KillStep ==
  ASSUME IInv, NEW h \in Handles, Kill(h)
  PROVE  IInv'
<1>. DEFINE dead == {w \in Workers : call[w].h = h}
<1>1. /\ handle' = [handle EXCEPT ![h] = "none"]
      /\ mu' = [mu EXCEPT ![h] = None]
      /\ flock' = IF flock \in dead THEN None ELSE flock
      /\ pc' = [w \in Workers |-> IF w \in dead THEN "idle" ELSE pc[w]]
      /\ call' = [w \in Workers |-> IF w \in dead THEN Idle ELSE call[w]]
      /\ state' = [w \in Workers |-> IF w \in dead THEN NoFile ELSE state[w]]
      /\ UNCHANGED <<visible, durable, proofs>>
  BY DEF Kill
<1>2. Idle \in Calls /\ Idle.op = "none" /\ Idle.h = None
  BY VaultAssumption DEF Idle, Call, Calls
<1>3. /\ \A w \in dead : pc'[w] = "idle" /\ call'[w] = Idle
      /\ \A w \in Workers \ dead :
            /\ pc'[w] = pc[w] /\ call'[w] = call[w] /\ state'[w] = state[w]
            /\ call[w].h # h
  BY <1>1
<1>4. TypeOK'
  BY <1>1, <1>2 DEF IInv, TypeOK, PCs
<1>5. LockInv'
  <2>1. ASSUME NEW w \in Workers
        PROVE  flock' = w <=> pc'[w] \in Critical
    <3>1. CASE w \in dead
      BY <1>1, <1>3, <3>1, VaultAssumption DEF Critical
    <3>2. CASE w \notin dead
      <4>1. flock' = w <=> flock = w
        BY <1>1, <3>2, VaultAssumption
      <4>2. flock = w <=> pc[w] \in Critical
        BY DEF IInv, LockInv
      <4>3. pc'[w] = pc[w]
        BY <1>3, <3>2
      <4>. QED
        BY <4>1, <4>2, <4>3
    <3>. QED
      BY <3>1, <3>2
  <2>2. ASSUME NEW w \in Workers, NEW g \in Handles
        PROVE  mu'[g] = w <=> call'[w].h = g /\ pc'[w] \in Critical \cup {"flock"}
    <3>1. CASE w \in dead
      <4>1. ~(call'[w].h = g /\ pc'[w] \in Critical \cup {"flock"})
        BY <1>3, <3>1 DEF Critical
      <4>2. mu'[g] # w
        <5>1. CASE g = h
          BY <1>1, <5>1, VaultAssumption DEF IInv, TypeOK
        <5>2. CASE g # h
          BY <1>1, <3>1, <5>2 DEF IInv, TypeOK, LockInv
        <5>. QED
          BY <5>1, <5>2
      <4>. QED
        BY <4>1, <4>2
    <3>2. CASE w \notin dead
      <4>1. CASE g = h
        BY <1>1, <1>3, <3>2, <4>1, VaultAssumption DEF IInv, TypeOK
      <4>2. CASE g # h
        <5>1. mu'[g] = mu[g]
          BY <1>1, <4>2 DEF IInv, TypeOK
        <5>2. pc'[w] = pc[w] /\ call'[w] = call[w]
          BY <1>3, <3>2
        <5>3. mu[g] = w <=> call[w].h = g /\ pc[w] \in Critical \cup {"flock"}
          BY DEF IInv, LockInv
        <5>. QED
          BY <5>1, <5>2, <5>3
      <4>. QED
        BY <4>1, <4>2
    <3>. QED
      BY <3>1, <3>2
  <2>. QED
    BY <2>1, <2>2 DEF LockInv
<1>6. CallInv'
  <2>1. \A w \in Workers :
           \/ pc'[w] = "idle" /\ call'[w] = Idle
           \/ pc'[w] = pc[w] /\ call'[w] = call[w]
    BY <1>3
  <2>. QED
    BY <1>2, <2>1 DEF IInv, CallInv
<1>7. WriterInv'
  BY <1>1, <1>3 DEF IInv, WriterInv
<1>8. SlotInv'
  BY <1>1, <1>3 DEF IInv, SlotInv
<1>9. KeyHeldWhileInUse'
  <2> SUFFICES ASSUME NEW w \in Workers,
                      pc'[w] \in {"flock", "read", "write", "sync", "prove"}
               PROVE  handle'[call'[w].h] # "closed"
    BY DEF KeyHeldWhileInUse
  <2>1. w \in Workers \ dead
    BY <1>3
  <2>2. call[w].h \in Handles /\ handle[call[w].h] # "closed"
    BY <1>3, <2>1 DEF IInv, KeyHeldWhileInUse, CallInv
  <2>. QED
    BY <1>1, <1>3, <2>1, <2>2 DEF IInv, TypeOK
<1>. QED
  BY <1>1, <1>4, <1>5, <1>6, <1>7, <1>8, <1>9, FilesUnchanged DEF IInv

\* A power loss brings back a file that still burns every proved slot.
LEMMA PowerLossStep ==
  ASSUME IInv, PowerLoss
  PROVE  IInv'
<1>1. /\ handle' = [h \in Handles |-> "none"]
      /\ mu' = [h \in Handles |-> None]
      /\ flock' = None
      /\ visible' = durable
      /\ pc' = [w \in Workers |-> "idle"]
      /\ call' = [w \in Workers |-> Idle]
      /\ state' = [w \in Workers |-> NoFile]
      /\ UNCHANGED <<durable, proofs>>
  BY DEF PowerLoss
<1>2. Idle \in Calls /\ Idle.op = "none" /\ Idle.h = None
  BY VaultAssumption DEF Idle, Call, Calls
<1>3. TypeOK'
  BY <1>1, <1>2 DEF IInv, TypeOK, PCs
<1>4. LockInv' /\ CallInv' /\ WriterInv' /\ SlotInv' /\ KeyHeldWhileInUse'
  BY <1>1, <1>2, VaultAssumption
  DEF LockInv, CallInv, WriterInv, SlotInv, KeyHeldWhileInUse, Critical
<1>5. NeverUnreadable' /\ ProofsAreBurned' /\ NoSlotTwice'
  BY <1>1 DEF IInv, NeverUnreadable, ProofsAreBurned, NoSlotTwice
<1>6. durable \in vaultState \cup {NoFile}
  BY DEF IInv, TypeOK
<1>7. Advances(durable, durable)
  BY <1>6, AdvancesPreorder
<1>8. Advances(durable, visible)'
  BY <1>1, <1>7
<1>. QED
  BY <1>3, <1>4, <1>5, <1>8 DEF IInv

-----------------------------------------------------------------------------
(* The inductive invariant *)

\* The invariant holds with no wallet, no handle and no call.
LEMMA InitIInv == Init => IInv
<1> SUFFICES ASSUME Init PROVE IInv
  OBVIOUS
<1>1. Idle \in Calls /\ Idle.op = "none" /\ Idle.h = None
  BY VaultAssumption DEF Idle, Call, Calls
<1>2. TypeOK
  BY <1>1 DEF Init, TypeOK, PCs
<1>3. LockInv /\ CallInv /\ WriterInv /\ SlotInv /\ KeyHeldWhileInUse
  BY <1>1, VaultAssumption
  DEF Init, LockInv, CallInv, WriterInv, SlotInv, KeyHeldWhileInUse, Critical
<1>4. NeverUnreadable /\ Advances(durable, visible)
  BY DEF Init, NeverUnreadable, Advances
<1>5. ProofsAreBurned /\ NoSlotTwice
  BY DEF Init, ProofsAreBurned, NoSlotTwice, Slots
<1>. QED
  BY <1>2, <1>3, <1>4, <1>5 DEF IInv

\* Close() wipes a key only while it holds the handle's mutex.
LEMMA CloseHandleLeaves ==
  ASSUME IInv, NEW w \in Workers, CloseHandle(w)
  PROVE  Leaves(w)
BY DEF IInv, TypeOK, CallInv, CloseHandle, Leaves

\* Every step keeps the invariant.
LEMMA NextStep ==
  ASSUME IInv, [Next]_vars
  PROVE  IInv'
<1>1. ASSUME NEW w \in Workers, Step(w)
      PROVE  IInv'
  <2>1. CASE \/ LockFails(w) \/ ReadFails(w) \/ WriteFails(w)
             \/ SyncFails(w) \/ ProveFails(w)
    BY <2>1, FailLeaves, LeavesStep
    DEF LockFails, ReadFails, WriteFails, SyncFails, ProveFails
  <2>2. CASE CloseHandle(w)
    BY <2>2, CloseHandleLeaves, LeavesStep
  <2>. QED
    BY <1>1, <2>1, <2>2, LockMutexStep, LockFileStep, ReadStep, ReplaceStep,
       SyncDirectoryStep, ProveStep DEF Step, Proceed
<1>2. CASE UNCHANGED vars
  <2>1. UNCHANGED <<handle, mu, flock, visible, durable, pc, call, state, proofs>>
    BY <1>2 DEF vars
  <2>2. TypeOK' /\ LockInv' /\ CallInv'
    <3>1. TypeOK'
      BY <2>1 DEF IInv, TypeOK
    <3>2. LockInv'
      <4>1. flock' = flock /\ mu' = mu /\ call' = call /\ pc' = pc
        BY <2>1
      <4>2. LockInv
        BY DEF IInv
      <4>. QED
        BY <4>1, <4>2 DEF LockInv
    <3>3. CallInv'
      BY <2>1 DEF IInv, CallInv
    <3>. QED
      BY <3>1, <3>2, <3>3
  <2>3. WriterInv' /\ SlotInv' /\ KeyHeldWhileInUse'
    <3>1. WriterInv'
      BY <2>1 DEF IInv, WriterInv
    <3>2. SlotInv' /\ KeyHeldWhileInUse'
      BY <2>1 DEF IInv, SlotInv, KeyHeldWhileInUse
    <3>. QED
      BY <3>1, <3>2
  <2>. QED
    BY <2>1, <2>2, <2>3, FilesUnchanged DEF IInv
<1>. QED
  BY <1>1, <1>2, RequestStep, KillStep, PowerLossStep, WritebackStep DEF Next

\* The inductive invariant holds throughout every behaviour of the wallet.
THEOREM Invariance == Spec => []IInv
BY InitIInv, NextStep, PTL DEF Spec

\* Type correctness of the wallet, its handles and the calls in progress.
THEOREM TypeCorrect == Spec => []TypeOK
BY Invariance, PTL DEF IInv

\* For any number of goroutines, handles and processes, any quota and any issue
\* limit, no counter of a secret and an issue is proved twice (reserveAndProve).
THEOREM SlotOnce == Spec => []NoSlotTwice
BY Invariance, PTL DEF IInv

\* Every counter a proof was made for is burned in the wallet on disk, also after a
\* power loss (write).
THEOREM Burned == Spec => []ProofsAreBurned
BY Invariance, PTL DEF IInv

\* The wallet on disk stays one that read accepts (read, reserveAndProve).
THEOREM StaysReadable == Spec => []NeverUnreadable
BY Invariance, PTL DEF IInv

\* Close never wipes a key in use (Close).
THEOREM KeyHeld == Spec => []KeyHeldWhileInUse
BY Invariance, PTL DEF IInv

-----------------------------------------------------------------------------
(* Only forward *)

\* A step other than a power loss moves the wallet file forward or leaves it.
LEMMA VisibleAdvances ==
  ASSUME IInv, [Next]_vars, ~PowerLoss
  PROVE  Advances(visible, visible')
<1>1. visible \in vaultState \cup {NoFile}
  BY DEF IInv, TypeOK
<1>2. CASE visible' = visible
  BY <1>1, <1>2, AdvancesPreorder
<1>3. ASSUME NEW w \in Workers, Replace(w)
      PROVE  Advances(visible, visible')
  <2>1. CASE call[w].op = "create"
    BY <1>3, <2>1 DEF Replace, Advances
  <2>2. CASE call[w].op = "sign"
    <3>1. /\ state[w] \in vaultState /\ Readable(state[w])
          /\ MayReserve(state[w], call[w].issue, call[w].k)
          /\ visible = state[w]
          /\ visible' = Reserved(state[w], call[w].issue, call[w].k)
      BY <1>3, <2>2 DEF IInv, WriterInv, Replace
    <3>2. call[w].issue \in Issues /\ call[w].k \in 0 .. MaxQuota
      BY <2>2 DEF IInv, CallInv, TypeOK, Calls
    <3>3. Advances(state[w], Reserved(state[w], call[w].issue, call[w].k))
      BY <3>1, <3>2, ReservedFacts
    <3>. QED
      BY <3>1, <3>3
  <2>. QED
    BY <1>3, <2>1, <2>2 DEF Replace
<1>4. ASSUME NEW w \in Workers, Step(w), ~Replace(w)
      PROVE  visible' = visible
  BY <1>4 DEF Step, Proceed, LockMutex, CloseHandle, LockFile, LockFails, Read, ReadFails,
     WriteFails, SyncDirectory, SyncFails, Prove, ProveFails
<1>5. ASSUME NEW w \in Workers, Request(w)
      PROVE  visible' = visible
  BY <1>5 DEF Request, OpenSignerVault, CreateSignerVault, Close, NextCounter,
     Sign, Method, Enter
<1>6. CASE Writeback \/ UNCHANGED vars \/ \E h \in Handles : Kill(h)
  BY <1>2, <1>6 DEF Writeback, vars, Kill
<1>. QED
  BY <1>2, <1>3, <1>4, <1>5, <1>6 DEF Next

\* Short of a power loss the wallet file only moves forward: write() never
\* removes it, replaces it by another wallet, lowers a counter or changes a
\* pinned quota.
THEOREM Forward == Spec => OnlyForward
<1>1. IInv /\ [Next]_vars => [~PowerLoss => Advances(visible, visible')]_vars
  BY VisibleAdvances
<1>. QED
  BY <1>1, Invariance, PTL DEF Spec, OnlyForward

-----------------------------------------------------------------------------
(* The wallet implements OneTimePass *)

\* The file on disk only moves forward, power losses included.
LEMMA DurableAdvances ==
  ASSUME IInv, [Next]_vars
  PROVE  Advances(durable, durable')
<1>1. /\ durable \in vaultState \cup {NoFile}
      /\ Advances(durable, visible)
  BY DEF IInv, TypeOK
<1>2. CASE durable' = durable
  BY <1>1, <1>2, AdvancesPreorder
<1>3. CASE durable' = visible
  BY <1>1, <1>3
<1>4. ASSUME NEW w \in Workers, Step(w)
      PROVE  durable' = durable \/ durable' = visible
  BY <1>4 DEF Step, Proceed, LockMutex, CloseHandle, LockFile, LockFails, Read, ReadFails,
     Replace, WriteFails, SyncDirectory, SyncFails, Prove, ProveFails
<1>5. ASSUME NEW w \in Workers, Request(w)
      PROVE  durable' = durable
  BY <1>5 DEF Request, OpenSignerVault, CreateSignerVault, Close, NextCounter,
     Sign, Method, Enter
<1>6. ASSUME Writeback \/ UNCHANGED vars \/ PowerLoss \/ \E h \in Handles : Kill(h)
      PROVE  durable' = durable \/ durable' = visible
  BY <1>6 DEF Writeback, vars, Kill, PowerLoss
<1>. QED
  BY <1>2, <1>3, <1>4, <1>5, <1>6 DEF Next

\* Once a proof exists the quota on disk is pinned.
LEMMA QuotaIsPinned ==
  ASSUME IInv, Advances(durable, durable'), proofs' = proofs
  PROVE  PinnedQuota' = PinnedQuota
<1>1. ASSUME NEW x \in Secrets, NEW i \in Issues, NEW c \in Passes,
             proofs[<<x, i, c>>] > 0
      PROVE  durable'.counters[i].k = durable.counters[i].k
  <2>1. durable # NoFile /\ c < durable.counters[i].next
    BY <1>1 DEF IInv, ProofsAreBurned
  <2>2. durable \in vaultState /\ Readable(durable)
    BY <2>1 DEF IInv, TypeOK, NeverUnreadable
  <2>3. /\ durable.counters[i].next \in Nat /\ durable.counters[i].k \in Nat
        /\ durable.counters[i].next <= durable.counters[i].k
    BY <2>2 DEF vaultState, vaultCounter, Readable
  <2>4. c \in Nat
    BY VaultAssumption DEF Passes
  <2>5. durable.counters[i].k # 0
    BY <2>1, <2>3, <2>4
  <2>. QED
    BY <2>1, <2>5 DEF Advances
<1>2. ASSUME NEW q \in Secrets \X Issues
      PROVE  (IF \E c \in Passes : proofs'[<<q[1], q[2], c>>] > 0
              THEN durable'.counters[q[2]].k ELSE 0)
             = (IF \E c \in Passes : proofs[<<q[1], q[2], c>>] > 0
                THEN durable.counters[q[2]].k ELSE 0)
  <2>1. q[1] \in Secrets /\ q[2] \in Issues
    OBVIOUS
  <2>. QED
    BY <1>1, <2>1
<1>. QED
  BY <1>2 DEF PinnedQuota

\* A successful prover call is one Issue step of OneTimePass.
LEMMA ProveIssues ==
  ASSUME IInv, NEW w \in Workers, Prove(w)
  PROVE  OTP!Next
<1>. DEFINE i == call[w].issue
            k == call[w].k
            n == state[w].counters[i].next
            x == state[w].x
            p == <<x, i, n>>
<1>1. pc[w] = "prove" /\ durable' = durable
  BY DEF Prove
<1>2. /\ x \in Secrets /\ i \in Issues /\ k \in 1 .. MaxQuota /\ n \in Passes
      /\ n < k
      /\ durable.counters[i].k = k
      /\ \A d \in Passes : proofs[<<x, i, d>>] > 0 => d < n
  BY <1>1, ProvedSlotIsFresh DEF vaultState
<1>3. proofs \in [Slots -> Nat] /\ proofs' = [proofs EXCEPT ![p] = @ + 1]
  BY DEF IInv, TypeOK, Prove, ProofSlot
<1>. HIDE DEF i, k, n, x
<1>4. \A d \in Passes : d >= n => proofs[<<x, i, d>>] = 0
  <2> SUFFICES ASSUME NEW d \in Passes, d >= n
               PROVE  proofs[<<x, i, d>>] = 0
    OBVIOUS
  <2>1. <<x, i, d>> \in Slots
    BY <1>2 DEF Slots
  <2>2. d \in Nat /\ n \in Nat
    BY <1>2, VaultAssumption DEF Passes
  <2>3. ~(d < n)
    BY <2>2
  <2>4. proofs[<<x, i, d>>] \in Nat /\ ~(proofs[<<x, i, d>>] > 0)
    BY <1>2, <1>3, <2>1, <2>3
  <2>. QED
    BY <2>4
<1>5. p \in Slots /\ n \in Nat
  BY <1>2, VaultAssumption DEF Slots, Passes
<1>6. proofs[p] = 0
  BY <1>2, <1>4, <1>5
<1>7. proofs' = [proofs EXCEPT ![p] = 1]
  BY <1>3, <1>6
<1>8. <<x, i>> \in Secrets \X Issues /\ PinnedQuota[<<x, i>>] \in {0, k}
  BY <1>2 DEF PinnedQuota
<1>9. PinnedQuota' = [PinnedQuota EXCEPT ![<<x, i>>] = k]
  <2>. DEFINE Before(q) == \E c \in Passes : proofs[<<q[1], q[2], c>>] > 0
              After(q) == \E c \in Passes : proofs'[<<q[1], q[2], c>>] > 0
  <2>1. After(<<x, i>>)
    <3>1. proofs'[p] = 1
      BY <1>3, <1>5, <1>7
    <3>. QED
      BY <1>2, <3>1
  <2>2. ASSUME NEW q \in Secrets \X Issues, q # <<x, i>>
        PROVE  After(q) <=> Before(q)
    <3>1. ASSUME NEW c \in Passes
          PROVE  proofs'[<<q[1], q[2], c>>] = proofs[<<q[1], q[2], c>>]
      <4>1. <<q[1], q[2], c>> \in Slots
        BY <3>1 DEF Slots
      <4>2. <<q[1], q[2], c>> # p
        BY <2>2
      <4>. QED
        BY <1>3, <1>7, <4>1, <4>2
    <3>. QED
      BY <3>1
  <2>3. PinnedQuota' = [q \in Secrets \X Issues |->
                           IF After(q) THEN durable.counters[q[2]].k ELSE 0]
    BY <1>1 DEF PinnedQuota
  <2>4. PinnedQuota = [q \in Secrets \X Issues |->
                           IF Before(q) THEN durable.counters[q[2]].k ELSE 0]
    BY DEF PinnedQuota
  <2>. HIDE DEF Before, After
  <2>5. ASSUME NEW q \in Secrets \X Issues
        PROVE  PinnedQuota'[q] = IF q = <<x, i>> THEN k ELSE PinnedQuota[q]
    <3>1. CASE q = <<x, i>>
      <4>1. PinnedQuota'[q] = durable.counters[q[2]].k
        BY <2>1, <2>3, <3>1
      <4>2. q[2] = i
        BY <3>1
      <4>. QED
        BY <1>2, <3>1, <4>1, <4>2
    <3>2. CASE q # <<x, i>>
      BY <2>2, <2>3, <2>4, <3>2
    <3>. QED
      BY <3>1, <3>2
  <2>6. /\ PinnedQuota' = [q \in Secrets \X Issues |-> PinnedQuota'[q]]
        /\ PinnedQuota = [q \in Secrets \X Issues |-> PinnedQuota[q]]
    BY <2>3, <2>4
  <2>. QED
    BY <1>8, <2>5, <2>6
<1>10. OTP!Issue(x, i, k, n)
  BY <1>2, <1>4, <1>7, <1>8, <1>9 DEF OTP!Issue, OTP!Passes, Passes
<1>. QED
  BY <1>2, <1>10 DEF OTP!Next, OTP!Passes, Passes

\* The wallet of vault.go implements the one-time passes of OneTimePass: each
\* pass released at most once, in increasing order, under one pinned quota.
THEOREM Refinement == Spec => ImplementsOneTimePass
<1>1. Init => OTP!Init
  <2> SUFFICES ASSUME Init PROVE OTP!Init
    OBVIOUS
  <2>1. proofs = [s \in Slots |-> 0]
    BY DEF Init
  <2>2. ASSUME NEW q \in Secrets \X Issues
        PROVE  ~ \E c \in Passes : proofs[<<q[1], q[2], c>>] > 0
    <3>1. ASSUME NEW c \in Passes
          PROVE  <<q[1], q[2], c>> \in Slots
      BY DEF Slots
    <3>2. ASSUME NEW c \in Passes
          PROVE  ~(proofs[<<q[1], q[2], c>>] > 0)
      <4>1. \A s \in Slots : proofs[s] = 0
        BY <2>1
      <4>2. proofs[<<q[1], q[2], c>>] = 0
        BY <3>1, <4>1
      <4>. QED
        BY <4>2
    <3>. QED
      BY <3>2
  <2>3. PinnedQuota = [q \in Secrets \X Issues |-> 0]
    BY <2>2 DEF PinnedQuota
  <2>. QED
    BY <2>1, <2>3 DEF OTP!Init, OTP!Slots, OTP!Keys, OTP!Passes, Slots, Passes
<1>2. IInv /\ [Next]_vars => [OTP!Next]_<<proofs, PinnedQuota>>
  <2> SUFFICES ASSUME IInv, [Next]_vars
               PROVE  OTP!Next \/ UNCHANGED <<proofs, PinnedQuota>>
    OBVIOUS
  <2>1. CASE proofs' = proofs
    BY <2>1, DurableAdvances, QuotaIsPinned
  <2>2. ASSUME NEW w \in Workers, Step(w), ~Prove(w)
        PROVE  proofs' = proofs
    BY <2>2 DEF Step, Proceed, LockMutex, CloseHandle, LockFile, LockFails, Read, ReadFails,
       Replace, WriteFails, SyncDirectory, SyncFails, ProveFails
  <2>3. ASSUME NEW w \in Workers, Request(w)
        PROVE  proofs' = proofs
    BY <2>3 DEF Request, OpenSignerVault, CreateSignerVault, Close, NextCounter,
       Sign, Method, Enter
  <2>4. CASE Writeback \/ UNCHANGED vars \/ PowerLoss \/ \E h \in Handles : Kill(h)
    BY <2>1, <2>4 DEF Writeback, vars, Kill, PowerLoss
  <2>. QED
    BY <2>1, <2>2, <2>3, <2>4, ProveIssues DEF Next
<1>. QED
  BY <1>1, <1>2, Invariance, PTL DEF Spec, ImplementsOneTimePass, OTP!Spec

=============================================================================
