----------------------------- MODULE DemoProofs -----------------------------
(***************************************************************************)
(* Proofs about Demo for any number of sessions and setups.                *)
(*                                                                         *)
(* The script's eighteen operations leave one engine each, up to the setup *)
(* in memory and the pin: the invariant says that an engine which has met  *)
(* no error is the one after the operations the worker has taken, and that *)
(* an engine which has met one still holds the reports of such an engine.  *)
(***************************************************************************)
EXTENDS Demo, SequenceTheorems, TLAPS

\* The engine after k operations of the script.
Ring(k) == IF k >= 14 THEN {3, 4} ELSE IF k >= 3 THEN 1 .. 4 ELSE {}
Epoch(k) == IF k >= 14 THEN 2 ELSE IF k >= 3 THEN 1 ELSE 0
Registry(n) == [epoch |-> n, entries |-> IF n = 2 THEN {3, 4} ELSE IF n = 1 THEN 1 .. 4 ELSE {}]
Authorized(k) == IF k >= 15 THEN 2 ELSE IF k >= 4 THEN 1 ELSE 0
AliceUsed(k) == IF k >= 10 THEN 3 ELSE IF k >= 6 THEN 2 ELSE IF k >= 5 THEN 1 ELSE 0
BobUsed(k) == IF k >= 17 THEN 2 ELSE IF k >= 8 THEN 1 ELSE 0
Wallet(k) ==
  [u \in Users |-> IF u = "alice" THEN AliceUsed(k) ELSE IF u = "bob" THEN BobUsed(k) ELSE 0]
Used(k) == [u \in {"alice", "bob"} |-> IF u = "alice" THEN AliceUsed(k) ELSE BobUsed(k)]

\* Its reports: the device and the counter of each, and what became of it.
Device(i) == IF i \in {1, 4} THEN 1 ELSE IF i \in {2, 5} THEN 2 ELSE 3
Counter(i) == IF i = 4 THEN 2 ELSE IF i \in {2, 6} THEN 1 ELSE 0
Decision(k, i) ==
  IF i # 5 THEN "accepted" ELSE IF k >= 13 THEN "rejected_reuse" ELSE "pending_trace"
At(k, s, i) ==
  [id |-> i, dev |-> Device(i), c |-> Counter(i), ring |-> IF i = 6 THEN {3, 4} ELSE 1 .. 4,
   setup |-> s, epoch |-> IF i = 6 THEN 2 ELSE 1, registry |-> Registry(IF i = 6 THEN 2 ELSE 1),
   decision |-> Decision(k, i)]
Count(k) ==
  IF k >= 17 THEN 6 ELSE IF k >= 12 THEN 5 ELSE IF k >= 10 THEN 4
  ELSE IF k >= 8 THEN 3 ELSE IF k >= 6 THEN 2 ELSE IF k >= 5 THEN 1 ELSE 0
Reports(k, s) == [i \in 1 .. Count(k) |-> At(k, s, i)]

Fields ==
  {"loaded", "pin", "run", "ring", "epoch", "entries", "registry", "authorized", "wallet",
   "used", "reports", "revoked", "bundle"}

Ran(e, k) ==
  /\ DOMAIN e = Fields
  /\ e.run = (k >= 2) /\ e.ring = Ring(k) /\ e.epoch = Epoch(k) /\ e.entries = Ring(k)
  /\ e.registry = Registry(Authorized(k)) /\ e.authorized = Authorized(k)
  /\ e.wallet = Wallet(k) /\ e.used = Used(k) /\ e.reports = Reports(k, e.loaded)
  /\ e.revoked = (k >= 16) /\ e.bundle = (k >= 18)
  /\ k >= 5 => e.pin = e.loaded
  /\ k >= 1 => e.loaded # NoSetup

\* The operations of the script, one after the other, and how many come before a step.
CompareOwn == <<"compare", 2, TRUE>>
CompareOther == <<"compare", 3, FALSE>>
Op(k) ==
  << <<"load">>, <<"open">>, <<"enroll">>, <<"authorize">>,
     <<"submit", 1>>,
     <<"submit", 2>>, CompareOwn,
     <<"submit", 3>>, CompareOther,
     <<"submit", 1>>, <<"exhaust">>,
     <<"reuse", 2>>, <<"trace">>,
     <<"revoke">>, <<"authorize">>, <<"recheck">>, <<"submit", 3>>,
     <<"export">> >>[k + 1]

Before(n) == <<0, 4, 5, 7, 9, 11, 13, 17, 18>>[n + 1]

\* The operations left of step n when k are done in all.
Todo(n, k) == [j \in 1 .. Before(n + 1) - k |-> Op(k + j - 1)]
Left(n, k, todo) ==
  \/ k \in Before(n) .. Before(n + 1) /\ todo = Todo(n, k)
  \/ /\ n = 0 /\ k = 0
     /\ \/ todo \in {<< <<"pin">>, <<"pinned">> >> \o Todo(0, 1), << <<"pinned">> >> \o Todo(0, 1)}
        \/ \E s \in 1 .. MaxSetups : todo = << <<"LoadSetup", s>> >> \o Todo(0, 1)

\* The names of the operations that load adds to the script.
Setting == {"LoadSetup", "pin", "pinned"}

Loading == worker.todo # <<>> /\ Head(worker.todo)[1] = "LoadSetup"

\* An engine that holds the reports of the script.
Holds(e) ==
  \E k \in 0 .. 18 : e.reports = Reports(k, e.loaded) /\ (k >= 5 => e.pin = e.loaded)

Disks == [setup : 0 .. MaxSetups, pin : 0 .. Torn]
Records == [ever : SUBSET (1 .. MaxSetups), session : SUBSET (1 .. MaxSetups)]

Types ==
  /\ up \in BOOLEAN /\ runs \in Nat
  /\ view \in [run : Nat, token : Nat, next : 0 .. 8, busy : BOOLEAN, failed : BOOLEAN]
  /\ disk \in Disks /\ recorded \in Records
  /\ DOMAIN worker = {"step", "todo", "err"}
  /\ late \in BOOLEAN

\* The pins in use and on disk are on record, the one about to be used as well.
OnRecord ==
  /\ SetupPinned
  /\ disk.pin \in recorded.session \cup {NoSetup, Torn}
  /\ recorded.session \subseteq recorded.ever

Disk ==
  /\ OnRecord
  /\ Loading => Head(worker.todo)[2] \in recorded.session

Busy ==
  /\ up /\ view.next < 8 /\ ~view.failed
  /\ worker.step = view.next
  /\ bundle = None /\ error = "none"
  /\ \/ worker.err = "none" /\ \E k \in 0 .. 18 : Left(view.next, k, worker.todo) /\ Ran(engine, k)
     \/ worker.err \in {"env", "late"} /\ worker.todo = <<>>

Waiting ==
  /\ worker = Idle
  /\ error \in {"none", "env", "late"}
  /\ view.failed <=> error # "none"
  /\ view.failed => view.next < 8
  /\ data = snapshot(engine)
  /\ bundle = IF view.next = 8 THEN view.run ELSE None
  /\ error = "none" => Ran(engine, Before(view.next))

Down == view = NewView(0, 0) /\ engine = Fresh(NoSetup) /\ error = "none" /\ bundle = None

IInv ==
  /\ Types
  /\ Disk
  /\ Holds(engine)
  /\ ~up => Down
  /\ view.busy => Busy
  /\ ~view.busy => Waiting

-----------------------------------------------------------------------------
(* One operation of the script *)

\* The operation after k others leaves the next engine, or fails for a reason outside
\* the program and keeps the reports.
Proceeds(r, k, e) ==
  /\ r.engine.loaded = e.loaded /\ r.engine.pin = e.pin
  /\ \/ r.err = "none" /\ Ran(r.engine, k + 1)
     \/ r.err \in {"env", "late"} /\ Holds(r.engine)

\* The four enrolled devices: two of Alice, one of Bob, one of Carol.
LEMMA Owners ==
  /\ Devices = 1 .. 4
  /\ Owner[1] = "alice" /\ Owner[2] = "alice" /\ Owner[3] = "bob" /\ Owner[4] = "carol"
BY DEF Devices, Owner

LEMMA Proceeding ==
  ASSUME NEW r, NEW k, NEW e, r.engine.loaded = e.loaded, r.engine.pin = e.pin,
         r.err = "none", Ran(r.engine, k + 1)
  PROVE  Proceeds(r, k, e)
BY DEF Proceeds

\* enroll, authorize, submit, compare, ...: each operation, run on the engine its place in
\* the script leaves, leaves the next one (engine.go).
LEMMA EnrollStep ==
  ASSUME NEW e, Ran(e, 2) PROVE Proceeds(enroll(e), 2, e)
<1>1. /\ Ring(3) = Devices /\ Epoch(3) = 1 /\ Authorized(3) = Authorized(2)
      /\ Wallet(3) = Wallet(2) /\ Used(3) = Used(2) /\ Reports(3, e.loaded) = Reports(2, e.loaded)
  BY Owners DEF Ring, Epoch, Authorized, AliceUsed, BobUsed, Wallet, Used, Reports, Count, At, Decision
<1>. DEFINE g == [e EXCEPT !.epoch = 1, !.ring = Devices, !.entries = Devices]
<1>2. DOMAIN e = Fields
  BY DEF Ran
<1>3. /\ DOMAIN g = Fields /\ g.epoch = 1 /\ g.ring = Devices /\ g.entries = Devices
      /\ g.loaded = e.loaded /\ g.pin = e.pin /\ g.run = e.run /\ g.registry = e.registry
      /\ g.authorized = e.authorized /\ g.wallet = e.wallet /\ g.used = e.used
      /\ g.reports = e.reports /\ g.revoked = e.revoked /\ g.bundle = e.bundle
  BY <1>2 DEF Fields
<1>4. enroll(e).engine = g /\ enroll(e).err = "none"
  BY DEF enroll, Done
<1>. HIDE DEF g
<1>5. Ran(g, 3)
  BY <1>1, <1>3 DEF Ran
<1>. QED BY <1>3, <1>4, <1>5, Proceeding

LEMMA AuthorizeStep ==
  ASSUME NEW e, NEW k \in {3, 14}, Ran(e, k), NEW l \in BOOLEAN
  PROVE  Proceeds(authorize(e, l), k, e)
<1>1. /\ Ring(k + 1) = Ring(k) /\ Epoch(k + 1) = Epoch(k) /\ Authorized(k + 1) = Epoch(k)
      /\ Wallet(k + 1) = Wallet(k) /\ Used(k + 1) = Used(k)
  BY DEF Ring, Epoch, Authorized, AliceUsed, BobUsed, Wallet, Used
<1>2. Reports(k + 1, e.loaded) = Reports(k, e.loaded)
  BY DEF Reports, Count, At, Decision
<1>3. Registry(Epoch(k)) = [epoch |-> Epoch(k), entries |-> Ring(k)]
  BY DEF Registry, Epoch, Ring
<1>. DEFINE g == [e EXCEPT !.registry = [epoch |-> e.epoch, entries |-> e.entries]]
            h == [g EXCEPT !.authorized = e.epoch]
<1>4. DOMAIN e = Fields
  BY DEF Ran
<1>5. /\ DOMAIN g = Fields /\ g.registry = [epoch |-> e.epoch, entries |-> e.entries]
      /\ g.epoch = e.epoch /\ g.ring = e.ring /\ g.entries = e.entries
      /\ g.loaded = e.loaded /\ g.pin = e.pin /\ g.run = e.run
      /\ g.authorized = e.authorized /\ g.wallet = e.wallet /\ g.used = e.used
      /\ g.reports = e.reports /\ g.revoked = e.revoked /\ g.bundle = e.bundle
  BY <1>4 DEF Fields
<1>6. authorize(e, l) = IF l THEN Fail(g, "late") ELSE Done(h)
  BY DEF authorize
<1>. HIDE DEF g
<1>7. /\ DOMAIN h = Fields /\ h.authorized = e.epoch /\ h.registry = g.registry
      /\ h.epoch = e.epoch /\ h.ring = e.ring /\ h.entries = e.entries
      /\ h.loaded = e.loaded /\ h.pin = e.pin /\ h.run = e.run
      /\ h.wallet = e.wallet /\ h.used = e.used
      /\ h.reports = e.reports /\ h.revoked = e.revoked /\ h.bundle = e.bundle
  BY <1>5 DEF Fields
<1>. HIDE DEF h
<1>8. Ran(h, k + 1)
  <2>1. h.registry = Registry(Authorized(k + 1)) /\ h.authorized = Authorized(k + 1)
    BY <1>1, <1>3, <1>5, <1>7 DEF Ran
  <2>. QED BY <1>1, <1>2, <1>7, <2>1 DEF Ran
<1>9. Holds(g)
  BY <1>5 DEF Holds, Ran
<1>. QED BY <1>5, <1>6, <1>7, <1>8, <1>9 DEF Proceeds, Fail, Done

\* Operation k + 1 of the script submits a report of device d: what the tables say of it.
Submits(k, d, malicious) ==
  /\ Count(k + 1) = Count(k) + 1 /\ Count(k) \in Nat
  /\ \A i \in 1 .. Count(k) : Decision(k + 1, i) = Decision(k, i)
  /\ Device(Count(k) + 1) = d /\ d \in Ring(k)
  /\ Counter(Count(k) + 1) = (IF malicious THEN 0 ELSE IF Owner[d] = "alice" THEN AliceUsed(k) ELSE BobUsed(k))
  /\ Counter(Count(k) + 1) \in 0 .. 2
  /\ Ring(k) = (IF Count(k) + 1 = 6 THEN {3, 4} ELSE 1 .. 4)
  /\ Epoch(k) = (IF Count(k) + 1 = 6 THEN 2 ELSE 1) /\ Authorized(k) = Epoch(k)
  /\ Decision(k + 1, Count(k) + 1) = (IF malicious THEN "pending_trace" ELSE "accepted")
  /\ Ring(k + 1) = Ring(k) /\ Epoch(k + 1) = Epoch(k) /\ Authorized(k + 1) = Authorized(k)
  /\ Owner[d] \in {"alice", "bob"}
  /\ AliceUsed(k + 1) = AliceUsed(k) + (IF ~malicious /\ Owner[d] = "alice" THEN 1 ELSE 0)
  /\ BobUsed(k + 1) = BobUsed(k) + (IF ~malicious /\ Owner[d] = "bob" THEN 1 ELSE 0)

\* Where the script submits, for which device, honestly or not.
LEMMA Submissions ==
  /\ Submits(4, 1, FALSE) /\ Submits(5, 2, FALSE) /\ Submits(7, 3, FALSE)
  /\ Submits(9, 1, FALSE) /\ Submits(11, 2, TRUE) /\ Submits(16, 3, FALSE)
<1>1. Submits(4, 1, FALSE)
  BY Owners DEF Submits, Count, Decision, Device, Counter, Ring, Epoch, Authorized, AliceUsed, BobUsed
<1>2. Submits(5, 2, FALSE)
  BY Owners DEF Submits, Count, Decision, Device, Counter, Ring, Epoch, Authorized, AliceUsed, BobUsed
<1>3. Submits(7, 3, FALSE)
  BY Owners DEF Submits, Count, Decision, Device, Counter, Ring, Epoch, Authorized, AliceUsed, BobUsed
<1>4. Submits(9, 1, FALSE)
  BY Owners DEF Submits, Count, Decision, Device, Counter, Ring, Epoch, Authorized, AliceUsed, BobUsed
<1>5. Submits(11, 2, TRUE)
  BY Owners DEF Submits, Count, Decision, Device, Counter, Ring, Epoch, Authorized, AliceUsed, BobUsed
<1>6. Submits(16, 3, FALSE)
  BY Owners DEF Submits, Count, Decision, Device, Counter, Ring, Epoch, Authorized, AliceUsed, BobUsed
<1>. QED BY <1>1, <1>2, <1>3, <1>4, <1>5, <1>6

\* What signing leaves of the wallets.
LEMMA SignedFields ==
  ASSUME NEW k \in 0 .. 17, NEW e, Ran(e, k), NEW d, NEW m \in BOOLEAN, Submits(k, d, m)
  PROVE  LET g == Signed(e, d, m)
         IN /\ DOMAIN g = Fields /\ g.wallet = Wallet(k + 1) /\ g.used = Used(k + 1)
            /\ g.epoch = e.epoch /\ g.ring = e.ring /\ g.entries = e.entries
            /\ g.loaded = e.loaded /\ g.pin = e.pin /\ g.run = e.run
            /\ g.authorized = e.authorized /\ g.registry = e.registry
            /\ g.reports = e.reports /\ g.revoked = e.revoked /\ g.bundle = e.bundle
<1>1. DOMAIN e = Fields /\ e.wallet = Wallet(k) /\ e.used = Used(k)
  BY DEF Ran
<1>2. /\ Owner[d] \in {"alice", "bob"}
      /\ AliceUsed(k + 1) = AliceUsed(k) + (IF ~m /\ Owner[d] = "alice" THEN 1 ELSE 0)
      /\ BobUsed(k + 1) = BobUsed(k) + (IF ~m /\ Owner[d] = "bob" THEN 1 ELSE 0)
  BY DEF Submits
<1>3. AliceUsed(k) \in Nat /\ BobUsed(k) \in Nat
  BY DEF AliceUsed, BobUsed
<1>4. CASE m
  <2>1. Wallet(k + 1) = Wallet(k) /\ Used(k + 1) = Used(k)
    BY <1>2, <1>3, <1>4 DEF Wallet, Used
  <2>. QED BY <1>1, <1>4, <2>1 DEF Signed
<1>5. CASE ~m
  <2>1. [Wallet(k) EXCEPT ![Owner[d]] = @ + 1] = Wallet(k + 1)
    BY <1>2, <1>3, <1>5 DEF Wallet, Users
  <2>2. [Used(k) EXCEPT ![Owner[d]] = Wallet(k + 1)[Owner[d]]] = Used(k + 1)
    <3>1. Wallet(k + 1)["alice"] = AliceUsed(k + 1) /\ Wallet(k + 1)["bob"] = BobUsed(k + 1)
      BY DEF Wallet, Users
    <3>. DEFINE w == Wallet(k + 1)
    <3>. HIDE DEF w
    <3>2. CASE Owner[d] = "alice"
      <4>1. BobUsed(k + 1) = BobUsed(k)
        BY <1>2, <1>3, <3>2
      <4>. QED BY <4>1, <3>1, <3>2 DEF Used, w
    <3>3. CASE Owner[d] = "bob"
      <4>1. AliceUsed(k + 1) = AliceUsed(k)
        BY <1>2, <1>3, <3>3
      <4>. QED BY <4>1, <3>1, <3>3 DEF Used, w
    <3>. QED BY <1>2, <3>2, <3>3
  <2>. DEFINE b == Burn(e, d)
  <2>3. /\ DOMAIN b = Fields /\ b.wallet = [e.wallet EXCEPT ![Owner[d]] = @ + 1] /\ b.used = e.used
        /\ b.epoch = e.epoch /\ b.ring = e.ring /\ b.entries = e.entries
        /\ b.loaded = e.loaded /\ b.pin = e.pin /\ b.run = e.run
        /\ b.authorized = e.authorized /\ b.registry = e.registry
        /\ b.reports = e.reports /\ b.revoked = e.revoked /\ b.bundle = e.bundle
    BY <1>1 DEF Burn, Fields
  <2>4. Signed(e, d, m) = NextCounter(b, d)
    BY <1>5 DEF Signed
  <2>. HIDE DEF b
  <2>. DEFINE g == [b EXCEPT !.used[Owner[d]] = b.wallet[Owner[d]]]
  <2>5. NextCounter(b, d) = g
    <3>1. Owner[d] \in DOMAIN b.used
      BY <1>1, <1>2, <2>3 DEF Used
    <3>. QED BY <3>1 DEF NextCounter
  <2>6. /\ DOMAIN g = Fields /\ g.wallet = b.wallet
        /\ g.used = [b.used EXCEPT ![Owner[d]] = b.wallet[Owner[d]]]
        /\ g.epoch = b.epoch /\ g.ring = b.ring /\ g.entries = b.entries
        /\ g.loaded = b.loaded /\ g.pin = b.pin /\ g.run = b.run
        /\ g.authorized = b.authorized /\ g.registry = b.registry
        /\ g.reports = b.reports /\ g.revoked = b.revoked /\ g.bundle = b.bundle
    BY <2>3 DEF Fields
  <2>. HIDE DEF g
  <2>7. b.wallet = Wallet(k + 1)
    BY <1>1, <2>1, <2>3
  <2>8. g.used = Used(k + 1)
    <3>1. b.used = Used(k)
      BY <1>1, <2>3
    <3>. QED BY <2>2, <2>6, <2>7, <3>1
  <2>9. Signed(e, d, m) = g
    BY <2>4, <2>5
  <2>. QED BY <2>3, <2>6, <2>7, <2>8, <2>9
<1>. QED BY <1>4, <1>5

\* The report it makes.
LEMMA ReportIs ==
  ASSUME NEW k \in 0 .. 17, NEW e, Ran(e, k), NEW d, NEW m \in BOOLEAN, Submits(k, d, m)
  PROVE  Report(e, d, m) = At(k + 1, e.loaded, Count(k) + 1)
<1>. DEFINE n == Count(k) + 1
<1>1. Len(e.reports) = Count(k)
  BY DEF Ran, Reports, Submits
<1>2. (IF m THEN 0 ELSE e.wallet[Owner[d]]) = Counter(n)
  BY DEF Ran, Wallet, Submits, Users
<1>3. e.ring = (IF n = 6 THEN {3, 4} ELSE 1 .. 4) /\ e.epoch = (IF n = 6 THEN 2 ELSE 1)
      /\ e.registry = Registry(IF n = 6 THEN 2 ELSE 1)
  BY DEF Ran, Submits
<1>4. (IF m THEN "pending_trace" ELSE "accepted") = Decision(k + 1, n) /\ Device(n) = d
  BY DEF Submits
<1>. QED BY <1>1, <1>2, <1>3, <1>4 DEF Report, At

\* A submission appends the script's next report.
LEMMA ReportsGrow ==
  ASSUME NEW k \in 0 .. 17, NEW s, NEW d, NEW m \in BOOLEAN, Submits(k, d, m)
  PROVE  Append(Reports(k, s), At(k + 1, s, Count(k) + 1)) = Reports(k + 1, s)
<1>1. Count(k) \in Nat /\ Count(k + 1) = Count(k) + 1
  BY DEF Submits
<1>2. \A i \in 1 .. Count(k) : At(k + 1, s, i) = At(k, s, i)
  BY DEF Submits, At
<1>. QED BY <1>1, <1>2 DEF Reports

\* When a report verifies under a policy and a registry.
LEMMA VerifyIs ==
  ASSUME NEW e, NEW n, NEW registry, NEW r
  PROVE  Verify(e, n, registry, r)
         <=> registry.epoch = n /\ r.setup = e.pin /\ r.ring = registry.entries
<1>. DEFINE policy == [epoch |-> n, pin |-> e.pin]
<1>1. policy.epoch = n /\ policy.pin = e.pin
  OBVIOUS
<1>. HIDE DEF policy
<1>2. Verdict(policy, registry, r.id, r) = "ok"
      <=> registry.epoch = policy.epoch /\ r.setup = policy.pin /\ r.ring = registry.entries
  BY DEF Verdict, messageRejection, policyRejection
<1>. QED BY <1>1, <1>2 DEF Verify, policy

\* It verifies under the current authorization exactly when the pin is the setup in memory.
LEMMA ReportVerifies ==
  ASSUME NEW k \in 0 .. 17, NEW e, Ran(e, k), NEW d, NEW m \in BOOLEAN, Submits(k, d, m)
  PROVE  Verify(e, e.authorized, e.registry, Report(e, d, m)) <=> e.loaded = e.pin
<1>. DEFINE r == Report(e, d, m)
<1>1. r.setup = e.loaded /\ r.ring = e.ring
  BY DEF Report
<1>. HIDE DEF r
<1>2. e.registry.epoch = e.authorized /\ e.registry.entries = e.ring
  BY DEF Ran, Registry, Submits
<1>. QED BY <1>1, <1>2, VerifyIs DEF r

\* submit: the report is signed in the slot the script says, verifies, and is kept.
LEMMA SubmitStep ==
  ASSUME NEW k \in 4 .. 17, NEW e, Ran(e, k), NEW d, NEW m \in BOOLEAN, Submits(k, d, m),
         NEW l \in BOOLEAN,
         (k >= 16) = (k + 1 >= 16), (k >= 18) = (k + 1 >= 18)
  PROVE  Proceeds(submit(e, d, m, l), k, e)
<1>. DEFINE g == Signed(e, d, m)
            r == Report(e, d, m)
            h == [g EXCEPT !.reports = Append(@, r)]
<1>1. /\ DOMAIN g = Fields /\ g.wallet = Wallet(k + 1) /\ g.used = Used(k + 1)
      /\ g.epoch = e.epoch /\ g.ring = e.ring /\ g.entries = e.entries
      /\ g.loaded = e.loaded /\ g.pin = e.pin /\ g.run = e.run
      /\ g.authorized = e.authorized /\ g.registry = e.registry
      /\ g.reports = e.reports /\ g.revoked = e.revoked /\ g.bundle = e.bundle
  BY SignedFields
<1>2. d \in e.ring /\ ~(r.c >= Quota)
  <2>1. r = At(k + 1, e.loaded, Count(k) + 1)
    BY ReportIs
  <2>2. r.c = Counter(Count(k) + 1)
    BY <2>1 DEF At
  <2>. QED BY <2>2 DEF Ran, Submits, Quota
<1>3. Verify(e, e.authorized, e.registry, r) <=> e.loaded = e.pin
  BY ReportVerifies
<1>4. r = At(k + 1, e.loaded, Count(k) + 1)
  BY ReportIs
<1>. HIDE DEF g, r
<1>5. submit(e, d, m, l) = IF l THEN Fail(g, "late")
                           ELSE IF e.loaded # e.pin THEN Fail(g, "env") ELSE Done(h)
  <2>1. CASE l
    <3>1. submit(e, d, m, l) = Fail(g, "late")
      BY <1>2, <1>3, <2>1 DEF submit, g, r
    <3>. QED BY <2>1, <3>1
  <2>2. CASE ~l /\ e.loaded # e.pin
    <3>1. submit(e, d, m, l) = Fail(g, IF e.loaded # e.pin THEN "env" ELSE "wrong")
      BY <1>2, <1>3, <2>2 DEF submit, g, r
    <3>2. (IF e.loaded # e.pin THEN "env" ELSE "wrong") = "env"
      BY <2>2
    <3>. QED BY <2>2, <3>1, <3>2
  <2>3. CASE ~l /\ e.loaded = e.pin
    BY <1>2, <1>3, <2>3 DEF submit, Kept, g, r
  <2>. QED BY <2>1, <2>2, <2>3
<1>6. Holds(g)
  BY <1>1 DEF Holds, Ran
<1>7. /\ DOMAIN h = Fields /\ h.wallet = g.wallet /\ h.used = g.used
      /\ h.epoch = g.epoch /\ h.ring = g.ring /\ h.entries = g.entries
      /\ h.loaded = g.loaded /\ h.pin = g.pin /\ h.run = g.run
      /\ h.authorized = g.authorized /\ h.registry = g.registry
      /\ h.reports = Append(g.reports, r) /\ h.revoked = g.revoked /\ h.bundle = g.bundle
  BY <1>1 DEF Fields
<1>. HIDE DEF h
<1>8. h.reports = Reports(k + 1, e.loaded)
  BY <1>1, <1>4, <1>7, ReportsGrow DEF Ran
<1>9. Ring(k + 1) = Ring(k) /\ Epoch(k + 1) = Epoch(k) /\ Authorized(k + 1) = Authorized(k)
  BY DEF Submits
<1>10. e.loaded = e.pin => Ran(h, k + 1)
  BY <1>1, <1>7, <1>8, <1>9 DEF Ran
<1>. QED BY <1>1, <1>5, <1>6, <1>7, <1>10 DEF Proceeds, Fail, Done

\* A report the engine kept, in an engine that has its setup pinned.
LEMMA KeptReport ==
  ASSUME NEW k \in 0 .. 18, NEW s, NEW i \in 1 .. Count(k)
  PROVE  Reports(k, s)[i] = At(k, s, i)
BY DEF Reports

\* A kept report under any policy of the loaded setup.
LEMMA KeptVerifies ==
  ASSUME NEW k \in 0 .. 18, NEW e, NEW i, e.pin = e.loaded, NEW n, NEW registry
  PROVE  Verify(e, n, registry, At(k, e.loaded, i))
         <=> registry.epoch = n /\ registry.entries = At(k, e.loaded, i).ring
<1>1. At(k, e.loaded, i).setup = e.pin
  BY DEF At
<1>. QED BY <1>1, VerifyIs

\* The reports of the first epoch verify while its registry is the current one.
LEMMA FirstEpochVerifies ==
  ASSUME NEW k \in 5 .. 13, NEW e, Ran(e, k), NEW i \in 1 .. 5
  PROVE  Verify(e, e.authorized, e.registry, At(k, e.loaded, i))
<1>1. e.registry.epoch = e.authorized /\ e.registry.entries = 1 .. 4 /\ e.pin = e.loaded
  BY DEF Ran, Registry, Authorized
<1>. DEFINE r == At(k, e.loaded, i)
<1>2. r.ring = 1 .. 4 /\ r.setup = e.loaded
  BY DEF At
<1>. HIDE DEF r
<1>3. Verify(e, e.authorized, e.registry, r)
  BY <1>1, <1>2, VerifyIs
<1>. QED BY <1>3 DEF r

\* Operations that change nothing of the reports and the rest of the engine.
LEMMA CompareStep ==
  ASSUME NEW e, NEW k \in {6, 8}, Ran(e, k), NEW l \in BOOLEAN
  PROVE  /\ k = 6 => Proceeds(compare(e, 2, TRUE, l), k, e)
         /\ k = 8 => Proceeds(compare(e, 3, FALSE, l), k, e)
<1>. DEFINE b == IF k = 6 THEN 2 ELSE 3
            x == e.reports[1]
            y == e.reports[b]
<1>1. x = At(k, e.loaded, 1) /\ y = At(k, e.loaded, b)
  <2>1. Count(k) = (IF k = 6 THEN 2 ELSE 3)
    BY DEF Count
  <2>. QED BY <2>1, KeptReport DEF Ran
<1>2. /\ Owner[x.dev] = "alice" /\ x.c = 0 /\ x.ring = 1 .. 4
      /\ y.ring = 1 .. 4
      /\ k = 6 => Owner[y.dev] = "alice" /\ y.c = 1
      /\ k = 8 => Owner[y.dev] = "bob"
  <2>1. x.dev = Device(1) /\ x.c = Counter(1) /\ x.ring = 1 .. 4
    BY <1>1 DEF At
  <2>2. y.dev = Device(b) /\ y.c = Counter(b) /\ y.ring = 1 .. 4
    BY <1>1 DEF At
  <2>. HIDE DEF x, y
  <2>. QED BY <2>1, <2>2, Owners DEF Device, Counter
<1>4. \A r \in {x, y} : Verify(e, e.authorized, e.registry, r)
  <2>1. /\ Verify(e, e.authorized, e.registry, x)
        /\ Verify(e, e.authorized, e.registry, y)
    BY <1>1, FirstEpochVerifies
  <2>. HIDE DEF x, y
  <2>. QED BY <2>1
<1>. HIDE DEF x, y
<1>5. k = 6 => TraceCurrent(e, x, y) = <<"legal">>
  <2>1. TraceCurrent(e, x, y) = Trace(x, y)
    BY <1>4 DEF TraceCurrent
  <2>2. k = 6 => Trace(x, y) = <<"legal">>
    BY <1>2 DEF Trace
  <2>. QED BY <2>1, <2>2
<1>6. k = 6 => compare(e, 2, TRUE, l) = IF l THEN Fail(e, "late") ELSE Done(e)
  <2>1. k = 6 => y = e.reports[2]
    BY DEF y
  <2>. QED BY <1>2, <1>5, <2>1 DEF compare, x
<1>9. k = 8 => compare(e, 3, FALSE, l) = Done(e)
  <2>1. k = 8 => y = e.reports[3]
    BY DEF y
  <2>. QED BY <1>2, <2>1 DEF compare, x
<1>7. Ran(e, k + 1)
  <2>1. /\ Ring(k + 1) = Ring(k) /\ Epoch(k + 1) = Epoch(k) /\ Authorized(k + 1) = Authorized(k)
        /\ Wallet(k + 1) = Wallet(k) /\ Used(k + 1) = Used(k)
    BY DEF Ring, Epoch, Authorized, AliceUsed, BobUsed, Wallet, Used
  <2>2. Reports(k + 1, e.loaded) = Reports(k, e.loaded)
    BY DEF Reports, Count, At, Decision
  <2>. QED BY <2>1, <2>2 DEF Ran
<1>8. Holds(e)
  BY DEF Ran, Holds
<1>10. Proceeds(Fail(e, "late"), k, e)
  BY <1>8 DEF Proceeds, Fail
<1>11. Proceeds(Done(e), k, e)
  BY <1>7 DEF Proceeds, Done
<1>12. CASE l
  BY <1>6, <1>9, <1>10, <1>11, <1>12
<1>13. CASE ~l
  BY <1>6, <1>9, <1>11, <1>13
<1>. QED BY <1>12, <1>13

\* exhaust: Alice's wallet has reached the quota.
LEMMA ExhaustStep ==
  ASSUME NEW e, Ran(e, 10) PROVE Proceeds(exhaust(e), 10, e)
<1>1. /\ Ring(11) = Ring(10) /\ Epoch(11) = Epoch(10) /\ Authorized(11) = Authorized(10)
      /\ Wallet(11) = Wallet(10) /\ Used(11) = Used(10)
  BY DEF Ring, Epoch, Authorized, AliceUsed, BobUsed, Wallet, Used
<1>2. Reports(11, e.loaded) = Reports(10, e.loaded)
  BY DEF Reports, Count, At, Decision
<1>3. Ran(e, 11)
  BY <1>1, <1>2 DEF Ran
<1>4. e.wallet["alice"] = Quota
  BY DEF Ran, Wallet, AliceUsed, Users, Quota
<1>. QED BY <1>3, <1>4, Proceeding DEF exhaust, Done

\* traceReuse: the malicious report and the first one trace to Alice.
LEMMA TraceStep ==
  ASSUME NEW e, Ran(e, 12), NEW l \in BOOLEAN
  PROVE  Proceeds(traceReuse(e, l), 12, e)
<1>. DEFINE x == e.reports[1]
            y == e.reports[5]
            g == [e EXCEPT !.reports[5].decision = "rejected_reuse"]
<1>1. Len(e.reports) = 5 /\ x = At(12, e.loaded, 1) /\ y = At(12, e.loaded, 5)
  <2>1. Count(12) = 5
    BY DEF Count
  <2>. QED BY <2>1, KeptReport DEF Ran, Reports
<1>2. /\ Owner[x.dev] = "alice" /\ x.c = 0 /\ x.ring = 1 .. 4 /\ x.id = 1
      /\ Owner[y.dev] = "alice" /\ y.c = 0 /\ y.ring = 1 .. 4 /\ y.id = 5
  <2>1. x.dev = Device(1) /\ x.c = Counter(1) /\ x.ring = 1 .. 4 /\ x.id = 1
    BY <1>1 DEF At
  <2>2. y.dev = Device(5) /\ y.c = Counter(5) /\ y.ring = 1 .. 4 /\ y.id = 5
    BY <1>1 DEF At
  <2>. HIDE DEF x, y
  <2>. QED BY <2>1, <2>2, Owners DEF Device, Counter
<1>4. \A r \in {x, y} : Verify(e, e.authorized, e.registry, r)
  <2>1. /\ Verify(e, e.authorized, e.registry, x)
        /\ Verify(e, e.authorized, e.registry, y)
    BY <1>1, FirstEpochVerifies
  <2>. HIDE DEF x, y
  <2>. QED BY <2>1
<1>. HIDE DEF x, y
<1>5. TraceCurrent(e, x, y) = <<"traced", "alice">>
  BY <1>2, <1>4 DEF TraceCurrent, Trace
<1>6. traceReuse(e, l) = IF l THEN Fail(e, "late") ELSE Done(g)
  BY <1>1, <1>5 DEF traceReuse, x, y
<1>7. DOMAIN e = Fields /\ e.reports = Reports(12, e.loaded)
  BY DEF Ran
<1>8. /\ DOMAIN g = Fields /\ g.reports = [e.reports EXCEPT ![5].decision = "rejected_reuse"]
      /\ g.epoch = e.epoch /\ g.ring = e.ring /\ g.entries = e.entries
      /\ g.loaded = e.loaded /\ g.pin = e.pin /\ g.run = e.run
      /\ g.authorized = e.authorized /\ g.registry = e.registry
      /\ g.wallet = e.wallet /\ g.used = e.used /\ g.revoked = e.revoked /\ g.bundle = e.bundle
  BY <1>7 DEF Fields
<1>. HIDE DEF g
<1>9. g.reports = Reports(13, e.loaded)
  <2>1. [At(12, e.loaded, 5) EXCEPT !.decision = "rejected_reuse"] = At(13, e.loaded, 5)
    BY DEF At, Decision
  <2>2. \A i \in 1 .. 4 : At(13, e.loaded, i) = At(12, e.loaded, i)
    BY DEF At, Decision
  <2>3. Count(12) = 5 /\ Count(13) = 5
    BY DEF Count
  <2>4. [Reports(12, e.loaded) EXCEPT ![5].decision = "rejected_reuse"]
        = [Reports(12, e.loaded) EXCEPT ![5] = At(13, e.loaded, 5)]
    <3>. DEFINE R == Reports(12, e.loaded)
    <3>1. R[5] = At(12, e.loaded, 5)
      BY <2>3, KeptReport
    <3>. HIDE DEF R
    <3>2. [R EXCEPT ![5].decision = "rejected_reuse"]
          = [R EXCEPT ![5] = [R[5] EXCEPT !.decision = "rejected_reuse"]]
      OBVIOUS
    <3>. QED BY <2>1, <3>1, <3>2 DEF R
  <2>5. [Reports(12, e.loaded) EXCEPT ![5] = At(13, e.loaded, 5)] = Reports(13, e.loaded)
    <3>. DEFINE F == [i \in 1 .. 5 |-> At(12, e.loaded, i)]
                G == [i \in 1 .. 5 |-> At(13, e.loaded, i)]
                a == At(13, e.loaded, 5)
    <3>1. Reports(12, e.loaded) = F /\ Reports(13, e.loaded) = G
      BY <2>3 DEF Reports
    <3>2. DOMAIN [F EXCEPT ![5] = a] = DOMAIN G
      OBVIOUS
    <3>3. ASSUME NEW i \in 1 .. 5 PROVE [F EXCEPT ![5] = a][i] = G[i]
      BY <2>2
    <3>4. [F EXCEPT ![5] = a] = G
      BY <3>3
    <3>. QED BY <3>1, <3>4
  <2>. QED BY <1>7, <1>8, <2>4, <2>5
<1>10. Ran(g, 13)
  <2>1. /\ Ring(13) = Ring(12) /\ Epoch(13) = Epoch(12) /\ Authorized(13) = Authorized(12)
        /\ Wallet(13) = Wallet(12) /\ Used(13) = Used(12)
    BY DEF Ring, Epoch, Authorized, AliceUsed, BobUsed, Wallet, Used
  <2>. QED BY <1>8, <1>9, <2>1 DEF Ran
<1>11. Holds(e)
  BY DEF Ran, Holds
<1>. QED BY <1>6, <1>8, <1>10, <1>11 DEF Proceeds, Fail, Done

\* The devices that stay when Alice's are removed.
LEMMA OthersStay == {d \in 1 .. 4 : Owner[d] # "alice"} = {3, 4}
<1>1. \A d \in 1 .. 4 : d = 1 \/ d = 2 \/ d = 3 \/ d = 4
  OBVIOUS
<1>. QED BY <1>1, Owners

\* revoke: Bob's and Carol's devices remain.
LEMMA RevokeStep ==
  ASSUME NEW e, Ran(e, 13) PROVE Proceeds(revoke(e), 13, e)
<1>. DEFINE g == [e EXCEPT !.ring = {3, 4}, !.epoch = 2, !.entries = {3, 4}]
<1>1. DOMAIN e = Fields /\ e.ring = 1 .. 4 /\ e.entries = 1 .. 4
  BY DEF Ran, Ring
<1>2. revoke(e) = Done(g)
  <2>1. [e EXCEPT !.ring = {3, 4}, !.epoch = 2, !.entries = {d \in @ : Owner[d] # "alice"}]
        = [e EXCEPT !.ring = {3, 4}, !.epoch = 2, !.entries = {d \in e.entries : Owner[d] # "alice"}]
    BY <1>1 DEF Fields
  <2>2. {d \in e.ring : Owner[d] # "alice"} = {3, 4} /\ {d \in e.entries : Owner[d] # "alice"} = {3, 4}
    BY <1>1, OthersStay
  <2>. QED BY <2>1, <2>2 DEF revoke
<1>3. /\ DOMAIN g = Fields /\ g.ring = {3, 4} /\ g.epoch = 2 /\ g.entries = {3, 4}
      /\ g.loaded = e.loaded /\ g.pin = e.pin /\ g.run = e.run /\ g.registry = e.registry
      /\ g.authorized = e.authorized /\ g.wallet = e.wallet /\ g.used = e.used
      /\ g.reports = e.reports /\ g.revoked = e.revoked /\ g.bundle = e.bundle
  BY <1>1 DEF Fields
<1>. HIDE DEF g
<1>4. /\ Ring(14) = {3, 4} /\ Epoch(14) = 2 /\ Authorized(14) = Authorized(13)
      /\ Wallet(14) = Wallet(13) /\ Used(14) = Used(13)
  BY DEF Ring, Epoch, Authorized, AliceUsed, BobUsed, Wallet, Used
<1>5. Reports(14, e.loaded) = Reports(13, e.loaded)
  BY DEF Reports, Count, At, Decision
<1>6. Ran(g, 14)
  BY <1>3, <1>4, <1>5 DEF Ran
<1>. QED BY <1>2, <1>3, <1>6, Proceeding DEF Done

\* The checks after a revocation come out as the scenario expects.
LEMMA RecheckStep ==
  ASSUME NEW e, Ran(e, 15), NEW l \in BOOLEAN
  PROVE  Proceeds(recheck(e, l), 15, e)
<1>. DEFINE first == e.reports[1]
            g == [e EXCEPT !.revoked = TRUE]
<1>1. first = At(15, e.loaded, 1)
  <2>1. Count(15) = 5
    BY DEF Count
  <2>. QED BY <2>1, KeptReport DEF Ran
<1>2. /\ first.setup = e.loaded /\ first.ring = 1 .. 4 /\ first.epoch = 1
      /\ first.registry = Registry(1)
  BY <1>1 DEF At
<1>. HIDE DEF first
<1>3. /\ Registry(1).epoch = 1 /\ Registry(1).entries = 1 .. 4
      /\ Registry(2).epoch = 2 /\ Registry(2).entries = {3, 4}
  BY DEF Registry
<1>4. e.authorized = 2 /\ e.registry = Registry(2) /\ e.ring = {3, 4} /\ e.pin = e.loaded
  BY DEF Ran, Authorized, Ring
<1>5. 1 .. 4 # {3, 4}
  OBVIOUS
<1>6. /\ ~Verify(e, e.authorized, first.registry, first)
      /\ ~Verify(e, e.authorized, e.registry, first)
      /\ Verify(e, first.epoch, first.registry, first)
  BY <1>2, <1>3, <1>4, <1>5, VerifyIs
<1>7. ~ \E d \in e.ring : Owner[d] = "alice"
  BY <1>4, Owners
<1>8. recheck(e, l) = IF l THEN Fail(g, "late") ELSE Done(g)
  <2>1. CASE l
    BY <2>1 DEF recheck
  <2>2. CASE ~l
    <3>1. recheck(e, l) = Done(g)
      BY <1>6, <1>7, <2>2 DEF recheck, first
    <3>. QED BY <2>2, <3>1
  <2>. QED BY <2>1, <2>2
<1>9. DOMAIN e = Fields
  BY DEF Ran
<1>10. /\ DOMAIN g = Fields /\ g.ring = e.ring /\ g.epoch = e.epoch /\ g.entries = e.entries
       /\ g.loaded = e.loaded /\ g.pin = e.pin /\ g.run = e.run /\ g.registry = e.registry
       /\ g.authorized = e.authorized /\ g.wallet = e.wallet /\ g.used = e.used
       /\ g.reports = e.reports /\ g.revoked = TRUE /\ g.bundle = e.bundle
  BY <1>9 DEF Fields
<1>. HIDE DEF g
<1>11. /\ Ring(16) = Ring(15) /\ Epoch(16) = Epoch(15) /\ Authorized(16) = Authorized(15)
       /\ Wallet(16) = Wallet(15) /\ Used(16) = Used(15)
  BY DEF Ring, Epoch, Authorized, AliceUsed, BobUsed, Wallet, Used
<1>12. Reports(16, e.loaded) = Reports(15, e.loaded)
  BY DEF Reports, Count, At, Decision
<1>13. Ran(g, 16)
  <2>1. g.revoked = (16 >= 16)
    <3>1. (16 >= 16) = TRUE
      OBVIOUS
    <3>2. g.revoked = TRUE
      BY <1>10
    <3>. QED BY <3>1, <3>2, Zenon
  <2>2. g.run = (16 >= 2) /\ g.bundle = (16 >= 18)
    BY <1>10 DEF Ran
  <2>3. /\ g.ring = Ring(16) /\ g.epoch = Epoch(16) /\ g.entries = Ring(16)
        /\ g.registry = Registry(Authorized(16)) /\ g.authorized = Authorized(16)
        /\ g.wallet = Wallet(16) /\ g.used = Used(16) /\ g.reports = Reports(16, g.loaded)
        /\ g.pin = g.loaded /\ g.loaded # NoSetup
    BY <1>10, <1>11, <1>12 DEF Ran
  <2>. QED BY <1>10, <2>1, <2>2, <2>3 DEF Ran
<1>14. Holds(g)
  BY <1>10 DEF Ran, Holds
<1>. QED BY <1>8, <1>10, <1>13, <1>14 DEF Proceeds, Fail, Done

\* What the verifier of the archive says of a report.
LEMMA CommandIs ==
  ASSUME NEW args, args.setup = args.policy.pin, args.signature.setup = args.policy.pin,
         args.signature.ring = args.registry.entries
  PROVE  /\ (/\ args.registry.epoch = args.policy.epoch
             /\ args.signature.id = args.message) => authorizedVerifyCommand(args) = "ok"
         /\ (/\ args.registry.epoch = args.policy.epoch
             /\ args.signature.id # args.message) => authorizedVerifyCommand(args) = messageRejection
         /\ args.registry.epoch # args.policy.epoch => authorizedVerifyCommand(args) = policyRejection
BY DEF authorizedVerifyCommand, Verdict

\* exportAndVerify: every verifier process answers as expected.
LEMMA ExportStep ==
  ASSUME NEW e, Ran(e, 17), NEW l \in BOOLEAN
  PROVE  Proceeds(exportAndVerify(e, l), 17, e)
<1>. DEFINE files == exportFiles(e)
            args(i) == verifierArgs(files, i)
            g == [e EXCEPT !.bundle = TRUE]
<1>1. DOMAIN e.reports = 1 .. 6 /\ \A i \in 1 .. 6 : e.reports[i] = At(17, e.loaded, i)
  BY DEF Ran, Reports, Count
<1>2. files.setup = e.pin /\ files.reports = e.reports /\ files.current = [epoch |-> 2, pin |-> e.pin]
  BY DEF exportFiles, Ran, Epoch
<1>. HIDE DEF files
<1>3. ASSUME NEW i \in 1 .. 6
      PROVE  /\ args(i).setup = e.pin /\ args(i).policy = [epoch |-> e.reports[i].epoch, pin |-> e.pin]
             /\ args(i).registry = e.reports[i].registry /\ args(i).message = i
             /\ args(i).signature = e.reports[i]
             /\ DOMAIN args(i) = {"setup", "policy", "registry", "message", "signature"}
  BY <1>2 DEF verifierArgs
<1>. HIDE DEF args
<1>4. ASSUME NEW i \in 1 .. 6
      PROVE  LET r == e.reports[i]
             IN /\ r.setup = e.pin /\ r.id = i /\ (i = 1 => r.epoch = 1)
                /\ r.registry.epoch = r.epoch /\ r.registry.entries = r.ring
  <2>1. e.pin = e.loaded
    BY DEF Ran
  <2>. DEFINE r == At(17, e.loaded, i)
  <2>2. /\ r.setup = e.loaded /\ r.id = i /\ r.epoch = (IF i = 6 THEN 2 ELSE 1)
        /\ r.registry = Registry(IF i = 6 THEN 2 ELSE 1) /\ r.ring = (IF i = 6 THEN {3, 4} ELSE 1 .. 4)
    BY DEF At
  <2>3. /\ Registry(1).epoch = 1 /\ Registry(1).entries = 1 .. 4
        /\ Registry(2).epoch = 2 /\ Registry(2).entries = {3, 4}
    BY DEF Registry
  <2>. HIDE DEF r
  <2>4. r.registry.epoch = r.epoch /\ r.registry.entries = r.ring /\ (i = 1 => r.epoch = 1)
    BY <2>2, <2>3
  <2>5. e.reports[i] = r
    BY <1>1 DEF r
  <2>. QED BY <2>1, <2>2, <2>4, <2>5
<1>6. \A i \in DOMAIN e.reports : runVerifier(args(i), "ok")
  <2>1. SUFFICES ASSUME NEW i \in 1 .. 6 PROVE authorizedVerifyCommand(args(i)) = "ok"
    BY <1>1 DEF runVerifier
  <2>2. /\ args(i).setup = args(i).policy.pin /\ args(i).signature.setup = args(i).policy.pin
        /\ args(i).signature.id = args(i).message
    BY <1>3, <1>4
  <2>3. /\ args(i).signature.ring = args(i).registry.entries
        /\ args(i).registry.epoch = args(i).policy.epoch
    BY <1>3, <1>4
  <2>. QED BY <2>2, <2>3, CommandIs
<1>7. runVerifier([args(1) EXCEPT !.message = 0], messageRejection)
  <2>. DEFINE a == [args(1) EXCEPT !.message = 0]
  <2>1. /\ a.setup = args(1).setup /\ a.policy = args(1).policy /\ a.registry = args(1).registry
        /\ a.message = 0 /\ a.signature = args(1).signature
    BY <1>3
  <2>. HIDE DEF a
  <2>2. /\ a.setup = a.policy.pin /\ a.signature.setup = a.policy.pin /\ a.signature.id # a.message
        /\ a.signature.ring = a.registry.entries /\ a.registry.epoch = a.policy.epoch
    BY <1>3, <1>4, <2>1
  <2>3. authorizedVerifyCommand(a) = messageRejection
    BY <2>2, CommandIs
  <2>. QED BY <2>3 DEF runVerifier, a
<1>8. runVerifier([args(1) EXCEPT !.policy = files.current], policyRejection)
  <2>. DEFINE a == [args(1) EXCEPT !.policy = files.current]
  <2>1. /\ a.setup = args(1).setup /\ a.message = args(1).message /\ a.registry = args(1).registry
        /\ a.policy = files.current /\ a.signature = args(1).signature
    BY <1>3
  <2>. HIDE DEF a
  <2>2. /\ a.setup = a.policy.pin /\ a.signature.setup = a.policy.pin
        /\ a.signature.ring = a.registry.entries /\ a.registry.epoch # a.policy.epoch
    BY <1>2, <1>3, <1>4, <2>1
  <2>3. authorizedVerifyCommand(a) = policyRejection
    BY <2>2, CommandIs
  <2>. QED BY <2>3 DEF runVerifier, a
<1>9. exportAndVerify(e, l) = IF l THEN Fail(e, "late") ELSE Done(g)
  BY <1>6, <1>7, <1>8 DEF exportAndVerify, files, args
<1>10. DOMAIN e = Fields
  BY DEF Ran
<1>11. /\ DOMAIN g = Fields /\ g.ring = e.ring /\ g.epoch = e.epoch /\ g.entries = e.entries
       /\ g.loaded = e.loaded /\ g.pin = e.pin /\ g.run = e.run /\ g.registry = e.registry
       /\ g.authorized = e.authorized /\ g.wallet = e.wallet /\ g.used = e.used
       /\ g.reports = e.reports /\ g.revoked = e.revoked /\ g.bundle = TRUE
  BY <1>10 DEF Fields
<1>. HIDE DEF g
<1>12. /\ Ring(18) = Ring(17) /\ Epoch(18) = Epoch(17) /\ Authorized(18) = Authorized(17)
       /\ Wallet(18) = Wallet(17) /\ Used(18) = Used(17)
  BY DEF Ring, Epoch, Authorized, AliceUsed, BobUsed, Wallet, Used
<1>13. Reports(18, e.loaded) = Reports(17, e.loaded)
  BY DEF Reports, Count, At, Decision
<1>14. Ran(g, 18)
  <2>1. g.bundle = (18 >= 18)
    <3>1. (18 >= 18) = TRUE
      OBVIOUS
    <3>2. g.bundle = TRUE
      BY <1>11
    <3>. QED BY <3>1, <3>2, Zenon
  <2>2. g.run = (18 >= 2) /\ g.revoked = (18 >= 16)
    BY <1>11 DEF Ran
  <2>3. /\ g.ring = Ring(18) /\ g.epoch = Epoch(18) /\ g.entries = Ring(18)
        /\ g.registry = Registry(Authorized(18)) /\ g.authorized = Authorized(18)
        /\ g.wallet = Wallet(18) /\ g.used = Used(18) /\ g.reports = Reports(18, g.loaded)
        /\ g.pin = g.loaded /\ g.loaded # NoSetup
    BY <1>11, <1>12, <1>13 DEF Ran
  <2>. QED BY <1>11, <2>1, <2>2, <2>3 DEF Ran
<1>15. Holds(e)
  BY DEF Ran, Holds
<1>. QED BY <1>9, <1>11, <1>14, <1>15 DEF Proceeds, Fail, Done

\* Every operation after the run is opened.
LEMMA OperationStep ==
  ASSUME NEW k \in 2 .. 17, NEW e, Ran(e, k), NEW l \in BOOLEAN
  PROVE  Proceeds(Perform(Op(k), e, l), k, e)
<1>1. CASE k = 2
  <2>1. Op(k)[1] = "enroll"
    BY <1>1 DEF Op
  <2>2. Perform(Op(k), e, l) = enroll(e)
    BY <2>1 DEF Perform
  <2>3. Proceeds(enroll(e), k, e)
    <3>1. Ran(e, 2)
      BY <1>1
    <3>2. Proceeds(enroll(e), 2, e)
      BY <3>1, EnrollStep
    <3>. QED BY <1>1, <3>2
  <2>. QED BY <2>2, <2>3
<1>2. CASE k \in {3, 14}
  <2>1. Op(k)[1] = "authorize"
    BY <1>2 DEF Op
  <2>2. Perform(Op(k), e, l) = authorize(e, l)
    BY <2>1 DEF Perform
  <2>3. Proceeds(authorize(e, l), k, e)
    BY <1>2, AuthorizeStep
  <2>. QED BY <2>2, <2>3
<1>3. CASE k \in {4, 5, 7, 9, 16}
  <2>. DEFINE d == IF k \in {4, 9} THEN 1 ELSE IF k = 5 THEN 2 ELSE 3
  <2>1. Op(k)[1] = "submit" /\ Op(k)[2] = d
    BY <1>3 DEF Op
  <2>2. Submits(k, d, FALSE)
    BY <1>3, Submissions
  <2>3. k \in 4 .. 17 /\ (k >= 16) = (k + 1 >= 16) /\ (k >= 18) = (k + 1 >= 18)
    BY <1>3
  <2>. HIDE DEF d
  <2>4. Proceeds(submit(e, d, FALSE, l), k, e)
    BY <2>2, <2>3, SubmitStep
  <2>5. Perform(Op(k), e, l) = submit(e, Op(k)[2], FALSE, l)
    BY <2>1 DEF Perform
  <2>. QED BY <2>1, <2>4, <2>5
<1>4. CASE k = 11
  <2>1. Op(k)[1] = "reuse" /\ Op(k)[2] = 2
    BY <1>4 DEF Op
  <2>2. Submits(k, 2, TRUE)
    BY <1>4, Submissions
  <2>3. k \in 4 .. 17 /\ (k >= 16) = (k + 1 >= 16) /\ (k >= 18) = (k + 1 >= 18)
    BY <1>4
  <2>4. Proceeds(submit(e, 2, TRUE, l), k, e)
    BY <2>2, <2>3, SubmitStep
  <2>5. Perform(Op(k), e, l) = submit(e, Op(k)[2], TRUE, l)
    BY <2>1 DEF Perform
  <2>. QED BY <2>1, <2>4, <2>5
<1>5. CASE k = 6
  <2>1. Op(k)[1] = "compare" /\ Op(k)[2] = 2 /\ Op(k)[3] = TRUE
    <3>1. Op(k) = CompareOwn
      BY <1>5 DEF Op
    <3>. QED BY <3>1 DEF CompareOwn
  <2>2. Proceeds(compare(e, 2, TRUE, l), k, e)
    BY <1>5, CompareStep
  <2>3. Perform(Op(k), e, l) = compare(e, Op(k)[2], Op(k)[3], l)
    BY <2>1 DEF Perform
  <2>. QED BY <2>1, <2>2, <2>3
<1>6. CASE k = 8
  <2>1. Op(k)[1] = "compare" /\ Op(k)[2] = 3 /\ Op(k)[3] = FALSE
    <3>1. Op(k) = CompareOther
      BY <1>6 DEF Op
    <3>. QED BY <3>1 DEF CompareOther
  <2>2. Proceeds(compare(e, 3, FALSE, l), k, e)
    BY <1>6, CompareStep
  <2>3. Perform(Op(k), e, l) = compare(e, Op(k)[2], Op(k)[3], l)
    BY <2>1 DEF Perform
  <2>. QED BY <2>1, <2>2, <2>3
<1>7. CASE k = 10
  <2>1. Op(k)[1] = "exhaust"
    BY <1>7 DEF Op
  <2>2. Perform(Op(k), e, l) = exhaust(e)
    BY <2>1 DEF Perform
  <2>3. Proceeds(exhaust(e), k, e)
    <3>1. Ran(e, 10)
      BY <1>7
    <3>2. Proceeds(exhaust(e), 10, e)
      BY <3>1, ExhaustStep
    <3>. QED BY <1>7, <3>2
  <2>. QED BY <2>2, <2>3
<1>8. CASE k = 12
  <2>1. Op(k)[1] = "trace"
    BY <1>8 DEF Op
  <2>2. Perform(Op(k), e, l) = traceReuse(e, l)
    BY <2>1 DEF Perform
  <2>3. Proceeds(traceReuse(e, l), k, e)
    <3>1. Ran(e, 12)
      BY <1>8
    <3>2. Proceeds(traceReuse(e, l), 12, e)
      BY <3>1, TraceStep
    <3>. QED BY <1>8, <3>2
  <2>. QED BY <2>2, <2>3
<1>9. CASE k = 13
  <2>1. Op(k)[1] = "revoke"
    BY <1>9 DEF Op
  <2>2. Perform(Op(k), e, l) = revoke(e)
    BY <2>1 DEF Perform
  <2>3. Proceeds(revoke(e), k, e)
    <3>1. Ran(e, 13)
      BY <1>9
    <3>2. Proceeds(revoke(e), 13, e)
      BY <3>1, RevokeStep
    <3>. QED BY <1>9, <3>2
  <2>. QED BY <2>2, <2>3
<1>10. CASE k = 15
  <2>1. Op(k)[1] = "recheck"
    BY <1>10 DEF Op
  <2>2. Perform(Op(k), e, l) = recheck(e, l)
    BY <2>1 DEF Perform
  <2>3. Proceeds(recheck(e, l), k, e)
    <3>1. Ran(e, 15)
      BY <1>10
    <3>2. Proceeds(recheck(e, l), 15, e)
      BY <3>1, RecheckStep
    <3>. QED BY <1>10, <3>2
  <2>. QED BY <2>2, <2>3
<1>11. CASE k = 17
  <2>1. Op(k)[1] = "export"
    BY <1>11 DEF Op
  <2>2. Perform(Op(k), e, l) = exportAndVerify(e, l)
    BY <2>1 DEF Perform
  <2>3. Proceeds(exportAndVerify(e, l), k, e)
    <3>1. Ran(e, 17)
      BY <1>11
    <3>2. Proceeds(exportAndVerify(e, l), 17, e)
      BY <3>1, ExportStep
    <3>. QED BY <1>11, <3>2
  <2>. QED BY <2>2, <2>3
<1>. QED BY <1>1, <1>2, <1>3, <1>4, <1>5, <1>6, <1>7, <1>8, <1>9, <1>10, <1>11

-----------------------------------------------------------------------------
(* What is left of a step *)

\* Which operations belong to which step.
LEMMA BeforeIs ==
  /\ Before(0) = 0 /\ Before(1) = 4 /\ Before(2) = 5 /\ Before(3) = 7 /\ Before(4) = 9
  /\ Before(5) = 11 /\ Before(6) = 13 /\ Before(7) = 17 /\ Before(8) = 18
BY DEF Before

LEMMA BeforeGrows ==
  ASSUME NEW n \in 0 .. 7
  PROVE  /\ Before(n) \in 0 .. 18 /\ Before(n + 1) \in 0 .. 18 /\ Before(n) < Before(n + 1)
         /\ n >= 1 => Before(n) >= 4
BY BeforeIs

\* The script of a step is the operations between its ends.
LEMMA StepIsTodo ==
  ASSUME NEW n \in 0 .. 7 PROVE step(n) = Todo(n, Before(n))
<1>1. CASE n = 0
  BY <1>1, BeforeIs DEF step, Script, Todo, Op
<1>2. CASE n = 1
  BY <1>2, BeforeIs DEF step, Script, Todo, Op
<1>3. CASE n = 2
  <2>1. Todo(2, 5) = <<Op(5), Op(6)>>
    BY BeforeIs DEF Todo
  <2>2. Script[3] = <<Op(5), Op(6)>>
    <3>1. Op(5) = <<"submit", 2>>
      BY DEF Op
    <3>2. Op(6) = CompareOwn
      BY DEF Op
    <3>3. Script[3] = << <<"submit", 2>>, CompareOwn >>
      BY DEF Script, CompareOwn
    <3>. QED BY <3>1, <3>2, <3>3
  <2>. QED BY <1>3, <2>1, <2>2, BeforeIs DEF step
<1>4. CASE n = 3
  <2>1. Todo(3, 7) = <<Op(7), Op(8)>>
    BY BeforeIs DEF Todo
  <2>2. Script[4] = <<Op(7), Op(8)>>
    <3>1. Op(7) = <<"submit", 3>>
      BY DEF Op
    <3>2. Op(8) = CompareOther
      BY DEF Op
    <3>3. Script[4] = << <<"submit", 3>>, CompareOther >>
      BY DEF Script, CompareOther
    <3>. QED BY <3>1, <3>2, <3>3
  <2>. QED BY <1>4, <2>1, <2>2, BeforeIs DEF step
<1>5. CASE n = 4
  BY <1>5, BeforeIs DEF step, Script, Todo, Op
<1>6. CASE n = 5
  BY <1>6, BeforeIs DEF step, Script, Todo, Op
<1>7. CASE n = 6
  BY <1>7, BeforeIs DEF step, Script, Todo, Op
<1>8. CASE n = 7
  BY <1>8, BeforeIs DEF step, Script, Todo, Op
<1>. QED BY <1>1, <1>2, <1>3, <1>4, <1>5, <1>6, <1>7, <1>8

\* Taking one operation off what is left.
LEMMA TodoIs ==
  ASSUME NEW n \in 0 .. 7, NEW k \in Before(n) .. Before(n + 1)
  PROVE  /\ Todo(n, k) = <<>> <=> k = Before(n + 1)
         /\ k < Before(n + 1) => /\ Head(Todo(n, k)) = Op(k)
                                 /\ Tail(Todo(n, k)) = Todo(n, k + 1)
                                 /\ <<>> \o Tail(Todo(n, k)) = Todo(n, k + 1)
<1>. DEFINE m == Before(n + 1) - k
<1>1. m \in Nat /\ k \in Int /\ Before(n + 1) \in Int
  BY BeforeGrows
<1>. DEFINE S == {Op(i) : i \in Int}
<1>2. /\ Todo(n, k) = [j \in 1 .. m |-> Op(k + j - 1)] /\ Todo(n, k) \in Seq(S)
      /\ Len(Todo(n, k)) = m
  BY <1>1 DEF Todo
<1>3. Todo(n, k) = <<>> <=> k = Before(n + 1)
  <2>1. Todo(n, k) = <<>> <=> m = 0
    BY <1>2, EmptySeq
  <2>. QED BY ONLY <1>1, <2>1
<1>4. ASSUME k < Before(n + 1)
      PROVE  /\ Head(Todo(n, k)) = Op(k) /\ Tail(Todo(n, k)) = Todo(n, k + 1)
             /\ <<>> \o Tail(Todo(n, k)) = Todo(n, k + 1)
  <2>1. m \in Nat \ {0} /\ m - 1 \in Nat /\ Before(n + 1) - (k + 1) = m - 1
    BY ONLY <1>1, <1>4
  <2>2. Todo(n, k + 1) = [j \in 1 .. m - 1 |-> Op(k + 1 + j - 1)]
    BY <2>1 DEF Todo
  <2>. HIDE DEF m
  <2>3. Head(Todo(n, k)) = Op(k)
    <3>1. Head(Todo(n, k)) = Todo(n, k)[1]
      BY <1>2, <2>1
    <3>. QED BY ONLY <1>1, <1>2, <2>1, <3>1
  <2>4. /\ Tail(Todo(n, k)) \in Seq(S) /\ Len(Tail(Todo(n, k))) = m - 1
        /\ \A i \in 1 .. m - 1 : Tail(Todo(n, k))[i] = Todo(n, k)[i + 1]
    <3>1. Todo(n, k) \in Seq(S) /\ Todo(n, k) # <<>> /\ Len(Todo(n, k)) = m
      BY <1>2, <1>3, <2>1 DEF m
    <3>. HIDE DEF S
    <3>2. /\ Tail(Todo(n, k)) \in Seq(S) /\ Len(Tail(Todo(n, k))) = Len(Todo(n, k)) - 1
          /\ \A i \in 1 .. Len(Tail(Todo(n, k))) : Tail(Todo(n, k))[i] = Todo(n, k)[i + 1]
      BY ONLY <3>1, HeadTailProperties
    <3>. QED BY ONLY <3>1, <3>2
  <2>5. /\ Todo(n, k + 1) \in Seq(S) /\ Len(Todo(n, k + 1)) = m - 1
        /\ \A i \in 1 .. m - 1 : Todo(n, k + 1)[i] = Op(k + 1 + i - 1)
    <3>. DEFINE p == m - 1
    <3>1. p \in Nat /\ Todo(n, k + 1) = [j \in 1 .. p |-> Op(k + 1 + j - 1)]
      BY ONLY <2>1, <2>2
    <3>. HIDE DEF p
    <3>2. \A j \in 1 .. p : Op(k + 1 + j - 1) \in S
      BY ONLY <1>1, <3>1
    <3>. HIDE DEF S
    <3>3. Todo(n, k + 1) \in [1 .. p -> S]
      BY ONLY <3>1, <3>2
    <3>4. Todo(n, k + 1) \in Seq(S) /\ Len(Todo(n, k + 1)) = p
      BY ONLY <3>1, <3>3
    <3>. QED BY ONLY <3>1, <3>4 DEF p
  <2>6. \A i \in 1 .. m - 1 : Tail(Todo(n, k))[i] = Todo(n, k + 1)[i]
    <3>1. SUFFICES ASSUME NEW i \in 1 .. m - 1
                   PROVE  Tail(Todo(n, k))[i] = Todo(n, k + 1)[i]
      OBVIOUS
    <3>2. i + 1 \in 1 .. m /\ k + (i + 1) - 1 = k + 1 + i - 1
      BY ONLY <1>1, <2>1, <3>1
    <3>3. Todo(n, k)[i + 1] = Op(k + (i + 1) - 1)
      BY ONLY <1>2, <3>2
    <3>4. Todo(n, k)[i + 1] = Op(k + 1 + i - 1)
      BY ONLY <3>2, <3>3
    <3>5. Tail(Todo(n, k))[i] = Todo(n, k)[i + 1] /\ Todo(n, k + 1)[i] = Op(k + 1 + i - 1)
      BY ONLY <2>4, <2>5, <3>1
    <3>. QED BY ONLY <3>4, <3>5
  <2>. HIDE DEF S
  <2>7. Tail(Todo(n, k)) = Todo(n, k + 1)
    BY ONLY <2>4, <2>5, <2>6, SeqEqual
  <2>8. <<>> \o Tail(Todo(n, k)) = Tail(Todo(n, k))
    BY ONLY <2>4, ConcatEmptySeq
  <2>. QED BY <2>3, <2>7, <2>8
<1>. QED BY <1>3, <1>4

\* The operations on the disk come first.
LEMMA OpIsNoPin ==
  ASSUME NEW k \in 0 .. 17
  PROVE  Op(k)[1] \notin Setting /\ (Op(k)[1] = "load" <=> k = 0) /\ (Op(k)[1] = "open" <=> k = 1)
BY DEF Op, CompareOwn, CompareOther, Setting

-----------------------------------------------------------------------------
(* The steps of the worker *)

LEMMA RanHolds ==
  ASSUME NEW e, NEW k \in 0 .. 18, Ran(e, k) PROVE Holds(e)
BY DEF Ran, Holds

\* A worker with something to do is the busy one, at some operation of its step.
LEMMA WorkerBusy ==
  ASSUME IInv, worker.todo # <<>>
  PROVE  /\ view.busy /\ Busy /\ worker.err = "none" /\ view.next \in 0 .. 7
         /\ \E k \in 0 .. 18 : Left(view.next, k, worker.todo) /\ Ran(engine, k)
<1>1. view.busy
  BY DEF IInv, Waiting, Idle
<1>2. Busy /\ view.next \in 0 .. 7
  BY <1>1 DEF IInv, Types, Busy
<1>. QED BY <1>1, <1>2 DEF Busy

\* A step of the worker that leaves the view and the rest of the app alone.
LEMMA WorkerStep ==
  ASSUME IInv, view.busy, OnlyWorker, DOMAIN worker' = {"step", "todo", "err"},
         worker'.step = worker.step,
         disk' \in Disks, recorded' \in Records, Disk', Holds(engine'),
         \/ /\ worker'.err = "none"
            /\ \E k \in 0 .. 18 : Left(view.next, k, worker'.todo) /\ Ran(engine', k)
         \/ worker'.err \in {"env", "late"} /\ worker'.todo = <<>>
  PROVE  IInv'
<1>1. /\ up' = up /\ runs' = runs /\ view' = view /\ data' = data /\ error' = error
      /\ bundle' = bundle /\ late' = late
  BY DEF OnlyWorker, serverVars
<1>2. Types'
  BY <1>1 DEF IInv, Types
<1>3. Busy'
  BY <1>1 DEF IInv, Busy
<1>4. (~up => Down)'
  BY <1>1 DEF IInv, Busy
<1>. QED BY <1>1, <1>2, <1>3, <1>4 DEF IInv

\* It stops with an error.
LEMMA StopStep ==
  ASSUME IInv, worker.todo # <<>>, OnlyWorker, NEW err \in {"env", "late"}, Stop(err),
         disk' = disk, recorded' = recorded, engine'.loaded = engine.loaded,
         engine'.pin = engine.pin, Holds(engine')
  PROVE  IInv'
<1>1. view.busy
  BY WorkerBusy
<1>2. /\ DOMAIN worker' = {"step", "todo", "err"} /\ worker'.step = worker.step
      /\ worker'.err = err /\ worker'.todo = <<>>
  BY DEF IInv, Types, Stop
<1>3. disk' \in Disks /\ recorded' \in Records
  BY DEF IInv, Types
<1>4. Disk'
  BY <1>2 DEF IInv, Disk, OnRecord, Loading, SetupPinned
<1>. QED BY <1>1, <1>2, <1>3, <1>4, WorkerStep

\* It goes on with the operation after k of them.
LEMMA GoStep ==
  ASSUME IInv, view.busy, OnlyWorker, NEW k \in Before(view.next) .. Before(view.next + 1),
         worker' = [worker EXCEPT !.todo = Todo(view.next, k)],
         disk' \in Disks, recorded' \in Records, OnRecord', Ran(engine', k),
         worker.err = "none"
  PROVE  IInv'
<1>1. view.next \in 0 .. 7
  BY DEF IInv, Types, Busy
<1>2. k \in 0 .. 18
  BY <1>1, BeforeGrows
<1>3. /\ DOMAIN worker' = {"step", "todo", "err"} /\ worker'.step = worker.step
      /\ worker'.err = "none" /\ worker'.todo = Todo(view.next, k)
  BY DEF IInv, Types
<1>4. ~Loading'
  <2>1. CASE k = Before(view.next + 1)
    BY <1>1, <1>3, <2>1, TodoIs DEF Loading
  <2>2. CASE k # Before(view.next + 1)
    <3>1. Head(worker'.todo) = Op(k)
      <4>1. k < Before(view.next + 1)
        BY <1>1, <2>2, BeforeGrows
      <4>2. Head(Todo(view.next, k)) = Op(k)
        BY <1>1, <4>1, TodoIs
      <4>. QED BY <1>3, <4>2
    <3>2. k \in 0 .. 17
      BY <1>1, <2>2, BeforeGrows
    <3>. QED BY <3>1, <3>2, OpIsNoPin DEF Loading, Setting
  <2>. QED BY <2>1, <2>2
<1>5. Disk'
  BY <1>4 DEF Disk
<1>6. Left(view.next, k, worker'.todo)
  BY <1>3 DEF Left
<1>7. Holds(engine')
  BY <1>2, RanHolds
<1>. QED BY <1>2, <1>3, <1>5, <1>6, <1>7, WorkerStep

\* An operation of the script that is not about the setup's pin.
LEMMA AtOperation ==
  ASSUME IInv, worker.todo # <<>>, Head(worker.todo)[1] \notin Setting,
         NEW k \in 0 .. 18, Left(view.next, k, worker.todo)
  PROVE  /\ k \in Before(view.next) .. Before(view.next + 1) - 1 /\ k \in 0 .. 17
         /\ Head(worker.todo) = Op(k) /\ Tail(worker.todo) = Todo(view.next, k + 1)
         /\ <<>> \o Tail(worker.todo) = Todo(view.next, k + 1)
<1>1. view.next \in 0 .. 7
  BY WorkerBusy
<1>2. \A r : /\ Head(<< <<"pin">>, <<"pinned">> >> \o r)[1] = "pin"
            /\ Head(<< <<"pinned">> >> \o r)[1] = "pinned"
            /\ \A s : Head(<< <<"LoadSetup", s>> >> \o r)[1] = "LoadSetup"
  OBVIOUS
<1>3. k \in Before(view.next) .. Before(view.next + 1) /\ worker.todo = Todo(view.next, k)
  BY <1>2 DEF Left, Setting
<1>4. k # Before(view.next + 1)
  BY <1>1, <1>3, TodoIs
<1>5. k < Before(view.next + 1) /\ k \in 0 .. 17
  <2>1. Before(view.next) \in 0 .. 18 /\ Before(view.next + 1) \in 0 .. 18
    BY <1>1, BeforeGrows
  <2>. QED BY ONLY <1>3, <1>4, <2>1
<1>6. /\ Head(Todo(view.next, k)) = Op(k) /\ Tail(Todo(view.next, k)) = Todo(view.next, k + 1)
      /\ <<>> \o Tail(Todo(view.next, k)) = Todo(view.next, k + 1)
  BY <1>1, <1>3, <1>5, TodoIs
<1>7. k \in Before(view.next) .. Before(view.next + 1) - 1
  <2>1. Before(view.next) \in 0 .. 18 /\ Before(view.next + 1) \in 0 .. 18
    BY <1>1, BeforeGrows
  <2>. QED BY ONLY <1>3, <1>5, <2>1
<1>. QED BY <1>3, <1>5, <1>6, <1>7

\* Any other operation, with the outcome the script gives it.
LEMMA WorkInv ==
  ASSUME IInv, Work PROVE IInv'
<1>. DEFINE op == Head(worker.todo)
            r == Perform(op, engine, late)
<1>1. /\ worker.todo # <<>> /\ op[1] \notin Setting \cup {"load", "open"}
      /\ engine' = r.engine /\ disk' = disk /\ recorded' = recorded /\ OnlyWorker
      /\ IF r.err = "none" THEN Continue(<<>>) ELSE Stop(r.err)
  BY DEF Work, stored, Setting
<1>2. PICK k \in 0 .. 18 : Left(view.next, k, worker.todo) /\ Ran(engine, k)
  BY <1>1, WorkerBusy
<1>3. /\ k \in Before(view.next) .. Before(view.next + 1) - 1 /\ k \in 0 .. 17
      /\ op = Op(k) /\ <<>> \o Tail(worker.todo) = Todo(view.next, k + 1)
  BY <1>1, <1>2, AtOperation
<1>4. k \in 2 .. 17
  BY <1>1, <1>3, OpIsNoPin
<1>5. Proceeds(r, k, engine)
  <2>1. late \in BOOLEAN
    BY DEF IInv, Types
  <2>. QED BY <1>2, <1>3, <1>4, <2>1, OperationStep
<1>. HIDE DEF r
<1>6. CASE r.err = "none"
  <2>1. Ran(engine', k + 1) /\ engine'.loaded = engine.loaded /\ engine'.pin = engine.pin
    BY <1>1, <1>5, <1>6 DEF Proceeds
  <2>2. worker' = [worker EXCEPT !.todo = Todo(view.next, k + 1)]
    BY <1>1, <1>3, <1>6 DEF Continue
  <2>3. disk' \in Disks /\ recorded' \in Records /\ OnRecord'
    BY <1>1, <2>1 DEF IInv, Types, Disk, OnRecord, SetupPinned
  <2>4. view.busy /\ worker.err = "none" /\ view.next \in 0 .. 7
    BY <1>1, WorkerBusy
  <2>5. k + 1 \in Before(view.next) .. Before(view.next + 1)
    BY <1>3, <2>4, BeforeGrows
  <2>. QED BY <1>1, <2>1, <2>2, <2>3, <2>4, <2>5, GoStep
<1>7. CASE r.err # "none"
  <2>1. /\ r.err \in {"env", "late"} /\ engine'.loaded = engine.loaded /\ engine'.pin = engine.pin
        /\ Holds(engine') /\ Stop(r.err)
    BY <1>1, <1>5, <1>7 DEF Proceeds
  <2>. QED BY <1>1, <2>1, StopStep
<1>. QED BY <1>6, <1>7

\* What an operation leaves when it fails for a reason outside the program.
LEMMA BrokenHolds ==
  ASSUME NEW k \in 0 .. 17, NEW e, Ran(e, k), NEW op, op[1] = "open" => k = 1,
         NEW g \in Broken(op, e)
  PROVE  g.loaded = e.loaded /\ g.pin = e.pin /\ Holds(g)
<1>1. DOMAIN e = Fields /\ Holds(e)
  BY RanHolds DEF Ran
<1>2. CASE op[1] = "open"
  <2>1. g = e \/ g = [e EXCEPT !.run = TRUE]
    <3>1. Broken(op, e) = IF e.pin = NoSetup THEN {e} ELSE {e, [e EXCEPT !.run = TRUE]}
      BY <1>2 DEF Broken
    <3>. QED BY <3>1
  <2>2. g.loaded = e.loaded /\ g.pin = e.pin /\ g.reports = e.reports
    BY <1>1, <2>1 DEF Fields
  <2>. QED BY <1>1, <2>2 DEF Holds
<1>3. CASE op[1] # "open"
  <2>1. \/ g = e
        \/ g = [e EXCEPT !.epoch = 1]
        \/ g = [e EXCEPT !.registry = [epoch |-> e.epoch, entries |-> e.entries]]
        \/ g = Burn(e, op[2])
        \/ g = NextCounter(Burn(e, op[2]), op[2])
    <3>1. CASE op[1] = "enroll"
      <4>1. Broken(op, e) = {e, [e EXCEPT !.epoch = 1]}
        BY <3>1 DEF Broken
      <4>. QED BY <4>1
    <3>2. CASE op[1] = "authorize"
      <4>1. Broken(op, e)
            = {e, [e EXCEPT !.registry = [epoch |-> e.epoch, entries |-> e.entries]]}
        BY <3>2 DEF Broken
      <4>. QED BY <4>1
    <3>3. CASE op[1] = "submit"
      <4>1. Broken(op, e) = {e, Burn(e, op[2]), NextCounter(Burn(e, op[2]), op[2])}
        BY <3>3 DEF Broken
      <4>. QED BY <4>1
    <3>4. CASE op[1] \notin {"open", "enroll", "authorize", "submit"}
      <4>1. Broken(op, e) = {e}
        BY <3>4 DEF Broken
      <4>. QED BY <4>1
    <3>. QED BY <1>3, <3>1, <3>2, <3>3, <3>4
  <2>2. /\ DOMAIN Burn(e, op[2]) = Fields /\ Burn(e, op[2]).loaded = e.loaded
        /\ Burn(e, op[2]).pin = e.pin /\ Burn(e, op[2]).reports = e.reports
    BY <1>1 DEF Burn, Fields
  <2>3. g.loaded = e.loaded /\ g.pin = e.pin /\ g.reports = e.reports
    <3>1. CASE g \in {e, Burn(e, op[2])}
      BY <2>2, <3>1
    <3>2. CASE g = [e EXCEPT !.epoch = 1]
      BY <1>1, <3>2 DEF Fields
    <3>3. CASE g = [e EXCEPT !.registry = [epoch |-> e.epoch, entries |-> e.entries]]
      BY <1>1, <3>3 DEF Fields
    <3>4. CASE g = NextCounter(Burn(e, op[2]), op[2])
      <4>. DEFINE b == Burn(e, op[2])
      <4>. HIDE DEF b
      <4>1. DOMAIN b = Fields /\ b.loaded = e.loaded /\ b.pin = e.pin /\ b.reports = e.reports
        BY <2>2 DEF b
      <4>2. g = b \/ g = [b EXCEPT !.used[Owner[op[2]]] = b.wallet[Owner[op[2]]]]
        BY <3>4 DEF NextCounter, b
      <4>. QED BY <4>1, <4>2 DEF Fields
    <3>. QED BY <2>1, <3>1, <3>2, <3>3, <3>4
  <2>. QED BY <1>1, <2>3 DEF Holds
<1>. QED BY <1>2, <1>3

\* An operation fails for a reason outside the program.
LEMMA WorkFailsInv ==
  ASSUME IInv, WorkFails PROVE IInv'
<1>. DEFINE op == Head(worker.todo)
<1>1. /\ worker.todo # <<>> /\ engine' \in Broken(op, engine) /\ disk' = disk
      /\ recorded' = recorded /\ OnlyWorker /\ Stop("env")
  BY DEF WorkFails, stored
<1>2. PICK k \in 0 .. 18 : Left(view.next, k, worker.todo) /\ Ran(engine, k)
  BY <1>1, WorkerBusy
<1>3. CASE op[1] \in Setting
  <2>1. engine' = engine
    <3>1. Broken(op, engine) = {engine}
      BY <1>3 DEF Broken, Setting
    <3>. QED BY <1>1, <3>1
  <2>2. Holds(engine')
    BY <2>1 DEF IInv
  <2>. QED BY <1>1, <2>1, <2>2, StopStep
<1>4. CASE op[1] \notin Setting
  <2>1. k \in 0 .. 17 /\ op = Op(k)
    BY <1>1, <1>2, <1>4, AtOperation
  <2>2. op[1] = "open" => k = 1
    BY <2>1, OpIsNoPin
  <2>3. engine'.loaded = engine.loaded /\ engine'.pin = engine.pin /\ Holds(engine')
    BY <1>1, <1>2, <2>1, <2>2, BrokenHolds
  <2>. QED BY <1>1, <2>3, StopStep
<1>. QED BY <1>3, <1>4

\* An engine without error before the scenario: the setup is loaded, then the run opened.
LEMMA FirstTables ==
  /\ Ring(0) = {} /\ Ring(1) = {} /\ Ring(2) = {} /\ Epoch(0) = 0 /\ Epoch(1) = 0 /\ Epoch(2) = 0
  /\ Authorized(0) = 0 /\ Authorized(1) = 0 /\ Authorized(2) = 0
  /\ Wallet(0) = [u \in Users |-> 0] /\ Wallet(1) = Wallet(0) /\ Wallet(2) = Wallet(0)
  /\ Used(0) = [u \in {"alice", "bob"} |-> 0] /\ Used(1) = Used(0) /\ Used(2) = Used(0)
  /\ \A s : Reports(0, s) = <<>> /\ Reports(1, s) = <<>> /\ Reports(2, s) = <<>>
<1>1. Count(0) = 0 /\ Count(1) = 0 /\ Count(2) = 0
  BY DEF Count
<1>2. \A s : Reports(0, s) = <<>> /\ Reports(1, s) = <<>> /\ Reports(2, s) = <<>>
  BY <1>1 DEF Reports
<1>3. \A k \in 0 .. 2 : AliceUsed(k) = 0 /\ BobUsed(k) = 0
  BY DEF AliceUsed, BobUsed
<1>4. /\ Wallet(0) = [u \in Users |-> 0] /\ Wallet(1) = [u \in Users |-> 0]
      /\ Wallet(2) = [u \in Users |-> 0]
  BY <1>3 DEF Wallet
<1>5. /\ Used(0) = [u \in {"alice", "bob"} |-> 0] /\ Used(1) = [u \in {"alice", "bob"} |-> 0]
      /\ Used(2) = [u \in {"alice", "bob"} |-> 0]
  BY <1>3 DEF Used
<1>. QED BY <1>2, <1>4, <1>5 DEF Ring, Epoch, Authorized

\* A new engine has run nothing.
LEMMA FreshRan ==
  ASSUME NEW s PROVE Ran(Fresh(s), 0) /\ Fresh(s).loaded = s /\ Fresh(s).pin = NoSetup
<1>. DEFINE e == Fresh(s)
<1>1. /\ DOMAIN e = Fields /\ e.loaded = s /\ e.pin = NoSetup
      /\ e.run = FALSE /\ e.ring = {} /\ e.epoch = 0
      /\ e.entries = {} /\ e.registry = [epoch |-> 0, entries |-> {}] /\ e.authorized = 0
      /\ e.wallet = [u \in Users |-> 0] /\ e.used = [u \in {"alice", "bob"} |-> 0]
      /\ e.reports = <<>> /\ e.revoked = FALSE /\ e.bundle = FALSE
  BY DEF Fresh, Fields
<1>. HIDE DEF e
<1>2. Registry(0) = [epoch |-> 0, entries |-> {}]
  BY DEF Registry
<1>3. e.run = (0 >= 2) /\ e.revoked = (0 >= 16) /\ e.bundle = (0 >= 18)
  <2>1. (0 >= 2) = FALSE /\ (0 >= 16) = FALSE /\ (0 >= 18) = FALSE
    OBVIOUS
  <2>2. e.run = FALSE /\ e.revoked = FALSE /\ e.bundle = FALSE
    BY <1>1
  <2>. QED BY <2>1, <2>2, Zenon
<1>4. Ran(e, 0)
  BY <1>1, <1>2, <1>3, FirstTables DEF Ran
<1>. QED BY <1>1, <1>4 DEF e

\* No run is open, nothing revoked or exported before the run is opened.
LEMMA FirstFlags ==
  ASSUME NEW e, NEW k \in {0, 1}, Ran(e, k)
  PROVE  e.run = FALSE /\ e.revoked = FALSE /\ e.bundle = FALSE
<1>1. (k >= 2) = FALSE /\ (k >= 16) = FALSE /\ (k >= 18) = FALSE
  OBVIOUS
<1>2. e.run = (k >= 2) /\ e.revoked = (k >= 16) /\ e.bundle = (k >= 18)
  BY Zenon DEF Ran
<1>. QED BY <1>1, <1>2, Zenon

LEMMA FirstData ==
  ASSUME NEW e, NEW k \in {0, 1}, Ran(e, k)
  PROVE  /\ e.ring = {} /\ e.epoch = 0 /\ e.entries = {} /\ e.registry = Registry(0)
         /\ e.authorized = 0 /\ e.wallet = Wallet(0) /\ e.used = Used(0) /\ e.reports = <<>>
         /\ DOMAIN e = Fields
<1>1. /\ e.ring = Ring(k) /\ e.epoch = Epoch(k) /\ e.entries = Ring(k)
      /\ e.registry = Registry(Authorized(k)) /\ e.authorized = Authorized(k)
      /\ e.wallet = Wallet(k) /\ e.used = Used(k) /\ e.reports = Reports(k, e.loaded)
      /\ DOMAIN e = Fields
  BY Zenon DEF Ran
<1>2. k = 0 \/ k = 1
  OBVIOUS
<1>. QED BY ONLY <1>1, <1>2, FirstTables

LEMMA FirstLimits ==
  /\ (1 >= 2) = FALSE /\ (1 >= 16) = FALSE /\ (1 >= 18) = FALSE
  /\ (2 >= 2) = TRUE /\ (2 >= 16) = FALSE /\ (2 >= 18) = FALSE
OBVIOUS

\* The setup comes into memory with its pin.
LEMMA LoadedRan ==
  ASSUME NEW e, Ran(e, 0), NEW s, s # NoSetup
  PROVE  Ran([e EXCEPT !.loaded = s, !.pin = s], 1)
<1>. DEFINE g == [e EXCEPT !.loaded = s, !.pin = s]
<1>1. DOMAIN e = Fields
  BY DEF Ran
<1>2. /\ DOMAIN g = Fields /\ g.loaded = s /\ g.pin = s
      /\ g.epoch = e.epoch /\ g.ring = e.ring /\ g.entries = e.entries /\ g.run = e.run
      /\ g.authorized = e.authorized /\ g.registry = e.registry /\ g.wallet = e.wallet
      /\ g.used = e.used /\ g.reports = e.reports /\ g.revoked = e.revoked /\ g.bundle = e.bundle
  BY <1>1 DEF Fields
<1>. HIDE DEF g
<1>3. g.run = (1 >= 2) /\ g.revoked = (1 >= 16) /\ g.bundle = (1 >= 18)
  <2>1. e.run = FALSE /\ e.revoked = FALSE /\ e.bundle = FALSE
    BY FirstFlags
  <2>. QED BY <1>2, <2>1, FirstLimits, Zenon
<1>4. Ran(g, 1)
  <2>1. /\ e.ring = {} /\ e.epoch = 0 /\ e.entries = {} /\ e.registry = Registry(0)
        /\ e.authorized = 0 /\ e.wallet = Wallet(0) /\ e.used = Used(0) /\ e.reports = <<>>
    BY FirstData
  <2>. QED BY ONLY <1>2, <1>3, <2>1, FirstTables, s # NoSetup DEF Ran
<1>. QED BY <1>4 DEF g

\* A setup already in memory: nothing changes.
LEMMA KeptRan ==
  ASSUME NEW e, Ran(e, 0), e.loaded # NoSetup PROVE Ran(e, 1)
<1>1. e.run = (1 >= 2) /\ e.revoked = (1 >= 16) /\ e.bundle = (1 >= 18)
  <2>1. e.run = FALSE /\ e.revoked = FALSE /\ e.bundle = FALSE
    BY FirstFlags
  <2>. QED BY <2>1, FirstLimits, Zenon
<1>2. /\ e.ring = {} /\ e.epoch = 0 /\ e.entries = {} /\ e.registry = Registry(0)
      /\ e.authorized = 0 /\ e.wallet = Wallet(0) /\ e.used = Used(0) /\ e.reports = <<>>
      /\ DOMAIN e = Fields
  BY FirstData
<1>. QED BY ONLY <1>1, <1>2, FirstTables, e.loaded # NoSetup DEF Ran

\* The pin is read.
LEMMA PinnedRan ==
  ASSUME NEW e, Ran(e, 1), NEW p PROVE Ran([e EXCEPT !.pin = p], 1)
<1>. DEFINE g == [e EXCEPT !.pin = p]
<1>1. DOMAIN e = Fields
  BY DEF Ran
<1>2. /\ DOMAIN g = Fields /\ g.loaded = e.loaded /\ g.run = e.run
      /\ g.epoch = e.epoch /\ g.ring = e.ring /\ g.entries = e.entries
      /\ g.authorized = e.authorized /\ g.registry = e.registry /\ g.wallet = e.wallet
      /\ g.used = e.used /\ g.reports = e.reports /\ g.revoked = e.revoked /\ g.bundle = e.bundle
  BY <1>1 DEF Fields
<1>. HIDE DEF g
<1>3. Ran(g, 1)
  BY <1>2 DEF Ran
<1>. QED BY <1>3 DEF g

\* The run is opened.
LEMMA OpenedRan ==
  ASSUME NEW e, Ran(e, 1)
  PROVE  LET g == [e EXCEPT !.run = TRUE]
         IN Ran(g, 2) /\ g.loaded = e.loaded /\ g.pin = e.pin
<1>. DEFINE g == [e EXCEPT !.run = TRUE]
<1>1. DOMAIN e = Fields
  BY DEF Ran
<1>2. /\ DOMAIN g = Fields /\ g.loaded = e.loaded /\ g.pin = e.pin /\ g.run = TRUE
      /\ g.epoch = e.epoch /\ g.ring = e.ring /\ g.entries = e.entries
      /\ g.authorized = e.authorized /\ g.registry = e.registry /\ g.wallet = e.wallet
      /\ g.used = e.used /\ g.reports = e.reports /\ g.revoked = e.revoked /\ g.bundle = e.bundle
  BY <1>1 DEF Fields
<1>. HIDE DEF g
<1>3. g.run = (2 >= 2) /\ g.revoked = (2 >= 16) /\ g.bundle = (2 >= 18)
  <2>1. e.revoked = FALSE /\ e.bundle = FALSE
    BY FirstFlags
  <2>. QED BY <1>2, <2>1, FirstLimits, Zenon
<1>4. e.loaded # NoSetup
  <2>1. 1 >= 1
    OBVIOUS
  <2>. QED BY <2>1, Zenon DEF Ran
<1>5. Ran(g, 2)
  <2>1. /\ e.ring = {} /\ e.epoch = 0 /\ e.entries = {} /\ e.registry = Registry(0)
        /\ e.authorized = 0 /\ e.wallet = Wallet(0) /\ e.used = Used(0) /\ e.reports = <<>>
    BY FirstData
  <2>. QED BY ONLY <1>2, <1>3, <1>4, <2>1, FirstTables DEF Ran
<1>. QED BY <1>2, <1>5 DEF g

\* The first operation is that of the first step.
LEMMA FirstStep ==
  ASSUME NEW n \in 0 .. 7, NEW k \in {0, 1}, k \in Before(n) .. Before(n + 1) - 1 PROVE n = 0
BY BeforeGrows

\* load: the setup in memory, a new one, or the one of the pin on record.
LEMMA loadInv ==
  ASSUME IInv, load PROVE IInv'
<1>1. /\ worker.todo # <<>> /\ Head(worker.todo)[1] = "load" /\ OnlyWorker
      /\ engine' = engine /\ recorded' = recorded /\ Head(worker.todo)[1] \notin Setting
  BY DEF load, Working, Setting
<1>2. PICK k \in 0 .. 18 : Left(view.next, k, worker.todo) /\ Ran(engine, k)
  BY <1>1, WorkerBusy
<1>3. view.busy /\ worker.err = "none" /\ view.next \in 0 .. 7
  BY <1>1, WorkerBusy
<1>4. /\ k \in Before(view.next) .. Before(view.next + 1) - 1 /\ k \in 0 .. 17
      /\ Head(worker.todo) = Op(k) /\ Tail(worker.todo) = Todo(view.next, k + 1)
      /\ <<>> \o Tail(worker.todo) = Todo(view.next, k + 1)
  BY <1>1, <1>2, AtOperation
<1>5. k = 0
  BY <1>1, <1>4, OpIsNoPin
<1>6. view.next = 0 /\ Ran(engine, 0) /\ 1 \in Before(view.next) .. Before(view.next + 1)
  BY <1>2, <1>3, <1>4, <1>5, FirstStep, BeforeIs
<1>7. /\ Tail(worker.todo) = Todo(0, 1)
      /\ <<>> \o Tail(worker.todo) = Todo(view.next, 1)
  <2>1. k + 1 = 1
    BY <1>5
  <2>. QED BY <1>4, <1>6, <2>1
<1>8. Ran(engine', 0) /\ Holds(engine') /\ recorded' \in Records /\ OnRecord
  BY <1>1, <1>6, RanHolds DEF IInv, Types, Disk
<1>9. CASE engine.loaded # NoSetup /\ Continue(<<>>) /\ disk' = disk
  <2>1. Ran(engine', 1)
    BY <1>1, <1>6, <1>9, KeptRan
  <2>2. worker' = [worker EXCEPT !.todo = Todo(view.next, 1)]
    BY <1>7, <1>9 DEF Continue
  <2>3. disk' \in Disks /\ OnRecord'
    BY <1>1, <1>8, <1>9 DEF IInv, Types, OnRecord, SetupPinned
  <2>. QED BY <1>1, <1>3, <1>6, <1>8, <2>1, <2>2, <2>3, GoStep
<1>10. CASE disk' = [disk EXCEPT !.setup = 1] /\ Continue(<< <<"pin">>, <<"pinned">> >>)
  <2>1. /\ worker'.todo = << <<"pin">>, <<"pinned">> >> \o Todo(0, 1)
        /\ DOMAIN worker' = {"step", "todo", "err"}
        /\ worker'.step = worker.step /\ worker'.err = "none"
    BY <1>3, <1>7, <1>10 DEF IInv, Types, Continue
  <2>2. Left(view.next, 0, worker'.todo)
    BY <1>6, <2>1 DEF Left
  <2>3. disk'.pin = disk.pin /\ disk' \in Disks
    BY <1>10, SetupBound DEF IInv, Types, Disks
  <2>4. ~Loading'
    <3>1. Head(<< <<"pin">>, <<"pinned">> >> \o Todo(0, 1))[1] = "pin"
      OBVIOUS
    <3>. QED BY <2>1, <3>1 DEF Loading
  <2>5. Disk'
    BY <1>1, <1>8, <2>3, <2>4 DEF Disk, OnRecord, SetupPinned
  <2>. QED BY <1>1, <1>3, <1>8, <2>1, <2>2, <2>3, <2>5, WorkerStep
<1>11. CASE /\ disk.pin \in 1 .. MaxSetups /\ Continue(<< <<"LoadSetup", disk.pin>> >>)
            /\ disk' = disk
  <2>1. /\ worker'.todo = << <<"LoadSetup", disk.pin>> >> \o Todo(0, 1)
        /\ DOMAIN worker' = {"step", "todo", "err"}
        /\ worker'.step = worker.step /\ worker'.err = "none"
    BY <1>3, <1>7, <1>11 DEF IInv, Types, Continue
  <2>2. Left(view.next, 0, worker'.todo)
    BY <1>6, <1>11, <2>1 DEF Left
  <2>3. Head(worker'.todo)[2] = disk.pin
    <3>1. Head(<< <<"LoadSetup", disk.pin>> >> \o Todo(0, 1))[2] = disk.pin
      OBVIOUS
    <3>. QED BY <2>1, <3>1
  <2>4. disk.pin \in recorded.session
    BY <1>8, <1>11, SetupBound DEF OnRecord, NoSetup, Torn
  <2>5. disk' \in Disks /\ Disk'
    BY <1>1, <1>8, <1>11, <2>3, <2>4 DEF IInv, Types, Disk, OnRecord, SetupPinned
  <2>. QED BY <1>1, <1>3, <1>8, <2>1, <2>2, <2>5, WorkerStep
<1>12. CASE Stop("env") /\ disk' = disk
  BY <1>1, <1>8, <1>12, StopStep
<1>. QED BY <1>9, <1>10, <1>11, <1>12 DEF load

\* Concatenations of short sequences.
LEMMA Joined ==
  ASSUME NEW a, NEW b, NEW x, NEW y, NEW z
  PROVE  <<a, b>> \o <<x, y, z>> = <<a, b, x, y, z>> /\ <<b>> \o <<x, y, z>> = <<b, x, y, z>>
<1>. DEFINE S == {a, b, x, y, z}
<1>1. <<a, b>> \o <<x, y, z>> = <<a, b, x, y, z>>
  <2>. DEFINE l == <<a, b>>  r == <<x, y, z>>  t == <<a, b, x, y, z>>
  <2>1. /\ l \in Seq(S) /\ r \in Seq(S) /\ t \in Seq(S) /\ Len(l) = 2 /\ Len(r) = 3 /\ Len(t) = 5
        /\ l[1] = a /\ l[2] = b /\ r[1] = x /\ r[2] = y /\ r[3] = z
        /\ t[1] = a /\ t[2] = b /\ t[3] = x /\ t[4] = y /\ t[5] = z
    OBVIOUS
  <2>. HIDE DEF l, r, t, S
  <2>2. /\ l \o r \in Seq(S) /\ Len(l \o r) = 5
        /\ \A i \in 1 .. 5 : (l \o r)[i] = IF i <= 2 THEN l[i] ELSE r[i - 2]
    <3>1. l \in Seq(S) /\ r \in Seq(S)
      BY <2>1
    <3>2. /\ l \o r \in Seq(S) /\ Len(l \o r) = Len(l) + Len(r)
          /\ \A i \in 1 .. Len(l) + Len(r) :
               (l \o r)[i] = IF i <= Len(l) THEN l[i] ELSE r[i - Len(l)]
      BY ONLY <3>1, ConcatProperties
    <3>3. Len(l) + Len(r) = 5 /\ Len(l) = 2
      BY <2>1
    <3>. QED BY ONLY <3>2, <3>3
  <2>3. \A i \in 1 .. 5 : (l \o r)[i] = t[i]
    <3>. DEFINE c == l \o r
    <3>1. c[1] = l[1] /\ c[2] = l[2] /\ c[3] = r[1] /\ c[4] = r[2] /\ c[5] = r[3]
      BY <2>2
    <3>. HIDE DEF c
    <3>2. \A i \in 1 .. 5 : c[i] = t[i]
      BY <2>1, <3>1
    <3>. QED BY <3>2 DEF c
  <2>4. l \o r = t
    BY <2>1, <2>2, <2>3, SeqEqual
  <2>. QED BY <2>4 DEF l, r, t
<1>2. <<b>> \o <<x, y, z>> = <<b, x, y, z>>
  <2>. DEFINE l == <<b>>  r == <<x, y, z>>  t == <<b, x, y, z>>
  <2>1. /\ l \in Seq(S) /\ r \in Seq(S) /\ t \in Seq(S) /\ Len(l) = 1 /\ Len(r) = 3 /\ Len(t) = 4
        /\ l[1] = b /\ r[1] = x /\ r[2] = y /\ r[3] = z
        /\ t[1] = b /\ t[2] = x /\ t[3] = y /\ t[4] = z
    OBVIOUS
  <2>. HIDE DEF l, r, t, S
  <2>2. /\ l \o r \in Seq(S) /\ Len(l \o r) = 4
        /\ \A i \in 1 .. 4 : (l \o r)[i] = IF i <= 1 THEN l[i] ELSE r[i - 1]
    <3>1. l \in Seq(S) /\ r \in Seq(S)
      BY <2>1
    <3>2. /\ l \o r \in Seq(S) /\ Len(l \o r) = Len(l) + Len(r)
          /\ \A i \in 1 .. Len(l) + Len(r) :
               (l \o r)[i] = IF i <= Len(l) THEN l[i] ELSE r[i - Len(l)]
      BY ONLY <3>1, ConcatProperties
    <3>3. Len(l) + Len(r) = 4 /\ Len(l) = 1
      BY <2>1
    <3>. QED BY ONLY <3>2, <3>3
  <2>3. \A i \in 1 .. 4 : (l \o r)[i] = t[i]
    <3>. DEFINE c == l \o r
    <3>1. c[1] = l[1] /\ c[2] = r[1] /\ c[3] = r[2] /\ c[4] = r[3]
      BY <2>2
    <3>. HIDE DEF c
    <3>2. \A i \in 1 .. 4 : c[i] = t[i]
      BY <2>1, <3>1
    <3>. QED BY <3>2 DEF c
  <2>4. l \o r = t
    BY <2>1, <2>2, <2>3, SeqEqual
  <2>. QED BY <2>4 DEF l, r, t
<1>. QED BY <1>1, <1>2

\* What is left of the first step at the pin file.
LEMMA PinTodo ==
  /\ Todo(0, 1) = <<Op(1), Op(2), Op(3)>>
  /\ << <<"pin">>, <<"pinned">> >> \o Todo(0, 1)
     = << <<"pin">>, <<"pinned">>, Op(1), Op(2), Op(3)>>
  /\ << <<"pinned">> >> \o Todo(0, 1) = << <<"pinned">>, Op(1), Op(2), Op(3)>>
  /\ \A s : << <<"LoadSetup", s>> >> \o Todo(0, 1) = << <<"LoadSetup", s>>, Op(1), Op(2), Op(3)>>
<1>. DEFINE a == <<"pin">>  b == <<"pinned">>  x == Op(1)  y == Op(2)  z == Op(3)
<1>1. Todo(0, 1) = <<x, y, z>>
  BY BeforeIs DEF Todo
<1>. HIDE DEF a, b, x, y, z
<1>2. <<a, b>> \o <<x, y, z>> = <<a, b, x, y, z>> /\ <<b>> \o <<x, y, z>> = <<b, x, y, z>>
  BY Joined
<1>3. ASSUME NEW s PROVE << <<"LoadSetup", s>> >> \o <<x, y, z>> = << <<"LoadSetup", s>>, x, y, z>>
  <2>. DEFINE c == <<"LoadSetup", s>>
  <2>. HIDE DEF c
  <2>1. <<c>> \o <<x, y, z>> = <<c, x, y, z>>
    BY Joined
  <2>. QED BY ONLY <2>1 DEF c
<1>. QED BY ONLY <1>1, <1>2, <1>3, Zenon DEF a, b, x, y, z

\* A worker at the setup or its pin file is in the first step, on a new engine.
LEMMA AtPin ==
  ASSUME IInv, worker.todo # <<>>, Head(worker.todo)[1] \in Setting
  PROVE  /\ view.busy /\ view.next = 0 /\ worker.err = "none" /\ Ran(engine, 0)
         /\ Head(worker.todo)[1] = "pin" =>
              <<>> \o Tail(worker.todo) = << <<"pinned">> >> \o Todo(0, 1)
         /\ Head(worker.todo)[1] \in {"pinned", "LoadSetup"} =>
              <<>> \o Tail(worker.todo) = Todo(0, 1)
<1>1. PICK k \in 0 .. 18 : Left(view.next, k, worker.todo) /\ Ran(engine, k)
  BY WorkerBusy
<1>2. view.busy /\ worker.err = "none" /\ view.next \in 0 .. 7
  BY WorkerBusy
<1>4. ~(k \in Before(view.next) .. Before(view.next + 1) /\ worker.todo = Todo(view.next, k))
  <2>1. SUFFICES ASSUME k \in Before(view.next) .. Before(view.next + 1),
                        worker.todo = Todo(view.next, k)
                 PROVE  FALSE
    OBVIOUS
  <2>2. k < Before(view.next + 1) /\ k \in 0 .. 17
    <3>1. k # Before(view.next + 1)
      BY <1>2, <2>1, TodoIs
    <3>2. Before(view.next) \in 0 .. 18 /\ Before(view.next + 1) \in 0 .. 18
      BY <1>2, BeforeGrows
    <3>. QED BY ONLY <2>1, <3>1, <3>2
  <2>3. Head(worker.todo) = Op(k)
    BY <1>2, <2>1, <2>2, TodoIs
  <2>. QED BY <2>2, <2>3, OpIsNoPin
<1>5. /\ view.next = 0 /\ k = 0
      /\ \/ worker.todo = << <<"pin">>, <<"pinned">> >> \o Todo(0, 1)
         \/ worker.todo = << <<"pinned">> >> \o Todo(0, 1)
         \/ \E s : worker.todo = << <<"LoadSetup", s>> >> \o Todo(0, 1)
  BY <1>1, <1>4 DEF Left
<1>6. Todo(0, 1) = <<Op(1), Op(2), Op(3)>>
  BY PinTodo
<1>7. /\ << <<"pin">>, <<"pinned">> >> \o Todo(0, 1)
         = << <<"pin">>, <<"pinned">>, Op(1), Op(2), Op(3)>>
      /\ << <<"pinned">> >> \o Todo(0, 1) = << <<"pinned">>, Op(1), Op(2), Op(3)>>
      /\ \A s : << <<"LoadSetup", s>> >> \o Todo(0, 1)
               = << <<"LoadSetup", s>>, Op(1), Op(2), Op(3)>>
  BY PinTodo
<1>8. ASSUME worker.todo = << <<"pin">>, <<"pinned">>, Op(1), Op(2), Op(3)>>
      PROVE  /\ Head(worker.todo)[1] = "pin"
             /\ <<>> \o Tail(worker.todo) = << <<"pinned">>, Op(1), Op(2), Op(3)>>
  BY <1>8
<1>9. ASSUME worker.todo = << <<"pinned">>, Op(1), Op(2), Op(3)>>
      PROVE  /\ Head(worker.todo)[1] = "pinned"
             /\ <<>> \o Tail(worker.todo) = <<Op(1), Op(2), Op(3)>>
  BY <1>9
<1>10. ASSUME NEW s, worker.todo = << <<"LoadSetup", s>>, Op(1), Op(2), Op(3)>>
       PROVE  /\ Head(worker.todo)[1] = "LoadSetup"
              /\ <<>> \o Tail(worker.todo) = <<Op(1), Op(2), Op(3)>>
  BY <1>10
<1>11. "pin" # "pinned" /\ "pin" # "LoadSetup"
  OBVIOUS
<1>12. /\ Head(worker.todo)[1] = "pin" =>
              <<>> \o Tail(worker.todo) = << <<"pinned">> >> \o Todo(0, 1)
       /\ Head(worker.todo)[1] \in {"pinned", "LoadSetup"} =>
              <<>> \o Tail(worker.todo) = Todo(0, 1)
  BY ONLY <1>5, <1>6, <1>7, <1>8, <1>9, <1>10, <1>11, Zenon
<1>. QED BY <1>1, <1>2, <1>5, <1>12

\* The setup of the pin that was read comes into memory.
LEMMA LoadSetupInv ==
  ASSUME IInv, LoadSetup PROVE IInv'
<1>. DEFINE s == Head(worker.todo)[2]
<1>1. /\ worker.todo # <<>> /\ Head(worker.todo)[1] = "LoadSetup" /\ OnlyWorker
      /\ disk' = disk /\ recorded' = recorded /\ Head(worker.todo)[1] \in Setting
  BY DEF LoadSetup, Working, stored, Setting
<1>2. /\ view.busy /\ view.next = 0 /\ worker.err = "none" /\ Ran(engine, 0)
      /\ <<>> \o Tail(worker.todo) = Todo(0, 1)
  BY <1>1, AtPin
<1>3. s \in recorded.session /\ OnRecord /\ recorded \in Records
  BY <1>1 DEF IInv, Types, Disk, Loading
<1>4. s # NoSetup /\ s \in recorded.ever
  BY <1>3, SetupBound DEF Records, OnRecord, NoSetup
<1>. HIDE DEF s
<1>5. CASE engine' = [engine EXCEPT !.loaded = s, !.pin = s] /\ Continue(<<>>)
  <2>1. Ran(engine', 1)
    BY <1>2, <1>4, <1>5, LoadedRan
  <2>2. engine'.loaded = s /\ engine'.pin = s
    BY <1>2, <1>5 DEF Ran, Fields
  <2>3. worker' = [worker EXCEPT !.todo = Todo(view.next, 1)]
    BY <1>2, <1>5 DEF Continue
  <2>4. disk' \in Disks /\ recorded' \in Records /\ OnRecord'
    BY <1>1, <1>3, <1>4, <2>2 DEF IInv, Types, OnRecord, SetupPinned
  <2>5. 1 \in Before(view.next) .. Before(view.next + 1)
    BY <1>2, BeforeIs
  <2>. QED BY <1>1, <1>2, <2>1, <2>3, <2>4, <2>5, GoStep
<1>6. CASE Stop("env") /\ engine' = engine
  <2>1. Holds(engine')
    BY <1>6 DEF IInv
  <2>. QED BY <1>1, <1>6, <2>1, StopStep
<1>. QED BY <1>5, <1>6 DEF LoadSetup, s

\* The pin file is created, then written; only then is the setup in use.
LEMMA writePinInv ==
  ASSUME IInv, writePin PROVE IInv'
<1>1. /\ worker.todo # <<>> /\ Head(worker.todo)[1] = "pin" /\ OnlyWorker
      /\ disk' = [disk EXCEPT !.pin = Torn] /\ Continue(<<>>) /\ engine' = engine
      /\ recorded' = recorded /\ Head(worker.todo)[1] \in Setting
  BY DEF writePin, Working, Setting
<1>2. /\ view.busy /\ view.next = 0 /\ worker.err = "none" /\ Ran(engine, 0)
      /\ <<>> \o Tail(worker.todo) = << <<"pinned">> >> \o Todo(0, 1)
  BY <1>1, AtPin
<1>3. /\ DOMAIN worker' = {"step", "todo", "err"} /\ worker'.step = worker.step
      /\ worker'.err = "none" /\ worker'.todo = << <<"pinned">> >> \o Todo(0, 1)
  BY <1>1, <1>2 DEF IInv, Types, Continue
<1>4. Left(view.next, 0, worker'.todo)
  BY <1>2, <1>3 DEF Left
<1>5. disk'.pin = Torn /\ disk' \in Disks /\ recorded' \in Records
  BY <1>1, SetupBound DEF IInv, Types, Torn, Disks
<1>6. ~Loading'
  <2>1. Head(<< <<"pinned">> >> \o Todo(0, 1))[1] = "pinned"
    OBVIOUS
  <2>. QED BY <1>3, <2>1 DEF Loading
<1>7. Disk'
  BY <1>1, <1>5, <1>6 DEF IInv, Disk, OnRecord, SetupPinned
<1>8. Ran(engine', 0) /\ Holds(engine')
  BY <1>1, <1>2, RanHolds
<1>. QED BY <1>1, <1>2, <1>3, <1>4, <1>5, <1>7, <1>8, WorkerStep

\* A pin file is written: what was on record stays there.
LEMMA PinOnRecord ==
  ASSUME IInv, NEW s \in 1 .. MaxSetups, PinNames(s)
  PROVE  /\ disk' \in Disks /\ recorded' \in Records /\ disk'.pin = s
         /\ s \in recorded'.session /\ s \in recorded'.ever
         /\ recorded.session \subseteq recorded'.session /\ recorded.ever \subseteq recorded'.ever
         /\ recorded'.session \subseteq recorded'.ever
<1>1. disk \in Disks /\ recorded \in Records /\ recorded.session \subseteq recorded.ever
  BY DEF IInv, Types, Disk, OnRecord
<1>2. disk' \in Disks /\ disk'.pin = s
  BY <1>1, SetupBound DEF PinNames, Disks, Torn
<1>3. /\ recorded' \in Records /\ recorded'.ever = recorded.ever \cup {s}
      /\ recorded'.session = recorded.session \cup {s}
  BY <1>1 DEF PinNames, Records
<1>. QED BY <1>1, <1>2, <1>3

LEMMA pinnedInv ==
  ASSUME IInv, pinned PROVE IInv'
<1>1. /\ worker.todo # <<>> /\ Head(worker.todo)[1] = "pinned" /\ OnlyWorker
      /\ PinNames(1) /\ Continue(<<>>) /\ Head(worker.todo)[1] \in Setting
      /\ engine' = [engine EXCEPT !.loaded = 1, !.pin = 1]
  BY DEF pinned, Working, Setting
<1>2. /\ view.busy /\ view.next = 0 /\ worker.err = "none" /\ Ran(engine, 0)
      /\ <<>> \o Tail(worker.todo) = Todo(0, 1)
  BY <1>1, AtPin
<1>3. Ran(engine', 1)
  <2>1. 1 # NoSetup
    BY DEF NoSetup
  <2>. QED BY <1>1, <1>2, <2>1, LoadedRan
<1>4. worker' = [worker EXCEPT !.todo = Todo(view.next, 1)]
  BY <1>1, <1>2 DEF Continue
<1>5. /\ disk' \in Disks /\ recorded' \in Records /\ disk'.pin = 1
      /\ 1 \in recorded'.session /\ 1 \in recorded'.ever
      /\ recorded'.session \subseteq recorded'.ever
  <2>1. 1 \in 1 .. MaxSetups
    BY SetupBound
  <2>. QED BY <1>1, <2>1, PinOnRecord
<1>6. engine'.loaded = 1 /\ engine'.pin = 1
  BY <1>1, <1>2 DEF Ran, Fields
<1>7. OnRecord'
  BY <1>5, <1>6 DEF OnRecord, SetupPinned
<1>8. 1 \in Before(view.next) .. Before(view.next + 1)
  BY <1>2, BeforeIs
<1>. QED BY <1>1, <1>2, <1>3, <1>4, <1>5, <1>7, <1>8, GoStep

\* Where the run is opened.
LEMMA AtOpen ==
  ASSUME IInv, worker.todo # <<>>, Head(worker.todo)[1] = "open"
  PROVE  /\ view.busy /\ worker.err = "none" /\ view.next \in 0 .. 7 /\ Ran(engine, 1)
         /\ Left(view.next, 1, worker.todo) /\ <<>> \o Tail(worker.todo) = Todo(view.next, 2)
         /\ 2 \in Before(view.next) .. Before(view.next + 1)
<1>1. Head(worker.todo)[1] \notin Setting
  BY DEF Setting
<1>2. PICK k \in 0 .. 18 : Left(view.next, k, worker.todo) /\ Ran(engine, k)
  BY WorkerBusy
<1>3. view.busy /\ worker.err = "none" /\ view.next \in 0 .. 7
  BY WorkerBusy
<1>4. /\ k \in Before(view.next) .. Before(view.next + 1) - 1 /\ k \in 0 .. 17
      /\ Head(worker.todo) = Op(k) /\ <<>> \o Tail(worker.todo) = Todo(view.next, k + 1)
  BY <1>1, <1>2, AtOperation
<1>5. k = 1
  BY <1>4, OpIsNoPin
<1>6. <<>> \o Tail(worker.todo) = Todo(view.next, 2)
  <2>1. k + 1 = 2
    BY <1>5
  <2>. QED BY <1>4, <2>1
<1>7. 2 \in Before(view.next) .. Before(view.next + 1)
  BY <1>3, <1>4, <1>5, FirstStep, BeforeIs
<1>. QED BY <1>2, <1>3, <1>5, <1>6, <1>7

\* prepare reads the pin again after a reset.
LEMMA openInv ==
  ASSUME IInv, open PROVE IInv'
<1>1. /\ worker.todo # <<>> /\ Head(worker.todo)[1] = "open" /\ OnlyWorker
      /\ disk' = disk /\ recorded' = recorded
  BY DEF open, Working, stored
<1>2. /\ view.busy /\ worker.err = "none" /\ Ran(engine, 1) /\ Left(view.next, 1, worker.todo)
  BY <1>1, AtOpen
<1>3. disk \in Disks /\ recorded \in Records /\ OnRecord /\ DOMAIN worker = {"step", "todo", "err"}
  BY DEF IInv, Types, Disk
<1>4. CASE Stop("env") /\ engine' = engine
  <2>1. Holds(engine')
    BY <1>4 DEF IInv
  <2>. QED BY <1>1, <1>4, <2>1, StopStep
<1>5. CASE /\ disk.pin \in 1 .. MaxSetups /\ worker' = worker
           /\ engine' = [engine EXCEPT !.pin = disk.pin]
  <2>1. Ran(engine', 1)
    BY <1>2, <1>5, PinnedRan
  <2>2. Holds(engine')
    BY <2>1, RanHolds
  <2>3. engine'.loaded = engine.loaded /\ engine'.pin = disk.pin
    BY <1>2, <1>5 DEF Ran, Fields
  <2>4. disk.pin \in recorded.session
    BY <1>3, <1>5, SetupBound DEF OnRecord, NoSetup, Torn
  <2>5. Disk'
    <3>1. OnRecord'
      BY <1>1, <1>3, <2>3, <2>4 DEF OnRecord, SetupPinned
    <3>2. ~Loading'
      BY <1>1, <1>5 DEF Loading
    <3>. QED BY <3>1, <3>2 DEF Disk
  <2>6. \E k \in 0 .. 18 : Left(view.next, k, worker'.todo) /\ Ran(engine', k)
    BY <1>2, <1>5, <2>1
  <2>. QED BY <1>1, <1>2, <1>3, <1>5, <2>2, <2>5, <2>6, WorkerStep
<1>. QED BY <1>4, <1>5 DEF open

\* It copies the setup under the pin.
LEMMA ExportPublicSetupInv ==
  ASSUME IInv, ExportPublicSetup PROVE IInv'
<1>1. /\ worker.todo # <<>> /\ Head(worker.todo)[1] = "open" /\ OnlyWorker
      /\ disk' = disk /\ recorded' = recorded /\ engine' = [engine EXCEPT !.run = TRUE]
  BY DEF ExportPublicSetup, Working, stored
<1>2. /\ view.busy /\ worker.err = "none" /\ view.next \in 0 .. 7 /\ Ran(engine, 1)
      /\ <<>> \o Tail(worker.todo) = Todo(view.next, 2)
      /\ 2 \in Before(view.next) .. Before(view.next + 1)
  BY <1>1, AtOpen
<1>3. Ran(engine', 2) /\ engine'.loaded = engine.loaded /\ engine'.pin = engine.pin
  BY <1>1, <1>2, OpenedRan
<1>4. CASE Continue(<<>>)
  <2>1. worker' = [worker EXCEPT !.todo = Todo(view.next, 2)]
    BY <1>2, <1>4 DEF Continue
  <2>2. disk' \in Disks /\ recorded' \in Records /\ OnRecord'
    BY <1>1, <1>3 DEF IInv, Types, Disk, OnRecord, SetupPinned
  <2>. QED BY <1>1, <1>2, <1>3, <2>1, <2>2, GoStep
<1>5. CASE Stop("env")
  <2>1. Holds(engine')
    BY <1>3, RanHolds
  <2>. QED BY <1>1, <1>3, <1>5, <2>1, StopStep
<1>. QED BY <1>4, <1>5 DEF ExportPublicSetup

-----------------------------------------------------------------------------
(* The steps of the server *)

\* The server runs all eight steps.
LEMMA StepsIs == Steps = 8
<1>1. Len(Script) = 8
  BY DEF Script
<1>. QED BY <1>1, WholeScript

\* A snapshot does not show the setup.
LEMMA SnapshotForgets ==
  ASSUME NEW s PROVE snapshot(Fresh(NoSetup)) = snapshot(Fresh(s))
BY DEF snapshot, Fresh

LEMMA IdleIs == Idle.todo = <<>> /\ Idle.step = None /\ DOMAIN Idle = {"step", "todo", "err"}
BY DEF Idle

\* The app around an engine that has done nothing: after a start, a crash or a reset.
LEMMA NewAppInv ==
  ASSUME IInv, NEW s \in {NoSetup, engine.loaded}, NewApp(Fresh(s)), worker' = Idle,
         NEW run \in Nat, NEW token \in Nat, view' = NewView(run, token),
         up' \in BOOLEAN, runs' \in Nat, ~up' => run = 0 /\ token = 0 /\ s = NoSetup
  PROVE  IInv'
<1>1. /\ engine' = Fresh(s) /\ error' = "none" /\ bundle' = None /\ late' = FALSE /\ disk' = disk
      /\ recorded' = [recorded EXCEPT !.session = {disk.pin} \ {NoSetup, Torn}]
  BY DEF NewApp
<1>2. data' = snapshot(engine')
  BY <1>1, SnapshotForgets DEF NewApp
<1>3. /\ view' \in [run : Nat, token : Nat, next : 0 .. 8, busy : BOOLEAN, failed : BOOLEAN]
      /\ view'.next = 0 /\ view'.busy = FALSE /\ view'.failed = FALSE
  BY DEF NewView
<1>4. Ran(engine', 0) /\ engine'.loaded = s /\ engine'.pin = NoSetup
  BY <1>1, FreshRan
<1>5. disk \in Disks /\ recorded \in Records /\ OnRecord
  BY DEF IInv, Types, Disk
<1>6. /\ recorded' \in Records /\ recorded'.ever = recorded.ever
       /\ recorded'.session = {disk.pin} \ {NoSetup, Torn}
  BY <1>1, <1>5, SetupBound DEF Disks, Records, NoSetup, Torn
<1>7. Types'
  BY <1>1, <1>3, <1>6, IdleIs DEF IInv, Types
<1>8. Disk'
  <2>1. OnRecord'
    BY <1>1, <1>4, <1>5, <1>6 DEF OnRecord, SetupPinned
  <2>2. ~Loading'
    BY IdleIs DEF Loading
  <2>. QED BY <2>1, <2>2 DEF Disk
<1>9. Holds(engine')
  BY <1>4, RanHolds
<1>10. ~up' => Down'
  BY <1>1 DEF Down
<1>11. Waiting'
  <2>1. Before(view'.next) = 0
    BY <1>3, BeforeIs
  <2>. QED BY <1>1, <1>2, <1>3, <1>4, <2>1 DEF Waiting
<1>. QED BY <1>3, <1>7, <1>8, <1>9, <1>10, <1>11 DEF IInv

\* Start, crash, reset.
LEMMA LaunchInv ==
  ASSUME IInv, Launch PROVE IInv'
<1>1. /\ NewApp(Fresh(NoSetup)) /\ worker' = Idle /\ up' = TRUE
      /\ runs' = runs + 1 /\ view' = NewView(runs + 1, runs + 1)
  BY DEF Launch, Start
<1>2. runs + 1 \in Nat
  BY DEF IInv, Types
<1>. QED BY <1>1, <1>2, NewAppInv

LEMMA KilledInv ==
  ASSUME IInv, Killed PROVE IInv'
<1>1. /\ NewApp(Fresh(NoSetup)) /\ worker' = Idle /\ up' = FALSE
      /\ runs' = runs /\ view' = NewView(0, 0)
  BY DEF Killed, Crash
<1>2. runs \in Nat
  BY DEF IInv, Types
<1>. QED BY <1>1, <1>2, NewAppInv

LEMMA PostResetInv ==
  ASSUME IInv, PostReset PROVE IInv'
<1>1. /\ NewApp(Fresh(engine.loaded)) /\ worker' = worker /\ up' = up /\ up
      /\ runs' = runs + 1 /\ view' = NewView(runs + 1, view.token) /\ ~view.busy
  BY DEF PostReset, ServeReset, Accepts
<1>2. runs + 1 \in Nat /\ view.token \in Nat /\ up \in BOOLEAN
  BY DEF IInv, Types
<1>3. worker' = Idle
  BY <1>1 DEF IInv, Waiting
<1>. QED BY <1>1, <1>2, <1>3, NewAppInv

\* The validity window ends; the operator exchanges the setup or records a pin.
LEMMA ExpireInv ==
  ASSUME IInv, Expire PROVE IInv'
<1>1. /\ up' = up /\ runs' = runs /\ view' = view /\ engine' = engine /\ data' = data
      /\ error' = error /\ bundle' = bundle /\ worker' = worker /\ disk' = disk
      /\ recorded' = recorded /\ late' = TRUE
  BY DEF Expire, serverVars, stored
<1>2. Types'
  BY <1>1 DEF IInv, Types
<1>3. Disk'
  BY <1>1 DEF IInv, Disk, OnRecord, SetupPinned, Loading
<1>4. (view.busy => Busy)'
  BY <1>1 DEF IInv, Busy
<1>5. (~view.busy => Waiting)'
  BY <1>1 DEF IInv, Waiting
<1>6. (~up => Down)'
  BY <1>1 DEF IInv, Down
<1>. QED BY <1>1, <1>2, <1>3, <1>4, <1>5, <1>6 DEF IInv

LEMMA OperatorInv ==
  ASSUME IInv, Exchange \/ RecordPin PROVE IInv'
<1>1. /\ up' = up /\ runs' = runs /\ view' = view /\ engine' = engine /\ data' = data
      /\ error' = error /\ bundle' = bundle /\ worker' = worker /\ late' = late
  BY DEF Exchange, RecordPin, serverVars
<1>2. disk \in Disks /\ recorded \in Records /\ OnRecord
  BY DEF IInv, Types, Disk
<1>3. /\ disk' \in Disks /\ recorded' \in Records /\ OnRecord'
      /\ recorded.session \subseteq recorded'.session
  <2>1. CASE Exchange
    <3>1. disk' \in Disks /\ disk'.pin = disk.pin /\ recorded' = recorded
      BY <1>2, <2>1, SetupBound DEF Exchange, Disks
    <3>. QED BY <1>1, <1>2, <3>1 DEF OnRecord, SetupPinned
  <2>2. CASE RecordPin
    <3>1. PICK s \in 1 .. MaxSetups : PinNames(s)
      BY <2>2 DEF RecordPin
    <3>2. /\ disk' \in Disks /\ recorded' \in Records /\ disk'.pin = s
          /\ s \in recorded'.session
          /\ recorded.session \subseteq recorded'.session /\ recorded.ever \subseteq recorded'.ever
          /\ recorded'.session \subseteq recorded'.ever
      BY <3>1, PinOnRecord
    <3>. QED BY <1>1, <1>2, <3>2 DEF OnRecord, SetupPinned
  <2>. QED BY <2>1, <2>2
<1>4. Types'
  BY <1>1, <1>3 DEF IInv, Types
<1>5. Disk'
  BY <1>1, <1>3 DEF IInv, Disk, Loading
<1>6. (view.busy => Busy)'
  BY <1>1 DEF IInv, Busy
<1>7. (~view.busy => Waiting)'
  BY <1>1 DEF IInv, Waiting
<1>8. (~up => Down)'
  BY <1>1 DEF IInv, Down
<1>. QED BY <1>1, <1>4, <1>5, <1>6, <1>7, <1>8 DEF IInv

Views == [run : Nat, token : Nat, next : 0 .. 8, busy : BOOLEAN, failed : BOOLEAN]

Advanced(v, n) == [v EXCEPT !.next = n, !.busy = FALSE, !.failed = FALSE]

Failed(v, n) == [v EXCEPT !.next = n, !.busy = FALSE, !.failed = TRUE]

\* The view when a step ends well, ends with an error, or starts.
LEMMA ViewAdvances ==
  ASSUME NEW v \in Views, NEW n \in 0 .. 8
  PROVE  /\ Advanced(v, n) \in Views /\ Advanced(v, n).next = n /\ Advanced(v, n).busy = FALSE
         /\ Advanced(v, n).failed = FALSE /\ Advanced(v, n).run = v.run
BY DEF Views, Advanced

LEMMA ViewFails ==
  ASSUME NEW v \in Views, NEW n \in 0 .. 8
  PROVE  /\ Failed(v, n) \in Views /\ Failed(v, n).next = n /\ Failed(v, n).busy = FALSE
         /\ Failed(v, n).failed = TRUE /\ Failed(v, n).run = v.run
BY DEF Views, Failed

LEMMA ViewStarts ==
  ASSUME NEW v \in Views, NEW w, w = [v EXCEPT !.busy = TRUE]
  PROVE  w \in Views /\ w.next = v.next /\ w.busy = TRUE /\ w.failed = v.failed /\ w.run = v.run
BY DEF Views

\* A step starts on an engine that has run all the steps before it.
LEMMA PostAdvanceInv ==
  ASSUME IInv, PostAdvance PROVE IInv'
<1>1. /\ up /\ ~view.busy /\ view.next < 8 /\ ~view.failed /\ view' = [view EXCEPT !.busy = TRUE]
      /\ worker' = [step |-> view.next, todo |-> step(view.next), err |-> "none"]
      /\ up' = up /\ runs' = runs /\ engine' = engine /\ data' = data /\ error' = error
      /\ bundle' = bundle /\ disk' = disk /\ recorded' = recorded /\ late' = late
  <2>1. \E n \in 0 .. Steps : ServeAdvance(Advance(n, view.token))
    BY DEF PostAdvance
  <2>2. up /\ ~view.busy /\ view.next < Steps /\ ~view.failed
    BY <2>1 DEF ServeAdvance, Advance, Accepts, Fits
  <2>3. view' = [view EXCEPT !.busy = TRUE] /\ up' = up /\ runs' = runs
    BY <2>1 DEF ServeAdvance
  <2>. QED BY <2>2, <2>3, StepsIs DEF PostAdvance, stored
<1>2. /\ view.next \in 0 .. 7 /\ view'.next = view.next /\ view'.busy = TRUE
      /\ view'.failed = view.failed
      /\ view' \in [run : Nat, token : Nat, next : 0 .. 8, busy : BOOLEAN, failed : BOOLEAN]
  <2>1. view \in Views
    BY DEF IInv, Types, Views
  <2>2. /\ view' \in Views /\ view'.next = view.next /\ view'.busy = TRUE
        /\ view'.failed = view.failed
    BY <1>1, <2>1, ViewStarts
  <2>3. view.next \in 0 .. 8
    BY DEF IInv, Types
  <2>4. view.next \in 0 .. 7
    BY <1>1, <2>3
  <2>. QED BY <2>2, <2>4 DEF Views
<1>. DEFINE k == Before(view.next)
<1>3. k \in 0 .. 18 /\ k \in Before(view.next) .. Before(view.next + 1)
  BY <1>2, BeforeGrows
<1>4. step(view.next) = Todo(view.next, k)
  BY <1>2, StepIsTodo
<1>. HIDE DEF k
<1>5. error = "none" /\ Ran(engine, k) /\ bundle = None
  BY <1>1, <1>2 DEF IInv, Waiting, k
<1>6. /\ DOMAIN worker' = {"step", "todo", "err"} /\ worker'.step = view.next
      /\ worker'.err = "none" /\ worker'.todo = Todo(view.next, k)
  BY <1>1, <1>4
<1>7. ~Loading'
  <2>1. k < Before(view.next + 1) /\ k \in 0 .. 17
    BY <1>2, BeforeGrows DEF k
  <2>2. Head(Todo(view.next, k)) = Op(k)
    BY <1>2, <1>3, <2>1, TodoIs
  <2>. QED BY <1>6, <2>1, <2>2, OpIsNoPin DEF Loading, Setting
<1>8. Types'
  BY <1>1, <1>2, <1>6 DEF IInv, Types
<1>9. Disk'
  BY <1>1, <1>7 DEF IInv, Disk, OnRecord, SetupPinned
<1>10. Busy'
  <2>1. Left(view'.next, k, worker'.todo)
    BY <1>2, <1>3, <1>6 DEF Left
  <2>2. Ran(engine', k)
    BY <1>1, <1>5
  <2>. QED BY <1>1, <1>2, <1>3, <1>5, <1>6, <2>1, <2>2 DEF Busy
<1>11. Holds(engine')
  BY <1>1 DEF IInv
<1>. QED BY <1>1, <1>2, <1>8, <1>9, <1>10, <1>11 DEF IInv

\* A worker that is through with its step without an error has done all of it.
LEMMA StepDone ==
  ASSUME IInv, Busy, worker.todo = <<>>, worker.err = "none"
  PROVE  Ran(engine, Before(view.next + 1))
<1>1. PICK k \in 0 .. 18 : Left(view.next, k, worker.todo) /\ Ran(engine, k)
  BY DEF Busy
<1>2. view.next \in 0 .. 7
  BY DEF IInv, Types, Busy
<1>3. /\ << <<"pin">>, <<"pinned">>, Op(1), Op(2), Op(3)>> # <<>>
      /\ << <<"pinned">>, Op(1), Op(2), Op(3)>> # <<>>
      /\ \A s : << <<"LoadSetup", s>>, Op(1), Op(2), Op(3)>> # <<>>
  OBVIOUS
<1>4. /\ << <<"pin">>, <<"pinned">> >> \o Todo(0, 1) # <<>>
      /\ << <<"pinned">> >> \o Todo(0, 1) # <<>>
      /\ \A s : << <<"LoadSetup", s>> >> \o Todo(0, 1) # <<>>
  BY <1>3, PinTodo, Zenon
<1>5. k \in Before(view.next) .. Before(view.next + 1) /\ Todo(view.next, k) = <<>>
  BY <1>1, <1>4 DEF Left
<1>6. k = Before(view.next + 1)
  BY <1>2, <1>5, TodoIs
<1>. QED BY <1>1, <1>6

\* A step ends; its view is published.
LEMMA StepEndsInv ==
  ASSUME IInv, StepEnds PROVE IInv'
<1>1. /\ worker.step # None /\ worker.todo = <<>> /\ advance(worker.step, worker.err = "none")
      /\ data' = snapshot(engine) /\ error' = worker.err /\ worker' = Idle
      /\ bundle' = IF view'.next = 8 /\ worker.err = "none" THEN view.run ELSE bundle
      /\ engine' = engine /\ disk' = disk /\ recorded' = recorded /\ late' = late
  BY StepsIs DEF StepEnds, stored
<1>2. view.busy /\ Busy
  BY <1>1, IdleIs DEF IInv, Waiting
<1>3. /\ up /\ view.next \in 0 .. 7 /\ worker.step = view.next /\ bundle = None
      /\ worker.err \in {"none", "env", "late"}
  BY <1>2 DEF IInv, Types, Busy
<1>4. up' = up /\ runs' = runs
  BY <1>1 DEF advance
<1>5. CASE worker.err = "none"
  <2>1. view' = Advanced(view, view.next + 1)
    BY <1>1, <1>3, <1>5 DEF advance, Advanced
  <2>2. /\ view' \in [run : Nat, token : Nat, next : 0 .. 8, busy : BOOLEAN, failed : BOOLEAN]
        /\ view'.next = view.next + 1 /\ view'.busy = FALSE /\ view'.failed = FALSE
        /\ view'.run = view.run
    <3>1. view \in Views
      BY DEF IInv, Types, Views
    <3>2. view.next + 1 \in 0 .. 8
      BY <1>3
    <3>3. /\ view' \in Views /\ view'.next = view.next + 1 /\ view'.busy = FALSE
          /\ view'.failed = FALSE /\ view'.run = view.run
      BY ONLY <2>1, <3>1, <3>2, ViewAdvances
    <3>. QED BY <3>3 DEF Views
  <2>3. Ran(engine', Before(view'.next))
    BY <1>1, <1>2, <1>5, <2>2, StepDone
  <2>4. Waiting'
    BY <1>1, <1>3, <1>5, <2>2, <2>3 DEF Waiting
  <2>5. Types'
    BY <1>1, <1>4, <2>2, IdleIs DEF IInv, Types
  <2>6. Disk'
    BY <1>1, IdleIs DEF IInv, Disk, OnRecord, SetupPinned, Loading
  <2>. QED BY <1>1, <1>3, <1>4, <2>2, <2>4, <2>5, <2>6 DEF IInv
<1>6. CASE worker.err # "none"
  <2>1. view' = Failed(view, view.next)
    BY <1>1, <1>3, <1>6 DEF advance, Failed
  <2>2. /\ view' \in [run : Nat, token : Nat, next : 0 .. 8, busy : BOOLEAN, failed : BOOLEAN]
        /\ view'.next = view.next /\ view'.busy = FALSE /\ view'.failed = TRUE
    <3>1. view \in Views
      BY DEF IInv, Types, Views
    <3>2. view.next \in 0 .. 8
      BY <1>3
    <3>3. /\ view' \in Views /\ view'.next = view.next /\ view'.busy = FALSE
          /\ view'.failed = TRUE
      BY ONLY <2>1, <3>1, <3>2, ViewFails
    <3>. QED BY <3>3 DEF Views
  <2>3. Waiting'
    BY <1>1, <1>3, <1>6, <2>2 DEF Waiting
  <2>4. Types'
    BY <1>1, <1>4, <2>2, IdleIs DEF IInv, Types
  <2>5. Disk'
    BY <1>1, IdleIs DEF IInv, Disk, OnRecord, SetupPinned, Loading
  <2>. QED BY <1>1, <1>3, <1>4, <2>2, <2>3, <2>4, <2>5 DEF IInv
<1>. QED BY <1>5, <1>6

-----------------------------------------------------------------------------
(* The invariant, and what follows from it *)

LEMMA InitInv ==
  ASSUME Init PROVE IInv
<1>1. /\ up = FALSE /\ runs = 0 /\ view = NewView(0, 0) /\ engine = Fresh(NoSetup)
      /\ data = snapshot(engine) /\ error = "none" /\ bundle = None /\ worker = Idle
      /\ disk = [setup |-> NoSetup, pin |-> NoSetup]
      /\ recorded = [ever |-> {}, session |-> {}] /\ late = FALSE
  BY DEF Init, ServerInit
<1>2. /\ view \in [run : Nat, token : Nat, next : 0 .. 8, busy : BOOLEAN, failed : BOOLEAN]
      /\ view.next = 0 /\ view.busy = FALSE /\ view.failed = FALSE
  BY <1>1 DEF NewView
<1>3. Ran(engine, 0) /\ engine.loaded = NoSetup /\ engine.pin = NoSetup
  BY <1>1, FreshRan
<1>4. disk \in Disks /\ recorded \in Records /\ disk.pin = NoSetup /\ recorded.session = {}
  BY <1>1, SetupBound DEF NoSetup, Torn, Disks, Records
<1>5. Types
  BY <1>1, <1>2, <1>4, IdleIs DEF Types
<1>6. Disk
  BY <1>1, <1>3, <1>4, IdleIs DEF Disk, OnRecord, SetupPinned, Loading
<1>7. Holds(engine)
  BY <1>3, RanHolds
<1>8. Waiting
  <2>1. Before(view.next) = 0
    BY <1>2, BeforeIs
  <2>. QED BY <1>1, <1>2, <1>3, <2>1 DEF Waiting
<1>. QED BY <1>1, <1>2, <1>5, <1>6, <1>7, <1>8 DEF IInv, Down

LEMMA StutterInv ==
  ASSUME IInv, UNCHANGED vars PROVE IInv'
<1>1. /\ up' = up /\ runs' = runs /\ view' = view /\ engine' = engine /\ data' = data
      /\ error' = error /\ bundle' = bundle /\ worker' = worker /\ disk' = disk
      /\ recorded' = recorded /\ late' = late
  BY DEF vars, serverVars, stored
<1>2. Types'
  BY <1>1 DEF IInv, Types
<1>3. Disk'
  BY <1>1 DEF IInv, Disk, OnRecord, SetupPinned, Loading
<1>4. (view.busy => Busy)'
  BY <1>1 DEF IInv, Busy
<1>5. (~view.busy => Waiting)'
  BY <1>1 DEF IInv, Waiting
<1>6. (~up => Down)'
  BY <1>1 DEF IInv, Down
<1>. QED BY <1>1, <1>2, <1>3, <1>4, <1>5, <1>6 DEF IInv

\* The inductive invariant: while a step runs, the engine is the one after the operations
\* the worker has taken off the script; while none runs, the published view is that of the
\* engine, which without an error has run the steps the view counts; a failed engine still
\* holds the reports of such an engine; and the setup and the pin in memory, and the pin
\* just read, are on record.  For any number of sessions, setups, crashes and failures (server.go, engine.go).
THEOREM Invariance == Spec => []IInv
<1>1. IInv /\ Next => IInv'
  BY LaunchInv, KilledInv, ExpireInv, OperatorInv, PostResetInv, PostAdvanceInv, loadInv,
     LoadSetupInv, writePinInv, pinnedInv, openInv, ExportPublicSetupInv, WorkInv, WorkFailsInv,
     StepEndsInv DEF Next
<1>2. IInv /\ UNCHANGED vars => IInv'
  BY StutterInv
<1>. QED BY <1>1, <1>2, InitInv, PTL DEF Spec

\* The setup in memory is one a recorded pin has named, and the pin of a run was on record
\* in its own session, whatever the operator exchanges and whenever the server is killed
\* (engine.go, load and prepare).
THEOREM SetupStaysPinned == Spec => []SetupPinned
<1>1. IInv => SetupPinned
  BY DEF IInv, Disk, OnRecord
<1>. QED BY <1>1, Invariance, PTL

\* No run meets an outcome the scenario takes for impossible: a step fails only because of
\* the environment or the validity window (engine.go, the checks of each step).
THEOREM NothingUnexpected == Spec => []ExpectationsMet
<1>1. IInv => ExpectationsMet
  <2>1. SUFFICES ASSUME IInv PROVE ExpectationsMet
    OBVIOUS
  <2>2. CASE view.busy
    BY <2>1, <2>2 DEF IInv, Busy, ExpectationsMet
  <2>3. CASE ~view.busy
    BY <2>1, <2>3 DEF IInv, Waiting, Idle, ExpectationsMet
  <2>. QED BY <2>2, <2>3
<1>. QED BY <1>1, Invariance, PTL

\* Each report of the script, with its own policy and registry, and beside the others.
LEMMA ReportSound ==
  ASSUME NEW k \in 0 .. 18, NEW e, e.pin = e.loaded, NEW i \in 1 .. 6, NEW r,
         r = At(k, e.loaded, i)
  PROVE  Verify(e, r.epoch, r.registry, r) /\ (r.epoch = 2 => Owner[r.dev] # "alice")
<1>1. /\ r.epoch = (IF i = 6 THEN 2 ELSE 1) /\ r.registry = Registry(IF i = 6 THEN 2 ELSE 1)
      /\ r.ring = (IF i = 6 THEN {3, 4} ELSE 1 .. 4) /\ r.setup = e.loaded /\ r.dev = Device(i)
  BY DEF At
<1>2. /\ Registry(1).epoch = 1 /\ Registry(1).entries = 1 .. 4
      /\ Registry(2).epoch = 2 /\ Registry(2).entries = {3, 4}
  BY DEF Registry
<1>3. r.registry.epoch = r.epoch /\ r.registry.entries = r.ring
  BY <1>1, <1>2
<1>4. Verify(e, r.epoch, r.registry, r)
  BY <1>1, <1>3, VerifyIs
<1>5. r.epoch = 2 => Owner[r.dev] # "alice"
  BY <1>1, Owners DEF Device
<1>. QED BY <1>4, <1>5

\* Two accepted reports of one user use different slots.
LEMMA CountersDiffer ==
  ASSUME NEW k \in 0 .. 18, NEW s, NEW i \in 1 .. 6, NEW j \in 1 .. i - 1, NEW r, NEW q,
         r = At(k, s, i), q = At(k, s, j), Owner[q.dev] = Owner[r.dev],
         q.decision = "accepted", r.decision = "accepted"
  PROVE  q.c # r.c
<1>1. /\ r.dev = Device(i) /\ r.c = Counter(i) /\ r.decision = Decision(k, i)
      /\ q.dev = Device(j) /\ q.c = Counter(j) /\ q.decision = Decision(k, j)
  BY DEF At
<1>2. Decision(k, 5) # "accepted"
  BY DEF Decision
<1>3. i # 5 /\ j # 5
  BY <1>1, <1>2
<1>4. Owner[Device(i)] = Owner[Device(j)]
  BY <1>1
<1>5. Counter(i) # Counter(j)
  BY <1>3, <1>4, Owners DEF Device, Counter
<1>. QED BY <1>1, <1>5

\* Every report kept verifies under the policy and registry kept with it, and under the
\* setup in memory; accepted reports of a user use different slots; nothing of Alice is
\* accepted after the revocation (engine.go, submit, traceReuse and revoke).
THEOREM EvidenceIsSound == Spec => []EvidenceSound
<1>1. IInv => EvidenceSound
  <2>1. SUFFICES ASSUME Holds(engine) PROVE EvidenceSound
    BY DEF IInv
  <2>2. PICK k \in 0 .. 18 : engine.reports = Reports(k, engine.loaded)
                             /\ (k >= 5 => engine.pin = engine.loaded)
    BY <2>1 DEF Holds
  <2>3. DOMAIN engine.reports = 1 .. Count(k) /\ Count(k) \in 0 .. 6 /\ (Count(k) > 0 => k >= 5)
    BY <2>2 DEF Reports, Count
  <2>4. SUFFICES ASSUME NEW i \in 1 .. Count(k)
                 PROVE  LET r == engine.reports[i]
                        IN /\ Verify(engine, r.epoch, r.registry, r)
                           /\ r.epoch = 2 => Owner[r.dev] # "alice"
                           /\ \A j \in 1 .. i - 1 :
                                LET q == engine.reports[j]
                                IN (/\ Owner[q.dev] = Owner[r.dev]
                                    /\ q.decision = "accepted"
                                    /\ r.decision = "accepted") => q.c # r.c
    BY <2>3 DEF EvidenceSound
  <2>. DEFINE r == engine.reports[i]
  <2>5. r = At(k, engine.loaded, i) /\ i \in 1 .. 6 /\ engine.pin = engine.loaded
    <3>1. Reports(k, engine.loaded)[i] = At(k, engine.loaded, i)
      BY KeptReport
    <3>2. i \in 1 .. 6 /\ Count(k) > 0
      BY <2>3
    <3>. QED BY <2>2, <2>3, <3>1, <3>2
  <2>6. Verify(engine, r.epoch, r.registry, r) /\ (r.epoch = 2 => Owner[r.dev] # "alice")
    BY <2>5, ReportSound
  <2>7. ASSUME NEW j \in 1 .. i - 1, Owner[engine.reports[j].dev] = Owner[r.dev],
               engine.reports[j].decision = "accepted", r.decision = "accepted"
        PROVE  engine.reports[j].c # r.c
    <3>1. j \in 1 .. Count(k)
      BY <2>3
    <3>2. engine.reports[j] = At(k, engine.loaded, j)
      BY <2>2, <3>1, KeptReport
    <3>. QED BY <2>5, <2>7, <3>2, CountersDiffer
  <2>. QED BY <2>6, <2>7
<1>. QED BY <1>1, Invariance, PTL

\* What a view that shows n steps and no error stands for.
LEMMA ShownEngine ==
  ASSUME NEW n \in 0 .. 8, NEW e, Ran(e, Before(n))
  PROVE  /\ Len(e.reports) = ReportsAfter[n + 1]
         /\ \A u \in DOMAIN e.used : e.used[u] = e.wallet[u]
         /\ e.run = (n >= 1) /\ e.revoked = (n >= 7) /\ e.bundle = (n = 8)
<1>. DEFINE k == Before(n)
<1>1. k \in 0 .. 18 /\ Count(k) = ReportsAfter[n + 1]
  BY BeforeIs DEF Count, ReportsAfter
<1>2. /\ (k >= 2) = (n >= 1) /\ (k >= 16) = (n >= 7) /\ (k >= 18) = (n = 8)
  BY BeforeIs
<1>. HIDE DEF k
<1>3. /\ e.run = (k >= 2) /\ e.revoked = (k >= 16) /\ e.bundle = (k >= 18)
      /\ e.reports = Reports(k, e.loaded) /\ e.wallet = Wallet(k) /\ e.used = Used(k)
  BY Zenon DEF Ran, k
<1>4. Len(e.reports) = Count(k)
  <2>1. e.reports = Reports(k, e.loaded)
    BY <1>3
  <2>2. Count(k) \in Nat
    BY <1>1 DEF Count
  <2>. QED BY <2>1, <2>2 DEF Reports
<1>5. \A u \in DOMAIN e.used : e.used[u] = e.wallet[u]
  <2>1. e.wallet = Wallet(k) /\ e.used = Used(k)
    BY <1>3
  <2>2. \A u \in DOMAIN Used(k) : Used(k)[u] = Wallet(k)[u]
    BY DEF Used, Wallet, Users
  <2>. QED BY <2>1, <2>2
<1>6. e.run = (n >= 1) /\ e.revoked = (n >= 7) /\ e.bundle = (n = 8)
  BY <1>2, <1>3, Zenon
<1>. QED BY <1>1, <1>4, <1>5, <1>6

\* A view without an error that counts n steps shows an engine of this session that has
\* done exactly the first n, and the archive on offer is this session's (server.go, ServeHTTP
\* and advance).
THEOREM ViewIsTruthful == Spec => []ViewTruthful
<1>1. IInv => ViewTruthful
  <2>1. SUFFICES ASSUME IInv PROVE ViewTruthful
    OBVIOUS
  <2>2. view.next \in 0 .. 8 /\ view.busy \in BOOLEAN
    BY <2>1 DEF IInv, Types
  <2>3. CASE view.busy
    <3>1. worker.step = view.next
      BY <2>1, <2>3 DEF IInv, Busy
    <3>2. worker.step # None
      BY <2>2, <3>1, WholeScript
    <3>. QED BY <2>3, <3>1, <3>2 DEF ViewTruthful
  <2>4. CASE ~view.busy
    <3>1. Waiting
      BY <2>1, <2>4 DEF IInv
    <3>2. worker.step = None /\ data = snapshot(engine)
      BY <3>1, IdleIs DEF Waiting
    <3>3. bundle = IF view.next = Steps THEN view.run ELSE None
      BY <3>1, StepsIs DEF Waiting
    <3>4. ASSUME error = "none"
          PROVE  /\ Len(engine.reports) = ReportsAfter[view.next + 1]
                 /\ \A u \in DOMAIN engine.used : engine.used[u] = engine.wallet[u]
                 /\ engine.run = (view.next >= 1) /\ engine.revoked = (view.next >= 7)
                 /\ engine.bundle = (view.next = Steps)
      <4>1. Ran(engine, Before(view.next))
        BY <3>1, <3>4 DEF Waiting
      <4>2. /\ Len(engine.reports) = ReportsAfter[view.next + 1]
            /\ \A u \in DOMAIN engine.used : engine.used[u] = engine.wallet[u]
            /\ engine.run = (view.next >= 1) /\ engine.revoked = (view.next >= 7)
            /\ engine.bundle = (view.next = 8)
        BY <2>2, <4>1, ShownEngine
      <4>. QED BY <4>2, StepsIs, Zenon
    <3>. QED BY <2>4, <3>2, <3>3, <3>4, Zenon DEF ViewTruthful
  <2>. QED BY <2>3, <2>4
<1>. QED BY <1>1, Invariance, PTL
\* A step of the composition is a step of the server, or one it does not show.
LEMMA ServerSteps ==
  ASSUME IInv, [Next]_vars PROVE [ServerNext]_serverVars
<1>1. CASE Launch \/ Killed
  BY <1>1 DEF Launch, Killed, ServerNext
<1>2. CASE PostReset \/ PostAdvance
  BY <1>2 DEF PostReset, PostAdvance, ServerNext
<1>3. CASE StepEnds
  <2>1. worker.step # None /\ advance(worker.step, worker.err = "none")
    BY <1>3 DEF StepEnds
  <2>2. view.busy
    BY <2>1 DEF IInv, Waiting, Idle
  <2>3. worker.step = view.next
    BY <2>2 DEF IInv, Busy
  <2>. DEFINE ok == worker.err = "none"
  <2>4. ok \in BOOLEAN
    OBVIOUS
  <2>. HIDE DEF ok
  <2>5. advance(view.next, ok)
    BY ONLY <2>1, <2>3 DEF ok
  <2>. QED BY ONLY <2>2, <2>4, <2>5 DEF ServerNext
<1>4. CASE Expire \/ Exchange \/ RecordPin
  BY <1>4 DEF Expire, Exchange, RecordPin
<1>5. CASE \/ load \/ LoadSetup \/ writePin \/ pinned \/ open \/ ExportPublicSetup
           \/ Work \/ WorkFails
  <2>1. OnlyWorker
    BY <1>5 DEF load, LoadSetup, writePin, pinned, open, ExportPublicSetup, Work, WorkFails
  <2>. QED BY ONLY <2>1 DEF OnlyWorker
<1>6. CASE UNCHANGED vars
  BY <1>6 DEF vars
<1>. QED BY <1>1, <1>2, <1>3, <1>4, <1>5, <1>6 DEF Next

\* The server around the real engine, its worker and its disk does what clients count
\* on: the worker ends the step the view announces and no other, once (server.go,
\* ServeHTTP and advance).
THEOREM ImplementsServer == Spec => ServerSpec
<1>1. Init => ServerInit
  BY DEF Init
<1>2. IInv /\ [Next]_vars => [ServerNext]_serverVars
  BY ServerSteps
<1>. QED BY <1>1, <1>2, Invariance, PTL DEF Spec, ServerSpec
=============================================================================
