# LkTRS verification project

TLA+ models of LkTRS (linkable, k-times traceable ring signatures), the TLC
instances that check them, and TLAPS proofs about them. Source paths are given
below `src/`, except that `server.go`, `engine.go`, `export.go` and `web/app.js`
stand for files of `nativeproof/cmd/lktrs-demo`.

Run a check with `tlc -config MCVault.cfg MCVault` and a proof with
`tlapm VaultProofs.tla`. From nothing, `ProfileProofs`, `TracingProofs` and
`DemoProofs` take ten to fifteen minutes each, `VaultProofs` nine, the other four
about five.
`PROJECT.json` lists the runs, a mutant for every property, the source lines of
every definition, the hazards of the code, and the theorems.

## 1. The system and its modules

| module | models | proofs | runs |
| --- | --- | --- | --- |
| `OneTimePass` | the abstract promise: per secret and issue each pass 0 .. k-1 is issued at most once, for one quota k | | |
| `Vault` | encrypted signer wallet, `nativeproof/vault.go` | `VaultProofs` | `vault`, `vault_issues` |
| `Service` | stdio proof service and its ledger, `nativeproof/service.go` | `ServiceProofs` | `service`, `service_ring`, `service_atomic` |
| `NativeProcess` | C++ client that owns the service process, `protocol/native_process.cpp` | `NativeProcessProofs` | `native_process` |
| `Trust` | policies, approvals, enrolments, registries, `nativeproof/trust.go` | `SetupProofs` | `trust` |
| `SetupBundle` | setup directories and their commands, `nativeproof/setup.go`, `cmd/lktrs-native/artifact.go` | `SetupProofs` | `setup` |
| `Profile` | the algebra: accumulator, statement, circuit relation, verification, tracing (`profile.go`, `circuit.go`, `backend.go`, `protocol.go`) | `ProfileProofs` | through `Tracing` |
| `Ceremony` | q-SDH ceremony, `nativeproof/ceremony.go`, over `Profile` | `TracingProofs` | through `Tracing` |
| `Tracing` | rings, signers and traces over `Ceremony` | `TracingProofs` | `tracing` |
| `Clear` | C++ reference protocol, `protocol/clear.cpp`, `accumulator.cpp` | `ClearPageProofs` | `clear` |
| `DemoServer` | the demo's HTTP server, `server.go`, and what its clients may count on (`ServerSpec`) | `DemoProofs`, `ClearPageProofs` | through the next two |
| `DemoEngine`, `Demo` | the scenario engine, `engine.go`, `export.go`, composed with the server | `DemoProofs` | `demo` |
| `DemoPage` | the polling page, `web/app.js`, composed with the server | `ClearPageProofs` | `demo_page` |

How the parts interact. The C++ client starts `lktrs-native --stdio`, which runs a
`Service`. A `Service` signs through in-memory `Signer`s; an embedding Go program
may use a `SignerVault` with the same prover. Both reach the prover through
`MakeStatement`, whose algebra is in `Profile`. The ceremony produces the
accumulator's powers, a setup bundle carries them to disk, and a trust policy pins
the bundle. The demo drives all of these from a browser.

## 2. How the modules follow the code

**Vault.** One action per stretch of code between two points where another
goroutine or process can be seen: the mutex, the flock, reading and deciding,
replacing the file, syncing the directory, proving, and the failure of each.
`Kill` ends a process anywhere and frees its locks. The file is kept as `visible`
(what a read sees) and `durable` (what a power loss leaves): a rename changes the
first, a directory sync or a spontaneous write-back the second. Contents are synced
before the rename, so a torn file cannot occur. Encryption, permissions and JSON are
abstracted away; rolled-back or cloned files are outside what the code promises
(`vault.go:3-6`).

**Service.** `Handle` holds the mutex, so a request is one action, with the outcome
of its `persistState` as a parameter: `failed` (before the rename), `renamed` (the
directory sync failed) or `synced`. Only `synced` is answered ok. A request refused
before it changes anything stutters. Keys are random, so a secret is a user and the
lifetime it was drawn in. An envelope is a signature with one of its proofs; those
offered to `verify` are proofs of signatures the service gave out, and a signer may
prove one statement more than once. The ledger knows envelopes, not passes, and so
does `VerifiedOnce`. One process per state file.

**NativeProcess.** A frame is `FrameSize` pieces and a pipe holds `PipeSize` of them,
so a write blocks midway. `GiveUp` stands for every exception inside the `try`:
deadline, broken pipe, end of file, oversized response. The child loops through
read, handle, write and may die at any time. With `AutoReap` the host's SIGCHLD
disposition takes the child's status first.

**Trust.** Each signing operation adds a record only its maker can add; the clock
moves; an application loads its policy at one time and verifies at later ones.
Verifying and tracing change nothing, so they are operators, and the properties
quantify over every call that could be made in a state.

**SetupBundle.** Commands step at each system call: read the files one by one,
make the parent directory, stage, sync, rename, sync the parent, report. The
operator may move a bundle away and have another published under its name in
between. A file's content is the number of the setup it belongs to, which is what a
digest tells apart. The entry of a parent directory that `MkdirAll` makes
(`setup.go:197`) is never synced: `ParentLoss` is the power loss that takes it, and
every bundle below it, whatever was reported. `ReportedSurvives` names that case as
the only exception.

**Profile, Ceremony, Tracing.** Group elements are coordinates over generators
nobody knows a relation of: an accumulator value is a polynomial in tau, a pseudonym
its three coordinates. A pairing multiplies polynomials. Hashes are constants of the
instance. The prime fields are small enough for TLC, so zero denominators and equal
challenges, negligible in the real fields, do occur and the guards for them count,
as do those against a zero seed and a beacon of zeros.
A Groth16 proof exists exactly when the relation of `Define` holds.

**Clear.** One action per public operation. The accumulator's value is the set of
its members and a witness the set without its owner; `Profile` shows that such
values do not collide. The version is bounded by `MaxVersion`, and `advance` fails
there as it does at the end of its 64 bits.

**Demo.** A step is a script of operations that stops at the first error and keeps
what was done. The worker takes one operation at a time while handlers answer. A
kill may fall between publishing a setup and recording its pin. The operator may
exchange the setup directory (`Exchange`) and write a pin (`RecordPin`): two steps,
in either order, before or between the engine's own reads, which are steps too (the
pin, the directory under it, and in `prepare` the pin again and the public copy made
under it). The history variable `recorded` holds the setups that a whole pin file has
named, ever and since the session began. A setup and a pin given with `--setup` on
the command line are the case in which neither changes. The validity window of a run
may end. Requests that `decodeAction` or the header checks refuse leave the state
alone and are not sent. In `DemoPage` a step is one action,
and the page has up to two reads on the wire, answered in any order, next to a
second tab that posts. `ServerSpec` in `DemoServer` is the server both compositions
share: `Demo` and `DemoPage` are proved to implement it, so what the page is checked
against is what the server with its engine and worker does.

## 3. Runs

| run | instance | properties |
| --- | --- | --- |
| `vault` | 3 goroutines, 2 handles, 1 issue, quota 2, crashes, power losses | `TypeOK`, `NoSlotTwice`, `ProofsAreBurned`, `KeyHeldWhileInUse`, `ImplementsOneTimePass` |
| `vault_issues` | 2 goroutines, 2 issues of which the wallet holds 1, 2 secrets competing to create it, fair | `NeverUnreadable`, `OnlyForward`, `CallsDrain` |
| `service` | 1 user and a blank name, 2 accounts, 2 proofs of a statement, 2 lifetimes | `TypeOK`, `RingSound`, `AcksAreDurable`, `OneQuotaPerIssue`, `VerifiedOnce`, `AlwaysRestartable`, `ImplementsOneTimePass` |
| `service_ring` | 2 users and a blank name, 2 accounts, ring of 2, 1 lifetime | `RevokedNeverVerifies` |
| `service_atomic` | 1 user, 1 account | `RingOpsAtomic` is violated, see the finding |
| `native_process` | 2 threads, 3 requests each, frames of 3 in pipes of 2, host reaps, fair | `TypeOK`, `OwnAnswer`, `HandledOnce`, `ChildReaped`, `AllReturn` |
| `trust` | 2 users, 3 accounts of which 2 share a secret, 2 authorities, 2 epochs, 3 windows | `AcceptedAreEnrolled`, `NeverOutOfDate`, `TraceResolves` |
| `setup` | 2 commands, 2 directories, 2 setups, the parent directory there or not | `WholeOrAbsent`, `LoadedIsPinned`, `ReportedSurvives` |
| `tracing` | fields of order 13 and 11, 2 users, 3 accounts, ring of 2, quotas 1 and 2, 2 participants | `StatementsProve`, `WitnessIsCurrent`, `TraceTellsTruth`, `AtMostQuotaSerials`, `EveryFactorCounts` |
| `clear` | 2 users, 3 accounts, ring of 2, 7 versions | `VerifiesWithItsRing`, `RevokedForGood` |
| `demo` | the 8 steps, 4 sessions, 3 setups | `ViewTruthful`, `ExpectationsMet`, `EvidenceSound`, `SetupPinned` |
| `demo_page` | 2 steps, 3 sessions, fair | `NeverBackwards`, `AutoEnds` |

Each property's comment says what it states and which code it is about.

**What they show.** No counter reaches the prover twice, across goroutines,
processes, crashes and power losses, and every counter that does is already spent on
disk. What the service answered ok survives; an issue keeps one quota; an envelope
is accepted once; a revoked user stays out. A caller of the native client gets its
own response or an error. A verifier accepts enrolled members inside the validity
windows only. A setup bundle is whole or absent. The demo uses no setup that a pin
has not named. Traces name the user who reused a
counter and nobody else. The page never shows an older state after a newer one.

**Bounds.** Three goroutines on two handles put two on one mutex and a third against
them on the flock. Quota 2 has a first, a last and an exhausted pass. An issue limit
below the number of issues makes the limit bite. Two lifetimes give one restart, all
that separates an old key from a new one. `service_ring` has one lifetime because
signatures of an earlier one never verify: their accounts are gone. A frame longer
than a pipe makes partial writes happen, and a third request follows one that failed.
Two commands and two directories are one command against another and a copy beside
its original; two setups let a bundle be exchanged for a different one. Two epochs
are one supersession; the windows overlap, and one is a single instant. The fields
leave room for every counter, secret and account of the `tracing` instance to be
different. In `clear`, seven versions pass through filling the ring, accounts coming
back and the last version. `MaxSigned`, `MaxUpdates`, `MaxRegistries`,
`MaxEnrollments` and `MaxApprovals` cap what may be published; `MaxReports` is 2, the
number a double report takes. `MaxRuns` caps the sessions of the demo: it ends the
behaviours considered and never makes the server refuse what the page posts, for
whose reset `OtherTab` leaves a session. Three setups are one generated, one put in
its place and one more to change directory and pin apart. `demo` has the real number of steps;
`demo_page` has two, since the page treats all but the last alike.

`CHECK_DEADLOCK FALSE` appears where the system may stop: `native_process` (the
object is destroyed and its threads are done), `demo` (a killed server may stay
down), `trust` (the clock and the bounds are used up).

**Fairness.** `Vault`: weak fairness of each goroutine's steps other than a failing
`flock` (`Proceed`): that call may fail, but nothing makes it, so a goroutine whose
lock is never released waits for ever and `CallsDrain` would not hold. A lock that is
free only now and then may be won by others for ever, since flock promises no queue,
so `CallsDrain` assumes that callers stop calling. `NativeProcess`: threads in a request
keep running, which includes their deadline passing, and the kernel carries out a
SIGKILL. Nothing is required of a child that was not killed. `DemoPage`: a step ends,
the server answers while it is up, a failed connection is reported, and the browser
runs its timer and delivers answers; `AutoEnds` moreover relies on other tabs resetting
the demo finitely often, here at most `MaxRuns` times. New calls, clicks, kills, power losses and
restarts are never required.

**Finding.** `nativeproof/README.md:36` describes join and exit as "mutate current
public ring atomically". In the code (`service.go:418`, `430`, `432`) the ring
changes first and `persistState` may then fail: the client is told of an error, the
ring stays changed, and a retry is refused. `service_atomic` shows it. `RingSound`
says that such a ring is still usable.

## 4. Proofs

Each theorem holds for every value of the constants that satisfies the named
assumptions of its module. Every action has its own lemma or step. The assumptions:

- positive or natural bounds, finitely many issues or accounts where something is
  counted, and markers for "nothing" distinct from values (`VaultAssumption`,
  `NoFileAssumption`, `ServiceAssumption`, `NativeProcessAssumption`,
  `TrustConstants`, `BundleBound`, `ClearConstants`, `ServerBounds`, `SetupBound`);
- `WholeScript`: the server runs the engine's whole script, as `engine.step` does;
- `FieldConstants`: P and Q are prime, given as the existence of inverses, Q is the
  smaller, and counters are narrow enough for the circuit's range check, as
  `profile.go` fixes them; `AccountConstants` and `ChallengeBelowP`: secrets are
  nonzero scalars and hashes land in their fields; `TracingConstants`: seeds are field
  elements and quotas fit their width; `RegistryAccepts`: two users never have one
  secret, which the registry refuses, nor two accounts one member hash, which a ring
  refuses and the hash is chosen to rule out.

The safety properties are seldom inductive alone; what is added is this.

- `VaultProofs` (`Invariance`, `TypeCorrect`, `SlotOnce`, `Burned`, `StaysReadable`,
  `KeyHeld`, `Forward`, `Refinement`). Which locks a goroutine holds at which step,
  so at most one is between reading and proving; that its copy there is the file plus
  its own reservation; that from the directory sync to the proof the reservation is
  durable; that every proved counter lies below the durable next counter. A power
  loss then only returns to a file ahead of every proof.
- `ServiceProofs` (`Invariance`, `TypeCorrect`, `RingStaysSound`, `Durability`,
  `QuotaPinned`, `NoDoubleReport`, `RevocationHolds`, `Restartable`, `Refinement`).
  Each of the three copies of the ledger (memory, file, file after a power loss)
  covers every answer given so far, although the three may disagree about what was
  not answered; a `Signer`'s counter is past every signature of its lifetime; the
  accounts behind a signature stay registered while the process lives.
- `NativeProcessProofs` (`Invariance`, `TypeCorrect`, `ResponsesMatch`,
  `HandledAtMostOnce`, `NoChildLeft`). Who holds the mutex where, and what the pipes
  and the child hold at each moment of a request: pieces of that request, in order
  and counted. Between requests the stream is quiet or the child is gone, which is
  why a late response cannot meet the next caller.
- `SetupProofs`, for `SetupBundle` (`Invariance`, `Atomicity`, `PinHolds`,
  `Durability`). For every stage of a command, which files it has read or staged and
  to which setup they belong; a reported bundle is the same on disk and after a power
  loss, or went with its parent directory. For `Trust` (`TypeCorrect`, `Enrolled`, `UpToDate`, `TraceNamesOwner`): the
  type invariant is strong enough, since it says that the proofs inside a registry
  were made by their holders and that a verifier's approval was signed.
- `ProfileProofs` (`CombineIsPolynomial`, `WitnessFactor`, `AccumulatorIsSet`,
  `VerifyIsEqual`) has no state: it is the algebra behind the accumulator, for any
  prime fields and any ring. `combinePowers` computes the product of the members'
  factors; a witness times its member's factor is the accumulator; the pairing check
  tests exactly that; and, since a product over a field vanishes only where a factor
  does, equal accumulators come from equal sets of accounts. Modular arithmetic,
  products of polynomials and division by a factor are lemmas here.
- `TracingProofs` (`Invariance`, `FactorsCount`, `StatementsAreProved`,
  `WitnessesCurrent`, `TraceTruth`, `QuotaHolds`). The invariant has three parts: a
  checked transcript is a chain in which each contribution extends the one before,
  and sealed powers are those of all its factors; every signature on record was made
  by a user with that user's secret, seeds and counter, and different users have
  different pseudonyms; its witness is the one of the ring it was made for. Two
  signatures under one counter then give two points of a line through the secret,
  which is what `Trace` solves.
- `DemoProofs` (`Invariance`, `ViewIsTruthful`, `NothingUnexpected`,
  `EvidenceIsSound`, `SetupStaysPinned`, `ImplementsServer`). The eighteen operations
  of the script leave one engine each, up to the setup and the pin. An engine without
  an error is the one after the operations the worker has taken; one with an error
  still holds the reports of such an engine; no worker runs while none is announced.
  The pin on disk, the pin a worker has read and the pin in the engine are all on
  record in the session, and the loaded setup is on record.
- `ClearPageProofs`, for `Clear` (`ClearInvariance`, `RingBinding`, `Revocation`): the
  ring kept as active flags and the ring in the accumulator agree; what `sign_clear`
  put into a signature; a revoked user keeps an account only once the versions have
  run out. For `DemoPage` (`PageGoesForward`, `PageServer`): the views of the server
  rise in rank through steps, resets and restarts. Every answer on its way and the view on
  the page are past views; at most one read may still be applied, and its answer is
  not older than what is shown.

**Refinement.** `VaultProofs.Refinement` and `ServiceProofs.Refinement` show that
wallet and service both implement `OneTimePass`; `DemoProofs.ImplementsServer` and
`ClearPageProofs.PageServer` that both compositions of the demo implement `ServerSpec`.

**Data.** What a loop over a sequence computes is proved by induction over a set of
natural numbers (`SetInduction`, from the existence of a least element), and the loops
are recursive functions, whose existence (`Recursion`) is proved before their
equations are used.

**Only model-checked.** The liveness properties `CallsDrain`, `AllReturn` and
`AutoEnds`, since fairness is beyond the proof system used here. `RingOpsAtomic` is
violated. Every safety property of the other runs has a theorem.

## 5. Not modelled

- Byte encodings and their preflight limits (`wire.go`, `context.go`,
  `setup_encoding.go`, C++ serialization): pure functions on bytes without protocol
  state. The models exchange decoded values.
- Key generation, key loading and the size preflight of `backend.go`, and the
  witness assignment of `witness.go`: field arithmetic of the real curve, out of
  TLC's reach. The relation they serve is in `Profile`.
- The service's `link` and `trace` requests: they change nothing, and their verdicts
  are those of `Profile`.
- Group and hash wrappers: algebra over cryptographic groups.
- The durability of the directory of the wallet (`vault.go:185`) and of the service's
  ledger (`service.go:160`) when `MkdirAll` creates it: as for a setup's parent its
  entry is never synced, so nothing can be promised of it. Both models start with the
  directory in place.
- Reuse of a process id by the kernel after the host reaped the child
  (`native_process.cpp:215`): process ids are not modelled.
- Command-line flags, samples, HTTP headers, static files, downloads, page layout.
- The legacy prototype, which the current code does not call.
