----------------------------- MODULE DemoEngine -----------------------------
(***************************************************************************)
(* The scenario engine of the sensor cooperative demo                      *)
(* (src/nativeproof/cmd/lktrs-demo/engine.go and export.go): the eight     *)
(* steps of the scripted run, as operations on the engine's record.        *)
(*                                                                         *)
(* Every operation returns an outcome: the engine it leaves behind and the *)
(* class of the error it ended with.  A step is a script of operations;    *)
(* it stops at the first error and keeps what was done before it, as the   *)
(* early returns of the code do.                                           *)
(*                                                                         *)
(* Cryptography appears as what its checks tell apart: a report's nym is   *)
(* its user, its serial is the user and the counter, its message is its    *)
(* number; a proof verifies in the ring and setup it was made in.          *)
(***************************************************************************)
EXTENDS Naturals, Sequences

Quota == 3
NoSetup == 0

Users == {"alice", "bob", "carol"}
Owner == <<"alice", "alice", "bob", "carol">>   \* the four enrolled devices
Devices == DOMAIN Owner

\* Error classes: none, the environment (I/O, the operator), the 24 hour
\* validity window, and an outcome the scenario says cannot happen.
Errors == {"none", "env", "late", "wrong"}

Done(e) == [engine |-> e, err |-> "none"]
Fail(e, err) == [engine |-> e, err |-> err]

Script ==
  << << <<"load">>, <<"open">>, <<"enroll">>, <<"authorize">> >>,
     << <<"submit", 1>> >>,
     << <<"submit", 2>>, <<"compare", 2, TRUE>> >>,
     << <<"submit", 3>>, <<"compare", 3, FALSE>> >>,
     << <<"submit", 1>>, <<"exhaust">> >>,
     << <<"reuse", 2>>, <<"trace">> >>,
     << <<"revoke">>, <<"authorize">>, <<"recheck">>, <<"submit", 3>> >>,
     << <<"export">> >> >>

step(n) == Script[n + 1]

\* A new engine; a reset keeps the loaded setup and nothing else.
Fresh(loaded) ==
  [loaded |-> loaded, pin |-> NoSetup, run |-> FALSE, ring |-> {},
   epoch |-> 0, entries |-> {}, registry |-> [epoch |-> 0, entries |-> {}],
   authorized |-> 0, wallet |-> [u \in Users |-> 0],
   used |-> [u \in {"alice", "bob"} |-> 0],
   reports |-> <<>>, revoked |-> FALSE, bundle |-> FALSE]

\* enroll: keys, wallets and enrollments of the four devices, epoch 1.
enroll(e) ==
  Done([e EXCEPT !.epoch = 1, !.ring = Devices, !.entries = Devices])

\* authorize: sign the registry, load a verifier for the current policy.
\* LoadAuthorizedVerifier checks the setup approval's window.
authorize(e, late) ==
  LET signed == [e EXCEPT !.registry = [epoch |-> e.epoch, entries |-> e.entries]]
  IN IF late THEN Fail(signed, "late")
             ELSE Done([signed EXCEPT !.authorized = e.epoch])

\* AuthorizedVerifier.Verify, inside the validity window: "ok" or what it objects to,
\* in the order of its checks (the policy's epoch, the pinned setup, the message,
\* the ring of the registry).
messageRejection == "message mismatch"
policyRejection == "epoch mismatch"

Verdict(policy, registry, message, r) ==
  IF registry.epoch # policy.epoch THEN policyRejection
  ELSE IF r.setup # policy.pin THEN "key mismatch"
  ELSE IF r.id # message THEN messageRejection
  ELSE IF r.ring # registry.entries THEN "ring mismatch"
  ELSE "ok"

Verify(e, epoch, registry, r) ==
  Verdict([epoch |-> epoch, pin |-> e.pin], registry, r.id, r) = "ok"

\* Registry trace of two reports that verify.
Trace(x, y) ==
  CASE Owner[x.dev] # Owner[y.dev] -> <<"unlinked">>
    [] Owner[x.dev] = Owner[y.dev] /\ x.c # y.c -> <<"legal">>
    [] Owner[x.dev] = Owner[y.dev] /\ x.c = y.c /\ x.id = y.id -> <<"replay">>
    [] OTHER -> <<"traced", Owner[x.dev]>>

\* One reservation of the device's wallet; the page's count follows it.
Burn(e, d) == [e EXCEPT !.wallet[Owner[d]] = @ + 1]
NextCounter(e, d) ==
  IF Owner[d] \in DOMAIN e.used
    THEN [e EXCEPT !.used[Owner[d]] = e.wallet[Owner[d]]] ELSE e

\* The wallet after a signature, and the report; the malicious branch signs with
\* slot 0 again and without the wallet.
Signed(e, d, malicious) == IF malicious THEN e ELSE NextCounter(Burn(e, d), d)
Report(e, d, malicious) ==
  [id |-> Len(e.reports) + 1, dev |-> d, c |-> IF malicious THEN 0 ELSE e.wallet[Owner[d]],
   ring |-> e.ring, setup |-> e.loaded, epoch |-> e.epoch, registry |-> e.registry,
   decision |-> IF malicious THEN "pending_trace" ELSE "accepted"]
Kept(e, r) == Done([e EXCEPT !.reports = Append(@, r)])

\* Mutant of submit: the report is kept without verifying it.
submitUnverified(e, d, malicious, late) ==
  Kept(Signed(e, d, malicious), Report(e, d, malicious))

\* submit: sign, verify under the current authorization, keep the report.
submit(e, d, malicious, late) ==
  LET e1 == Signed(e, d, malicious)
      r == Report(e, d, malicious)
  IN IF d \notin e.ring \/ r.c >= Quota THEN Fail(e, "wrong")
     ELSE IF late THEN Fail(e1, "late")
     ELSE IF Verify(e, e.authorized, e.registry, r) THEN Kept(e1, r)
     ELSE Fail(e1, IF e.loaded # e.pin THEN "env" ELSE "wrong")

\* AuthorizedVerifier.Trace first verifies both reports under the current policy.
TraceCurrent(e, x, y) ==
  IF \A r \in {x, y} : Verify(e, e.authorized, e.registry, r)
    THEN Trace(x, y) ELSE <<"rejected">>

\* compare: reports 1 and b are linked as expected; linked ones are legal.
compare(e, b, want, late) ==
  LET x == e.reports[1]
      y == e.reports[b]
  IN IF (Owner[x.dev] = Owner[y.dev]) # want THEN Fail(e, "wrong")
     ELSE IF ~want THEN Done(e)
     ELSE IF late THEN Fail(e, "late")
     ELSE IF TraceCurrent(e, x, y) # <<"legal">> THEN Fail(e, "wrong")
     ELSE Done(e)

\* exhaust, after its submission: three counters are reserved, the fourth
\* signature is refused and leaves the counter alone.
exhaust(e) == IF e.wallet["alice"] # Quota THEN Fail(e, "wrong") ELSE Done(e)

\* traceReuse: the first and the last report trace to Alice.
traceReuse(e, late) ==
  LET n == Len(e.reports)
  IN IF late THEN Fail(e, "late")
     ELSE IF TraceCurrent(e, e.reports[1], e.reports[n]) # <<"traced", "alice">>
       THEN Fail(e, "wrong")
     ELSE Done([e EXCEPT !.reports[n].decision = "rejected_reuse"])

\* Mutant of revoke: the ring shrinks but the authorization keeps its entries.
revokeRingOnly(e) ==
  Done([e EXCEPT !.ring = {d \in @ : Owner[d] # "alice"}, !.epoch = 2])

\* revoke, up to the new authorization.
revoke(e) ==
  LET ring == {d \in e.ring : Owner[d] # "alice"}
  IN IF ring # {3, 4} THEN Fail(e, "wrong")
     ELSE Done([e EXCEPT !.ring = ring, !.epoch = 2,
                         !.entries = {d \in @ : Owner[d] # "alice"}])

\* The checks of revoke: the new verifier refuses the old registry and the old
\* proof in the new ring; the old verifier, of epoch 1, still accepts it; Alice's
\* secret makes no statement for another user's account.
recheck(e, late) ==
  LET first == e.reports[1]
      e1 == [e EXCEPT !.revoked = TRUE]
  IN IF late THEN Fail(e1, "late")
     ELSE IF \/ Verify(e, e.authorized, first.registry, first)
             \/ Verify(e, e.authorized, e.registry, first)
             \/ ~Verify(e, first.epoch, first.registry, first)
             \/ \E d \in e.ring : Owner[d] = "alice" THEN Fail(e1, "wrong")
     ELSE Done(e1)

\* The archive: the public setup, the current policy, and each report with the
\* policy and registry it was accepted under; message 0 is the tampered one.
exportFiles(e) ==
  [setup |-> e.pin, current |-> [epoch |-> e.epoch, pin |-> e.pin], reports |-> e.reports]

verifierArgs(files, id) ==
  LET r == files.reports[id]
  IN [setup |-> files.setup, policy |-> [epoch |-> r.epoch, pin |-> files.setup],
      registry |-> r.registry, message |-> id, signature |-> r]

\* verify-authorized, in a process of its own: load the setup the policy pins, verify.
authorizedVerifyCommand(args) ==
  IF args.setup # args.policy.pin THEN "setup mismatch"
  ELSE Verdict(args.policy, args.registry, args.message, args.signature)

\* The command's outcome is the expected one: success, or this very rejection.
runVerifier(args, expected) == authorizedVerifyCommand(args) = expected

\* exportAndVerify: every report verifies under its own policy, the first neither
\* with another message nor under the current policy; then the archive is kept.
exportAndVerify(e, late) ==
  LET files == exportFiles(e)
      first == verifierArgs(files, 1)
  IN IF late THEN Fail(e, "late")
     ELSE IF /\ \A i \in DOMAIN e.reports : runVerifier(verifierArgs(files, i), "ok")
             /\ runVerifier([first EXCEPT !.message = 0], messageRejection)
             /\ runVerifier([first EXCEPT !.policy = files.current], policyRejection)
       THEN Done([e EXCEPT !.bundle = TRUE])
     ELSE Fail(e, "wrong")

\* engine.step, one operation of it ("load" and "open" work on the disk and
\* are actions of Demo).
Perform(op, e, late) ==
  CASE op[1] = "enroll" -> enroll(e)
    [] op[1] = "authorize" -> authorize(e, late)
    [] op[1] = "submit" -> submit(e, op[2], FALSE, late)
    [] op[1] = "reuse" -> submit(e, op[2], TRUE, late)
    [] op[1] = "compare" -> compare(e, op[2], op[3], late)
    [] op[1] = "exhaust" -> exhaust(e)
    [] op[1] = "trace" -> traceReuse(e, late)
    [] op[1] = "revoke" -> revoke(e)
    [] op[1] = "recheck" -> recheck(e, late)
    [] op[1] = "export" -> exportAndVerify(e, late)

\* What an operation that fails halfway may leave: an empty run directory, the policy
\* of an unfinished enrollment, a registry signed but not loaded, a counter reserved for
\* a proof that was not made (before or after the page's count follows it).
Broken(op, e) ==
  CASE op[1] = "open" -> IF e.pin = NoSetup THEN {e} ELSE {e, [e EXCEPT !.run = TRUE]}
    [] op[1] = "enroll" -> {e, [e EXCEPT !.epoch = 1]}
    [] op[1] = "authorize" ->
         {e, [e EXCEPT !.registry = [epoch |-> e.epoch, entries |-> e.entries]]}
    [] op[1] = "submit" ->
         {e, Burn(e, op[2]), NextCounter(Burn(e, op[2]), op[2])}
    [] OTHER -> {e}
=============================================================================
