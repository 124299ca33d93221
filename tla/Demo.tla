-------------------------------- MODULE Demo --------------------------------
(***************************************************************************)
(* The demo process: the HTTP server, the worker that runs a step of the   *)
(* scenario one operation at a time while the handlers go on answering,    *)
(* and the setup directory and pin file the engine keeps on disk           *)
(* (server.go, engine.go).  Any number of tabs post whenever they like,    *)
(* the process may be killed at any point and started again, the operator  *)
(* may exchange the setup, and the validity window of a run may end.       *)
(***************************************************************************)
EXTENDS DemoServer, DemoEngine

CONSTANT
  MaxSetups    \* bound: setups generated or put in place by the operator

ASSUME SetupBound == MaxSetups \in Nat \ {0}

\* The server runs the engine's script to its end; None is no number.
ASSUME WholeScript == Steps = Len(Script) /\ None \notin Nat

Torn == MaxSetups + 1     \* a pin file that does not parse

VARIABLES
  engine,   \* app.engine
  data,     \* the snapshot of the engine in app.state
  error,    \* the class of app.state.Error
  bundle,   \* app.bundle: the archive /api/export hands out
  worker,   \* the goroutine of app.advance: its step, what is left, its error
  disk,     \* the setup directory and the pin file
  recorded, \* history: the setups a whole pin file has named, ever and in this session
  late      \* the validity window of the current run is over

stored == <<disk, recorded>>
vars == <<serverVars, engine, data, error, bundle, worker, stored, late>>

snapshot(e) ==
  [named |-> e.run, epoch |-> e.epoch, used |-> e.used, revoked |-> e.revoked,
   reports |-> [i \in DOMAIN e.reports |-> e.reports[i].decision],
   export |-> e.bundle]

Idle == [step |-> None, todo |-> <<>>, err |-> "none"]

\* The app around an engine that has done nothing.
NewApp(e) ==
  /\ engine' = e
  /\ data' = snapshot(Fresh(NoSetup))
  /\ error' = "none"
  /\ bundle' = None
  /\ late' = FALSE
  /\ recorded' = [recorded EXCEPT !.session = {disk.pin} \ {NoSetup, Torn}]
  /\ UNCHANGED disk

Init ==
  /\ ServerInit
  /\ engine = Fresh(NoSetup)
  /\ data = snapshot(Fresh(NoSetup))
  /\ error = "none"
  /\ bundle = None
  /\ worker = Idle
  /\ disk = [setup |-> NoSetup, pin |-> NoSetup]
  /\ recorded = [ever |-> {}, session |-> {}]
  /\ late = FALSE

-----------------------------------------------------------------------------
(* The process and its surroundings *)

Launch == Start /\ NewApp(Fresh(NoSetup)) /\ worker' = Idle

Killed == Crash /\ NewApp(Fresh(NoSetup)) /\ worker' = Idle

\* The validity window of the run's approval and registry (24 hours) ends.
Expire ==
  /\ engine.epoch > 0
  /\ ~late
  /\ late' = TRUE
  /\ UNCHANGED <<serverVars, engine, data, error, bundle, worker, stored>>

\* A whole pin file names setup s.
PinNames(s) ==
  /\ disk' = [disk EXCEPT !.pin = s]
  /\ recorded' = [ever |-> recorded.ever \cup {s}, session |-> recorded.session \cup {s}]

\* The operator puts another setup in place, and records the pin of one: two
\* steps, in either order, while the server runs or is down.
Exchange ==
  /\ disk.setup \in 1 .. MaxSetups - 1
  /\ disk' = [disk EXCEPT !.setup = @ + 1]
  /\ UNCHANGED <<serverVars, engine, data, error, bundle, worker, recorded, late>>

RecordPin ==
  /\ disk.setup # NoSetup
  /\ \E s \in 1 .. MaxSetups \ {disk.pin} : PinNames(s)
  /\ UNCHANGED <<serverVars, engine, data, error, bundle, worker, late>>

\* A tab resets the demo, or posts the step it shows.
PostReset ==
  /\ ServeReset(Reset(view.token))
  /\ NewApp(Fresh(engine.loaded))
  /\ UNCHANGED worker

PostAdvance ==
  /\ \E n \in 0 .. Steps : ServeAdvance(Advance(n, view.token))
  /\ worker' = [step |-> view.next, todo |-> step(view.next), err |-> "none"]
  /\ UNCHANGED <<engine, data, error, bundle, stored, late>>

-----------------------------------------------------------------------------
(* The worker (server.go, advance; engine.go) *)

Working(name) == up /\ worker.todo # <<>> /\ Head(worker.todo)[1] = name

Continue(ops) == worker' = [worker EXCEPT !.todo = ops \o Tail(@)]
Stop(err) == worker' = [worker EXCEPT !.todo = <<>>, !.err = err]

OnlyWorker == UNCHANGED <<serverVars, data, error, bundle, late>>

\* Mutant of load: a generated setup is in use before its pin is recorded.
loadUnpinned ==
  /\ Working("load")
  /\ engine.loaded = NoSetup
  /\ disk.setup = NoSetup
  /\ disk' = [disk EXCEPT !.setup = 1]
  /\ engine' = [engine EXCEPT !.loaded = 1, !.pin = 1]
  /\ Continue(<<>>)
  /\ UNCHANGED recorded
  /\ OnlyWorker

\* engine.load with no setup configured: a setup in memory is kept; without a setup
\* directory one is generated and published, then pinned; with one, the recorded
\* pin is read and the setup is loaded under it.  (A directory and a pin given on the
\* command line take the last way with a pin that never changes.)
load ==
  /\ Working("load")
  /\ \/ /\ engine.loaded # NoSetup
        /\ Continue(<<>>)
        /\ UNCHANGED disk
     \/ /\ engine.loaded = NoSetup
        /\ disk.setup = NoSetup
        /\ disk' = [disk EXCEPT !.setup = 1]
        /\ Continue(<< <<"pin">>, <<"pinned">> >>)
     \/ /\ engine.loaded = NoSetup
        /\ disk.setup # NoSetup
        /\ IF disk.pin \in 1 .. MaxSetups
             THEN Continue(<< <<"LoadSetup", disk.pin>> >>)
             ELSE Stop("env")
        /\ UNCHANGED disk
  /\ UNCHANGED <<engine, recorded>>
  /\ OnlyWorker

\* np.LoadSetup: the directory is the one of the pin that was read, or an error (as
\* is a setup too small for the demo, among the failures of WorkFails).
LoadSetup ==
  /\ Working("LoadSetup")
  /\ LET pin == Head(worker.todo)[2]
     IN IF disk.setup = pin
          THEN /\ engine' = [engine EXCEPT !.loaded = pin, !.pin = pin]
               /\ Continue(<<>>)
          ELSE /\ Stop("env")
               /\ UNCHANGED engine
  /\ UNCHANGED stored
  /\ OnlyWorker

\* os.WriteFile of the pin: the file is there before its content is.
writePin ==
  /\ Working("pin")
  /\ disk' = [disk EXCEPT !.pin = Torn]
  /\ Continue(<<>>)
  /\ UNCHANGED <<engine, recorded>>
  /\ OnlyWorker

\* The pin is that of the generated setup, the first one, whatever the directory is now.
pinned ==
  /\ Working("pinned")
  /\ PinNames(1)
  /\ engine' = [engine EXCEPT !.loaded = 1, !.pin = 1]
  /\ Continue(<<>>)
  /\ OnlyWorker

\* prepare: after a reset the recorded pin is read again, rather than inferred
\* from the setup in memory or in the directory.
open ==
  /\ Working("open")
  /\ engine.pin = NoSetup
  /\ IF disk.pin \in 1 .. MaxSetups
       THEN /\ engine' = [engine EXCEPT !.pin = disk.pin]
            /\ UNCHANGED worker
       ELSE /\ Stop("env")
            /\ UNCHANGED engine
  /\ UNCHANGED stored
  /\ OnlyWorker

\* prepare, the run directory and its public copy of the setup, made under the pin.
ExportPublicSetup ==
  /\ Working("open")
  /\ engine.pin # NoSetup
  /\ engine' = [engine EXCEPT !.run = TRUE]
  /\ IF disk.setup = engine.pin THEN Continue(<<>>) ELSE Stop("env")
  /\ UNCHANGED stored
  /\ OnlyWorker

\* Any other operation of the step.
Work ==
  /\ up
  /\ worker.todo # <<>>
  /\ Head(worker.todo)[1] \notin {"load", "LoadSetup", "pin", "pinned", "open"}
  /\ LET r == Perform(Head(worker.todo), engine, late)
     IN /\ engine' = r.engine
        /\ IF r.err = "none" THEN Continue(<<>>) ELSE Stop(r.err)
  /\ UNCHANGED stored
  /\ OnlyWorker

\* The operation fails for a reason outside the program.
WorkFails ==
  /\ up
  /\ worker.todo # <<>>
  /\ engine' \in Broken(Head(worker.todo), engine)
  /\ Stop("env")
  /\ UNCHANGED stored
  /\ OnlyWorker

\* app.advance after engine.step: the new view, and at the end the archive.
StepEnds ==
  /\ worker.step # None
  /\ worker.todo = <<>>
  /\ advance(worker.step, worker.err = "none")
  /\ data' = snapshot(engine)
  /\ error' = worker.err
  /\ bundle' = IF view'.next = Steps /\ worker.err = "none" THEN view.run ELSE bundle
  /\ worker' = Idle
  /\ UNCHANGED <<engine, stored, late>>

-----------------------------------------------------------------------------
Next ==
  \/ Launch \/ Killed \/ Expire \/ Exchange \/ RecordPin
  \/ PostReset \/ PostAdvance
  \/ load \/ LoadSetup \/ writePin \/ pinned \/ open \/ ExportPublicSetup
  \/ Work \/ WorkFails \/ StepEnds

Spec == Init /\ [][Next]_vars

-----------------------------------------------------------------------------
(* Properties *)

ReportsAfter == <<0, 0, 1, 2, 3, 4, 5, 6, 6>>

\* "Only the serialized worker accesses the engine": whatever tabs post and
\* however steps fail, a view without an error that says n steps are done is the
\* view of an engine of this session that has done exactly steps 0 to n - 1, and
\* the archive on offer is the one this session exported (server.go, the busy
\* check, the step guard, reset and advance).
ViewTruthful ==
  /\ view.busy <=> worker.step # None
  /\ view.busy => worker.step = view.next
  /\ (up /\ ~view.busy) =>
       /\ data = snapshot(engine)
       /\ bundle = IF view.next = Steps THEN view.run ELSE None
  /\ (up /\ ~view.busy /\ error = "none") =>
       /\ Len(engine.reports) = ReportsAfter[view.next + 1]
       /\ \A u \in DOMAIN engine.used : engine.used[u] = engine.wallet[u]
       /\ engine.run = (view.next >= 1)
       /\ engine.revoked = (view.next >= 7)
       /\ engine.bundle = (view.next = Steps)

\* The outcomes the scenario takes for granted are met in every run: switching
\* devices links and is legal, another user is not linked, the third report
\* exhausts the wallet, the reuse traces to Alice, the revocation removes both of
\* her devices and the other user goes on.  A step fails only because of the
\* environment or because the validity window is over (engine.go).
ExpectationsMet == worker.err # "wrong" /\ error # "wrong"

\* Every report the engine keeps was proved under the setup its policy pins, also
\* after a reset that kept the loaded setup and read the pin again, and verifies
\* under the policy and registry kept with it; accepted reports of one user use
\* different slots; nothing of Alice is accepted in the second epoch.
EvidenceSound ==
  \A i \in DOMAIN engine.reports :
    LET r == engine.reports[i]
    IN /\ Verify(engine, r.epoch, r.registry, r)
       /\ r.epoch = 2 => Owner[r.dev] # "alice"
       /\ \A j \in 1 .. i - 1 :
            LET q == engine.reports[j]
            IN (/\ Owner[q.dev] = Owner[r.dev]
                /\ q.decision = "accepted"
                /\ r.decision = "accepted") => q.c # r.c

\* Whatever the operator exchanges, and wherever the server is killed or a step
\* fails, the setup in memory is one that a pin on record has named, and the pin a
\* run works under was on record during that run's own session.  A setup published
\* by a server killed before it recorded the pin is used by no later run ("do not
\* silently regenerate"), and a reset does not carry the pin over ("re-read rather
\* than inferred", engine.go, load and prepare).
SetupPinned ==
  /\ engine.loaded \in recorded.ever \cup {NoSetup}
  /\ engine.pin \in recorded.session \cup {NoSetup}
=============================================================================
