----------------------------- MODULE DemoServer -----------------------------
(***************************************************************************)
(* The HTTP server of the sensor cooperative demo                          *)
(* (src/nativeproof/cmd/lktrs-demo/server.go and main.go): the state it    *)
(* shows (app.state), the two requests that change it and the step that    *)
(* runs in the background.  Demo adds the engine that runs the step,       *)
(* DemoPage the page that polls and posts.                                 *)
(***************************************************************************)
EXTENDS Naturals

CONSTANTS
  Steps,     \* number of steps of the scenario
  MaxRuns,   \* bound: sessions (starts of the server and resets)
  None       \* a model value: nothing yet

ASSUME ServerBounds == Steps \in Nat \ {0} /\ MaxRuns \in Nat \ {0}

VARIABLES
  up,       \* the process runs (it holds the lock of the data directory)
  runs,     \* sessions so far
  view      \* app.state, with the session's number for the run's identity

serverVars == <<up, runs, view>>

\* The view of a session that has not begun.
NewView(run, token) ==
  [run |-> run, token |-> token, next |-> 0, busy |-> FALSE, failed |-> FALSE]

ServerInit ==
  /\ up = FALSE
  /\ runs = 0
  /\ view = NewView(0, 0)

\* main.run: one server per data directory; newApp draws a token.
Start ==
  /\ ~up
  /\ runs < MaxRuns
  /\ up' = TRUE
  /\ runs' = runs + 1
  /\ view' = NewView(runs + 1, runs + 1)

\* The process is killed: its memory is gone.
Crash ==
  /\ up
  /\ up' = FALSE
  /\ view' = NewView(0, 0)
  /\ UNCHANGED runs

\* What the page posts: a path, a step and the token the page was given.  The header
\* checks and decodeAction refuse anything else, and leave the state alone.
Advance(n, token) == [path |-> "advance", step |-> n, token |-> token]
Reset(token) == [path |-> "reset", step |-> None, token |-> token]

\* The path takes the request: a reset has no step, an advance names the step
\* that is next, of a scenario that has not failed.
Fits(req) ==
  \/ req.path = "reset" /\ req.step = None
  \/ /\ req.path = "advance" /\ req.step = view.next
     /\ view.next < Steps
     /\ ~view.failed

\* Mutant of Accepts: a request is served while a step is running.
AcceptsBusy(req) == up /\ req.token = view.token /\ Fits(req)

\* The checks of ServeHTTP; every refusal leaves the state alone.
Accepts(req) == up /\ req.token = view.token /\ ~view.busy /\ Fits(req)

\* /api/reset: a new engine and a new view.
ServeReset(req) ==
  /\ Accepts(req)
  /\ req.path = "reset"
  /\ runs < MaxRuns
  /\ runs' = runs + 1
  /\ view' = NewView(runs + 1, view.token)
  /\ UNCHANGED up

\* /api/advance: the step starts in the background.
ServeAdvance(req) ==
  /\ Accepts(req)
  /\ req.path = "advance"
  /\ view' = [view EXCEPT !.busy = TRUE]
  /\ UNCHANGED <<up, runs>>

\* app.advance, when the step has ended.
advance(step, ok) ==
  /\ up
  /\ view' = [view EXCEPT !.next = IF ok THEN step + 1 ELSE step,
                          !.busy = FALSE, !.failed = ~ok]
  /\ UNCHANGED <<up, runs>>

-----------------------------------------------------------------------------
(* What every client may count on: sessions begin with a start or an       *)
(* accepted reset, steps are taken in their order, one at a time, and end   *)
(* well or badly.  Demo and DemoPage both implement it.                     *)

ServerNext ==
  \/ Start
  \/ Crash
  \/ ServeReset(Reset(view.token))
  \/ \E n \in 0 .. Steps : ServeAdvance(Advance(n, view.token))
  \/ view.busy /\ \E ok \in BOOLEAN : advance(view.next, ok)

ServerSpec == ServerInit /\ [][ServerNext]_serverVars
=============================================================================
