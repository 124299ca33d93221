------------------------------ MODULE DemoPage ------------------------------
(***************************************************************************)
(* The page of the demo (web/app.js) and its conversation with the server. *)
(*                                                                         *)
(* The page has up to two reads of /api/state on the wire, one from its    *)
(* timer and one from the action that posted, and either may be answered   *)
(* late; a read that a newer read or action has superseded is discarded.   *)
(* A second tab posts whenever it likes; the server may be killed and      *)
(* started again; a step of the scenario may fail.                         *)
(***************************************************************************)
EXTENDS DemoServer

VARIABLES
  page,     \* what it shows, its auto flag, its connection error
  tick,     \* the read of its timer
  act       \* the action in flight and the read that ends it

browser == <<page, tick, act>>
pageVars == <<serverVars, browser>>

Quiet == [at |-> "idle", fresh |-> FALSE, got |-> None]
NoAction == [at |-> "idle", fresh |-> FALSE, got |-> None, req |-> None, ok |-> FALSE]

PageInit ==
  /\ ServerInit
  /\ page = [shown |-> None, auto |-> FALSE, lost |-> FALSE]
  /\ tick = Quiet
  /\ act = NoAction

-----------------------------------------------------------------------------
(* The server's side *)

ServerStarts == Start /\ UNCHANGED browser

\* Requests the killed process has not answered fail.
ServerKilled ==
  /\ Crash
  /\ tick' = IF tick.at = "asked" THEN [tick EXCEPT !.at = "got"] ELSE tick
  /\ act' = IF act.at = "asked" THEN [act EXCEPT !.at = "got"]
            ELSE IF act.at = "posted" THEN [act EXCEPT !.at = "replied"]
            ELSE act
  /\ UNCHANGED page

\* The step in the background ends, well or badly.
StepDone ==
  /\ view.busy
  /\ \E ok \in BOOLEAN : advance(view.next, ok)
  /\ UNCHANGED browser

\* The page's own request, and one of another tab.
ServePost ==
  /\ up
  /\ act.at = "posted"
  /\ \/ ServeReset(act.req)
     \/ ServeAdvance(act.req)
     \/ ~Accepts(act.req) /\ UNCHANGED serverVars
  /\ act' = [act EXCEPT !.at = "replied", !.ok = Accepts(act.req)]
  /\ UNCHANGED <<page, tick>>

\* (The bound on sessions keeps one for a reset the page has posted.)
OtherTab ==
  /\ \/ /\ (act.at = "posted" /\ act.req.path = "reset") => runs + 1 < MaxRuns
        /\ ServeReset(Reset(view.token))
     \/ \E n \in 0 .. Steps : ServeAdvance(Advance(n, view.token))
  /\ UNCHANGED browser

\* GET /api/state, for the timer's read and for the action's.  When nobody
\* listens the browser reports the failure: no answer.
Answer(read) == [read EXCEPT !.at = "got", !.got = IF up THEN view ELSE None]

ServeTick ==
  /\ tick.at = "asked"
  /\ tick' = Answer(tick)
  /\ UNCHANGED <<serverVars, page, act>>

ServeRefresh ==
  /\ act.at = "asked"
  /\ act' = Answer(act)
  /\ UNCHANGED <<serverVars, page, tick>>

PostRefused ==
  /\ ~up
  /\ act.at = "posted"
  /\ act' = [act EXCEPT !.at = "replied"]
  /\ UNCHANGED <<serverVars, page, tick>>

-----------------------------------------------------------------------------
(* The page's side.  "fresh" stands for the comparison of a read's   *)
(* generation with the latest one: a new read or action clears it on the   *)
(* reads already on the wire.                                              *)

Stale(read) == [read EXCEPT !.fresh = FALSE]
InFlight == act.at # "idle"

\* action(): one at a time, and only when something is shown.
Post(req) ==
  act' = [act EXCEPT !.at = "posted", !.req = req, !.fresh = FALSE, !.got = None]

\* The timer's read starts.
Tick ==
  /\ tick.at = "idle"
  /\ tick' = [at |-> "asked", fresh |-> TRUE, got |-> None]
  /\ act' = Stale(act)
  /\ UNCHANGED <<serverVars, page>>

\* Mutant of Applied: an answer overtaken by a later read is shown.
AppliedLate(read) ==
  IF read.got = None
    THEN [page EXCEPT !.auto = FALSE, !.lost = TRUE]
    ELSE [shown |-> read.got, lost |-> FALSE,
          auto |-> page.auto /\ ~read.got.failed /\ read.got.next < Steps]

\* Mutant of Applied: the automatic run does not notice a failed step.
AppliedOverError(read) ==
  IF ~read.fresh THEN page
  ELSE IF read.got = None THEN [page EXCEPT !.auto = FALSE, !.lost = TRUE]
  ELSE [shown |-> read.got, lost |-> FALSE,
        auto |-> page.auto /\ read.got.next < Steps]

\* What a read does to the page: a superseded one nothing, a failed one stops
\* the automatic run, an answer is shown and stops it at an error or the end.
Applied(read) ==
  IF ~read.fresh THEN page
  ELSE IF read.got = None THEN [page EXCEPT !.auto = FALSE, !.lost = TRUE]
  ELSE [shown |-> read.got, lost |-> FALSE,
        auto |-> page.auto /\ ~read.got.failed /\ read.got.next < Steps]

\* poll() for the timer; the automatic run posts the next step from here.
Polled ==
  /\ tick.at = "got"
  /\ page' = Applied(tick)
  /\ IF /\ tick.fresh
        /\ tick.got # None
        /\ page'.auto
        /\ ~tick.got.busy /\ ~tick.got.failed
        /\ tick.got.next < Steps
        /\ ~InFlight
       THEN /\ Post(Advance(tick.got.next, tick.got.token))
            /\ tick' = [Quiet EXCEPT !.at = "acting"]
       ELSE /\ tick' = Quiet
            /\ UNCHANGED act
  /\ UNCHANGED serverVars

ActionEnds ==
  /\ act' = NoAction
  /\ tick' = IF tick.at = "acting" THEN Quiet ELSE tick

\* The answer to the POST: a refusal ends the action and the automatic run, an
\* acceptance starts the action's read.
Answered ==
  /\ act.at = "replied"
  /\ IF act.ok
       THEN /\ act' = [act EXCEPT !.at = "asked", !.fresh = TRUE]
            /\ tick' = Stale(tick)
            /\ UNCHANGED page
       ELSE /\ page' = [page EXCEPT !.auto = FALSE]
            /\ ActionEnds
  /\ UNCHANGED serverVars

\* poll() inside action(): the action is still in flight, nothing is posted.
Refreshed ==
  /\ act.at = "got"
  /\ page' = Applied(act)
  /\ ActionEnds
  /\ UNCHANGED serverVars

\* The buttons, as render() enables them.
Shows == page.shown # None /\ ~page.lost
Ended == page.shown.next = Steps \/ page.shown.failed

ClickNext ==
  /\ Shows
  /\ ~InFlight /\ ~page.shown.busy /\ ~Ended /\ ~page.auto
  /\ Post(Advance(page.shown.next, page.shown.token))
  /\ tick' = Stale(tick)
  /\ UNCHANGED <<serverVars, page>>

ClickAuto ==
  /\ Shows
  /\ ~Ended
  /\ page' = [page EXCEPT !.auto = ~@]
  /\ IF ~page.auto /\ ~page.shown.busy /\ ~InFlight
       THEN /\ Post(Advance(page.shown.next, page.shown.token))
            /\ tick' = Stale(tick)
       ELSE UNCHANGED <<act, tick>>
  /\ UNCHANGED serverVars

ClickReset ==
  /\ Shows
  /\ ~InFlight /\ ~page.shown.busy
  /\ page.shown.next > 0 \/ page.shown.failed
  /\ runs < MaxRuns
  /\ page' = [page EXCEPT !.auto = FALSE]
  /\ Post(Reset(page.shown.token))
  /\ tick' = Stale(tick)
  /\ UNCHANGED serverVars

-----------------------------------------------------------------------------
PageNext ==
  \/ ServerStarts \/ ServerKilled \/ StepDone
  \/ ServePost \/ OtherTab \/ ServeTick \/ ServeRefresh \/ PostRefused
  \/ Tick \/ Polled \/ Answered \/ Refreshed
  \/ ClickNext \/ ClickAuto \/ ClickReset

PageSpec == PageInit /\ [][PageNext]_pageVars

\* A step ends (its proofs and its verifier runs do), the server answers while it
\* is up, the browser reports a connection that fails, runs its timer and delivers
\* what it has received.  Nobody has to click, start or restart anything.
Fairness ==
  /\ WF_pageVars(StepDone)
  /\ WF_pageVars(ServePost) /\ WF_pageVars(ServeTick) /\ WF_pageVars(ServeRefresh)
  /\ WF_pageVars(PostRefused)
  /\ WF_pageVars(Tick) /\ WF_pageVars(Polled) /\ WF_pageVars(Answered) /\ WF_pageVars(Refreshed)

FairPageSpec == PageSpec /\ Fairness

-----------------------------------------------------------------------------
(* Properties *)

\* The order in which the server goes through its views.
Rank(v) ==
  (3 * Steps + 3) * v.run + 3 * v.next +
  (IF v.busy THEN 1 ELSE IF v.failed THEN 2 ELSE 0)

\* The page never shows an older state after a newer one, whichever of its reads
\* is answered first (app.js, requestGeneration).
NeverBackwards ==
  [][page.shown # None => Rank(page'.shown) >= Rank(page.shown)]_pageVars

\* An automatic run ends: with the last step, with an error it can show, because
\* the server is gone, or because somebody stops it (app.js, poll and action).
\* Other tabs begin finitely many sessions (MaxRuns): against one that resets the
\* demo for ever no automatic run would get to its end.
AutoEnds == page.auto ~> ~page.auto
=============================================================================
