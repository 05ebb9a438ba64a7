------------------------------ MODULE Servers ------------------------------
(***************************************************************************)
(* One process of the service, from its start to its exit: the gRPC server *)
(* of cmd/grpc and the sweep server of cmd/sweep.                          *)
(*                                                                         *)
(* Each runs its listener on the main goroutine and a companion besides    *)
(* it: the server of the calls in flight, or the ticker that sweeps every  *)
(* interval.  They share one context, which a signal or either's end       *)
(* cancels, and one database, which closes as main returns.                *)
(*                                                                         *)
(* Work is a call being handled, or a sweep that leads.  What it does is   *)
(* the subject of the other modules; here it needs the database open.      *)
(*                                                                         *)
(* The listeners, the poll loop and the gate of a planned downtime are the *)
(* library's: they are modelled as the entrypoints rely on them.           *)
(***************************************************************************)
EXTENDS Integers

CONSTANTS
    None,
    Jobs,     \* calls or requests handled at once, within the limit on calls
    Configs   \* the configurations a process may be started with, durations in minutes

ASSUME ServersAssumption ==
    /\ None \notin Jobs \cup {"ticker"}
    /\ "ticker" \notin Jobs
    /\ \A config \in Configs : config.pool \in Int

VARIABLES
    kind,      \* the entrypoint
    app,       \* its configuration
    main,      \* where the main goroutine is
    ctx,       \* whether the process's context is cancelled
    downtime,  \* whether a planned downtime started: it lasts while the process does
    db,        \* the connection pool
    jobs,      \* the calls being handled
    side,      \* the companion
    leader,    \* who leads a sweep in this process
    checks     \* the checks that sweep is running

vars == <<kind, app, main, ctx, downtime, db, jobs, side, leader, checks>>

Kinds == {"grpc", "sweep"}

Init ==
    /\ kind \in Kinds
    /\ app \in Configs
    /\ main = "start"
    /\ ctx = FALSE
    /\ downtime \in BOOLEAN
    /\ db = "none"
    /\ jobs = {}
    /\ side = "off"
    /\ leader = None
    /\ checks = 0

-----------------------------------------------------------------------------
(***************************************************************************)
(* The configuration.                                                      *)
(***************************************************************************)
UnknownOutcomeHold      == 15
SweepIntervalCeiling    == 5
sweepConcurrencyCeiling == 8

Least(a, b)    == IF a < b THEN a ELSE b
Greatest(a, b) == IF a > b THEN a ELSE b

\* Mutant: the leader's own connection is forgotten.
sweepConcurrencyWhole(maxOpenConns) ==
    IF maxOpenConns =< 0 THEN sweepConcurrencyCeiling
    ELSE Greatest(Least(maxOpenConns, sweepConcurrencyCeiling), 1)

\* A connection for each check, past the leader's own. A pool of zero is unlimited.
sweepConcurrency(maxOpenConns) ==
    IF maxOpenConns =< 0 THEN sweepConcurrencyCeiling
    ELSE Greatest(Least(maxOpenConns - 1, sweepConcurrencyCeiling), 1)

\* App.Validate
Validate ==
    /\ app.retention >= UnknownOutcomeHold
    /\ app.interval > 0 /\ app.interval =< SweepIntervalCeiling
    /\ app.batchSize \in 1..100
    /\ sweepConcurrency(app.pool) >= 1

\* GrpcServiceToken: without an issuer the server starts only when told it may.
Gated == kind = "grpc" => app.issuer \/ app.issuerOptional

-----------------------------------------------------------------------------
(***************************************************************************)
(* The main goroutine.                                                     *)
(***************************************************************************)
\* A panic unwinds main, and its deferred close with it.
Panic ==
    /\ main' = "closed"
    /\ db' = IF db = "open" THEN "closed" ELSE db

\* A configuration startup refuses, or telemetry that cannot start, ends the process.
Configure ==
    /\ main = "start"
    /\ \/ Validate /\ main' = "configured" /\ UNCHANGED db
       \/ Panic
    /\ UNCHANGED <<kind, app, ctx, downtime, jobs, side, leader, checks>>

\* A server started during a downtime leaves the database alone.
OpenDatabase ==
    /\ main = "configured"
    /\ \/ /\ main' = "opened"
          /\ db' = IF downtime THEN db ELSE "open"
       \/ ~downtime /\ Panic
    /\ UNCHANGED <<kind, app, ctx, downtime, jobs, side, leader, checks>>

\* The companion starts with the listener: always the gRPC server's, the ticker when configured. A
\* missing gate, or a connector that cannot be built, ends the process instead.
Serve ==
    /\ main = "opened"
    /\ \/ /\ Gated
          /\ main' = "serving"
          /\ side' = IF kind = "grpc" \/ app.ticker THEN "up" ELSE "off"
          /\ UNCHANGED db
       \/ Panic /\ UNCHANGED side
    /\ UNCHANGED <<kind, app, ctx, downtime, jobs, leader, checks>>

\* Mutant: a stopping server returns with its handlers running.
WaitForHandlersNot == TRUE

\* The gRPC server waits for its handlers. The REST server's drain ends after a while without them.
WaitForHandlers == kind = "grpc" => jobs = {}

Drain ==
    /\ main = "serving"
    /\ ctx
    /\ main' = "draining"
    /\ UNCHANGED <<kind, app, ctx, downtime, db, jobs, side, leader, checks>>

\* The listener is done, or could not listen. Main then stops the companion.
Return ==
    /\ \/ main = "draining" /\ WaitForHandlers
       \/ main = "serving" /\ jobs = {}
    /\ main' = "returned"
    /\ ctx' = TRUE
    /\ UNCHANGED <<kind, app, downtime, db, jobs, side, leader, checks>>

\* Main waits for the metrics server's answer, or for the ticker, and its return closes the database.
Join ==
    /\ main = "returned"
    /\ side # "up"
    /\ main' = "closed"
    /\ db' = IF db = "open" THEN "closed" ELSE db
    /\ UNCHANGED <<kind, app, ctx, downtime, jobs, side, leader, checks>>

Gone ==
    /\ main' = "exited"
    /\ db' = IF db = "open" THEN "closed" ELSE db
    /\ jobs' = {} /\ leader' = None /\ checks' = 0
    /\ side' = "off"
    /\ UNCHANGED <<kind, app, ctx, downtime>>

Exit == main = "closed" /\ Gone

\* SIGKILL, at any time.
Kill == main # "exited" /\ Gone

Signal ==
    /\ main \notin {"start", "exited"}
    /\ ctx' = TRUE
    /\ UNCHANGED <<kind, app, main, downtime, db, jobs, side, leader, checks>>

DowntimeStarts ==
    /\ main # "exited"
    /\ downtime' = TRUE
    /\ UNCHANGED <<kind, app, main, ctx, db, jobs, side, leader, checks>>

-----------------------------------------------------------------------------
(***************************************************************************)
(* The companions.                                                         *)
(***************************************************************************)
\* The server of the calls in flight ends, with the process or by itself.
MetricsEnds ==
    /\ kind = "grpc"
    /\ side = "up"
    /\ side' = "reported"
    /\ UNCHANGED <<kind, app, main, ctx, downtime, db, jobs, leader, checks>>

\* Mutant: it does not stop the gRPC server.
MetricsStopsNothing ==
    /\ side = "reported"
    /\ side' = "ended"
    /\ UNCHANGED <<kind, app, main, ctx, downtime, db, jobs, leader, checks>>

MetricsStops ==
    /\ side = "reported"
    /\ side' = "ended"
    /\ ctx' = TRUE
    /\ UNCHANGED <<kind, app, main, downtime, db, jobs, leader, checks>>

Ticking == kind = "sweep" /\ side = "up"

\* sweepRun: nothing during a downtime. A run that finds another sweep leading is over at once.
TickRuns ==
    /\ Ticking
    /\ ~ctx /\ ~downtime
    /\ leader = None
    /\ leader' = "ticker"
    /\ UNCHANGED <<kind, app, main, ctx, downtime, db, jobs, side, checks>>

\* The run waits for the checks it started.
TickEnds ==
    /\ leader = "ticker"
    /\ checks = 0
    /\ leader' = None
    /\ UNCHANGED <<kind, app, main, ctx, downtime, db, jobs, side, checks>>

\* Mutant: the ticker does not watch the process's context.
TickerEndsNever == FALSE /\ UNCHANGED vars

TickerEnds ==
    /\ Ticking
    /\ ctx
    /\ leader # "ticker"
    /\ side' = "ended"
    /\ UNCHANGED <<kind, app, main, ctx, downtime, db, jobs, leader, checks>>

-----------------------------------------------------------------------------
(***************************************************************************)
(* The work.                                                               *)
(***************************************************************************)
\* A call passes the gates of the downtime and of the service token, or is refused and changes nothing.
\* A request to sweep leads unless another sweep does, and is then over at once.
Accept(j) ==
    /\ main = "serving"
    /\ ~downtime
    /\ j \notin jobs
    /\ kind = "sweep" => leader = None
    /\ jobs' = jobs \cup {j}
    /\ leader' = IF kind = "sweep" THEN j ELSE leader
    /\ UNCHANGED <<kind, app, main, ctx, downtime, db, side, checks>>

Finish(j) ==
    /\ j \in jobs
    /\ leader = j => checks = 0
    /\ jobs' = jobs \ {j}
    /\ leader' = IF leader = j THEN None ELSE leader
    /\ UNCHANGED <<kind, app, main, ctx, downtime, db, side, checks>>

\* A sweep takes no generation once the server stops.
StartCheck ==
    /\ leader # None
    /\ ~ctx
    /\ checks < sweepConcurrency(app.pool)
    /\ checks' = checks + 1
    /\ UNCHANGED <<kind, app, main, ctx, downtime, db, jobs, side, leader>>

EndCheck ==
    /\ checks > 0
    /\ checks' = checks - 1
    /\ UNCHANGED <<kind, app, main, ctx, downtime, db, jobs, side, leader>>

Main == Configure \/ OpenDatabase \/ Serve \/ Drain \/ Return \/ Join \/ Exit

Companion == MetricsEnds \/ MetricsStops \/ TickRuns \/ TickEnds \/ TickerEnds

Next ==
    \/ Main \/ Companion
    \/ \E j \in Jobs : Accept(j) \/ Finish(j)
    \/ StartCheck \/ EndCheck
    \/ Signal \/ DowntimeStarts \/ Kill

(***************************************************************************)
(* Fairness.  A goroutine that can go on does.  Nobody has to call, nor to *)
(* signal, and a listener serves until its context is cancelled.  A call   *)
(* in flight then ends: a stream is cut, and every statement and provider  *)
(* call has its deadline.  A check always has one.                         *)
(***************************************************************************)
Fairness ==
    /\ WF_vars(Configure) /\ WF_vars(OpenDatabase) /\ WF_vars(Serve)
    /\ WF_vars(Drain) /\ WF_vars(ctx /\ Return) /\ WF_vars(Join) /\ WF_vars(Exit)
    /\ WF_vars(ctx /\ MetricsEnds) /\ WF_vars(MetricsStops)
    /\ WF_vars(TickEnds) /\ WF_vars(TickerEnds)
    /\ WF_vars(EndCheck)
    /\ \A j \in Jobs : WF_vars(ctx /\ Finish(j))

Spec == Init /\ [][Next]_vars

FairSpec == Spec /\ Fairness

-----------------------------------------------------------------------------
\* Every variable has its type.
TypeOK ==
    /\ kind \in Kinds
    /\ app \in Configs
    /\ main \in {"start", "configured", "opened", "serving", "draining", "returned", "closed", "exited"}
    /\ ctx \in BOOLEAN /\ downtime \in BOOLEAN
    /\ db \in {"none", "open", "closed"}
    /\ jobs \subseteq Jobs
    /\ side \in {"off", "up", "reported", "ended"}
    /\ leader \in Jobs \cup {None, "ticker"}
    /\ checks \in Nat

\* Nothing works without its database, though a downtime may have kept it from being opened and the
\* process may be stopping: "none still runs once the database closes" of the gRPC handlers, and the
\* ticker's checks "end before the database closes".
WorkHasDatabase ==
    db # "open" => (kind = "grpc" => jobs = {}) /\ leader # "ticker"

\* "Each check a sweep runs at once [has] a connection of its own", past the one the leader holds,
\* whoever leads. A pool of one cannot give it: the leader's connection is the only one.
EachCheckHasAConnection ==
    leader # None /\ app.pool > 1 => 1 + checks =< app.pool

\* "Either server stops the other when it ends": once one is done the process exits, so it never serves
\* calls it cannot report, and neither waits for the other for good.
EitherEndsBoth == main = "returned" \/ side = "reported" ~> main = "exited"

\* A process told to stop exits: main, the companion and the work in flight never wait on each other
\* for good, whichever of them was at what when the signal came.
SignalEndsProcess == ctx ~> main = "exited"

=============================================================================
