--------------------------- MODULE ServersProofs ---------------------------
(***************************************************************************)
(* Proofs of Servers, for any configuration and any number of calls.       *)
(*                                                                         *)
(* That nothing works without its database is not inductive: whether work  *)
(* is left when main closes the database depends on what main waited for   *)
(* before, and whether a server without a database can take work depends   *)
(* on a downtime that started before it and never ends.  ServerInv says    *)
(* what each stage of main implies of the database, the companion and the  *)
(* work.                                                                   *)
(***************************************************************************)
EXTENDS Servers, TLAPS

\* Before it serves, a process has neither work nor a companion.
Early == main \in {"start", "configured", "opened"} => jobs = {} /\ side = "off" /\ leader = None

\* The database is open while main can serve, unless a downtime kept it from being opened.
OpenWhileServing ==
    /\ main \in {"start", "configured"} => db = "none"
    /\ main \in {"opened", "serving", "draining", "returned"} =>
          db = "open" \/ (db = "none" /\ downtime)

\* Main waited for the handlers of the gRPC server before it returned.
HandlersAreOver == kind = "grpc" /\ main \in {"returned", "closed", "exited"} => jobs = {}

\* The companion is over before main closes the database.
CompanionIsOver == side = "up" => main \in {"serving", "draining", "returned"}

\* Only the ticker of a sweep server leads as the ticker.
TickerLeads == leader = "ticker" => Ticking

\* Without a database there was no work to begin with.
NoDatabaseNoWork == db = "none" => jobs = {} /\ leader = None

\* Checks run within the slots.
ChecksInSlots == checks =< sweepConcurrency(app.pool)

ServerInv ==
    /\ TypeOK
    /\ Early
    /\ OpenWhileServing
    /\ HandlersAreOver
    /\ CompanionIsOver
    /\ TickerLeads
    /\ NoDatabaseNoWork
    /\ ChecksInSlots

-----------------------------------------------------------------------------
\* Whatever the pool, there is a slot.
LEMMA SlotsType ==
    ASSUME NEW pool \in Int
    PROVE  sweepConcurrency(pool) \in Nat \ {0}
BY DEF sweepConcurrency, sweepConcurrencyCeiling, Greatest, Least

\* A pool of two or more leaves the leader a connection when every slot is taken.
LEMMA SlotsFitPool ==
    ASSUME NEW pool \in Int, pool > 1
    PROVE  sweepConcurrency(pool) + 1 =< pool
BY DEF sweepConcurrency, sweepConcurrencyCeiling, Greatest, Least

\* A process about to read its configuration satisfies every part.
LEMMA InitServer == Init => ServerInv
<1> SUFFICES ASSUME Init PROVE ServerInv
  OBVIOUS
<1>1. ChecksInSlots
  BY SlotsType, ServersAssumption DEF Init, ChecksInSlots
<1>2. QED
  BY <1>1, ServersAssumption DEF Init, ServerInv, TypeOK, Early, OpenWhileServing, HandlersAreOver, CompanionIsOver,
      TickerLeads, NoDatabaseNoWork, Ticking

\* Everything but the slots: each action, against what the stage of main implies.
StageInv == TypeOK /\ Early /\ OpenWhileServing /\ HandlersAreOver /\ CompanionIsOver /\ TickerLeads
            /\ NoDatabaseNoWork

\* Every step keeps what each stage of main implies.
LEMMA StageStep == ASSUME StageInv, [Next]_vars PROVE StageInv'
<1> USE ServersAssumption
    DEF StageInv, TypeOK, Early, OpenWhileServing, HandlersAreOver, CompanionIsOver, TickerLeads,
        NoDatabaseNoWork, Ticking
<1>1. CASE Configure
  BY <1>1 DEF Configure, Panic
<1>2. CASE OpenDatabase
  BY <1>2 DEF OpenDatabase, Panic
<1>3. CASE Serve
  BY <1>3 DEF Serve, Panic
<1>4. CASE Drain
  BY <1>4 DEF Drain
<1>5. CASE Return
  BY <1>5 DEF Return, WaitForHandlers
<1>6. CASE Join
  BY <1>6 DEF Join
<1>7. CASE Exit
  BY <1>7 DEF Exit, Gone
<1>8. CASE Kill
  BY <1>8 DEF Kill, Gone
<1>9. CASE Signal
  BY <1>9 DEF Signal
<1>10. CASE DowntimeStarts
  BY <1>10 DEF DowntimeStarts
<1>11. CASE MetricsEnds
  BY <1>11 DEF MetricsEnds
<1>12. CASE MetricsStops
  BY <1>12 DEF MetricsStops
<1>13. CASE TickRuns
  BY <1>13 DEF TickRuns
<1>14. CASE TickEnds
  BY <1>14 DEF TickEnds
<1>15. CASE TickerEnds
  BY <1>15 DEF TickerEnds
<1>16. ASSUME NEW j \in Jobs, Accept(j) PROVE StageInv'
  BY <1>16 DEF Accept
<1>17. ASSUME NEW j \in Jobs, Finish(j) PROVE StageInv'
  BY <1>17 DEF Finish
<1>18. CASE StartCheck
  BY <1>18 DEF StartCheck
<1>19. CASE EndCheck
  BY <1>19 DEF EndCheck
<1>20. CASE UNCHANGED vars
  BY <1>20 DEF vars
<1>21. QED
  BY <1>1, <1>2, <1>3, <1>4, <1>5, <1>6, <1>7, <1>8, <1>9, <1>10,
     <1>11, <1>12, <1>13, <1>14, <1>15, <1>16, <1>17, <1>18, <1>19, <1>20
     DEF Next, Main, Companion

\* A check starts in a free slot.
LEMMA SlotsStep == ASSUME StageInv, ChecksInSlots, [Next]_vars PROVE ChecksInSlots'
<1>1. app' = app /\ checks \in Nat /\ sweepConcurrency(app.pool) \in Nat \ {0}
  <2>1. app' = app
    BY DEF Next, vars, Main, Companion, Configure, OpenDatabase, Serve, Drain, Return, Join, Exit, Kill, Gone,
        Signal, DowntimeStarts, MetricsEnds, MetricsStops, TickRuns, TickEnds, TickerEnds, Accept, Finish,
        StartCheck, EndCheck
  <2>2. QED
    BY <2>1, SlotsType, ServersAssumption DEF StageInv, TypeOK
<1>2. CASE StartCheck
  BY <1>1, <1>2 DEF StartCheck, ChecksInSlots
<1>3. CASE EndCheck
  BY <1>1, <1>3 DEF EndCheck, ChecksInSlots
<1>4. CASE checks' = checks \/ checks' = 0
  BY <1>1, <1>4 DEF ChecksInSlots
<1>5. QED
  BY <1>2, <1>3, <1>4
     DEF Next, vars, Main, Companion, Configure, OpenDatabase, Serve, Drain, Return, Join, Exit, Kill, Gone,
        Signal, DowntimeStarts, MetricsEnds, MetricsStops, TickRuns, TickEnds, TickerEnds, Accept, Finish

-----------------------------------------------------------------------------
\* What each stage of main implies holds in every state of a process.
THEOREM ServerInvariant == Spec => []ServerInv
<1>1. ASSUME ServerInv, [Next]_vars PROVE ServerInv'
  BY <1>1, StageStep, SlotsStep DEF ServerInv, StageInv
<1>2. QED
  BY <1>1, InitServer, PTL DEF Spec

\* No gRPC handler and no run of the ticker ever works without the database: not in a server a downtime
\* kept from opening it, nor while main closes it, whatever ended the process.
THEOREM WorkAlwaysHasDatabase == Spec => []WorkHasDatabase
<1>1. ASSUME ServerInv PROVE WorkHasDatabase
  BY <1>1, ServersAssumption DEF ServerInv, TypeOK, Early, OpenWhileServing, HandlersAreOver, CompanionIsOver, TickerLeads,
      NoDatabaseNoWork, Ticking, WorkHasDatabase, Kinds
<1>2. QED
  BY <1>1, ServerInvariant, PTL

\* Whatever the pool, of two connections or more, the checks of a sweep and its leader fit it.
THEOREM ChecksFitThePool == Spec => []EachCheckHasAConnection
<1>1. ASSUME ServerInv PROVE EachCheckHasAConnection
  <2>1. app.pool \in Int /\ checks \in Nat /\ checks =< sweepConcurrency(app.pool)
    BY <1>1, ServersAssumption DEF ServerInv, TypeOK, ChecksInSlots
  <2>2. app.pool > 1 => sweepConcurrency(app.pool) + 1 =< app.pool
    BY <2>1, SlotsFitPool
  <2>3. QED
    BY <2>1, <2>2, SlotsType DEF EachCheckHasAConnection
<1>2. QED
  BY <1>1, ServerInvariant, PTL

=============================================================================
