-------------------------- MODULE GenerationCheck --------------------------
(***************************************************************************)
(* One generation, from the submit that records its start intent to its    *)
(* settlement: internal/core/generationCheck.go run by the submit that     *)
(* created the generation (the Starter) and by any number of polls,        *)
(* cancels and sweeps (the Checks), against the database and the provider. *)
(*                                                                         *)
(* Checks of different generations share no row, so one generation shows   *)
(* every interleaving.  A process keeps only what it read (`gen') and what *)
(* it is about to commit (`plan'): both may be stale when used.            *)
(*                                                                         *)
(* One clock serves the host and the database.  The Starter takes its      *)
(* intentAt before the database takes startRequestedAt.                    *)
(***************************************************************************)
EXTENDS GenerationStore, FiniteSetsExt

CONSTANTS
    Starter,                   \* the submit's own check, which sends the call
    Checks,                    \* checks by polls, cancels and the sweep
    Modes,                     \* request modes: TRUE for a streamed call
    MayInherit,                \* an earlier release may have left the row
    MayFreeze,                 \* a process may stall past its own deadlines
    MayDrop,                   \* a deployment may drop the provider's connector
    Answers,                   \* the kinds of answer a finished call may hold
    StartTimeout, StreamStartTimeout, PersistenceTimeout,
    RecordPatience, RecordPause, RecordPauseCeiling,
    StartOutcomeUnknownAfter, StreamQueuedCeiling, StopRetryWindow, RunCeiling,
    Horizon,                   \* bound: last instant of the clock
    MaxAdmission               \* bound: last instant at which a submit is admitted

ASSUME ProcsAssumption ==
    /\ Starter \notin Checks
    /\ Modes \subseteq BOOLEAN
    /\ MayInherit \in BOOLEAN
    /\ MayFreeze \in BOOLEAN
    /\ MayDrop \in BOOLEAN
    /\ Answers \subseteq {"counted", "uncounted", "refusedByDatabase", "oversized"}
    /\ None \notin {"counted", "uncounted", "refusedByDatabase", "oversized"}
    /\ None \notin {"unsent", "sent", "refused", "queued", "running",
                    "succeeded", "failed", "cancelled", "rejection"}

ASSUME DurationsAssumption ==
    /\ StartTimeout \in Nat \ {0}
    /\ StreamStartTimeout \in Nat \ {0}
    /\ PersistenceTimeout \in Nat \ {0}
    /\ RecordPatience \in Nat \ {0}
    /\ RecordPause \in Nat \ {0}
    /\ RecordPauseCeiling \in Nat \ {0}
    /\ StartOutcomeUnknownAfter \in Nat \ {0}
    /\ StreamQueuedCeiling \in Nat \ {0}
    /\ StopRetryWindow \in Nat \ {0}
    /\ RunCeiling \in Nat \ {0}
    /\ Horizon \in Nat
    /\ MaxAdmission \in Nat

\* A start leaves within StartTimeout of its intent and lasts at most its own timeout; its last
\* id write begins before RecordPatience and lasts PersistenceTimeout.
ASSUME StartOutlivedAssumption ==
    /\ StartTimeout =< StreamStartTimeout
    /\ StartTimeout + StreamStartTimeout + PersistenceTimeout =< StartOutcomeUnknownAfter
    /\ RecordPatience + PersistenceTimeout =< StartOutcomeUnknownAfter

VARIABLES
    now,      \* the clock
    row,      \* the generations row
    attempt,  \* the generation_attempts row: the kind of answer it keeps, or None
    usage,    \* whether generation_usage counts the call
    call,     \* the provider's side
    proc,     \* what each process runs
    start,    \* the Starter's own variables
    late,     \* an id write its client gave up on may still land
    served    \* a connector serves the generation's provider

vars == <<now, row, attempt, usage, call, proc, start, late, served>>

Procs == Checks \cup {Starter}

-----------------------------------------------------------------------------
(***************************************************************************)
(* The provider.                                                           *)
(***************************************************************************)
Unaccepted    == {"unsent", "sent", "refused"}
CallLive      == {"queued", "running"}
CallTerminal  == {"succeeded", "failed", "cancelled"}
CallStates    == Unaccepted \cup CallLive \cup CallTerminal

\* A finished call's answer holds usage to count, none, usage the database refuses, or more bytes
\* than the connector reads.
Calls == [state : CallStates, answer : Answers \cup {None}, stopping : BOOLEAN, gone : BOOLEAN]

Accepted == call.state \notin Unaccepted

\* Connector.Get and the refused Cancel of a finished call read the same answer.
Finished  == call.state \in CallTerminal /\ ~call.gone

-----------------------------------------------------------------------------
(***************************************************************************)
(* What a check reads, and what it commits.                                *)
(***************************************************************************)
Reads ==
    [startRequestedAt : Instants, providerCallId : {CallId, None},
     cancelRequestedAt : Instants, streamed : BOOLEAN, readAt : Nat]

ReadOf(r, at) ==
    [startRequestedAt  |-> r.startRequestedAt,
     providerCallId    |-> r.providerCallId,
     cancelRequestedAt |-> r.cancelRequestedAt,
     streamed          |-> r.streamed,
     readAt            |-> at]

NoRead == ReadOf(AbsentRow, 0)

Age(gen) == gen.readAt - gen.startRequestedAt

Plans ==
    [status : Settled \cup {None}, error : Errors \cup {None}, failure : Failures \cup {None},
     response : CallTerminal \cup {"rejection", None},
     usage : {"counted", "uncounted", "refusedByDatabase"}]

NoPlan == [status |-> None, error |-> None, failure |-> None,
           response |-> None, usage |-> "uncounted"]

\* settleFailure: a failure in the service's own words, with the provider's answer if it gave one.
FailurePlan(error, failure, response) ==
    [status |-> "failed", error |-> error, failure |-> failure,
     response |-> response, usage |-> "uncounted"]

\* Mutant: a cancelled call is taken for its owner's stop.
OutcomePlanUnlabelled(gen, state, answer) ==
    LET outcome(status, error, failure) ==
            [status |-> status, error |-> error, failure |-> failure,
             response |-> state, usage |-> answer]
    IN  CASE state = "succeeded" -> outcome("succeeded", None, None)
          [] state = "failed"    -> outcome("failed", "failureCallFailed", "provider_failed")
          [] state = "cancelled" -> outcome("cancelled", "generationCancelledReason", None)

\* settleOutcomeOf and settle: the outcome of a terminal call, labelled by the cancel request.
OutcomePlan(gen, state, answer) ==
    LET outcome(status, error, failure) ==
            [status |-> status, error |-> error, failure |-> failure,
             response |-> state, usage |-> answer]
    IN  CASE state = "succeeded" -> outcome("succeeded", None, None)
          [] state = "failed"    -> outcome("failed", "failureCallFailed", "provider_failed")
          [] state = "cancelled" ->
                IF gen.cancelRequestedAt = None
                  THEN outcome("failed", "failureOverdue", "provider_failed")
                  ELSE outcome("cancelled", "generationCancelledReason", None)

\* The settle of a cancelled generation that was never started has no call to keep.
CancelledPlan ==
    [status |-> "cancelled", error |-> "generationCancelledReason", failure |-> None,
     response |-> None, usage |-> "uncounted"]

Pcs == {"idle",
        "get", "stop", "label", "commit",                             \* any check
        "intent", "admit", "age", "send", "accept",                   \* the Starter only
        "write", "pause", "rewrite", "readback", "hold", "orphan", "orphanUsage"}

ProcState(pc, gen, plan) == [pc |-> pc, gen |-> gen, plan |-> plan]

Idle == ProcState("idle", NoRead, NoPlan)

Become(p, pc, gen, plan) ==
    proc' = [proc EXCEPT ![p] = ProcState(pc, gen, plan)]

Goto(p, pc)         == Become(p, pc, proc[p].gen, proc[p].plan)
Begin(p, pc, gen)   == Become(p, pc, gen, NoPlan)
CommitNext(p, plan) == Become(p, "commit", proc[p].gen, plan)
End(p)              == Become(p, "idle", NoRead, NoPlan)

\* When the stop of a call was first wanted, from its owner or from the run ceiling.
StopSince(gen) ==
    LET overdue == IF Age(gen) >= RunCeiling THEN {gen.startRequestedAt + RunCeiling} ELSE {}
        asked   == {gen.cancelRequestedAt} \ {None}
    IN  IF asked \cup overdue = {} THEN None ELSE Min(asked \cup overdue)

\* The check of a recorded call: ask reads the call, or stops it at once.
ObserveNext(p, gen) ==
    IF served
      THEN Begin(p, IF StopSince(gen) = None THEN "get" ELSE "stop", gen)
      ELSE Become(p, "commit", gen,
                  FailurePlan("failureProviderUnavailable", "outcome_unknown", None))

-----------------------------------------------------------------------------
(***************************************************************************)
(* Initial states: a submit about to record its intent, or a row an        *)
(* earlier release left pending with no start intent.                      *)
(***************************************************************************)
Init ==
    /\ now = 0
    /\ attempt = None
    /\ usage = FALSE
    /\ call = [state |-> "unsent", answer |-> None, stopping |-> FALSE, gone |-> FALSE]
    /\ start = [intentAt |-> 0, until |-> 0, pause |-> RecordPause, orphanStopped |-> FALSE]
    /\ late = FALSE
    /\ served = TRUE
    /\ \/ /\ row = AbsentRow
          /\ proc = [p \in Procs |-> IF p = Starter THEN ProcState("intent", NoRead, NoPlan) ELSE Idle]
       \/ /\ MayInherit
          /\ \E asked \in {None, 0} :
                row = [PendingRow(None, FALSE) EXCEPT !.cancelRequestedAt = asked]
          /\ proc = [p \in Procs |-> Idle]

-----------------------------------------------------------------------------
(***************************************************************************)
(* The submit: intent, admission, start.                                   *)
(***************************************************************************)
\* The insert reads the clock inside the transaction that admits the generation.
SubmitInsert ==
    /\ proc[Starter].pc = "intent"
    /\ \E streamed \in Modes :
          Begin(Starter, "admit", ReadOf(PendingRow(now, streamed), now))
    /\ UNCHANGED <<now, row, attempt, usage, call, start, late, served>>

SubmitCommit ==
    /\ proc[Starter].pc = "admit"
    /\ row' = PendingRow(proc[Starter].gen.startRequestedAt, proc[Starter].gen.streamed)
    /\ Goto(Starter, "age")
    /\ UNCHANGED <<now, attempt, usage, call, start, late, served>>

\* A deployment that dropped the provider, or a process frozen since its intent, sends nothing.
StartRefused ==
    /\ proc[Starter].pc = "age"
    /\ \/ /\ ~served
          /\ CommitNext(Starter, FailurePlan("failureProviderUnavailable", "not_started", None))
       \/ /\ served
          /\ now - start.intentAt >= StartTimeout
          /\ CommitNext(Starter, FailurePlan("failureStartFailed", "not_started", None))
    /\ UNCHANGED <<now, row, attempt, usage, call, start, late, served>>

\* Mutant: the intent is sent however old.
StartAnyAge ==
    /\ proc[Starter].pc = "age"
    /\ served
    /\ Goto(Starter, "send")
    /\ start' = [start EXCEPT !.until = now]
    /\ UNCHANGED <<now, row, attempt, usage, call, late, served>>

StartFresh ==
    /\ proc[Starter].pc = "age"
    /\ served
    /\ now - start.intentAt < StartTimeout
    /\ Goto(Starter, "send")
    /\ start' = [start EXCEPT !.until = now]
    /\ UNCHANGED <<now, row, attempt, usage, call, late, served>>

\* The request fully leaves, or the start fails before it does: a dial, a handshake, the deadline.
StartSend ==
    /\ proc[Starter].pc = "send"
    /\ Goto(Starter, "accept")
    /\ call' = [call EXCEPT !.state = "sent"]
    /\ start' = [start EXCEPT !.until =
                    now + IF proc[Starter].gen.streamed THEN StreamStartTimeout ELSE StartTimeout]
    /\ UNCHANGED <<now, row, attempt, usage, late, served>>

StartNotSent ==
    /\ proc[Starter].pc = "send"
    /\ CommitNext(Starter, FailurePlan("failureStartFailed", "not_started", None))
    /\ UNCHANGED <<now, row, attempt, usage, call, start, late, served>>

\* Mutant: an ambiguous start is reported as never started.
StartFailsNotStarted ==
    /\ proc[Starter].pc = "accept"
    /\ CommitNext(Starter, FailurePlan("failureStartFailed", "not_started", None))
    /\ UNCHANGED <<now, row, attempt, usage, call, start, late, served>>

\* failStart: the provider's refusal, or no telling whether it accepted the call.
StartFails ==
    /\ proc[Starter].pc = "accept"
    /\ \/ /\ call.state = "refused"
          /\ \/ \E body \in {"rejection", None} :
                   CommitNext(Starter, FailurePlan("failureRejected", "rejected", body))
             \/ CommitNext(Starter, FailurePlan("failureStartFailed", "not_started", None))
       \/ CommitNext(Starter, FailurePlan("failureOutcomeUnknown", "outcome_unknown", None))
    /\ UNCHANGED <<now, row, attempt, usage, call, start, late, served>>

\* The provider names the call: recordCall sends its first write.
StartNamed ==
    /\ proc[Starter].pc = "accept"
    /\ Accepted
    /\ Goto(Starter, "write")
    /\ start' = [start EXCEPT !.until = now + PersistenceTimeout]
    /\ UNCHANGED <<now, row, attempt, usage, call, late, served>>

-----------------------------------------------------------------------------
(***************************************************************************)
(* recordCall: the patient write of the call's id.                         *)
(***************************************************************************)
\* A call whose owner asked to cancel during the start is stopped at once.
StartedNext(gen) ==
    IF gen.cancelRequestedAt = None THEN End(Starter) ELSE ObserveNext(Starter, gen)

\* A streamed start goes on holding the creation stream once its call is recorded.
RecordedNext(gen) ==
    IF gen.streamed THEN Begin(Starter, "hold", gen) ELSE StartedNext(gen)

RecordAnswered ==
    /\ proc[Starter].pc \in {"write", "rewrite"}
    /\ \/ /\ RecordMatches(row)
          /\ row' = RecordProviderCall(row)
          /\ RecordedNext(ReadOf(row', now))
          /\ UNCHANGED start
       \/ /\ ~RecordMatches(row)
          /\ row' = row
          /\ Goto(Starter, IF proc[Starter].pc = "write" THEN "orphan" ELSE "readback")
          /\ start' = [start EXCEPT !.until = now + PersistenceTimeout]
    /\ UNCHANGED <<now, attempt, usage, call, late, served>>

\* A write that fails without an answer may still land: the database finishes the statement.
RecordUnanswered ==
    /\ proc[Starter].pc \in {"write", "rewrite"}
    /\ late' = TRUE
    /\ LET pause == IF proc[Starter].pc = "write"
                      THEN RecordPause
                      ELSE Min({start.pause + start.pause, RecordPauseCeiling})
           again == now + pause < start.intentAt + RecordPatience
       IN  /\ Goto(Starter, IF again THEN "pause" ELSE "readback")
           /\ start' = [start EXCEPT !.pause = pause,
                           !.until = now + IF again THEN pause ELSE PersistenceTimeout]
    /\ UNCHANGED <<now, row, attempt, usage, call, served>>

RecordAgain ==
    /\ proc[Starter].pc = "pause"
    /\ now >= start.until
    /\ Goto(Starter, "rewrite")
    /\ start' = [start EXCEPT !.until = now + PersistenceTimeout]
    /\ UNCHANGED <<now, row, attempt, usage, call, late, served>>

\* Any write may have landed after all: the read tells, unless one is still about to land.
RecordReadBack ==
    /\ proc[Starter].pc = "readback"
    /\ IF row.providerCallId = CallId
         THEN RecordedNext(ReadOf(row, now))
         ELSE Goto(Starter, "orphan")
    /\ UNCHANGED <<now, row, attempt, usage, call, start, late, served>>

\* The stream ends: the provider began the call, the deadline passed, or the connection was cut.
HoldEnds ==
    /\ proc[Starter].pc = "hold"
    /\ StartedNext(proc[Starter].gen)
    /\ UNCHANGED <<now, row, attempt, usage, call, start, late, served>>

\* The database finishes a write its client gave up on. One landing too late matches nothing.
LateWriteLands ==
    /\ late
    /\ late' = FALSE
    /\ row' = IF RecordMatches(row) THEN RecordProviderCall(row) ELSE row
    /\ UNCHANGED <<now, attempt, usage, call, proc, start, served>>

\* Mutant: the stop of an orphan counts usage its answer does not report.
OrphanAnsweredCounted(answer) ==
    Become(Starter, "orphanUsage", proc[Starter].gen, [NoPlan EXCEPT !.usage = "counted"])

\* stopOrphan cancels a call its generation does not carry. An answer with usage is counted next.
OrphanAnswered(answer) ==
    IF answer \in {"counted", "refusedByDatabase"}
      THEN Become(Starter, "orphanUsage", proc[Starter].gen, [NoPlan EXCEPT !.usage = answer])
      ELSE End(Starter)

OrphanStop ==
    /\ proc[Starter].pc = "orphan"
    /\ start' = [start EXCEPT !.orphanStopped = TRUE]
    /\ \/ /\ call.state \in CallLive
          /\ \E answer \in Answers :
                /\ call' = [call EXCEPT !.state = "cancelled", !.answer = answer]
                /\ OrphanAnswered(answer)
       \/ /\ Finished
          /\ OrphanAnswered(call.answer)
          /\ UNCHANGED call
       \/ /\ call' = [call EXCEPT !.stopping = TRUE]
          /\ End(Starter)
    /\ UNCHANGED <<now, row, attempt, usage, late, served>>

OrphanUsage ==
    /\ proc[Starter].pc = "orphanUsage"
    /\ usage' = (usage \/ proc[Starter].plan.usage = "counted")
    /\ End(Starter)
    /\ UNCHANGED <<now, row, attempt, call, start, late, served>>

-----------------------------------------------------------------------------
(***************************************************************************)
(* The check of a generation by a poll, a cancel or the sweep.             *)
(***************************************************************************)
\* Exec dispatches on what it read. A start still in flight, or none to resolve, ends the check.
CheckRead(p) ==
    /\ proc[p].pc = "idle"
    /\ row.status \in Live
    /\ LET gen == ReadOf(row, now)
       IN  \/ /\ gen.providerCallId # None
              /\ ObserveNext(p, gen)
           \/ /\ gen.providerCallId = None
              /\ gen.startRequestedAt # None
              /\ Age(gen) >= StartOutcomeUnknownAfter
              /\ Become(p, "commit", gen,
                        FailurePlan("failureOutcomeUnknown", "outcome_unknown", None))
           \/ /\ gen.startRequestedAt = None
              /\ gen.cancelRequestedAt # None
              /\ Become(p, "commit", gen, CancelledPlan)
           \/ /\ gen.startRequestedAt = None
              /\ gen.cancelRequestedAt = None
              /\ Become(p, "commit", gen, FailurePlan("failureStartFailed", "not_started", None))
    /\ UNCHANGED <<now, row, attempt, usage, call, start, late, served>>

\* The owner's cancel marks the row, and checks a call already recorded from the same statement.
CancelRead(p) ==
    /\ proc[p].pc = "idle"
    /\ CancelMatches(row)
    /\ row' = RequestCancel(row, now)
    /\ IF row'.providerCallId # None
         THEN ObserveNext(p, ReadOf(row', now))
         ELSE UNCHANGED proc
    /\ UNCHANGED <<now, attempt, usage, call, start, late, served>>

\* Mutant: a call another check stopped is labelled from the cancel request first read.
AnswerNextStale(p, state, answer, stopWanted) ==
    IF answer = "oversized"
      THEN CommitNext(p, FailurePlan("failureResponseTooLarge", "outcome_unknown", None))
      ELSE CommitNext(p, OutcomePlan(proc[p].gen, state, answer))

\* What observe makes of a call the provider reports finished, or cannot read.
AnswerNext(p, state, answer, stopWanted) ==
    LET gen     == proc[p].gen
        outcome == OutcomePlan(gen, state, answer)
    IN  IF answer = "oversized"
          THEN CommitNext(p, FailurePlan("failureResponseTooLarge", "outcome_unknown", None))
          ELSE IF state = "cancelled" /\ gen.cancelRequestedAt = None /\ ~stopWanted
                 THEN Become(p, "label", gen, outcome)
                 ELSE CommitNext(p, outcome)

LostNext(p) == CommitNext(p, FailurePlan("failureResultLost", "provider_failed", None))

\* Mutant: a call the provider still runs is settled as one whose result is lost.
GetCallLost(p) ==
    /\ proc[p].pc = "get"
    /\ IF Finished THEN AnswerNext(p, call.state, call.answer, FALSE) ELSE LostNext(p)
    /\ UNCHANGED <<now, row, attempt, usage, call, start, late, served>>

\* ask with nothing to stop: one read of the call.
GetCall(p) ==
    /\ proc[p].pc = "get"
    /\ \/ /\ call.gone
          /\ LostNext(p)
       \/ /\ Finished
          /\ AnswerNext(p, call.state, call.answer, FALSE)
       \/ /\ call.state \in CallLive
          /\ IF /\ call.state = "queued"
                /\ proc[p].gen.streamed
                /\ Age(proc[p].gen) >= StreamQueuedCeiling
               THEN Goto(p, "stop")
               ELSE End(p)
    /\ UNCHANGED <<now, row, attempt, usage, call, start, late, served>>

\* A stop not answered, or not applied yet, is asked again by a later check until its window ends.
UnstoppedNext(p) ==
    LET gen   == proc[p].gen
        since == IF StopSince(gen) # None
                   THEN StopSince(gen)
                   ELSE gen.startRequestedAt + StreamQueuedCeiling
    IN  IF gen.readAt - since < StopRetryWindow
          THEN End(p)
          ELSE CommitNext(p, FailurePlan("failureNotStopped", "outcome_unknown", None))

\* ask stops the call. Cancelling a finished call reads its result instead.
StopCall(p) ==
    /\ proc[p].pc = "stop"
    /\ \/ /\ call.gone
          /\ LostNext(p)
          /\ UNCHANGED call
       \/ /\ Finished
          /\ AnswerNext(p, call.state, call.answer, TRUE)
          /\ UNCHANGED call
       \/ /\ call.state \in CallLive
          /\ \E answer \in Answers :
                /\ call' = [call EXCEPT !.state = "cancelled", !.answer = answer]
                /\ AnswerNext(p, "cancelled", answer, TRUE)
       \/ /\ \E stopping \in {call.stopping, TRUE} : call' = [call EXCEPT !.stopping = stopping]
          /\ UnstoppedNext(p)
    /\ UNCHANGED <<now, row, attempt, usage, start, late, served>>

\* A call another check stopped is labelled from the cancel request as it stands now.
Relabel(p) ==
    /\ proc[p].pc = "label"
    /\ LET gen == [proc[p].gen EXCEPT !.cancelRequestedAt = row.cancelRequestedAt]
       IN  Become(p, "commit", gen, OutcomePlan(gen, "cancelled", proc[p].plan.usage))
    /\ UNCHANGED <<now, row, attempt, usage, call, start, late, served>>

\* Mutant: the settle and the attempt are committed without the usage.
CommitUncounted(p) ==
    /\ proc[p].pc = "commit"
    /\ SettleMatches(row, proc[p].gen)
    /\ proc[p].plan.usage # "refusedByDatabase"
    /\ row' = Settle(row, proc[p].plan, now)
    /\ attempt' = IF proc[p].plan.response = None THEN attempt ELSE proc[p].plan.response
    /\ End(p)
    /\ UNCHANGED <<now, usage, call, start, late, served>>

\* commit: the fenced settle, the attempt and the usage in one transaction.
CommitApplied(p) ==
    /\ proc[p].pc = "commit"
    /\ SettleMatches(row, proc[p].gen)
    /\ proc[p].plan.usage # "refusedByDatabase"
    /\ row' = Settle(row, proc[p].plan, now)
    /\ attempt' = IF proc[p].plan.response = None THEN attempt ELSE proc[p].plan.response
    /\ usage' = (usage \/ proc[p].plan.usage = "counted")
    /\ End(p)
    /\ UNCHANGED <<now, call, start, late, served>>

\* Another check committed first: its result is the answer.
CommitChanged(p) ==
    /\ proc[p].pc = "commit"
    /\ ~SettleMatches(row, proc[p].gen)
    /\ End(p)
    /\ UNCHANGED <<now, row, attempt, usage, call, start, late, served>>

\* Mutant: an answer the database refuses is tried again by every check.
CommitRefusedAlways(p) ==
    /\ proc[p].pc = "commit"
    /\ SettleMatches(row, proc[p].gen)
    /\ proc[p].plan.usage = "refusedByDatabase"
    /\ End(p)
    /\ UNCHANGED <<now, row, attempt, usage, call, start, late, served>>

\* An answer the database refuses is dropped once its call is old enough.
CommitRefused(p) ==
    /\ proc[p].pc = "commit"
    /\ SettleMatches(row, proc[p].gen)
    /\ proc[p].plan.usage = "refusedByDatabase"
    /\ IF Age(proc[p].gen) >= RunCeiling + StopRetryWindow
         THEN CommitNext(p, FailurePlan("failureNotRecorded", "provider_failed", None))
         ELSE End(p)
    /\ UNCHANGED <<now, row, attempt, usage, call, start, late, served>>

\* A crash, a deadline, or an error the check returns without a write. A refused submit rolls back.
Abort(p) ==
    /\ proc[p].pc # "idle"
    /\ End(p)
    /\ late' = (late \/ proc[p].pc \in {"write", "rewrite"})
    /\ UNCHANGED <<now, row, attempt, usage, call, start, served>>

-----------------------------------------------------------------------------
(***************************************************************************)
(* The provider's own steps, the deployment and the clock.                 *)
(***************************************************************************)
CallBecomes(new) ==
    /\ call' = new
    /\ UNCHANGED <<now, row, attempt, usage, proc, start, late, served>>

ProviderAccept ==
    /\ call.state = "sent"
    /\ \E state \in CallLive : CallBecomes([call EXCEPT !.state = state])

ProviderRefuse ==
    /\ call.state = "sent"
    /\ CallBecomes([call EXCEPT !.state = "refused"])

ProviderRun ==
    /\ call.state = "queued"
    /\ CallBecomes([call EXCEPT !.state = "running"])

ProviderFinish ==
    /\ call.state \in CallLive
    /\ \E state \in {"succeeded", "failed"} \cup (IF call.stopping THEN {"cancelled"} ELSE {}),
          answer \in Answers :
             CallBecomes([call EXCEPT !.state = state, !.answer = answer])

\* Results are kept for the provider's retention window only.
ProviderForget ==
    /\ Finished
    /\ CallBecomes([call EXCEPT !.gone = TRUE])

DropProvider ==
    /\ MayDrop
    /\ served
    /\ served' = FALSE
    /\ UNCHANGED <<now, row, attempt, usage, call, proc, start, late>>

\* Deadlines the Starter's process keeps when nothing freezes it.
Timed == {"send", "accept", "write", "pause", "rewrite", "readback"}

\* The clock stops at Horizon, and once nothing depends on it any more.
Tick ==
    /\ now < Horizon
    /\ row.status \notin Settled \/ proc[Starter].pc # "idle"
    /\ proc[Starter].pc \in {"intent", "admit"} => now < MaxAdmission
    /\ MayFreeze \/ proc[Starter].pc \notin Timed \/ now < start.until
    /\ now' = now + 1
    /\ UNCHANGED <<row, attempt, usage, call, proc, start, late, served>>

Start ==
    \/ SubmitInsert \/ SubmitCommit \/ StartRefused \/ StartFresh \/ StartSend
    \/ StartNotSent \/ StartFails \/ StartNamed \/ RecordAnswered \/ RecordUnanswered
    \/ RecordAgain \/ RecordReadBack \/ HoldEnds \/ OrphanStop \/ OrphanUsage

Check(p) ==
    \/ GetCall(p) \/ StopCall(p) \/ Relabel(p)
    \/ CommitApplied(p) \/ CommitChanged(p) \/ CommitRefused(p) \/ Abort(p)

Provider ==
    ProviderAccept \/ ProviderRefuse \/ ProviderRun \/ ProviderFinish \/ ProviderForget

Next ==
    \/ Start
    \/ \E p \in Procs : Check(p)
    \/ \E p \in Checks : CheckRead(p) \/ CancelRead(p)
    \/ LateWriteLands
    \/ Provider
    \/ DropProvider
    \/ Tick

Spec == Init /\ [][Next]_vars

-----------------------------------------------------------------------------
(***************************************************************************)
(* Safety.                                                                 *)
(***************************************************************************)
\* Every variable has its type.
TypeOK ==
    /\ now \in Nat
    /\ row \in Rows
    /\ attempt \in CallTerminal \cup {"rejection", None}
    /\ usage \in BOOLEAN
    /\ call \in Calls
    /\ proc \in [Procs -> [pc : Pcs, gen : Reads, plan : Plans]]
    /\ start \in [intentAt : Nat, until : Nat, pause : Nat, orphanStopped : BOOLEAN]
    /\ late \in BOOLEAN
    /\ served \in BOOLEAN

\* No statement the checks send breaks a constraint of the table, in any interleaving: the database
\* would refuse it forever and strand the generation.
SchemaHolds == RowConstraints(row)

\* A settled generation that carries no call and is not marked outcome_unknown has nothing running at
\* the provider, and nothing on its way there. Its owner's slot is free and a resend pays once.
NothingRunsUnseen ==
    /\ row.status \in Settled
    /\ row.providerCallId = None
    /\ row.failure # "outcome_unknown"
    => call.state \in {"unsent", "refused"}

\* A generation tells what the provider's call became, whichever check settled it and however stale
\* its read: succeeded, failed by the provider, or cancelled because the owner asked.
OutcomeTold ==
    /\ row.status = "succeeded" => call.state = "succeeded"
    /\ row.error = "failureCallFailed" => call.state = "failed"
    /\ row.status = "cancelled" =>
          /\ row.cancelRequestedAt # None
          /\ row.providerCallId # None => call.state = "cancelled"

\* A generation settled on the provider's answer keeps that answer, and counts the usage it reports:
\* the three writes of commit land together or not at all.
AnswerKept ==
    /\ attempt # None => row.status \in Settled
    /\ usage => call.answer = "counted"
    /\ row.providerCallId # None /\
       (row.status \in {"succeeded", "cancelled"}
           \/ row.error \in {"failureCallFailed", "failureOverdue"}) =>
          /\ attempt = call.state
          /\ call.answer = "counted" => usage

PastCeiling ==
    \/ row.settledAt >= row.startRequestedAt + RunCeiling
    \/ row.streamed /\ row.settledAt >= row.startRequestedAt + StreamQueuedCeiling

\* A generation told it was stopped for running late either did pass a ceiling, or its call was
\* stopped as an orphan whose id landed after all. A stop its owner asked for is never told so while
\* no ceiling passed.
OverdueExplained ==
    row.error = "failureOverdue" => PastCeiling \/ start.orphanStopped

\* generationCheck.go:739: "Only this service cancels its calls: one its owner never asked to stop
\* ran past the ceiling."
OverdueMeansPastCeiling ==
    row.error = "failureOverdue" => PastCeiling

\* While a start that nothing froze may still send its call or write the call's id, no check has
\* settled its intent as unknown: startOutcomeUnknownAfter outlasts every write.
StartNeverOutrun ==
    /\ ~MayFreeze
    /\ proc[Starter].pc \in Timed \ {"readback"}
    /\ row.status \in Settled
    => row.providerCallId # None

\* A settled row, its answer and its retention are final: a check acting on an old read, or a write
\* landing late, changes nothing.
SettledIsFinal ==
    [][row.status \in Settled => row' = row /\ attempt' = attempt]_vars

\* The start intent, the call's id and the owner's first cancel are never rewritten: every later
\* check follows the one call, and measures its ages from the same instants.
MarksAreWrittenOnce ==
    [][row.status # "absent" =>
          /\ row'.startRequestedAt = row.startRequestedAt
          /\ row.providerCallId # None => row'.providerCallId = row.providerCallId
          /\ row.cancelRequestedAt # None => row'.cancelRequestedAt = row.cancelRequestedAt]_vars

\* What a generation was settled with, and what its checks go by, are each written once.
WrittenOnce == SettledIsFinal /\ MarksAreWrittenOnce

-----------------------------------------------------------------------------
(***************************************************************************)
(* What makes the safety invariants inductive: what a process in the       *)
(* middle of a check knows of the row and of the call, however old its     *)
(* read is.                                                                *)
(***************************************************************************)
\* The submit records its row once, with its start intent.
RecordedOnce ==
    /\ row.status = "absent" => row = AbsentRow
    /\ proc[Starter].pc \in {"intent", "admit"} => row.status = "absent"
    /\ proc[Starter].pc = "admit" => proc[Starter].gen.startRequestedAt # None

\* An error is written by a settlement only.
ErrorMeansSettled == row.error # None => row.status \in Settled

\* Nothing leaves before the row is recorded and the start found fresh.
UnsentBeforeSend ==
    proc[Starter].pc \in {"intent", "admit", "age", "send"} => call.state = "unsent"

\* A row without a start intent, recorded by an earlier release or not yet recorded, has no call.
NoIntentNoCall ==
    row.startRequestedAt = None =>
        /\ call.state = "unsent"
        /\ row.providerCallId = None
        /\ proc[Starter].pc \in
              IF row.status = "absent" THEN {"intent", "admit", "idle"} ELSE {"idle"}

\* A finished call has its answer, and only a finished one has.
FinishedHasAnswer == (call.state \in CallTerminal) = (call.answer # None)

\* A plan about to be committed is a settlement the schema takes and the provider bears out.
PlanSound(p) ==
    LET gen  == proc[p].gen
        plan == proc[p].plan
    IN  /\ plan.status \in Settled
        /\ plan.failure # None => plan.status = "failed"
        /\ plan.usage # "uncounted" => gen.providerCallId # None
        /\ \/ plan.failure = "outcome_unknown"
           \/ gen.providerCallId # None
           \/ gen.startRequestedAt = None
           \/ p = Starter /\ call.state \in {"unsent", "refused"}
        /\ plan.status = "succeeded" => plan.response = "succeeded"
        /\ plan.error = "failureCallFailed" => plan.response = "failed"
        /\ plan.error = "failureOverdue" => plan.response = "cancelled"
        /\ plan.status = "cancelled" =>
              /\ gen.cancelRequestedAt # None
              /\ gen.providerCallId # None => plan.response = "cancelled"

\* An answer in hand is the call's answer, which no longer changes.
AnswerInHand(p) ==
    LET plan == proc[p].plan
    IN  /\ plan.response \in CallTerminal =>
              call.state = plan.response /\ call.answer = plan.usage
        /\ plan.usage # "uncounted" => call.answer = plan.usage

ProcSound(p) ==
    /\ proc[p].pc \in {"get", "stop", "label", "hold"} => proc[p].gen.providerCallId # None
    /\ proc[p].gen.cancelRequestedAt # None => row.cancelRequestedAt # None
    /\ proc[p].pc = "label" => proc[p].plan.response = "cancelled"
    /\ proc[p].pc = "commit" => PlanSound(p)
    /\ AnswerInHand(p)

\* NothingRunsUnseen, with the Starter done: nothing can be sent later either.
NothingWillRunUnseen ==
    /\ row.status \in Settled
    /\ row.providerCallId = None
    /\ row.failure # "outcome_unknown"
    => /\ call.state \in {"unsent", "refused"}
       /\ proc[Starter].pc = "idle"

\* Only an accepted call is recorded, and only a finished one is forgotten.
NamedIsAccepted ==
    \/ row.providerCallId # None
    \/ late
    \/ \E p \in Procs : proc[p].pc \in {"write", "pause", "rewrite"}
    => Accepted

GoneIsOver == call.gone => call.state \in CallTerminal

\* A failure that keeps no answer, whatever its wording.
Failing(plan, failure) ==
    /\ plan.status = "failed" /\ plan.failure = failure
    /\ plan.response = None /\ plan.usage = "uncounted"

\* The answer of the call in hand, kept whole.
Keeping(plan) ==
    /\ plan.response = call.state
    /\ \/ plan.status = "failed" /\ plan.failure = "provider_failed" /\ call.state \in {"failed", "cancelled"}
       \/ plan.status \in {"succeeded", "cancelled"} /\ plan.failure = None

\* A plan about to be committed is one of those the contract of the failure classes allows.
PlanTells(p) ==
    LET gen  == proc[p].gen
        plan == proc[p].plan
    IN  proc[p].pc = "commit" =>
            \/ Failing(plan, "outcome_unknown")
            \/ /\ gen.startRequestedAt = None
               /\ Failing(plan, "not_started") \/ plan = CancelledPlan
            \/ /\ p = Starter /\ call.state \in {"unsent", "refused"}
               /\ Failing(plan, "not_started")
            \/ /\ call.state = "refused"
               /\ plan.status = "failed" /\ plan.failure = "rejected"
               /\ plan.response \in {"rejection", None} /\ plan.usage = "uncounted"
            \/ /\ gen.providerCallId # None
               /\ call.state \in CallTerminal
               /\ Failing(plan, "provider_failed") \/ Keeping(plan)

Telling ==
    /\ NamedIsAccepted
    /\ GoneIsOver
    /\ \A p \in Procs : PlanTells(p)

\* Every part together is preserved by every step of every process.
Inductive ==
    /\ TypeOK
    /\ SchemaHolds
    /\ RecordedOnce
    /\ ErrorMeansSettled
    /\ UnsentBeforeSend
    /\ NoIntentNoCall
    /\ FinishedHasAnswer
    /\ NothingWillRunUnseen
    /\ OutcomeTold
    /\ AnswerKept
    /\ \A p \in Procs : ProcSound(p)
    /\ Telling

-----------------------------------------------------------------------------
(***************************************************************************)
(* What the clock adds: why a start is never outrun, and why a generation  *)
(* is told that it ran late.                                               *)
(***************************************************************************)
\* The generation is past one of its ceilings by now.
PastByNow ==
    /\ row.startRequestedAt # None
    /\ \/ now >= row.startRequestedAt + RunCeiling
       \/ row.streamed /\ now >= row.startRequestedAt + StreamQueuedCeiling

\* Someone had a reason to stop the call: its owner, a ceiling, or a row that does not carry it.
StopDue == row.cancelRequestedAt # None \/ PastByNow \/ start.orphanStopped

\* A read is no later than now, and what it showed of a recorded call still stands.
Follows(p) ==
    LET gen == proc[p].gen
    IN  /\ gen.readAt =< now
        /\ gen.providerCallId # None =>
              /\ row.providerCallId # None
              /\ gen.startRequestedAt = row.startRequestedAt
              /\ gen.streamed = row.streamed

\* A process stops a call, or tells it was late, for a reason that stands.
StopExplained(p) ==
    /\ proc[p].pc = "stop" => proc[p].gen.cancelRequestedAt # None \/ PastByNow
    /\ proc[p].pc = "commit" /\ proc[p].plan.error = "failureOverdue" =>
          PastByNow \/ start.orphanStopped

\* Nobody but this service cancels its calls.
CancelExplained == call.state = "cancelled" \/ call.stopping => StopDue

\* The Starter took its instant before the database took the row's.
IntentFirst ==
    /\ start.intentAt =< now
    /\ row.startRequestedAt # None => start.intentAt =< row.startRequestedAt
    /\ proc[Starter].pc = "admit" => start.intentAt =< proc[Starter].gen.startRequestedAt

\* A check that settles a start with no recorded call waited for it.
Waited(p) ==
    LET gen == proc[p].gen
    IN  /\ p # Starter /\ proc[p].pc = "commit"
        /\ gen.providerCallId = None /\ gen.startRequestedAt # None
        => Age(gen) >= StartOutcomeUnknownAfter

Writing == Timed \ {"readback"}

\* Whoever settled a start that is still going on did so no sooner than that.
OutrunLate ==
    row.status \in Settled /\ row.providerCallId = None /\ proc[Starter].pc \in Writing \cup {"age"}
    => now >= start.intentAt + StartOutcomeUnknownAfter

\* Each deadline of the Starter, counted from its intent.
Deadline(pc) ==
    LET sent == StartTimeout + StreamStartTimeout
    IN  CASE pc = "send"    -> StartTimeout
          [] pc = "accept"  -> sent
          [] pc = "write"   -> sent + PersistenceTimeout
          [] pc = "pause"   -> RecordPatience
          [] pc = "rewrite" -> RecordPatience + PersistenceTimeout

\* Unless frozen, the Starter's process keeps its deadlines.
DeadlinesKept ==
    LET pc == proc[Starter].pc
    IN  ~MayFreeze /\ pc \in Writing =>
            now =< start.until /\ start.until < start.intentAt + Deadline(pc)

\* These parts together are preserved by every step as well.
InTime ==
    /\ Inductive
    /\ CancelExplained /\ OverdueExplained
    /\ IntentFirst /\ OutrunLate /\ DeadlinesKept
    /\ \A p \in Procs : Follows(p) /\ StopExplained(p) /\ Waited(p)

-----------------------------------------------------------------------------
(***************************************************************************)
(* Refinement.  The owner sees a row, and the provider a call.  Every step *)
(* of a check that moves neither changes nothing that was promised.        *)
(***************************************************************************)
Life == INSTANCE GenerationLife WITH
    status  <- row.status,
    failure <- row.failure,
    asked   <- row.cancelRequestedAt # None,
    work    <- IF call.state \in CallLive THEN "sent" ELSE call.state,
    metered <- call.answer = "counted",
    answer  <- attempt,
    counted <- usage

\* A generation lives as its owner is promised, with any number of checks acting on old reads, late
\* writes and processes that freeze: sent once at most, settled once, and told what became of the call.
ImplementsLife == Life!Spec

-----------------------------------------------------------------------------
(***************************************************************************)
(* Liveness.  The sweep reads every unsettled generation again and again,  *)
(* and neither the database nor the provider cuts its checks forever.  The *)
(* provider owes nothing: it may never finish a call, nor apply a stop.    *)
(***************************************************************************)
Fairness ==
    /\ WF_vars(Tick)
    /\ \E p \in Checks :
          /\ SF_vars(CheckRead(p))
          /\ SF_vars(GetCall(p) \/ StopCall(p) \/ Relabel(p) \/ CommitChanged(p))
          /\ SF_vars(CommitApplied(p))
          /\ SF_vars(CommitRefused(p))

FairSpec == Spec /\ Fairness

\* Every recorded generation settles, even when its submit crashed, the provider never finishes or
\* stops its call, or the database refuses the answer on every check.
EventuallySettles == row.status \in Live ~> row.status \in Settled

=============================================================================
