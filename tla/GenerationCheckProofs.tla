----------------------- MODULE GenerationCheckProofs -----------------------
(***************************************************************************)
(* Proofs about GenerationCheck, for any set of checks, any durations that *)
(* satisfy its assumptions, and any horizon.                               *)
(***************************************************************************)
EXTENDS GenerationCheck, TLAPS

\* What a check reads of a row is typed.
LEMMA ReadType ==
    ASSUME NEW r \in Rows, NEW at \in Nat
    PROVE  ReadOf(r, at) \in Reads
BY DEF ReadOf, Rows, Reads

\* The pause between two writes of a call's id is one of the two it is computed from.
LEMMA MinType ==
    ASSUME NEW a \in Nat, NEW b \in Nat
    PROVE  Min({a, b}) \in Nat
<1>1. \E x \in {a, b} : \A y \in {a, b} : x =< y
  OBVIOUS
<1>2. Min({a, b}) \in {a, b}
  BY <1>1 DEF Min
<1> QED
  BY <1>2

\* A freshly inserted row, and the row that does not exist yet, are typed.
LEMMA PendingType ==
    ASSUME NEW at \in Instants, NEW streamed \in BOOLEAN
    PROVE  PendingRow(at, streamed) \in Rows
BY DEF PendingRow, Rows, Instants, Live

\* The read of no row, and the absent row itself, are typed.
LEMMA NoReadType == NoRead \in Reads /\ AbsentRow \in Rows
<1>1. PendingRow(None, FALSE) \in Rows
  BY PendingType DEF Instants
<1>2. AbsentRow \in Rows
  BY <1>1 DEF AbsentRow, Rows
<1> QED
  BY <1>2, ReadType DEF NoRead

\* A check with nothing to commit holds a typed plan.
LEMMA NoPlanType == NoPlan \in Plans
BY DEF NoPlan, Plans

\* An idle process is typed.
LEMMA IdleType == Idle \in [pc : Pcs, gen : Reads, plan : Plans]
BY NoReadType, NoPlanType DEF Idle, ProcState, Pcs

\* Every outcome a check plans is typed.
LEMMA FailurePlanType ==
    ASSUME NEW error \in Errors, NEW failure \in Failures, NEW response \in {"rejection", None}
    PROVE  FailurePlan(error, failure, response) \in Plans
BY DEF FailurePlan, Plans, Settled

\* The outcome of a terminal call is a typed plan, whatever its label.
LEMMA OutcomePlanType ==
    ASSUME NEW gen, NEW state \in CallTerminal,
           NEW answer \in {"counted", "uncounted", "refusedByDatabase"}
    PROVE  OutcomePlan(gen, state, answer) \in Plans
BY DEF OutcomePlan, Plans, CallTerminal, Settled, Errors, Failures

-----------------------------------------------------------------------------
(***************************************************************************)
(* Type correctness.                                                       *)
(***************************************************************************)
States == [pc : Pcs, gen : Reads, plan : Plans]

\* A submit about to begin, and a row an earlier release left, are typed.
LEMMA TypeInit == Init => TypeOK
<1> SUFFICES ASSUME Init PROVE TypeOK
  OBVIOUS
<1>1. row \in Rows
  <2>1. CASE row = AbsentRow
    BY <2>1, NoReadType
  <2>2. ASSUME NEW asked \in {None, 0},
               row = [PendingRow(None, FALSE) EXCEPT !.cancelRequestedAt = asked]
        PROVE  row \in Rows
    <3>1. PICK r \in Rows : r = PendingRow(None, FALSE)
      BY PendingType DEF Instants
    <3>2. row = [r EXCEPT !.cancelRequestedAt = asked]
      BY <2>2, <3>1
    <3> QED
      BY <3>2 DEF Rows, Instants
  <2> QED
    BY <2>1, <2>2 DEF Init
<1>2. proc \in [Procs -> States]
  <2>1. Idle \in States
    BY IdleType DEF States
  <2>2. ProcState("intent", NoRead, NoPlan) \in States
    BY NoReadType, NoPlanType DEF ProcState, States, Pcs
  <2> QED
    BY <2>1, <2>2 DEF Init
<1>3. call \in Calls
  BY DEF Init, Calls, CallStates, Unaccepted
<1>4. start \in [intentAt : Nat, until : Nat, pause : Nat, orphanStopped : BOOLEAN]
  BY DurationsAssumption DEF Init
<1> QED
  BY <1>1, <1>2, <1>3, <1>4 DEF Init, TypeOK, States

\* A step of a process changes that process alone, and leaves it typed.
LEMMA BecomeType ==
    ASSUME proc \in [Procs -> States], NEW p \in Procs, NEW pc \in Pcs,
           NEW gen \in Reads, NEW plan \in Plans, Become(p, pc, gen, plan)
    PROVE  proc' \in [Procs -> States]
<1>1. ProcState(pc, gen, plan) \in States
  BY DEF ProcState, States
<1> QED
  BY <1>1 DEF Become

\* A process that only moves on stays typed.
LEMMA GotoType ==
    ASSUME proc \in [Procs -> States], NEW p \in Procs, NEW pc \in Pcs, Goto(p, pc)
    PROVE  proc' \in [Procs -> States]
<1>1. proc[p].gen \in Reads /\ proc[p].plan \in Plans
  BY DEF States
<1> QED
  BY <1>1, BecomeType DEF Goto

\* A process that ends its check stays typed.
LEMMA EndType ==
    ASSUME proc \in [Procs -> States], NEW p \in Procs, End(p)
    PROVE  proc' \in [Procs -> States]
<1>1. "idle" \in Pcs
  BY DEF Pcs
<1> QED
  BY <1>1, BecomeType, NoReadType, NoPlanType DEF End

\* A process that begins on a typed read stays typed.
LEMMA BeginType ==
    ASSUME proc \in [Procs -> States], NEW p \in Procs, NEW pc \in Pcs,
           NEW gen \in Reads, Begin(p, pc, gen)
    PROVE  proc' \in [Procs -> States]
BY BecomeType, NoPlanType DEF Begin

\* A process about to commit a typed plan stays typed.
LEMMA CommitNextType ==
    ASSUME proc \in [Procs -> States], NEW p \in Procs, NEW plan \in Plans, CommitNext(p, plan)
    PROVE  proc' \in [Procs -> States]
<1>1. proc[p].gen \in Reads /\ "commit" \in Pcs
  BY DEF States, Pcs
<1> QED
  BY <1>1, BecomeType DEF CommitNext

\* A cancel marks the row, and settles one never started, as one write after another would.
LEMMA CancelWrites ==
    ASSUME NEW r \in Rows, NEW at \in Nat
    PROVE  LET s == RequestCancel(r, at)
               unstarted == r.startRequestedAt = None
           IN  /\ s \in Rows
               /\ s.cancelRequestedAt = IF r.cancelRequestedAt = None THEN at ELSE r.cancelRequestedAt
               /\ s.status = IF unstarted THEN "cancelled" ELSE r.status
               /\ s.error = IF unstarted THEN "generationCancelledReason" ELSE r.error
               /\ s.settledAt = IF unstarted THEN at ELSE None
               /\ s.expiresAt = IF unstarted THEN at + Retention ELSE None
               /\ s.failure = r.failure
               /\ s.outcomeUnknownAt = r.outcomeUnknownAt
               /\ s.providerCallId = r.providerCallId
               /\ s.startRequestedAt = r.startRequestedAt
<1> DEFINE unstarted == r.startRequestedAt = None
           asked   == IF r.cancelRequestedAt = None THEN at ELSE r.cancelRequestedAt
           status  == IF unstarted THEN "cancelled" ELSE r.status
           error   == IF unstarted THEN "generationCancelledReason" ELSE r.error
           settled == IF unstarted THEN at ELSE None
           expires == IF unstarted THEN at + Retention ELSE None
           s       == [r EXCEPT !.cancelRequestedAt = asked, !.status = status, !.error = error,
                                !.settledAt = settled, !.expiresAt = expires]
<1>1. RequestCancel(r, at) = s
  BY DEF RequestCancel
<1>2. asked \in Instants
  BY DEF Rows, Instants
<1>3. status \in {"absent"} \cup Live \cup Settled /\ error \in Errors \cup {None}
  BY DEF Rows, Settled, Errors
<1>4. settled \in Instants /\ expires \in Instants
  BY RetentionAssumption DEF Instants
<1> HIDE DEF asked, status, error, settled, expires
<1>5. /\ s.cancelRequestedAt = asked /\ s.status = status /\ s.error = error
      /\ s.settledAt = settled /\ s.expiresAt = expires
      /\ s.failure = r.failure /\ s.outcomeUnknownAt = r.outcomeUnknownAt
      /\ s.providerCallId = r.providerCallId /\ s.startRequestedAt = r.startRequestedAt
  BY DEF Rows
<1>6. s \in Rows
  BY <1>2, <1>3, <1>4 DEF Rows
<1> HIDE DEF s
<1> QED
  BY <1>1, <1>5, <1>6 DEF asked, status, error, settled, expires

\* Each statement of the store leaves a typed row.
LEMMA StoreType ==
    ASSUME NEW r \in Rows, NEW at \in Nat, NEW outcome \in Plans, outcome.status \in Settled
    PROVE  /\ RecordProviderCall(r) \in Rows
           /\ Settle(r, outcome, at) \in Rows
           /\ RequestCancel(r, at) \in Rows
<1>1. RecordProviderCall(r) \in Rows
  BY DEF RecordProviderCall, Rows, Live
<1>2. Settle(r, outcome, at) \in Rows
  <2> DEFINE unknownAt == IF outcome.failure = "outcome_unknown" THEN at ELSE None
             r1 == [r  EXCEPT !.status = outcome.status]
             r2 == [r1 EXCEPT !.error = outcome.error]
             r3 == [r2 EXCEPT !.failure = outcome.failure]
             r4 == [r3 EXCEPT !.settledAt = at]
             r5 == [r4 EXCEPT !.expiresAt = at + Retention]
             r6 == [r5 EXCEPT !.outcomeUnknownAt = unknownAt]
  <2>0. unknownAt \in Instants /\ at \in Instants /\ at + Retention \in Instants
    BY RetentionAssumption DEF Instants
  <2> HIDE DEF unknownAt
  <2>1. r1 \in Rows
    BY DEF Rows
  <2> HIDE DEF r1
  <2>2. r2 \in Rows
    BY <2>1 DEF Rows, Plans
  <2> HIDE DEF r2
  <2>3. r3 \in Rows
    BY <2>2 DEF Rows, Plans
  <2> HIDE DEF r3
  <2>4. r4 \in Rows
    BY <2>0, <2>3 DEF Rows
  <2> HIDE DEF r4
  <2>5. r5 \in Rows
    BY <2>0, <2>4 DEF Rows
  <2> HIDE DEF r5
  <2>6. r6 \in Rows
    BY <2>0, <2>5 DEF Rows
  <2>7. Settle(r, outcome, at) = r6
    BY DEF Settle, r1, r2, r3, r4, r5, unknownAt
  <2> QED
    BY <2>6, <2>7
<1>3. RequestCancel(r, at) \in Rows
  BY CancelWrites
<1> QED
  BY <1>1, <1>2, <1>3

\* observe leaves its process typed.
LEMMA ObserveType ==
    ASSUME proc \in [Procs -> States], NEW p \in Procs, NEW gen \in Reads, ObserveNext(p, gen)
    PROVE  proc' \in [Procs -> States]
<1>1. FailurePlan("failureProviderUnavailable", "outcome_unknown", None) \in Plans
  BY FailurePlanType DEF Errors, Failures
<1>2. {"get", "stop", "commit"} \subseteq Pcs
  BY DEF Pcs
<1> QED
  BY <1>1, <1>2, BecomeType, BeginType DEF ObserveNext

\* What planning an answer leads to is typed, once the answer is one a finished call may hold.
LEMMA AnswerType ==
    ASSUME proc \in [Procs -> States], NEW p \in Procs, NEW state \in CallTerminal,
           NEW answer \in Answers, NEW stopWanted \in BOOLEAN,
           AnswerNext(p, state, answer, stopWanted)
    PROVE  proc' \in [Procs -> States]
<1>1. FailurePlan("failureResponseTooLarge", "outcome_unknown", None) \in Plans
  BY FailurePlanType DEF Errors, Failures
<1>2. "label" \in Pcs
  BY DEF Pcs
<1>3. CASE answer = "oversized"
  BY <1>1, <1>3, CommitNextType DEF AnswerNext
<1>4. CASE answer # "oversized"
  <2>1. answer \in {"counted", "uncounted", "refusedByDatabase"}
    BY <1>4, ProcsAssumption
  <2>2. OutcomePlan(proc[p].gen, state, answer) \in Plans
    BY <2>1, OutcomePlanType
  <2>3. proc[p].gen \in Reads
    BY DEF States
  <2> QED
    BY <1>2, <1>4, <2>2, <2>3, BecomeType, CommitNextType DEF AnswerNext
<1> QED
  BY <1>3, <1>4

\* The plans the actions write down, and the pcs they move to, are typed.
LEMMA NamedPlans ==
    /\ FailurePlan("failureProviderUnavailable", "not_started", None) \in Plans
    /\ FailurePlan("failureStartFailed", "not_started", None) \in Plans
    /\ FailurePlan("failureRejected", "rejected", None) \in Plans
    /\ FailurePlan("failureRejected", "rejected", "rejection") \in Plans
    /\ FailurePlan("failureOutcomeUnknown", "outcome_unknown", None) \in Plans
    /\ FailurePlan("failureResultLost", "provider_failed", None) \in Plans
    /\ FailurePlan("failureNotStopped", "outcome_unknown", None) \in Plans
    /\ FailurePlan("failureNotRecorded", "provider_failed", None) \in Plans
    /\ CancelledPlan \in Plans
<1>1. CancelledPlan \in Plans
  BY DEF CancelledPlan, Plans, Settled, Errors
<1> QED
  BY <1>1, FailurePlanType DEF Errors, Failures

\* A start whose call is recorded leaves its process typed.
LEMMA RecordedType ==
    ASSUME proc \in [Procs -> States], NEW gen \in Reads
    PROVE  /\ StartedNext(gen) => proc' \in [Procs -> States]
           /\ RecordedNext(gen) => proc' \in [Procs -> States]
<1>1. Starter \in Procs /\ "hold" \in Pcs
  BY DEF Procs, Pcs
<1>2. StartedNext(gen) => proc' \in [Procs -> States]
  BY <1>1, EndType, ObserveType DEF StartedNext
<1> QED
  BY <1>1, <1>2, BeginType DEF RecordedNext

\* A process's part of the state after a step of the Starter.
LEMMA StartProcType ==
    ASSUME TypeOK, Start
    PROVE  proc' \in [Procs -> States]
<1>0. /\ proc \in [Procs -> States]
      /\ Starter \in Procs
      /\ row \in Rows
      /\ now \in Nat
      /\ proc[Starter].gen \in Reads
  BY DEF TypeOK, States, Procs
<1>1. CASE SubmitInsert
  <2>1. PICK streamed \in Modes : Begin(Starter, "admit", ReadOf(PendingRow(now, streamed), now))
    BY <1>1 DEF SubmitInsert
  <2>2. ReadOf(PendingRow(now, streamed), now) \in Reads
    BY <1>0, ReadType, PendingType, ProcsAssumption DEF Instants
  <2>3. "admit" \in Pcs
    BY DEF Pcs
  <2> QED
    BY <1>0, <2>1, <2>2, <2>3, BeginType
<1>2. CASE SubmitCommit
  BY <1>0, <1>2, GotoType DEF SubmitCommit, Pcs
<1>3. CASE StartRefused
  BY <1>0, <1>3, NamedPlans, CommitNextType DEF StartRefused
<1>4. CASE StartFresh
  BY <1>0, <1>4, GotoType DEF StartFresh, Pcs
<1>5. CASE StartSend
  BY <1>0, <1>5, GotoType DEF StartSend, Pcs
<1>6. CASE StartNotSent
  BY <1>0, <1>6, NamedPlans, CommitNextType DEF StartNotSent
<1>7. CASE StartFails
  BY <1>0, <1>7, NamedPlans, CommitNextType DEF StartFails
<1>8. CASE StartNamed
  BY <1>0, <1>8, GotoType DEF StartNamed, Pcs
<1>9. CASE RecordAnswered
  <2>1. CASE RecordMatches(row)
    <3>1. RecordedNext(ReadOf(RecordProviderCall(row), now))
      BY <1>9, <2>1 DEF RecordAnswered
    <3>2. RecordProviderCall(row) \in Rows
      BY <1>0 DEF RecordProviderCall, Rows, Live
    <3>3. ReadOf(RecordProviderCall(row), now) \in Reads
      BY <1>0, <3>2, ReadType
    <3> QED
      BY <1>0, <3>1, <3>3, RecordedType
  <2>2. CASE ~RecordMatches(row)
    <3>1. "orphan" \in Pcs /\ "readback" \in Pcs
      BY DEF Pcs
    <3> QED
      BY <1>0, <1>9, <2>2, <3>1, GotoType DEF RecordAnswered
  <2> QED
    BY <2>1, <2>2
<1>10. CASE RecordUnanswered
  <2>1. "pause" \in Pcs /\ "readback" \in Pcs
    BY DEF Pcs
  <2> QED
    BY <1>0, <1>10, <2>1, GotoType DEF RecordUnanswered
<1>11. CASE RecordAgain
  BY <1>0, <1>11, GotoType DEF RecordAgain, Pcs
<1>12. CASE RecordReadBack
  <2>1. ReadOf(row, now) \in Reads /\ "orphan" \in Pcs
    BY <1>0, ReadType DEF Pcs
  <2> QED
    BY <1>0, <1>12, <2>1, RecordedType, GotoType DEF RecordReadBack
<1>13. CASE HoldEnds
  BY <1>0, <1>13, RecordedType DEF HoldEnds
<1>14. CASE OrphanStop
  <2>1. ASSUME NEW answer, OrphanAnswered(answer) PROVE proc' \in [Procs -> States]
    <3>1. CASE answer \in {"counted", "refusedByDatabase"}
      <4>1. [NoPlan EXCEPT !.usage = answer] \in Plans
        BY <3>1, NoPlanType DEF NoPlan, Plans
      <4>2. "orphanUsage" \in Pcs
        BY DEF Pcs
      <4> QED
        BY <1>0, <2>1, <3>1, <4>1, <4>2, BecomeType DEF OrphanAnswered
    <3>2. CASE answer \notin {"counted", "refusedByDatabase"}
      BY <1>0, <2>1, <3>2, EndType DEF OrphanAnswered
    <3> QED
      BY <3>1, <3>2
  <2>2. End(Starter) => proc' \in [Procs -> States]
    BY <1>0, EndType
  <2> QED
    BY <1>14, <2>1, <2>2 DEF OrphanStop
<1>15. CASE OrphanUsage
  BY <1>0, <1>15, EndType DEF OrphanUsage
<1> QED
  BY <1>1, <1>2, <1>3, <1>4, <1>5, <1>6, <1>7, <1>8, <1>9, <1>10, <1>11, <1>12, <1>13, <1>14,
     <1>15 DEF Start

\* A process's part of the state after a step of a check.
LEMMA CheckProcType ==
    ASSUME TypeOK, FinishedHasAnswer, NEW p \in Procs,
           Check(p) \/ CheckRead(p) \/ CancelRead(p)
    PROVE  proc' \in [Procs -> States]
<1>0. /\ proc \in [Procs -> States]
      /\ row \in Rows
      /\ now \in Nat
      /\ call \in Calls
      /\ proc[p].gen \in Reads
      /\ proc[p].plan \in Plans
  BY DEF TypeOK, States
<1>1. ASSUME Finished
      PROVE  call.state \in CallTerminal /\ call.answer \in Answers
  BY <1>0, <1>1 DEF FinishedHasAnswer, Finished, Calls
<1>2. ASSUME LostNext(p) PROVE proc' \in [Procs -> States]
  BY <1>0, <1>2, NamedPlans, CommitNextType DEF LostNext
<1>3. CASE GetCall(p)
  <2>1. CASE call.gone /\ LostNext(p)
    BY <1>2, <2>1
  <2>2. CASE Finished /\ AnswerNext(p, call.state, call.answer, FALSE)
    BY <1>0, <1>1, <2>2, AnswerType
  <2>3. CASE call.state \in CallLive /\ (Goto(p, "stop") \/ End(p))
    BY <1>0, <2>3, GotoType, EndType DEF Pcs
  <2> QED
    BY <1>3, <2>1, <2>2, <2>3 DEF GetCall
<1>4. CASE StopCall(p)
  <2>1. CASE call.gone /\ LostNext(p)
    BY <1>2, <2>1
  <2>2. CASE Finished /\ AnswerNext(p, call.state, call.answer, TRUE)
    BY <1>0, <1>1, <2>2, AnswerType
  <2>3. ASSUME NEW answer \in Answers, AnswerNext(p, "cancelled", answer, TRUE)
        PROVE  proc' \in [Procs -> States]
    BY <1>0, <2>3, AnswerType DEF CallTerminal
  <2>4. CASE UnstoppedNext(p)
    BY <1>0, <2>4, NamedPlans, EndType, CommitNextType DEF UnstoppedNext
  <2> QED
    BY <1>4, <2>1, <2>2, <2>3, <2>4 DEF StopCall
<1>5. CASE Relabel(p)
  <2> DEFINE gen == [proc[p].gen EXCEPT !.cancelRequestedAt = row.cancelRequestedAt]
  <2>1. gen \in Reads
    BY <1>0 DEF Reads, Rows
  <2>2. proc[p].plan.usage \in {"counted", "uncounted", "refusedByDatabase"}
    BY <1>0 DEF Plans
  <2>3. OutcomePlan(gen, "cancelled", proc[p].plan.usage) \in Plans
    BY <2>2, OutcomePlanType DEF CallTerminal
  <2>4. Become(p, "commit", gen, OutcomePlan(gen, "cancelled", proc[p].plan.usage))
    BY <1>5 DEF Relabel
  <2>5. "commit" \in Pcs
    BY DEF Pcs
  <2> HIDE DEF gen
  <2> QED
    BY <1>0, <2>1, <2>3, <2>4, <2>5, BecomeType
<1>6. CASE CommitApplied(p) \/ CommitChanged(p) \/ Abort(p)
  BY <1>0, <1>6, EndType DEF CommitApplied, CommitChanged, Abort
<1>7. CASE CommitRefused(p)
  BY <1>0, <1>7, NamedPlans, EndType, CommitNextType DEF CommitRefused
<1>8. CASE CheckRead(p)
  <2>1. ReadOf(row, now) \in Reads /\ "commit" \in Pcs
    BY <1>0, ReadType DEF Pcs
  <2> QED
    BY <1>0, <1>8, <2>1, NamedPlans, ObserveType, BecomeType DEF CheckRead
<1>9. CASE CancelRead(p)
  <2>1. RequestCancel(row, now) \in Rows
    <3>1. CancelledPlan \in Plans /\ CancelledPlan.status \in Settled
      BY NamedPlans DEF CancelledPlan, Settled
    <3> QED
      BY <1>0, <3>1, StoreType
  <2>2. ReadOf(RequestCancel(row, now), now) \in Reads
    BY <1>0, <2>1, ReadType
  <2>3. ObserveNext(p, ReadOf(RequestCancel(row, now), now)) \/ proc' = proc
    BY <1>9 DEF CancelRead
  <2> QED
    BY <1>0, <2>2, <2>3, ObserveType
<1> QED
  BY <1>3, <1>4, <1>5, <1>6, <1>7, <1>8, <1>9 DEF Check

\* The row after a step.
LEMMA RowType ==
    ASSUME TypeOK, Next,
           \A p \in Procs : proc[p].pc = "commit" => proc[p].plan.status \in Settled
    PROVE  row' \in Rows
<1>0. /\ row \in Rows
      /\ now \in Nat
      /\ proc \in [Procs -> States]
      /\ Starter \in Procs
  BY DEF TypeOK, States, Procs
<1>1. /\ RecordProviderCall(row) \in Rows
      /\ RequestCancel(row, now) \in Rows
  <2>1. CancelledPlan \in Plans /\ CancelledPlan.status \in Settled
    BY NamedPlans DEF CancelledPlan, Settled
  <2> QED
    BY <1>0, <2>1, StoreType
<1>2. CASE SubmitCommit
  <2>1. /\ proc[Starter].gen.startRequestedAt \in Instants
        /\ proc[Starter].gen.streamed \in BOOLEAN
    BY <1>0 DEF States, Reads
  <2> QED
    BY <1>2, <2>1, PendingType DEF SubmitCommit
<1>3. CASE RecordAnswered \/ LateWriteLands
  BY <1>0, <1>1, <1>3 DEF RecordAnswered, LateWriteLands
<1>4. ASSUME NEW p \in Procs, CommitApplied(p)
      PROVE  row' \in Rows
  <2>1. proc[p].plan \in Plans /\ proc[p].plan.status \in Settled
    BY <1>0, <1>4 DEF States, CommitApplied
  <2> QED
    BY <1>0, <1>4, <2>1, StoreType DEF CommitApplied
<1>5. ASSUME NEW p \in Procs, CancelRead(p)
      PROVE  row' \in Rows
  BY <1>1, <1>5 DEF CancelRead
<1>6. ASSUME NEW p \in Procs,
             \/ GetCall(p) \/ StopCall(p) \/ Relabel(p) \/ CommitChanged(p)
             \/ CommitRefused(p) \/ Abort(p) \/ CheckRead(p)
      PROVE  row' = row
  BY <1>6 DEF GetCall, StopCall, Relabel, CommitChanged, CommitRefused, Abort, CheckRead
<1>7. CASE \/ SubmitInsert \/ StartRefused \/ StartFresh \/ StartSend \/ StartNotSent
           \/ StartFails \/ StartNamed \/ RecordUnanswered \/ RecordAgain \/ RecordReadBack
           \/ HoldEnds \/ OrphanStop \/ OrphanUsage \/ Provider \/ DropProvider \/ Tick
  BY <1>0, <1>7 DEF SubmitInsert, StartRefused, StartFresh, StartSend, StartNotSent, StartFails,
     StartNamed, RecordUnanswered, RecordAgain, RecordReadBack, HoldEnds, OrphanStop, OrphanUsage,
     Provider, ProviderAccept, ProviderRefuse, ProviderRun, ProviderFinish, ProviderForget,
     CallBecomes, DropProvider, Tick
<1> QED
  BY <1>0, <1>2, <1>3, <1>4, <1>5, <1>6, <1>7 DEF Next, Start, Check, Procs

\* How the provider's side may change in one step: a call is sent by the Starter alone, a refused
\* request stays refused, and a finished call keeps its answer.
LEMMA CallMoves ==
    ASSUME TypeOK, FinishedHasAnswer, UnsentBeforeSend, Next
    PROVE  /\ call' \in Calls
           /\ FinishedHasAnswer'
           /\ call.state \in CallTerminal => call'.state = call.state /\ call'.answer = call.answer
           /\ call.state \in {"unsent", "refused"} => call'.state = call.state \/ StartSend
<1>0. call \in Calls /\ Starter \in Procs
  BY DEF TypeOK, Procs
<1> DEFINE Good == /\ call' \in Calls
                   /\ FinishedHasAnswer'
                   /\ call.state \in CallTerminal =>
                         call'.state = call.state /\ call'.answer = call.answer
                   /\ call.state \in {"unsent", "refused"} => call'.state = call.state
<1>1. ASSUME call' = call PROVE Good
  BY <1>0, <1>1 DEF FinishedHasAnswer
<1>2. ASSUME NEW state \in CallTerminal, NEW answer \in Answers, call.state \in CallLive,
             call' = [call EXCEPT !.state = state, !.answer = answer]
      PROVE  Good
  <2>1. call'.state = state /\ call'.answer = answer
    BY <1>0, <1>2 DEF Calls
  <2>2. answer # None
    BY ProcsAssumption
  <2>3. call' \in Calls
    BY <1>0, <1>2 DEF Calls, CallStates
  <2>4. call.state \notin CallTerminal \cup {"unsent", "refused"}
    BY <1>2 DEF CallLive, CallTerminal
  <2> QED
    BY <1>2, <2>1, <2>2, <2>3, <2>4 DEF FinishedHasAnswer
<1>3. ASSUME NEW state \in CallLive \cup {"refused"}, call.state \in {"sent", "queued"},
             call' = [call EXCEPT !.state = state]
      PROVE  Good
  <2>1. call'.state = state /\ call'.answer = call.answer /\ call' \in Calls
    BY <1>0, <1>3 DEF Calls, CallStates, CallLive, Unaccepted
  <2>2. state \notin CallTerminal /\ call.state \notin CallTerminal
    BY <1>3 DEF CallLive, CallTerminal
  <2> QED
    BY <1>3, <2>1, <2>2 DEF FinishedHasAnswer
<1>4. ASSUME NEW flag \in BOOLEAN,
             \/ call' = [call EXCEPT !.stopping = flag]
             \/ call' = [call EXCEPT !.gone = flag]
      PROVE  Good
  BY <1>0, <1>4 DEF Calls, FinishedHasAnswer
<1>5. CASE StartSend
  <2>1. proc[Starter].pc = "send" /\ call' = [call EXCEPT !.state = "sent"]
    BY <1>5 DEF StartSend
  <2>2. call.state = "unsent"
    BY <2>1 DEF UnsentBeforeSend
  <2> QED
    BY <1>0, <1>5, <2>1, <2>2 DEF Calls, CallStates, Unaccepted, FinishedHasAnswer, CallTerminal
<1>6. CASE OrphanStop
  BY <1>1, <1>2, <1>4, <1>6 DEF OrphanStop, CallTerminal
<1>7. ASSUME NEW p \in Procs, StopCall(p) PROVE Good
  <2>1. call.stopping \in BOOLEAN
    BY <1>0 DEF Calls
  <2> QED
    BY <1>1, <1>2, <1>4, <1>7, <2>1 DEF StopCall, CallTerminal
<1>8. CASE Provider
  <2>1. CASE ProviderAccept \/ ProviderRefuse \/ ProviderRun
    BY <1>3, <2>1 DEF ProviderAccept, ProviderRefuse, ProviderRun, CallBecomes, CallLive
  <2>2. CASE ProviderFinish
    BY <1>2, <2>2 DEF ProviderFinish, CallBecomes, CallTerminal
  <2>3. CASE ProviderForget
    BY <1>4, <2>3 DEF ProviderForget, CallBecomes
  <2> QED
    BY <1>8, <2>1, <2>2, <2>3 DEF Provider
<1>9. ASSUME NEW p \in Procs,
             \/ GetCall(p) \/ Relabel(p) \/ CommitApplied(p) \/ CommitChanged(p)
             \/ CommitRefused(p) \/ Abort(p) \/ CheckRead(p) \/ CancelRead(p)
      PROVE  call' = call
  BY <1>9 DEF GetCall, Relabel, CommitApplied, CommitChanged, CommitRefused, Abort, CheckRead,
     CancelRead
<1>10. CASE \/ SubmitInsert \/ SubmitCommit \/ StartRefused \/ StartFresh \/ StartNotSent
            \/ StartFails \/ StartNamed \/ RecordAnswered \/ RecordUnanswered \/ RecordAgain
            \/ RecordReadBack \/ HoldEnds \/ OrphanUsage \/ LateWriteLands
            \/ DropProvider \/ Tick
  <2>1. call' = call
    BY <1>10 DEF SubmitInsert, SubmitCommit, StartRefused, StartFresh, StartNotSent, StartFails,
       StartNamed, RecordAnswered, RecordUnanswered, RecordAgain, RecordReadBack, HoldEnds,
       OrphanUsage, LateWriteLands, DropProvider, Tick
  <2> QED
    BY <1>1, <2>1
<1>11. (\E p \in Procs : Check(p)) \/ (\E p \in Checks : CheckRead(p) \/ CancelRead(p)) => Good
  <2> HIDE DEF Good
  <2> QED
    BY <1>1, <1>7, <1>9 DEF Check, Procs
<1> QED
  BY <1>5, <1>6, <1>8, <1>10, <1>11 DEF Next, Start

\* What a step writes besides the row, the call and the processes is typed.
LEMMA TypeStep ==
    ASSUME TypeOK, FinishedHasAnswer, UnsentBeforeSend,
           \A p \in Procs : proc[p].pc = "commit" => proc[p].plan.status \in Settled,
           Next
    PROVE  TypeOK'
<1>0. /\ proc \in [Procs -> States]
      /\ Starter \in Procs
      /\ now \in Nat
      /\ start \in [intentAt : Nat, until : Nat, pause : Nat, orphanStopped : BOOLEAN]
  BY DEF TypeOK, States, Procs
<1>1. row' \in Rows
  BY RowType
<1>2. call' \in Calls
  BY CallMoves
<1>3. proc' \in [Procs -> States]
  <2>1. CASE Start
    BY <2>1, StartProcType
  <2>2. CASE \/ \E p \in Procs : Check(p)
             \/ \E p \in Checks : CheckRead(p) \/ CancelRead(p)
    BY <2>2, CheckProcType DEF Procs
  <2>3. CASE LateWriteLands \/ Provider \/ DropProvider \/ Tick
    <3>1. proc' = proc
      BY <2>3 DEF LateWriteLands, Provider, ProviderAccept, ProviderRefuse, ProviderRun,
         ProviderFinish, ProviderForget, CallBecomes, DropProvider, Tick
    <3> QED
      BY <1>0, <3>1
  <2> QED
    BY <2>1, <2>2, <2>3 DEF Next
<1>4. start' \in [intentAt : Nat, until : Nat, pause : Nat, orphanStopped : BOOLEAN]
  <2>1. CASE StartFresh \/ StartSend \/ StartNamed \/ RecordAgain \/ OrphanStop
    <3>1. now + StartTimeout \in Nat /\ now + StreamStartTimeout \in Nat
          /\ now + PersistenceTimeout \in Nat
      BY <1>0, DurationsAssumption
    <3>2. \/ \E at \in Nat : start' = [start EXCEPT !.until = at]
          \/ start' = [start EXCEPT !.orphanStopped = TRUE]
      BY <1>0, <2>1, <3>1 DEF StartFresh, StartSend, StartNamed, RecordAgain, OrphanStop
    <3> QED
      BY <1>0, <3>2
  <2>2. CASE RecordAnswered
    BY <1>0, <2>2, DurationsAssumption DEF RecordAnswered
  <2>3. CASE RecordUnanswered
    <3> DEFINE pause == IF proc[Starter].pc = "write"
                          THEN RecordPause
                          ELSE Min({start.pause + start.pause, RecordPauseCeiling})
               again == now + pause < start.intentAt + RecordPatience
    <3>1. pause \in Nat
      BY <1>0, MinType, DurationsAssumption
    <3>2. start' = [start EXCEPT !.pause = pause,
                       !.until = now + IF again THEN pause ELSE PersistenceTimeout]
      BY <2>3 DEF RecordUnanswered
    <3>3. now + (IF again THEN pause ELSE PersistenceTimeout) \in Nat
      BY <1>0, <3>1, DurationsAssumption
    <3> HIDE DEF pause, again
    <3> QED
      BY <1>0, <3>1, <3>2, <3>3
  <2>4. ASSUME NEW p \in Procs,
               \/ GetCall(p) \/ StopCall(p) \/ Relabel(p) \/ CommitApplied(p)
               \/ CommitChanged(p) \/ CommitRefused(p) \/ Abort(p) \/ CheckRead(p)
               \/ CancelRead(p)
        PROVE  start' = start
    BY <2>4 DEF GetCall, StopCall, Relabel, CommitApplied, CommitChanged, CommitRefused, Abort,
       CheckRead, CancelRead
  <2>5. CASE \/ SubmitInsert \/ SubmitCommit \/ StartRefused \/ StartNotSent \/ StartFails
             \/ RecordReadBack \/ HoldEnds \/ OrphanUsage \/ LateWriteLands \/ Provider
             \/ DropProvider \/ Tick
    BY <1>0, <2>5 DEF SubmitInsert, SubmitCommit, StartRefused, StartNotSent, StartFails,
       RecordReadBack, HoldEnds, OrphanUsage, LateWriteLands, Provider, ProviderAccept,
       ProviderRefuse, ProviderRun, ProviderFinish, ProviderForget, CallBecomes, DropProvider, Tick
  <2> QED
    BY <1>0, <2>1, <2>2, <2>3, <2>4, <2>5 DEF Next, Start, Check, Procs
<1>5. /\ now' \in Nat
      /\ attempt' \in CallTerminal \cup {"rejection", None}
      /\ usage' \in BOOLEAN
      /\ late' \in BOOLEAN
      /\ served' \in BOOLEAN
  <2> USE DEF TypeOK
  <2>1. CASE LateWriteLands \/ Provider \/ DropProvider \/ Tick
    <3>1. /\ now' = now \/ now' = now + 1
          /\ UNCHANGED <<attempt, usage>>
          /\ late' = late \/ late' = FALSE
          /\ served' = served \/ served' = FALSE
      BY <2>1 DEF LateWriteLands, Provider, ProviderAccept, ProviderRefuse, ProviderRun,
         ProviderFinish, ProviderForget, CallBecomes, DropProvider, Tick
    <3>2. now' \in Nat
      BY <1>0, <3>1
    <3> QED
      BY <3>1, <3>2
  <2>4. CASE OrphanUsage
    BY <2>4 DEF OrphanUsage
  <2>5. CASE Start /\ ~OrphanUsage
    <3>1. UNCHANGED <<now, attempt, usage, served>> /\ (late' = late \/ late' = TRUE)
      BY <2>5 DEF Start, SubmitInsert, SubmitCommit, StartRefused, StartFresh, StartSend,
         StartNotSent, StartFails, StartNamed, RecordAnswered, RecordUnanswered, RecordAgain,
         RecordReadBack, HoldEnds, OrphanStop
    <3> QED
      BY <3>1
  <2>2. ASSUME NEW p \in Procs, CommitApplied(p)
        PROVE  /\ attempt' \in CallTerminal \cup {"rejection", None}
               /\ usage' \in BOOLEAN
               /\ UNCHANGED <<now, late, served>>
    <3>1. proc[p].plan.response \in CallTerminal \cup {"rejection", None}
      BY <1>0, <2>2 DEF States, Plans
    <3> QED
      BY <2>2, <3>1 DEF CommitApplied
  <2>3. ASSUME NEW p \in Procs,
               \/ GetCall(p) \/ StopCall(p) \/ Relabel(p) \/ CommitChanged(p)
               \/ CommitRefused(p) \/ Abort(p) \/ CheckRead(p) \/ CancelRead(p)
        PROVE  UNCHANGED <<now, attempt, usage, served>> /\ late' \in BOOLEAN
    BY <2>3 DEF GetCall, StopCall, Relabel, CommitChanged, CommitRefused, Abort, CheckRead,
       CancelRead
  <2> QED
    BY <2>1, <2>2, <2>3, <2>4, <2>5 DEF Next, Check, Procs
<1> QED
  BY <1>1, <1>2, <1>3, <1>4, <1>5 DEF TypeOK, States

-----------------------------------------------------------------------------
(***************************************************************************)
(* What each statement of the store keeps and writes.                      *)
(***************************************************************************)
\* NULL is no instant, no status, no message and no state of the call.
LEMMA NotNull ==
    ASSUME NEW at \in Nat
    PROVE  /\ at # None /\ at + Retention # None
           /\ None \notin Settled \cup Live \cup Failures \cup Errors \cup {CallId}
           /\ None \notin CallStates
<1>1. at \in Int /\ at + Retention \in Int
  BY RetentionAssumption
<1> QED
  BY <1>1, NoneAssumption, ProcsAssumption DEF CallStates, Unaccepted, CallLive, CallTerminal

\* The fields the insert leaves.
LEMMA PendingFields ==
    ASSUME NEW at, NEW streamed
    PROVE  LET r == PendingRow(at, streamed)
           IN  /\ r.status = "pending" /\ r.error = None /\ r.failure = None
               /\ r.startRequestedAt = at /\ r.providerCallId = None
               /\ r.cancelRequestedAt = None /\ r.outcomeUnknownAt = None
               /\ r.settledAt = None /\ r.expiresAt = None
BY DEF PendingRow

\* The fields of no row.
LEMMA AbsentFields ==
    /\ AbsentRow.status = "absent" /\ AbsentRow.error = None /\ AbsentRow.failure = None
    /\ AbsentRow.startRequestedAt = None /\ AbsentRow.providerCallId = None
    /\ AbsentRow.cancelRequestedAt = None /\ AbsentRow.outcomeUnknownAt = None
    /\ AbsentRow.settledAt = None /\ AbsentRow.expiresAt = None
BY DEF AbsentRow, PendingRow

\* The id write changes the status and the id alone.
LEMMA RecordFields ==
    ASSUME NEW r \in Rows
    PROVE  LET s == RecordProviderCall(r)
           IN  /\ s.status = "running" /\ s.providerCallId = CallId
               /\ s.error = r.error /\ s.failure = r.failure
               /\ s.startRequestedAt = r.startRequestedAt
               /\ s.cancelRequestedAt = r.cancelRequestedAt
               /\ s.outcomeUnknownAt = r.outcomeUnknownAt
               /\ s.settledAt = r.settledAt /\ s.expiresAt = r.expiresAt
BY DEF RecordProviderCall, Rows

\* The settle writes the outcome and its instants, and keeps the start, the call and the cancel request.
LEMMA SettleFields ==
    ASSUME NEW r \in Rows, NEW outcome, NEW at
    PROVE  LET s == Settle(r, outcome, at)
           IN  /\ s.status = outcome.status /\ s.error = outcome.error
               /\ s.failure = outcome.failure
               /\ s.settledAt = at /\ s.expiresAt = at + Retention
               /\ s.outcomeUnknownAt = IF outcome.failure = "outcome_unknown" THEN at ELSE None
               /\ s.providerCallId = r.providerCallId
               /\ s.startRequestedAt = r.startRequestedAt
               /\ s.cancelRequestedAt = r.cancelRequestedAt
BY DEF Settle, Rows

\* The cancel request keeps the first instant asked, and settles an unstarted row alone.
LEMMA CancelFields ==
    ASSUME NEW r \in Rows, NEW at \in Nat
    PROVE  LET s == RequestCancel(r, at)
           IN  /\ s.cancelRequestedAt # None
               /\ r.cancelRequestedAt # None => s.cancelRequestedAt = r.cancelRequestedAt
               /\ s.failure = r.failure
               /\ s.outcomeUnknownAt = r.outcomeUnknownAt
               /\ s.providerCallId = r.providerCallId
               /\ s.startRequestedAt = r.startRequestedAt
               /\ IF r.startRequestedAt # None
                    THEN /\ s.status = r.status /\ s.error = r.error
                         /\ s.settledAt = None /\ s.expiresAt = None
                    ELSE /\ s.status = "cancelled" /\ s.error = "generationCancelledReason"
                         /\ s.settledAt = at /\ s.expiresAt = at + Retention
<1>1. at # None
  BY NotNull
<1> QED
  BY <1>1, CancelWrites

-----------------------------------------------------------------------------
(***************************************************************************)
(* What one step may change.                                               *)
(***************************************************************************)
\* The row and the attempt change in four ways only.
LEMMA RowMoves ==
    ASSUME Next
    PROVE  \/ row' = row /\ attempt' = attempt
           \/ SubmitCommit
           \/ RecordMatches(row) /\ row' = RecordProviderCall(row) /\ attempt' = attempt
           \/ \E p \in Procs : CommitApplied(p)
           \/ \E p \in Checks : CancelRead(p)
<1> DEFINE Kept == row' = row /\ attempt' = attempt
           Recorded == RecordMatches(row) /\ row' = RecordProviderCall(row) /\ attempt' = attempt
<1>1. CASE RecordAnswered \/ LateWriteLands
  BY <1>1 DEF RecordAnswered, LateWriteLands
<1>2. ASSUME NEW p \in Procs,
             \/ GetCall(p) \/ StopCall(p) \/ Relabel(p) \/ CommitChanged(p)
             \/ CommitRefused(p) \/ Abort(p) \/ CheckRead(p)
      PROVE  Kept
  BY <1>2 DEF GetCall, StopCall, Relabel, CommitChanged, CommitRefused, Abort, CheckRead
<1>3. CASE \/ SubmitInsert \/ StartRefused \/ StartFresh \/ StartSend \/ StartNotSent
           \/ StartFails \/ StartNamed \/ RecordUnanswered \/ RecordAgain \/ RecordReadBack
           \/ HoldEnds \/ OrphanStop \/ OrphanUsage \/ Provider \/ DropProvider \/ Tick
  BY <1>3 DEF SubmitInsert, StartRefused, StartFresh, StartSend, StartNotSent, StartFails,
     StartNamed, RecordUnanswered, RecordAgain, RecordReadBack, HoldEnds, OrphanStop, OrphanUsage,
     Provider, ProviderAccept, ProviderRefuse, ProviderRun, ProviderFinish, ProviderForget,
     CallBecomes, DropProvider, Tick
<1> QED
  BY <1>1, <1>2, <1>3 DEF Next, Start, Check, Procs

\* A step of a process sets that process's part of the state and no other's.
LEMMA BecomeAt ==
    ASSUME proc \in [Procs -> States], NEW p \in Procs, NEW pc, NEW gen, NEW plan,
           Become(p, pc, gen, plan)
    PROVE  /\ proc'[p].pc = pc /\ proc'[p].gen = gen /\ proc'[p].plan = plan
           /\ \A q \in Procs \ {p} : proc'[q] = proc[q]
BY DEF Become, ProcState

\* A check changes no other process.
LEMMA CheckMoves ==
    ASSUME TypeOK, NEW p \in Procs, Check(p) \/ CheckRead(p) \/ CancelRead(p)
    PROVE  \A q \in Procs \ {p} : proc'[q] = proc[q]
<1>0. proc \in [Procs -> States]
  BY DEF TypeOK, States
<1>1. CASE GetCall(p)
  BY <1>0, <1>1, BecomeAt DEF GetCall, LostNext, AnswerNext, CommitNext, Goto, End
<1>2. CASE StopCall(p)
  BY <1>0, <1>2, BecomeAt DEF StopCall, LostNext, AnswerNext, UnstoppedNext, CommitNext, End
<1>3. CASE Relabel(p)
  BY <1>0, <1>3, BecomeAt DEF Relabel
<1>4. CASE CommitApplied(p) \/ CommitChanged(p) \/ CommitRefused(p) \/ Abort(p)
  BY <1>0, <1>4, BecomeAt DEF CommitApplied, CommitChanged, CommitRefused, Abort, CommitNext, End
<1>5. CASE CheckRead(p) \/ CancelRead(p)
  BY <1>0, <1>5, BecomeAt DEF CheckRead, CancelRead, ObserveNext, Begin
<1> QED
  BY <1>1, <1>2, <1>3, <1>4, <1>5 DEF Check

\* A step of the submit leaves every check alone.
LEMMA StartMoves ==
    ASSUME TypeOK, Start
    PROVE  \A q \in Procs \ {Starter} : proc'[q] = proc[q]
<1>0. proc \in [Procs -> States] /\ Starter \in Procs
  BY DEF TypeOK, States, Procs
<1>1. \E pc, gen, plan : Become(Starter, pc, gen, plan)
  <2>1. CASE SubmitInsert \/ SubmitCommit \/ StartRefused \/ StartFresh \/ StartSend \/ StartNotSent
    BY <2>1 DEF SubmitInsert, SubmitCommit, StartRefused, StartFresh, StartSend, StartNotSent,
       Begin, Goto, CommitNext
  <2>2. CASE StartFails \/ StartNamed \/ RecordUnanswered \/ RecordAgain
    BY <2>2 DEF StartFails, StartNamed, RecordUnanswered, RecordAgain, Goto, CommitNext
  <2>3. CASE RecordAnswered \/ RecordReadBack \/ HoldEnds
    BY <2>3 DEF RecordAnswered, RecordReadBack, HoldEnds, RecordedNext, StartedNext, ObserveNext,
       Begin, Goto, End
  <2>4. CASE OrphanStop \/ OrphanUsage
    BY <2>4 DEF OrphanStop, OrphanUsage, OrphanAnswered, End
  <2> QED
    BY <2>1, <2>2, <2>3, <2>4 DEF Start
<1> QED
  BY <1>0, <1>1, BecomeAt

\* The Starter never goes back to before its send, and never runs again once it ended.
LEMMA StarterMoves ==
    ASSUME TypeOK, Next
    PROVE  /\ proc'[Starter].pc \in {"intent", "admit", "age", "send"} =>
                 proc[Starter].pc \in {"intent", "admit", "age", "send"} /\ ~StartSend
           /\ proc'[Starter].pc \in {"intent", "admit"} =>
                 (proc'[Starter] = proc[Starter] /\ ~SubmitCommit) \/ SubmitInsert
           /\ proc[Starter].pc = "idle" => proc'[Starter].pc = "idle"
<1>0. proc \in [Procs -> States] /\ Starter \in Procs
  BY DEF TypeOK, States, Procs
<1> DEFINE Early == {"intent", "admit", "age", "send"}
           Moved == proc[Starter].pc # "idle" /\ proc'[Starter].pc \notin Early
<1>1. CASE SubmitInsert
  <2>1. proc[Starter].pc = "intent" /\ proc'[Starter].pc = "admit" /\ ~StartSend
    BY <1>0, <1>1, BecomeAt DEF SubmitInsert, Begin, StartSend
  <2> QED
    BY <1>1, <2>1
<1>2. CASE SubmitCommit
  <2>1. proc[Starter].pc = "admit" /\ proc'[Starter].pc = "age" /\ ~StartSend
    BY <1>0, <1>2, BecomeAt DEF SubmitCommit, Goto, StartSend
  <2> QED
    BY <2>1
<1>3. CASE StartFresh
  <2>1. proc[Starter].pc = "age" /\ proc'[Starter].pc = "send" /\ ~StartSend
    BY <1>0, <1>3, BecomeAt DEF StartFresh, Goto, StartSend
  <2> QED
    BY <2>1
<1>4. ASSUME NEW pc \in {"idle", "get", "stop", "label", "commit", "accept", "write", "pause",
                         "rewrite", "readback", "hold", "orphan", "orphanUsage"},
             NEW gen, NEW plan,
             proc[Starter].pc # "idle", Become(Starter, pc, gen, plan)
      PROVE  Moved
  BY <1>0, <1>4, BecomeAt
<1>5. CASE StartRefused \/ StartNotSent \/ StartFails
  BY <1>4, <1>5 DEF StartRefused, StartNotSent, StartFails, CommitNext
<1>6. CASE StartSend \/ StartNamed \/ RecordUnanswered \/ RecordAgain
  BY <1>4, <1>6 DEF StartSend, StartNamed, RecordUnanswered, RecordAgain, Goto
<1>7. ASSUME NEW gen, StartedNext(gen) \/ RecordedNext(gen), proc[Starter].pc # "idle" PROVE Moved
  BY <1>4, <1>7 DEF RecordedNext, StartedNext, ObserveNext, Begin, End
<1>8. CASE RecordAnswered \/ RecordReadBack \/ HoldEnds
  BY <1>4, <1>7, <1>8 DEF RecordAnswered, RecordReadBack, HoldEnds, Goto
<1>9. CASE OrphanStop \/ OrphanUsage
  BY <1>4, <1>9 DEF OrphanStop, OrphanUsage, OrphanAnswered, End
<1>10. ASSUME Check(Starter) PROVE Moved
  <2>1. proc[Starter].pc # "idle"
    BY <1>10 DEF Check, GetCall, StopCall, Relabel, CommitApplied, CommitChanged, CommitRefused,
       Abort
  <2>2. \E pc \in {"idle", "stop", "label", "commit"} : \E gen, plan : Become(Starter, pc, gen, plan)
    <3>1. CASE GetCall(Starter)
      BY <3>1 DEF GetCall, LostNext, AnswerNext, CommitNext, Goto, End
    <3>2. CASE StopCall(Starter)
      BY <3>2 DEF StopCall, LostNext, AnswerNext, UnstoppedNext, CommitNext, End
    <3>3. CASE Relabel(Starter)
      BY <3>3 DEF Relabel
    <3>4. CASE \/ CommitApplied(Starter) \/ CommitChanged(Starter) \/ CommitRefused(Starter)
               \/ Abort(Starter)
      BY <3>4 DEF CommitApplied, CommitChanged, CommitRefused, Abort, CommitNext, End
    <3> QED
      BY <1>10, <3>1, <3>2, <3>3, <3>4 DEF Check
  <2> QED
    BY <1>4, <2>1, <2>2
<1>11. ASSUME NEW p \in Checks, Check(p) \/ CheckRead(p) \/ CancelRead(p)
       PROVE  proc'[Starter] = proc[Starter] /\ ~SubmitCommit /\ ~StartSend
  <2>1. proc'[Starter] = proc[Starter]
    BY <1>11, CheckMoves, ProcsAssumption DEF Procs
  <2>2. SubmitCommit \/ StartSend => proc'[Starter].pc # proc[Starter].pc
    BY <1>0, BecomeAt DEF SubmitCommit, StartSend, Goto
  <2> QED
    BY <2>1, <2>2
<1>12. CASE LateWriteLands \/ Provider \/ DropProvider \/ Tick
  <2>1. proc' = proc
    BY <1>12 DEF LateWriteLands, Provider, ProviderAccept, ProviderRefuse, ProviderRun,
       ProviderFinish, ProviderForget, CallBecomes, DropProvider, Tick
  <2>2. SubmitCommit \/ StartSend => proc'[Starter].pc # proc[Starter].pc
    BY <1>0, BecomeAt DEF SubmitCommit, StartSend, Goto
  <2> QED
    BY <2>1, <2>2
<1> QED
  BY <1>1, <1>2, <1>3, <1>5, <1>6, <1>8, <1>9, <1>10, <1>11, <1>12 DEF Next, Start, Procs

\* Before its row is recorded, the Starter submits or ends.
LEMMA EarlyMoves ==
    ASSUME TypeOK, Next, proc[Starter].pc \in {"intent", "admit"}, ~SubmitCommit
    PROVE  proc'[Starter].pc \in {"intent", "admit", "idle"}
<1>0. proc \in [Procs -> States] /\ Starter \in Procs
  BY DEF TypeOK, States, Procs
<1>1. CASE SubmitInsert
  BY <1>0, <1>1, BecomeAt DEF SubmitInsert, Begin
<1>2. CASE Abort(Starter)
  BY <1>0, <1>2, BecomeAt DEF Abort, End
<1>3. ~ (Start /\ ~SubmitInsert)
  BY DEF Start, SubmitCommit, StartRefused, StartFresh, StartSend, StartNotSent, StartFails,
     StartNamed, RecordAnswered, RecordUnanswered, RecordAgain, RecordReadBack, HoldEnds,
     OrphanStop, OrphanUsage
<1>4. ~ (Check(Starter) /\ ~Abort(Starter))
  BY DEF Check, GetCall, StopCall, Relabel, CommitApplied, CommitChanged, CommitRefused
<1>5. ASSUME NEW p \in Checks, Check(p) \/ CheckRead(p) \/ CancelRead(p)
      PROVE  proc'[Starter] = proc[Starter]
  BY <1>5, CheckMoves, ProcsAssumption DEF Procs
<1>6. CASE LateWriteLands \/ Provider \/ DropProvider \/ Tick
  <2>1. proc' = proc
    BY <1>6 DEF LateWriteLands, Provider, ProviderAccept, ProviderRefuse, ProviderRun,
       ProviderFinish, ProviderForget, CallBecomes, DropProvider, Tick
  <2> QED
    BY <2>1
<1> QED
  BY <1>1, <1>2, <1>3, <1>4, <1>5, <1>6 DEF Next, Procs

-----------------------------------------------------------------------------
(***************************************************************************)
(* The parts of the inductive invariant that are about the row.            *)
(***************************************************************************)
\* The row comes to be by the submit's commit alone, and no check removes it.
LEMMA RecordedOnceStep ==
    ASSUME TypeOK, RecordedOnce, Next,
           \A p \in Procs : proc[p].pc = "commit" => proc[p].plan.status \in Settled
    PROVE  /\ RecordedOnce'
           /\ row.status # "absent" => row'.status # "absent"
           /\ row.status = "absent" => row' = row \/ SubmitCommit
<1>0. row \in Rows /\ now \in Nat /\ proc \in [Procs -> States] /\ Starter \in Procs
  BY DEF TypeOK, States, Procs
<1>1. /\ row.status # "absent" => row'.status # "absent"
      /\ row.status = "absent" => row' = row \/ SubmitCommit
  <2>1. CASE row' = row
    BY <2>1
  <2>2. CASE SubmitCommit
    BY <2>2, PendingFields DEF SubmitCommit
  <2>3. CASE RecordMatches(row) /\ row' = RecordProviderCall(row)
    BY <1>0, <2>3, RecordFields DEF RecordMatches
  <2>4. ASSUME NEW p \in Procs, CommitApplied(p)
        PROVE  row.status # "absent" /\ row'.status # "absent"
    BY <1>0, <2>4, SettleFields DEF CommitApplied, SettleMatches, Settled, Live
  <2>5. ASSUME NEW p \in Checks, CancelRead(p)
        PROVE  row.status # "absent" /\ row'.status # "absent"
    BY <1>0, <2>5, CancelFields DEF CancelRead, CancelMatches, Live
  <2> QED
    BY <2>1, <2>2, <2>3, <2>4, <2>5, RowMoves
<1>2. ~SubmitCommit /\ row.status = "absent" => row' = row
  BY <1>1
<1>3. row'.status = "absent" => row' = AbsentRow
  <2>1. SubmitCommit => row'.status # "absent"
    BY PendingFields DEF SubmitCommit
  <2> QED
    BY <1>1, <2>1 DEF RecordedOnce
<1>4. ASSUME proc'[Starter].pc \in {"intent", "admit"}
      PROVE  /\ row'.status = "absent"
             /\ proc'[Starter].pc = "admit" => proc'[Starter].gen.startRequestedAt # None
  <2>1. CASE proc'[Starter] = proc[Starter] /\ ~SubmitCommit
    BY <1>2, <1>4, <2>1 DEF RecordedOnce
  <2>2. CASE SubmitInsert
    <3>1. row' = row /\ proc[Starter].pc = "intent"
      BY <2>2 DEF SubmitInsert
    <3>2. PICK streamed : Begin(Starter, "admit", ReadOf(PendingRow(now, streamed), now))
      BY <2>2 DEF SubmitInsert
    <3>3. proc'[Starter].gen = ReadOf(PendingRow(now, streamed), now)
      BY <1>0, <3>2, BecomeAt DEF Begin
    <3>4. proc'[Starter].gen.startRequestedAt = now
      BY <3>3, PendingFields DEF ReadOf
    <3> QED
      BY <1>0, <3>1, <3>4, NotNull DEF RecordedOnce
  <2> QED
    BY <1>4, <2>1, <2>2, StarterMoves
<1> QED
  BY <1>1, <1>3, <1>4 DEF RecordedOnce

\* No statement breaks a constraint of the table.
LEMMA SchemaStep ==
    ASSUME TypeOK, SchemaHolds, ErrorMeansSettled, Next,
           \A p \in Procs : proc[p].pc = "commit" =>
              /\ proc[p].plan.status \in Settled
              /\ proc[p].plan.failure # None => proc[p].plan.status = "failed"
    PROVE  SchemaHolds' /\ ErrorMeansSettled'
<1>0. row \in Rows /\ now \in Nat
  BY DEF TypeOK
<1>1. CASE row' = row
  BY <1>1 DEF SchemaHolds, RowConstraints, CallMatchesStatus, TerminalFields, OutcomeUnknownFailed,
     FailureFailed, ErrorMeansSettled
<1>2. CASE SubmitCommit
  BY <1>2, PendingFields DEF SubmitCommit, SchemaHolds, RowConstraints, CallMatchesStatus,
     TerminalFields, OutcomeUnknownFailed, FailureFailed, ErrorMeansSettled, Settled
<1>3. CASE RecordMatches(row) /\ row' = RecordProviderCall(row)
  BY <1>0, <1>3, RecordFields, NotNull DEF RecordMatches, SchemaHolds, RowConstraints,
     CallMatchesStatus, TerminalFields, OutcomeUnknownFailed, FailureFailed, ErrorMeansSettled,
     Settled
<1>4. ASSUME NEW p \in Procs, CommitApplied(p)
      PROVE  SchemaHolds' /\ ErrorMeansSettled'
  <2> DEFINE plan == proc[p].plan
  <2>1. /\ plan.status \in Settled
        /\ plan.failure # None => plan.status = "failed"
        /\ row' = Settle(row, plan, now)
    BY <1>4 DEF CommitApplied
  <2> HIDE DEF plan
  <2>2. now # None /\ now + Retention # None /\ "outcome_unknown" # None
    BY <1>0, NotNull DEF Failures
  <2> QED
    BY <1>0, <2>1, <2>2, SettleFields DEF SchemaHolds, RowConstraints, CallMatchesStatus,
       TerminalFields, OutcomeUnknownFailed, FailureFailed, ErrorMeansSettled, Settled, Live
<1>5. ASSUME NEW p \in Checks, CancelRead(p)
      PROVE  SchemaHolds' /\ ErrorMeansSettled'
  <2>1. row' = RequestCancel(row, now) /\ row.status \in Live
    BY <1>5 DEF CancelRead, CancelMatches
  <2>2. now # None /\ now + Retention # None
    BY <1>0, NotNull
  <2> QED
    BY <1>0, <2>1, <2>2, CancelFields DEF SchemaHolds, RowConstraints, CallMatchesStatus,
       TerminalFields, OutcomeUnknownFailed, FailureFailed, ErrorMeansSettled, Settled, Live
<1> QED
  BY <1>1, <1>2, <1>3, <1>4, <1>5, RowMoves

\* Nothing is sent before the start is found fresh, nor ever for a row without an intent.
LEMMA NoIntentStep ==
    ASSUME TypeOK, RecordedOnce, FinishedHasAnswer, UnsentBeforeSend, NoIntentNoCall, Next,
           \A p \in Procs : proc[p].pc = "commit" => proc[p].plan.status \in Settled
    PROVE  UnsentBeforeSend' /\ NoIntentNoCall'
<1>0. row \in Rows /\ now \in Nat
  BY DEF TypeOK
<1>1. UnsentBeforeSend'
  BY StarterMoves, CallMoves DEF UnsentBeforeSend
<1>2. NoIntentNoCall'
  <2> SUFFICES ASSUME row'.startRequestedAt = None
               PROVE  /\ call'.state = "unsent"
                      /\ row'.providerCallId = None
                      /\ proc'[Starter].pc \in
                           IF row'.status = "absent" THEN {"intent", "admit", "idle"} ELSE {"idle"}
    BY DEF NoIntentNoCall
  <2>1. /\ ~SubmitCommit
        /\ row.startRequestedAt = None
        /\ row'.providerCallId = row.providerCallId
    <3>1. CASE SubmitCommit
      BY <3>1, PendingFields DEF SubmitCommit, RecordedOnce
    <3>2. CASE RecordMatches(row) /\ row' = RecordProviderCall(row)
      BY <1>0, <3>2, RecordFields DEF RecordMatches
    <3>3. ASSUME NEW p \in Procs, CommitApplied(p)
          PROVE  /\ row'.startRequestedAt = row.startRequestedAt
                 /\ row'.providerCallId = row.providerCallId
      BY <1>0, <3>3, SettleFields DEF CommitApplied
    <3>4. ASSUME NEW p \in Checks, CancelRead(p)
          PROVE  /\ row'.startRequestedAt = row.startRequestedAt
                 /\ row'.providerCallId = row.providerCallId
      BY <1>0, <3>4, CancelFields DEF CancelRead
    <3> QED
      BY <3>1, <3>2, <3>3, <3>4, RowMoves
  <2>2. /\ call.state = "unsent"
        /\ row.providerCallId = None
        /\ proc[Starter].pc \in
              IF row.status = "absent" THEN {"intent", "admit", "idle"} ELSE {"idle"}
    BY <2>1 DEF NoIntentNoCall
  <2>3. ~StartSend
    BY <2>2 DEF StartSend
  <2>4. call'.state = "unsent"
    BY <2>2, <2>3, CallMoves
  <2>5. CASE proc[Starter].pc = "idle"
    BY <2>1, <2>2, <2>4, <2>5, StarterMoves
  <2>6. CASE row.status = "absent" /\ proc[Starter].pc \in {"intent", "admit"}
    <3>1. row' = row
      BY <2>1, <2>6, RecordedOnceStep
    <3>2. proc'[Starter].pc \in {"intent", "admit", "idle"}
      BY <2>1, <2>6, EarlyMoves
    <3> QED
      BY <2>1, <2>2, <2>4, <2>6, <3>1, <3>2
  <2> QED
    BY <2>2, <2>5, <2>6
<1> QED
  BY <1>1, <1>2

\* A settlement that leaves the call out frees the owner's slot only with the start over.
LEMMA UnseenStep ==
    ASSUME TypeOK, RecordedOnce, FinishedHasAnswer, UnsentBeforeSend, NoIntentNoCall,
           NothingWillRunUnseen, Next,
           \A p \in Procs : proc[p].pc = "commit" => PlanSound(p)
    PROVE  NothingWillRunUnseen'
<1>0. row \in Rows /\ now \in Nat /\ proc \in [Procs -> States] /\ Starter \in Procs
  BY DEF TypeOK, States, Procs
<1> SUFFICES ASSUME row'.status \in Settled, row'.providerCallId = None,
                    row'.failure # "outcome_unknown"
             PROVE  call'.state \in {"unsent", "refused"} /\ proc'[Starter].pc = "idle"
  BY DEF NothingWillRunUnseen
<1>1. ASSUME call.state \in {"unsent", "refused"}, proc[Starter].pc = "idle"
      PROVE  call'.state \in {"unsent", "refused"} /\ proc'[Starter].pc = "idle"
  <2>1. ~StartSend
    BY <1>1 DEF StartSend
  <2> QED
    BY <1>1, <2>1, CallMoves, StarterMoves
<1>2. CASE row' = row
  BY <1>1, <1>2 DEF NothingWillRunUnseen
<1>3. CASE SubmitCommit
  BY <1>3, PendingFields DEF SubmitCommit, Settled
<1>4. CASE RecordMatches(row) /\ row' = RecordProviderCall(row)
  BY <1>0, <1>4, RecordFields DEF Settled
<1>5. ASSUME row.startRequestedAt = None, row.status \in Live
      PROVE  call.state = "unsent" /\ proc[Starter].pc = "idle"
  BY <1>5 DEF NoIntentNoCall, Live
<1>6. ASSUME NEW p \in Procs, CommitApplied(p)
      PROVE  call'.state \in {"unsent", "refused"} /\ proc'[Starter].pc = "idle"
  <2>1. /\ row.status \in Live
        /\ row.providerCallId = proc[p].gen.providerCallId
        /\ row.startRequestedAt = proc[p].gen.startRequestedAt
        /\ row' = Settle(row, proc[p].plan, now)
        /\ proc[p].pc = "commit"
        /\ call' = call
    BY <1>6 DEF CommitApplied, SettleMatches
  <2>2. proc[p].plan.failure # "outcome_unknown" /\ proc[p].gen.providerCallId = None
    BY <1>0, <2>1, SettleFields
  <2>3. \/ row.startRequestedAt = None
        \/ p = Starter /\ call.state \in {"unsent", "refused"}
    BY <2>1, <2>2 DEF PlanSound
  <2>4. CASE row.startRequestedAt = None
    BY <1>1, <1>5, <2>1, <2>4
  <2>5. CASE p = Starter /\ call.state \in {"unsent", "refused"}
    <3>1. proc'[Starter].pc = "idle"
      BY <1>0, <1>6, <2>5, BecomeAt DEF CommitApplied, End
    <3> QED
      BY <2>1, <2>5, <3>1
  <2> QED
    BY <2>3, <2>4, <2>5
<1>7. ASSUME NEW p \in Checks, CancelRead(p)
      PROVE  call'.state \in {"unsent", "refused"} /\ proc'[Starter].pc = "idle"
  <2>1. row.status \in Live /\ row' = RequestCancel(row, now)
    BY <1>7 DEF CancelRead, CancelMatches
  <2>2. row.startRequestedAt = None
    BY <1>0, <2>1, CancelFields DEF Live, Settled
  <2> QED
    BY <1>1, <1>5, <2>1, <2>2
<1> QED
  BY <1>2, <1>3, <1>4, <1>6, <1>7, RowMoves

\* A plan about to be committed, with the answer its check holds.
LEMMA CommitFacts ==
    ASSUME TypeOK, NEW p \in Procs, CommitApplied(p), ProcSound(p)
    PROVE  /\ row.status \in Live
           /\ row'.status = proc[p].plan.status /\ row'.error = proc[p].plan.error
           /\ row'.providerCallId = proc[p].gen.providerCallId
           /\ row'.cancelRequestedAt = row.cancelRequestedAt
           /\ call' = call
           /\ attempt' = IF proc[p].plan.response = None THEN attempt ELSE proc[p].plan.response
           /\ usage' = (usage \/ proc[p].plan.usage = "counted")
           /\ PlanSound(p) /\ AnswerInHand(p)
           /\ proc[p].gen.cancelRequestedAt # None => row.cancelRequestedAt # None
<1>1. row \in Rows
  BY DEF TypeOK
<1>2. /\ row.status \in Live
      /\ row.providerCallId = proc[p].gen.providerCallId
      /\ row' = Settle(row, proc[p].plan, now)
  BY DEF CommitApplied, SettleMatches
<1> QED
  BY <1>1, <1>2, SettleFields DEF CommitApplied, ProcSound

\* What a settlement tells of the call stays true: a finished call no longer changes.
LEMMA OutcomeStep ==
    ASSUME TypeOK, FinishedHasAnswer, UnsentBeforeSend, NoIntentNoCall, ErrorMeansSettled,
           OutcomeTold, Next,
           \A p \in Procs : ProcSound(p)
    PROVE  OutcomeTold'
<1>0. row \in Rows /\ now \in Nat
  BY DEF TypeOK
<1>1. CASE row' = row
  <2>1. \A s \in CallTerminal : call.state = s => call'.state = s
    BY CallMoves
  <2> QED
    BY <1>1, <2>1 DEF OutcomeTold, CallTerminal
<1>2. CASE SubmitCommit
  <2>1. row'.status = "pending" /\ row'.error = None
    BY <1>2, PendingFields DEF SubmitCommit
  <2>2. None # "failureCallFailed"
    BY NoneAssumption DEF Errors
  <2> QED
    BY <2>1, <2>2 DEF OutcomeTold
<1>3. CASE RecordMatches(row) /\ row' = RecordProviderCall(row)
  <2>1. row'.status = "running" /\ row'.error = row.error /\ row.status = "pending"
    BY <1>0, <1>3, RecordFields DEF RecordMatches
  <2>2. row.error = None
    BY <2>1 DEF ErrorMeansSettled, Settled
  <2>3. None # "failureCallFailed"
    BY NoneAssumption DEF Errors
  <2> QED
    BY <2>1, <2>2, <2>3 DEF OutcomeTold
<1>4. ASSUME NEW p \in Procs, CommitApplied(p)
      PROVE  OutcomeTold'
  <2> DEFINE plan == proc[p].plan
             gen  == proc[p].gen
  <2>1. /\ row'.status = plan.status /\ row'.error = plan.error
        /\ row'.providerCallId = gen.providerCallId
        /\ row'.cancelRequestedAt = row.cancelRequestedAt
        /\ call' = call
        /\ gen.cancelRequestedAt # None => row.cancelRequestedAt # None
    BY <1>4, CommitFacts
  <2>2. /\ plan.status = "succeeded" => plan.response = "succeeded"
        /\ plan.error = "failureCallFailed" => plan.response = "failed"
        /\ plan.status = "cancelled" =>
              /\ gen.cancelRequestedAt # None
              /\ gen.providerCallId # None => plan.response = "cancelled"
    BY <1>4, CommitFacts DEF PlanSound
  <2>3. plan.response \in CallTerminal => call.state = plan.response
    BY <1>4, CommitFacts DEF AnswerInHand
  <2> HIDE DEF plan, gen
  <2> QED
    BY <2>1, <2>2, <2>3 DEF OutcomeTold, CallTerminal
<1>5. ASSUME NEW p \in Checks, CancelRead(p)
      PROVE  OutcomeTold'
  <2>1. row.status \in Live /\ row' = RequestCancel(row, now)
    BY <1>5 DEF CancelRead, CancelMatches
  <2>2. row.error = None /\ None # "failureCallFailed"
    BY <2>1, NoneAssumption DEF ErrorMeansSettled, Settled, Live, Errors
  <2> QED
    BY <1>0, <2>1, <2>2, CancelFields DEF OutcomeTold, NoIntentNoCall, Live
<1> QED
  BY <1>1, <1>2, <1>3, <1>4, <1>5, RowMoves

\* Usage is counted from the call's own answer, by a settlement or by the stop of an orphan.
LEMMA UsageMoves ==
    ASSUME TypeOK, Next, \A p \in Procs : AnswerInHand(p)
    PROVE  /\ usage => usage'
           /\ usage' => usage \/ call.answer = "counted"
<1>1. CASE OrphanUsage
  <2>1. Starter \in Procs
    BY DEF Procs
  <2> QED
    BY <1>1, <2>1 DEF OrphanUsage, AnswerInHand
<1>2. ASSUME NEW p \in Procs, CommitApplied(p)
      PROVE  (usage => usage') /\ (usage' => usage \/ call.answer = "counted")
  BY <1>2 DEF CommitApplied, AnswerInHand
<1>3. ASSUME NEW p \in Procs,
             \/ GetCall(p) \/ StopCall(p) \/ Relabel(p) \/ CommitChanged(p)
             \/ CommitRefused(p) \/ Abort(p) \/ CheckRead(p) \/ CancelRead(p)
      PROVE  usage' = usage
  BY <1>3 DEF GetCall, StopCall, Relabel, CommitChanged, CommitRefused, Abort, CheckRead,
     CancelRead
<1>4. CASE \/ SubmitInsert \/ SubmitCommit \/ StartRefused \/ StartFresh \/ StartSend
           \/ StartNotSent \/ StartFails \/ StartNamed \/ RecordAnswered \/ RecordUnanswered
           \/ RecordAgain \/ RecordReadBack \/ HoldEnds \/ OrphanStop \/ LateWriteLands
           \/ Provider \/ DropProvider \/ Tick
  <2>1. usage' = usage
    BY <1>4 DEF SubmitInsert, SubmitCommit, StartRefused, StartFresh, StartSend, StartNotSent,
       StartFails, StartNamed, RecordAnswered, RecordUnanswered, RecordAgain, RecordReadBack,
       HoldEnds, OrphanStop, LateWriteLands, Provider, ProviderAccept, ProviderRefuse, ProviderRun,
       ProviderFinish, ProviderForget, CallBecomes, DropProvider, Tick
  <2> QED
    BY <2>1
<1> QED
  BY <1>1, <1>2, <1>3, <1>4 DEF Next, Start, Check, Procs

\* The settlement, the attempt and the usage stay together.
LEMMA AnswerKeptStep ==
    ASSUME TypeOK, FinishedHasAnswer, UnsentBeforeSend, NoIntentNoCall, RecordedOnce,
           ErrorMeansSettled, OutcomeTold, AnswerKept, Next,
           \A p \in Procs : ProcSound(p)
    PROVE  AnswerKept'
<1>0. row \in Rows /\ now \in Nat /\ call \in Calls
      /\ attempt \in CallTerminal \cup {"rejection", None}
  BY DEF TypeOK
<1> DEFINE OnAnswer(r) ==
             /\ r.providerCallId # None
             /\ \/ r.status \in {"succeeded", "cancelled"}
                \/ r.error \in {"failureCallFailed", "failureOverdue"}
           Counted == attempt' = call'.state /\ (call'.answer = "counted" => usage')
<1>1. /\ \A p \in Procs : AnswerInHand(p)
      /\ usage => usage'
      /\ usage' => usage \/ call.answer = "counted"
  <2>1. \A p \in Procs : AnswerInHand(p)
    BY DEF ProcSound
  <2> QED
    BY <2>1, UsageMoves
<1>2. usage' => call'.answer = "counted"
  <2>1. usage' => call.answer = "counted"
    BY <1>1 DEF AnswerKept
  <2>2. call.answer = "counted" => call.state \in CallTerminal
    BY ProcsAssumption DEF FinishedHasAnswer
  <2> QED
    BY <2>1, <2>2, CallMoves
<1>4. None \notin {"failureCallFailed", "failureOverdue"}
  BY NoneAssumption DEF Errors
<1>5. ASSUME row.status \in Live \/ row.status = "absent" PROVE attempt = None /\ row.error = None
  BY <1>5 DEF AnswerKept, ErrorMeansSettled, Live, Settled
<1>6. CASE row' = row /\ attempt' = attempt
  <2>1. attempt' # None => row'.status \in Settled
    BY <1>6 DEF AnswerKept
  <2>2. ASSUME OnAnswer(row') PROVE Counted
    <3>1. attempt = call.state /\ (call.answer = "counted" => usage)
      BY <1>6, <2>2 DEF AnswerKept
    <3>2. call.state \in CallTerminal
      <4>1. call.state \in CallStates
        BY <1>0 DEF Calls
      <4>2. None \notin CallStates /\ "rejection" \notin CallStates
        BY <1>0, NotNull DEF CallStates, Unaccepted, CallLive, CallTerminal
      <4> QED
        BY <1>0, <3>1, <4>1, <4>2
    <3>3. call'.state = call.state /\ call'.answer = call.answer
      BY <3>2, CallMoves
    <3> QED
      BY <1>1, <1>6, <3>1, <3>3
  <2> QED
    BY <1>2, <2>1, <2>2 DEF AnswerKept
<1>7. CASE SubmitCommit
  <2>1. row'.status = "pending" /\ row'.error = None /\ attempt' = attempt
    BY <1>7, PendingFields DEF SubmitCommit
  <2>2. row.status = "absent"
    BY <1>7 DEF SubmitCommit, RecordedOnce
  <2> QED
    BY <1>2, <1>4, <1>5, <2>1, <2>2 DEF AnswerKept
<1>8. CASE RecordMatches(row) /\ row' = RecordProviderCall(row) /\ attempt' = attempt
  <2>1. row.status \in Live /\ row'.status = "running" /\ row'.error = row.error
    BY <1>0, <1>8, RecordFields DEF RecordMatches, Live
  <2> QED
    BY <1>2, <1>4, <1>5, <1>8, <2>1 DEF AnswerKept
<1>9. ASSUME NEW p \in Procs, CommitApplied(p)
      PROVE  AnswerKept'
  <2> DEFINE plan == proc[p].plan
             gen  == proc[p].gen
  <2>1. /\ row'.status = plan.status /\ row'.error = plan.error
        /\ row'.providerCallId = gen.providerCallId
        /\ call' = call
        /\ attempt' = IF plan.response = None THEN attempt ELSE plan.response
        /\ usage' = (usage \/ plan.usage = "counted")
    BY <1>9, CommitFacts
  <2>2. /\ plan.status \in Settled
        /\ plan.status = "succeeded" => plan.response = "succeeded"
        /\ plan.error = "failureCallFailed" => plan.response = "failed"
        /\ plan.error = "failureOverdue" => plan.response = "cancelled"
        /\ plan.status = "cancelled" => (gen.providerCallId # None => plan.response = "cancelled")
    BY <1>9, CommitFacts DEF PlanSound
  <2>3. plan.response \in CallTerminal => call.state = plan.response /\ call.answer = plan.usage
    BY <1>9, CommitFacts DEF AnswerInHand
  <2>4. None \notin CallTerminal
    BY ProcsAssumption DEF CallTerminal
  <2> HIDE DEF plan, gen
  <2>5. ASSUME OnAnswer(row') PROVE Counted
    <3>1. plan.response \in CallTerminal
      BY <2>1, <2>2, <2>5 DEF CallTerminal
    <3> QED
      BY <2>1, <2>3, <2>4, <3>1
  <2> QED
    BY <1>2, <2>1, <2>2, <2>5 DEF AnswerKept
<1>10. ASSUME NEW p \in Checks, CancelRead(p)
       PROVE  AnswerKept'
  <2>1. row.status \in Live /\ row' = RequestCancel(row, now) /\ attempt' = attempt
    BY <1>10 DEF CancelRead, CancelMatches
  <2>2. attempt = None /\ row.error = None
    BY <1>5, <2>1
  <2>3. ~OnAnswer(row')
    BY <1>0, <1>4, <2>1, <2>2, CancelFields DEF NoIntentNoCall, Live
  <2> QED
    BY <1>2, <2>1, <2>2, <2>3 DEF AnswerKept
<1> QED
  BY <1>6, <1>7, <1>8, <1>9, <1>10, RowMoves

-----------------------------------------------------------------------------
(***************************************************************************)
(* What each process knows.                                                *)
(***************************************************************************)
\* A read shows the row as it stood.
LEMMA ReadFields ==
    ASSUME NEW r, NEW at
    PROVE  /\ ReadOf(r, at).providerCallId = r.providerCallId
           /\ ReadOf(r, at).startRequestedAt = r.startRequestedAt
           /\ ReadOf(r, at).cancelRequestedAt = r.cancelRequestedAt
BY DEF ReadOf

\* A cancel request, once made, stays.
LEMMA CancelStays ==
    ASSUME TypeOK, RecordedOnce, Next, row.cancelRequestedAt # None
    PROVE  row'.cancelRequestedAt # None
<1>0. row \in Rows /\ now \in Nat
  BY DEF TypeOK
<1>1. ~SubmitCommit
  BY AbsentFields DEF SubmitCommit, RecordedOnce
<1>2. CASE RecordMatches(row) /\ row' = RecordProviderCall(row)
  BY <1>0, <1>2, RecordFields
<1>3. ASSUME NEW p \in Procs, CommitApplied(p) PROVE row'.cancelRequestedAt # None
  BY <1>0, <1>3, SettleFields DEF CommitApplied
<1>4. ASSUME NEW p \in Checks, CancelRead(p) PROVE row'.cancelRequestedAt # None
  BY <1>0, <1>4, CancelFields DEF CancelRead
<1> QED
  BY <1>1, <1>2, <1>3, <1>4, RowMoves

\* An answer in hand is still the call's answer after any step.
LEMMA AnswerStays ==
    ASSUME TypeOK, FinishedHasAnswer, UnsentBeforeSend, Next, NEW p \in Procs, AnswerInHand(p)
    PROVE  LET plan == proc[p].plan
           IN  /\ plan.response \in CallTerminal =>
                     call'.state = plan.response /\ call'.answer = plan.usage
               /\ plan.usage # "uncounted" => call'.answer = plan.usage
<1> DEFINE plan == proc[p].plan
<1>1. plan.usage # None
  <2>1. plan.usage \in {"counted", "uncounted", "refusedByDatabase"}
    BY DEF TypeOK, Plans
  <2> QED
    BY <2>1, ProcsAssumption
<1>2. /\ plan.response \in CallTerminal => call.state = plan.response /\ call.answer = plan.usage
      /\ plan.usage # "uncounted" => call.answer = plan.usage
  BY DEF AnswerInHand
<1> HIDE DEF plan
<1>3. call.answer # None => call.state \in CallTerminal
  BY DEF FinishedHasAnswer
<1> QED
  BY <1>1, <1>2, <1>3, CallMoves DEF plan

\* A process that takes no step knows what it knew.
LEMMA Bystander ==
    ASSUME TypeOK, RecordedOnce, FinishedHasAnswer, UnsentBeforeSend, Next,
           NEW p \in Procs, ProcSound(p), proc'[p] = proc[p]
    PROVE  ProcSound(p)'
<1>1. proc'[p].gen.cancelRequestedAt # None => row'.cancelRequestedAt # None
  BY CancelStays DEF ProcSound
<1>2. AnswerInHand(p)'
  BY AnswerStays DEF ProcSound, AnswerInHand
<1>3. ASSUME proc[p].pc = "commit" PROVE PlanSound(p)'
  <2>1. PlanSound(p)
    BY <1>3 DEF ProcSound
  <2>2. p = Starter /\ call.state \in {"unsent", "refused"} => call'.state \in {"unsent", "refused"}
    <3>1. p = Starter => ~StartSend
      BY <1>3 DEF StartSend
    <3> QED
      BY <3>1, CallMoves
  <2> QED
    BY <2>1, <2>2 DEF PlanSound
<1> QED
  BY <1>1, <1>2, <1>3 DEF ProcSound

\* A process that ends, or begins with a fresh read, holds no answer.
LEMMA FreshSound ==
    ASSUME proc \in [Procs -> States], NEW p \in Procs, NEW pc, NEW gen, Become(p, pc, gen, NoPlan),
           pc \notin {"label", "commit"},
           pc \in {"get", "stop", "hold"} => gen.providerCallId # None,
           gen.cancelRequestedAt # None => row'.cancelRequestedAt # None
    PROVE  ProcSound(p)'
<1>1. proc'[p].pc = pc /\ proc'[p].gen = gen /\ proc'[p].plan = NoPlan
  BY BecomeAt
<1>2. NoPlan.response = None /\ NoPlan.usage = "uncounted" /\ None \notin CallTerminal
  BY ProcsAssumption DEF NoPlan, CallTerminal
<1> QED
  BY <1>1, <1>2 DEF ProcSound, AnswerInHand

\* A process that ends claims nothing.
LEMMA EndSound ==
    ASSUME proc \in [Procs -> States], NEW p \in Procs, End(p)
    PROVE  ProcSound(p)'
<1>1. NoRead.cancelRequestedAt = None
  BY AbsentFields DEF NoRead, ReadOf
<1> QED
  BY <1>1, FreshSound DEF End

\* A process that goes on with what it holds.
LEMMA GotoSound ==
    ASSUME TypeOK, RecordedOnce, FinishedHasAnswer, UnsentBeforeSend, Next,
           NEW p \in Procs, ProcSound(p), NEW pc, Goto(p, pc),
           pc \notin {"get", "label", "hold", "commit"},
           pc = "stop" => proc[p].gen.providerCallId # None
    PROVE  ProcSound(p)'
<1>0. proc \in [Procs -> States]
  BY DEF TypeOK, States
<1>1. proc'[p].pc = pc /\ proc'[p].gen = proc[p].gen /\ proc'[p].plan = proc[p].plan
  BY <1>0, BecomeAt DEF Goto
<1>2. proc'[p].gen.cancelRequestedAt # None => row'.cancelRequestedAt # None
  BY <1>1, CancelStays DEF ProcSound
<1>3. AnswerInHand(p)'
  BY <1>1, AnswerStays DEF ProcSound, AnswerInHand
<1> QED
  BY <1>1, <1>2, <1>3 DEF ProcSound

\* A failure of the service's own: it tells nothing of a call the row carries, and without one it is
\* outcome_unknown unless nothing was sent.
LEMMA FailureSound ==
    ASSUME proc \in [Procs -> States], NEW p \in Procs, NEW gen,
           NEW error \in Errors \ {"failureCallFailed", "failureOverdue"}, NEW failure \in Failures,
           NEW response \in {"rejection", None},
           Become(p, "commit", gen, FailurePlan(error, failure, response)),
           gen.cancelRequestedAt # None => row'.cancelRequestedAt # None,
           \/ failure = "outcome_unknown"
           \/ gen.providerCallId # None
           \/ gen.startRequestedAt = None
           \/ p = Starter /\ call'.state \in {"unsent", "refused"}
    PROVE  ProcSound(p)'
<1> DEFINE plan == FailurePlan(error, failure, response)
<1>1. proc'[p].pc = "commit" /\ proc'[p].gen = gen /\ proc'[p].plan = plan
  BY BecomeAt
<1>2. /\ plan.status = "failed" /\ plan.error = error /\ plan.failure = failure
      /\ plan.response = response /\ plan.usage = "uncounted"
  BY DEF FailurePlan
<1> HIDE DEF plan
<1>3. response \notin CallTerminal
  BY ProcsAssumption DEF CallTerminal
<1>4. AnswerInHand(p)'
  BY <1>1, <1>2, <1>3 DEF AnswerInHand
<1>5. PlanSound(p)'
  BY <1>1, <1>2 DEF PlanSound, Settled
<1> QED
  BY <1>1, <1>4, <1>5 DEF ProcSound

\* The outcome of a finished call, labelled by a cancel request the row still carries.
LEMMA OutcomeSound ==
    ASSUME proc \in [Procs -> States], NEW p \in Procs, NEW pc \in {"label", "commit"}, NEW gen,
           NEW state \in CallTerminal, NEW answer,
           Become(p, pc, gen, OutcomePlan(gen, state, answer)),
           pc = "label" => state = "cancelled",
           gen.providerCallId # None,
           gen.cancelRequestedAt # None => row'.cancelRequestedAt # None,
           call'.state = state, call'.answer = answer
    PROVE  ProcSound(p)'
<1> DEFINE plan == OutcomePlan(gen, state, answer)
<1>1. proc'[p].pc = pc /\ proc'[p].gen = gen /\ proc'[p].plan = plan
  BY BecomeAt
<1>2. plan.response = state /\ plan.usage = answer
  BY DEF OutcomePlan, CallTerminal
<1>3. /\ plan.status \in Settled
      /\ plan.failure # None => plan.status = "failed"
      /\ plan.status = "succeeded" => state = "succeeded"
      /\ plan.error = "failureCallFailed" => state = "failed"
      /\ plan.error = "failureOverdue" => state = "cancelled"
      /\ plan.status = "cancelled" => gen.cancelRequestedAt # None /\ state = "cancelled"
  <2>1. None \notin {"failureCallFailed", "failureOverdue"}
    BY NoneAssumption DEF Errors
  <2> QED
    BY <2>1 DEF OutcomePlan, CallTerminal, Settled
<1> HIDE DEF plan
<1>4. AnswerInHand(p)'
  BY <1>1, <1>2 DEF AnswerInHand
<1>5. PlanSound(p)'
  BY <1>1, <1>2, <1>3 DEF PlanSound
<1> QED
  BY <1>1, <1>2, <1>4, <1>5 DEF ProcSound

\* The check of a recorded call begins from a read of the row as the step leaves it.
LEMMA ObserveSound ==
    ASSUME proc \in [Procs -> States], NEW p \in Procs, NEW gen, ObserveNext(p, gen),
           gen.providerCallId # None,
           gen.cancelRequestedAt # None => row'.cancelRequestedAt # None
    PROVE  ProcSound(p)'
<1>1. CASE served
  BY <1>1, FreshSound DEF ObserveNext, Begin
<1>2. CASE ~served
  <2>1. /\ "failureProviderUnavailable" \in Errors \ {"failureCallFailed", "failureOverdue"}
        /\ "outcome_unknown" \in Failures
    BY DEF Errors, Failures
  <2> QED
    BY <1>2, <2>1, FailureSound DEF ObserveNext
<1> QED
  BY <1>1, <1>2

\* A start that goes on with a recorded call knows of it.
LEMMA RecordedSound ==
    ASSUME proc \in [Procs -> States], NEW gen, StartedNext(gen) \/ RecordedNext(gen),
           gen.providerCallId # None,
           gen.cancelRequestedAt # None => row'.cancelRequestedAt # None
    PROVE  ProcSound(Starter)'
<1>1. Starter \in Procs
  BY DEF Procs
<1>2. CASE StartedNext(gen)
  BY <1>1, <1>2, EndSound, ObserveSound DEF StartedNext
<1>3. CASE RecordedNext(gen)
  <2>1. Begin(Starter, "hold", gen) => ProcSound(Starter)'
    BY <1>1, FreshSound DEF Begin
  <2> QED
    BY <1>2, <1>3, <2>1 DEF RecordedNext
<1> QED
  BY <1>2, <1>3

\* A check that read an answer plans a settlement that answer bears out.
LEMMA AnswerSound ==
    ASSUME TypeOK, RecordedOnce, Next, NEW p \in Procs, ProcSound(p),
           proc[p].gen.providerCallId # None,
           NEW state \in CallTerminal, NEW answer, NEW stopWanted,
           AnswerNext(p, state, answer, stopWanted),
           call'.state = state, call'.answer = answer
    PROVE  ProcSound(p)'
<1>0. /\ proc \in [Procs -> States]
      /\ proc[p].gen.cancelRequestedAt # None => row'.cancelRequestedAt # None
  BY CancelStays DEF TypeOK, States, ProcSound
<1>1. CASE answer = "oversized"
  <2>1. /\ "failureResponseTooLarge" \in Errors \ {"failureCallFailed", "failureOverdue"}
        /\ "outcome_unknown" \in Failures
    BY DEF Errors, Failures
  <2>2. Become(p, "commit", proc[p].gen,
               FailurePlan("failureResponseTooLarge", "outcome_unknown", None))
    BY <1>1 DEF AnswerNext, CommitNext
  <2> QED
    BY <1>0, <2>1, <2>2, FailureSound
<1>2. CASE answer # "oversized"
  <2>1. \E pc \in {"label", "commit"} :
           /\ pc = "label" => state = "cancelled"
           /\ Become(p, pc, proc[p].gen, OutcomePlan(proc[p].gen, state, answer))
    BY <1>2 DEF AnswerNext, CommitNext
  <2> QED
    BY <1>0, <2>1, OutcomeSound
<1> QED
  BY <1>1, <1>2

\* A step of the Starter leaves it knowing what ProcSound says.
LEMMA StartSound ==
    ASSUME TypeOK, RecordedOnce, FinishedHasAnswer, UnsentBeforeSend, NoIntentNoCall, Next,
           ProcSound(Starter), Start
    PROVE  ProcSound(Starter)'
<1>0. /\ proc \in [Procs -> States] /\ Starter \in Procs
      /\ row \in Rows /\ now \in Nat /\ call \in Calls
      /\ proc[Starter].gen.cancelRequestedAt # None => row'.cancelRequestedAt # None
  BY CancelStays DEF TypeOK, States, Procs, ProcSound
<1>1. CASE SubmitInsert
  <2>1. PICK streamed : Begin(Starter, "admit", ReadOf(PendingRow(now, streamed), now))
    BY <1>1 DEF SubmitInsert
  <2>2. ReadOf(PendingRow(now, streamed), now).cancelRequestedAt = None
    BY PendingFields DEF ReadOf
  <2> QED
    BY <1>0, <2>1, <2>2, FreshSound DEF Begin
<1>2. ASSUME NEW pc \in {"age", "send", "accept", "write", "pause", "rewrite", "readback", "orphan"},
             Goto(Starter, pc)
      PROVE  ProcSound(Starter)'
  BY <1>0, <1>2, GotoSound
<1>3. CASE \/ SubmitCommit \/ StartFresh \/ StartSend \/ StartNamed \/ RecordUnanswered
           \/ RecordAgain
  BY <1>2, <1>3 DEF SubmitCommit, StartFresh, StartSend, StartNamed, RecordUnanswered, RecordAgain
<1>4. ASSUME NEW error \in {"failureProviderUnavailable", "failureStartFailed", "failureRejected",
                            "failureOutcomeUnknown"},
             NEW failure \in {"not_started", "rejected", "outcome_unknown"},
             NEW response \in {"rejection", None},
             CommitNext(Starter, FailurePlan(error, failure, response)),
             failure = "outcome_unknown" \/ call'.state \in {"unsent", "refused"}
      PROVE  ProcSound(Starter)'
  <2>1. error \in Errors \ {"failureCallFailed", "failureOverdue"} /\ failure \in Failures
    BY <1>4 DEF Errors, Failures
  <2> QED
    BY <1>0, <1>4, <2>1, FailureSound DEF CommitNext
<1>5. CASE StartRefused \/ StartNotSent
  <2>1. call'.state = "unsent"
    BY <1>5 DEF StartRefused, StartNotSent, UnsentBeforeSend
  <2> QED
    BY <1>4, <1>5, <2>1 DEF StartRefused, StartNotSent
<1>6. CASE StartFails
  <2>1. call' = call
    BY <1>6 DEF StartFails
  <2> QED
    BY <1>4, <1>6, <2>1 DEF StartFails
<1>7. CASE RecordAnswered
  <2>1. CASE RecordMatches(row)
    <3>1. row' = RecordProviderCall(row) /\ RecordedNext(ReadOf(row', now))
      BY <1>7, <2>1 DEF RecordAnswered
    <3>2. row'.providerCallId = CallId /\ CallId # None
      BY <1>0, <3>1, RecordFields, NotNull
    <3>3. /\ ReadOf(row', now).providerCallId = row'.providerCallId
          /\ ReadOf(row', now).cancelRequestedAt = row'.cancelRequestedAt
      BY DEF ReadOf
    <3> QED
      BY <1>0, <3>1, <3>2, <3>3, RecordedSound
  <2>2. CASE ~RecordMatches(row)
    BY <1>2, <1>7, <2>2 DEF RecordAnswered
  <2> QED
    BY <2>1, <2>2
<1>8. CASE RecordReadBack
  <2>1. CASE row.providerCallId = CallId
    <3>1. row' = row /\ RecordedNext(ReadOf(row, now)) /\ CallId # None
      BY <1>0, <1>8, <2>1, NotNull DEF RecordReadBack
    <3>2. /\ ReadOf(row, now).providerCallId = row.providerCallId
          /\ ReadOf(row, now).cancelRequestedAt = row.cancelRequestedAt
      BY DEF ReadOf
    <3> QED
      BY <1>0, <2>1, <3>1, <3>2, RecordedSound
  <2>2. CASE row.providerCallId # CallId
    BY <1>2, <1>8, <2>2 DEF RecordReadBack
  <2> QED
    BY <2>1, <2>2
<1>9. CASE HoldEnds
  BY <1>0, <1>9, RecordedSound DEF HoldEnds, ProcSound
<1>10. CASE OrphanStop
  <2>1. ASSUME NEW answer, OrphanAnswered(answer), call'.answer = answer
        PROVE  ProcSound(Starter)'
    <3>1. CASE answer \in {"counted", "refusedByDatabase"}
      <4> DEFINE plan == [NoPlan EXCEPT !.usage = answer]
      <4>1. proc'[Starter].pc = "orphanUsage" /\ proc'[Starter].gen = proc[Starter].gen
            /\ proc'[Starter].plan = plan
        BY <1>0, <2>1, <3>1, BecomeAt DEF OrphanAnswered
      <4>2. plan.response = None /\ plan.usage = answer /\ None \notin CallTerminal
        BY ProcsAssumption DEF NoPlan, CallTerminal
      <4> HIDE DEF plan
      <4> QED
        BY <1>0, <2>1, <4>1, <4>2 DEF ProcSound, AnswerInHand
    <3>2. CASE answer \notin {"counted", "refusedByDatabase"}
      BY <1>0, <2>1, <3>2, EndSound DEF OrphanAnswered
    <3> QED
      BY <3>1, <3>2
  <2>2. ASSUME NEW answer \in Answers, call' = [call EXCEPT !.state = "cancelled", !.answer = answer]
        PROVE  call'.answer = answer
    BY <1>0, <2>2 DEF Calls
  <2>3. End(Starter) => ProcSound(Starter)'
    BY <1>0, EndSound
  <2> QED
    BY <1>10, <2>1, <2>2, <2>3 DEF OrphanStop
<1>11. CASE OrphanUsage
  BY <1>0, <1>11, EndSound DEF OrphanUsage
<1> QED
  BY <1>1, <1>3, <1>5, <1>6, <1>7, <1>8, <1>9, <1>10, <1>11 DEF Start

\* A step of a check leaves it knowing what ProcSound says.
LEMMA CheckSound ==
    ASSUME TypeOK, RecordedOnce, FinishedHasAnswer, UnsentBeforeSend, NoIntentNoCall, Next,
           NEW p \in Procs, ProcSound(p), Check(p) \/ CheckRead(p) \/ CancelRead(p)
    PROVE  ProcSound(p)'
<1>0. /\ proc \in [Procs -> States]
      /\ row \in Rows /\ now \in Nat /\ call \in Calls
      /\ proc[p].gen.cancelRequestedAt # None => row'.cancelRequestedAt # None
  BY CancelStays DEF TypeOK, States, ProcSound
<1>1. ASSUME NEW error \in {"failureResultLost", "failureNotStopped"},
             NEW failure \in {"provider_failed", "outcome_unknown"},
             CommitNext(p, FailurePlan(error, failure, None)),
             proc[p].gen.providerCallId # None
      PROVE  ProcSound(p)'
  <2>1. error \in Errors \ {"failureCallFailed", "failureOverdue"} /\ failure \in Failures
    BY <1>1 DEF Errors, Failures
  <2> QED
    BY <1>0, <1>1, <2>1, FailureSound DEF CommitNext
<1>2. End(p) => ProcSound(p)'
  BY <1>0, EndSound
<1>3. CASE GetCall(p)
  <2>1. proc[p].gen.providerCallId # None /\ call' = call
    BY <1>3 DEF GetCall, ProcSound
  <2>2. LostNext(p) => ProcSound(p)'
    BY <1>1, <2>1 DEF LostNext
  <2>3. Finished /\ AnswerNext(p, call.state, call.answer, FALSE) => ProcSound(p)'
    BY <2>1, AnswerSound DEF Finished
  <2>4. Goto(p, "stop") => ProcSound(p)'
    BY <2>1, GotoSound
  <2> QED
    BY <1>2, <1>3, <2>2, <2>3, <2>4 DEF GetCall
<1>4. CASE StopCall(p)
  <2>1. proc[p].gen.providerCallId # None
    BY <1>4 DEF StopCall, ProcSound
  <2>2. LostNext(p) => ProcSound(p)'
    BY <1>1, <2>1 DEF LostNext
  <2>3. Finished /\ AnswerNext(p, call.state, call.answer, TRUE) /\ call' = call => ProcSound(p)'
    BY <2>1, AnswerSound DEF Finished
  <2>4. ASSUME NEW answer \in Answers, AnswerNext(p, "cancelled", answer, TRUE),
               call' = [call EXCEPT !.state = "cancelled", !.answer = answer]
        PROVE  ProcSound(p)'
    <3>1. call'.state = "cancelled" /\ call'.answer = answer /\ "cancelled" \in CallTerminal
      BY <1>0, <2>4 DEF Calls, CallTerminal
    <3> QED
      BY <2>1, <2>4, <3>1, AnswerSound
  <2>5. UnstoppedNext(p) => ProcSound(p)'
    BY <1>1, <1>2, <2>1 DEF UnstoppedNext
  <2> QED
    BY <1>4, <2>2, <2>3, <2>4, <2>5 DEF StopCall
<1>5. CASE Relabel(p)
  <2> DEFINE gen == [proc[p].gen EXCEPT !.cancelRequestedAt = row.cancelRequestedAt]
  <2>1. /\ Become(p, "commit", gen, OutcomePlan(gen, "cancelled", proc[p].plan.usage))
        /\ row' = row /\ call' = call
        /\ proc[p].gen.providerCallId # None
        /\ proc[p].plan.response = "cancelled"
    BY <1>5 DEF Relabel, ProcSound
  <2>2. /\ gen.cancelRequestedAt = row'.cancelRequestedAt
        /\ gen.providerCallId # None
    <3>1. proc[p].gen \in Reads
      BY <1>0 DEF States
    <3> QED
      BY <2>1, <3>1 DEF Reads
  <2>3. call'.state = "cancelled" /\ call'.answer = proc[p].plan.usage /\ "cancelled" \in CallTerminal
    BY <2>1 DEF ProcSound, AnswerInHand, CallTerminal
  <2> HIDE DEF gen
  <2> QED
    BY <1>0, <2>1, <2>2, <2>3, OutcomeSound
<1>6. CASE CommitApplied(p) \/ CommitChanged(p) \/ Abort(p)
  BY <1>2, <1>6 DEF CommitApplied, CommitChanged, Abort
<1>7. CASE CommitRefused(p)
  <2>1. CASE CommitNext(p, FailurePlan("failureNotRecorded", "provider_failed", None))
    <3>1. /\ "failureNotRecorded" \in Errors \ {"failureCallFailed", "failureOverdue"}
          /\ "provider_failed" \in Failures
      BY DEF Errors, Failures
    <3>2. proc[p].pc = "commit" /\ proc[p].plan.usage = "refusedByDatabase" /\ call' = call
      BY <1>7 DEF CommitRefused
    <3>3. proc[p].gen.providerCallId # None
      BY <3>2 DEF ProcSound, PlanSound
    <3> QED
      BY <1>0, <2>1, <3>1, <3>3, FailureSound DEF CommitNext
  <2> QED
    BY <1>2, <1>7, <2>1 DEF CommitRefused
<1>8. CASE CheckRead(p)
  <2> DEFINE gen == ReadOf(row, now)
  <2>1. row' = row
    BY <1>8 DEF CheckRead
  <2>2. gen.cancelRequestedAt # None => row'.cancelRequestedAt # None
    BY ReadFields, <2>1
  <2>3. /\ {"failureOutcomeUnknown", "failureStartFailed"}
              \subseteq Errors \ {"failureCallFailed", "failureOverdue"}
        /\ {"outcome_unknown", "not_started"} \subseteq Failures
    BY DEF Errors, Failures
  <2> HIDE DEF gen
  <2>4. CASE gen.providerCallId # None /\ ObserveNext(p, gen)
    BY <1>0, <2>2, <2>4, ObserveSound
  <2>5. CASE Become(p, "commit", gen, FailurePlan("failureOutcomeUnknown", "outcome_unknown", None))
    BY <1>0, <2>2, <2>3, <2>5, FailureSound
  <2>6. CASE /\ gen.startRequestedAt = None
             /\ gen.cancelRequestedAt # None
             /\ Become(p, "commit", gen, CancelledPlan)
    <3>1. proc'[p].pc = "commit" /\ proc'[p].gen = gen /\ proc'[p].plan = CancelledPlan
      BY <1>0, <2>6, BecomeAt
    <3>2. /\ CancelledPlan.status = "cancelled" /\ CancelledPlan.failure = None
          /\ CancelledPlan.error = "generationCancelledReason"
          /\ CancelledPlan.response = None /\ CancelledPlan.usage = "uncounted"
          /\ None \notin CallTerminal
      BY ProcsAssumption DEF CancelledPlan, CallTerminal
    <3>3. AnswerInHand(p)'
      BY <3>1, <3>2 DEF AnswerInHand
    <3>4. gen.providerCallId = None
      BY <2>6, ReadFields DEF gen, NoIntentNoCall
    <3>5. PlanSound(p)'
      BY <2>6, <3>1, <3>2, <3>4 DEF PlanSound, Settled
    <3> QED
      BY <2>2, <3>1, <3>2, <3>3, <3>5 DEF ProcSound
  <2>7. CASE /\ gen.startRequestedAt = None
             /\ Become(p, "commit", gen, FailurePlan("failureStartFailed", "not_started", None))
    BY <1>0, <2>2, <2>3, <2>7, FailureSound
  <2> QED
    BY <1>8, <2>4, <2>5, <2>6, <2>7 DEF CheckRead, gen
<1>9. CASE CancelRead(p)
  <2>1. row' = RequestCancel(row, now)
    BY <1>9 DEF CancelRead
  <2>2. CASE row'.providerCallId # None /\ ObserveNext(p, ReadOf(row', now))
    BY <1>0, ReadFields, <2>2, ObserveSound
  <2>3. CASE proc' = proc
    BY <2>3, Bystander
  <2> QED
    BY <1>9, <2>2, <2>3 DEF CancelRead
<1> QED
  BY <1>3, <1>4, <1>5, <1>6, <1>7, <1>8, <1>9 DEF Check

-----------------------------------------------------------------------------
(***************************************************************************)
(* What a check is about to tell, and what the call's id tells.            *)
(***************************************************************************)
\* How the Starter comes to a point from which it may still write, and what it then sets.
LEMMA WriterMoves ==
    ASSUME TypeOK, Next, proc'[Starter].pc \in Writing \cup {"age"}
    PROVE  \/ SubmitCommit /\ proc'[Starter].pc = "age"
           \/ /\ proc'[Starter].pc = proc[Starter].pc /\ start' = start
              /\ now' = now \/ Tick
           \/ StartFresh /\ proc'[Starter].pc = "send"
           \/ StartSend /\ proc'[Starter].pc = "accept"
           \/ StartNamed /\ proc'[Starter].pc = "write"
           \/ /\ RecordUnanswered /\ proc'[Starter].pc = "pause"
              /\ start'.until < start.intentAt + RecordPatience /\ now =< start'.until
           \/ RecordAgain /\ proc'[Starter].pc = "rewrite"
<1>0. proc \in [Procs -> States] /\ Starter \in Procs
  BY DEF TypeOK, States, Procs
<1>1. ASSUME NEW pc, NEW gen, NEW plan, Become(Starter, pc, gen, plan),
             pc \notin Writing \cup {"age"}
      PROVE  FALSE
  BY <1>0, <1>1, BecomeAt
<1>2. ASSUME NEW gen, RecordedNext(gen) \/ StartedNext(gen) PROVE FALSE
  BY <1>1, <1>2 DEF RecordedNext, StartedNext, ObserveNext, Begin, End, Writing, Timed
<1>3. ~ (SubmitInsert \/ StartRefused \/ StartNotSent \/ StartFails)
  BY <1>1 DEF SubmitInsert, StartRefused, StartNotSent, StartFails, Begin, CommitNext,
     Writing, Timed
<1>4. ~ (RecordAnswered \/ RecordReadBack \/ HoldEnds)
  BY <1>1, <1>2 DEF RecordAnswered, RecordReadBack, HoldEnds, Goto, Writing, Timed
<1>5. ~ (OrphanStop \/ OrphanUsage)
  BY <1>1 DEF OrphanStop, OrphanUsage, OrphanAnswered, End, Writing, Timed
<1>6. ASSUME Check(Starter) PROVE FALSE
  <2>1. \E pc \in {"idle", "stop", "label", "commit"} : \E gen, plan : Become(Starter, pc, gen, plan)
    <3>1. CASE GetCall(Starter)
      BY <3>1 DEF GetCall, LostNext, AnswerNext, CommitNext, Goto, End
    <3>2. CASE StopCall(Starter)
      BY <3>2 DEF StopCall, LostNext, AnswerNext, UnstoppedNext, CommitNext, End
    <3>3. CASE Relabel(Starter)
      BY <3>3 DEF Relabel
    <3>4. CASE \/ CommitApplied(Starter) \/ CommitChanged(Starter) \/ CommitRefused(Starter)
               \/ Abort(Starter)
      BY <3>4 DEF CommitApplied, CommitChanged, CommitRefused, Abort, CommitNext, End
    <3> QED
      BY <1>6, <3>1, <3>2, <3>3, <3>4 DEF Check
  <2> QED
    BY <1>1, <2>1 DEF Writing, Timed
<1>7. ASSUME NEW p \in Procs, p # Starter, Check(p) \/ CheckRead(p) \/ CancelRead(p)
      PROVE  proc'[Starter] = proc[Starter] /\ start' = start /\ now' = now
  <2>1. proc'[Starter] = proc[Starter]
    BY <1>0, <1>7, CheckMoves
  <2> QED
    BY <1>7, <2>1 DEF Check, GetCall, StopCall, Relabel, CommitApplied, CommitChanged,
       CommitRefused, Abort, CheckRead, CancelRead
<1>8. CASE LateWriteLands \/ Provider \/ DropProvider \/ Tick
  BY <1>8 DEF LateWriteLands, Provider, ProviderAccept, ProviderRefuse, ProviderRun,
     ProviderFinish, ProviderForget, CallBecomes, DropProvider, Tick
<1>9. CASE SubmitCommit \/ StartFresh \/ StartSend \/ StartNamed \/ RecordAgain
  BY <1>0, <1>9, BecomeAt DEF SubmitCommit, StartFresh, StartSend, StartNamed, RecordAgain, Goto
<1>10. CASE RecordUnanswered
  <2> DEFINE pause == IF proc[Starter].pc = "write" THEN RecordPause
                        ELSE Min({start.pause + start.pause, RecordPauseCeiling})
             again == now + pause < start.intentAt + RecordPatience
  <2>1. /\ Goto(Starter, IF again THEN "pause" ELSE "readback")
        /\ start' = [start EXCEPT !.pause = pause,
                        !.until = now + IF again THEN pause ELSE PersistenceTimeout]
    BY <1>10 DEF RecordUnanswered
  <2>2. start \in [intentAt : Nat, until : Nat, pause : Nat, orphanStopped : BOOLEAN] /\ now \in Nat
    BY DEF TypeOK
  <2>3. pause \in Nat
    BY <2>2, MinType, DurationsAssumption
  <2> HIDE DEF pause
  <2>4. again
    BY <1>1, <2>1 DEF Goto, Writing, Timed
  <2>5. proc'[Starter].pc = "pause" /\ start'.until = now + pause
    BY <1>0, <2>1, <2>2, <2>4, BecomeAt DEF Goto
  <2> QED
    BY <1>10, <2>2, <2>3, <2>4, <2>5
<1> QED
  BY <1>3, <1>4, <1>5, <1>6, <1>7, <1>8, <1>9, <1>10, ProcsAssumption
     DEF Next, Start, Procs

\* A call the provider accepted stays accepted, and one it forgot was over.
LEMMA AcceptedStays ==
    ASSUME TypeOK, UnsentBeforeSend, GoneIsOver, Next
    PROVE  (Accepted => Accepted') /\ GoneIsOver'
<1>0. call \in Calls
  BY DEF TypeOK
<1> DEFINE Good == (Accepted => Accepted') /\ GoneIsOver'
<1>1. ASSUME call' = call PROVE Good
  BY <1>1 DEF Accepted, GoneIsOver
<1>2. ASSUME NEW state \in CallLive \cup CallTerminal, NEW answer,
             call.state \in CallLive \cup {"sent"}, ~call.gone,
             \/ state \in CallTerminal /\ call' = [call EXCEPT !.state = state, !.answer = answer]
             \/ call' = [call EXCEPT !.state = state]
      PROVE  Good
  BY <1>0, <1>2 DEF Calls, Accepted, GoneIsOver, Unaccepted, CallLive, CallTerminal
<1>3. call.state \in CallLive \cup Unaccepted => ~call.gone
  BY <1>0 DEF GoneIsOver, CallLive, CallTerminal, Unaccepted, Calls
<1>4. ASSUME NEW stopping \in BOOLEAN, call' = [call EXCEPT !.stopping = stopping] PROVE Good
  BY <1>0, <1>4 DEF Calls, Accepted, GoneIsOver
<1>5. ASSUME NEW state \in {"sent", "refused"}, call.state \in {"unsent", "sent"},
             call' = [call EXCEPT !.state = state]
      PROVE  Good
  BY <1>0, <1>3, <1>5 DEF Calls, Accepted, GoneIsOver, Unaccepted
<1>6. CASE StartSend
  BY <1>5, <1>6 DEF StartSend, UnsentBeforeSend
<1>7. CASE OrphanStop
  BY <1>1, <1>2, <1>3, <1>4, <1>7 DEF OrphanStop, CallTerminal
<1>8. ASSUME NEW p \in Procs, StopCall(p) PROVE Good
  <2>1. call.stopping \in BOOLEAN
    BY <1>0 DEF Calls
  <2> QED
    BY <1>1, <1>2, <1>3, <1>4, <1>8, <2>1 DEF StopCall, CallTerminal
<1>9. CASE Provider
  <2>1. CASE ProviderAccept \/ ProviderRun
    BY <1>2, <1>3, <2>1 DEF ProviderAccept, ProviderRun, CallBecomes, CallLive, Unaccepted
  <2>2. CASE ProviderRefuse
    BY <1>5, <2>2 DEF ProviderRefuse, CallBecomes
  <2>3. CASE ProviderFinish
    BY <1>2, <1>3, <2>3 DEF ProviderFinish, CallBecomes, CallTerminal
  <2>4. CASE ProviderForget
    BY <1>0, <2>4 DEF ProviderForget, CallBecomes, Finished, Calls, Accepted, GoneIsOver
  <2> QED
    BY <1>9, <2>1, <2>2, <2>3, <2>4 DEF Provider
<1>10. ASSUME NEW p \in Procs,
              \/ GetCall(p) \/ Relabel(p) \/ CommitApplied(p) \/ CommitChanged(p)
              \/ CommitRefused(p) \/ Abort(p) \/ CheckRead(p) \/ CancelRead(p)
       PROVE  call' = call
  BY <1>10 DEF GetCall, Relabel, CommitApplied, CommitChanged, CommitRefused, Abort, CheckRead,
     CancelRead
<1>11. CASE \/ SubmitInsert \/ SubmitCommit \/ StartRefused \/ StartFresh \/ StartNotSent
            \/ StartFails \/ StartNamed \/ RecordAnswered \/ RecordUnanswered \/ RecordAgain
            \/ RecordReadBack \/ HoldEnds \/ OrphanUsage \/ LateWriteLands
            \/ DropProvider \/ Tick
  <2>1. call' = call
    BY <1>11 DEF SubmitInsert, SubmitCommit, StartRefused, StartFresh, StartNotSent, StartFails,
       StartNamed, RecordAnswered, RecordUnanswered, RecordAgain, RecordReadBack, HoldEnds,
       OrphanUsage, LateWriteLands, DropProvider, Tick
  <2> QED
    BY <1>1, <2>1
<1>12. (\E p \in Procs : Check(p)) \/ (\E p \in Checks : CheckRead(p) \/ CancelRead(p)) => Good
  <2> HIDE DEF Good
  <2> QED
    BY <1>1, <1>8, <1>10 DEF Check, Procs
<1> QED
  BY <1>6, <1>7, <1>9, <1>11, <1>12 DEF Next, Start

\* A check never comes to write a call's id.
LEMMA CheckPcs ==
    ASSUME TypeOK, NEW p \in Procs, Check(p) \/ CheckRead(p) \/ CancelRead(p)
    PROVE  proc'[p] = proc[p] \/ proc'[p].pc \in {"idle", "get", "stop", "label", "commit"}
<1>0. proc \in [Procs -> States]
  BY DEF TypeOK, States
<1>1. CASE GetCall(p)
  BY <1>0, <1>1, BecomeAt DEF GetCall, LostNext, AnswerNext, CommitNext, Goto, End
<1>2. CASE StopCall(p)
  BY <1>0, <1>2, BecomeAt DEF StopCall, LostNext, AnswerNext, UnstoppedNext, CommitNext, End
<1>3. CASE Relabel(p)
  BY <1>0, <1>3, BecomeAt DEF Relabel
<1>4. CASE CommitApplied(p) \/ CommitChanged(p) \/ CommitRefused(p) \/ Abort(p)
  BY <1>0, <1>4, BecomeAt DEF CommitApplied, CommitChanged, CommitRefused, Abort, CommitNext, End
<1>5. CASE CheckRead(p) \/ CancelRead(p)
  BY <1>0, <1>5, BecomeAt DEF CheckRead, CancelRead, ObserveNext, Begin
<1> QED
  BY <1>1, <1>2, <1>3, <1>4, <1>5 DEF Check

\* The row changes by four statements only.
LEMMA RowKept ==
    ASSUME Next
    PROVE  \/ row' = row
           \/ SubmitCommit \/ RecordAnswered \/ LateWriteLands
           \/ \E p \in Procs : CommitApplied(p)
           \/ \E p \in Checks : CancelRead(p)
<1>1. ASSUME NEW p \in Procs,
             \/ GetCall(p) \/ StopCall(p) \/ Relabel(p) \/ CommitChanged(p)
             \/ CommitRefused(p) \/ Abort(p) \/ CheckRead(p)
      PROVE  row' = row
  BY <1>1 DEF GetCall, StopCall, Relabel, CommitChanged, CommitRefused, Abort, CheckRead
<1>2. CASE \/ SubmitInsert \/ StartRefused \/ StartFresh \/ StartSend \/ StartNotSent
           \/ StartFails \/ StartNamed \/ RecordUnanswered \/ RecordAgain \/ RecordReadBack
           \/ HoldEnds \/ OrphanStop \/ OrphanUsage \/ Provider \/ DropProvider \/ Tick
  BY <1>2 DEF SubmitInsert, StartRefused, StartFresh, StartSend, StartNotSent,
     StartFails, StartNamed, RecordUnanswered, RecordAgain, RecordReadBack, HoldEnds, OrphanStop,
     OrphanUsage, Provider, ProviderAccept, ProviderRefuse, ProviderRun, ProviderFinish,
     ProviderForget, CallBecomes, DropProvider, Tick
<1> QED
  BY <1>1, <1>2 DEF Next, Start, Check, Procs

\* A call's id is recorded by the write of a start whose call the provider named, or by one landing
\* late that such a start left behind.
LEMMA NamedStep ==
    ASSUME TypeOK, UnsentBeforeSend, GoneIsOver, NamedIsAccepted, Next
    PROVE  NamedIsAccepted' /\ GoneIsOver'
<1> DEFINE naming == {"write", "pause", "rewrite"}
<1>1. CASE Accepted
  BY <1>1, AcceptedStays DEF NamedIsAccepted
<1>2. CASE ~Accepted
  <2>1. row.providerCallId = None /\ ~late /\ \A p \in Procs : proc[p].pc \notin naming
    BY <1>2 DEF NamedIsAccepted
  <2>2. ~RecordAnswered /\ ~LateWriteLands /\ ~StartNamed /\ ~RecordUnanswered /\ ~RecordAgain
    BY <1>2, <2>1 DEF RecordAnswered, LateWriteLands, StartNamed, RecordUnanswered, RecordAgain, Procs
  <2>3. proc'[Starter].pc \notin naming
    <3>1. Starter \in Procs
      BY DEF Procs
    <3>2. proc'[Starter].pc \in naming =>
             /\ proc'[Starter].pc \in Writing \cup {"age"}
             /\ proc'[Starter].pc \notin {"age", "send", "accept"}
      BY DEF Writing, Timed
    <3> QED
      BY <2>1, <2>2, <3>1, <3>2, WriterMoves
  <2>4. \A p \in Procs : proc'[p].pc \notin naming
    <3> SUFFICES ASSUME NEW p \in Procs PROVE proc'[p].pc \notin naming
      OBVIOUS
    <3>1. CASE p = Starter
      BY <2>3, <3>1
    <3>2. CASE p # Starter
      <4>1. CASE Start
        BY <2>1, <3>2, <4>1, StartMoves
      <4>2. ASSUME NEW q \in Procs, Check(q) \/ CheckRead(q) \/ CancelRead(q)
            PROVE  proc'[p].pc \notin naming
        <5>1. CASE q = p
          BY <2>1, <4>2, <5>1, CheckPcs
        <5>2. CASE q # p
          BY <2>1, <4>2, <5>2, CheckMoves
        <5> QED
          BY <5>1, <5>2
      <4>3. CASE LateWriteLands \/ Provider \/ DropProvider \/ Tick
        BY <2>1, <4>3 DEF LateWriteLands, Provider, ProviderAccept, ProviderRefuse, ProviderRun,
           ProviderFinish, ProviderForget, CallBecomes, DropProvider, Tick
      <4> QED
        BY <4>1, <4>2, <4>3 DEF Next, Procs
    <3> QED
      BY <3>1, <3>2
  <2>5. row'.providerCallId = None
    <3>0. row \in Rows /\ now \in Nat
      BY DEF TypeOK
    <3>1. CASE row' = row
      BY <2>1, <3>1
    <3>2. CASE SubmitCommit
      BY <3>2, PendingFields DEF SubmitCommit
    <3>3. ASSUME NEW p \in Procs, CommitApplied(p) PROVE row'.providerCallId = None
      BY <2>1, <3>0, <3>3, SettleFields DEF CommitApplied
    <3>4. ASSUME NEW p \in Checks, CancelRead(p) PROVE row'.providerCallId = None
      BY <2>1, <3>0, <3>4, CancelFields DEF CancelRead
    <3> QED
      BY <2>2, <3>1, <3>2, <3>3, <3>4, RowKept
  <2>6. ~late'
    <3>1. ASSUME NEW p \in Procs, Check(p) \/ CheckRead(p) \/ CancelRead(p) PROVE ~late'
      BY <2>1, <3>1 DEF Check, GetCall, StopCall, Relabel, CommitApplied, CommitChanged,
         CommitRefused, Abort, CheckRead, CancelRead
    <3>2. CASE Start
      BY <2>1, <2>2, <3>2 DEF Start, SubmitInsert, SubmitCommit, StartRefused, StartFresh, StartSend,
         StartNotSent, StartFails, StartNamed, RecordAgain, RecordReadBack, HoldEnds, OrphanStop,
         OrphanUsage
    <3>3. CASE Provider \/ DropProvider \/ Tick
      BY <2>1, <3>3 DEF Provider, ProviderAccept, ProviderRefuse, ProviderRun, ProviderFinish,
         ProviderForget, CallBecomes, DropProvider, Tick
    <3> QED
      BY <2>2, <3>1, <3>2, <3>3 DEF Next, Procs
  <2> QED
    BY <2>4, <2>5, <2>6, AcceptedStays DEF NamedIsAccepted
<1> QED
  BY <1>1, <1>2, AcceptedStays

\* A process that is not about to commit tells nothing yet.
LEMMA SilentTells ==
    ASSUME NEW p \in Procs, proc'[p].pc # "commit"
    PROVE  PlanTells(p)'
BY DEF PlanTells

\* A failure of the service's own, of a class its check may give.
LEMMA FailureTells ==
    ASSUME proc \in [Procs -> States], NEW p \in Procs, NEW gen, NEW error, NEW failure,
           Become(p, "commit", gen, FailurePlan(error, failure, None)),
           \/ failure = "outcome_unknown"
           \/ failure = "not_started" /\ gen.startRequestedAt = None
           \/ failure = "not_started" /\ p = Starter /\ call'.state \in {"unsent", "refused"}
           \/ failure = "provider_failed" /\ gen.providerCallId # None /\ call'.state \in CallTerminal
    PROVE  PlanTells(p)'
<1>1. proc'[p].gen = gen /\ proc'[p].plan = FailurePlan(error, failure, None)
  BY BecomeAt
<1>2. Failing(proc'[p].plan, failure)
  BY <1>1 DEF FailurePlan, Failing
<1> QED
  BY <1>1, <1>2 DEF PlanTells

\* The answer of a finished call, labelled.
LEMMA OutcomeTells ==
    ASSUME proc \in [Procs -> States], NEW p \in Procs, NEW gen, NEW state \in CallTerminal, NEW answer,
           Become(p, "commit", gen, OutcomePlan(gen, state, answer)),
           gen.providerCallId # None, call'.state = state
    PROVE  PlanTells(p)'
<1> DEFINE plan == OutcomePlan(gen, state, answer)
<1>1. proc'[p].gen = gen /\ proc'[p].plan = plan
  BY BecomeAt
<1>2. /\ plan.response = state
      /\ \/ plan.status = "failed" /\ plan.failure = "provider_failed" /\ state \in {"failed", "cancelled"}
         \/ plan.status \in {"succeeded", "cancelled"} /\ plan.failure = None
  BY DEF OutcomePlan, CallTerminal
<1> HIDE DEF plan
<1>3. Keeping(plan)'
  BY <1>1, <1>2 DEF Keeping
<1> QED
  BY <1>1, <1>2, <1>3 DEF PlanTells, Keeping

\* A process moves only on steps of its own.
LEMMA ProcMoves ==
    ASSUME TypeOK, Next, NEW p \in Procs
    PROVE  \/ proc'[p] = proc[p]
           \/ p = Starter /\ Start
           \/ Check(p)
           \/ p \in Checks /\ (CheckRead(p) \/ CancelRead(p))
<1>1. CASE Start
  BY <1>1, StartMoves
<1>2. ASSUME NEW q \in Procs, Check(q) PROVE p = q \/ proc'[p] = proc[p]
  BY <1>2, CheckMoves
<1>3. ASSUME NEW q \in Checks, CheckRead(q) \/ CancelRead(q) PROVE p = q \/ proc'[p] = proc[p]
  BY <1>3, CheckMoves DEF Procs
<1>4. CASE LateWriteLands \/ Provider \/ DropProvider \/ Tick
  BY <1>4 DEF LateWriteLands, Provider, ProviderAccept, ProviderRefuse, ProviderRun, ProviderFinish,
     ProviderForget, CallBecomes, DropProvider, Tick
<1> QED
  BY <1>1, <1>2, <1>3, <1>4 DEF Next

\* The check of a recorded call plans nothing, but that its provider cannot be asked.
LEMMA ObserveTells ==
    ASSUME proc \in [Procs -> States], NEW p \in Procs, NEW gen, ObserveNext(p, gen)
    PROVE  PlanTells(p)'
<1>1. CASE served
  <2>1. proc'[p].pc # "commit"
    BY <1>1, BecomeAt DEF ObserveNext, Begin
  <2> QED
    BY <2>1, SilentTells
<1>2. CASE ~served
  BY <1>2, FailureTells DEF ObserveNext
<1> QED
  BY <1>1, <1>2

\* A check that read an answer tells it, and one too large to read tells nothing of it.
LEMMA AnswerTells ==
    ASSUME proc \in [Procs -> States], NEW p \in Procs, proc[p].gen.providerCallId # None,
           NEW state \in CallTerminal, NEW answer, NEW stopWanted,
           AnswerNext(p, state, answer, stopWanted), call'.state = state
    PROVE  PlanTells(p)'
<1>1. CASE CommitNext(p, FailurePlan("failureResponseTooLarge", "outcome_unknown", None))
  BY <1>1, FailureTells DEF CommitNext
<1>2. CASE CommitNext(p, OutcomePlan(proc[p].gen, state, answer))
  BY <1>2, OutcomeTells DEF CommitNext
<1>3. CASE Become(p, "label", proc[p].gen, OutcomePlan(proc[p].gen, state, answer))
  <2>1. proc'[p].pc = "label"
    BY <1>3, BecomeAt
  <2> QED
    BY <2>1, SilentTells
<1> QED
  BY <1>1, <1>2, <1>3 DEF AnswerNext

\* A step of the Starter plans what the contract allows.
LEMMA StartTells ==
    ASSUME TypeOK, UnsentBeforeSend, ProcSound(Starter), Start
    PROVE  PlanTells(Starter)'
<1>0. proc \in [Procs -> States] /\ Starter \in Procs
  BY DEF TypeOK, States, Procs
<1>1. ASSUME NEW pc, NEW gen, NEW plan, Become(Starter, pc, gen, plan), pc # "commit"
      PROVE  PlanTells(Starter)'
  <2>1. proc'[Starter].pc = pc
    BY <1>0, <1>1, BecomeAt
  <2> QED
    BY <1>0, <1>1, <2>1, SilentTells
<1>2. CASE \/ SubmitInsert \/ SubmitCommit \/ StartFresh \/ StartSend \/ StartNamed
           \/ RecordUnanswered \/ RecordAgain \/ OrphanUsage
  BY <1>1, <1>2 DEF SubmitInsert, SubmitCommit, StartFresh, StartSend, StartNamed,
     RecordUnanswered, RecordAgain, OrphanUsage, Begin, Goto, End
<1>3. CASE StartRefused \/ StartNotSent
  <2>1. call'.state = "unsent"
    BY <1>3 DEF StartRefused, StartNotSent, UnsentBeforeSend
  <2>2. \E error : CommitNext(Starter, FailurePlan(error, "not_started", None))
    BY <1>3 DEF StartRefused, StartNotSent
  <2> QED
    BY <1>0, <2>1, <2>2, FailureTells DEF CommitNext
<1>4. CASE StartFails
  <2>1. CASE CommitNext(Starter, FailurePlan("failureOutcomeUnknown", "outcome_unknown", None))
    BY <1>0, <2>1, FailureTells DEF CommitNext
  <2>2. CASE /\ call.state = "refused"
             /\ CommitNext(Starter, FailurePlan("failureStartFailed", "not_started", None))
    <3>1. call'.state = "refused"
      BY <1>4, <2>2 DEF StartFails
    <3> QED
      BY <1>0, <2>2, <3>1, FailureTells DEF CommitNext
  <2>3. ASSUME call.state = "refused", NEW body \in {"rejection", None},
               CommitNext(Starter, FailurePlan("failureRejected", "rejected", body))
        PROVE  PlanTells(Starter)'
    <3>1. proc'[Starter].plan = FailurePlan("failureRejected", "rejected", body)
      BY <1>0, <2>3, BecomeAt DEF CommitNext
    <3>2. call'.state = "refused"
      BY <1>4, <2>3 DEF StartFails
    <3> QED
      BY <3>1, <3>2 DEF PlanTells, FailurePlan
  <2> QED
    BY <1>4, <2>1, <2>2, <2>3 DEF StartFails
<1>5. ASSUME NEW gen, StartedNext(gen) \/ RecordedNext(gen) PROVE PlanTells(Starter)'
  BY <1>0, <1>1, <1>5, ObserveTells DEF StartedNext, RecordedNext, Begin, End
<1>6. CASE RecordAnswered \/ RecordReadBack \/ HoldEnds
  BY <1>1, <1>5, <1>6 DEF RecordAnswered, RecordReadBack, HoldEnds, Goto
<1>7. CASE OrphanStop
  BY <1>1, <1>7 DEF OrphanStop, OrphanAnswered, End
<1> QED
  BY <1>2, <1>3, <1>4, <1>6, <1>7 DEF Start

\* So does a step of a check.
LEMMA CheckTells ==
    ASSUME TypeOK, FinishedHasAnswer, NoIntentNoCall, GoneIsOver, NEW p \in Procs,
           ProcSound(p), PlanTells(p), Check(p) \/ CheckRead(p)
    PROVE  PlanTells(p)'
<1>0. proc \in [Procs -> States] /\ call \in Calls
  BY DEF TypeOK, States
<1>1. ASSUME NEW pc, NEW gen, NEW plan, Become(p, pc, gen, plan), pc # "commit"
      PROVE  PlanTells(p)'
  <2>1. proc'[p].pc = pc
    BY <1>0, <1>1, BecomeAt
  <2> QED
    BY <1>1, <2>1, SilentTells
<1>2. ASSUME call.gone, LostNext(p), call' = call, proc[p].gen.providerCallId # None
      PROVE  PlanTells(p)'
  BY <1>0, <1>2, FailureTells DEF LostNext, CommitNext, GoneIsOver
<1>3. CASE GetCall(p)
  <2>1. proc[p].gen.providerCallId # None /\ call' = call
    BY <1>3 DEF GetCall, ProcSound
  <2>2. Finished /\ AnswerNext(p, call.state, call.answer, FALSE) => PlanTells(p)'
    BY <1>0, <2>1, AnswerTells DEF Finished
  <2> QED
    BY <1>1, <1>2, <1>3, <2>1, <2>2 DEF GetCall, Goto, End
<1>4. CASE StopCall(p)
  <2>1. proc[p].gen.providerCallId # None
    BY <1>4 DEF StopCall, ProcSound
  <2>2. Finished /\ AnswerNext(p, call.state, call.answer, TRUE) /\ call' = call => PlanTells(p)'
    BY <1>0, <2>1, AnswerTells DEF Finished
  <2>3. ASSUME NEW answer \in Answers, AnswerNext(p, "cancelled", answer, TRUE),
               call' = [call EXCEPT !.state = "cancelled", !.answer = answer]
        PROVE  PlanTells(p)'
    <3>1. call'.state = "cancelled" /\ "cancelled" \in CallTerminal
      BY <1>0, <2>3 DEF Calls, CallTerminal
    <3> QED
      BY <1>0, <2>1, <2>3, <3>1, AnswerTells
  <2>4. UnstoppedNext(p) => PlanTells(p)'
    BY <1>0, <1>1, FailureTells DEF UnstoppedNext, CommitNext, End
  <2> QED
    BY <1>2, <1>4, <2>1, <2>2, <2>3, <2>4 DEF StopCall
<1>5. CASE Relabel(p)
  <2> DEFINE gen == [proc[p].gen EXCEPT !.cancelRequestedAt = row.cancelRequestedAt]
  <2>1. /\ Become(p, "commit", gen, OutcomePlan(gen, "cancelled", proc[p].plan.usage))
        /\ call' = call /\ call.state = "cancelled" /\ "cancelled" \in CallTerminal
    BY <1>5 DEF Relabel, ProcSound, AnswerInHand, CallTerminal
  <2>2. gen.providerCallId # None
    <3>1. proc[p].gen \in Reads /\ proc[p].gen.providerCallId # None
      BY <1>0, <1>5 DEF States, Relabel, ProcSound
    <3> QED
      BY <3>1 DEF Reads
  <2> HIDE DEF gen
  <2> QED
    BY <1>0, <2>1, <2>2, OutcomeTells
<1>6. CASE CommitApplied(p) \/ CommitChanged(p) \/ Abort(p)
  BY <1>1, <1>6 DEF CommitApplied, CommitChanged, Abort, End
<1>7. CASE CommitRefused(p)
  <2>1. /\ proc[p].plan.usage = "refusedByDatabase" /\ call' = call
        /\ proc[p].gen.providerCallId # None
    BY <1>7 DEF CommitRefused, ProcSound, PlanSound
  <2>2. call.state \in CallTerminal
    <3>1. call.answer = "refusedByDatabase"
      BY <2>1 DEF ProcSound, AnswerInHand
    <3> QED
      BY <3>1, ProcsAssumption DEF FinishedHasAnswer
  <2> QED
    BY <1>0, <1>1, <1>7, <2>1, <2>2, FailureTells DEF CommitRefused, CommitNext, End
<1>8. CASE CheckRead(p)
  <2> DEFINE gen == ReadOf(row, now)
  <2>1. CASE ObserveNext(p, gen)
    BY <1>0, <2>1, ObserveTells
  <2>2. CASE Become(p, "commit", gen, FailurePlan("failureOutcomeUnknown", "outcome_unknown", None))
    BY <1>0, <2>2, FailureTells
  <2>3. CASE gen.startRequestedAt = None /\ Become(p, "commit", gen, CancelledPlan)
    <3>1. proc'[p].gen = gen /\ proc'[p].plan = CancelledPlan
      BY <1>0, <2>3, BecomeAt
    <3> HIDE DEF gen
    <3> QED
      BY <2>3, <3>1 DEF PlanTells
  <2>4. CASE /\ gen.startRequestedAt = None
             /\ Become(p, "commit", gen, FailurePlan("failureStartFailed", "not_started", None))
    BY <1>0, <2>4, FailureTells
  <2> QED
    BY <1>8, <2>1, <2>2, <2>3, <2>4 DEF CheckRead
<1> QED
  BY <1>3, <1>4, <1>5, <1>6, <1>7, <1>8 DEF Check

\* A plan tells what it told after a step of another process.
LEMMA BystanderTells ==
    ASSUME TypeOK, FinishedHasAnswer, UnsentBeforeSend, Next, NEW p \in Procs, PlanTells(p),
           proc'[p] = proc[p]
    PROVE  PlanTells(p)'
<1> SUFFICES ASSUME proc[p].pc = "commit" PROVE PlanTells(p)'
  BY DEF PlanTells
<1>1. call.state \in CallTerminal => call'.state = call.state
  BY CallMoves
<1>2. call.state = "refused" => call'.state = "refused"
  BY CallMoves DEF StartSend, UnsentBeforeSend
<1>3. p = Starter /\ call.state = "unsent" => call'.state = "unsent"
  BY CallMoves DEF StartSend
<1>4. call.state \in CallTerminal /\ Keeping(proc[p].plan) => Keeping(proc[p].plan)'
  BY <1>1 DEF Keeping
<1> QED
  BY <1>1, <1>2, <1>3, <1>4 DEF PlanTells, Failing

\* Every step keeps to what may be told.
LEMMA TellingStep ==
    ASSUME Inductive, Next
    PROVE  Telling'
<1>0. /\ TypeOK /\ FinishedHasAnswer /\ UnsentBeforeSend /\ NoIntentNoCall
      /\ NamedIsAccepted /\ GoneIsOver
      /\ \A p \in Procs : ProcSound(p) /\ PlanTells(p)
  BY DEF Inductive, Telling
<1>1. NamedIsAccepted' /\ GoneIsOver'
  BY <1>0, NamedStep
<1>2. ASSUME NEW p \in Procs PROVE PlanTells(p)'
  <2>1. CASE proc'[p] = proc[p]
    BY <1>0, <2>1, BystanderTells
  <2>2. CASE p = Starter /\ Start
    BY <1>0, <2>2, StartTells
  <2>3. CASE Check(p) \/ CheckRead(p)
    BY <1>0, <2>3, CheckTells
  <2>4. CASE CancelRead(p)
    <3>1. CASE ObserveNext(p, ReadOf(row', now))
      BY <1>0, <3>1, ObserveTells DEF TypeOK, States
    <3> QED
      BY <2>1, <2>4, <3>1 DEF CancelRead
  <2> QED
    BY <1>0, <2>1, <2>2, <2>3, <2>4, ProcMoves
<1> QED
  BY <1>1, <1>2 DEF Telling

-----------------------------------------------------------------------------
(***************************************************************************)
(* The theorems.                                                           *)
(***************************************************************************)
\* Both initial states satisfy every part.
LEMMA InductiveInit == Init => Inductive
<1> SUFFICES ASSUME Init PROVE Inductive
  OBVIOUS
<1>0. Starter \in Procs /\ None \notin {"failureCallFailed", "failureOverdue", "counted"}
  BY NoneAssumption, ProcsAssumption DEF Procs, Errors
<1>1. TypeOK
  BY TypeInit
<1>2. /\ call.state = "unsent" /\ call.answer = None
      /\ attempt = None /\ usage = FALSE
  BY DEF Init
<1>3. /\ row.status \in {"absent", "pending"}
      /\ row.error = None /\ row.failure = None
      /\ row.startRequestedAt = None /\ row.providerCallId = None
      /\ row.outcomeUnknownAt = None /\ row.settledAt = None /\ row.expiresAt = None
      /\ row.status = "absent" => row = AbsentRow /\ proc[Starter].pc = "intent"
      /\ row.status = "pending" => proc[Starter].pc = "idle"
  <2>1. CASE /\ row = AbsentRow
             /\ proc = [p \in Procs |-> IF p = Starter THEN ProcState("intent", NoRead, NoPlan)
                                                       ELSE Idle]
    BY <1>0, <2>1, AbsentFields DEF ProcState
  <2>2. ASSUME NEW asked \in {None, 0},
               row = [PendingRow(None, FALSE) EXCEPT !.cancelRequestedAt = asked],
               proc = [p \in Procs |-> Idle]
        PROVE  /\ row.status = "pending"
               /\ row.error = None /\ row.failure = None
               /\ row.startRequestedAt = None /\ row.providerCallId = None
               /\ row.outcomeUnknownAt = None /\ row.settledAt = None /\ row.expiresAt = None
               /\ proc[Starter].pc = "idle"
    BY <1>0, <2>2 DEF PendingRow, Idle, ProcState
  <2> QED
    BY <2>1, <2>2 DEF Init
<1>4. \A p \in Procs : ProcSound(p)
  <2> SUFFICES ASSUME NEW p \in Procs PROVE ProcSound(p)
    OBVIOUS
  <2>1. /\ proc[p].pc \in {"idle", "intent"}
        /\ proc[p].gen = NoRead /\ proc[p].plan = NoPlan
    <3>1. proc[p] = Idle \/ proc[p] = ProcState("intent", NoRead, NoPlan)
      BY DEF Init
    <3> QED
      BY <3>1 DEF Idle, ProcState
  <2>2. NoRead.cancelRequestedAt = None
    BY AbsentFields DEF NoRead, ReadOf
  <2>3. NoPlan.response = None /\ NoPlan.usage = "uncounted" /\ None \notin CallTerminal
    BY ProcsAssumption DEF NoPlan, CallTerminal
  <2> QED
    BY <2>1, <2>2, <2>3 DEF ProcSound, AnswerInHand
<1>5. SchemaHolds /\ RecordedOnce /\ ErrorMeansSettled
  BY <1>3 DEF SchemaHolds, RowConstraints, CallMatchesStatus, TerminalFields,
     OutcomeUnknownFailed, FailureFailed, RecordedOnce, ErrorMeansSettled, Settled
<1>6. UnsentBeforeSend /\ NoIntentNoCall /\ FinishedHasAnswer /\ NothingWillRunUnseen
  BY <1>2, <1>3 DEF UnsentBeforeSend, NoIntentNoCall, FinishedHasAnswer, NothingWillRunUnseen,
     CallTerminal, Settled
<1>7. OutcomeTold /\ AnswerKept
  BY <1>0, <1>2, <1>3 DEF OutcomeTold, AnswerKept
<1>8. Telling
  <2>1. \A p \in Procs : proc[p].pc \in {"idle", "intent"}
    <3>1. \A p \in Procs : proc[p] = Idle \/ proc[p] = ProcState("intent", NoRead, NoPlan)
      BY DEF Init
    <3> QED
      BY <3>1 DEF Idle, ProcState
  <2>2. ~late /\ ~call.gone
    BY DEF Init
  <2> QED
    BY <1>3, <2>1, <2>2 DEF Telling, NamedIsAccepted, GoneIsOver, PlanTells
<1> QED
  BY <1>1, <1>4, <1>5, <1>6, <1>7, <1>8 DEF Inductive

\* Every process knows what ProcSound says after a step of any of them.
LEMMA ProcsSound ==
    ASSUME Inductive, Next
    PROVE  \A p \in Procs : ProcSound(p)'
<1> USE DEF Inductive
<1> SUFFICES ASSUME NEW q \in Procs PROVE ProcSound(q)'
  OBVIOUS
<1>0. ProcSound(q) /\ Starter \in Procs
  BY DEF Procs
<1>1. CASE Start
  <2>1. CASE q = Starter
    BY <1>0, <1>1, <2>1, StartSound
  <2>2. CASE q # Starter
    BY <1>0, <1>1, <2>2, Bystander, StartMoves
  <2> QED
    BY <2>1, <2>2
<1>2. ASSUME NEW p \in Procs, Check(p) \/ CheckRead(p) \/ CancelRead(p)
      PROVE  ProcSound(q)'
  <2>1. CASE q = p
    BY <1>0, <1>2, <2>1, CheckSound
  <2>2. CASE q # p
    BY <1>0, <1>2, <2>2, Bystander, CheckMoves
  <2> QED
    BY <2>1, <2>2
<1>3. CASE LateWriteLands \/ Provider \/ DropProvider \/ Tick
  <2>1. proc' = proc
    BY <1>3 DEF LateWriteLands, Provider, ProviderAccept, ProviderRefuse, ProviderRun,
       ProviderFinish, ProviderForget, CallBecomes, DropProvider, Tick
  <2> QED
    BY <1>0, <2>1, Bystander
<1> QED
  BY <1>1, <1>2, <1>3 DEF Next, Procs

\* Every step of every process preserves the inductive invariant.
LEMMA InductiveStep == Inductive /\ [Next]_vars => Inductive'
<1>1. ASSUME Inductive, Next PROVE Inductive'
  <2> USE <1>1
  <2>0. /\ TypeOK /\ SchemaHolds /\ RecordedOnce /\ ErrorMeansSettled /\ UnsentBeforeSend
        /\ NoIntentNoCall /\ FinishedHasAnswer /\ NothingWillRunUnseen /\ OutcomeTold /\ AnswerKept
        /\ \A p \in Procs : ProcSound(p)
    BY DEF Inductive
  <2>1. \A p \in Procs : proc[p].pc = "commit" => PlanSound(p)
    BY <2>0 DEF ProcSound
  <2>2. \A p \in Procs : proc[p].pc = "commit" =>
           /\ proc[p].plan.status \in Settled
           /\ proc[p].plan.failure # None => proc[p].plan.status = "failed"
    BY <2>1 DEF PlanSound
  <2>3. TypeOK'
    BY <2>0, <2>2, TypeStep
  <2>4. SchemaHolds' /\ ErrorMeansSettled'
    BY <2>0, <2>2, SchemaStep
  <2>5. RecordedOnce'
    BY <2>0, <2>2, RecordedOnceStep
  <2>6. UnsentBeforeSend' /\ NoIntentNoCall'
    BY <2>0, <2>2, NoIntentStep
  <2>7. FinishedHasAnswer'
    BY <2>0, CallMoves
  <2>8. NothingWillRunUnseen'
    BY <2>0, <2>1, UnseenStep
  <2>9. OutcomeTold'
    BY <2>0, OutcomeStep
  <2>10. AnswerKept'
    BY <2>0, AnswerKeptStep
  <2>11. \A p \in Procs : ProcSound(p)'
    BY ProcsSound
  <2>12. Telling'
    BY TellingStep
  <2> QED
    BY <2>3, <2>4, <2>5, <2>6, <2>7, <2>8, <2>9, <2>10, <2>11, <2>12 DEF Inductive
<1>2. ASSUME Inductive, UNCHANGED vars PROVE Inductive'
  <2>1. TypeOK' /\ SchemaHolds' /\ RecordedOnce' /\ ErrorMeansSettled'
    BY <1>2 DEF vars, Inductive, TypeOK, SchemaHolds, RowConstraints, CallMatchesStatus,
       TerminalFields, OutcomeUnknownFailed, FailureFailed, RecordedOnce, ErrorMeansSettled
  <2>2. UnsentBeforeSend' /\ NoIntentNoCall' /\ FinishedHasAnswer' /\ NothingWillRunUnseen'
    BY <1>2 DEF vars, Inductive, UnsentBeforeSend, NoIntentNoCall, FinishedHasAnswer,
       NothingWillRunUnseen
  <2>3. OutcomeTold' /\ AnswerKept'
    BY <1>2 DEF vars, Inductive, OutcomeTold, AnswerKept
  <2>4. \A p \in Procs : ProcSound(p)'
    BY <1>2 DEF vars, Inductive, ProcSound, PlanSound, AnswerInHand
  <2>5. NamedIsAccepted' /\ GoneIsOver'
    BY <1>2 DEF vars, Inductive, Telling, NamedIsAccepted, Accepted, GoneIsOver
  <2>6. \A p \in Procs : PlanTells(p)'
    BY <1>2 DEF vars, Inductive, Telling, PlanTells, Failing, Keeping
  <2> QED
    BY <2>1, <2>2, <2>3, <2>4, <2>5, <2>6 DEF Inductive, Telling
<1> QED
  BY <1>1, <1>2

\* The inductive invariant holds of every state that any number of polls, cancels and sweeps reach,
\* with any durations and any horizon: what a check holds never outdates its commit.
THEOREM InductiveHolds == Spec => []Inductive
BY InductiveInit, InductiveStep, PTL DEF Spec

\* Every variable keeps its type: the clock, the row, the call and each process's read and plan.
THEOREM TypesHold == Spec => []TypeOK
<1>1. Inductive => TypeOK
  BY DEF Inductive
<1> QED
  BY <1>1, InductiveHolds, PTL

\* No statement of the checks is ever refused by a constraint of the generations table.
THEOREM SchemaAlwaysHolds == Spec => []SchemaHolds
<1>1. Inductive => SchemaHolds
  BY DEF Inductive
<1> QED
  BY <1>1, InductiveHolds, PTL

\* A settled generation without a call, unless outcome_unknown, has nothing running at the provider:
\* whatever froze, crashed or raced its start.
THEOREM NothingEverRunsUnseen == Spec => []NothingRunsUnseen
<1>1. Inductive => NothingRunsUnseen
  BY DEF Inductive, NothingWillRunUnseen, NothingRunsUnseen
<1> QED
  BY <1>1, InductiveHolds, PTL

\* Succeeded, failed and cancelled are told only of a call that became so.
THEOREM OutcomeAlwaysTold == Spec => []OutcomeTold
<1>1. Inductive => OutcomeTold
  BY DEF Inductive
<1> QED
  BY <1>1, InductiveHolds, PTL

\* The settlement, the answer and its usage are committed together.
THEOREM AnswerAlwaysKept == Spec => []AnswerKept
<1>1. Inductive => AnswerKept
  BY DEF Inductive
<1> QED
  BY <1>1, InductiveHolds, PTL

\* A settled row and its answer never change again, however late a check or a write lands.
THEOREM SettledStaysFinal == Spec => SettledIsFinal
<1>1. Inductive /\ [Next]_vars => [row.status \in Settled => row' = row /\ attempt' = attempt]_vars
  <2> SUFFICES ASSUME Inductive, Next, row.status \in Settled
               PROVE  row' = row /\ attempt' = attempt
    OBVIOUS
  <2>1. ~SubmitCommit
    BY DEF SubmitCommit, Inductive, RecordedOnce, Settled
  <2>2. ~RecordMatches(row) /\ ~CancelMatches(row) /\ row.status \notin Live
    BY DEF RecordMatches, CancelMatches, Settled, Live
  <2>3. ~ \E p \in Procs : CommitApplied(p)
    BY <2>2 DEF CommitApplied, SettleMatches
  <2>4. ~ \E p \in Checks : CancelRead(p)
    BY <2>2 DEF CancelRead
  <2> QED
    BY <2>1, <2>2, <2>3, <2>4, RowMoves
<1> QED
  BY <1>1, InductiveHolds, PTL DEF Spec, SettledIsFinal

\* The start intent, the call's id and the first cancel are written once.
THEOREM MarksStay == Spec => MarksAreWrittenOnce
<1> DEFINE Marks ==
             row.status # "absent" =>
               /\ row'.startRequestedAt = row.startRequestedAt
               /\ row.providerCallId # None => row'.providerCallId = row.providerCallId
               /\ row.cancelRequestedAt # None => row'.cancelRequestedAt = row.cancelRequestedAt
<1>1. Inductive /\ [Next]_vars => [Marks]_vars
  <2> SUFFICES ASSUME Inductive, Next, row.status # "absent" PROVE Marks
    OBVIOUS
  <2>0. row \in Rows /\ now \in Nat
    BY DEF Inductive, TypeOK
  <2>1. ~SubmitCommit
    BY DEF SubmitCommit, Inductive, RecordedOnce
  <2>2. CASE row' = row
    BY <2>2
  <2>3. CASE RecordMatches(row) /\ row' = RecordProviderCall(row)
    <3>1. row.providerCallId \in {CallId, None}
      BY <2>0 DEF Rows
    <3> QED
      BY <2>0, <2>3, <3>1, RecordFields
  <2>4. ASSUME NEW p \in Procs, CommitApplied(p) PROVE Marks
    BY <2>0, <2>4, SettleFields DEF CommitApplied
  <2>5. ASSUME NEW p \in Checks, CancelRead(p) PROVE Marks
    BY <2>0, <2>5, CancelFields DEF CancelRead
  <2> QED
    BY <2>1, <2>2, <2>3, <2>4, <2>5, RowMoves
<1> QED
  BY <1>1, InductiveHolds, PTL DEF Spec, MarksAreWrittenOnce

\* What settled a generation, and the instants its checks measure from, are written once.
THEOREM WrittenOnceHolds == Spec => WrittenOnce
BY SettledStaysFinal, MarksStay DEF WrittenOnce

-----------------------------------------------------------------------------
(***************************************************************************)
(* Timing.  What a process read still stands, so an age it computed is     *)
(* reached, and what it decided by that age is true when it commits.       *)
(***************************************************************************)
\* The clock and the Starter's own instants only move on.
LEMMA ClockMoves ==
    ASSUME TypeOK, Next
    PROVE  /\ now \in Nat /\ now' \in Nat /\ now =< now'
           /\ start.intentAt \in Nat /\ start'.intentAt = start.intentAt
           /\ start.orphanStopped => start'.orphanStopped
<1>0. /\ now \in Nat
      /\ start \in [intentAt : Nat, until : Nat, pause : Nat, orphanStopped : BOOLEAN]
  BY DEF TypeOK
<1>1. now' = now \/ now' = now + 1
  <2>1. CASE Start
    BY <2>1 DEF Start, SubmitInsert, SubmitCommit, StartRefused, StartFresh, StartSend, StartNotSent,
       StartFails, StartNamed, RecordAnswered, RecordUnanswered, RecordAgain, RecordReadBack,
       HoldEnds, OrphanStop, OrphanUsage
  <2>2. ASSUME NEW p \in Procs, Check(p) \/ CheckRead(p) \/ CancelRead(p) PROVE now' = now
    BY <2>2 DEF Check, GetCall, StopCall, Relabel, CommitApplied, CommitChanged, CommitRefused,
       Abort, CheckRead, CancelRead
  <2>3. CASE LateWriteLands \/ Provider \/ DropProvider \/ Tick
    BY <2>3 DEF LateWriteLands, Provider, ProviderAccept, ProviderRefuse, ProviderRun,
       ProviderFinish, ProviderForget, CallBecomes, DropProvider, Tick
  <2> QED
    BY <2>1, <2>2, <2>3 DEF Next, Procs
<1>2. /\ start'.intentAt = start.intentAt
      /\ start.orphanStopped => start'.orphanStopped
  <2>1. CASE \/ SubmitInsert \/ SubmitCommit \/ StartRefused \/ StartNotSent \/ StartFails
             \/ RecordReadBack \/ HoldEnds \/ OrphanUsage
    BY <2>1 DEF SubmitInsert, SubmitCommit, StartRefused, StartNotSent, StartFails, RecordReadBack,
       HoldEnds, OrphanUsage
  <2>2. CASE StartFresh \/ StartSend \/ StartNamed
    BY <1>0, <2>2 DEF StartFresh, StartSend, StartNamed
  <2>3. CASE RecordAnswered \/ RecordUnanswered \/ RecordAgain \/ OrphanStop
    BY <1>0, <2>3 DEF RecordAnswered, RecordUnanswered, RecordAgain, OrphanStop
  <2>4. ASSUME NEW p \in Procs, Check(p) \/ CheckRead(p) \/ CancelRead(p) PROVE start' = start
    BY <2>4 DEF Check, GetCall, StopCall, Relabel, CommitApplied, CommitChanged, CommitRefused,
       Abort, CheckRead, CancelRead
  <2>5. CASE LateWriteLands \/ Provider \/ DropProvider \/ Tick
    BY <2>5 DEF LateWriteLands, Provider, ProviderAccept, ProviderRefuse, ProviderRun,
       ProviderFinish, ProviderForget, CallBecomes, DropProvider, Tick
  <2> QED
    BY <2>1, <2>2, <2>3, <2>4, <2>5 DEF Next, Start, Procs
<1> QED
  BY <1>0, <1>1, <1>2

\* No statement rewrites whether a recorded call streams.
LEMMA StreamedStays ==
    ASSUME NEW r \in Rows, NEW outcome, NEW at
    PROVE  /\ RecordProviderCall(r).streamed = r.streamed
           /\ Settle(r, outcome, at).streamed = r.streamed
           /\ RequestCancel(r, at).streamed = r.streamed
BY DEF RecordProviderCall, Settle, RequestCancel, Rows

\* What a recorded row holds, it keeps.
LEMMA MarksKept ==
    ASSUME Inductive, Next, row.status # "absent"
    PROVE  /\ row'.startRequestedAt = row.startRequestedAt
           /\ row'.streamed = row.streamed
           /\ row.providerCallId # None => row'.providerCallId # None
           /\ row.cancelRequestedAt # None => row'.cancelRequestedAt # None
<1>0. row \in Rows /\ now \in Nat
  BY DEF Inductive, TypeOK
<1>1. ~SubmitCommit
  BY DEF SubmitCommit, Inductive, RecordedOnce
<1>2. CASE row' = row
  BY <1>2
<1>3. CASE RecordMatches(row) /\ row' = RecordProviderCall(row)
  BY <1>0, <1>3, RecordFields, StreamedStays, NotNull
<1>4. ASSUME NEW p \in Procs, CommitApplied(p)
      PROVE  /\ row'.startRequestedAt = row.startRequestedAt
             /\ row'.streamed = row.streamed
             /\ row'.providerCallId = row.providerCallId
             /\ row'.cancelRequestedAt = row.cancelRequestedAt
  BY <1>0, <1>4, SettleFields, StreamedStays DEF CommitApplied
<1>5. ASSUME NEW p \in Checks, CancelRead(p)
      PROVE  /\ row'.startRequestedAt = row.startRequestedAt
             /\ row'.streamed = row.streamed
             /\ row'.providerCallId = row.providerCallId
             /\ row'.cancelRequestedAt # None
  BY <1>0, <1>5, CancelFields, StreamedStays DEF CancelRead
<1> QED
  BY <1>1, <1>2, <1>3, <1>4, <1>5, RowMoves

\* A row that is not there has neither a start nor a call.
LEMMA AbsentHasNone ==
    ASSUME Inductive, row.status = "absent"
    PROVE  /\ row.startRequestedAt = None /\ row.providerCallId = None
           /\ row.cancelRequestedAt = None /\ row.error = None
BY AbsentFields DEF Inductive, RecordedOnce

\* A generation past a ceiling stays so, and a reason to stop a call is never taken back.
LEMMA ReasonsStay ==
    ASSUME Inductive, Next
    PROVE  PastByNow => PastByNow'
<1>0. /\ row \in Rows /\ now \in Nat /\ now' \in Nat /\ now =< now'
  BY ClockMoves DEF Inductive, TypeOK
<1> SUFFICES ASSUME PastByNow PROVE PastByNow'
  OBVIOUS
<1>1. row.status # "absent"
  BY AbsentHasNone DEF PastByNow
<1>2. row'.startRequestedAt = row.startRequestedAt /\ row'.streamed = row.streamed
  BY <1>1, MarksKept
<1>3. row.startRequestedAt \in Nat
  BY <1>0 DEF PastByNow, Rows, Instants
<1> QED
  BY <1>0, <1>2, <1>3, DurationsAssumption DEF PastByNow

\* So is every reason together.
LEMMA DueStays ==
    ASSUME Inductive, Next, StopDue
    PROVE  StopDue'
<1>1. row.cancelRequestedAt # None => row'.cancelRequestedAt # None
  BY MarksKept, AbsentHasNone
<1> QED
  BY <1>1, ReasonsStay, ClockMoves DEF StopDue, Inductive

\* Why a stop is wanted of a read that still stands: its owner asked, or its run ceiling passed.
LEMMA StopWanted ==
    ASSUME NEW gen \in Reads, StopSince(gen) # None
    PROVE  \/ gen.cancelRequestedAt # None
           \/ Age(gen) >= RunCeiling
BY DEF StopSince

\* An age that a read of the row tells is reached by any later instant.
LEMMA AgeTells ==
    ASSUME NEW r \in Rows, NEW at \in Nat, NEW gen \in Reads, r.startRequestedAt # None,
           gen.readAt =< at, gen.startRequestedAt = r.startRequestedAt, NEW ceiling \in Nat,
           Age(gen) >= ceiling
    PROVE  at >= r.startRequestedAt + ceiling
<1>1. r.startRequestedAt \in Nat /\ gen.readAt \in Nat
  BY DEF Rows, Instants, Reads
<1> QED
  BY <1>1 DEF Age

\* A process that sees a ceiling passed on the row it follows sees what holds.
LEMMA CeilingTells ==
    ASSUME Inductive, NEW p \in Procs, Follows(p), proc[p].gen.providerCallId # None,
           \/ Age(proc[p].gen) >= RunCeiling
           \/ proc[p].gen.streamed /\ Age(proc[p].gen) >= StreamQueuedCeiling
    PROVE  PastByNow
<1>0. proc[p].gen \in Reads /\ row \in Rows /\ now \in Nat
  BY DEF Inductive, TypeOK
<1>1. row.startRequestedAt # None
  BY DEF Inductive, NoIntentNoCall, Follows
<1> QED
  BY <1>0, <1>1, AgeTells, DurationsAssumption DEF PastByNow, Follows

\* A read taken by a step shows the row as the step left it.
FreshRead(gen) ==
    \/ gen = NoRead
    \/ gen.readAt = now /\ gen.providerCallId = None
    \/ gen = ReadOf(row', now)

SameRead(gen, old) ==
    /\ gen.readAt = old.readAt /\ gen.providerCallId = old.providerCallId
    /\ gen.startRequestedAt = old.startRequestedAt /\ gen.streamed = old.streamed

\* A check goes on with the read it has, or takes a fresh one.
LEMMA CheckReads ==
    ASSUME TypeOK, NEW p \in Procs, Check(p) \/ CheckRead(p) \/ CancelRead(p)
    PROVE  FreshRead(proc'[p].gen) \/ SameRead(proc'[p].gen, proc[p].gen)
<1>0. proc \in [Procs -> States] /\ proc[p].gen \in Reads
  BY DEF TypeOK, States
<1>1. CASE GetCall(p)
  BY <1>0, <1>1, BecomeAt
     DEF GetCall, LostNext, AnswerNext, CommitNext, Goto, End, FreshRead, SameRead
<1>2. CASE StopCall(p)
  <2>1. ASSUME NEW state, NEW answer, AnswerNext(p, state, answer, TRUE)
        PROVE  proc'[p].gen = proc[p].gen
    BY <1>0, <2>1, BecomeAt DEF AnswerNext, CommitNext
  <2>2. UnstoppedNext(p) => proc'[p].gen \in {proc[p].gen, NoRead}
    BY <1>0, BecomeAt DEF UnstoppedNext, CommitNext, End
  <2>3. LostNext(p) => proc'[p].gen = proc[p].gen
    BY <1>0, BecomeAt DEF LostNext, CommitNext
  <2>4. proc'[p].gen \in {proc[p].gen, NoRead}
    BY <1>2, <2>1, <2>2, <2>3 DEF StopCall
  <2> QED
    BY <2>4 DEF FreshRead, SameRead
<1>3. CASE Relabel(p)
  <2>1. proc'[p].gen = [proc[p].gen EXCEPT !.cancelRequestedAt = row.cancelRequestedAt]
    BY <1>0, <1>3, BecomeAt DEF Relabel
  <2> QED
    BY <1>0, <2>1 DEF SameRead, Reads
<1>4. CASE CommitApplied(p) \/ CommitChanged(p) \/ CommitRefused(p) \/ Abort(p)
  BY <1>0, <1>4, BecomeAt
     DEF CommitApplied, CommitChanged, CommitRefused, Abort, CommitNext, End, FreshRead, SameRead
<1>5. CASE CheckRead(p)
  <2>1. row' = row
    BY <1>5 DEF CheckRead
  <2>2. proc'[p].gen = ReadOf(row, now)
    BY <1>0, <1>5, BecomeAt DEF CheckRead, ObserveNext, Begin
  <2> QED
    BY <2>1, <2>2 DEF FreshRead
<1>6. CASE CancelRead(p)
  <2>1. CASE proc' = proc
    BY <2>1 DEF SameRead
  <2>2. CASE ObserveNext(p, ReadOf(row', now))
    <3>1. proc'[p].gen = ReadOf(row', now)
      BY <1>0, <2>2, BecomeAt DEF ObserveNext, Begin
    <3> QED
      BY <3>1 DEF FreshRead
  <2> QED
    BY <1>6, <2>1, <2>2 DEF CancelRead
<1> QED
  BY <1>1, <1>2, <1>3, <1>4, <1>5, <1>6 DEF Check

\* So does the Starter.
LEMMA StartReads ==
    ASSUME TypeOK, Start
    PROVE  FreshRead(proc'[Starter].gen) \/ SameRead(proc'[Starter].gen, proc[Starter].gen)
<1>0. proc \in [Procs -> States] /\ Starter \in Procs
  BY DEF TypeOK, States, Procs
<1>1. CASE SubmitInsert
  <2>1. PICK streamed \in Modes : Begin(Starter, "admit", ReadOf(PendingRow(now, streamed), now))
    BY <1>1 DEF SubmitInsert
  <2>2. proc'[Starter].gen = ReadOf(PendingRow(now, streamed), now)
    BY <1>0, <2>1, BecomeAt DEF Begin
  <2> QED
    BY <2>2, PendingFields DEF FreshRead, ReadOf
<1>2. CASE \/ SubmitCommit \/ StartRefused \/ StartFresh \/ StartSend \/ StartNotSent
           \/ StartFails \/ StartNamed
  BY <1>0, <1>2, BecomeAt DEF SubmitCommit, StartRefused, StartFresh, StartSend, StartNotSent,
     StartFails, StartNamed, Goto, CommitNext, SameRead
<1>3. CASE RecordUnanswered \/ RecordAgain
  BY <1>0, <1>3, BecomeAt DEF RecordUnanswered, RecordAgain, Goto, SameRead
<1>4. ASSUME NEW gen, RecordedNext(gen) \/ StartedNext(gen)
      PROVE  proc'[Starter].gen \in {gen, NoRead}
  BY <1>0, <1>4, BecomeAt DEF RecordedNext, StartedNext, ObserveNext, Begin, End
<1>5. CASE RecordAnswered
  <2>1. CASE RecordedNext(ReadOf(row', now))
    BY <1>4, <2>1 DEF FreshRead
  <2>2. ASSUME NEW pc, Goto(Starter, pc) PROVE SameRead(proc'[Starter].gen, proc[Starter].gen)
    BY <1>0, <2>2, BecomeAt DEF Goto, SameRead
  <2> QED
    BY <1>5, <2>1, <2>2 DEF RecordAnswered
<1>6. CASE RecordReadBack
  <2>1. CASE RecordedNext(ReadOf(row, now))
    <3>1. row' = row
      BY <1>6 DEF RecordReadBack
    <3> QED
      BY <1>4, <2>1, <3>1 DEF FreshRead
  <2>2. CASE Goto(Starter, "orphan")
    BY <1>0, <2>2, BecomeAt DEF Goto, SameRead
  <2> QED
    BY <1>6, <2>1, <2>2 DEF RecordReadBack
<1>7. CASE HoldEnds
  BY <1>4, <1>7 DEF HoldEnds, FreshRead, SameRead
<1>8. CASE OrphanStop \/ OrphanUsage
  <2>1. ASSUME NEW answer, OrphanAnswered(answer)
        PROVE  proc'[Starter].gen \in {proc[Starter].gen, NoRead}
    BY <1>0, <2>1, BecomeAt DEF OrphanAnswered, End
  <2>2. End(Starter) => proc'[Starter].gen = NoRead
    BY <1>0, BecomeAt DEF End
  <2>3. proc'[Starter].gen \in {proc[Starter].gen, NoRead}
    BY <1>8, <2>1, <2>2 DEF OrphanStop, OrphanUsage
  <2> QED
    BY <2>3 DEF FreshRead, SameRead
<1> QED
  BY <1>1, <1>2, <1>3, <1>5, <1>6, <1>7, <1>8 DEF Start

\* What a process read still stands after any step.
LEMMA FollowsStep ==
    ASSUME Inductive, Next, NEW p \in Procs, Follows(p)
    PROVE  Follows(p)'
<1>0. TypeOK /\ proc[p].gen \in Reads
  BY DEF Inductive, TypeOK
<1>1. FreshRead(proc'[p].gen) \/ SameRead(proc'[p].gen, proc[p].gen)
  <2>1. proc'[p] = proc[p] => SameRead(proc'[p].gen, proc[p].gen)
    BY DEF SameRead
  <2> QED
    BY <1>0, <2>1, ProcMoves, StartReads, CheckReads
<1>2. now \in Nat /\ now' \in Nat /\ now =< now'
  BY <1>0, ClockMoves
<1>3. CASE SameRead(proc'[p].gen, proc[p].gen)
  <2>1. proc[p].gen.readAt \in Nat /\ proc[p].gen.readAt =< now
    BY <1>0 DEF Follows, Reads
  <2>2. ASSUME proc[p].gen.providerCallId # None
        PROVE  /\ row'.providerCallId # None
               /\ row'.startRequestedAt = row.startRequestedAt /\ row'.streamed = row.streamed
    BY <2>2, MarksKept, AbsentHasNone DEF Follows
  <2> QED
    BY <1>2, <1>3, <2>1, <2>2 DEF Follows, SameRead
<1>4. CASE FreshRead(proc'[p].gen)
  <2>1. NoRead.readAt = 0 /\ NoRead.providerCallId = None
    BY AbsentFields DEF NoRead, ReadOf
  <2>2. /\ ReadOf(row', now).readAt = now
        /\ ReadOf(row', now).providerCallId = row'.providerCallId
        /\ ReadOf(row', now).startRequestedAt = row'.startRequestedAt
        /\ ReadOf(row', now).streamed = row'.streamed
    BY DEF ReadOf
  <2>3. proc'[p].gen.readAt =< now'
    BY <1>2, <1>4, <2>1, <2>2 DEF FreshRead
  <2>4. ASSUME proc'[p].gen.providerCallId # None PROVE proc'[p].gen = ReadOf(row', now)
    BY <1>4, <2>1, <2>4 DEF FreshRead
  <2> QED
    BY <2>2, <2>3, <2>4 DEF Follows
<1> QED
  BY <1>1, <1>3, <1>4

-----------------------------------------------------------------------------
(***************************************************************************)
(* Why a call was stopped.                                                 *)
(***************************************************************************)
\* observe stops a call at once only if its owner asked or its ceiling passed.
LEMMA ObserveExplained ==
    ASSUME Inductive, Inductive', NEW p \in Procs, NEW gen, ObserveNext(p, gen), Follows(p)',
           gen.providerCallId # None
    PROVE  StopExplained(p)'
<1>0. proc \in [Procs -> States] /\ proc'[p].gen \in Reads
  BY DEF Inductive, TypeOK, States
<1>1. /\ proc'[p].gen = gen
      /\ proc'[p].pc = "stop" => StopSince(gen) # None
      /\ proc'[p].pc = "commit" => proc'[p].plan.error = "failureProviderUnavailable"
  BY <1>0, BecomeAt DEF ObserveNext, Begin, FailurePlan
<1>2. ASSUME proc'[p].pc = "stop" PROVE gen.cancelRequestedAt # None \/ PastByNow'
  <2>1. CASE Age(gen) >= RunCeiling
    <3>1. /\ row' \in Rows /\ now' \in Nat /\ gen \in Reads
          /\ row'.startRequestedAt # None /\ gen.readAt =< now'
          /\ gen.startRequestedAt = row'.startRequestedAt
      BY <1>0, <1>1 DEF Inductive, TypeOK, NoIntentNoCall, Follows
    <3> QED
      BY <2>1, <3>1, AgeTells, DurationsAssumption DEF PastByNow
  <2> QED
    BY <1>0, <1>1, <1>2, <2>1, StopWanted
<1> QED
  BY <1>1, <1>2 DEF StopExplained

\* An answer is told late only if its stop was wanted, or once its label was read again.
LEMMA AnswerExplained ==
    ASSUME proc \in [Procs -> States], NEW p \in Procs, NEW state \in CallTerminal, NEW answer,
           NEW stopWanted \in BOOLEAN, AnswerNext(p, state, answer, stopWanted)
    PROVE  /\ proc'[p].pc \in {"label", "commit"}
           /\ proc'[p].pc = "commit" /\ proc'[p].plan.error = "failureOverdue" =>
                 stopWanted /\ proc[p].gen.cancelRequestedAt = None
<1> DEFINE gen == proc[p].gen
<1>1. /\ OutcomePlan(gen, state, answer).error = "failureOverdue" =>
            state = "cancelled" /\ gen.cancelRequestedAt = None
      /\ FailurePlan("failureResponseTooLarge", "outcome_unknown", None).error # "failureOverdue"
  <2>1. None # "failureOverdue"
    BY NotNull DEF Errors
  <2> QED
    BY <2>1 DEF OutcomePlan, FailurePlan, CallTerminal
<1> HIDE DEF gen
<1>2. \/ /\ proc'[p].pc = "commit"
         /\ proc'[p].plan = FailurePlan("failureResponseTooLarge", "outcome_unknown", None)
      \/ proc'[p].pc = "label"
      \/ /\ proc'[p].pc = "commit"
         /\ proc'[p].plan = OutcomePlan(gen, state, answer)
         /\ ~(state = "cancelled" /\ gen.cancelRequestedAt = None /\ ~stopWanted)
  BY BecomeAt DEF AnswerNext, CommitNext, gen
<1> QED
  BY <1>1, <1>2 DEF gen

\* A process that ends, or commits a failure of another kind, owes no explanation.
LEMMA OtherExplained ==
    ASSUME proc \in [Procs -> States], NEW p \in Procs,
           \/ End(p) \/ LostNext(p)
           \/ \E error \in Errors \ {"failureOverdue"} : \E failure, response :
                 CommitNext(p, FailurePlan(error, failure, response))
    PROVE  StopExplained(p)'
<1>1. CASE End(p)
  <2>1. proc'[p].pc = "idle"
    BY <1>1, BecomeAt DEF End
  <2> QED
    BY <2>1 DEF StopExplained
<1>2. ASSUME NEW error \in Errors \ {"failureOverdue"}, NEW failure, NEW response,
             CommitNext(p, FailurePlan(error, failure, response))
      PROVE  StopExplained(p)'
  <2>1. proc'[p].pc = "commit" /\ proc'[p].plan = FailurePlan(error, failure, response)
    BY <1>2, BecomeAt DEF CommitNext
  <2>2. proc'[p].plan.error = error
    BY <2>1 DEF FailurePlan
  <2> QED
    BY <2>1, <2>2 DEF StopExplained
<1>3. CASE LostNext(p)
  BY <1>2, <1>3 DEF LostNext, Errors
<1> QED
  BY <1>1, <1>2, <1>3

\* A check gives its reason for every stop it asks and for every overdue it tells.
LEMMA CheckExplained ==
    ASSUME Inductive, Next, NEW p \in Procs, Check(p), Follows(p), StopExplained(p), CancelExplained
    PROVE  StopExplained(p)'
<1>0. proc \in [Procs -> States] /\ ProcSound(p)
  BY DEF Inductive, TypeOK, States
<1>1. CASE GetCall(p)
  <2>1. CASE Finished /\ AnswerNext(p, call.state, call.answer, FALSE)
    <3>1. call.state \in CallTerminal
      BY <2>1 DEF Finished
    <3> QED
      BY <1>0, <2>1, <3>1, AnswerExplained DEF StopExplained
  <2>2. CASE /\ Goto(p, "stop") /\ proc[p].gen.streamed
             /\ Age(proc[p].gen) >= StreamQueuedCeiling
    <3>1. PastByNow
      BY <1>0, <1>1, <2>2, CeilingTells DEF ProcSound, GetCall
    <3>2. proc'[p].pc = "stop"
      BY <1>0, <2>2, BecomeAt DEF Goto
    <3> QED
      BY <3>1, <3>2, ReasonsStay DEF StopExplained
  <2> QED
    BY <1>0, <1>1, <2>1, <2>2, OtherExplained DEF GetCall
<1>2. CASE StopCall(p)
  <2>1. proc[p].gen.cancelRequestedAt = None => PastByNow'
    BY <1>2, ReasonsStay DEF StopExplained, StopCall
  <2>2. ASSUME NEW state \in CallTerminal, NEW answer, AnswerNext(p, state, answer, TRUE)
        PROVE  StopExplained(p)'
    BY <1>0, <2>1, <2>2, AnswerExplained DEF StopExplained
  <2>3. CASE UnstoppedNext(p)
    BY <1>0, <2>3, OtherExplained DEF UnstoppedNext, Errors
  <2>4. Finished => call.state \in CallTerminal
    BY DEF Finished
  <2>5. "cancelled" \in CallTerminal
    BY DEF CallTerminal
  <2> QED
    BY <1>0, <1>2, <2>2, <2>3, <2>4, <2>5, OtherExplained DEF StopCall
<1>3. CASE Relabel(p)
  <2> DEFINE gen == [proc[p].gen EXCEPT !.cancelRequestedAt = row.cancelRequestedAt]
             plan == OutcomePlan(gen, "cancelled", proc[p].plan.usage)
  <2>1. proc'[p].pc = "commit" /\ proc'[p].plan = plan
    BY <1>0, <1>3, BecomeAt DEF Relabel
  <2>2. gen.cancelRequestedAt = row.cancelRequestedAt
    BY DEF Inductive, TypeOK, Reads
  <2>3. plan.error = "failureOverdue" => row.cancelRequestedAt = None
    BY <2>2 DEF OutcomePlan
  <2>4. call.state = "cancelled"
    BY <1>0, <1>3 DEF Relabel, ProcSound, AnswerInHand, CallTerminal
  <2>5. plan.error = "failureOverdue" => PastByNow \/ start.orphanStopped
    BY <2>3, <2>4 DEF CancelExplained, StopDue
  <2> HIDE DEF plan
  <2> QED
    BY <2>1, <2>5, ReasonsStay, ClockMoves DEF StopExplained, Inductive
<1>4. CASE CommitApplied(p) \/ CommitChanged(p) \/ CommitRefused(p) \/ Abort(p)
  BY <1>0, <1>4, OtherExplained DEF CommitApplied, CommitChanged, CommitRefused, Abort, Errors
<1> QED
  BY <1>1, <1>2, <1>3, <1>4 DEF Check

\* So does a read, and the Starter.
LEMMA ReadExplained ==
    ASSUME Inductive, Inductive', NEW p \in Procs, Follows(p)', CheckRead(p) \/ CancelRead(p),
           StopExplained(p)
    PROVE  StopExplained(p)'
<1>0. proc \in [Procs -> States] /\ proc[p].pc = "idle"
  BY DEF Inductive, TypeOK, States, CheckRead, CancelRead
<1>1. CASE CheckRead(p)
  <2> DEFINE gen == ReadOf(row, now)
  <2>1. CASE ObserveNext(p, gen) /\ gen.providerCallId # None
    BY <2>1, ObserveExplained
  <2>2. ASSUME NEW plan, Become(p, "commit", gen, plan), plan.error # "failureOverdue"
        PROVE  StopExplained(p)'
    BY <1>0, <2>2, BecomeAt DEF StopExplained
  <2>3. /\ CancelledPlan.error # "failureOverdue"
        /\ FailurePlan("failureOutcomeUnknown", "outcome_unknown", None).error # "failureOverdue"
        /\ FailurePlan("failureStartFailed", "not_started", None).error # "failureOverdue"
    BY DEF CancelledPlan, FailurePlan
  <2> QED
    BY <1>1, <2>1, <2>2, <2>3 DEF CheckRead
<1>2. CASE CancelRead(p)
  <2>1. CASE proc' = proc
    BY <1>0, <2>1 DEF StopExplained
  <2>2. CASE ObserveNext(p, ReadOf(row', now)) /\ row'.providerCallId # None
    BY <2>2, ObserveExplained, ReadFields
  <2> QED
    BY <1>2, <2>1, <2>2 DEF CancelRead
<1> QED
  BY <1>1, <1>2

\* The Starter stops the call it recorded for the same reasons.
LEMMA StartExplained ==
    ASSUME Inductive, Inductive', Start, Follows(Starter)'
    PROVE  StopExplained(Starter)'
<1>0. /\ proc \in [Procs -> States] /\ Starter \in Procs /\ ProcSound(Starter)
      /\ row \in Rows
  BY DEF Inductive, TypeOK, States, Procs
<1>1. ASSUME NEW pc, NEW gen, NEW plan, pc \notin {"stop", "commit"}, Become(Starter, pc, gen, plan)
      PROVE  StopExplained(Starter)'
  BY <1>0, <1>1, BecomeAt DEF StopExplained
<1>2. ASSUME NEW gen, gen.providerCallId # None, RecordedNext(gen) \/ StartedNext(gen)
      PROVE  StopExplained(Starter)'
  BY <1>0, <1>1, <1>2, ObserveExplained, OtherExplained DEF RecordedNext, StartedNext, Begin
<1>3. CASE \/ SubmitInsert \/ SubmitCommit \/ StartFresh \/ StartSend \/ StartNamed
           \/ RecordUnanswered \/ RecordAgain
  BY <1>1, <1>3 DEF SubmitInsert, SubmitCommit, StartFresh, StartSend, StartNamed,
     RecordUnanswered, RecordAgain, Begin, Goto
<1>4. CASE StartRefused \/ StartNotSent \/ StartFails
  BY <1>0, <1>4, OtherExplained DEF StartRefused, StartNotSent, StartFails, Errors
<1>5. CASE RecordAnswered
  <2>1. CASE row' = RecordProviderCall(row) /\ RecordedNext(ReadOf(row', now))
    <3>1. ReadOf(row', now).providerCallId # None
      BY <1>0, <2>1, RecordFields, ReadFields, NotNull
    <3> QED
      BY <1>2, <2>1, <3>1
  <2> QED
    BY <1>1, <1>5, <2>1 DEF RecordAnswered, Goto
<1>6. CASE RecordReadBack
  <2>1. CASE row.providerCallId = CallId /\ RecordedNext(ReadOf(row, now))
    BY <1>2, <2>1, ReadFields, NotNull
  <2> QED
    BY <1>1, <1>6, <2>1 DEF RecordReadBack, Goto
<1>7. CASE HoldEnds
  BY <1>0, <1>2, <1>7 DEF HoldEnds, ProcSound
<1>8. CASE OrphanStop \/ OrphanUsage
  <2>1. ASSUME NEW answer, OrphanAnswered(answer) PROVE StopExplained(Starter)'
    BY <1>0, <1>1, <2>1, OtherExplained DEF OrphanAnswered
  <2>2. End(Starter) => StopExplained(Starter)'
    BY <1>0, OtherExplained
  <2> QED
    BY <1>8, <2>1, <2>2 DEF OrphanStop, OrphanUsage
<1> QED
  BY <1>3, <1>4, <1>5, <1>6, <1>7, <1>8 DEF Start

\* Whatever a process is about to do about a late call, it has its reason after any step.
LEMMA ExplainedStep ==
    ASSUME Inductive, Inductive', Next, NEW p \in Procs, Follows(p), Follows(p)', StopExplained(p),
           CancelExplained
    PROVE  StopExplained(p)'
<1>1. CASE proc'[p] = proc[p]
  BY <1>1, ReasonsStay, ClockMoves DEF StopExplained, Inductive
<1> QED
  BY <1>1, ProcMoves, StartExplained, CheckExplained, ReadExplained DEF Inductive

\* A call is cancelled, or asked to be, by a stop of this service alone.
LEMMA StopMoves ==
    ASSUME TypeOK, Next, call'.state = "cancelled" \/ call'.stopping
    PROVE  \/ call.state = "cancelled" \/ call.stopping
           \/ OrphanStop
           \/ \E p \in Procs : StopCall(p)
<1>0. call \in Calls
  BY DEF TypeOK
<1>1. CASE Provider
  <2>1. CASE ProviderAccept \/ ProviderRefuse \/ ProviderRun \/ ProviderForget
    BY <1>0, <2>1 DEF ProviderAccept, ProviderRefuse, ProviderRun, ProviderForget, CallBecomes,
       Calls, CallLive
  <2>2. CASE ProviderFinish
    <3>1. PICK state \in {"succeeded", "failed"} \cup (IF call.stopping THEN {"cancelled"} ELSE {}),
               answer \in Answers :
             call' = [call EXCEPT !.state = state, !.answer = answer]
      BY <2>2 DEF ProviderFinish, CallBecomes
    <3>2. call'.state = state /\ call'.stopping = call.stopping
      BY <1>0, <3>1 DEF Calls
    <3> QED
      BY <3>2
  <2> QED
    BY <1>1, <2>1, <2>2 DEF Provider
<1>2. CASE StartSend
  BY <1>0, <1>2 DEF StartSend, Calls
<1>3. ASSUME NEW p \in Procs,
             \/ GetCall(p) \/ Relabel(p) \/ CommitApplied(p) \/ CommitChanged(p)
             \/ CommitRefused(p) \/ Abort(p) \/ CheckRead(p) \/ CancelRead(p)
      PROVE  call' = call
  BY <1>3 DEF GetCall, Relabel, CommitApplied, CommitChanged, CommitRefused, Abort, CheckRead,
     CancelRead
<1>4. CASE \/ SubmitInsert \/ SubmitCommit \/ StartRefused \/ StartFresh \/ StartNotSent
           \/ StartFails \/ StartNamed \/ RecordAnswered \/ RecordUnanswered \/ RecordAgain
           \/ RecordReadBack \/ HoldEnds \/ OrphanUsage \/ LateWriteLands
           \/ DropProvider \/ Tick
  BY <1>4 DEF SubmitInsert, SubmitCommit, StartRefused, StartFresh, StartNotSent, StartFails,
     StartNamed, RecordAnswered, RecordUnanswered, RecordAgain, RecordReadBack, HoldEnds,
     OrphanUsage, LateWriteLands, DropProvider, Tick
<1> QED
  BY <1>1, <1>2, <1>3, <1>4 DEF Next, Start, Check, Procs

\* So a cancelled call has its reason, which no step takes back.
LEMMA CancelExplainedStep ==
    ASSUME Inductive, Next, CancelExplained, \A p \in Procs : StopExplained(p)
    PROVE  CancelExplained'
<1> SUFFICES ASSUME call'.state = "cancelled" \/ call'.stopping PROVE StopDue'
  BY DEF CancelExplained
<1>1. CASE call.state = "cancelled" \/ call.stopping
  BY <1>1, DueStays DEF CancelExplained
<1>2. CASE OrphanStop
  <2>1. start'.orphanStopped
    BY <1>2 DEF OrphanStop, Inductive, TypeOK
  <2> QED
    BY <2>1 DEF StopDue
<1>3. ASSUME NEW p \in Procs, StopCall(p) PROVE StopDue'
  <2>1. proc[p].gen.cancelRequestedAt # None \/ PastByNow
    BY <1>3 DEF StopExplained, StopCall
  <2>2. StopDue
    BY <2>1 DEF StopDue, Inductive, ProcSound
  <2> QED
    BY <2>2, DueStays
<1> QED
  BY <1>1, <1>2, <1>3, StopMoves DEF Inductive

\* A generation told that it ran late did, or its call was stopped as an orphan.
LEMMA OverdueStep ==
    ASSUME Inductive, Next, OverdueExplained, \A p \in Procs : StopExplained(p)
    PROVE  OverdueExplained'
<1>0. row \in Rows /\ now \in Nat /\ "failureOverdue" \notin {None, "generationCancelledReason"}
  BY NotNull DEF Inductive, TypeOK, Errors
<1> SUFFICES ASSUME row'.error = "failureOverdue" PROVE PastCeiling' \/ start'.orphanStopped
  BY DEF OverdueExplained
<1>1. start.orphanStopped => start'.orphanStopped
  BY ClockMoves DEF Inductive
<1>2. CASE row' = row
  BY <1>1, <1>2 DEF OverdueExplained, PastCeiling
<1>3. row.status \in Live => row.error = None
  BY DEF Inductive, ErrorMeansSettled, Live, Settled
<1>4. ~SubmitCommit
  BY <1>0, PendingFields DEF SubmitCommit
<1>5. ~(RecordMatches(row) /\ row' = RecordProviderCall(row))
  BY <1>0, <1>3, RecordFields DEF RecordMatches, Live
<1>6. ~ \E p \in Checks : CancelRead(p)
  BY <1>0, <1>3, CancelFields DEF CancelRead, CancelMatches
<1>7. ASSUME NEW p \in Procs, CommitApplied(p) PROVE PastCeiling' \/ start'.orphanStopped
  <2>1. row' = Settle(row, proc[p].plan, now) /\ proc[p].pc = "commit"
    BY <1>7 DEF CommitApplied
  <2>2. /\ row'.error = proc[p].plan.error /\ row'.settledAt = now
        /\ row'.startRequestedAt = row.startRequestedAt /\ row'.streamed = row.streamed
    BY <1>0, <2>1, SettleFields, StreamedStays
  <2>3. PastByNow \/ start.orphanStopped
    BY <2>1, <2>2 DEF StopExplained
  <2> QED
    BY <1>1, <2>2, <2>3 DEF PastByNow, PastCeiling
<1> QED
  BY <1>2, <1>4, <1>5, <1>6, <1>7, RowMoves

-----------------------------------------------------------------------------
(***************************************************************************)
(* Deadlines.                                                              *)
(***************************************************************************)
\* The database takes the start's instant after the Starter took its own.
LEMMA IntentStep ==
    ASSUME Inductive, Next, IntentFirst
    PROVE  IntentFirst'
<1>0. /\ TypeOK /\ Starter \in Procs /\ proc \in [Procs -> States] /\ row \in Rows
      /\ proc[Starter].gen \in Reads /\ proc[Starter].pc = "admit" => row.status = "absent"
  BY DEF Inductive, RecordedOnce, TypeOK, States, Procs
<1>1. /\ now \in Nat /\ now' \in Nat /\ now =< now' /\ start.intentAt \in Nat
      /\ start'.intentAt = start.intentAt
  BY <1>0, ClockMoves
<1>2. start'.intentAt =< now'
  BY <1>1 DEF IntentFirst
<1>3. row'.startRequestedAt # None => start'.intentAt =< row'.startRequestedAt
  <2>1. CASE SubmitCommit
    <3>1. row'.startRequestedAt = proc[Starter].gen.startRequestedAt /\ proc[Starter].pc = "admit"
      BY <2>1, PendingFields DEF SubmitCommit
    <3> QED
      BY <1>1, <3>1 DEF IntentFirst
  <2>2. CASE row'.startRequestedAt = row.startRequestedAt
    BY <1>1, <2>2 DEF IntentFirst
  <2>3. CASE ~SubmitCommit
    <3>1. CASE RecordMatches(row) /\ row' = RecordProviderCall(row)
      BY <1>0, <3>1, <2>2, RecordFields
    <3>2. ASSUME NEW p \in Procs, CommitApplied(p)
          PROVE  row'.startRequestedAt = row.startRequestedAt
      BY <1>0, <3>2, SettleFields DEF CommitApplied
    <3>3. ASSUME NEW p \in Checks, CancelRead(p)
          PROVE  row'.startRequestedAt = row.startRequestedAt
      BY <1>0, <1>1, <3>3, CancelFields DEF CancelRead
    <3> QED
      BY <2>2, <2>3, <3>1, <3>2, <3>3, RowMoves
  <2> QED
    BY <2>1, <2>3
<1>4. proc'[Starter].pc = "admit" => start'.intentAt =< proc'[Starter].gen.startRequestedAt
  <2>1. CASE SubmitInsert
    <3>1. PICK streamed \in Modes : Begin(Starter, "admit", ReadOf(PendingRow(now, streamed), now))
      BY <2>1 DEF SubmitInsert
    <3>2. proc'[Starter].gen = ReadOf(PendingRow(now, streamed), now)
      BY <1>0, <3>1, BecomeAt DEF Begin
    <3>3. proc'[Starter].gen.startRequestedAt = now
      BY <3>2, PendingFields, ReadFields
    <3> QED
      BY <1>1, <3>3 DEF IntentFirst
  <2>2. CASE proc'[Starter] = proc[Starter]
    BY <1>1, <2>2 DEF IntentFirst
  <2> QED
    BY <1>0, <2>1, <2>2, StarterMoves
<1> QED
  BY <1>2, <1>3, <1>4 DEF IntentFirst

\* A plan with no recorded call to tell of, held by a check, is made by a read that waited.
LEMMA WaitedStep ==
    ASSUME Inductive, Next, NEW p \in Procs, Waited(p)
    PROVE  Waited(p)'
<1>0. proc \in [Procs -> States] /\ ProcSound(p) /\ proc[p].gen \in Reads /\ TypeOK
  BY DEF Inductive, TypeOK, States
<1> SUFFICES ASSUME p # Starter PROVE Waited(p)'
  BY DEF Waited
<1>1. CASE proc'[p] = proc[p]
  BY <1>1 DEF Waited, Age
<1>2. ASSUME NEW gen, ObserveNext(p, gen), gen.providerCallId # None PROVE Waited(p)'
  <2>1. proc'[p].gen = gen
    BY <1>0, <1>2, BecomeAt DEF ObserveNext, Begin
  <2> QED
    BY <1>2, <2>1 DEF Waited
<1>3. CASE CheckRead(p)
  <2> DEFINE gen == ReadOf(row, now)
  <2>1. ASSUME NEW plan, Become(p, "commit", gen, plan),
               gen.startRequestedAt = None \/ Age(gen) >= StartOutcomeUnknownAfter
        PROVE  Waited(p)'
    <3>1. proc'[p].gen = gen
      BY <1>0, <2>1, BecomeAt
    <3> QED
      BY <2>1, <3>1 DEF Waited, Age
  <2> QED
    BY <1>2, <1>3, <2>1 DEF CheckRead
<1>4. CASE CancelRead(p)
  BY <1>1, <1>2, <1>4, ReadFields DEF CancelRead
<1>5. CASE GetCall(p) \/ StopCall(p) \/ Relabel(p)
  <2>1. proc[p].gen.providerCallId # None
    BY <1>0, <1>5 DEF ProcSound, GetCall, StopCall, Relabel
  <2>2. SameRead(proc'[p].gen, proc[p].gen) \/ proc'[p].pc = "idle"
    <3>1. CASE GetCall(p)
      BY <1>0, <3>1, BecomeAt DEF GetCall, LostNext, AnswerNext, CommitNext, Goto, End, SameRead
    <3>2. CASE StopCall(p)
      <4>1. ASSUME NEW state, NEW answer, AnswerNext(p, state, answer, TRUE)
            PROVE  proc'[p].gen = proc[p].gen
        BY <1>0, <4>1, BecomeAt DEF AnswerNext, CommitNext
      <4>2. UnstoppedNext(p) => proc'[p].gen = proc[p].gen \/ proc'[p].pc = "idle"
        BY <1>0, BecomeAt DEF UnstoppedNext, CommitNext, End
      <4>3. LostNext(p) => proc'[p].gen = proc[p].gen
        BY <1>0, BecomeAt DEF LostNext, CommitNext
      <4>4. proc'[p].gen = proc[p].gen \/ proc'[p].pc = "idle"
        BY <3>2, <4>1, <4>2, <4>3 DEF StopCall
      <4> QED
        BY <4>4 DEF SameRead
    <3>3. CASE Relabel(p)
      <4>1. proc'[p].gen = [proc[p].gen EXCEPT !.cancelRequestedAt = row.cancelRequestedAt]
        BY <1>0, <3>3, BecomeAt DEF Relabel
      <4> QED
        BY <1>0, <4>1 DEF SameRead, Reads
    <3> QED
      BY <1>5, <3>1, <3>2, <3>3
  <2> QED
    BY <2>1, <2>2 DEF Waited, SameRead
<1>6. CASE CommitApplied(p) \/ CommitChanged(p) \/ CommitRefused(p) \/ Abort(p)
  <2>1. \/ proc'[p].pc = "idle"
        \/ proc[p].pc = "commit" /\ proc'[p].gen = proc[p].gen
    BY <1>0, <1>6, BecomeAt DEF CommitApplied, CommitChanged, CommitRefused, Abort, CommitNext, End
  <2> QED
    BY <2>1 DEF Waited, Age
<1> QED
  BY <1>0, <1>1, <1>3, <1>4, <1>5, <1>6, ProcMoves DEF Check

\* A start that is going on was going on before, unless the submit just recorded it.
LEMMA GoingMoves ==
    ASSUME TypeOK, Next, proc'[Starter].pc \in Writing \cup {"age"}
    PROVE  proc[Starter].pc \in Writing \cup {"age"} \/ SubmitCommit
BY WriterMoves DEF StartFresh, StartSend, StartNamed, RecordUnanswered, RecordAgain, Writing, Timed

\* A start that is still going on was settled, if it was, no sooner than a check may.
LEMMA OutrunStep ==
    ASSUME Inductive, Inductive', Next, OutrunLate, IntentFirst,
           \A p \in Procs : Follows(p) /\ Waited(p)
    PROVE  OutrunLate'
<1> DEFINE going == Writing \cup {"age"}
<1> SUFFICES ASSUME row'.status \in Settled, row'.providerCallId = None, proc'[Starter].pc \in going
             PROVE  now' >= start'.intentAt + StartOutcomeUnknownAfter
  BY DEF OutrunLate
<1>0. /\ TypeOK /\ Starter \in Procs /\ row \in Rows /\ proc \in [Procs -> States]
      /\ row' \in Rows
  BY DEF Inductive, TypeOK, States, Procs
<1>1. /\ now \in Nat /\ now' \in Nat /\ now =< now' /\ start.intentAt \in Nat
      /\ start'.intentAt = start.intentAt /\ StartOutcomeUnknownAfter \in Nat
  BY <1>0, ClockMoves, DurationsAssumption
<1>2. row'.startRequestedAt # None
  BY DEF Inductive, NoIntentNoCall, Writing, Timed, Settled
<1>3. CASE row' = row
  <2>1. proc[Starter].pc \in going
    <3>1. proc[Starter].pc \notin {"intent", "admit", "idle"}
      <4>1. row.status # "absent"
        BY <1>3 DEF Settled
      <4>2. proc[Starter].pc = "idle" => proc'[Starter].pc = "idle"
        BY <1>0, StarterMoves
      <4> QED
        BY <4>1, <4>2 DEF Inductive, RecordedOnce, Writing, Timed
    <3> QED
      BY <1>0, <3>1, GoingMoves DEF SubmitCommit
  <2> QED
    BY <1>1, <1>3, <2>1 DEF OutrunLate
<1>4. ~SubmitCommit
  BY PendingFields DEF SubmitCommit, Settled
<1>5. ~(RecordMatches(row) /\ row' = RecordProviderCall(row))
  BY <1>0, RecordFields, NotNull
<1>6. ASSUME NEW p \in Procs, CommitApplied(p)
      PROVE  now' >= start'.intentAt + StartOutcomeUnknownAfter
  <2>1. proc'[p].pc = "idle"
    BY <1>0, <1>6, BecomeAt DEF CommitApplied, End
  <2>2. p # Starter
    BY <2>1 DEF Writing, Timed
  <2>3. /\ proc[p].pc = "commit" /\ row' = Settle(row, proc[p].plan, now)
        /\ row.providerCallId = proc[p].gen.providerCallId
        /\ row.startRequestedAt = proc[p].gen.startRequestedAt
    BY <1>6 DEF CommitApplied, SettleMatches
  <2>4. row'.providerCallId = row.providerCallId /\ row'.startRequestedAt = row.startRequestedAt
    BY <1>0, <2>3, SettleFields
  <2>5. Age(proc[p].gen) >= StartOutcomeUnknownAfter
    BY <1>2, <2>2, <2>3, <2>4 DEF Waited
  <2>6. now >= row.startRequestedAt + StartOutcomeUnknownAfter
    BY <1>0, <1>1, <1>2, <2>3, <2>4, <2>5, AgeTells DEF Follows, TypeOK
  <2>7. row.startRequestedAt \in Nat /\ start.intentAt =< row.startRequestedAt
    BY <1>0, <1>2, <2>4 DEF Rows, Instants, IntentFirst
  <2> QED
    BY <1>1, <2>6, <2>7
<1>7. ~ \E p \in Checks : CancelRead(p)
  BY <1>0, <1>1, <1>2, CancelFields DEF CancelRead, CancelMatches, Live, Settled
<1> QED
  BY <1>3, <1>4, <1>5, <1>6, <1>7, RowMoves

\* The Starter's process sets each deadline in time for the next, and unless frozen keeps it.
LEMMA DeadlinesStep ==
    ASSUME Inductive, Next, IntentFirst, DeadlinesKept
    PROVE  DeadlinesKept'
<1>0. /\ TypeOK /\ now \in Nat
      /\ start \in [intentAt : Nat, until : Nat, pause : Nat, orphanStopped : BOOLEAN]
      /\ start'.intentAt = start.intentAt
  BY ClockMoves DEF Inductive, TypeOK
<1> DEFINE pc  == proc[Starter].pc
           pc2 == proc'[Starter].pc
           sent == StartTimeout + StreamStartTimeout
<1> SUFFICES ASSUME ~MayFreeze, pc2 \in Writing
             PROVE  now' =< start'.until /\ start'.until < start.intentAt + Deadline(pc2)
  BY <1>0 DEF DeadlinesKept
<1>1. pc \in Writing => now =< start.until /\ start.until < start.intentAt + Deadline(pc)
  BY DEF DeadlinesKept
<1>2. /\ Deadline("send") = StartTimeout /\ Deadline("accept") = sent
      /\ Deadline("write") = sent + PersistenceTimeout /\ Deadline("pause") = RecordPatience
      /\ Deadline("rewrite") = RecordPatience + PersistenceTimeout
  BY DEF Deadline
<1>3. CASE pc2 = pc /\ start' = start /\ (now' = now \/ Tick)
  <2>1. CASE Tick
    <3>1. now < start.until /\ now' = now + 1
      BY <1>3, <2>1 DEF Tick, Writing
    <3> QED
      BY <1>0, <1>1, <1>3, <3>1
  <2> QED
    BY <1>1, <1>3, <2>1
<1>4. CASE StartFresh /\ pc2 = "send"
  <2>1. now' = now /\ start'.until = now /\ now - start.intentAt < StartTimeout
    BY <1>0, <1>4 DEF StartFresh
  <2> QED
    BY <1>0, <1>2, <1>4, <2>1, DurationsAssumption
<1>5. CASE StartSend /\ pc2 = "accept"
  <2> DEFINE wait == IF proc[Starter].gen.streamed THEN StreamStartTimeout ELSE StartTimeout
  <2>1. now' = now /\ start'.until = now + wait /\ pc = "send"
    BY <1>0, <1>5 DEF StartSend
  <2>2. wait \in Nat /\ wait =< StreamStartTimeout
    BY DurationsAssumption, StartOutlivedAssumption
  <2>3. now < start.intentAt + StartTimeout
    BY <1>0, <1>1, <1>2, <2>1, DurationsAssumption DEF Writing, Timed
  <2> HIDE DEF wait
  <2> QED
    BY <1>0, <1>2, <1>5, <2>1, <2>2, <2>3, DurationsAssumption
<1>6. CASE StartNamed /\ pc2 = "write"
  <2>1. now' = now /\ start'.until = now + PersistenceTimeout /\ pc = "accept"
    BY <1>0, <1>6 DEF StartNamed
  <2>2. now < start.intentAt + sent
    BY <1>0, <1>1, <1>2, <2>1, DurationsAssumption DEF Writing, Timed
  <2> QED
    BY <1>0, <1>2, <1>6, <2>1, <2>2, DurationsAssumption
<1>7. CASE /\ RecordUnanswered /\ pc2 = "pause"
           /\ start'.until < start.intentAt + RecordPatience /\ now =< start'.until
  BY <1>2, <1>7 DEF RecordUnanswered
<1>8. CASE RecordAgain /\ pc2 = "rewrite"
  <2>1. now' = now /\ start'.until = now + PersistenceTimeout /\ pc = "pause"
    BY <1>0, <1>8 DEF RecordAgain
  <2>2. now < start.intentAt + RecordPatience
    BY <1>0, <1>1, <1>2, <2>1, DurationsAssumption DEF Writing, Timed
  <2> QED
    BY <1>0, <1>2, <1>8, <2>1, <2>2, DurationsAssumption
<1>9. ~(SubmitCommit /\ pc2 = "age")
  BY DEF Writing, Timed
<1> QED
  BY <1>0, <1>3, <1>4, <1>5, <1>6, <1>7, <1>8, <1>9, WriterMoves

\* Every deadline of a start that may still write falls before a check may give it up.
LEMMA DeadlineOutlived ==
    ASSUME NEW pc \in Writing
    PROVE  Deadline(pc) \in Nat /\ Deadline(pc) =< StartOutcomeUnknownAfter
BY DurationsAssumption, StartOutlivedAssumption DEF Deadline, Writing, Timed

\* Both initial states satisfy every part about time.
LEMMA InTimeInit == Init => InTime
<1> SUFFICES ASSUME Init PROVE InTime
  OBVIOUS
<1>1. Inductive
  BY InductiveInit
<1>2. /\ now = 0 /\ start.intentAt = 0
      /\ call.state = "unsent" /\ ~call.stopping
  BY DEF Init
<1>3. row.startRequestedAt = None /\ row.error = None /\ row.status \notin Settled
  <2>1. CASE row = AbsentRow
    BY <2>1, AbsentFields DEF Settled
  <2>2. ASSUME NEW asked \in {None, 0},
               row = [PendingRow(None, FALSE) EXCEPT !.cancelRequestedAt = asked]
        PROVE  row.startRequestedAt = None /\ row.error = None /\ row.status \notin Settled
    BY <2>2 DEF PendingRow, Settled
  <2> QED
    BY <2>1, <2>2 DEF Init
<1>4. ASSUME NEW p \in Procs
      PROVE  /\ proc[p].pc \in {"idle", "intent"}
             /\ proc[p].gen = NoRead
  <2>1. proc[p] = Idle \/ proc[p] = ProcState("intent", NoRead, NoPlan)
    BY DEF Init
  <2> QED
    BY <2>1 DEF Idle, ProcState
<1>5. NoRead.providerCallId = None /\ NoRead.readAt = 0
  BY AbsentFields DEF NoRead, ReadOf
<1>6. "failureOverdue" # None
  BY NotNull DEF Errors
<1>7. \A p \in Procs : Follows(p) /\ StopExplained(p) /\ Waited(p)
  BY <1>2, <1>4, <1>5 DEF Follows, StopExplained, Waited
<1>8. proc[Starter].pc \notin {"admit", "age"} \cup Writing
  BY <1>4 DEF Procs, Writing, Timed
<1> QED
  BY <1>1, <1>2, <1>3, <1>6, <1>7, <1>8 DEF InTime, CancelExplained, OverdueExplained,
     IntentFirst, OutrunLate, DeadlinesKept

\* Every step of every process preserves every part.
LEMMA InTimeStep == InTime /\ [Next]_vars => InTime'
<1>1. ASSUME InTime, Next PROVE InTime'
  <2>0. /\ Inductive /\ Next /\ CancelExplained /\ OverdueExplained
        /\ IntentFirst /\ OutrunLate /\ DeadlinesKept
        /\ \A p \in Procs : Follows(p) /\ StopExplained(p) /\ Waited(p)
    BY <1>1 DEF InTime
  <2>1. Inductive'
    BY <2>0, InductiveStep
  <2>2. \A p \in Procs : Follows(p)'
    BY <2>0, FollowsStep
  <2>3. \A p \in Procs : StopExplained(p)'
    BY <2>0, <2>1, <2>2, ExplainedStep
  <2>4. \A p \in Procs : Waited(p)'
    BY <2>0, WaitedStep
  <2>5. CancelExplained' /\ OverdueExplained'
    BY <2>0, CancelExplainedStep, OverdueStep
  <2>6. IntentFirst' /\ DeadlinesKept'
    BY <2>0, IntentStep, DeadlinesStep
  <2>7. OutrunLate'
    BY <2>0, <2>1, OutrunStep
  <2> QED
    BY <2>1, <2>2, <2>3, <2>4, <2>5, <2>6, <2>7 DEF InTime
<1>2. ASSUME InTime, UNCHANGED vars PROVE InTime'
  <2>1. Inductive'
    BY <1>2, InductiveStep DEF InTime
  <2>2. /\ CancelExplained' /\ OverdueExplained' /\ IntentFirst' /\ OutrunLate' /\ DeadlinesKept'
    BY <1>2 DEF vars, InTime, CancelExplained, StopDue, PastByNow, OverdueExplained, PastCeiling,
       IntentFirst, OutrunLate, DeadlinesKept
  <2>3. \A p \in Procs : Follows(p)' /\ StopExplained(p)' /\ Waited(p)'
    BY <1>2 DEF vars, InTime, Follows, StopExplained, Waited, PastByNow
  <2> QED
    BY <2>1, <2>2, <2>3 DEF InTime
<1> QED
  BY <1>1, <1>2

\* What the clock tells holds in every state: each stop has its reason, and each start its deadlines.
THEOREM InTimeHolds == Spec => []InTime
BY InTimeInit, InTimeStep, PTL DEF Spec

\* Unless its process freezes, a start is over, or its call recorded, before a check may settle it as
\* unknown: startOutcomeUnknownAfter outlasts the start, the patience of its writes and the last one.
THEOREM StartsNeverOutrun == Spec => []StartNeverOutrun
<1>1. InTime => StartNeverOutrun
  <2> SUFFICES ASSUME InTime, ~MayFreeze, proc[Starter].pc \in Writing, row.status \in Settled,
                      row.providerCallId = None
               PROVE  FALSE
    BY DEF StartNeverOutrun, Writing
  <2>1. now \in Nat /\ start.intentAt \in Nat /\ start.until \in Nat
    BY DEF InTime, Inductive, TypeOK
  <2>2. now =< start.until /\ start.until < start.intentAt + Deadline(proc[Starter].pc)
    BY DEF InTime, DeadlinesKept
  <2>3. now >= start.intentAt + StartOutcomeUnknownAfter
    BY DEF InTime, OutrunLate
  <2> QED
    BY <2>1, <2>2, <2>3, DeadlineOutlived, DurationsAssumption
<1> QED
  BY <1>1, InTimeHolds, PTL

\* A generation told it was stopped for running late passed a ceiling, or its call was stopped as an
\* orphan whose id landed after all: the reason a stale check writes is true when it commits.
THEOREM OverdueAlwaysExplained == Spec => []OverdueExplained
<1>1. InTime => OverdueExplained
  BY DEF InTime
<1> QED
  BY <1>1, InTimeHolds, PTL

-----------------------------------------------------------------------------
(***************************************************************************)
(* Refinement: every step of a check is a step of the life its owner is    *)
(* promised, or none.                                                      *)
(***************************************************************************)
\* The classes of failure, the call's states and the answers are told apart from None.
LEMMA LifeNames ==
    /\ None \notin {"outcome_unknown", "not_started", "rejected", "provider_failed"}
    /\ None \notin {"counted", "uncounted", "refusedByDatabase", "rejection"} \cup CallTerminal
BY NotNull, ProcsAssumption DEF Failures, CallTerminal

\* The request reaches the provider once, and never after its owner was told that nothing runs.
LEMMA SendLives ==
    ASSUME Inductive, StartSend
    PROVE  Life!Send
<1>0. /\ row \in Rows /\ call \in Calls
      /\ proc[Starter].pc = "send" /\ call.state = "unsent"
      /\ UNCHANGED <<row, attempt, usage>> /\ call' = [call EXCEPT !.state = "sent"]
  BY DEF StartSend, Inductive, TypeOK, UnsentBeforeSend
<1>1. row.providerCallId = None
  BY <1>0 DEF Inductive, Telling, NamedIsAccepted, Accepted, Unaccepted
<1>2. row.status # "absent"
  BY <1>0, AbsentFields DEF Inductive, RecordedOnce, NoIntentNoCall
<1>3. row.status # "running"
  BY <1>1 DEF Inductive, SchemaHolds, RowConstraints, CallMatchesStatus, Live
<1>4. row.status \in Settled => row.failure = "outcome_unknown"
  BY <1>0, <1>1 DEF Inductive, NothingWillRunUnseen
<1>5. row.status = "pending" \/ row.failure = "outcome_unknown"
  BY <1>0, <1>2, <1>3, <1>4 DEF Rows, Live
<1>6. /\ "unsent" \notin CallLive /\ "sent" \notin CallLive
      /\ call'.state = "sent" /\ call'.answer = call.answer
  BY <1>0 DEF CallLive, Calls
<1> QED
  BY <1>0, <1>5, <1>6 DEF Life!Send

\* The call ends by itself, or by a stop.
LEMMA EndLives ==
    ASSUME Inductive, UNCHANGED <<row, attempt, usage>>,
           NEW state \in CallTerminal, NEW answer \in Answers, call.state \in CallLive,
           call' = [call EXCEPT !.state = state, !.answer = answer]
    PROVE  Life!Finish
<1>1. call \in Calls
  BY DEF Inductive, TypeOK
<1>2. call'.state = state /\ call'.answer = answer
  BY <1>1 DEF Calls
<1>3. state \notin CallLive /\ state \in Life!Over
  BY DEF CallLive, CallTerminal, Life!Over
<1> QED
  BY <1>2, <1>3 DEF Life!Finish

\* What the owner is promised does not change while its call only moves on, or is asked to stop.
LEMMA QuietLives ==
    ASSUME UNCHANGED <<row, attempt, usage>>, call'.answer = call.answer,
           call'.state = call.state \/ {call.state, call'.state} \subseteq CallLive \cup {"sent"}
    PROVE  UNCHANGED Life!vars
BY DEF Life!vars, CallLive

\* Each step that changes the call alone.
LEMMA CallLives ==
    ASSUME Inductive, OrphanStop \/ Provider \/ \E p \in Procs : StopCall(p)
    PROVE  Life!Finish \/ UNCHANGED Life!vars
<1>0. call \in Calls /\ UNCHANGED <<row, attempt, usage>>
  BY DEF Inductive, TypeOK, OrphanStop, StopCall, Provider, ProviderAccept, ProviderRefuse,
     ProviderRun, ProviderFinish, ProviderForget, CallBecomes
<1>1. ASSUME NEW flag \in BOOLEAN,
             \/ call' = [call EXCEPT !.stopping = flag]
             \/ call' = [call EXCEPT !.gone = flag]
             \/ call' = call
      PROVE  UNCHANGED Life!vars
  <2>1. call'.state = call.state /\ call'.answer = call.answer
    BY <1>0, <1>1 DEF Calls
  <2> QED
    BY <1>0, <2>1, QuietLives
<1>2. ASSUME NEW state \in CallLive, call.state \in CallLive \cup {"sent"},
             call' = [call EXCEPT !.state = state]
      PROVE  UNCHANGED Life!vars
  <2>1. call'.state = state /\ call'.answer = call.answer
    BY <1>0, <1>2 DEF Calls
  <2> QED
    BY <1>0, <1>2, <2>1, QuietLives
<1>3. CASE OrphanStop
  BY <1>0, <1>1, <1>3, EndLives DEF OrphanStop, CallTerminal
<1>4. ASSUME NEW p \in Procs, StopCall(p) PROVE Life!Finish \/ UNCHANGED Life!vars
  <2>1. call.stopping \in BOOLEAN
    BY <1>0 DEF Calls
  <2> QED
    BY <1>0, <1>1, <1>4, <2>1, EndLives DEF StopCall, CallTerminal
<1>5. CASE ProviderAccept \/ ProviderRun
  BY <1>2, <1>5 DEF ProviderAccept, ProviderRun, CallBecomes, CallLive
<1>6. CASE ProviderRefuse
  <2>1. /\ call.state = "sent" /\ call'.state = "refused" /\ call'.answer = call.answer
        /\ {"sent", "refused"} \cap CallLive = {}
    BY <1>0, <1>6 DEF ProviderRefuse, CallBecomes, Calls, CallLive
  <2>2. call'.answer # "counted"
    BY <2>1, LifeNames DEF Inductive, FinishedHasAnswer, CallTerminal
  <2> QED
    BY <1>0, <2>1, <2>2 DEF Life!Finish
<1>7. CASE ProviderFinish
  BY <1>0, <1>7, EndLives DEF ProviderFinish, CallBecomes, CallTerminal
<1>8. CASE ProviderForget
  BY <1>1, <1>8 DEF ProviderForget, CallBecomes
<1> QED
  BY <1>3, <1>4, <1>5, <1>6, <1>7, <1>8 DEF Provider

\* The id lands, from the start or late.
LEMMA RecordLives ==
    ASSUME Inductive, RecordAnswered \/ LateWriteLands
    PROVE  Life!Follow \/ UNCHANGED Life!vars
<1>0. row \in Rows /\ call \in Calls /\ UNCHANGED <<attempt, usage, call>>
  BY DEF Inductive, TypeOK, RecordAnswered, LateWriteLands
<1>1. CASE RecordMatches(row) /\ row' = RecordProviderCall(row)
  <2>1. call.state \notin Unaccepted
    BY DEF Inductive, Telling, NamedIsAccepted, RecordAnswered, LateWriteLands, Procs, Accepted
  <2>2. call.state \in CallLive \/ call.state \in Life!Over
    BY <1>0, <2>1 DEF Calls, CallStates, CallTerminal, Life!Over
  <2>3. /\ row.status = "pending" /\ row'.status = "running"
        /\ row'.failure = row.failure /\ row'.cancelRequestedAt = row.cancelRequestedAt
    BY <1>0, <1>1, RecordFields DEF RecordMatches
  <2> QED
    BY <1>0, <2>2, <2>3 DEF Life!Follow
<1>2. CASE row' = row
  BY <1>0, <1>2, QuietLives
<1> QED
  BY <1>1, <1>2 DEF RecordAnswered, LateWriteLands

\* The owner's cancel asks, and settles what was never started.
LEMMA CancelLives ==
    ASSUME Inductive, NEW p \in Checks, CancelRead(p)
    PROVE  Life!Ask \/ Life!Withdrawn
<1>0. /\ row \in Rows /\ now \in Nat /\ row.status \in Live
      /\ row' = RequestCancel(row, now) /\ UNCHANGED <<attempt, usage, call>>
  BY DEF Inductive, TypeOK, CancelRead, CancelMatches
<1>1. row'.cancelRequestedAt # None /\ row'.failure = row.failure
  BY <1>0, CancelFields
<1>2. CASE row.startRequestedAt # None
  <2>1. row'.status = row.status
    BY <1>0, <1>2, CancelFields
  <2> QED
    BY <1>0, <1>1, <2>1 DEF Life!Ask, Live
<1>3. CASE row.startRequestedAt = None
  <2>1. row'.status = "cancelled"
    BY <1>0, <1>3, CancelFields
  <2>2. call.state = "unsent" /\ row.providerCallId = None
    BY <1>3 DEF Inductive, NoIntentNoCall
  <2>3. row.status = "pending"
    BY <1>0, <2>2 DEF Inductive, SchemaHolds, RowConstraints, CallMatchesStatus, Live
  <2>4. row.failure = None
    BY <2>3 DEF Inductive, SchemaHolds, RowConstraints, FailureFailed
  <2>5. "unsent" \notin CallLive
    BY DEF CallLive
  <2> QED
    BY <1>0, <1>1, <2>1, <2>2, <2>3, <2>4, <2>5 DEF Life!Withdrawn, Life!Settle
<1> QED
  BY <1>2, <1>3

\* The usage of an orphan is counted once its answer told of it.
LEMMA OrphanLives ==
    ASSUME Inductive, OrphanUsage
    PROVE  Life!Count \/ UNCHANGED Life!vars
<1>0. /\ UNCHANGED <<row, attempt, call>>
      /\ usage' = (usage \/ proc[Starter].plan.usage = "counted")
      /\ usage \in BOOLEAN
  BY DEF OrphanUsage, Inductive, TypeOK
<1>1. CASE proc[Starter].plan.usage = "counted"
  <2>1. call.answer = "counted"
    BY <1>1 DEF Inductive, ProcSound, AnswerInHand, Procs
  <2> QED
    BY <1>0, <1>1, <2>1 DEF Life!Count
<1>2. CASE proc[Starter].plan.usage # "counted"
  BY <1>0, <1>2, QuietLives
<1> QED
  BY <1>1, <1>2
\* A commit settles the generation as its class may be told, from what its check read: the fence of
\* the settle makes the read as good as the row.
LEMMA CommitLives ==
    ASSUME Inductive, NEW p \in Procs, CommitApplied(p)
    PROVE  Life!Answered \/ Life!Lost \/ Life!NotRun \/ Life!Rejected \/ Life!Withdrawn \/ Life!Unknown
<1> DEFINE gen  == proc[p].gen
           plan == proc[p].plan
<1>0. /\ row \in Rows /\ call \in Calls /\ usage \in BOOLEAN
      /\ row.status \in Live
      /\ row.providerCallId = gen.providerCallId /\ row.startRequestedAt = gen.startRequestedAt
      /\ row'.status = plan.status /\ row'.failure = plan.failure
      /\ row'.cancelRequestedAt = row.cancelRequestedAt
      /\ attempt' = (IF plan.response = None THEN attempt ELSE plan.response)
      /\ usage' = (usage \/ plan.usage = "counted")
      /\ call' = call
      /\ PlanSound(p) /\ PlanTells(p) /\ AnswerInHand(p)
      /\ gen.cancelRequestedAt # None => row.cancelRequestedAt # None
  BY SettleFields DEF CommitApplied, SettleMatches, Inductive, TypeOK, ProcSound, Telling
<1>1. /\ attempt = None
      /\ row.providerCallId = None => row.status = "pending"
      /\ row.providerCallId # None => row.status = "running"
  BY <1>0 DEF Inductive, AnswerKept, SchemaHolds, RowConstraints, CallMatchesStatus, Live, Settled
<1>2. call.state \in {"unsent", "refused"} => row.providerCallId = None
  BY DEF Inductive, Telling, NamedIsAccepted, Accepted, Unaccepted
<1>3. gen.startRequestedAt = None => call.state = "unsent"
  BY <1>0 DEF Inductive, NoIntentNoCall
<1>4. proc[p].pc = "commit"
  BY DEF CommitApplied
<1>5. /\ {"unsent", "refused"} \cap (CallLive \cup Life!Over) = {}
      /\ CallTerminal = Life!Over /\ CallLive \cap Life!Over = {}
  BY DEF CallLive, CallTerminal, Life!Over
<1> HIDE DEF gen, plan
<1>6. CASE Failing(plan, "outcome_unknown")
  BY <1>0, <1>1, <1>6 DEF Life!Unknown, Life!Settle, Failing, Live
<1>7. CASE Failing(plan, "not_started") /\ call.state \in {"unsent", "refused"}
  BY <1>0, <1>1, <1>2, <1>5, <1>7 DEF Life!NotRun, Life!Settle, Failing
<1>8. CASE gen.startRequestedAt = None /\ plan = CancelledPlan
  <2>1. /\ plan.status = "cancelled" /\ plan.failure = None /\ plan.response = None
        /\ plan.usage = "uncounted"
    BY <1>8 DEF CancelledPlan
  <2>2. row.cancelRequestedAt # None
    BY <1>0, <2>1 DEF PlanSound, gen, plan
  <2> QED
    BY <1>0, <1>1, <1>2, <1>3, <1>5, <1>8, <2>1, <2>2 DEF Life!Withdrawn, Life!Settle
<1>9. CASE /\ call.state = "refused"
           /\ plan.status = "failed" /\ plan.failure = "rejected"
           /\ plan.response \in {"rejection", None} /\ plan.usage = "uncounted"
  BY <1>0, <1>1, <1>2, <1>5, <1>9 DEF Life!Rejected, Life!Settle
<1>10. CASE gen.providerCallId # None /\ call.state \in CallTerminal /\ Failing(plan, "provider_failed")
  BY <1>0, <1>1, <1>5, <1>10 DEF Life!Lost, Life!Settle, Failing
<1>11. CASE gen.providerCallId # None /\ call.state \in CallTerminal /\ Keeping(plan)
  <2>1. /\ plan.response = call.state /\ call.state # None
        /\ call.answer = plan.usage
    BY <1>0, <1>11, LifeNames DEF Keeping, AnswerInHand, plan
  <2>2. /\ attempt' = call.state
        /\ usage' = (usage \/ call.answer = "counted")
        /\ row.status = "running" /\ call.state \notin CallLive
    BY <1>0, <1>1, <1>5, <1>11, <2>1
  <2>3. CASE /\ plan.status = "failed" /\ plan.failure = "provider_failed"
             /\ call.state \in {"failed", "cancelled"}
    BY <1>0, <2>2, <2>3 DEF Life!Answered, Life!Settle
  <2>4. CASE plan.status = "succeeded" /\ plan.failure = None
    <3>1. call.state = "succeeded"
      BY <1>0, <2>1, <2>4 DEF PlanSound, plan
    <3> QED
      BY <1>0, <2>2, <2>4, <3>1 DEF Life!Answered, Life!Settle
  <2>5. CASE plan.status = "cancelled" /\ plan.failure = None
    <3>1. call.state = "cancelled" /\ row.cancelRequestedAt # None
      BY <1>0, <1>11, <2>1, <2>5 DEF PlanSound, plan, gen
    <3> QED
      BY <1>0, <2>2, <2>5, <3>1 DEF Life!Answered, Life!Settle
  <2> QED
    BY <1>11, <2>3, <2>4, <2>5 DEF Keeping
<1> QED
  BY <1>0, <1>3, <1>4, <1>6, <1>7, <1>8, <1>9, <1>10, <1>11 DEF PlanTells, gen, plan

\* Every other step moves nothing that was promised.
LEMMA OthersLive ==
    ASSUME Next, UNCHANGED row,
           ~StartSend, ~OrphanStop, ~OrphanUsage, ~Provider,
           ~ \E p \in Procs : StopCall(p) \/ CommitApplied(p),
           ~RecordAnswered, ~LateWriteLands, ~ \E p \in Checks : CancelRead(p)
    PROVE  UNCHANGED <<row, attempt, usage, call>>
<1>1. ASSUME NEW p \in Procs,
             \/ GetCall(p) \/ Relabel(p) \/ CommitChanged(p) \/ CommitRefused(p) \/ Abort(p)
             \/ CheckRead(p)
      PROVE  UNCHANGED <<row, attempt, usage, call>>
  BY <1>1 DEF GetCall, Relabel, CommitChanged, CommitRefused, Abort, CheckRead
<1>2. CASE \/ SubmitInsert \/ SubmitCommit \/ StartRefused \/ StartFresh \/ StartNotSent \/ StartFails
           \/ StartNamed \/ RecordUnanswered \/ RecordAgain \/ RecordReadBack \/ HoldEnds
           \/ DropProvider \/ Tick
  BY <1>2 DEF SubmitInsert, SubmitCommit, StartRefused, StartFresh, StartNotSent, StartFails,
     StartNamed, RecordUnanswered, RecordAgain, RecordReadBack, HoldEnds, DropProvider, Tick
<1> QED
  BY <1>1, <1>2 DEF Next, Start, Check, Procs

\* Every step of every process is a step of a generation's life, or none.
LEMMA LifeStep ==
    ASSUME Inductive, [Next]_vars
    PROVE  [Life!Next]_Life!vars
<1>0. row \in Rows /\ Starter \in Procs
  BY DEF Inductive, TypeOK, Procs
<1>1. CASE StartSend
  BY <1>1, SendLives DEF Life!Next
<1>2. CASE OrphanStop \/ Provider \/ \E p \in Procs : StopCall(p)
  BY <1>2, CallLives DEF Life!Next
<1>3. CASE RecordAnswered \/ LateWriteLands
  BY <1>3, RecordLives DEF Life!Next
<1>4. CASE OrphanUsage
  BY <1>4, OrphanLives DEF Life!Next
<1>5. ASSUME NEW p \in Procs, CommitApplied(p) PROVE Life!Next
  BY <1>5, CommitLives DEF Life!Next
<1>6. ASSUME NEW p \in Checks, CancelRead(p) PROVE Life!Next
  BY <1>6, CancelLives DEF Life!Next
<1>7. CASE SubmitCommit
  <2>1. row = AbsentRow /\ UNCHANGED <<attempt, usage, call>>
    BY <1>7 DEF SubmitCommit, Inductive, RecordedOnce
  <2>2. row'.status = "pending" /\ row'.failure = None /\ row'.cancelRequestedAt = None
    BY <1>7, PendingFields DEF SubmitCommit
  <2> QED
    BY <2>1, <2>2, AbsentFields DEF Life!Next, Life!Record
<1>8. CASE UNCHANGED <<row, attempt, usage, call>>
  BY <1>8, QuietLives
<1>9. CASE UNCHANGED vars
  BY <1>8, <1>9 DEF vars
<1>10. ASSUME Next, ~SubmitCommit,
              ~StartSend, ~OrphanStop, ~OrphanUsage, ~Provider,
              ~ \E p \in Procs : StopCall(p) \/ CommitApplied(p),
              ~RecordAnswered, ~LateWriteLands, ~ \E p \in Checks : CancelRead(p)
       PROVE  UNCHANGED <<row, attempt, usage, call>>
  <2>1. row' = row
    BY <1>10, RowKept
  <2> QED
    BY <1>10, <2>1, OthersLive
<1> QED
  BY <1>1, <1>2, <1>3, <1>4, <1>5, <1>6, <1>7, <1>8, <1>9, <1>10

\* A generation lives as its owner is promised, for any number of checks, any durations and any
\* horizon: sent once at most, settled once, and told only what became of its call. Nothing a check
\* read, however old, and no write landing late leads out of that life.
THEOREM CheckImplementsLife == Spec => ImplementsLife
<1>1. Init => Life!Init
  <2> SUFFICES ASSUME Init PROVE Life!Init
    OBVIOUS
  <2>1. call.state = "unsent" /\ call.answer = None /\ attempt = None /\ usage = FALSE
    BY DEF Init
  <2>2. "unsent" \notin CallLive /\ None # "counted"
    BY LifeNames DEF CallLive
  <2>3. CASE row = AbsentRow
    BY <2>1, <2>2, <2>3, AbsentFields DEF Life!Init
  <2>4. ASSUME NEW asked \in {None, 0},
               row = [PendingRow(None, FALSE) EXCEPT !.cancelRequestedAt = asked]
        PROVE  Life!Init
    <3>1. row.status = "pending" /\ row.failure = None
      BY <2>4 DEF PendingRow
    <3> QED
      BY <2>1, <2>2, <3>1 DEF Life!Init
  <2> QED
    BY <2>3, <2>4 DEF Init
<1>2. Inductive /\ [Next]_vars => [Life!Next]_Life!vars
  BY LifeStep
<1> QED
  BY <1>1, <1>2, InductiveHolds, PTL DEF Spec, ImplementsLife, Life!Spec

=============================================================================
