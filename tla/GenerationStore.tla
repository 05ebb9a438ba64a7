-------------------------- MODULE GenerationStore --------------------------
(***************************************************************************)
(* The rows of the generations table and the statements of internal/dao    *)
(* that write them, as operators from a row to a row.                      *)
(*                                                                         *)
(* No process owns a row: every transition is one conditional UPDATE.  A   *)
(* statement whose condition fails matches nothing, which the dao reports  *)
(* as ErrGenerationChanged, so each statement has a Matches predicate of   *)
(* its own.  Every timestamp is the database's, here an instant `at'.      *)
(***************************************************************************)
EXTENDS Integers

CONSTANTS
    None,        \* SQL NULL
    Retention    \* how long a settled row survives before the purge

ASSUME RetentionAssumption == Retention \in Nat \ {0}

Settled   == {"succeeded", "failed", "cancelled"}
Live      == {"pending", "running"}

\* What a caller reads to decide whether to resend its request.
Failures  == {"rejected", "provider_failed", "not_started", "outcome_unknown"}

\* The messages of generationCheck.go, named as its constants are.
Errors    == {"generationCancelledReason", "failureOutcomeUnknown",
              "failureResultLost", "failureStartFailed", "failureCallFailed",
              "failureRejected", "failureProviderUnavailable",
              "failureOverdue", "failureNotStopped",
              "failureResponseTooLarge", "failureNotRecorded"}

\* A generation sends one start, so the provider names at most one call for it.
CallId    == "call"

Instants  == Nat \cup {None}

\* NULL is no value of any column.
ASSUME NoneAssumption ==
    None \notin Int \cup Live \cup Settled \cup Failures \cup Errors \cup {CallId}

Rows ==
    [status            : {"absent"} \cup Live \cup Settled,
     error             : Errors \cup {None},
     failure           : Failures \cup {None},
     startRequestedAt  : Instants,
     providerCallId    : {CallId, None},
     cancelRequestedAt : Instants,
     outcomeUnknownAt  : Instants,
     streamed          : BOOLEAN,
     settledAt         : Instants,
     expiresAt         : Instants]

\* A row as the insert leaves it, with the start intent it carries.
PendingRow(startAt, streamed) ==
    [status            |-> "pending",
     error             |-> None,
     failure           |-> None,
     startRequestedAt  |-> startAt,
     providerCallId    |-> None,
     cancelRequestedAt |-> None,
     outcomeUnknownAt  |-> None,
     streamed          |-> streamed,
     settledAt         |-> None,
     expiresAt         |-> None]

\* No row yet: its submit has not committed.
AbsentRow == [PendingRow(None, FALSE) EXCEPT !.status = "absent"]

\* Mutant: the id write without its condition on the status.
RecordMatchesAnyStatus(row) == row.startRequestedAt # None

\* PgGenerationRecordProviderCall: the call's id lands on a pending start intent.
RecordMatches(row) ==
    /\ row.status = "pending"
    /\ row.startRequestedAt # None

RecordProviderCall(row) ==
    [row EXCEPT !.status = "running", !.providerCallId = CallId]

\* Mutant: a settle fenced by the start and the call alone.
SettleMatchesAnyStatus(row, seen) ==
    /\ row.providerCallId = seen.providerCallId
    /\ row.startRequestedAt = seen.startRequestedAt

\* PgGenerationSettle: fenced by the start and the call the settling check observed.
SettleMatches(row, seen) ==
    /\ row.status \in Live
    /\ row.providerCallId = seen.providerCallId
    /\ row.startRequestedAt = seen.startRequestedAt

\* Mutant: the retention subtracted.
SettleExpired(row, outcome, at) ==
    [row EXCEPT
        !.status           = outcome.status,
        !.error            = outcome.error,
        !.failure          = outcome.failure,
        !.settledAt        = at,
        !.expiresAt        = at - Retention,
        !.outcomeUnknownAt = IF outcome.failure = "outcome_unknown" THEN at ELSE None]

Settle(row, outcome, at) ==
    [row EXCEPT
        !.status           = outcome.status,
        !.error            = outcome.error,
        !.failure          = outcome.failure,
        !.settledAt        = at,
        !.expiresAt        = at + Retention,
        !.outcomeUnknownAt = IF outcome.failure = "outcome_unknown" THEN at ELSE None]

\* PgGenerationRequestCancel: marks a generation whose call may run, settles one never started.
CancelMatches(row) == row.status \in Live

RequestCancel(row, at) ==
    LET unstarted == row.startRequestedAt = None
    IN  [row EXCEPT
            !.cancelRequestedAt = IF @ = None THEN at ELSE @,
            !.status            = IF unstarted THEN "cancelled" ELSE @,
            !.error             = IF unstarted THEN "generationCancelledReason" ELSE @,
            !.settledAt         = IF unstarted THEN at ELSE None,
            !.expiresAt         = IF unstarted THEN at + Retention ELSE None]

(***************************************************************************)
(* The CHECK constraints of the table, which refuse a write that breaks    *)
(* them however often it is sent.                                          *)
(***************************************************************************)
CallMatchesStatus(row) ==
    row.status \in Live => (row.status = "running") = (row.providerCallId # None)

TerminalFields(row) ==
    (row.status \in Settled) = (row.settledAt # None /\ row.expiresAt # None)

OutcomeUnknownFailed(row) == row.outcomeUnknownAt # None => row.status = "failed"

FailureFailed(row) == row.failure # None => row.status = "failed"

RowConstraints(row) ==
    /\ CallMatchesStatus(row)
    /\ TerminalFields(row)
    /\ OutcomeUnknownFailed(row)
    /\ FailureFailed(row)

=============================================================================
