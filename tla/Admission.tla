----------------------------- MODULE Admission -----------------------------
(***************************************************************************)
(* The admission of one owner's submits: internal/core/generationSubmit.go *)
(* up to the commit of its transaction, against the generations that end   *)
(* and the usage they record meanwhile, and the purge.                     *)
(*                                                                         *)
(* The owner's advisory lock serialises the transactions of one owner, and *)
(* every statement below filters on the owner, so one owner shows every    *)
(* interleaving.  The transactions are read-committed: each statement sees *)
(* what was committed when it ran, and CURRENT_TIMESTAMP is the instant    *)
(* the transaction began, before it waited for the lock.                   *)
(*                                                                         *)
(* A request stands for its key.  The write of the call's id moves a       *)
(* generation from pending to running, which no statement here tells       *)
(* apart: it is left to GenerationCheck.                                   *)
(***************************************************************************)
EXTENDS GenerationStore, FiniteSetsExt

CONSTANTS
    Submits,     \* the submits, each naming the generation it may create
    Requests,    \* request keys
    Purposes,
    PurposeOf,   \* the purpose a request key covers
    CapChoices,  \* the caps a caller may send
    Tokens,      \* what an answered call may report it consumed
    Summaries,   \* the windows a summary of usage may ask for, None when it asks for none
    Hold,        \* config.UnknownOutcomeHold
    Horizon      \* bound: last instant of the clock

Limits == Nat \cup {None}

Caps == [concurrency : Limits,
         windows : SUBSET [duration : Nat \ {0}, input : Limits, output : Limits]]

\* The validation tags of GenerationCaps: one window per duration.
ASSUME CapsAssumption ==
    /\ None \notin Submits
    /\ PurposeOf \in [Requests -> Purposes]
    /\ Tokens \subseteq [input : Nat, output : Nat]
    /\ Summaries \subseteq (Nat \ {0}) \cup {None}
    /\ \A caps \in CapChoices :
          /\ caps.concurrency \in Limits
          /\ \A w \in caps.windows :
                w.duration \in Nat \ {0} /\ w.input \in Limits /\ w.output \in Limits
          /\ \A v, w \in caps.windows : v.duration = w.duration => v = w
    /\ Horizon \in Nat

\* App.Validate: the purge must not delete a generation that still holds its slot.
ASSUME HoldAssumption == Hold \in Nat \ {0} /\ Hold =< Retention

VARIABLES
    now,        \* the clock
    gens,       \* the row each submit committed, absent before that and once purged
    usage,      \* generation_usage: what each generation consumed and when that was recorded
    tx,         \* each submit's transaction
    lock,       \* the submit holding the owner's advisory lock, or None
    summary,    \* the summary of usage in progress
    unknownAt   \* history: when a call was left running unseen, kept past the purge

vars == <<now, gens, usage, tx, lock, summary, unknownAt>>

NoCaps == [concurrency |-> None, windows |-> {}]

\* The steps of a transaction, in order, and how a submit ends.
Open  == {"begun", "inserted", "counted", "admitted"}
Ended == {"created", "replayed", "refused", "error"}

\* A submit that did not begin yet.
NoTx == [pc |-> "idle", request |-> None, caps |-> NoCaps, beganAt |-> 0, intentAt |-> 0,
         window |-> None, retryAt |-> None]

Purpose(s) == PurposeOf[tx[s].request]

\* No summary was asked for. What one counted and summed is kept as the generations it found.
NoSummary == [pc |-> "idle", purpose |-> None, window |-> None, from |-> None,
              counted |-> {}, summed |-> {}, live |-> {}]

-----------------------------------------------------------------------------
(***************************************************************************)
(* What the statements read.                                               *)
(***************************************************************************)
\* Mutant: the unique index leaves the succeeded generations out.
ConflictLive(s, request) ==
    gens[s].status \in Live /\ tx[s].request = request

\* The unique index on request_key: failed and cancelled generations are outside it.
Conflict(s, request) ==
    gens[s].status \in Live \cup {"succeeded"} /\ tx[s].request = request

\* PgGenerationCountLive, at the transaction's instant: the generations it counts.
CountLive(purpose, at) ==
    {s \in Submits :
        /\ gens[s].status # "absent"
        /\ Purpose(s) = purpose
        /\ \/ gens[s].status \in Live
           \/ gens[s].outcomeUnknownAt # None /\ gens[s].outcomeUnknownAt > at - Hold}

\* The usage records of one purpose in the window that ends now, begun `duration' before `at'.
InWindow(purpose, at, duration) ==
    {s \in Submits :
        usage[s] # None /\ Purpose(s) = purpose /\ usage[s].at > at - duration}

Recorded == {s \in Submits : usage[s] # None}

InputOf(records)  == SumFunctionOnSet([s \in Recorded |-> usage[s].tokens.input], records)
OutputOf(records) == SumFunctionOnSet([s \in Recorded |-> usage[s].tokens.output], records)

\* reached: a nil limit is never reached.
Reached(limit, used) == limit # None /\ used >= limit

\* windowRefusal
WindowReached(window, records) ==
    \/ Reached(window.input, InputOf(records))
    \/ Reached(window.output, OutputOf(records))

\* Mutant: the wait is until the newest record leaves the window.
FreesAtNewest(window, records) ==
    IF records = {} THEN None
    ELSE Max({now} \cup {Max({usage[s].at : s \in records}) + window.duration})

\* RetryAfter, as an instant: the window frees usage once its oldest record leaves it.
FreesAt(window, records) ==
    IF records = {} THEN None
    ELSE Max({now} \cup {Min({usage[s].at : s \in records}) + window.duration})

-----------------------------------------------------------------------------
Init ==
    /\ now = 0
    /\ gens = [s \in Submits |-> AbsentRow]
    /\ usage = [s \in Submits |-> None]
    /\ tx = [s \in Submits |-> NoTx]
    /\ lock = None
    /\ summary = NoSummary
    /\ unknownAt = [s \in Submits |-> None]

(***************************************************************************)
(* The submit's transaction.                                               *)
(***************************************************************************)
Goto(s, pc) == tx' = [tx EXCEPT ![s].pc = pc]

\* The transaction ends and keeps its request, and what refused it.
Answer(s, pc, window, retryAt) ==
    tx' = [tx EXCEPT ![s] = [NoTx EXCEPT !.pc = pc, !.request = tx[s].request,
                                         !.window = window, !.retryAt = retryAt]]

\* The owner's lock ends with the transaction.
End(s, pc) ==
    /\ Answer(s, pc, None, None)
    /\ lock' = IF lock = s THEN None ELSE lock

Begin(s) ==
    /\ tx[s].pc = "idle"
    /\ \E request \in Requests, caps \in CapChoices :
          tx' = [tx EXCEPT ![s] = [NoTx EXCEPT !.pc = "begun", !.request = request,
                                               !.caps = caps, !.beganAt = now]]
    /\ UNCHANGED <<now, gens, usage, lock, unknownAt, summary>>

\* PgGenerationSubmit: the lock, then the clock, then the insert. A conflict replays the stored
\* generation, and the transaction has nothing more to do.
Insert(s) ==
    /\ tx[s].pc = "begun"
    /\ lock = None
    /\ IF \E t \in Submits : Conflict(t, tx[s].request)
         THEN End(s, "replayed")
         ELSE /\ tx' = [tx EXCEPT ![s].pc = "inserted", ![s].intentAt = now]
              /\ lock' = s
    /\ UNCHANGED <<now, gens, usage, unknownAt, summary>>

\* Mutant: a refused submit leaves its transaction open.
RefuseOpen(s, window, retryAt) ==
    /\ Answer(s, "refused", window, retryAt)
    /\ UNCHANGED lock

\* A refusal rolls the insert back.
Refuse(s, window, retryAt) ==
    /\ Answer(s, "refused", window, retryAt)
    /\ lock' = None

\* Mutant: its own generation is left out.
CountOthers(s, from, to) ==
    /\ tx[s].pc = from
    /\ LET caps == tx[s].caps
           live == Cardinality(CountLive(Purpose(s), tx[s].beganAt))
       IN  IF caps.concurrency # None /\ live > caps.concurrency
             THEN Refuse(s, None, None)
             ELSE Goto(s, to) /\ UNCHANGED lock
    /\ UNCHANGED <<now, gens, usage, unknownAt, summary>>

\* admit counts the generations in flight, its own uncommitted one included.
Count(s, from, to) ==
    /\ tx[s].pc = from
    /\ LET caps == tx[s].caps
           live == Cardinality(CountLive(Purpose(s), tx[s].beganAt)) + 1
       IN  IF caps.concurrency # None /\ live > caps.concurrency
             THEN Refuse(s, None, None)
             ELSE Goto(s, to) /\ UNCHANGED lock
    /\ UNCHANGED <<now, gens, usage, unknownAt, summary>>

\* admit sums the usage of every window in one statement, and refuses on the shortest reached.
Sum(s, from, to) ==
    /\ tx[s].pc = from
    /\ LET records(w) == InWindow(Purpose(s), tx[s].beganAt, w.duration)
           full       == {w \in tx[s].caps.windows : WindowReached(w, records(w))}
       IN  \/ /\ full = {}
              /\ Goto(s, to)
              /\ UNCHANGED lock
           \/ \E w \in full :
                 /\ \A v \in full : w.duration =< v.duration
                 /\ Refuse(s, w, FreesAt(w, records(w)))
    /\ UNCHANGED <<now, gens, usage, unknownAt, summary>>

\* Mutant: the usage is summed before the generations in flight are counted.
AdmitSumFirst(s) ==
    \/ Sum(s, "inserted", "counted")
    \/ Count(s, "counted", "admitted")

\* admit: two statements, so a generation may settle between them.
Admit(s) ==
    \/ Count(s, "inserted", "counted")
    \/ Sum(s, "counted", "admitted")

Commit(s) ==
    /\ tx[s].pc = "admitted"
    /\ gens' = [gens EXCEPT ![s] = PendingRow(tx[s].intentAt, FALSE)]
    /\ End(s, "created")
    /\ UNCHANGED <<now, usage, unknownAt, summary>>

\* An error, a deadline or a crash: the database rolls back what did not commit.
Fail(s) ==
    /\ tx[s].pc \in Open
    /\ End(s, "error")
    /\ UNCHANGED <<now, gens, usage, unknownAt, summary>>

-----------------------------------------------------------------------------
(***************************************************************************)
(* What happens to recorded generations meanwhile.                         *)
(***************************************************************************)
Outcomes ==
    {[status |-> "succeeded", error |-> None, failure |-> None],
     [status |-> "failed", error |-> "failureCallFailed", failure |-> "provider_failed"],
     [status |-> "failed", error |-> "failureOutcomeUnknown", failure |-> "outcome_unknown"],
     [status |-> "cancelled", error |-> "generationCancelledReason", failure |-> None]}

\* PgGenerationUsageInsert: the record already there wins.
Counted(s, tokens) ==
    usage' = [usage EXCEPT ![s] = IF @ = None /\ tokens # None
                                    THEN [at |-> now, tokens |-> tokens] ELSE @]

\* A check settles the generation and records what its answer reports in one transaction.
SettleGeneration(s) ==
    /\ gens[s].status \in Live
    /\ \E outcome \in Outcomes, tokens \in Tokens \cup {None} :
          /\ outcome.failure = "outcome_unknown" => tokens = None
          /\ gens' = [gens EXCEPT ![s] = Settle(gens[s], outcome, now)]
          /\ Counted(s, tokens)
    /\ unknownAt' = [unknownAt EXCEPT ![s] = gens'[s].outcomeUnknownAt]
    /\ UNCHANGED <<now, tx, lock, summary>>

\* stopOrphan records the usage of a call its generation does not carry. The stop follows the start
\* by seconds, so a generation settled as unknown meanwhile still holds its slot.
OrphanUsage(s) ==
    /\ \/ gens[s].status \in Live
       \/ unknownAt[s] # None /\ now - unknownAt[s] < Hold
    /\ usage[s] = None
    /\ \E tokens \in Tokens : Counted(s, tokens)
    /\ UNCHANGED <<now, gens, tx, lock, unknownAt, summary>>

Expired == {s \in Submits : gens[s].expiresAt # None /\ gens[s].expiresAt < now}

\* purge_settled_generations: the first to expire, up to the batch and the byte budget.
Purge ==
    /\ \E batch \in SUBSET Expired \ {{}} :
          /\ \A s \in batch, t \in Expired \ batch : gens[s].expiresAt =< gens[t].expiresAt
          /\ gens' = [s \in Submits |-> IF s \in batch THEN AbsentRow ELSE gens[s]]
    /\ UNCHANGED <<now, usage, tx, lock, unknownAt, summary>>

-----------------------------------------------------------------------------
(***************************************************************************)
(* UsageSummary: two statements and no transaction, each at its instant.   *)
(***************************************************************************)
\* A generation whose call may run: live, or left running unseen less than the hold ago, whether or
\* not its row is still stored.
InFlight(s) ==
    \/ gens[s].status \in Live
    \/ unknownAt[s] # None /\ now - unknownAt[s] < Hold

\* The history `live' is what was in flight when the summary was asked for.
Summarise ==
    /\ summary.pc = "idle"
    /\ \E purpose \in Purposes, window \in Summaries :
          summary' = [NoSummary EXCEPT !.pc = "asked", !.purpose = purpose, !.window = window,
                         !.live = {s \in Submits : InFlight(s) /\ Purpose(s) = purpose}]
    /\ UNCHANGED <<now, gens, usage, tx, lock, unknownAt>>

SummaryCount(from, to) ==
    /\ summary.pc = from
    /\ summary' = [summary EXCEPT !.pc = to, !.counted = CountLive(summary.purpose, now)]
    /\ UNCHANGED <<now, gens, usage, tx, lock, unknownAt>>

SummarySum(from, to) ==
    /\ summary.pc = from
    /\ summary' = [summary EXCEPT !.pc = to, !.from = now - summary.window,
                                  !.summed = InWindow(summary.purpose, now, summary.window)]
    /\ UNCHANGED <<now, gens, usage, tx, lock, unknownAt>>

\* Mutant: the usage is summed before the generations in flight are counted.
SummariseSumFirst ==
    IF summary.window = None THEN SummaryCount("asked", "answered")
    ELSE SummarySum("asked", "counted") \/ SummaryCount("counted", "answered")

\* The count, then the sum when a window is asked for.
SummaryRead ==
    IF summary.window = None THEN SummaryCount("asked", "answered")
    ELSE SummaryCount("asked", "counted") \/ SummarySum("counted", "answered")

\* A statement fails, and so does the summary.
SummaryFails ==
    /\ summary.pc \in {"asked", "counted"}
    /\ summary' = [NoSummary EXCEPT !.pc = "error"]
    /\ UNCHANGED <<now, gens, usage, tx, lock, unknownAt>>

Tick ==
    /\ now < Horizon
    /\ now' = now + 1
    /\ UNCHANGED <<gens, usage, tx, lock, unknownAt, summary>>

Submit(s) == Begin(s) \/ Insert(s) \/ Admit(s) \/ Commit(s) \/ Fail(s)

Next ==
    \/ \E s \in Submits : Submit(s) \/ SettleGeneration(s) \/ OrphanUsage(s)
    \/ Purge
    \/ Summarise \/ SummaryRead \/ SummaryFails
    \/ Tick

Spec == Init /\ [][Next]_vars

-----------------------------------------------------------------------------
\* Every variable has its type.
TypeOK ==
    /\ now \in Nat
    /\ gens \in [Submits -> Rows]
    /\ usage \in [Submits -> {None} \cup [at : Nat, tokens : Tokens]]
    /\ tx \in [Submits -> [pc : {"idle"} \cup Open \cup Ended,
                           request : Requests \cup {None},
                           caps : CapChoices \cup {NoCaps},
                           beganAt : Nat, intentAt : Nat,
                           window : (UNION {c.windows : c \in CapChoices}) \cup {None},
                           retryAt : Instants]]
    /\ lock \in Submits \cup {None}
    /\ summary \in [pc : {"idle", "asked", "counted", "answered", "error"},
                    purpose : Purposes \cup {None}, window : Summaries \cup {None},
                    from : Int \cup {None}, counted : SUBSET Submits,
                    summed : SUBSET Submits, live : SUBSET Submits]
    /\ unknownAt \in [Submits -> Instants]

\* The cap holds across concurrent submits, settlements and purges: a submit that carries one never
\* commits past it.
ConcurrencyHeld ==
    [][\A s \in Submits :
          (tx'[s].pc = "created" /\ tx[s].pc # "created" /\ tx[s].caps.concurrency # None) =>
             Cardinality({t \in Submits : InFlight(t)' /\ Purpose(t)' = Purpose(s)})
                =< tx[s].caps.concurrency]_vars

\* One request never has two generations that run or succeeded: a resend attaches to the work already
\* paid for, even when it races the settlement of that work.
OneRunPerRequest ==
    \A s, t \in Submits :
        /\ s # t
        /\ gens[s].status \in Live \cup {"succeeded"}
        /\ gens[t].status \in Live \cup {"succeeded"}
        => tx[s].request # tx[t].request

MostInput  == Max({0} \cup {tokens.input : tokens \in Tokens})
MostOutput == Max({0} \cup {tokens.output : tokens \in Tokens})

\* Nothing is reserved, so a window can be overrun, but "the concurrency bounds how many can": past
\* its limit by no more than the generations in flight together consume. A generation that settles
\* while a submit is being admitted is seen by the count or by the sum.
OverspendBounded ==
    \A caps \in CapChoices : \A w \in caps.windows, purpose \in Purposes :
        LET records == InWindow(purpose, now, w.duration)
        IN  CapChoices = {caps} /\ caps.concurrency # None =>
            /\ w.input # None =>
                  InputOf(records) =< Max({w.input - 1, 0}) + caps.concurrency * MostInput
            /\ w.output # None =>
                  OutputOf(records) =< Max({w.output - 1, 0}) + caps.concurrency * MostOutput

\* The wait a refusal names is never too long: until it ends the window that refused has no room,
\* whatever settles or is purged meanwhile, so a caller that obeys it loses nothing.
RetryIsFutileBefore ==
    \A s \in Submits : tx[s].retryAt # None /\ now < tx[s].retryAt =>
        WindowReached(tx[s].window, InWindow(Purpose(s), now, tx[s].window.duration))

\* A summary never hides work its owner had in flight when it was asked for: what consumed tokens
\* since is either counted as live or summed, though a check settles it between the two statements,
\* unless its record left the window by then.
SummaryMissesNone ==
    summary.pc = "answered" /\ summary.window # None =>
        \A s \in summary.live : usage[s] # None /\ usage[s].at > summary.from =>
            s \in summary.counted \cup summary.summed

-----------------------------------------------------------------------------
(***************************************************************************)
(* Liveness: a statement that waits for the owner's lock gets it once the  *)
(* transactions before it end, and each of those ends by itself.           *)
(***************************************************************************)
Fairness ==
    \A s \in Submits : /\ WF_vars(Insert(s))
                       /\ WF_vars(Admit(s))
                       /\ WF_vars(Commit(s))

FairSpec == Spec /\ Fairness

\* Every submit answers: no refusal, replay or failure leaves the owner's lock to block the others.
SubmitsEnd == \A s \in Submits : tx[s].pc = "begun" ~> tx[s].pc \in Ended

=============================================================================
