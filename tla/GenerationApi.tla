--------------------------- MODULE GenerationApi ---------------------------
(***************************************************************************)
(* The calls of GenerationSubmit, GenerationGet and GenerationCancel, from *)
(* the handler to the reply: what a caller is told while other calls, the  *)
(* provider and the purge change what it reads.                            *)
(*                                                                         *)
(* A call is several statements with nothing held between them: it reads   *)
(* or marks the row, checks it with the provider, reads the row again when *)
(* another check was first, then lists the answers in a statement of its   *)
(* own.  The check is the one of GenerationCheck, kept here to the reads   *)
(* and writes its caller can observe: ask, settle, read again.             *)
(*                                                                         *)
(* Every generation belongs to one owner.  Submits are admitted as         *)
(* Admission describes: here an unadmitted one is refused.                 *)
(***************************************************************************)
EXTENDS GenerationStore, RequestKey

CONSTANTS
    Calls,              \* the calls in flight at once
    Runs,               \* bound: the generations submits may create
    Asked,              \* the requests callers send
    Others,             \* the requests whose keys are compared with each new one's
    StartUnknownAfter,  \* startOutcomeUnknownAfter
    Horizon             \* bound: last instant of the clock

ASSUME ApiAssumption ==
    /\ Runs \subseteq Nat
    /\ None \notin Asked
    /\ Asked \subseteq Requests
    /\ Others \subseteq ValidRequests
    /\ StartUnknownAfter \in Nat \ {0}
    /\ Horizon \in Nat

VARIABLES
    now,       \* the database clock
    gens,      \* the row of each run: absent before it is created, and once it is purged
    asked,     \* the request each run was created for, None before
    attempts,  \* the runs whose answer is stored
    provider,  \* the provider's call of each run
    rpc,       \* each call in flight
    reply,     \* what the last step replied, None when it did not
    told       \* history: how each run ended, as a caller was first told

vars == <<now, gens, asked, attempts, provider, rpc, reply, told>>

Ended == {"finished", "failed", "stopped"}

NoPlan == [status |-> None, error |-> None, failure |-> None]

\* status is the generation's as its service holds it, seen the row its check fences on.
Idle == [pc |-> "idle", kind |-> None, mine |-> TRUE, run |-> None, request |-> None,
         status |-> None, seen |-> AbsentRow, readAt |-> 0, plan |-> NoPlan,
         missed |-> FALSE, due |-> FALSE, before |-> None]

Init ==
    /\ now = 0
    /\ gens = [r \in Runs |-> AbsentRow]
    /\ asked = [r \in Runs |-> None]
    /\ attempts = {}
    /\ provider = [r \in Runs |-> "none"]
    /\ rpc = [c \in Calls |-> Idle]
    /\ reply = None
    /\ told = [r \in Runs |-> None]

-----------------------------------------------------------------------------
(***************************************************************************)
(* Replies.                                                                *)
(***************************************************************************)
\* The handlers' statuses: the errors a caller can act on have one of their own.
StatusOf(error) ==
    CASE error = "ErrInvalidRequest"     -> "INVALID_ARGUMENT"
      [] error = "ErrUsageCapReached"    -> "RESOURCE_EXHAUSTED"
      [] error = "ErrModeUnsupported"    -> "UNIMPLEMENTED"
      [] error = "ErrGenerationNotFound" -> "NOT_FOUND"
      [] OTHER                           -> "INTERNAL"

\* What is left of a call past its check.
Past(call) == [call EXCEPT !.seen = AbsentRow, !.readAt = 0, !.plan = NoPlan]

\* The call replies with a code and, when it is OK, its generation and whether an answer comes with it.
Reply(c, call, code, answered) ==
    /\ reply' = [call |-> Past(call), code |-> code, answered |-> answered]
    /\ rpc' = [rpc EXCEPT ![c] = Idle]

Refuse(c, call, error) == Reply(c, call, StatusOf(error), FALSE)

\* The call goes on.
Step(c, call) ==
    /\ rpc' = [rpc EXCEPT ![c] = IF call.pc = "list" THEN Past(call) ELSE call]
    /\ reply' = None

\* mayHaveAttempts: an unsettled generation has none, and the read is skipped.
MayHaveAttempts(call) == call.status \in Settled

\* The check is done with the row the service returns.
Checked(c, row) == Step(c, [rpc[c] EXCEPT !.pc = "list", !.status = row.status])

\* The check failed: the service keeps the generation it had.
Unchecked(c) == Step(c, [rpc[c] EXCEPT !.pc = "list", !.missed = TRUE])

\* PgGenerationAttemptList, then newGeneration and its wire form.
List(c) ==
    /\ rpc[c].pc = "list"
    /\ Reply(c, rpc[c], "OK", MayHaveAttempts(rpc[c]) /\ rpc[c].run \in attempts)
    /\ told' = IF rpc[c].status \in Settled /\ told[rpc[c].run] = None
                 THEN [told EXCEPT ![rpc[c].run] = rpc[c].status] ELSE told
    /\ UNCHANGED <<now, gens, asked, attempts, provider>>

ListFails(c) ==
    /\ rpc[c].pc = "list"
    /\ MayHaveAttempts(rpc[c])
    /\ Refuse(c, rpc[c], "statement")
    /\ UNCHANGED <<now, gens, asked, attempts, provider, told>>

\* The replica dies: nothing of the call is left. A caller that only goes away leaves its check to run
\* to its end, as the other steps do.
Lose(c) ==
    /\ rpc[c].pc # "idle"
    /\ Step(c, Idle)
    /\ UNCHANGED <<now, gens, asked, attempts, provider, told>>

-----------------------------------------------------------------------------
(***************************************************************************)
(* GenerationSubmit.                                                       *)
(***************************************************************************)
\* Mutant: the index leaves the key out.
AttachesAny(run, request) == gens[run].status \in Live \cup {"succeeded"}

\* The unique index on request_key: failed and cancelled generations are outside it.
Attaches(run, request) ==
    /\ gens[run].status \in Live \cup {"succeeded"}
    /\ Key(asked[run]) = Key(request)

\* The transaction: a replay returns the stored generation as it stands, without a check.
Submit(c) ==
    /\ rpc[c].pc = "idle"
    /\ \E request \in Asked :
          LET call == [Idle EXCEPT !.kind = "submit", !.request = request]
              runs == {r \in Runs : asked[r] # None /\ Attaches(r, request)}
              free == {r \in Runs : asked[r] = None}
          IN  \/ /\ Refused(request) # ""
                 /\ Refuse(c, call, Refused(request))
                 /\ UNCHANGED <<gens, asked>>
              \/ /\ Refused(request) = ""
                 /\ \E error \in {"ErrUsageCapReached", "statement"} : Refuse(c, call, error)
                 /\ UNCHANGED <<gens, asked>>
              \/ /\ Refused(request) = ""
                 /\ \E r \in runs :
                       Step(c, [call EXCEPT !.pc = "list", !.run = r, !.status = gens[r].status,
                                            !.before = told[r]])
                 /\ UNCHANGED <<gens, asked>>
              \/ /\ Refused(request) = "" /\ runs = {} /\ free # {}
                 /\ LET r   == CHOOSE r \in free : \A q \in free : r =< q
                        row == PendingRow(now, request.stream)
                    IN  /\ gens' = [gens EXCEPT ![r] = row]
                        /\ asked' = [asked EXCEPT ![r] = request]
                        /\ Step(c, [call EXCEPT !.pc = "start", !.run = r,
                                                !.status = row.status, !.seen = row, !.readAt = now])
    /\ UNCHANGED <<now, attempts, provider, told>>

Plan(status, error, failure) == [status |-> status, error |-> error, failure |-> failure]

\* The provider turned the start away, never got it, or may have accepted it.
StartPlans == {Plan("failed", "failureRejected", "rejected"),
               Plan("failed", "failureStartFailed", "not_started"),
               Plan("failed", "failureOutcomeUnknown", "outcome_unknown")}

Start(c) ==
    /\ rpc[c].pc = "start"
    /\ \/ /\ provider' = [provider EXCEPT ![rpc[c].run] = "running"]
          /\ Step(c, [rpc[c] EXCEPT !.pc = "record"])
       \/ \E plan \in StartPlans :
             /\ \/ UNCHANGED provider
                \/ /\ plan.failure = "outcome_unknown"
                   /\ provider' = [provider EXCEPT ![rpc[c].run] = "running"]
             /\ Step(c, [rpc[c] EXCEPT !.pc = "settle", !.plan = plan])
    /\ UNCHANGED <<now, gens, asked, attempts, told>>

\* recordCall: a call its generation does not carry is stopped.
Record(c) ==
    LET r == rpc[c].run
    IN  /\ rpc[c].pc = "record"
        /\ IF RecordMatches(gens[r])
             THEN LET row == RecordProviderCall(gens[r])
                  IN  /\ gens' = [gens EXCEPT ![r] = row]
                      /\ IF row.cancelRequestedAt = None THEN Checked(c, row)
                         ELSE Step(c, [rpc[c] EXCEPT !.pc = "check", !.seen = row, !.readAt = now])
                      /\ UNCHANGED provider
             ELSE /\ provider' = [provider EXCEPT ![r] = IF @ = "running" THEN "stopped" ELSE @]
                  /\ Step(c, [rpc[c] EXCEPT !.pc = "reread"])
                  /\ UNCHANGED gens
        /\ UNCHANGED <<now, asked, attempts, told>>

-----------------------------------------------------------------------------
(***************************************************************************)
(* GenerationGet and GenerationCancel.                                     *)
(***************************************************************************)
\* What the call was preceded by: how the run was told to have ended, and whether its call was over
\* and recorded.
Opened(kind, mine, r) ==
    [Idle EXCEPT !.kind = kind, !.mine = mine, !.run = r, !.before = told[r],
                 !.due = gens[r].providerCallId # None /\ provider[r] \in Ended]

\* PgGenerationGet: scoped to the owner, so a stranger's read finds nothing.
Found(call) == call.mine /\ gens[call.run].status # "absent"

Read(call, pc) == [call EXCEPT !.pc = pc, !.status = gens[call.run].status,
                                !.seen = gens[call.run], !.readAt = now]

Get(c) ==
    /\ rpc[c].pc = "idle"
    /\ \E r \in Runs, mine \in BOOLEAN :
          LET call == Opened("get", mine, r)
          IN  /\ asked[r] # None
              /\ IF ~Found(call) THEN Refuse(c, call, "ErrGenerationNotFound")
                 ELSE Step(c, Read(call, IF gens[r].settledAt = None THEN "check" ELSE "list"))
    /\ UNCHANGED <<now, gens, asked, attempts, provider, told>>

\* The request is malformed, or the first statement fails.
ReadFails(c) ==
    /\ rpc[c].pc = "idle"
    /\ \E kind \in {"get", "cancel"}, error \in {"ErrInvalidRequest", "statement"} :
          Refuse(c, [Idle EXCEPT !.kind = kind], error)
    /\ UNCHANGED <<now, gens, asked, attempts, provider, told>>

\* A generation whose call is known is checked right away, which stops the call.
AfterMark(row) == IF row.providerCallId # None /\ row.settledAt = None THEN "check" ELSE "list"

\* Mutant: a generation that cannot be marked is reported missing.
CancelOrMissing(c) ==
    /\ rpc[c].pc = "idle"
    /\ \E r \in Runs, mine \in BOOLEAN :
          LET call == Opened("cancel", mine, r)
              row  == RequestCancel(gens[r], now)
          IN  /\ asked[r] # None
              /\ IF mine /\ CancelMatches(gens[r])
                   THEN /\ gens' = [gens EXCEPT ![r] = row]
                        /\ Step(c, [call EXCEPT !.pc = AfterMark(row), !.status = row.status,
                                                !.seen = row, !.readAt = now])
                   ELSE Refuse(c, call, "ErrGenerationNotFound") /\ UNCHANGED gens
    /\ UNCHANGED <<now, asked, attempts, provider, told>>

\* PgGenerationRequestCancel: settled already, or not this owner's, it marks nothing.
Cancel(c) ==
    /\ rpc[c].pc = "idle"
    /\ \E r \in Runs, mine \in BOOLEAN :
          LET call == Opened("cancel", mine, r)
              row  == RequestCancel(gens[r], now)
          IN  /\ asked[r] # None
              /\ IF mine /\ CancelMatches(gens[r])
                   THEN /\ gens' = [gens EXCEPT ![r] = row]
                        /\ Step(c, [call EXCEPT !.pc = AfterMark(row), !.status = row.status,
                                                !.seen = row, !.readAt = now])
                   ELSE Step(c, [call EXCEPT !.pc = "unmarked"]) /\ UNCHANGED gens
    /\ UNCHANGED <<now, asked, attempts, provider, told>>

\* The owner-scoped read tells the two apart.
Unmarked(c) ==
    /\ rpc[c].pc = "unmarked"
    /\ IF ~Found(rpc[c]) THEN Refuse(c, rpc[c], "ErrGenerationNotFound")
       ELSE Step(c, Read(rpc[c], AfterMark(gens[rpc[c].run])))
    /\ UNCHANGED <<now, gens, asked, attempts, provider, told>>

-----------------------------------------------------------------------------
(***************************************************************************)
(* The check of the call's generation.                                     *)
(***************************************************************************)
\* settleOutcomeOf, from the request to cancel as it stands when the call is found stopped.
OutcomeOf(state, row) ==
    CASE state = "finished" -> Plan("succeeded", None, None)
      [] state = "failed" -> Plan("failed", "failureCallFailed", "provider_failed")
      [] state = "stopped" /\ row.cancelRequestedAt # None ->
            Plan("cancelled", "generationCancelledReason", None)
      [] OTHER -> Plan("failed", "failureOverdue", "provider_failed")

\* resolveStart: an intent without a call is settled once no start can be in flight.
CheckIntent(c) ==
    /\ rpc[c].pc = "check"
    /\ rpc[c].seen.providerCallId = None
    /\ IF rpc[c].readAt - rpc[c].seen.startRequestedAt < StartUnknownAfter
         THEN Checked(c, rpc[c].seen)
         ELSE Step(c, [rpc[c] EXCEPT !.pc = "settle",
                                     !.plan = Plan("failed", "failureOutcomeUnknown", "outcome_unknown")])
    /\ UNCHANGED <<now, gens, asked, attempts, provider, told>>

\* observe: the owner's request stops the call, and a call that goes on leaves the row alone.
Ask(c) ==
    LET r     == rpc[c].run
        state == IF rpc[c].seen.cancelRequestedAt # None /\ provider[r] = "running"
                   THEN "stopped" ELSE provider[r]
    IN  /\ rpc[c].pc = "check"
        /\ rpc[c].seen.providerCallId # None
        /\ provider' = [provider EXCEPT ![r] = state]
        /\ IF state \in Ended
             THEN Step(c, [rpc[c] EXCEPT !.pc = "settle", !.plan = OutcomeOf(state, gens[r])])
             ELSE Checked(c, rpc[c].seen)
        /\ UNCHANGED <<now, gens, asked, attempts, told>>

\* A transient failure of the provider returns the generation as read.
Unanswered(c) ==
    /\ rpc[c].pc = "check"
    /\ rpc[c].seen.providerCallId # None
    /\ Step(c, [rpc[c] EXCEPT !.pc = "list", !.status = rpc[c].seen.status, !.missed = TRUE])
    /\ UNCHANGED <<now, gens, asked, attempts, provider, told>>

\* Mutant: only a failed call's answer is kept.
AnsweredFailed(plan) == plan.failure \in {"rejected", "provider_failed"}

\* The answers a settle keeps: every terminal call has one, and so has a rejection.
Answered(plan) == plan.failure \notin {"not_started", "outcome_unknown"}

\* Mutant: a check that lost the race returns what it read.
SettleOrKeep(c) ==
    LET r == rpc[c].run
    IN  /\ rpc[c].pc = "settle"
        /\ IF SettleMatches(gens[r], rpc[c].seen)
             THEN LET row == Settle(gens[r], rpc[c].plan, now)
                  IN  /\ gens' = [gens EXCEPT ![r] = row]
                      /\ attempts' = IF Answered(rpc[c].plan) THEN attempts \cup {r} ELSE attempts
                      /\ Checked(c, row)
             ELSE Checked(c, rpc[c].seen) /\ UNCHANGED <<gens, attempts>>
        /\ UNCHANGED <<now, asked, provider, told>>

\* commit: the settle and its answer in one transaction, unless another check was first.
SettleCall(c) ==
    LET r == rpc[c].run
    IN  /\ rpc[c].pc = "settle"
        /\ IF SettleMatches(gens[r], rpc[c].seen)
             THEN LET row == Settle(gens[r], rpc[c].plan, now)
                  IN  /\ gens' = [gens EXCEPT ![r] = row]
                      /\ attempts' = IF Answered(rpc[c].plan) THEN attempts \cup {r} ELSE attempts
                      /\ Checked(c, row)
             ELSE Step(c, [rpc[c] EXCEPT !.pc = "reread"]) /\ UNCHANGED <<gens, attempts>>
        /\ UNCHANGED <<now, asked, provider, told>>

\* Another check committed first: its result is the answer, unless the purge took it since.
Reread(c) ==
    /\ rpc[c].pc = "reread"
    /\ IF gens[rpc[c].run].status # "absent" THEN Checked(c, gens[rpc[c].run])
       ELSE IF rpc[c].kind = "cancel" THEN Refuse(c, rpc[c], "ErrGenerationNotFound")
       ELSE Unchecked(c)
    /\ UNCHANGED <<now, gens, asked, attempts, provider, told>>

\* A check, or a read, that fails leaves its caller the generation as it was, or fails the cancel that wanted it.
CheckFails(c) ==
    /\ rpc[c].pc \in {"record", "unmarked", "check", "settle", "reread"}
    /\ IF rpc[c].kind = "cancel" THEN Refuse(c, rpc[c], "check")
       ELSE Unchecked(c)
    /\ UNCHANGED <<now, gens, asked, attempts, provider, told>>

-----------------------------------------------------------------------------
(***************************************************************************)
(* What happens meanwhile.                                                 *)
(***************************************************************************)
ProviderEnds ==
    /\ \E r \in Runs, state \in {"finished", "failed"} :
          /\ provider[r] = "running"
          /\ provider' = [provider EXCEPT ![r] = state]
    /\ reply' = None
    /\ UNCHANGED <<now, gens, asked, attempts, rpc, told>>

\* purge_settled_generations: the answers go with their row.
Purge ==
    /\ \E r \in Runs :
          /\ gens[r].expiresAt # None
          /\ gens[r].expiresAt < now
          /\ gens' = [gens EXCEPT ![r] = AbsentRow]
          /\ attempts' = attempts \ {r}
    /\ reply' = None
    /\ UNCHANGED <<now, asked, provider, rpc, told>>

\* A replica may stall, so a start can outlast the wait after which a check settles its intent.
Tick ==
    /\ now < Horizon
    /\ now' = now + 1
    /\ reply' = None
    /\ UNCHANGED <<gens, asked, attempts, provider, rpc, told>>

Serve(c) ==
    \/ Submit(c) \/ Start(c) \/ Record(c)
    \/ Get(c) \/ Cancel(c) \/ ReadFails(c) \/ Unmarked(c)
    \/ CheckIntent(c) \/ Ask(c) \/ Unanswered(c) \/ SettleCall(c) \/ Reread(c) \/ CheckFails(c)
    \/ List(c) \/ ListFails(c)

Next ==
    \/ \E c \in Calls : Serve(c) \/ Lose(c)
    \/ ProviderEnds \/ Purge \/ Tick

Spec == Init /\ [][Next]_vars

-----------------------------------------------------------------------------
Codes == {"OK", "INVALID_ARGUMENT", "RESOURCE_EXHAUSTED", "UNIMPLEMENTED", "NOT_FOUND", "INTERNAL"}

CallStates ==
    [pc : {"idle", "start", "record", "unmarked", "check", "settle", "reread", "list"},
     kind : {"submit", "get", "cancel", None}, mine : BOOLEAN, run : Runs \cup {None},
     request : Asked \cup {None}, status : Live \cup Settled \cup {None}, seen : Rows, readAt : Nat,
     plan : [status : Settled \cup {None}, error : Errors \cup {None}, failure : Failures \cup {None}],
     missed : BOOLEAN, due : BOOLEAN, before : Settled \cup {None}]

\* Every variable has its type.
TypeOK ==
    /\ now \in Nat
    /\ gens \in [Runs -> Rows]
    /\ asked \in [Runs -> Asked \cup {None}]
    /\ attempts \subseteq Runs
    /\ provider \in [Runs -> Ended \cup {"none", "running"}]
    /\ rpc \in [Calls -> CallStates]
    /\ reply \in {None} \cup [call : CallStates, code : Codes, answered : BOOLEAN]
    /\ told \in [Runs -> Settled \cup {None}]

\* The last step replied with a generation.
Replied == reply # None /\ reply.code = "OK"

\* The row and its answer are two reads: a reply that says succeeded lacks the answer only when the
\* purge took both between them, whoever settled the generation and whenever the call first read it.
AnswerTravels ==
    Replied /\ reply.call.status = "succeeded" /\ ~reply.answered =>
        gens[reply.call.run].status = "absent"

\* Callers agree: every reply that says how a generation ended says the same, and no reply takes it
\* back from a call made after one was read.
RepliesAgree ==
    Replied =>
        /\ reply.call.status \in Settled => reply.call.status = told[reply.call.run]
        /\ reply.call.before # None => reply.call.status = reply.call.before

\* "A poll made after the provider finished returns the settled generation", though another check
\* settles it meanwhile. It may not when its call is not recorded yet, or its check failed.
PollSeesTheEnd ==
    Replied /\ reply.call.kind = "get" /\ reply.call.due /\ ~reply.call.missed =>
        reply.call.status \in Settled

\* The owner of a stored generation is never told it does not exist, whichever race its call lost, and
\* nobody else is ever told that it does.
NotFoundIsTrue ==
    reply # None /\ reply.call.kind \in {"get", "cancel"} =>
        /\ reply.code = "NOT_FOUND" /\ reply.call.mine => gens[reply.call.run].status = "absent"
        /\ ~reply.call.mine => reply.code \in {"NOT_FOUND", "INTERNAL"}

\* A submit is never answered with the generation of another request, however its fields run together.
AnsweredWithItsOwn ==
    Replied /\ reply.call.kind = "submit" =>
        Content(reply.call.request) = Content(asked[reply.call.run])

OtherEntries == {Entry(request) : request \in Others}

\* The key a generation is stored under finds exactly the requests that ask for the same: neither the
\* order of their members nor their white space sends the work twice, and no other request shares it.
\* The requests it finds would have sent the provider the same body.
KeyIdentifies ==
    [][\A r \in Runs : asked[r] = None /\ asked'[r] # None =>
          LET stored == Entry(asked'[r])
          IN  \A other \in OtherEntries :
                 /\ (other.key = stored.key) = (other.content = stored.content)
                 /\ other.key = stored.key => other.sent = stored.sent]_vars

=============================================================================
