# A TLA+ model of the GenAI service

The service runs AI provider calls durably and pays for each once. A caller submits a request and
polls for its result. No process owns a generation: every transition is one conditional `UPDATE`, and
whichever check commits first wins. What is hard is therefore what happens between two statements: a
process that freezes after it recorded its intent, a write whose client gave up on it, a stop that
races an answer, an admission that races a settlement, a reply put together from two reads, a stream
resumed after a drop. These modules state what must hold through
all of that, TLC checks it on small instances, and TLAPS proves every safety property of the runs for
every value of the constants.

## Inventory

| Component | State | Operations | What is hard |
| --- | --- | --- | --- |
| Generation check, `core/generationCheck.go` | the generation row, the attempt, the usage record, the call at the provider | start, record the id, read, stop, settle, stop an orphan | any number of checks act on reads of any age; writes land late; a process freezes or dies anywhere |
| Row statements, `dao/*.sql` | `generations`, `generation_attempts`, `generation_usage` | insert, record id, request cancel, settle | fencing; the table's constraints |
| Submit and admission, `core/generationSubmit.go` | the owner's transactions and advisory lock | insert or replay, count, sum, commit or refuse | two read-committed statements race settlements; the transaction's clock is older than its lock |
| Purge, `purge_settled_generations` | settled rows | delete by expiry | a row may still hold its owner's slot |
| Sweep, `core/generationSweep.go` | the leader's session, slots per process, the cursor | take the role, read a page, dispatch checks, release | runs overlap; deadlines and stops cut them; slots are shared |
| Submit, get and cancel calls, `handlers/grpc.*.go` | the locals of each call in flight | read or mark, check, read again, list the answers, reply | a reply is put together from reads that others change in between |
| Request key, `requestKey`, `canonicalPayload` | none | derive, compare | fields that run together; formatting |
| Event stream, `core/generationStream.go`, `yieldEvents` | the cursor, what is on the wire | connect, forward, end, resume | any of three hops drops; an end that is not one; an event no stream can pass |
| Usage summary, `core/usageSummary.go` | none | count, sum | two statements, no transaction |
| OpenAI connector, `lib/connectors/openai.go` | the creation stream held by a start | start, read, cancel, stream | what an error says about a call that may run |
| Servers, `cmd/grpc`, `cmd/sweep`, configuration | the process's context, database, companions | start, serve, drain, exit | two servers and a database that end in the right order |
| Queue depth, status, health, ping | none | one read | |

Components interact through the database alone. The submit's own check is the only one that sends the
call. Polls, cancels and the sweep run the same check on what they read.

What makes each correct:

- check: a settled generation tells what the call became, keeps its answer and counts its usage, and
  never hides a call that may run; every generation settles;
- rows: settled rows are final, the marks on a row are written once, no statement breaks a constraint;
- admission: caps hold across concurrent submits, windows are overrun by a bounded amount, a resend
  attaches to the run already paid for, the owner's lock is always released;
- purge: a generation whose call may run keeps its slot as long as its hold;
- calls: replies agree and are not taken back, carry the answer, never deny a stored generation to its
  owner, never answer a request with another's generation;
- key: equal exactly for requests that ask for the same;
- stream: every event once and in order across reconnections, no false end, the caller always
  finishes;
- summary: a generation is counted or summed, never in neither;
- servers: no work outlives its database, each check has a connection, every process told to stop
  exits;
- sweep: no slot leaks, no check outlasts its caller's deadline, a run that drains the backlog misses
  nothing and repeats nothing, the role is released.

`PROJECT.json` lists the hazards behind these, each at its line.

## Modules

| Module | Models | Used by |
| --- | --- | --- |
| `GenerationStore` | the row, each statement as a *matches* predicate and an operator on the row, the `CHECK` constraints | `GenerationCheck`, `Admission`, `GenerationApi` |
| `GenerationCheck` | one generation from intent to settlement: the `Starter` (the submit's own check), any set of `Checks`, the provider, the deployment, the clock | refines `GenerationLife` |
| `GenerationLife` | what the owner of a generation is promised (abstract) | `GenerationCheck` |
| `GenerationCheckProofs` | the theorems about it, the refinement included | |
| `SetLemmas` | nothing of the code: facts about finite sets, least and greatest naturals, induction and sums | the proofs |
| `Admission` | one owner's submits, settlements, orphan usage, the purge and the usage summary | |
| `AdmissionProofs` | the theorems about it: who may commit, and what is read of the usage | |
| `GenerationSweep` | runs of the sweep on several replicas | |
| `GenerationSweepProofs` | the theorems about it | |
| `RequestKey` | validation, the key, the body sent, as operators | `GenerationApi` |
| `RequestKeyProofs` | the theorems about them | `GenerationApiProofs` |
| `GenerationApi` | the submit, get and cancel calls from the handler to the reply | composes `GenerationStore` and `RequestKey` |
| `GenerationApiProofs` | the theorems about it | |
| `EventFeed` | what a caller of the stream is promised (abstract) | `EventStream` |
| `EventStream` | the handler, the service and the connector of the stream, its caller and the provider | refines `EventFeed` |
| `EventStreamProofs` | the invariants and the refinement | |
| `Servers` | one process of either entrypoint, from its configuration to its exit | |
| `ServersProofs` | the theorems about it | |
| `MC*` | symmetry and small values for TLC | the `.cfg` files |

### GenerationStore

`RecordMatches`/`RecordProviderCall`, `SettleMatches`/`Settle` and `CancelMatches`/`RequestCancel` are
the three updates. A statement that matches nothing is `ErrGenerationChanged` in the code. `None` is
NULL. `Retention` is an exact offset, as the settle takes its instants from a single clock reading.

### GenerationCheck

`row`, `attempt` and `usage` are the database. `call` is the provider's side: its state, the kind of
answer it holds (`counted`, `uncounted`, one the database refuses, one larger than the connector
reads), whether a stop was asked, whether its retention ended. `proc[p]` is a process: where it is,
`gen`, the row as it read it, and `plan`, the settlement it is about to commit. Both may be stale by
any number of steps. `start` holds the local variables of the Starter, `late` is a write whose
client gave up and which may still land.

The control points follow the code: `intent`, `admit` (the submit's transaction), `age` (the checks
before a start), `send`, `accept` (inside `connector.Start`), `write`, `pause`, `rewrite`, `readback`
(`recordCall`), `hold` (`holdStream`), `orphan`, `orphanUsage` (`stopOrphan`), and for every check
`get`, `stop` (`ask`), `label` (the fresh read in `observe`) and `commit`. Every point is a place
where another process, the provider or the clock may step in. `Abort` covers a crash, a deadline and
any error returned without a write, at any of them. A transient provider error on a read is the same
as `Abort`.

Timing: deadlines are guards on `Tick`. Unless `MayFreeze` holds, the clock does not pass a deadline
the Starter's process is under. One clock serves host and database; the code takes `intentAt` before
the database takes `startRequestedAt`, which is what the model keeps. The abstraction is the
provider: it accepts, refuses, runs, finishes and forgets as it likes, and owes nothing.

`GenerationLife` is what is left when processes, reads, late writes and the clock are taken away: a
status, the class of a failure, whether a cancel was asked, what became of the call, and what was kept
and counted of it. A caller decides on the class whether to send its request again, so each class
promises something of the call: `not_started` that the provider never ran it nor will, `rejected` that
it refused it, `provider_failed` that it is over. Only `outcome_unknown` promises nothing, and only under
it may a call still be sent. `ImplementsLife` maps the row, the attempt, the usage and the provider's
call to these, and every step of `GenerationCheck` to one of the life's or to none.

### Admission

`tx[s]` is the transaction of a submit: `begun` (its `CURRENT_TIMESTAMP` is `beganAt`), `inserted` (it
holds the owner's lock and has read its intent's instant), `counted`, `admitted`, then how it ended.
Its own row is visible to it alone until `Commit`, so the count adds one. `Insert` is atomic: one
statement takes the lock, reads the clock and inserts or finds the conflicting row. `SettleGeneration`
and `OrphanUsage` stand for `GenerationCheck`, seen from the tables admission reads. `unknownAt` is
history: it remembers a call left running unseen after the purge deleted its row.

A request stands for its key, which `RequestKey` derives. Caps are whatever the caller sends, which
the code does not constrain beyond its validation tags. `summary` is a usage summary in progress: it
takes no lock and no transaction, so a settlement may fall between its count and its sum.

### GenerationSweep

`run[r]` is a call of `Exec`, `leader` the run whose *session* holds the advisory lock, `slots[p]` the
occupied part of a process's channel, `checks` the goroutines under way. Slots, the recheck after a
slot, and the end of a check are separate steps, since the wait for a slot has no bound. Rows appear in
any id order: ids are minted before the insert. `checked` and `owed` are history. The check itself is
one step here.

### GenerationApi and RequestKey

`rpc[c]` is a call in flight: its control point, the status its service holds, the row its check fences
on. The points are the statements: `start`, `record` (the submit's check), `check`, `settle`, `reread`
(after `ErrGenerationChanged`), `unmarked` (the read of a cancel that marked nothing), `list`.
`GenerationCheck` has the check in full. Here it is reduced to the reads and writes its caller can
observe: late writes, ceilings and repeated stops are left to it. `reply` is what the last step
replied, together with what the call knew when it was made: whether the run had been told ended
(`before`), whether its call was over and recorded (`due`), whether its check failed (`missed`). The
properties are about that reply. Handlers are part of the actions: `StatusOf` is how their errors read.

A payload is its members in the order sent, so equality of keys has formatting to see through. Number
literals and the order of nested names are kept, as `canonicalPayload` keeps them. A text is a sequence
of numbers. `FlattenSeq` runs the parts of a key together, and `Sorted` is the increasing order of the
members. `Others` are the requests whose keys `KeyIdentifies` compares with each new one's.

### EventStream and EventFeed

`stream` is the handler's goroutine, `wire` what it sent and its caller did not read, `received` what
the caller has. `Disconnect` loses the wire; `Cut` is the provider's connection; `ConnectFails` a
failing read or GET. The caller acts as the contract in the docs tells it: it resumes after
`UNAVAILABLE`, and polls after anything else, an `OK` without a terminal event included. `EventFeed`
has no connections at all. The refinement maps `received` to what it delivered, `events` to what it
produced, and the caller's end to its outcome.

### Servers

`main` is the main goroutine, `side` its companion: the server of the calls in flight for `cmd/grpc`,
the ticker for `cmd/sweep`. `ctx` is their shared context. `jobs` are calls being handled, `leader` and
`checks` the sweep the process leads. `grpcf.ListenAndServe`, `httpf.ListenAndServe` and `worker.Poll`
belong to a library and are modelled as the entrypoints rely on them: a listener returns once its
context ended and, for gRPC, its handlers did (`WaitForHandlers`); the REST drain gives up after its
timeout. A configuration is a record of the values startup looks at.

## Runs

| Run | Shows | Bounds |
| --- | --- | --- |
| `check_race` | the outcome is told and kept, and what is written once stays (`WrittenOnce`), with two checks and the submit racing | 2 checks, one mode, one answer kind, horizon 6 |
| `check_faults` | the inductive invariant `InTime`, which includes `Inductive` and so the types and that no call is forgotten, the constraints, no start outrun, and the life of a generation (`ImplementsLife`), with all answers, modes, inherited rows and a dropped connector | 1 check, horizon 6 |
| `check_live` | every generation settles; no call is forgotten though processes freeze | 1 check, horizon 3 |
| `check_overdue` | *violation*, see below | 1 check |
| `admission_caps` | overspend is bounded, the named wait is never too long | 3 submits, 2 requests, 2 windows, concurrency 2 |
| `admission_callers` | concurrency holds, one run per request, every submit answers, a summary misses none | 2 submits, 2 requests, 3 kinds of caps, a summary with and without a window |
| `sweep_shared` | slots balanced, deadlines kept, with overlapping runs, crashes, severed sessions | 2 runs, 1 process, 2 generations |
| `sweep_live` | one sweep at a time while sessions hold; a drained run misses none and repeats none; the role is released; every generation is checked again | 2 runs on 2 replicas, 3 generations |
| `sweep_severed` | *violation*, see below | 2 runs on 2 replicas |
| `event_stream` | the stream is seamless, implements its feed, tells no false end; its caller ends | 4 events, 2 on the wire, 3 breaks |
| `api` | replies agree, carry the answer, and are true; the key identifies requests | 2 calls at once, 1 generation, 5 requests sent, every payload of two members compared |
| `servers` | no work without a database, connections suffice, every process exits | 2 jobs, pools of 0, 1, 2, 3 and 20, refused configurations |

Durations keep the order of the constants in the code: `startTimeout` (20 s) `=<` `streamStartTimeout`
(30 s), the sum of the start, its hold and its write, and `recordPatience` (2 min) plus a write,
`=<` `startOutcomeUnknownAfter` (3 min), `<` `streamQueuedCeiling` (5 min) `<` `runCeiling` (2 h).
With one as the unit the smallest values that keep it are 1, 1, 1, 2, 3, 4 and 5, and horizon 6 reaches
one stop window past the run ceiling. Two checks suffice for a race: a settle by one, a stale read by
the other, with the cancel and the Starter besides. Three submits are one more than the concurrency.
Two submits, an admitted and a waiting one, show every use of the lock, and one purpose is enough: each
statement filters on the purpose as it does on the owner. In `api` a generation interacts with another
through its key alone, which `KeyIdentifies` compares with every small request, so one generation and
two calls show the races; the longest run takes under three minutes. In `event_stream` the first and
the last event differ from those between, and the second and third break fall inside a resumed stream.
`check_live` uses shorter ceilings, so that its horizon reaches them.

`CHECK_DEADLOCK FALSE` is used everywhere since the system may stop: a settled generation has no
further step, and the bounded clock ends.

### Fairness

- `check_live`: the clock advances; some check (the sweep's) that keeps being possible is made, and
  neither the database nor the provider cuts its steps for ever (strong fairness: each check may be
  cut any number of times). The provider has no fairness. `sweep_live` shows that the sweep does come
  back to every unsettled generation.
- `admission_callers`: a statement that can run runs. The advisory lock is granted to a waiter once
  free, and only finitely many submits compete.
- `event_stream`: the handler is scheduled, the caller acts on what it reads, the provider ends its call
  and a check settles its generation, which is what `check_live` shows. Breaks are finitely many.
  Nothing is assumed of the provider's stream window.
- `servers`: a goroutine that can go on does. Calls in flight end only once the context did: a stream
  is cut and every statement and provider call has a deadline. Nobody has to call or to signal.
- `sweep_live`: the ticker begins runs, goroutines are scheduled, checks end by
  their own timeout, and a goroutine waiting on the channel of slots, which Go serves in order, gets
  one (strong fairness). `EveryGenerationChecked` is from when
  failures stop (`failing`, which nothing obliges to end): a run that is cut starts over from the first id, so a backlog that no run ever drains
  could starve the last generations.

### Findings

- `check_overdue`: a call may be stopped as an orphan and its id land afterwards. A later check then
  reads a cancelled call with no cancel request, and settles it as past its ceiling, which it was not.
  The comment in `settleOutcomeOf` says that only a call past the ceiling can be in that state.
  `OverdueExplained` states what does hold, and passes.
- `sweep_severed`: the leader role ends with its session, and a run never looks at the session again,
  so two sweeps can run at a time. Settles are fenced, so nothing else breaks (`sweep_shared` covers
  the overlap).

## Proofs

Each proof module goes the same way: an inductive invariant in named parts, one lemma for each part
with one case for each action, and theorems that combine them with `PTL`. The bounds of the runs
(`Horizon`, `MaxEvents` and so on) are arbitrary in the proofs.

### GenerationCheckProofs

It proves, for any set of checks, any durations allowed by the assumptions, with
or without freezes, drops and inherited rows:

| Theorem | Statement |
| --- | --- |
| `InductiveHolds` | `Spec => []Inductive` |
| `TypesHold` | `Spec => []TypeOK` |
| `SchemaAlwaysHolds` | `Spec => []SchemaHolds` |
| `NothingEverRunsUnseen` | `Spec => []NothingRunsUnseen` |
| `OutcomeAlwaysTold` | `Spec => []OutcomeTold` |
| `AnswerAlwaysKept` | `Spec => []AnswerKept` |
| `WrittenOnceHolds` | `Spec => WrittenOnce`: a settled row is final, the marks on a row are written once |
| `CheckImplementsLife` | `Spec => ImplementsLife` |
| `InTimeHolds` | `Spec => []InTime` |
| `StartsNeverOutrun` | `Spec => []StartNeverOutrun` |
| `OverdueAlwaysExplained` | `Spec => []OverdueExplained` |

Assumptions: `NoneAssumption` and `ProcsAssumption` (NULL is none of the values, the Starter is not one
of the other checks), `RetentionAssumption`, `DurationsAssumption`. `Inductive` and what follows from it
hold whatever the relation between the durations: the outcome, the answer and the constraints never
rest on timing. `InTimeHolds`, and through it `StartsNeverOutrun`, need `StartOutlivedAssumption`, the
order of the constants in the code.

`Inductive` adds to the properties what a process in the middle of a check knows. A settle is
fenced by the row, but what it writes was decided earlier, from the provider's answer. So the argument
needs, for each process about to commit, that its plan is one the schema takes (`PlanSound`), that an
answer in hand is the call's answer, which no longer changes (`AnswerInHand`), and that a cancel
request it saw is still on the row. `NothingWillRunUnseen` strengthens `NothingRunsUnseen` with the
Starter being done: a settled row is not safe if its start may still be sent. `UnsentBeforeSend` and
`NoIntentNoCall` say that nothing was sent before the row was committed and found fresh.

The refinement needs `Telling` besides, the last part of `Inductive`: a call with a name was accepted
(`NamedIsAccepted`), one the provider forgot was over (`GoneIsOver`), and whatever a process is about to
settle on is true of the call by the time it lands (`PlanTells`). A plan is made from a read, and
the call goes on under it; what makes it safe is that each ground of a plan lasts: a refusal is
final, a call that ended stays ended, and the Starter, the only process that may still send, is the one
that plans `not_started` on a call of its own. Then each step of a check is one of the life's: an
intent is `Record`, a settle is `Answered`, `Lost`, `NotRun`, `Rejected`, `Withdrawn` or `Unknown` by
its plan, a late write of the call's id is `Follow`, and a read, a retry, a freeze or a crash is none.

`InTime` adds what the clock tells, in two threads:

- Why a call was stopped. A check acts on a read of any age, but what the read showed of a recorded
  call still stands (`Follows`), and the clock only advances, so the reason to stop it stands too
  (`StopExplained`): a request, a ceiling passed, an orphan. A call found cancelled therefore has one of
  these reasons (`CancelExplained`, `StopDue`), and whoever settles it as late tells the truth.
- Why a start is not outrun. The Starter took its instant before the row did (`IntentFirst`), each of its
  deadlines counts from there (`Deadline`, `DeadlinesKept`), and a check that settles a start without a
  recorded call waited (`Waited`). So a start still going on under a settled row was settled no sooner
  than `startOutcomeUnknownAfter` past its intent (`OutrunLate`), and its deadline ended before. A frozen
  process keeps no deadline: `StartNeverOutrun` says nothing of it, `NothingEverRunsUnseen` does.

TLC checks `InTime` in `check_faults`.

The proof goes by lemma groups: types; what each statement keeps and writes; what one step may change
(the row moves only from live to settled, an answered call never changes, a step of one process leaves
the others); each part of the invariant about the row; each part about a process; the clock.

### AdmissionProofs

For any submits, infinitely many included, any requests and purposes, and any caps:

| Theorem | Statement |
| --- | --- |
| `AdmissionInvariant` | `Spec => []AdmissionInv` |
| `AdmissionTypes` | `Spec => []TypeOK` |
| `OneRun` | `Spec => []OneRunPerRequest` |
| `CapHeld` | `Spec => ConcurrencyHeld` |
| `SummaryComplete` | `Spec => []SummaryMissesNone` |
| `RetryNotTooLate` | `Spec => []RetryIsFutileBefore` |
| `OverspendIsBounded` | `Spec => []OverspendBounded`, for a finite `Tokens` |

Assumptions: `CapsAssumption` (what the validation tags let through), `HoldAssumption` (`App.Validate`:
the hold ends before the retention), `RetentionAssumption` and `NoneAssumption`. `OverspendIsBounded`
adds that the token counts a provider may report form a finite set, as machine integers do: the bound
multiplies the largest of them.

`AdmissionInv` is why a count taken under a lock can be trusted at commit although settlements take no
lock. Whoever inserted holds the lock until it ends (`LockHeld`), so nobody else commits; what is stored,
recorded or left running unseen was committed (`OnlyCommitted`), and only finitely many submits ever
began, so that the cardinalities mean something. Then the count that admitted a submit still bounds what
is in flight when it commits (`CountStands`): settlements only take away, and a generation that leaves
the count by the purge left it before by the end of its hold (`UnknownKept`, where `HoldAssumption` is
used). `Unopposed` does the same for the conflict the insert looked for, and gives `OneRunPerRequest`.

The proofs about usage add one invariant each. `SummaryKnown`: what was in flight when a summary was asked for
and still is after its count is in its count, so what is not was recorded before its sum.
`RefusalStands`: the records that filled a window stay in it until the wait that was named is over, and
records are never removed. `AllCovered`: since the last admission in a purpose, at most `concurrency`
generations, that one included, were in flight or recorded anything since the sums that admitted it, and
those sums were below the limits. They can therefore overrun each window by what they report together,
whatever the windows drop.

### GenerationSweepProofs

For any number of runs, replicas and generations, any page size, concurrency and timeout:

| Theorem | Statement |
| --- | --- |
| `SweepInvariant` | `Spec => []SweepInv` |
| `SweepTypes` | `Spec => []TypeOK` |
| `SlotsStayBalanced` | `Spec => []SlotsBalanced` |
| `ChecksKeepDeadline` | `Spec => []ChecksEndInTime` |
| `DrainMissesNone` | `Spec => []DrainedMissesNone` |
| `ChecksOnce` | `Spec => CheckedOnce` |
| `OneLeader` | `Spec => []OneSweepAtATime`, when no session is severed |

`SweepAssumption` is all they assume. `SweepInv` ties four pieces of state together. The slots count the
checks under way and the runs granted one and not yet started (`SlotsBalanced`); counting needs finite
sets, which is proved of what the sweep holds and assumed of no constant (`Finite`). A check belongs to a
run that is still in its batch, and was started early enough (`ChecksInBatch`), which is the second look
at `mayStart`, after the wait for a slot. The page is ahead of everything its run checked (`PagesAhead`),
hence no generation twice. And a run that may still start checks owes nothing behind its cursor
(`NothingSkipped`): what a page leaves out comes after all it holds, and only when it is full
(`PageIsPrefix`), whatever id order rows appear in.

`OneLeader` rests on `LeadHeld`: the role is held by the run that leads. Its hypothesis is not a
convenience: `sweep_severed` is the counterexample without it.

### GenerationApiProofs

For any number of calls and generations:

| Theorem | Statement |
| --- | --- |
| `ApiInvariant` | `Spec => [](ApiInv /\ RepliesSound)` |
| `ApiTypes` | `Spec => []TypeOK` |
| `AnswersTravel` | `Spec => []AnswerTravels` |
| `CallersAgree` | `Spec => []RepliesAgree` |
| `PollsSeeTheEnd` | `Spec => []PollSeesTheEnd` |
| `NotFoundWhenAbsent` | `Spec => []NotFoundIsTrue` |
| `OwnAnswered` | `Spec => []AnsweredWithItsOwn` |
| `KeysIdentify` | `Spec => KeyIdentifies` |

They rest on `ApiAssumption`, `NoneAssumption` and `RetentionAssumption`. `ApiAssumption` says of the
requests callers send (`Asked`) that they have the type of a request, whatever their length, and of those
a key is compared with (`Others`) that they are valid. The properties are about a
reply, and a reply is made of what its call read along the way. `ApiInv` says what each control point
still knows when others moved the row in between: the row a check fences on was live and keeps its start
and call (`Fenced`), a status held as final is the row's, or the row was purged (`Final`), two calls never
hold different ends (`Agree`). `Remembers` and `Polls` carry what was known when the call was made up to
its reply: a generation told to have ended is found so, and a poll made after its call was over settles
it or finds it settled. `Starters` says that one call starts a generation and that nobody saw it recorded
before, which is what lets the record of the call's id match.

The last two theorems are about whose generation it is. `OwnInv` says that every generation was created
for a valid request, and that a submit under way, or answered, holds one created for the same content.
A submit that attaches found an equal key, and `KeyIdentifiesContent` makes that an equal content;
one that creates takes a run no other call holds; every other step carries the call's request and
generation along (`Carries`).

### RequestKeyProofs

For valid requests of any length, with any names, texts and number of members:

| Theorem | Statement |
| --- | --- |
| `KeyIdentifiesContent` | two requests have one key if and only if they have one content |
| `KeyFixesBody` | two requests of one key send the provider the same body |

A key runs its parts together twice: the members of the payload, then the fields. Each part begins with
a head that says how long it is, so no part begins another (`PrefixFree`), and two equal concatenations
have the same parts (`PartsReadBack`): the parts agree one after the other, by induction on the position.
That the digest's input is what is compared is the identity taken for SHA-256. The other half is that
formatting disappears: a set of names has one increasing order (`EnumerationExists`,
`EnumerationUnique`), so `Sorted` depends on the set of members alone, and white space is not written.
`FlattenSeq` is a fold, which the provers cannot unfold on their own: `FlattenIsChosen` states it as a
function chosen on the positions, and `FlattenJoins` the law it obeys at each position.

The run `api` compares the same keys on payloads of two members; nothing in the proof bounds them.

### SetLemmas

Least and greatest naturals, sums over finite sets, and two inductions. The library's take a predicate
as a parameter, which the provers cannot instantiate. `UpTo` takes the set of the numbers a statement
holds of instead, and is proved from the order of the naturals; `FiniteInduction` takes the set of the
subsets it holds of, and is proved from the order of the cardinalities.

### EventStreamProofs

For any number of events, any wire and any number of breaks:

| Theorem | Statement |
| --- | --- |
| `StreamTypes` | `Spec => []TypeOK` |
| `StreamIsSeamless` | `Spec => []Seamless` |
| `OkIsTheEnd` | `Spec => []OkMeansEnded` |
| `StreamImplementsFeed` | `Spec => ImplementsFeed` |

`StreamInvariant` proves the inductive invariant `StreamInv` they rest on. `Seamless` is not inductive
as it stands: a stream not yet connected must hold the cursor its caller had when it opened it, with
nothing of an earlier call on the wire (`CursorFresh`), or the first event it reads would not follow.
The refinement needs more: the terminal event is the last one and the call finished with it
(`TerminalLast`), what was sent was produced (`SentWasProduced`), and a caller that still waits has not
received the terminal event (`Unfinished`). Then `Receive` is `Deliver`, `Poll` is `GiveUp`, `Produce`
is `Produce`, and every other step, breaks included, leaves the feed as it was.
`StreamAssumption` (positive bounds) is all it assumes.

### ServersProofs

| Theorem | Statement |
| --- | --- |
| `WorkAlwaysHasDatabase` | `Spec => []WorkHasDatabase` |
| `ChecksFitThePool` | `Spec => []EachCheckHasAConnection` |

for every set of configurations and jobs, from `ServersAssumption`. `ServerInvariant` proves `ServerInv`,
which says what each stage of main implies: nothing works before it serves (`Early`); the database is
open while it can serve unless a downtime, which never ends, kept it from being opened
(`OpenWhileServing`, `NoDatabaseNoWork`); the handlers are over once the gRPC server returned and the
companion is over before the close (`HandlersAreOver`, `CompanionIsOver`, `TickerLeads`); checks stay
within `sweepConcurrency` of the pool (`ChecksInSlots`).

### Only model-checked

- Liveness, which is out of the prover's reach like `ENABLED`: every generation settles
  (`check_live`), every submit answers (`admission_callers`), the sweep comes back (`sweep_live`), the
  caller of a stream and the servers end.
- Nothing else: every invariant and every action property of a passing run has a
  theorem, and so have both refinements.

## Not modelled

- Queue depth, status, health and ping: one read each, without state.
- Migrations one by one: the schema is the one they end with.
- The Go client, the generated protocol code, telemetry and logging: no state of their own.
- The decoding of a provider's response (`providerCallOf`) beyond its state and the kind of its answer.
- Sizes of payloads and messages, and collisions of SHA-256.
- A `/sweep` request that outlasts the drain is not waited for: `docs/operations/generation-checks.md`
  promises that the server waits for its checks only with `SWEEP_TICKER`. `WorkHasDatabase` therefore
  speaks of the gRPC handlers and the ticker. With a pool of one
  connection the leader holds it while its single check waits, so `EachCheckHasAConnection` begins at
  two.

## Plan

1. Done: `GenerationStore`, `GenerationCheck`, `Admission`, `GenerationSweep`; then the stream with its
   abstract feed and refinement, the request key, the calls and their replies, the usage summary, the
   servers and their configuration.
2. Done: the invariants of every component and the refinement of the stream's feed, proved.
3. Done: the abstract life of a generation with `GenerationCheck` shown to implement it, and the request
   key identified for requests of any length, both proved.
4. Left: queue depth and status as reads among the others, if they ever keep state; a bound on the backlog a
   sweep that is cut can drain, which `EveryGenerationChecked` leaves open.
