------------------------ MODULE GenerationApiProofs ------------------------
(***************************************************************************)
(* Proofs about GenerationApi, for any number of calls and generations,    *)
(* and any valid requests.                                                 *)
(***************************************************************************)
EXTENDS GenerationApi, RequestKeyProofs

-----------------------------------------------------------------------------
(***************************************************************************)
(* The inductive invariant, in parts.                                      *)
(***************************************************************************)
\* Nothing is stored of a run nobody asked for; a row says when it settled if and only if it did; an answer
\* comes with a success; and a row still says what a caller was told of it.
RowSound(r) ==
    /\ asked[r] = None => gens[r].status = "absent" /\ told[r] = None
    /\ gens[r].settledAt # None <=> gens[r].status \in Settled
    /\ gens[r].status = "succeeded" => r \in attempts
    /\ told[r] # None => gens[r].status \in {told[r], "absent"}

\* The outcomes a check settles on.
Plans ==
    StartPlans \cup
    {Plan("succeeded", None, None), Plan("failed", "failureCallFailed", "provider_failed"),
     Plan("cancelled", "generationCancelledReason", None), Plan("failed", "failureOverdue", "provider_failed")}

Placed(call) ==
    /\ call.run \in Runs /\ asked[call.run] # None
    /\ call.pc = "settle" => call.plan \in Plans
    /\ call.pc = "unmarked" => call.kind = "cancel"
    /\ ~call.mine => call.pc = "unmarked"

Fences == {"start", "check", "settle"}

\* The row a check fences on was not settled when it was read, and a stored row keeps its start and its call.
Fenced(call) ==
    call.pc \in Fences =>
        /\ call.seen.status \in Live
        /\ gens[call.run].status # "absent" =>
              /\ gens[call.run].startRequestedAt = call.seen.startRequestedAt
              /\ call.seen.providerCallId # None =>
                    gens[call.run].providerCallId = call.seen.providerCallId

\* What a call holds as ended ended so, and is told so.
Final(call) ==
    call.status \in Settled =>
        /\ gens[call.run].status \in {call.status, "absent"}
        /\ told[call.run] # None => told[call.run] = call.status

\* A call made after its generation was told to have ended goes on to find it so.
Remembers(call) ==
    call.before # None =>
        /\ told[call.run] = call.before
        /\ call.pc = "unmarked" \/ (call.pc = "list" /\ call.status = call.before)

\* A poll made after its call was over and recorded settles it, or finds it settled.
Polls(call) ==
    call.kind = "get" /\ call.due =>
        /\ call.pc \in {"check", "settle", "reread", "list"}
        /\ call.pc \in {"check", "settle"} =>
              call.seen.providerCallId # None /\ provider[call.run] \in Ended
        /\ call.pc = "reread" => gens[call.run].status \notin Live
        /\ call.pc = "list" /\ ~call.missed => call.status \in Settled

Sound(call) ==
    call.pc = "idle" \/ (Placed(call) /\ Fenced(call) /\ Final(call) /\ Remembers(call) /\ Polls(call))

\* No two calls hold different ends of one generation.
Agree ==
    \A c, d \in Calls :
        /\ rpc[c].pc # "idle" /\ rpc[d].pc # "idle" /\ rpc[c].run = rpc[d].run
        /\ rpc[c].status \in Settled /\ rpc[d].status \in Settled
        => rpc[c].status = rpc[d].status

Starting == {"start", "record"}

\* One call starts a generation, and until then nobody saw its call recorded.
Starters ==
    \A c, d \in Calls :
        rpc[c].pc \in Starting /\ rpc[d].pc # "idle" /\ rpc[c].run = rpc[d].run =>
            /\ rpc[d].pc \in Starting => c = d
            /\ rpc[c].pc = "start" =>
                  /\ gens[rpc[c].run].providerCallId = None
                  /\ rpc[d].pc \in {"check", "settle"} => rpc[d].seen.providerCallId = None

ApiInv ==
    /\ TypeOK
    /\ \A r \in Runs : RowSound(r)
    /\ \A c \in Calls : Sound(rpc[c])
    /\ Agree
    /\ Starters

-----------------------------------------------------------------------------
(***************************************************************************)
(* Types.                                                                  *)
(***************************************************************************)
\* A fresh row, and no row, are typed.
LEMMA PendingType ==
    ASSUME NEW at \in Instants, NEW streamed \in BOOLEAN
    PROVE  PendingRow(at, streamed) \in Rows /\ AbsentRow \in Rows
<1>1. \A i \in Instants, b \in BOOLEAN : PendingRow(i, b) \in Rows
  BY DEF PendingRow, Rows, Instants, Live
<1>2. PendingRow(None, FALSE) \in Rows
  BY <1>1 DEF Instants
<1>3. AbsentRow \in Rows
  BY <1>2 DEF AbsentRow, Rows
<1>4. QED
  BY <1>1, <1>3

CallPlans == [status : Settled \cup {None}, error : Errors \cup {None}, failure : Failures \cup {None}]

\* A call not made holds a typed state.
LEMMA IdleType == NoPlan \in CallPlans /\ Idle \in CallStates /\ Idle.pc = "idle"
<1>1. NoPlan \in CallPlans
  BY DEF NoPlan, CallPlans
<1>2. AbsentRow \in Rows
  BY PendingType DEF Instants
<1>3. QED
  BY <1>1, <1>2 DEF Idle, CallStates, CallPlans

\* An outcome is typed, and one that succeeded keeps its answer.
LEMMA PlanType ==
    ASSUME NEW plan \in Plans
    PROVE  plan \in CallPlans /\ plan.status \in Settled /\ (plan.status = "succeeded" => Answered(plan))
BY NoneAssumption DEF Plans, StartPlans, Plan, CallPlans, Settled, Errors, Failures, Answered

\* A settle writes its outcome and its instant, and keeps the start and the call.
LEMMA SettleEffect ==
    ASSUME NEW row \in Rows, NEW plan \in Plans, NEW at \in Nat
    PROVE  /\ Settle(row, plan, at) \in Rows
           /\ Settle(row, plan, at).status = plan.status
           /\ Settle(row, plan, at).settledAt = at
           /\ Settle(row, plan, at).startRequestedAt = row.startRequestedAt
           /\ Settle(row, plan, at).providerCallId = row.providerCallId
<1> DEFINE unknown == IF plan.failure = "outcome_unknown" THEN at ELSE None
           until   == at + Retention
<1>1. /\ plan.status \in Settled /\ plan.error \in Errors \cup {None} /\ plan.failure \in Failures \cup {None}
  BY PlanType DEF CallPlans
<1>2. unknown \in Instants /\ until \in Instants /\ at \in Instants
  BY RetentionAssumption DEF Instants
<1>3. Settle(row, plan, at) =
        [row EXCEPT !.status = plan.status, !.error = plan.error, !.failure = plan.failure,
                    !.settledAt = at, !.expiresAt = until, !.outcomeUnknownAt = unknown]
  BY DEF Settle
<1> HIDE DEF unknown, until
<1>4. [row EXCEPT !.status = plan.status, !.error = plan.error, !.failure = plan.failure] \in Rows
  BY <1>1 DEF Rows
<1>5. \A q \in Rows : [q EXCEPT !.settledAt = at, !.expiresAt = until, !.outcomeUnknownAt = unknown] \in Rows
  BY <1>2 DEF Rows
<1>6. Settle(row, plan, at) =
        [[row EXCEPT !.status = plan.status, !.error = plan.error, !.failure = plan.failure]
           EXCEPT !.settledAt = at, !.expiresAt = until, !.outcomeUnknownAt = unknown]
  BY <1>3 DEF Rows
<1>7. QED
  BY <1>3, <1>4, <1>5, <1>6 DEF Rows

\* A cancel marks a live row, and settles one never started.
LEMMA CancelEffect ==
    ASSUME NEW row \in Rows, NEW at \in Nat, row.settledAt = None, row.status \in Live
    PROVE  /\ RequestCancel(row, at) \in Rows
           /\ RequestCancel(row, at).status \in {row.status, "cancelled"}
           /\ RequestCancel(row, at).settledAt # None <=> RequestCancel(row, at).status = "cancelled"
           /\ RequestCancel(row, at).startRequestedAt = row.startRequestedAt
           /\ RequestCancel(row, at).providerCallId = row.providerCallId
<1>1. at \in Instants /\ at + Retention \in Instants /\ None \in Instants /\ at # None
  BY RetentionAssumption, NoneAssumption DEF Instants
<1>2. CASE row.startRequestedAt = None
  BY <1>1, <1>2 DEF RequestCancel, Rows, Settled, Errors
<1>3. CASE row.startRequestedAt # None
  BY <1>1, <1>3 DEF RequestCancel, Rows, Live
<1>4. QED
  BY <1>2, <1>3

\* The id write makes its row running, and changes no other mark.
LEMMA RecordEffect ==
    ASSUME NEW row \in Rows
    PROVE  /\ RecordProviderCall(row) \in Rows
           /\ RecordProviderCall(row).status = "running" /\ RecordProviderCall(row).providerCallId = CallId
           /\ RecordProviderCall(row).startRequestedAt = row.startRequestedAt
           /\ RecordProviderCall(row).settledAt = row.settledAt
BY DEF RecordProviderCall, Rows, Live

\* A reply has one of the codes, and only an unknown generation is not found.
LEMMA CodeOf ==
    /\ \A error : StatusOf(error) \in Codes \ {"OK"}
    /\ StatusOf("ErrGenerationNotFound") = "NOT_FOUND"
    /\ StatusOf("statement") = "INTERNAL" /\ StatusOf("check") = "INTERNAL"
    /\ StatusOf("ErrInvalidRequest") = "INVALID_ARGUMENT"
BY DEF StatusOf, Codes

-----------------------------------------------------------------------------
(***************************************************************************)
(* What a step leaves of its call.                                         *)
(***************************************************************************)
Alike(v, call) ==
    /\ v.pc = call.pc /\ v.kind = call.kind /\ v.mine = call.mine /\ v.run = call.run
    /\ v.status = call.status /\ v.missed = call.missed /\ v.due = call.due /\ v.before = call.before

Goes(c, v) == v \in CallStates /\ rpc' = [rpc EXCEPT ![c] = v] /\ reply' = None

\* A call that looks back keeps its place.
LEMMA PastType ==
    ASSUME NEW call \in CallStates
    PROVE  Past(call) \in CallStates /\ Alike(Past(call), call)
<1>1. AbsentRow \in Rows /\ NoPlan \in CallPlans
  BY PendingType, IdleType DEF Instants
<1>2. Past(call) = [call EXCEPT !.seen = AbsentRow, !.readAt = 0, !.plan = NoPlan]
  BY DEF Past
<1>3. Past(call) \in CallStates
  <2> DEFINE fenced == [call EXCEPT !.seen = AbsentRow, !.readAt = 0]
  <2>1. fenced \in CallStates
    BY <1>1 DEF CallStates
  <2>2. Past(call) = [fenced EXCEPT !.plan = NoPlan]
    BY <1>2 DEF CallStates
  <2> HIDE DEF fenced
  <2>3. QED
    BY <1>1, <2>1, <2>2 DEF CallStates, CallPlans
<1>4. Alike(Past(call), call)
  BY <1>2 DEF CallStates, Alike
<1>5. QED
  BY <1>3, <1>4

\* A call goes on as it was decided, the row and the outcome its check needs with it.
LEMMA StepEffect ==
    ASSUME NEW c \in Calls, NEW call \in CallStates, Step(c, call)
    PROVE  \E v : /\ Goes(c, v) /\ Alike(v, call)
                  /\ call.pc # "list" => v.seen = call.seen /\ v.plan = call.plan
<1>1. CASE call.pc = "list"
  BY <1>1, PastType DEF Step, Goes
<1>2. CASE call.pc # "list"
  BY <1>2 DEF Step, Goes, Alike
<1>3. QED
  BY <1>1, <1>2

\* The call is over, and replied what it held.
Replies(c, call, code, answered) ==
    /\ rpc' = [rpc EXCEPT ![c] = Idle]
    /\ \E v \in CallStates :
          Alike(v, call) /\ reply' = [call |-> v, code |-> code, answered |-> answered]

\* A reply says what its call holds.
LEMMA ReplyEffect ==
    ASSUME NEW c \in Calls, NEW call \in CallStates, NEW code, NEW answered, Reply(c, call, code, answered)
    PROVE  Replies(c, call, code, answered)
BY PastType DEF Reply, Replies

\* A refusal carries the code of its error.
LEMMA RefuseEffect ==
    ASSUME NEW c \in Calls, NEW call \in CallStates, NEW error, Refuse(c, call, error)
    PROVE  Replies(c, call, StatusOf(error), FALSE)
BY ReplyEffect DEF Refuse

-----------------------------------------------------------------------------
(***************************************************************************)
(* What each step of a call leaves of it.                                  *)
(***************************************************************************)
Quiet == UNCHANGED <<gens, asked, attempts, provider, told>>

\* What a call holds stays sound while the tables do not change.
LEMMA SoundQuiet ==
    ASSUME Quiet, NEW v, Sound(v)
    PROVE  Sound(v)'
BY DEF Quiet, Sound, Placed, Fenced, Final, Remembers, Polls

\* A call is as sound as before: what it holds as ended is stored so, or it held it already; it starts what
\* nobody asked for before; and what it saw recorded is.
Sits(c, v) ==
    /\ Sound(v)'
    /\ v.pc # "idle" =>
          /\ v.status \in Settled =>
                \/ gens'[v.run].status = v.status
                \/ rpc[c].pc # "idle" /\ v.run = rpc[c].run /\ v.status = rpc[c].status
          /\ v.pc \in Starting =>
                \/ rpc[c].pc \in Starting /\ v.run = rpc[c].run
                \/ asked[v.run] = None
          /\ v.pc = "start" => asked[v.run] = None /\ gens'[v.run].providerCallId = None
          /\ v.pc \in {"check", "settle"} =>
                \/ rpc[c].pc \in Starting /\ v.run = rpc[c].run
                \/ /\ rpc[c].pc \in {"check", "settle"} /\ v.run = rpc[c].run
                   /\ v.seen.providerCallId = rpc[c].seen.providerCallId
                \/ v.seen.providerCallId = gens[v.run].providerCallId

Moved(c, v) == Goes(c, v) /\ Sits(c, v)

\* A refusal is never an answer, and says that a generation is missing to its owner only when it is.
Refuses(c) ==
    /\ Quiet
    /\ \E call \in CallStates, code \in Codes \ {"OK"} :
          /\ Replies(c, call, code, FALSE)
          /\ call.kind \in {"get", "cancel"} =>
                /\ code = "NOT_FOUND" /\ call.mine => gens[call.run].status = "absent"
                /\ ~call.mine => code \in {"NOT_FOUND", "INTERNAL"}

\* What is common to the runs a call can be made about.
LEMMA RunFacts ==
    ASSUME ApiInv, NEW r \in Runs
    PROVE  /\ gens[r] \in Rows /\ told[r] \in Settled \cup {None} /\ provider[r] \in Ended \cup {"none", "running"}
           /\ RowSound(r) /\ now \in Nat /\ None \notin Settled \cup Live
BY NoneAssumption DEF ApiInv, TypeOK

\* What the invariant says of one call in flight.
LEMMA CallFacts ==
    ASSUME ApiInv, NEW c \in Calls, rpc[c].pc # "idle"
    PROVE  /\ rpc[c] \in CallStates /\ rpc[c].run \in Runs /\ asked[rpc[c].run] # None
           /\ Placed(rpc[c]) /\ Fenced(rpc[c]) /\ Final(rpc[c]) /\ Remembers(rpc[c]) /\ Polls(rpc[c])
BY DEF ApiInv, TypeOK, Sound, Placed

\* A submit goes on to start the row it created.
Fresh(call, r, row, at) ==
    [call EXCEPT !.pc = "start", !.run = r, !.status = row.status, !.seen = row, !.readAt = at]

\* A submit that inserted holds the row it inserted.
LEMMA FreshType ==
    ASSUME NEW call \in CallStates, NEW r \in Runs, NEW row \in Rows, NEW at \in Nat, row.status \in Live
    PROVE  /\ Fresh(call, r, row, at) \in CallStates
           /\ Fresh(call, r, row, at).pc = "start" /\ Fresh(call, r, row, at).run = r
           /\ Fresh(call, r, row, at).status = row.status /\ Fresh(call, r, row, at).seen = row
           /\ Fresh(call, r, row, at).kind = call.kind /\ Fresh(call, r, row, at).mine = call.mine
           /\ Fresh(call, r, row, at).before = call.before
<1> DEFINE first == [call EXCEPT !.pc = "start", !.run = r, !.status = row.status]
<1>1. first \in CallStates
  BY DEF CallStates
<1>2. Fresh(call, r, row, at) = [first EXCEPT !.seen = row, !.readAt = at]
  BY DEF CallStates, Fresh
<1>3. Fresh(call, r, row, at) \in CallStates
  <2> HIDE DEF first
  <2>1. QED
    BY <1>1, <1>2 DEF CallStates
<1>4. QED
  BY <1>3 DEF CallStates, Fresh

\* A submit is refused, attaches to a stored generation, or stores one of its own.
LEMMA SubmitEffect ==
    ASSUME ApiInv, NEW c \in Calls, Submit(c)
    PROVE  \/ Refuses(c)
           \/ Quiet /\ \E v : Moved(c, v)
           \/ \E r \in Runs, request \in Asked :
                 /\ asked[r] = None /\ asked' = [asked EXCEPT ![r] = request]
                 /\ gens' = [gens EXCEPT ![r] = PendingRow(now, request.stream)]
                 /\ UNCHANGED <<attempts, provider, told>>
                 /\ \E v : /\ Goes(c, v) /\ v.pc = "start" /\ v.kind = "submit" /\ v.mine /\ v.run = r
                           /\ v.status = "pending" /\ v.before = None
                           /\ v.seen = PendingRow(now, request.stream)
<1>1. PICK request \in Asked :
          LET call == [Idle EXCEPT !.kind = "submit", !.request = request]
              runs == {r \in Runs : asked[r] # None /\ Attaches(r, request)}
              free == {r \in Runs : asked[r] = None}
          IN  \/ /\ Refuse(c, call, Refused(request))
                 /\ UNCHANGED <<gens, asked>>
              \/ /\ \E error \in {"ErrUsageCapReached", "statement"} : Refuse(c, call, error)
                 /\ UNCHANGED <<gens, asked>>
              \/ /\ \E r \in runs :
                       Step(c, [call EXCEPT !.pc = "list", !.run = r, !.status = gens[r].status,
                                            !.before = told[r]])
                 /\ UNCHANGED <<gens, asked>>
              \/ /\ free # {}
                 /\ LET r   == CHOOSE r \in free : \A q \in free : r =< q
                        row == PendingRow(now, request.stream)
                    IN  /\ gens' = [gens EXCEPT ![r] = row]
                        /\ asked' = [asked EXCEPT ![r] = request]
                        /\ Step(c, Fresh(call, r, row, now))
  BY DEF Submit, Fresh
<1> DEFINE call == [Idle EXCEPT !.kind = "submit", !.request = request]
           runs == {r \in Runs : asked[r] # None /\ Attaches(r, request)}
           free == {r \in Runs : asked[r] = None}
           r0   == CHOOSE r \in free : \A q \in free : r =< q
           row  == PendingRow(now, request.stream)
<1>2. call \in CallStates /\ call.kind = "submit" /\ call.mine
  BY IdleType DEF CallStates, Idle
<1>3. UNCHANGED <<attempts, provider, told>> /\ rpc[c].pc = "idle"
  BY DEF Submit
<1>4. ASSUME NEW error, Refuse(c, call, error), UNCHANGED <<gens, asked>> PROVE Refuses(c)
  BY <1>2, <1>3, <1>4, RefuseEffect, CodeOf DEF Refuses, Quiet
<1>5. ASSUME NEW r \in runs, UNCHANGED <<gens, asked>>,
             Step(c, [call EXCEPT !.pc = "list", !.run = r, !.status = gens[r].status, !.before = told[r]])
      PROVE  Quiet /\ \E v : Moved(c, v)
  <2> DEFINE next == [call EXCEPT !.pc = "list", !.run = r, !.status = gens[r].status, !.before = told[r]]
  <2>1. /\ gens[r].status \in Live \cup {"succeeded"} /\ asked[r] # None /\ r \in Runs
        /\ RowSound(r) /\ told[r] \in Settled \cup {None}
    BY RunFacts DEF Attaches
  <2>2. /\ next \in CallStates /\ next.pc = "list" /\ next.kind = "submit" /\ next.mine /\ next.run = r
        /\ next.status = gens[r].status /\ next.before = told[r]
    BY <1>2, <2>1 DEF CallStates, Settled
  <2>3. Step(c, next)
    BY <1>5
  <2> HIDE DEF next
  <2>4. PICK v : Goes(c, v) /\ Alike(v, next)
    BY <2>2, <2>3, StepEffect
  <2>5. Quiet
    BY <1>3, <1>5 DEF Quiet
  <2>6. Sound(v)
    <3>1. Placed(v) /\ Fenced(v) /\ Polls(v)
      BY <2>1, <2>2, <2>4 DEF Alike, Placed, Fenced, Polls, Fences
    <3>2. Final(v) /\ Remembers(v)
      BY <2>1, <2>2, <2>4 DEF Alike, Final, Remembers, RowSound, Live
    <3>3. QED
      BY <3>1, <3>2 DEF Sound
  <2>7. Moved(c, v)
    BY <2>2, <2>4, <2>5, <2>6, SoundQuiet DEF Moved, Sits, Alike, Quiet, Starting
  <2>8. QED
    BY <2>5, <2>7
<1>6. ASSUME free # {}, gens' = [gens EXCEPT ![r0] = row], asked' = [asked EXCEPT ![r0] = request],
             Step(c, Fresh(call, r0, row, now))
      PROVE  \E r \in Runs :
                 /\ asked[r] = None /\ asked' = [asked EXCEPT ![r] = request]
                 /\ gens' = [gens EXCEPT ![r] = row]
                 /\ \E v : /\ Goes(c, v) /\ v.pc = "start" /\ v.kind = "submit" /\ v.mine /\ v.run = r
                           /\ v.status = "pending" /\ v.before = None /\ v.seen = row
  <2> DEFINE next == Fresh(call, r0, row, now)
  <2>1. r0 \in free
    <3>1. free \in SUBSET Nat
      BY ApiAssumption
    <3>2. \E r \in free : \A q \in free : r =< q
      BY <1>6, <3>1, LeastNatural
    <3>3. QED
      BY <3>2
  <2>2. row \in Rows /\ row.status = "pending" /\ now \in Nat
    <3>1. now \in Nat /\ now \in Instants /\ request.stream \in BOOLEAN
      BY ApiAssumption DEF ApiInv, TypeOK, Instants, Requests
    <3>2. QED
      BY <3>1, PendingType DEF PendingRow
  <2> HIDE DEF row, r0
  <2>3. /\ next \in CallStates /\ next.pc = "start" /\ next.kind = "submit" /\ next.mine /\ next.run = r0
        /\ next.status = "pending" /\ next.seen = row /\ next.before = None
    <3>1. row.status \in Live /\ call.before = None /\ r0 \in Runs
      BY <2>1, <2>2 DEF Live, Idle
    <3> HIDE DEF call
    <3>2. QED
      BY <1>2, <2>2, <3>1, FreshType
  <2>4. Step(c, next)
    BY <1>6
  <2> HIDE DEF next
  <2>5. PICK v : Goes(c, v) /\ Alike(v, next) /\ v.seen = next.seen
    BY <2>3, <2>4, StepEffect
  <2>6. QED
    BY <1>6, <2>1, <2>3, <2>5 DEF Alike
<1>7. QED
  BY <1>1, <1>3, <1>4, <1>5, <1>6

\* A provider's call only matters to the polls.
LEMMA SoundBut ==
    ASSUME UNCHANGED <<gens, asked, told>>, NEW v,
           Placed(v), Fenced(v), Final(v), Remembers(v), Polls(v)'
    PROVE  Sound(v)'
BY DEF Sound, Placed, Fenced, Final, Remembers

\* A start reaches the provider or not, and changes no table.
LEMMA StartEffect ==
    ASSUME ApiInv, NEW c \in Calls, Start(c)
    PROVE  /\ rpc[c].pc = "start"
           /\ UNCHANGED <<gens, asked, attempts, told>>
           /\ provider' \in {provider, [provider EXCEPT ![rpc[c].run] = "running"]}
           /\ \E v : Moved(c, v)
<1> DEFINE call == rpc[c]
<1>1. /\ call.pc = "start" /\ call \in CallStates /\ call.run \in Runs
      /\ Placed(call) /\ Fenced(call) /\ Final(call) /\ Remembers(call) /\ Polls(call)
  BY CallFacts DEF Start
<1>2. /\ UNCHANGED <<gens, asked, attempts, told>>
      /\ provider' \in {provider, [provider EXCEPT ![rpc[c].run] = "running"]}
      /\ \/ Step(c, [call EXCEPT !.pc = "record"])
         \/ \E plan \in StartPlans : Step(c, [call EXCEPT !.pc = "settle", !.plan = plan])
  BY DEF Start
<1>3. ~(call.kind = "get" /\ call.due) /\ call.before = None /\ call.mine
  BY <1>1 DEF Polls, Remembers, Placed
<1>4. ASSUME NEW next \in CallStates, Step(c, next), next.pc \in {"record", "settle"},
             next.pc = "settle" => next.plan \in Plans,
             Alike([next EXCEPT !.pc = "start"], call), next.seen = call.seen
      PROVE  \E v : Moved(c, v)
  <2>1. PICK v : Goes(c, v) /\ Alike(v, next) /\ v.seen = next.seen /\ v.plan = next.plan
    BY <1>4, StepEffect
  <2>2. /\ v.pc = next.pc /\ v.kind = call.kind /\ v.mine = call.mine /\ v.run = call.run
        /\ v.status = call.status /\ v.missed = call.missed /\ v.due = call.due
        /\ v.before = call.before /\ v.seen = call.seen
    BY <1>4, <2>1 DEF Alike, CallStates
  <2>3. Placed(v)
    BY <1>1, <1>3, <1>4, <2>1, <2>2 DEF Placed
  <2>4. Fenced(v)
    BY <1>1, <2>2 DEF Fenced, Fences
  <2>5. Final(v) /\ Remembers(v) /\ Polls(v)'
    BY <1>1, <1>3, <2>2 DEF Final, Remembers, Polls
  <2>6. Sound(v)'
    BY <1>2, <2>3, <2>4, <2>5, SoundBut
  <2>7. QED
    BY <1>1, <1>4, <2>1, <2>2, <2>6 DEF Moved, Sits, Starting
<1>5. CASE Step(c, [call EXCEPT !.pc = "record"])
  <2> DEFINE next == [call EXCEPT !.pc = "record"]
  <2>1. /\ next \in CallStates /\ next.pc = "record" /\ next.seen = call.seen
        /\ Alike([next EXCEPT !.pc = "start"], call)
    <3>1. next \in CallStates
      BY <1>1 DEF CallStates
    <3>2. QED
      BY <1>1, <3>1 DEF CallStates, Alike
  <2>2. Step(c, next)
    BY <1>5
  <2> HIDE DEF next
  <2>3. QED
    BY <1>1, <1>2, <1>4, <2>1, <2>2
<1>6. ASSUME NEW plan \in StartPlans, Step(c, [call EXCEPT !.pc = "settle", !.plan = plan])
      PROVE  \E v : Moved(c, v)
  <2> DEFINE next == [call EXCEPT !.pc = "settle", !.plan = plan]
  <2>1. plan \in CallPlans /\ plan \in Plans
    BY PlanType DEF Plans
  <2>2. /\ next \in CallStates /\ next.pc = "settle" /\ next.plan = plan /\ next.seen = call.seen
        /\ Alike([next EXCEPT !.pc = "start"], call)
    <3>1. next \in CallStates
      BY <1>1, <2>1 DEF CallStates, CallPlans
    <3>2. QED
      BY <1>1, <3>1 DEF CallStates, Alike
  <2>3. Step(c, next)
    BY <1>6
  <2> HIDE DEF next
  <2>4. QED
    BY <1>4, <2>1, <2>2, <2>3
<1>7. QED
  BY <1>1, <1>2, <1>5, <1>6

\* The id write lands on its start, or the call it names is stopped as an orphan.
LEMMA RecordStep ==
    ASSUME ApiInv, NEW c \in Calls, Record(c)
    PROVE  /\ rpc[c].pc = "record" /\ UNCHANGED <<asked, attempts, told>>
           /\ \/ /\ gens' = [gens EXCEPT ![rpc[c].run] = RecordProviderCall(gens[rpc[c].run])]
                 /\ RecordMatches(gens[rpc[c].run]) /\ provider' = provider
              \/ /\ gens' = gens
                 /\ provider' = [provider EXCEPT ![rpc[c].run] = IF @ = "running" THEN "stopped" ELSE @]
           /\ \E v : Moved(c, v)
<1> DEFINE call == rpc[c]
           r    == rpc[c].run
           row  == RecordProviderCall(gens[r])
<1>1. /\ call.pc = "record" /\ call \in CallStates /\ r \in Runs /\ asked[r] # None
      /\ Placed(call) /\ Final(call) /\ Remembers(call) /\ Polls(call)
  BY CallFacts DEF Record
<1>2. UNCHANGED <<asked, attempts, told>>
  BY DEF Record
<1>3. ~(call.kind = "get" /\ call.due) /\ call.before = None /\ call.mine
  BY <1>1 DEF Polls, Remembers, Placed
<1>4. gens[r] \in Rows /\ RowSound(r) /\ now \in Nat
  BY <1>1, RunFacts
<1>5. CASE RecordMatches(gens[r])
  <2>1. /\ gens' = [gens EXCEPT ![r] = row] /\ provider' = provider
        /\ IF row.cancelRequestedAt = None THEN Checked(c, row)
           ELSE Step(c, [call EXCEPT !.pc = "check", !.seen = row, !.readAt = now])
    BY <1>5 DEF Record
  <2>2. /\ row \in Rows /\ row.status = "running" /\ row.providerCallId = CallId
        /\ row.startRequestedAt = gens[r].startRequestedAt
    BY <1>4, RecordEffect
  <2>3. gens'[r] = row
    BY <1>1, <2>1 DEF ApiInv, TypeOK
  <2> HIDE DEF row
  <2>4. CASE Checked(c, row)
    <3> DEFINE next == [call EXCEPT !.pc = "list", !.status = row.status]
    <3>1. /\ next \in CallStates /\ next.pc = "list" /\ next.status = "running" /\ next.kind = call.kind
          /\ next.mine = call.mine /\ next.run = r /\ next.due = call.due /\ next.before = call.before
      BY <1>1, <2>2 DEF CallStates, Live
    <3>2. Step(c, next)
      BY <2>4 DEF Checked
    <3> HIDE DEF next
    <3>3. PICK v : Goes(c, v) /\ Alike(v, next)
      BY <3>1, <3>2, StepEffect
    <3>4. Sound(v)'
      BY <1>1, <1>2, <1>3, <3>1, <3>3
         DEF Alike, Sound, Placed, Fenced, Fences, Final, Remembers, Polls, Settled
    <3>5. Moved(c, v)
      BY <3>1, <3>3, <3>4 DEF Moved, Sits, Alike, Starting, Settled
    <3>6. QED
      BY <1>1, <1>2, <1>5, <2>1, <3>5 DEF row
  <2>5. CASE Step(c, [call EXCEPT !.pc = "check", !.seen = row, !.readAt = now])
    <3> DEFINE next == [call EXCEPT !.pc = "check", !.seen = row, !.readAt = now]
    <3>1. /\ next \in CallStates /\ next.pc = "check" /\ next.status = call.status /\ next.kind = call.kind
          /\ next.mine = call.mine /\ next.run = r /\ next.due = call.due /\ next.before = call.before
          /\ next.seen = row
      BY <1>1, <1>4, <2>2 DEF CallStates
    <3> HIDE DEF next
    <3>2. PICK v : Goes(c, v) /\ Alike(v, next) /\ v.seen = next.seen
      BY <2>5, <3>1, StepEffect DEF next
    <3>3. Placed(v)' /\ Fenced(v)'
      BY <1>1, <1>2, <1>3, <2>2, <2>3, <3>1, <3>2 DEF Alike, Placed, Fenced, Live
    <3>4. Final(v)'
      BY <1>1, <1>2, <1>5, <3>1, <3>2 DEF Alike, Final, RecordMatches, Settled
    <3>5. Remembers(v)' /\ Polls(v)'
      BY <1>3, <3>1, <3>2 DEF Alike, Remembers, Polls
    <3>6. Moved(c, v)
      BY <1>1, <3>1, <3>2, <3>3, <3>4, <3>5 DEF Moved, Sits, Alike, Starting, Sound
    <3>7. QED
      BY <1>1, <1>2, <1>5, <2>1, <3>6 DEF row
  <2>6. QED
    BY <2>1, <2>4, <2>5
<1>6. CASE ~RecordMatches(gens[r])
  <2>1. /\ gens' = gens
        /\ provider' = [provider EXCEPT ![r] = IF @ = "running" THEN "stopped" ELSE @]
        /\ Step(c, [call EXCEPT !.pc = "reread"])
    BY <1>6 DEF Record
  <2> DEFINE next == [call EXCEPT !.pc = "reread"]
  <2>2. /\ next \in CallStates /\ next.pc = "reread" /\ next.status = call.status /\ next.kind = call.kind
        /\ next.mine = call.mine /\ next.run = r /\ next.due = call.due /\ next.before = call.before
    BY <1>1 DEF CallStates
  <2> HIDE DEF next
  <2>3. PICK v : Goes(c, v) /\ Alike(v, next)
    BY <2>1, <2>2, StepEffect DEF next
  <2>4. Sound(v)'
    BY <1>1, <1>2, <1>3, <2>1, <2>2, <2>3
       DEF Alike, Sound, Placed, Fenced, Fences, Final, Remembers, Polls
  <2>5. Moved(c, v)
    BY <1>1, <2>2, <2>3, <2>4 DEF Moved, Sits, Alike, Starting
  <2>6. QED
    BY <1>1, <1>2, <2>1, <2>5
<1>7. QED
  BY <1>5, <1>6

\* A call and what is left of it once it goes on are as sound as each other.
LEMMA SoundAlike ==
    ASSUME NEW v, NEW next, Alike(v, next), next.pc # "list" => v.seen = next.seen /\ v.plan = next.plan,
           Sound(next)
    PROVE  Sound(v)
<1>1. CASE next.pc = "idle"
  BY <1>1 DEF Sound, Alike
<1>2. CASE next.pc # "idle"
  <2>1. Placed(next) /\ Fenced(next) /\ Final(next) /\ Remembers(next) /\ Polls(next)
    BY <1>2 DEF Sound
  <2>2. Placed(v)
    BY <2>1 DEF Placed, Alike
  <2>3. Fenced(v)
    BY <2>1 DEF Fenced, Fences, Alike
  <2>4. Final(v) /\ Remembers(v)
    BY <2>1 DEF Final, Remembers, Alike
  <2>5. Polls(v)
    BY <2>1 DEF Polls, Alike
  <2>6. QED
    BY <2>2, <2>3, <2>4, <2>5 DEF Sound
<1>3. QED
  BY <1>1, <1>2

\* A call goes on from a step that writes nothing.
LEMMA QuietMove ==
    ASSUME NEW c \in Calls, NEW next \in CallStates, Step(c, next), Quiet, Sound(next),
           next.pc \notin Starting,
           next.status \in Settled =>
                \/ gens[next.run].status = next.status
                \/ rpc[c].pc # "idle" /\ next.run = rpc[c].run /\ next.status = rpc[c].status,
           next.pc \in {"check", "settle"} =>
                \/ /\ rpc[c].pc \in {"check", "settle"} /\ next.run = rpc[c].run
                   /\ next.seen.providerCallId = rpc[c].seen.providerCallId
                \/ next.seen.providerCallId = gens[next.run].providerCallId
    PROVE  \E v : Moved(c, v)
<1>1. PICK v : /\ Goes(c, v) /\ Alike(v, next)
               /\ next.pc # "list" => v.seen = next.seen /\ v.plan = next.plan
  BY StepEffect
<1>2. Sound(v)'
  BY <1>1, SoundAlike, SoundQuiet
<1>3. Sits(c, v)
  BY <1>1, <1>2 DEF Sits, Alike, Quiet, Starting
<1>4. QED
  BY <1>1, <1>3 DEF Moved

\* A call looks, and is refused or goes on.
Looks(c) == Refuses(c) \/ (Quiet /\ \E v : Moved(c, v))

\* What a read of a stored row leaves of its call.
LEMMA ReadEffect ==
    ASSUME ApiInv, NEW c \in Calls, Quiet,
           NEW call \in CallStates, NEW pc \in {"check", "list"}, Step(c, Read(call, pc)),
           call.run \in Runs, asked[call.run] # None, gens[call.run].status # "absent",
           call.mine, call.kind \in {"get", "cancel"},
           call.before # None => told[call.run] = call.before,
           call.kind = "get" /\ call.due =>
                gens[call.run].providerCallId # None /\ provider[call.run] \in Ended,
           pc = "check" => gens[call.run].settledAt = None,
           pc = "list" /\ call.kind = "get" => gens[call.run].settledAt # None
    PROVE  \E v : Moved(c, v)
<1> DEFINE r == call.run
           next == Read(call, pc)
<1>1. /\ gens[r] \in Rows /\ told[r] \in Settled \cup {None} /\ RowSound(r) /\ now \in Nat
      /\ gens[r].status \in Live \cup Settled
  BY RunFacts DEF Rows
<1>2. /\ next \in CallStates /\ next.pc = pc /\ next.kind = call.kind /\ next.mine /\ next.run = r
      /\ next.status = gens[r].status /\ next.seen = gens[r] /\ next.due = call.due
      /\ next.before = call.before
  BY <1>1 DEF Read, CallStates
<1>3. pc = "check" => gens[r].status \in Live
  BY <1>1 DEF RowSound
<1>4. told[r] # None => pc = "list" /\ gens[r].status = told[r]
  BY <1>1, <1>3, NoneAssumption DEF RowSound, Live, Settled
<1>5. Step(c, next)
  OBVIOUS
<1> HIDE DEF next
<1>6. Placed(next) /\ Fenced(next)
  BY <1>2, <1>3 DEF Placed, Fenced, Fences
<1>7. Final(next) /\ Remembers(next)
  BY <1>2, <1>4 DEF Final, Remembers
<1>8. Polls(next)
  BY <1>1, <1>2 DEF Polls, RowSound
<1>9. Sound(next)
  BY <1>6, <1>7, <1>8 DEF Sound
<1>10. QED
  BY <1>2, <1>5, <1>9, QuietMove DEF Starting

\* What a call starts from.
LEMMA OpenedType ==
    ASSUME ApiInv, NEW kind \in {"get", "cancel"}, NEW mine \in BOOLEAN, NEW r \in Runs
    PROVE  /\ Opened(kind, mine, r) \in CallStates
           /\ Opened(kind, mine, r).kind = kind /\ Opened(kind, mine, r).mine = mine
           /\ Opened(kind, mine, r).run = r /\ Opened(kind, mine, r).before = told[r]
           /\ Opened(kind, mine, r).status = None
           /\ Opened(kind, mine, r).due => gens[r].providerCallId # None /\ provider[r] \in Ended
<1>1. told[r] \in Settled \cup {None} /\ Idle \in CallStates
  BY RunFacts, IdleType
<1>2. Idle.status = None
  BY DEF Idle
<1>3. PICK b \in BOOLEAN : b = (gens[r].providerCallId # None /\ provider[r] \in Ended)
  OBVIOUS
<1>4. Opened(kind, mine, r) =
        [Idle EXCEPT !.kind = kind, !.mine = mine, !.run = r, !.before = told[r], !.due = b]
  BY <1>3, Zenon DEF Opened
<1>5. /\ Opened(kind, mine, r) \in CallStates
      /\ Opened(kind, mine, r).kind = kind /\ Opened(kind, mine, r).mine = mine
      /\ Opened(kind, mine, r).run = r /\ Opened(kind, mine, r).before = told[r]
      /\ Opened(kind, mine, r).status = None /\ Opened(kind, mine, r).due = b
  <2> DEFINE call == [Idle EXCEPT !.kind = kind, !.mine = mine, !.run = r, !.before = told[r], !.due = b]
  <2>1. call \in CallStates
    BY <1>1 DEF CallStates
  <2>2. /\ call.kind = kind /\ call.mine = mine /\ call.run = r /\ call.before = told[r]
        /\ call.status = None /\ call.due = b
    BY <1>1, <1>2 DEF CallStates
  <2> HIDE DEF call
  <2>3. QED
    BY <1>4, <2>1, <2>2 DEF call
<1>6. QED
  BY <1>3, <1>5

\* A poll reads.
LEMMA GetEffect ==
    ASSUME ApiInv, NEW c \in Calls, Get(c)
    PROVE  Looks(c)
<1>1. PICK r \in Runs, mine \in BOOLEAN :
          /\ asked[r] # None
          /\ IF ~Found(Opened("get", mine, r)) THEN Refuse(c, Opened("get", mine, r), "ErrGenerationNotFound")
             ELSE Step(c, Read(Opened("get", mine, r), IF gens[r].settledAt = None THEN "check" ELSE "list"))
  BY DEF Get
<1>2. Quiet
  BY DEF Get, Quiet
<1> DEFINE call == Opened("get", mine, r)
<1>3. /\ call \in CallStates /\ call.kind = "get" /\ call.mine = mine /\ call.run = r
      /\ call.before = told[r] /\ (call.due => gens[r].providerCallId # None /\ provider[r] \in Ended)
  BY OpenedType
<1>4. CASE ~Found(call)
  <2>1. Refuse(c, call, "ErrGenerationNotFound")
    BY <1>1, <1>4
  <2> HIDE DEF call
  <2>2. QED
    BY <1>2, <1>3, <1>4, <2>1, RefuseEffect, CodeOf DEF Looks, Refuses, Found
<1>5. CASE Found(call)
  <2>1. Step(c, Read(call, IF gens[r].settledAt = None THEN "check" ELSE "list"))
    BY <1>1, <1>5
  <2> HIDE DEF call
  <2>2. call.mine /\ gens[r].status # "absent"
    BY <1>3, <1>5 DEF Found
  <2>3. QED
    BY <1>1, <1>2, <1>3, <2>1, <2>2, ReadEffect DEF Looks
<1>6. QED
  BY <1>4, <1>5

\* A read that fails ends its call.
LEMMA ReadFailsEffect ==
    ASSUME NEW c \in Calls, ReadFails(c)
    PROVE  Looks(c)
<1>1. PICK kind \in {"get", "cancel"}, error \in {"ErrInvalidRequest", "statement"} :
          Refuse(c, [Idle EXCEPT !.kind = kind], error)
  BY DEF ReadFails
<1>2. Quiet
  BY DEF ReadFails, Quiet
<1>3. [Idle EXCEPT !.kind = kind] \in CallStates /\ [Idle EXCEPT !.kind = kind].mine
  <2>1. Idle \in CallStates /\ Idle.mine
    BY IdleType DEF Idle
  <2>2. QED
    BY <2>1 DEF CallStates
<1>4. StatusOf(error) \in Codes \ {"OK", "NOT_FOUND"}
  BY CodeOf
<1>5. QED
  BY <1>1, <1>2, <1>3, <1>4, RefuseEffect DEF Looks, Refuses

\* A cancel that marked nothing reads what it found.
LEMMA UnmarkedEffect ==
    ASSUME ApiInv, NEW c \in Calls, Unmarked(c)
    PROVE  Looks(c)
<1> DEFINE call == rpc[c]
<1>1. /\ call.pc = "unmarked" /\ call \in CallStates /\ call.run \in Runs /\ asked[call.run] # None
      /\ Placed(call) /\ Remembers(call)
  BY CallFacts DEF Unmarked
<1>2. /\ IF ~Found(call) THEN Refuse(c, call, "ErrGenerationNotFound")
         ELSE Step(c, Read(call, AfterMark(gens[call.run])))
      /\ Quiet
  BY DEF Unmarked, Quiet
<1>3. call.kind = "cancel" /\ (call.before # None => told[call.run] = call.before)
  BY <1>1 DEF Placed, Remembers
<1>4. CASE ~Found(call)
  BY <1>1, <1>2, <1>4, RefuseEffect, CodeOf DEF Looks, Refuses, Found
<1>5. CASE Found(call)
  <2>1. Step(c, Read(call, AfterMark(gens[call.run]))) /\ call.mine /\ gens[call.run].status # "absent"
    BY <1>2, <1>5 DEF Found
  <2>2. /\ AfterMark(gens[call.run]) \in {"check", "list"}
        /\ AfterMark(gens[call.run]) = "check" => gens[call.run].settledAt = None
    BY DEF AfterMark
  <2> HIDE DEF call
  <2>3. QED
    BY <1>1, <1>2, <1>3, <2>1, <2>2, ReadEffect DEF Looks
<1>6. QED
  BY <1>4, <1>5

\* A call that lists next holds a generation that ended so, or one that goes on.
LEMMA ListedEffect ==
    ASSUME ApiInv, NEW c \in Calls, rpc[c].pc \notin {"idle", "unmarked", "list"}, Quiet,
           NEW next \in CallStates, Step(c, next), next.pc = "list", next.kind = rpc[c].kind,
           next.mine = rpc[c].mine, next.run = rpc[c].run, next.due = rpc[c].due,
           next.before = rpc[c].before,
           next.status \in Settled => gens[next.run].status = next.status \/ next.status = rpc[c].status,
           next.missed \/ next.status \in Settled \/ ~(rpc[c].kind = "get" /\ rpc[c].due)
    PROVE  Looks(c)
<1> DEFINE call == rpc[c]
<1>1. /\ call \in CallStates /\ call.run \in Runs /\ asked[call.run] # None
      /\ Placed(call) /\ Final(call) /\ Remembers(call)
      /\ RowSound(call.run) /\ told[call.run] \in Settled \cup {None}
  BY CallFacts, RunFacts
<1>2. call.before = None /\ call.mine
  BY <1>1 DEF Remembers, Placed
<1>3. Placed(next) /\ Fenced(next) /\ Remembers(next) /\ Polls(next)
  BY <1>1, <1>2 DEF Placed, Fenced, Fences, Remembers, Polls
<1>4. Final(next)
  <2>1. CASE next.status \in Settled /\ gens[call.run].status = next.status
    BY <1>1, <2>1 DEF Final, RowSound, Settled
  <2>2. CASE next.status \in Settled /\ next.status = call.status
    BY <1>1, <2>2 DEF Final
  <2>3. QED
    BY <2>1, <2>2 DEF Final
<1>5. Sound(next)
  BY <1>3, <1>4 DEF Sound
<1>6. QED
  BY <1>5, QuietMove DEF Starting, Looks

\* A failed check leaves its call with what it read.
LEMMA UncheckedEffect ==
    ASSUME ApiInv, NEW c \in Calls, rpc[c].pc \notin {"idle", "unmarked", "list"}, Quiet, Unchecked(c)
    PROVE  Looks(c)
<1>1. rpc[c] \in CallStates
  BY CallFacts
<1> DEFINE next == [rpc[c] EXCEPT !.pc = "list", !.missed = TRUE]
<1>2. /\ next \in CallStates /\ next.pc = "list" /\ next.kind = rpc[c].kind /\ next.mine = rpc[c].mine
      /\ next.run = rpc[c].run /\ next.due = rpc[c].due /\ next.before = rpc[c].before
      /\ next.status = rpc[c].status /\ next.missed
  BY <1>1 DEF CallStates
<1>3. Step(c, next)
  BY DEF Unchecked
<1> HIDE DEF next
<1>4. QED
  BY <1>2, <1>3, ListedEffect

\* A check that ended leaves its call with the row it ended on.
LEMMA CheckedEffect ==
    ASSUME ApiInv, NEW c \in Calls, rpc[c].pc \notin {"idle", "unmarked", "list"}, Quiet,
           NEW row \in Rows, row.status # "absent", Checked(c, row),
           row.status \in Settled => gens[rpc[c].run].status = row.status,
           row.status \in Settled \/ ~(rpc[c].kind = "get" /\ rpc[c].due)
    PROVE  Looks(c)
<1>1. rpc[c] \in CallStates /\ row.status \in Live \cup Settled
  BY CallFacts DEF Rows
<1> DEFINE next == [rpc[c] EXCEPT !.pc = "list", !.status = row.status]
<1>2. /\ next \in CallStates /\ next.pc = "list" /\ next.kind = rpc[c].kind /\ next.mine = rpc[c].mine
      /\ next.run = rpc[c].run /\ next.due = rpc[c].due /\ next.before = rpc[c].before
      /\ next.status = row.status
  BY <1>1 DEF CallStates
<1>3. Step(c, next)
  BY DEF Checked
<1> HIDE DEF next
<1>4. QED
  BY <1>2, <1>3, ListedEffect

\* A cancel marks a live generation, or reads why it could not.
LEMMA CancelCallEffect ==
    ASSUME ApiInv, NEW c \in Calls, Cancel(c)
    PROVE  \/ Looks(c)
           \/ /\ \E r \in Runs : /\ gens[r].status \in Live
                                 /\ gens' = [gens EXCEPT ![r] = RequestCancel(gens[r], now)]
              /\ UNCHANGED <<asked, attempts, provider, told>>
              /\ \E v : Moved(c, v)
<1>1. PICK r \in Runs, mine \in BOOLEAN :
          LET call == Opened("cancel", mine, r)
              row  == RequestCancel(gens[r], now)
          IN  /\ asked[r] # None
              /\ IF mine /\ CancelMatches(gens[r])
                   THEN /\ gens' = [gens EXCEPT ![r] = row]
                        /\ Step(c, [call EXCEPT !.pc = AfterMark(row), !.status = row.status,
                                                !.seen = row, !.readAt = now])
                   ELSE Step(c, [call EXCEPT !.pc = "unmarked"]) /\ UNCHANGED gens
  BY DEF Cancel
<1>2. UNCHANGED <<asked, attempts, provider, told>>
  BY DEF Cancel
<1> DEFINE call == Opened("cancel", mine, r)
           row  == RequestCancel(gens[r], now)
<1>3. /\ call \in CallStates /\ call.kind = "cancel" /\ call.mine = mine /\ call.run = r
      /\ call.before = told[r] /\ call.status = None
  BY OpenedType
<1>4. /\ gens[r] \in Rows /\ told[r] \in Settled \cup {None} /\ RowSound(r) /\ now \in Nat
      /\ None \notin Settled
  BY RunFacts
<1>5. CASE mine /\ CancelMatches(gens[r])
  <2>1. /\ gens' = [gens EXCEPT ![r] = row]
        /\ Step(c, [call EXCEPT !.pc = AfterMark(row), !.status = row.status, !.seen = row, !.readAt = now])
    BY <1>1, <1>5
  <2>2. gens[r].status \in Live /\ gens[r].settledAt = None /\ told[r] = None
    BY <1>4, <1>5, NoneAssumption DEF CancelMatches, RowSound, Live, Settled
  <2>3. /\ row \in Rows /\ row.status \in {gens[r].status, "cancelled"}
        /\ (row.settledAt # None <=> row.status = "cancelled")
        /\ row.startRequestedAt = gens[r].startRequestedAt /\ row.providerCallId = gens[r].providerCallId
    BY <1>4, <2>2, CancelEffect
  <2>4. gens'[r] = row
    BY <1>4, <2>1 DEF ApiInv, TypeOK
  <2>5. /\ AfterMark(row) \in {"check", "list"}
        /\ AfterMark(row) = "check" => row.settledAt = None
    BY DEF AfterMark
  <2> HIDE DEF row, call
  <2> DEFINE next == [call EXCEPT !.pc = AfterMark(row), !.status = row.status, !.seen = row, !.readAt = now]
  <2>6. row.status \in Live \cup Settled
    BY <2>2, <2>3 DEF Settled
  <2>7. /\ next \in CallStates /\ next.pc = AfterMark(row) /\ next.kind = "cancel" /\ next.mine = mine
        /\ next.run = r /\ next.status = row.status /\ next.before = None /\ next.seen = row
    BY <1>3, <1>4, <2>2, <2>3, <2>5, <2>6 DEF CallStates
  <2>8. Step(c, next)
    BY <2>1
  <2> HIDE DEF next
  <2>9. PICK v : Goes(c, v) /\ Alike(v, next) /\ (next.pc # "list" => v.seen = next.seen)
    BY <2>7, <2>8, StepEffect
  <2>10. /\ v.pc = AfterMark(row) /\ v.kind = "cancel" /\ v.mine = mine /\ v.run = r
         /\ v.status = row.status /\ v.before = None /\ (v.pc # "list" => v.seen = row)
    BY <2>7, <2>9 DEF Alike
  <2>11. Placed(v)'
    BY <1>1, <1>2, <1>5, <2>5, <2>10 DEF Placed
  <2>12. Fenced(v)'
    BY <2>3, <2>4, <2>2, <2>5, <2>10 DEF Fenced, Fences, Live
  <2>13. Final(v)' /\ Remembers(v)' /\ Polls(v)'
    BY <1>2, <2>2, <2>4, <2>10 DEF Final, Remembers, Polls
  <2>14. Sits(c, v)
    BY <2>3, <2>4, <2>5, <2>10, <2>11, <2>12, <2>13 DEF Sits, Sound, Starting
  <2>15. QED
    BY <1>2, <2>1, <2>2, <2>9, <2>14 DEF Moved, row
<1>6. CASE ~(mine /\ CancelMatches(gens[r]))
  <2>1. Step(c, [call EXCEPT !.pc = "unmarked"]) /\ Quiet
    BY <1>1, <1>2, <1>6 DEF Quiet
  <2> HIDE DEF call
  <2> DEFINE next == [call EXCEPT !.pc = "unmarked"]
  <2>2. /\ next \in CallStates /\ next.pc = "unmarked" /\ next.kind = "cancel" /\ next.run = r
        /\ next.status = None /\ next.before = told[r]
    BY <1>3 DEF CallStates
  <2>3. Step(c, next)
    BY <2>1
  <2> HIDE DEF next
  <2>4. Sound(next)
    BY <1>1, <1>4, <2>2 DEF Sound, Placed, Fenced, Fences, Final, Remembers, Polls
  <2>5. QED
    BY <1>4, <2>1, <2>2, <2>3, <2>4, QuietMove DEF Looks, Starting
<1>7. QED
  BY <1>5, <1>6

\* A check that knows how its generation ended goes on to settle it.
LEMMA PlannedEffect ==
    ASSUME ApiInv, NEW c \in Calls, rpc[c].pc = "check", UNCHANGED <<gens, asked, attempts, told>>,
           NEW plan \in Plans, Step(c, [rpc[c] EXCEPT !.pc = "settle", !.plan = plan]),
           rpc[c].kind = "get" /\ rpc[c].due => provider'[rpc[c].run] \in Ended
    PROVE  \E v : Moved(c, v)
<1> DEFINE call == rpc[c]
           next == [call EXCEPT !.pc = "settle", !.plan = plan]
<1>1. /\ call \in CallStates /\ call.run \in Runs /\ asked[call.run] # None
      /\ Placed(call) /\ Fenced(call) /\ Final(call) /\ Remembers(call) /\ Polls(call)
  BY CallFacts
<1>2. plan \in CallPlans
  BY PlanType
<1>3. /\ next \in CallStates /\ next.pc = "settle" /\ next.plan = plan /\ next.seen = call.seen
      /\ next.kind = call.kind /\ next.mine = call.mine /\ next.run = call.run
      /\ next.status = call.status /\ next.due = call.due /\ next.before = call.before
  <2>1. next \in CallStates
    BY <1>1, <1>2 DEF CallStates, CallPlans
  <2>2. QED
    BY <1>1, <2>1 DEF CallStates
<1>4. Step(c, next)
  OBVIOUS
<1> HIDE DEF next
<1>5. PICK v : Goes(c, v) /\ Alike(v, next) /\ v.seen = next.seen /\ v.plan = next.plan
  BY <1>3, <1>4, StepEffect
<1>6. Placed(v) /\ Fenced(v) /\ Final(v)
  BY <1>1, <1>3, <1>5 DEF Placed, Fenced, Fences, Final, Alike
<1>7. Remembers(v) /\ Polls(v)'
  BY <1>1, <1>3, <1>5 DEF Remembers, Polls, Alike
<1>8. Sits(c, v)
  BY <1>3, <1>5, <1>6, <1>7, SoundBut DEF Sits, Alike, Starting
<1>9. QED
  BY <1>5, <1>8 DEF Moved

\* A start still in flight is left alone; one out of time is given up.
LEMMA CheckIntentEffect ==
    ASSUME ApiInv, NEW c \in Calls, CheckIntent(c)
    PROVE  Looks(c)
<1>1. /\ rpc[c].pc = "check" /\ rpc[c] \in CallStates /\ rpc[c].seen \in Rows
      /\ Fenced(rpc[c]) /\ Polls(rpc[c]) /\ rpc[c].seen.providerCallId = None
  BY CallFacts DEF CheckIntent, CallStates
<1>2. rpc[c].seen.status \in Live /\ ~(rpc[c].kind = "get" /\ rpc[c].due)
  BY <1>1 DEF Fenced, Fences, Polls
<1>3. Quiet
  BY DEF CheckIntent, Quiet
<1>4. CASE Checked(c, rpc[c].seen)
  BY <1>1, <1>2, <1>3, <1>4, CheckedEffect DEF Live, Settled
<1>5. CASE Step(c, [rpc[c] EXCEPT !.pc = "settle",
                                  !.plan = Plan("failed", "failureOutcomeUnknown", "outcome_unknown")])
  <2>1. Plan("failed", "failureOutcomeUnknown", "outcome_unknown") \in Plans
    BY DEF Plans, StartPlans
  <2>2. QED
    BY <1>1, <1>2, <1>3, <1>5, <2>1, PlannedEffect DEF Quiet, Looks
<1>6. QED
  BY <1>4, <1>5 DEF CheckIntent

\* Asking the provider changes the provider's side alone.
LEMMA AskEffect ==
    ASSUME ApiInv, NEW c \in Calls, Ask(c)
    PROVE  \/ Looks(c)
           \/ /\ UNCHANGED <<gens, asked, attempts, told>>
              /\ \E state \in Ended : provider' = [provider EXCEPT ![rpc[c].run] = state]
              /\ \E v : Moved(c, v)
<1> DEFINE r     == rpc[c].run
           state == IF rpc[c].seen.cancelRequestedAt # None /\ provider[r] = "running"
                      THEN "stopped" ELSE provider[r]
<1>1. /\ rpc[c].pc = "check" /\ rpc[c] \in CallStates /\ rpc[c].seen \in Rows /\ r \in Runs
      /\ Fenced(rpc[c]) /\ Polls(rpc[c])
  BY CallFacts DEF Ask, CallStates
<1>2. /\ provider' = [provider EXCEPT ![r] = state] /\ UNCHANGED <<gens, asked, attempts, told>>
      /\ IF state \in Ended
           THEN Step(c, [rpc[c] EXCEPT !.pc = "settle", !.plan = OutcomeOf(state, gens[r])])
           ELSE Checked(c, rpc[c].seen)
  BY DEF Ask
<1>3. state = provider[r] \/ state \in Ended
  BY DEF Ended
<1>4. CASE state \in Ended
  <2>1. OutcomeOf(state, gens[r]) \in Plans
    BY DEF OutcomeOf, Plans
  <2>2. provider'[r] \in Ended
    BY <1>1, <1>2, <1>4 DEF ApiInv, TypeOK
  <2>3. Step(c, [rpc[c] EXCEPT !.pc = "settle", !.plan = OutcomeOf(state, gens[r])])
    BY <1>2, <1>4
  <2> HIDE DEF state
  <2>4. \E v : Moved(c, v)
    BY <1>1, <1>2, <2>1, <2>2, <2>3, PlannedEffect
  <2>5. QED
    BY <1>2, <1>4, <2>4
<1>5. CASE state \notin Ended
  <2>1. Checked(c, rpc[c].seen)
    BY <1>2, <1>5
  <2>2. provider' = provider
    BY <1>1, <1>2, <1>3, <1>5 DEF ApiInv, TypeOK
  <2>3. rpc[c].seen.status \in Live /\ ~(rpc[c].kind = "get" /\ rpc[c].due)
    BY <1>1, <1>3, <1>5 DEF Fenced, Fences, Polls, Ended
  <2>4. Quiet
    BY <1>2, <2>2 DEF Quiet
  <2>5. QED
    BY <1>1, <2>1, <2>3, <2>4, CheckedEffect DEF Live, Settled
<1>6. QED
  BY <1>4, <1>5

\* A call that did not end is left running.
LEMMA UnansweredEffect ==
    ASSUME ApiInv, NEW c \in Calls, Unanswered(c)
    PROVE  Looks(c)
<1>1. /\ rpc[c].pc = "check" /\ rpc[c] \in CallStates /\ Fenced(rpc[c])
  BY CallFacts DEF Unanswered
<1>2. Quiet
  BY DEF Unanswered, Quiet
<1> DEFINE next == [rpc[c] EXCEPT !.pc = "list", !.status = rpc[c].seen.status, !.missed = TRUE]
<1>3. rpc[c].seen.status \in Live
  BY <1>1 DEF Fenced, Fences
<1>4. /\ next \in CallStates /\ next.pc = "list" /\ next.kind = rpc[c].kind /\ next.mine = rpc[c].mine
      /\ next.run = rpc[c].run /\ next.due = rpc[c].due /\ next.before = rpc[c].before
      /\ next.status \in Live /\ next.missed
  BY <1>1, <1>3 DEF CallStates
<1>5. Step(c, next)
  BY DEF Unanswered
<1> HIDE DEF next
<1>6. QED
  BY <1>1, <1>2, <1>4, <1>5, ListedEffect DEF Live, Settled

\* A settle writes its planned outcome on a live row with its answer, or finds it changed.
LEMMA SettleCallEffect ==
    ASSUME ApiInv, NEW c \in Calls, SettleCall(c)
    PROVE  \/ Looks(c)
           \/ /\ rpc[c].run \in Runs /\ gens[rpc[c].run].status \in Live
              /\ \E plan \in Plans :
                    /\ gens' = [gens EXCEPT ![rpc[c].run] = Settle(gens[rpc[c].run], plan, now)]
                    /\ attempts' = IF Answered(plan) THEN attempts \cup {rpc[c].run} ELSE attempts
              /\ UNCHANGED <<asked, provider, told>>
              /\ \E v : Moved(c, v)
<1> DEFINE call == rpc[c]
           r    == rpc[c].run
           row  == Settle(gens[r], call.plan, now)
<1>1. /\ call.pc = "settle" /\ call \in CallStates /\ r \in Runs /\ asked[r] # None
      /\ Placed(call) /\ Fenced(call) /\ Final(call) /\ Remembers(call) /\ Polls(call)
  BY CallFacts DEF SettleCall
<1>2. UNCHANGED <<asked, provider, told>>
  BY DEF SettleCall
<1>3. /\ gens[r] \in Rows /\ told[r] \in Settled \cup {None} /\ RowSound(r) /\ now \in Nat
      /\ None \notin Settled
  BY <1>1, RunFacts
<1>4. call.plan \in Plans /\ call.before = None /\ call.mine
  BY <1>1 DEF Placed, Remembers
<1>5. CASE SettleMatches(gens[r], call.seen)
  <2>1. /\ gens' = [gens EXCEPT ![r] = row]
        /\ attempts' = IF Answered(call.plan) THEN attempts \cup {r} ELSE attempts
        /\ Checked(c, row)
    BY <1>5 DEF SettleCall
  <2>2. gens[r].status \in Live /\ told[r] = None
    BY <1>3, <1>5, NoneAssumption DEF SettleMatches, RowSound, Live, Settled
  <2>3. row \in Rows /\ row.status = call.plan.status /\ row.status \in Settled
    BY <1>3, <1>4, SettleEffect, PlanType
  <2>4. gens'[r] = row
    BY <1>1, <2>1 DEF ApiInv, TypeOK
  <2> DEFINE next == [call EXCEPT !.pc = "list", !.status = row.status]
  <2>5. Step(c, next)
    BY <2>1 DEF Checked
  <2> HIDE DEF row
  <2>6. /\ next \in CallStates /\ next.pc = "list" /\ next.kind = call.kind /\ next.mine /\ next.run = r
        /\ next.status = row.status /\ next.due = call.due /\ next.before = None
    <3>1. next \in CallStates
      BY <1>1, <2>3 DEF CallStates
    <3>2. QED
      BY <1>1, <1>4, <3>1 DEF CallStates
  <2> HIDE DEF next
  <2>7. PICK v : Goes(c, v) /\ Alike(v, next)
    BY <2>5, <2>6, StepEffect
  <2>8. /\ v.pc = "list" /\ v.kind = call.kind /\ v.mine /\ v.run = r
        /\ v.status = row.status /\ v.due = call.due /\ v.before = None
    BY <2>6, <2>7 DEF Alike
  <2>9. Placed(v)' /\ Fenced(v)'
    BY <1>1, <1>2, <2>8 DEF Placed, Fenced, Fences
  <2>10. Final(v)' /\ Remembers(v)' /\ Polls(v)'
    BY <1>2, <2>2, <2>3, <2>4, <2>8 DEF Final, Remembers, Polls
  <2>11. Sits(c, v)
    BY <2>4, <2>8, <2>9, <2>10 DEF Sits, Sound, Starting
  <2>12. QED
    BY <1>1, <1>2, <1>4, <2>1, <2>2, <2>7, <2>11 DEF Moved, row
<1>6. CASE ~SettleMatches(gens[r], call.seen)
  <2>1. Step(c, [call EXCEPT !.pc = "reread"]) /\ Quiet
    BY <1>2, <1>6 DEF SettleCall, Quiet
  <2> DEFINE next == [call EXCEPT !.pc = "reread"]
  <2>2. /\ next \in CallStates /\ next.pc = "reread" /\ next.kind = call.kind /\ next.mine /\ next.run = r
        /\ next.status = call.status /\ next.due = call.due /\ next.before = None
    BY <1>1, <1>4 DEF CallStates
  <2>3. Step(c, next)
    BY <2>1
  <2> HIDE DEF next
  <2>4. call.kind = "get" /\ call.due => gens[r].status \notin Live
    BY <1>1, <1>6 DEF Polls, Fenced, Fences, SettleMatches, Live
  <2>5. Placed(next) /\ Fenced(next) /\ Final(next) /\ Remembers(next) /\ Polls(next)
    BY <1>1, <2>2, <2>4 DEF Placed, Fenced, Fences, Final, Remembers, Polls
  <2>6. QED
    BY <1>1, <2>1, <2>2, <2>3, <2>5, QuietMove DEF Sound, Starting, Looks
<1>7. QED
  BY <1>5, <1>6

\* After a settle of another check, the row is read again.
LEMMA RereadEffect ==
    ASSUME ApiInv, NEW c \in Calls, Reread(c)
    PROVE  Looks(c)
<1> DEFINE call == rpc[c]
           r    == rpc[c].run
<1>1. /\ call.pc = "reread" /\ call \in CallStates /\ r \in Runs /\ Placed(call) /\ Polls(call)
      /\ gens[r] \in Rows
  BY CallFacts, RunFacts DEF Reread
<1>2. call.mine
  BY <1>1 DEF Placed
<1>3. Quiet
  BY DEF Reread, Quiet
<1>4. CASE gens[r].status # "absent"
  <2>1. Checked(c, gens[r])
    BY <1>4 DEF Reread
  <2>2. gens[r].status \in Settled \/ ~(call.kind = "get" /\ call.due)
    BY <1>1, <1>4 DEF Polls, Rows
  <2>3. QED
    BY <1>1, <1>3, <1>4, <2>1, <2>2, CheckedEffect
<1>5. CASE gens[r].status = "absent" /\ call.kind = "cancel"
  <2>1. Refuse(c, call, "ErrGenerationNotFound")
    BY <1>5 DEF Reread
  <2>2. QED
    BY <1>1, <1>2, <1>3, <1>5, <2>1, RefuseEffect, CodeOf DEF Looks, Refuses
<1>6. CASE gens[r].status = "absent" /\ call.kind # "cancel"
  <2>1. Unchecked(c)
    BY <1>6 DEF Reread
  <2>2. QED
    BY <1>1, <1>3, <2>1, UncheckedEffect
<1>7. QED
  BY <1>4, <1>5, <1>6

\* A check that fails changes nothing.
LEMMA CheckFailsEffect ==
    ASSUME ApiInv, NEW c \in Calls, CheckFails(c)
    PROVE  Looks(c)
<1> DEFINE call == rpc[c]
<1>1. /\ call.pc \in {"record", "unmarked", "check", "settle", "reread"}
      /\ call \in CallStates /\ Placed(call)
  BY CallFacts DEF CheckFails
<1>2. Quiet
  BY DEF CheckFails, Quiet
<1>3. CASE call.kind = "cancel"
  <2>1. Refuse(c, call, "check")
    BY <1>3 DEF CheckFails
  <2>2. QED
    BY <1>1, <1>2, <2>1, RefuseEffect, CodeOf DEF Looks, Refuses
<1>4. CASE call.kind # "cancel"
  <2>1. Unchecked(c)
    BY <1>4 DEF CheckFails
  <2>2. call.pc # "unmarked"
    BY <1>1, <1>4 DEF Placed
  <2>3. QED
    BY <1>1, <1>2, <2>1, <2>2, UncheckedEffect
<1>5. QED
  BY <1>3, <1>4

\* A list that fails ends its call.
LEMMA ListFailsEffect ==
    ASSUME ApiInv, NEW c \in Calls, ListFails(c)
    PROVE  Looks(c)
<1>1. rpc[c].pc = "list" /\ rpc[c] \in CallStates /\ Placed(rpc[c])
  BY CallFacts DEF ListFails
<1>2. rpc[c].mine
  BY <1>1 DEF Placed
<1>3. Quiet /\ Refuse(c, rpc[c], "statement")
  BY DEF ListFails, Quiet
<1>4. QED
  BY <1>1, <1>2, <1>3, RefuseEffect, CodeOf DEF Looks, Refuses

\* A lost call leaves nothing.
LEMMA LoseEffect ==
    ASSUME NEW c \in Calls, Lose(c)
    PROVE  Looks(c)
<1>1. Quiet /\ Step(c, Idle)
  BY DEF Lose, Quiet
<1>2. Idle \in CallStates /\ Idle.pc = "idle" /\ Idle.status = None /\ None \notin Settled
  BY IdleType, NoneAssumption DEF Idle
<1>3. Sound(Idle)
  BY <1>2 DEF Sound
<1>4. QED
  BY <1>1, <1>2, <1>3, QuietMove DEF Starting, Looks

\* The reply is what the call held, with the answer that is stored.
LEMMA ListEffect ==
    ASSUME ApiInv, NEW c \in Calls, List(c)
    PROVE  /\ rpc[c].pc = "list" /\ UNCHANGED <<gens, asked, attempts, provider>>
           /\ Replies(c, rpc[c], "OK", rpc[c].status \in Settled /\ rpc[c].run \in attempts)
           /\ told' = IF rpc[c].status \in Settled /\ told[rpc[c].run] = None
                        THEN [told EXCEPT ![rpc[c].run] = rpc[c].status] ELSE told
<1>1. rpc[c].pc = "list" /\ rpc[c] \in CallStates
  BY CallFacts DEF List
<1>2. /\ Reply(c, rpc[c], "OK", MayHaveAttempts(rpc[c]) /\ rpc[c].run \in attempts)
      /\ UNCHANGED <<gens, asked, attempts, provider>>
      /\ told' = IF rpc[c].status \in Settled /\ told[rpc[c].run] = None
                   THEN [told EXCEPT ![rpc[c].run] = rpc[c].status] ELSE told
  BY DEF List
<1>3. Replies(c, rpc[c], "OK", MayHaveAttempts(rpc[c]) /\ rpc[c].run \in attempts)
  BY <1>1, <1>2, ReplyEffect
<1>4. QED
  BY <1>1, <1>2, <1>3 DEF MayHaveAttempts

-----------------------------------------------------------------------------
(***************************************************************************)
(* What a step leaves of the rest.                                         *)
(***************************************************************************)
\* What a step of call c leaves of what is stored: a row that stays keeps how it ended, its start and its
\* call; only a start records a call, and only it starts one; and what was told stays told, or is told now.
Keeps(c) ==
    \A r \in Runs : asked[r] # None =>
        /\ asked'[r] = asked[r]
        /\ \/ gens'[r].status = "absent"
           \/ /\ gens[r].status # "absent"
              /\ gens[r].status \in Settled => gens'[r].status = gens[r].status
              /\ gens'[r].startRequestedAt = gens[r].startRequestedAt
              /\ gens[r].providerCallId # None => gens'[r].providerCallId = gens[r].providerCallId
        /\ gens[r].providerCallId = None =>
              gens'[r].providerCallId = None \/ (rpc[c].pc = "record" /\ rpc[c].run = r)
        /\ \/ told'[r] = told[r]
           \/ /\ told[r] = None /\ told'[r] \in Settled
              /\ rpc[c].pc # "idle" /\ rpc[c].run = r /\ told'[r] = rpc[c].status
        /\ provider[r] \in Ended =>
              provider'[r] \in Ended \/ (rpc[c].pc = "start" /\ rpc[c].run = r)

\* A call that did not move is as sound as it was.
LEMMA Stays ==
    ASSUME ApiInv, NEW c \in Calls, NEW d \in Calls, Keeps(c), NEW v, v = rpc[d]
    PROVE  Sound(v)'
<1>1. CASE v.pc = "idle"
  BY <1>1 DEF Sound
<1>2. CASE v.pc # "idle"
  <2> DEFINE r == v.run
  <2>1. /\ r \in Runs /\ asked[r] # None /\ v \in CallStates
        /\ Placed(v) /\ Fenced(v) /\ Final(v) /\ Remembers(v) /\ Polls(v)
    BY <1>2, CallFacts
  <2>2. gens[r] \in Rows /\ None \notin Settled
    BY <2>1, RunFacts
  <2>3. Placed(v)'
    BY <2>1 DEF Placed, Keeps
  <2>4. Fenced(v)'
    BY <2>1 DEF Fenced, Keeps
  <2>5. Final(v)'
    <3>1. v.status \in Settled => gens'[r].status \in {v.status, "absent"}
      BY <2>1 DEF Final, Keeps, Settled
    <3>2. v.status \in Settled /\ told'[r] # None => told'[r] = v.status
      <4>1. CASE told'[r] = told[r]
        BY <2>1, <4>1 DEF Final
      <4>2. CASE told'[r] \in Settled /\ rpc[c].pc # "idle" /\ rpc[c].run = r /\ told'[r] = rpc[c].status
        BY <1>2, <4>2 DEF ApiInv, Agree
      <4>3. QED
        BY <2>1, <4>1, <4>2 DEF Keeps
    <3>3. QED
      BY <3>1, <3>2 DEF Final
  <2>6. Remembers(v)'
    BY <2>1 DEF Remembers, Keeps
  <2>7. Polls(v)'
    <3>1. v.pc = "reread" /\ gens[r].status \notin Live => gens'[r].status \notin Live
      BY <2>1, <2>2 DEF Keeps, Rows, Live, Settled
    <3>2. v.pc \in {"check", "settle"} /\ v.seen.providerCallId # None /\ provider[r] \in Ended
             => provider'[r] \in Ended
      BY <1>2, <2>1 DEF Keeps, ApiInv, Starters, Starting
    <3>3. QED
      BY <2>1, <3>1, <3>2 DEF Polls
  <2>8. QED
    BY <2>3, <2>4, <2>5, <2>6, <2>7 DEF Sound
<1>3. QED
  BY <1>1, <1>2

\* A sound call is sound wherever it is kept.
LEMMA SoundAt ==
    ASSUME NEW d, NEW v, rpc'[d] = v, Sound(v)'
    PROVE  Sound(rpc[d])'
BY DEF Sound, Placed, Fenced, Final, Remembers, Polls

\* The calls as they stand after a step of call c, or of nobody.
LEMMA CallsKept ==
    ASSUME ApiInv, NEW c \in Calls, Keeps(c),
           NEW v \in CallStates, rpc' = [rpc EXCEPT ![c] = v], Sits(c, v)
    PROVE  /\ \A d \in Calls : Sound(rpc[d])'
           /\ Agree' /\ Starters'
<1>1. rpc'[c] = v /\ \A d \in Calls \ {c} : rpc'[d] = rpc[d]
  BY DEF ApiInv, TypeOK
<1>2. ASSUME NEW d \in Calls PROVE Sound(rpc[d])'
  <2>1. CASE d = c
    BY <1>1, <2>1, SoundAt DEF Sits
  <2>2. CASE d # c
    BY <1>1, <2>2, Stays, SoundAt
  <2>3. QED
    BY <2>1, <2>2
<1>3. ASSUME NEW d \in Calls \ {c}, rpc[d].pc # "idle", v.pc # "idle", rpc[d].run = v.run
      PROVE  /\ v.status \in Settled /\ rpc[d].status \in Settled => v.status = rpc[d].status
             /\ v.pc \in Starting => rpc[d].pc \notin Starting
             /\ v.pc # "start"
             /\ rpc[d].pc = "start" =>
                  (v.pc \in {"check", "settle"} => v.seen.providerCallId = None)
  <2>1. /\ rpc[d].run \in Runs /\ asked[rpc[d].run] # None
    BY <1>3, CallFacts
  <2>2. rpc'[d] = rpc[d]
    BY <1>1, <1>3
  <2>3. ASSUME v.status \in Settled, rpc[d].status \in Settled PROVE v.status = rpc[d].status
    <3>1. CASE gens'[v.run].status = v.status
      <4>1. PICK w : w = rpc[d]
        OBVIOUS
      <4>2. Sound(w)' /\ w.pc # "idle" /\ w.status \in Settled /\ w.run = v.run
        BY <1>3, <2>3, <4>1, Stays
      <4>3. Final(w)'
        BY <4>2 DEF Sound
      <4>4. gens'[v.run].status \in {w.status, "absent"}
        BY <4>2, <4>3 DEF Final
      <4>5. QED
        BY <2>3, <3>1, <4>1, <4>4 DEF Settled
    <3>2. CASE rpc[c].pc # "idle" /\ v.run = rpc[c].run /\ v.status = rpc[c].status
      BY <1>3, <2>3, <3>2 DEF ApiInv, Agree
    <3>3. QED
      BY <1>3, <2>3, <3>1, <3>2 DEF Sits
  <2>4. v.pc \in Starting => rpc[d].pc \notin Starting
    BY <1>3, <2>1 DEF Sits, ApiInv, Starters, Starting
  <2>5. v.pc # "start"
    BY <1>3, <2>1 DEF Sits
  <2>6. ASSUME rpc[d].pc = "start", v.pc \in {"check", "settle"} PROVE v.seen.providerCallId = None
    <3>1. gens[v.run].providerCallId = None
      BY <1>3, <2>6 DEF ApiInv, Starters, Starting
    <3>2. ~(rpc[c].pc \in Starting /\ v.run = rpc[c].run)
      BY <1>3, <2>6 DEF ApiInv, Starters, Starting
    <3>3. rpc[c].pc \in {"check", "settle"} /\ v.run = rpc[c].run => rpc[c].seen.providerCallId = None
      BY <1>3, <2>6 DEF ApiInv, Starters, Starting
    <3>4. QED
      BY <1>3, <2>6, <3>1, <3>2, <3>3 DEF Sits
  <2>7. QED
    BY <2>3, <2>4, <2>5, <2>6
<1>4. Agree'
  <2>1. ASSUME NEW d \in Calls, NEW e \in Calls, rpc'[d].pc # "idle", rpc'[e].pc # "idle",
               rpc'[d].run = rpc'[e].run, rpc'[d].status \in Settled, rpc'[e].status \in Settled
        PROVE  rpc'[d].status = rpc'[e].status
    <3>1. CASE d # c /\ e # c
      <4>1. rpc'[d] = rpc[d] /\ rpc'[e] = rpc[e]
        BY <1>1, <3>1
      <4>2. QED
        BY <2>1, <4>1 DEF ApiInv, Agree
    <3>2. CASE d = c /\ e # c
      BY <1>1, <1>3, <2>1, <3>2
    <3>3. CASE d # c /\ e = c
      BY <1>1, <1>3, <2>1, <3>3
    <3>4. QED
      BY <3>1, <3>2, <3>3
  <2>2. QED
    BY <2>1 DEF Agree
<1>5. ASSUME NEW d \in Calls, rpc[d].pc = "start", d # c
      PROVE  gens'[rpc[d].run].providerCallId = None
  <2>1. /\ rpc[d].run \in Runs /\ asked[rpc[d].run] # None /\ gens[rpc[d].run].providerCallId = None
    BY <1>5, CallFacts DEF ApiInv, Starters, Starting
  <2>2. ~(rpc[c].pc = "record" /\ rpc[c].run = rpc[d].run)
    BY <1>5 DEF ApiInv, Starters, Starting
  <2>3. QED
    BY <2>1, <2>2 DEF Keeps
<1>6. Starters'
  <2>1. ASSUME NEW d \in Calls, NEW e \in Calls, rpc'[d].pc \in Starting, rpc'[e].pc # "idle",
               rpc'[d].run = rpc'[e].run
        PROVE  /\ rpc'[e].pc \in Starting => d = e
               /\ rpc'[d].pc = "start" =>
                     /\ gens'[rpc'[d].run].providerCallId = None
                     /\ rpc'[e].pc \in {"check", "settle"} => rpc'[e].seen.providerCallId = None
    <3>1. CASE d # c /\ e # c
      <4>1. rpc'[d] = rpc[d] /\ rpc'[e] = rpc[e]
        BY <1>1, <3>1
      <4>2. /\ rpc[e].pc \in Starting => d = e
            /\ rpc[d].pc = "start" /\ rpc[e].pc \in {"check", "settle"} => rpc[e].seen.providerCallId = None
        BY <2>1, <4>1 DEF ApiInv, Starters
      <4>3. QED
        BY <1>5, <3>1, <4>1, <4>2
    <3>2. CASE d = c /\ e # c
      BY <1>1, <1>3, <2>1, <3>2 DEF Starting
    <3>3. CASE d # c /\ e = c
      <4>1. rpc'[d] = rpc[d] /\ rpc'[e] = v /\ rpc[d].pc # "idle"
        BY <1>1, <2>1, <3>3 DEF Starting
      <4>2. QED
        BY <1>3, <1>5, <2>1, <3>3, <4>1
    <3>4. CASE d = c /\ e = c
      BY <1>1, <2>1, <3>4 DEF Sits, Starting
    <3>5. QED
      BY <3>1, <3>2, <3>3, <3>4
  <2>2. QED
    BY <2>1 DEF Starters
<1>7. QED
  BY <1>2, <1>4, <1>6

\* A step of nobody's call.
LEMMA NobodyMoved ==
    ASSUME ApiInv, \A c \in Calls : Keeps(c), UNCHANGED rpc,
           \A r \in Runs : gens[r].providerCallId = None => gens'[r].providerCallId = None
    PROVE  /\ \A d \in Calls : Sound(rpc[d])'
           /\ Agree' /\ Starters'
<1>1. ASSUME NEW d \in Calls PROVE Sound(rpc[d])'
  BY Stays, SoundAt
<1>2. Agree'
  BY DEF ApiInv, Agree
<1>3. Starters'
  <2>1. \A d \in Calls : rpc[d].pc # "idle" => rpc[d].run \in Runs
    BY CallFacts
  <2>2. QED
    BY <2>1 DEF ApiInv, Starters, Starting
<1>4. QED
  BY <1>1, <1>2, <1>3

-----------------------------------------------------------------------------
(***************************************************************************)
(* Every step keeps the invariant, and replies as it should.               *)
(***************************************************************************)
RepliesSound == AnswerTravels /\ RepliesAgree /\ PollSeesTheEnd /\ NotFoundIsTrue

AllReplies == {None} \cup [call : CallStates, code : Codes, answered : BOOLEAN]

\* The next state is typed but for the clock and the calls, and its rows sound.
Stores ==
    /\ gens' \in [Runs -> Rows] /\ asked' \in [Runs -> Asked \cup {None}] /\ attempts' \subseteq Runs
    /\ provider' \in [Runs -> Ended \cup {"none", "running"}] /\ told' \in [Runs -> Settled \cup {None}]
    /\ reply' \in AllReplies
    /\ \A r \in Runs : RowSound(r)'

Advances(c) ==
    /\ Keeps(c) /\ Stores /\ RepliesSound'
    /\ \E v \in CallStates : rpc' = [rpc EXCEPT ![c] = v] /\ Sits(c, v)

\* A step that replies nothing is sound.
LEMMA NoReply ==
    ASSUME reply' = None
    PROVE  RepliesSound' /\ reply' \in AllReplies
BY DEF RepliesSound, AnswerTravels, RepliesAgree, PollSeesTheEnd, NotFoundIsTrue, Replied, AllReplies

\* A call that moves on replies nothing, and sits in a sound place.
LEMMA MovedOn ==
    ASSUME NEW c \in Calls, NEW v, Moved(c, v)
    PROVE  /\ reply' = None
           /\ \E w \in CallStates : rpc' = [rpc EXCEPT ![c] = w] /\ Sits(c, w)
BY DEF Moved, Goes

\* A step that leaves the tables alone keeps every row and every call sound.
LEMMA QuietStores ==
    ASSUME ApiInv, Quiet, reply' \in AllReplies
    PROVE  Stores /\ \A c \in Calls : Keeps(c)
<1>1. Stores
  BY DEF ApiInv, TypeOK, Quiet, Stores, RowSound
<1>2. ASSUME NEW c \in Calls PROVE Keeps(c)
  BY DEF Quiet, Keeps
<1>3. QED
  BY <1>1, <1>2

\* A call that is over holds nothing.
LEMMA IdleSits ==
    ASSUME NEW c \in Calls
    PROVE  Idle \in CallStates /\ Sits(c, Idle)
BY IdleType DEF Sits, Sound

\* A refused submit keeps the invariant, and its reply is sound.
LEMMA RefusesAdvances ==
    ASSUME ApiInv, NEW c \in Calls, Refuses(c)
    PROVE  Advances(c)
<1>1. PICK call \in CallStates, code \in Codes \ {"OK"} :
          /\ Replies(c, call, code, FALSE)
          /\ call.kind \in {"get", "cancel"} =>
                /\ code = "NOT_FOUND" /\ call.mine => gens[call.run].status = "absent"
                /\ ~call.mine => code \in {"NOT_FOUND", "INTERNAL"}
  BY DEF Refuses
<1>2. Quiet
  BY DEF Refuses
<1>3. PICK w \in CallStates : Alike(w, call) /\ reply' = [call |-> w, code |-> code, answered |-> FALSE]
  BY <1>1 DEF Replies
<1>4. reply'.call = w /\ reply'.code = code /\ code # "OK" /\ reply' \in AllReplies
  BY <1>1, <1>3 DEF AllReplies
<1>5. NotFoundIsTrue'
  BY <1>1, <1>2, <1>3, <1>4 DEF NotFoundIsTrue, Alike, Quiet
<1>6. RepliesSound'
  BY <1>4, <1>5 DEF RepliesSound, AnswerTravels, RepliesAgree, PollSeesTheEnd, Replied
<1>7. rpc' = [rpc EXCEPT ![c] = Idle]
  BY <1>1 DEF Replies
<1>8. QED
  BY <1>2, <1>4, <1>6, <1>7, QuietStores, IdleSits DEF Advances

\* So does every step that only reads.
LEMMA LooksAdvances ==
    ASSUME ApiInv, NEW c \in Calls, Looks(c)
    PROVE  Advances(c)
<1>1. CASE Quiet /\ \E v : Moved(c, v)
  BY <1>1, MovedOn, NoReply, QuietStores DEF Advances
<1>2. QED
  BY <1>1, RefusesAdvances DEF Looks

\* So does a submit: the generation it stores was asked for by nobody before.
LEMMA SubmitAdvances ==
    ASSUME ApiInv, NEW c \in Calls, Submit(c)
    PROVE  Advances(c)
<1>1. CASE Refuses(c) \/ (Quiet /\ \E v : Moved(c, v))
  BY <1>1, LooksAdvances DEF Looks
<1>2. ASSUME NEW r \in Runs, NEW request \in Asked,
             asked[r] = None, asked' = [asked EXCEPT ![r] = request],
             gens' = [gens EXCEPT ![r] = PendingRow(now, request.stream)],
             UNCHANGED <<attempts, provider, told>>,
             \E v : /\ Goes(c, v) /\ v.pc = "start" /\ v.kind = "submit" /\ v.mine /\ v.run = r
                    /\ v.status = "pending" /\ v.before = None
                    /\ v.seen = PendingRow(now, request.stream)
      PROVE  Advances(c)
  <2> DEFINE row == PendingRow(now, request.stream)
  <2>1. row \in Rows
    <3>1. now \in Instants /\ request.stream \in BOOLEAN
      BY ApiAssumption DEF ApiInv, TypeOK, Instants, Requests
    <3>2. QED
      BY <3>1, PendingType
  <2>2. row.status = "pending" /\ row.settledAt = None /\ row.providerCallId = None
    BY DEF PendingRow
  <2>3. PICK v : /\ Goes(c, v) /\ v.pc = "start" /\ v.kind = "submit" /\ v.mine /\ v.run = r
                 /\ v.status = "pending" /\ v.before = None /\ v.seen = row
    BY <1>2
  <2>4. gens' = [gens EXCEPT ![r] = row]
    BY <1>2
  <2> HIDE DEF row
  <2>5. /\ gens'[r] = row /\ asked'[r] = request /\ request # None
        /\ \A q \in Runs \ {r} : gens'[q] = gens[q] /\ asked'[q] = asked[q]
    BY <1>2, <2>4, ApiAssumption DEF ApiInv, TypeOK
  <2>6. Keeps(c)
    BY <1>2, <2>5 DEF Keeps
  <2>7. Stores
    <3>1. /\ gens' \in [Runs -> Rows] /\ asked' \in [Runs -> Asked \cup {None}] /\ attempts' \subseteq Runs
          /\ provider' \in [Runs -> Ended \cup {"none", "running"}] /\ told' \in [Runs -> Settled \cup {None}]
      BY <1>2, <2>1, <2>4 DEF ApiInv, TypeOK
    <3>2. ASSUME NEW q \in Runs PROVE RowSound(q)'
      <4>1. RowSound(q)
        BY DEF ApiInv
      <4>2. CASE q = r
        BY <1>2, <2>2, <2>5, <4>1, <4>2 DEF RowSound, Settled
      <4>3. CASE q # r
        BY <1>2, <2>5, <4>1, <4>3 DEF RowSound
      <4>4. QED
        BY <4>2, <4>3
    <3>3. QED
      BY <2>3, <3>1, <3>2, NoReply DEF Goes, Stores
  <2>8. Sits(c, v)
    <3>1. Placed(v)' /\ Fenced(v)'
      BY <2>2, <2>3, <2>5 DEF Placed, Fenced, Fences, Live
    <3>2. Final(v)' /\ Remembers(v)' /\ Polls(v)'
      BY <2>3 DEF Final, Remembers, Polls, Settled
    <3>3. QED
      BY <1>2, <2>2, <2>3, <2>5, <3>1, <3>2 DEF Sits, Sound, Settled
  <2>9. QED
    BY <2>3, <2>6, <2>7, <2>8, NoReply DEF Advances, Goes
<1>3. QED
  BY <1>1, <1>2, SubmitEffect

\* So does a start: no other call of its generation saw a call recorded.
LEMMA StartAdvances ==
    ASSUME ApiInv, NEW c \in Calls, Start(c)
    PROVE  Advances(c)
<1>1. /\ rpc[c].pc = "start" /\ UNCHANGED <<gens, asked, attempts, told>>
      /\ provider' \in {provider, [provider EXCEPT ![rpc[c].run] = "running"]}
      /\ \E v : Moved(c, v)
  BY StartEffect
<1>2. rpc[c].run \in Runs
  BY <1>1, CallFacts
<1>3. provider' \in [Runs -> Ended \cup {"none", "running"}]
  BY <1>1, <1>2 DEF ApiInv, TypeOK
<1>4. \A r \in Runs \ {rpc[c].run} : provider'[r] = provider[r]
  BY <1>1, <1>2 DEF ApiInv, TypeOK
<1>5. Keeps(c)
  BY <1>1, <1>4 DEF Keeps
<1>6. Stores
  BY <1>1, <1>3, MovedOn, NoReply DEF Stores, ApiInv, TypeOK, RowSound
<1>7. QED
  BY <1>1, <1>5, <1>6, MovedOn, NoReply DEF Advances

\* A statement that writes the row of a generation that goes on.
LEMMA RowWritten ==
    ASSUME ApiInv, NEW c \in Calls, NEW r \in Runs, NEW row \in Rows,
           gens' = [gens EXCEPT ![r] = row], UNCHANGED <<asked, provider, told>>, reply' = None,
           gens[r].status \in Live, row.status # "absent",
           row.settledAt # None <=> row.status \in Settled,
           row.startRequestedAt = gens[r].startRequestedAt,
           gens[r].providerCallId # None => row.providerCallId = gens[r].providerCallId,
           \/ row.providerCallId = gens[r].providerCallId
           \/ rpc[c].pc = "record" /\ rpc[c].run = r,
           attempts' \subseteq Runs, attempts \subseteq attempts',
           row.status = "succeeded" => r \in attempts'
    PROVE  Keeps(c) /\ Stores
<1>1. gens'[r] = row /\ \A q \in Runs \ {r} : gens'[q] = gens[q]
  BY DEF ApiInv, TypeOK
<1>2. gens[r].status \notin Settled /\ gens[r].status # "absent"
  BY DEF Live, Settled
<1>3. Keeps(c)
  BY <1>1, <1>2 DEF Keeps
<1>4. told[r] = None /\ asked[r] # None
  BY <1>2, RunFacts DEF RowSound
<1>5. ASSUME NEW q \in Runs PROVE RowSound(q)'
  <2>1. RowSound(q)
    BY DEF ApiInv
  <2>2. CASE q = r
    BY <1>1, <1>4, <2>2 DEF RowSound
  <2>3. CASE q # r
    BY <1>1, <2>1, <2>3 DEF RowSound
  <2>4. QED
    BY <2>2, <2>3
<1>6. Stores
  BY <1>5, NoReply DEF Stores, ApiInv, TypeOK
<1>7. QED
  BY <1>3, <1>6

\* So does the id write: checks that fence on no call find the row changed.
LEMMA RecordAdvances ==
    ASSUME ApiInv, NEW c \in Calls, Record(c)
    PROVE  Advances(c)
<1> DEFINE r   == rpc[c].run
           row == RecordProviderCall(gens[r])
<1>1. /\ rpc[c].pc = "record" /\ UNCHANGED <<asked, attempts, told>>
      /\ \/ gens' = [gens EXCEPT ![r] = row] /\ RecordMatches(gens[r]) /\ provider' = provider
         \/ /\ gens' = gens
            /\ provider' = [provider EXCEPT ![r] = IF @ = "running" THEN "stopped" ELSE @]
      /\ \E v : Moved(c, v)
  BY RecordStep
<1>2. /\ r \in Runs /\ gens[r] \in Rows /\ RowSound(r)
  BY <1>1, CallFacts, RunFacts
<1>3. reply' = None
  BY <1>1, MovedOn
<1>4. CASE gens' = [gens EXCEPT ![r] = row] /\ RecordMatches(gens[r]) /\ provider' = provider
  <2>1. /\ row \in Rows /\ row.status = "running" /\ row.providerCallId = CallId
        /\ row.startRequestedAt = gens[r].startRequestedAt /\ row.settledAt = gens[r].settledAt
    BY <1>2, RecordEffect
  <2>2. gens[r].status \in Live /\ gens[r].settledAt = None
    BY <1>2, <1>4 DEF RecordMatches, RowSound, Live, Settled
  <2>3. gens[r].providerCallId \in {CallId, None}
    BY <1>2 DEF Rows
  <2> HIDE DEF row
  <2>4. Keeps(c) /\ Stores
    <3>1. row.settledAt # None <=> row.status \in Settled
      BY <2>1, <2>2 DEF Settled
    <3>2. attempts' \subseteq Runs /\ attempts \subseteq attempts'
      BY <1>1 DEF ApiInv, TypeOK
    <3>3. QED
      BY <1>1, <1>2, <1>3, <1>4, <2>1, <2>2, <2>3, <3>1, <3>2, RowWritten
  <2>5. QED
    BY <1>1, <2>4, MovedOn, NoReply DEF Advances
<1>5. CASE /\ gens' = gens
           /\ provider' = [provider EXCEPT ![r] = IF @ = "running" THEN "stopped" ELSE @]
  <2>1. provider' \in [Runs -> Ended \cup {"none", "running"}]
    BY <1>2, <1>5 DEF ApiInv, TypeOK, Ended
  <2>2. \A q \in Runs : provider[q] \in Ended => provider'[q] \in Ended
    BY <1>2, <1>5 DEF ApiInv, TypeOK, Ended
  <2>3. Keeps(c)
    BY <1>1, <1>5, <2>2 DEF Keeps
  <2>4. Stores
    BY <1>1, <1>3, <1>5, <2>1, NoReply DEF Stores, ApiInv, TypeOK, RowSound
  <2>5. QED
    BY <1>1, <2>3, <2>4, MovedOn, NoReply DEF Advances
<1>6. QED
  BY <1>1, <1>4, <1>5

\* So does a cancel: it settles only what was never started.
LEMMA CancelAdvances ==
    ASSUME ApiInv, NEW c \in Calls, Cancel(c)
    PROVE  Advances(c)
<1>1. CASE Looks(c)
  BY <1>1, LooksAdvances
<1>2. ASSUME NEW r \in Runs, gens[r].status \in Live, gens' = [gens EXCEPT ![r] = RequestCancel(gens[r], now)],
             UNCHANGED <<asked, attempts, provider, told>>, \E v : Moved(c, v)
      PROVE  Advances(c)
  <2> DEFINE row == RequestCancel(gens[r], now)
  <2>1. gens[r] \in Rows /\ RowSound(r) /\ now \in Nat
    BY RunFacts
  <2>2. gens[r].settledAt = None
    BY <1>2, <2>1 DEF RowSound, Live, Settled
  <2>3. /\ row \in Rows /\ row.status \in {gens[r].status, "cancelled"}
        /\ (row.settledAt # None <=> row.status = "cancelled")
        /\ row.startRequestedAt = gens[r].startRequestedAt /\ row.providerCallId = gens[r].providerCallId
    BY <1>2, <2>1, <2>2, CancelEffect
  <2>4. gens' = [gens EXCEPT ![r] = row]
    BY <1>2
  <2> HIDE DEF row
  <2>5. /\ row.status # "absent" /\ row.status # "succeeded"
        /\ (row.settledAt # None <=> row.status \in Settled)
    BY <1>2, <2>3 DEF Live, Settled
  <2>6. attempts' \subseteq Runs /\ attempts \subseteq attempts' /\ reply' = None
    BY <1>2, MovedOn DEF ApiInv, TypeOK
  <2>7. Keeps(c) /\ Stores
    BY <1>2, <2>3, <2>4, <2>5, <2>6, RowWritten
  <2>8. QED
    BY <1>2, <2>7, MovedOn, NoReply DEF Advances
<1>3. QED
  BY <1>1, <1>2, CancelCallEffect

\* So does a stop at the provider.
LEMMA AskAdvances ==
    ASSUME ApiInv, NEW c \in Calls, Ask(c)
    PROVE  Advances(c)
<1>1. CASE Looks(c)
  BY <1>1, LooksAdvances
<1>2. ASSUME UNCHANGED <<gens, asked, attempts, told>>, NEW state \in Ended,
             provider' = [provider EXCEPT ![rpc[c].run] = state], \E v : Moved(c, v)
      PROVE  Advances(c)
  <2>1. provider' \in [Runs -> Ended \cup {"none", "running"}]
    BY <1>2 DEF ApiInv, TypeOK
  <2>2. \A q \in Runs : provider[q] \in Ended => provider'[q] \in Ended
    BY <1>2 DEF ApiInv, TypeOK
  <2>3. Keeps(c)
    BY <1>2, <2>2 DEF Keeps
  <2>4. Stores
    BY <1>2, <2>1, MovedOn, NoReply DEF Stores, ApiInv, TypeOK, RowSound
  <2>5. QED
    BY <1>2, <2>3, <2>4, MovedOn, NoReply DEF Advances
<1>3. QED
  BY <1>1, <1>2, AskEffect

\* So does a settle: nobody held another end of its generation.
LEMMA SettleCallAdvances ==
    ASSUME ApiInv, NEW c \in Calls, SettleCall(c)
    PROVE  Advances(c)
<1> DEFINE r == rpc[c].run
<1>1. CASE Looks(c)
  BY <1>1, LooksAdvances
<1>2. ASSUME r \in Runs, gens[r].status \in Live, NEW plan \in Plans,
             gens' = [gens EXCEPT ![r] = Settle(gens[r], plan, now)],
             attempts' = IF Answered(plan) THEN attempts \cup {r} ELSE attempts,
             UNCHANGED <<asked, provider, told>>, \E v : Moved(c, v)
      PROVE  Advances(c)
  <2> DEFINE row == Settle(gens[r], plan, now)
  <2>1. gens[r] \in Rows /\ now \in Nat /\ now # None
    BY <1>2, RunFacts, NoneAssumption
  <2>2. /\ row \in Rows /\ row.status = plan.status /\ row.settledAt = now
        /\ row.startRequestedAt = gens[r].startRequestedAt /\ row.providerCallId = gens[r].providerCallId
    BY <2>1, SettleEffect
  <2>3. gens' = [gens EXCEPT ![r] = row]
    BY <1>2
  <2> HIDE DEF row
  <2>4. plan.status \in Settled /\ (plan.status = "succeeded" => Answered(plan))
    BY PlanType
  <2>5. /\ row.status # "absent" /\ (row.settledAt # None <=> row.status \in Settled)
        /\ row.status = "succeeded" => r \in attempts'
    BY <1>2, <2>1, <2>2, <2>4 DEF Settled
  <2>6. attempts' \subseteq Runs /\ attempts \subseteq attempts' /\ reply' = None
    BY <1>2, MovedOn DEF ApiInv, TypeOK
  <2> HIDE DEF r
  <2>7. Keeps(c) /\ Stores
    BY <1>2, <2>2, <2>3, <2>5, <2>6, RowWritten
  <2>8. QED
    BY <1>2, <2>7, MovedOn, NoReply DEF Advances
<1>3. QED
  BY <1>1, <1>2, SettleCallEffect

\* So does the list: what it replies is what the row says, and is remembered.
LEMMA ListAdvances ==
    ASSUME ApiInv, NEW c \in Calls, List(c)
    PROVE  Advances(c)
<1> DEFINE call == rpc[c]
           r    == rpc[c].run
<1>1. /\ call.pc = "list" /\ UNCHANGED <<gens, asked, attempts, provider>>
      /\ Replies(c, call, "OK", call.status \in Settled /\ r \in attempts)
      /\ told' = IF call.status \in Settled /\ told[r] = None THEN [told EXCEPT ![r] = call.status] ELSE told
  BY ListEffect
<1>2. /\ call \in CallStates /\ r \in Runs /\ asked[r] # None /\ RowSound(r)
      /\ Placed(call) /\ Final(call) /\ Remembers(call) /\ Polls(call)
      /\ told[r] \in Settled \cup {None} /\ None \notin Settled
  BY <1>1, CallFacts, RunFacts
<1>3. /\ told' \in [Runs -> Settled \cup {None}]
      /\ \A q \in Runs : told'[q] # told[q] =>
            q = r /\ told[r] = None /\ call.status \in Settled /\ told'[r] = call.status
      /\ call.status \in Settled => told'[r] = call.status
  <2>1. CASE call.status \in Settled /\ told[r] = None
    <3>1. told' = [told EXCEPT ![r] = call.status]
      BY <1>1, <2>1
    <3>2. QED
      BY <1>2, <2>1, <3>1 DEF ApiInv, TypeOK
  <2>2. CASE ~(call.status \in Settled /\ told[r] = None)
    <3>1. told' = told
      BY <1>1, <2>2
    <3>2. QED
      BY <1>2, <2>2, <3>1 DEF ApiInv, TypeOK, Final
  <2>3. QED
    BY <2>1, <2>2
<1>4. PICK answered \in BOOLEAN : answered = (call.status \in Settled /\ r \in attempts)
  OBVIOUS
<1>5. Replies(c, call, "OK", answered)
  BY <1>1, <1>4, Zenon
<1>6. PICK w \in CallStates : Alike(w, call) /\ reply' = [call |-> w, code |-> "OK", answered |-> answered]
  BY <1>5 DEF Replies
<1>7. /\ reply'.call = w /\ reply'.answered = answered /\ reply' \in AllReplies
      /\ w.run = r /\ w.status = call.status /\ w.before = call.before /\ w.kind = call.kind
      /\ w.due = call.due /\ w.missed = call.missed /\ w.mine = call.mine
  BY <1>6 DEF AllReplies, Alike, Codes
<1>8. Keeps(c)
  BY <1>1, <1>2, <1>3 DEF Keeps
<1>9. ASSUME NEW q \in Runs PROVE RowSound(q)'
  <2>1. RowSound(q)
    BY DEF ApiInv
  <2>2. CASE told'[q] = told[q]
    BY <1>1, <2>1, <2>2 DEF RowSound
  <2>3. CASE told'[q] # told[q]
    BY <1>1, <1>2, <1>3, <2>1, <2>3 DEF RowSound, Final
  <2>4. QED
    BY <2>2, <2>3
<1>10. Stores
  BY <1>1, <1>3, <1>7, <1>9 DEF Stores, ApiInv, TypeOK
<1>11. RepliesSound'
  <2>1. AnswerTravels'
    BY <1>1, <1>2, <1>4, <1>7 DEF AnswerTravels, RowSound, Final, Settled
  <2>2. RepliesAgree'
    BY <1>1, <1>2, <1>3, <1>7 DEF RepliesAgree, Remembers, Final
  <2>3. PollSeesTheEnd'
    BY <1>1, <1>2, <1>7 DEF PollSeesTheEnd, Polls
  <2>4. NotFoundIsTrue'
    BY <1>1, <1>2, <1>6, <1>7 DEF NotFoundIsTrue, Placed
  <2>5. QED
    BY <2>1, <2>2, <2>3, <2>4 DEF RepliesSound
<1>12. rpc' = [rpc EXCEPT ![c] = Idle]
  BY <1>1 DEF Replies
<1>13. QED
  BY <1>8, <1>10, <1>11, <1>12, IdleSits DEF Advances

\* So does every step of a call.
LEMMA ServeAdvances ==
    ASSUME ApiInv, NEW c \in Calls, Serve(c) \/ Lose(c)
    PROVE  Advances(c) /\ now' = now
<1>1. now' = now
  <2>1. CASE Submit(c) \/ Start(c) \/ Record(c)
    BY <2>1 DEF Submit, Start, Record
  <2>2. CASE Get(c) \/ Cancel(c) \/ ReadFails(c) \/ Unmarked(c)
    BY <2>2 DEF Get, Cancel, ReadFails, Unmarked
  <2>3. CASE CheckIntent(c) \/ Ask(c) \/ Unanswered(c) \/ SettleCall(c) \/ Reread(c) \/ CheckFails(c)
    BY <2>3 DEF CheckIntent, Ask, Unanswered, SettleCall, Reread, CheckFails
  <2>4. CASE List(c) \/ ListFails(c) \/ Lose(c)
    BY <2>4 DEF List, ListFails, Lose
  <2>5. QED
    BY <2>1, <2>2, <2>3, <2>4 DEF Serve
<1>2. CASE Submit(c)
  BY <1>1, <1>2, SubmitAdvances
<1>3. CASE Start(c)
  BY <1>1, <1>3, StartAdvances
<1>4. CASE Record(c)
  BY <1>1, <1>4, RecordAdvances
<1>5. CASE Get(c)
  BY <1>1, <1>5, GetEffect, LooksAdvances
<1>6. CASE Cancel(c)
  BY <1>1, <1>6, CancelAdvances
<1>7. CASE ReadFails(c)
  BY <1>1, <1>7, ReadFailsEffect, LooksAdvances
<1>8. CASE Unmarked(c)
  BY <1>1, <1>8, UnmarkedEffect, LooksAdvances
<1>9. CASE CheckIntent(c)
  BY <1>1, <1>9, CheckIntentEffect, LooksAdvances
<1>10. CASE Ask(c)
  BY <1>1, <1>10, AskAdvances
<1>11. CASE Unanswered(c)
  BY <1>1, <1>11, UnansweredEffect, LooksAdvances
<1>12. CASE SettleCall(c)
  BY <1>1, <1>12, SettleCallAdvances
<1>13. CASE Reread(c)
  BY <1>1, <1>13, RereadEffect, LooksAdvances
<1>14. CASE CheckFails(c)
  BY <1>1, <1>14, CheckFailsEffect, LooksAdvances
<1>15. CASE List(c)
  BY <1>1, <1>15, ListAdvances
<1>16. CASE ListFails(c)
  BY <1>1, <1>16, ListFailsEffect, LooksAdvances
<1>17. CASE Lose(c)
  BY <1>1, <1>17, LoseEffect, LooksAdvances
<1>18. QED
  BY <1>1, <1>2, <1>3, <1>4, <1>5, <1>6, <1>7, <1>8, <1>9, <1>10, <1>11, <1>12, <1>13, <1>14, <1>15, <1>16,
     <1>17 DEF Serve

\* With no call made, every part holds.
LEMMA ApiInit ==
    ASSUME Init
    PROVE  ApiInv /\ RepliesSound
<1>1. Idle \in CallStates /\ AbsentRow \in Rows /\ Idle.pc = "idle"
  BY IdleType, PendingType DEF Instants
<1>2. AbsentRow.status = "absent" /\ AbsentRow.settledAt = None
  BY DEF AbsentRow, PendingRow
<1>3. /\ \A c \in Calls : rpc[c].pc = "idle" /\ rpc[c] \in CallStates
      /\ \A r \in Runs : asked[r] = None /\ told[r] = None /\ gens[r] = AbsentRow
      /\ reply = None
  BY <1>1 DEF Init
<1>4. TypeOK
  BY <1>1 DEF Init, TypeOK
<1>5. \A r \in Runs : RowSound(r)
  BY <1>2, <1>3 DEF RowSound, Settled
<1>6. (\A c \in Calls : Sound(rpc[c])) /\ Agree /\ Starters
  BY <1>3 DEF Sound, Agree, Starters, Starting
<1>7. RepliesSound
  BY <1>3 DEF RepliesSound, AnswerTravels, RepliesAgree, PollSeesTheEnd, NotFoundIsTrue, Replied
<1>8. QED
  BY <1>4, <1>5, <1>6, <1>7 DEF ApiInv

\* A step of nobody's call, with the calls it leaves.
LEMMA NobodyAdvances ==
    ASSUME ApiInv, ProviderEnds \/ Purge \/ Tick
    PROVE  Stores /\ UNCHANGED rpc /\ RepliesSound' /\ now' \in Nat /\ (\A c \in Calls : Keeps(c))
           /\ \A r \in Runs : gens[r].providerCallId = None => gens'[r].providerCallId = None
<1>1. CASE ProviderEnds
  <2>1. PICK r \in Runs, state \in {"finished", "failed"} :
            provider[r] = "running" /\ provider' = [provider EXCEPT ![r] = state]
    BY <1>1 DEF ProviderEnds
  <2>2. UNCHANGED <<now, gens, asked, attempts, rpc, told>> /\ reply' = None
    BY <1>1 DEF ProviderEnds
  <2>3. /\ provider' \in [Runs -> Ended \cup {"none", "running"}]
        /\ \A q \in Runs : provider[q] \in Ended => provider'[q] \in Ended
    BY <2>1 DEF ApiInv, TypeOK, Ended
  <2>4. \A c \in Calls : Keeps(c)
    BY <2>2, <2>3 DEF Keeps
  <2>5. Stores
    BY <2>2, <2>3, NoReply DEF Stores, ApiInv, TypeOK, RowSound
  <2>6. QED
    BY <2>2, <2>4, <2>5, NoReply DEF ApiInv, TypeOK
<1>2. CASE Purge
  <2>1. PICK r \in Runs : gens' = [gens EXCEPT ![r] = AbsentRow] /\ attempts' = attempts \ {r}
    BY <1>2 DEF Purge
  <2>2. UNCHANGED <<now, asked, provider, rpc, told>> /\ reply' = None
    BY <1>2 DEF Purge
  <2>3. /\ AbsentRow \in Rows /\ AbsentRow.status = "absent" /\ AbsentRow.settledAt = None
        /\ AbsentRow.providerCallId = None
    BY PendingType DEF Instants, AbsentRow, PendingRow
  <2>4. gens'[r] = AbsentRow /\ \A q \in Runs \ {r} : gens'[q] = gens[q]
    BY <2>1 DEF ApiInv, TypeOK
  <2>5. \A c \in Calls : Keeps(c)
    BY <2>2, <2>3, <2>4 DEF Keeps
  <2>6. ASSUME NEW q \in Runs PROVE RowSound(q)'
    <3>1. RowSound(q)
      BY DEF ApiInv
    <3>2. CASE q = r
      BY <2>2, <2>3, <2>4, <3>1, <3>2 DEF RowSound, Settled
    <3>3. CASE q # r
      BY <2>1, <2>2, <2>4, <3>1, <3>3 DEF RowSound
    <3>4. QED
      BY <3>2, <3>3
  <2>7. gens' \in [Runs -> Rows] /\ attempts' \subseteq Runs
    BY <2>1, <2>3 DEF ApiInv, TypeOK
  <2>8. Stores
    BY <2>2, <2>6, <2>7, NoReply DEF Stores, ApiInv, TypeOK
  <2>9. \A q \in Runs : gens[q].providerCallId = None => gens'[q].providerCallId = None
    BY <2>3, <2>4
  <2>10. QED
    BY <2>2, <2>5, <2>8, <2>9, NoReply DEF ApiInv, TypeOK
<1>3. CASE Tick
  <2>1. UNCHANGED <<gens, asked, attempts, provider, rpc, told>> /\ reply' = None /\ now' = now + 1
    BY <1>3 DEF Tick
  <2>2. Quiet
    BY <2>1 DEF Quiet
  <2>3. QED
    BY <2>1, <2>2, NoReply, QuietStores DEF ApiInv, TypeOK
<1>4. QED
  BY <1>1, <1>2, <1>3

\* Every step preserves every part, and replies soundly.
LEMMA ApiStep ==
    ASSUME ApiInv, RepliesSound, [Next]_vars
    PROVE  ApiInv' /\ RepliesSound'
<1>1. ASSUME NEW c \in Calls, Serve(c) \/ Lose(c)
      PROVE  ApiInv' /\ RepliesSound'
  <2>1. Keeps(c) /\ Stores /\ RepliesSound' /\ now' = now
    BY <1>1, ServeAdvances DEF Advances
  <2>2. PICK v \in CallStates : rpc' = [rpc EXCEPT ![c] = v] /\ Sits(c, v)
    BY <1>1, ServeAdvances DEF Advances
  <2>3. (\A d \in Calls : Sound(rpc[d])') /\ Agree' /\ Starters'
    BY <2>1, <2>2, CallsKept
  <2>4. TypeOK'
    BY <2>1, <2>2 DEF ApiInv, TypeOK, Stores, AllReplies
  <2>5. QED
    BY <2>1, <2>3, <2>4 DEF ApiInv, Stores
<1>2. CASE ProviderEnds \/ Purge \/ Tick
  <2>1. /\ Stores /\ UNCHANGED rpc /\ RepliesSound' /\ now' \in Nat /\ (\A c \in Calls : Keeps(c))
        /\ \A r \in Runs : gens[r].providerCallId = None => gens'[r].providerCallId = None
    BY <1>2, NobodyAdvances
  <2>2. (\A d \in Calls : Sound(rpc[d])') /\ Agree' /\ Starters'
    BY <2>1, NobodyMoved
  <2>3. TypeOK'
    BY <2>1 DEF ApiInv, TypeOK, Stores, AllReplies
  <2>4. QED
    BY <2>1, <2>2, <2>3 DEF ApiInv, Stores
<1>3. CASE UNCHANGED vars
  <2>1. UNCHANGED <<now, gens, asked, attempts, provider, rpc, reply, told>>
    BY <1>3 DEF vars
  <2>2. reply \in AllReplies
    BY DEF ApiInv, TypeOK, AllReplies
  <2>3. Quiet /\ reply' \in AllReplies
    BY <2>1, <2>2 DEF Quiet
  <2>4. Stores /\ \A c \in Calls : Keeps(c)
    BY <2>3, QuietStores
  <2>5. (\A d \in Calls : Sound(rpc[d])') /\ Agree' /\ Starters'
    BY <2>1, <2>4, NobodyMoved
  <2>6. TypeOK'
    BY <2>1 DEF ApiInv, TypeOK
  <2>7. RepliesSound'
    BY <2>1 DEF RepliesSound, AnswerTravels, RepliesAgree, PollSeesTheEnd, NotFoundIsTrue, Replied
  <2>8. QED
    BY <2>4, <2>5, <2>6, <2>7 DEF ApiInv, Stores
<1>4. QED
  BY <1>1, <1>2, <1>3 DEF Next

\* Whatever calls are in flight, a stored row is as its callers were told, and a call holds of its generation
\* only what is stored or was purged since: the calls of generationGet.go, generationCancel.go and
\* generationSubmit.go, and the checks they make.
THEOREM ApiInvariant == Spec => [](ApiInv /\ RepliesSound)
<1>1. Init => ApiInv /\ RepliesSound
  BY ApiInit
<1>2. (ApiInv /\ RepliesSound) /\ [Next]_vars => (ApiInv /\ RepliesSound)'
  BY ApiStep
<1>3. QED
  BY <1>1, <1>2, PTL DEF Spec

\* Every variable keeps its type: each statement of internal/dao that a call sends writes a row of the table.
THEOREM ApiTypes == Spec => []TypeOK
<1>1. ApiInv /\ RepliesSound => TypeOK
  BY DEF ApiInv
<1>2. QED
  BY <1>1, ApiInvariant, PTL

\* A reply that says succeeded lacks its answer only once the purge took the generation: the row and the
\* answers are two reads of generationGet.go, and a settle writes both in one transaction.
THEOREM AnswersTravel == Spec => []AnswerTravels
<1>1. ApiInv /\ RepliesSound => AnswerTravels
  BY DEF RepliesSound
<1>2. QED
  BY <1>1, ApiInvariant, PTL

\* Every reply that says how a generation ended says the same: no two checks of generationCheck.go settle it
\* twice, and a call made after one reply finds the same end.
THEOREM CallersAgree == Spec => []RepliesAgree
<1>1. ApiInv /\ RepliesSound => RepliesAgree
  BY DEF RepliesSound
<1>2. QED
  BY <1>1, ApiInvariant, PTL

\* A poll made after its recorded call was over returns the settled generation, whichever check settled it,
\* unless the poll's own check failed.
THEOREM PollsSeeTheEnd == Spec => []PollSeesTheEnd
<1>1. ApiInv /\ RepliesSound => PollSeesTheEnd
  BY DEF RepliesSound
<1>2. QED
  BY <1>1, ApiInvariant, PTL

\* An owner is told a generation does not exist only when no row is stored, and a stranger never that it does:
\* the owner-scoped read after a cancel that marked nothing tells the two apart.
THEOREM NotFoundWhenAbsent == Spec => []NotFoundIsTrue
<1>1. ApiInv /\ RepliesSound => NotFoundIsTrue
  BY DEF RepliesSound
<1>2. QED
  BY <1>1, ApiInvariant, PTL

-----------------------------------------------------------------------------
(***************************************************************************)
(* Whose generation answers a submit.                                      *)
(***************************************************************************)
\* A submit holds a generation created for what it asks for.
Answers(call, created) ==
    call.kind = "submit" =>
        /\ call.run \in Runs /\ created[call.run] # None
        /\ Content(call.request) = Content(created[call.run])

\* Generations are created for valid requests, and no submit goes on with another's.
OwnInv ==
    /\ \A r \in Runs : asked[r] # None => asked[r] \in ValidRequests
    /\ \A c \in Calls : rpc[c].pc # "idle" => Answers(rpc[c], asked)
    /\ reply # None /\ reply.code = "OK" => Answers(reply.call, asked)

\* A call as another, but for what a check learns.
Like(v, call) ==
    /\ {"kind", "run", "request"} \subseteq DOMAIN v
    /\ v.kind = call.kind /\ v.run = call.run /\ v.request = call.request

\* The step leaves its call, or its reply, with the request and the generation it had.
Carries(c, call) ==
    \E v : /\ Like(v, call)
           /\ \/ rpc' = [rpc EXCEPT ![c] = v] /\ reply' = None
              \/ /\ rpc' = [rpc EXCEPT ![c] = Idle]
                 /\ \E code, answered : reply' = [call |-> v, code |-> code, answered |-> answered]

\* A call goes on with its own.
LEMMA StepCarries ==
    ASSUME NEW c \in Calls, NEW call, NEW v, Like(v, call), Step(c, v)
    PROVE  Carries(c, call)
<1>1. Like(Past(v), call)
  BY DEF Like, Past
<1>2. CASE v.pc = "list"
  BY <1>1, <1>2 DEF Step, Carries
<1>3. CASE v.pc # "list"
  BY <1>3 DEF Step, Carries
<1>4. QED
  BY <1>2, <1>3

\* A reply, or a refusal, is the call's own.
LEMMA ReplyCarries ==
    ASSUME NEW c \in Calls, NEW call, NEW v, Like(v, call), NEW code, NEW answered, Reply(c, v, code, answered)
    PROVE  Carries(c, call)
<1>1. Like(Past(v), call)
  BY DEF Like, Past
<1>2. QED
  BY <1>1 DEF Reply, Carries

LEMMA RefuseCarries ==
    ASSUME NEW c \in Calls, NEW call, NEW v, Like(v, call), NEW error, Refuse(c, v, error)
    PROVE  Carries(c, call)
BY ReplyCarries DEF Refuse

\* A call is like itself, whatever its place, its check and its outcome.
LEMMA LikeItself ==
    ASSUME TypeOK, NEW c \in Calls
    PROVE  /\ Like(rpc[c], rpc[c])
           /\ \A pc : Like([rpc[c] EXCEPT !.pc = pc], rpc[c])
           /\ \A pc, plan : Like([rpc[c] EXCEPT !.pc = pc, !.plan = plan], rpc[c])
           /\ \A pc, status : Like([rpc[c] EXCEPT !.pc = pc, !.status = status], rpc[c])
           /\ \A pc, missed : Like([rpc[c] EXCEPT !.pc = pc, !.missed = missed], rpc[c])
           /\ \A pc, status, missed : Like([rpc[c] EXCEPT !.pc = pc, !.status = status, !.missed = missed], rpc[c])
           /\ \A pc, seen, at : Like([rpc[c] EXCEPT !.pc = pc, !.seen = seen, !.readAt = at], rpc[c])
           /\ \A pc, status, seen, at :
                 Like([rpc[c] EXCEPT !.pc = pc, !.status = status, !.seen = seen, !.readAt = at], rpc[c])
<1>1. rpc[c] \in CallStates
  BY DEF TypeOK
<1> DEFINE call == rpc[c]
<1>2. {"kind", "run", "request"} \subseteq DOMAIN call
  BY <1>1 DEF CallStates
<1> HIDE DEF call
<1>3. /\ Like(call, call)
      /\ \A pc : Like([call EXCEPT !.pc = pc], call)
      /\ \A pc, plan : Like([call EXCEPT !.pc = pc, !.plan = plan], call)
      /\ \A pc, status : Like([call EXCEPT !.pc = pc, !.status = status], call)
      /\ \A pc, missed : Like([call EXCEPT !.pc = pc, !.missed = missed], call)
  BY <1>2 DEF Like
<1>4. /\ \A pc, status, missed : Like([call EXCEPT !.pc = pc, !.status = status, !.missed = missed], call)
      /\ \A pc, seen, at : Like([call EXCEPT !.pc = pc, !.seen = seen, !.readAt = at], call)
      /\ \A pc, status, seen, at :
            Like([call EXCEPT !.pc = pc, !.status = status, !.seen = seen, !.readAt = at], call)
  BY <1>2 DEF Like
<1>5. QED
  BY <1>3, <1>4 DEF call

\* A check, its reply and its loss leave a call its own, and create nothing.
LEMMA ChecksCarry ==
    ASSUME TypeOK, NEW c \in Calls, rpc[c].pc # "idle",
           \/ Start(c) \/ Record(c) \/ Unmarked(c) \/ CheckIntent(c) \/ Ask(c) \/ Unanswered(c)
           \/ SettleCall(c) \/ Reread(c) \/ CheckFails(c) \/ List(c) \/ ListFails(c)
    PROVE  asked' = asked /\ Carries(c, rpc[c])
<1>1. ASSUME NEW row, Checked(c, row) PROVE Carries(c, rpc[c])
  <2>1. Like([rpc[c] EXCEPT !.pc = "list", !.status = row.status], rpc[c])
    BY LikeItself
  <2>2. QED
    BY <1>1, <2>1, StepCarries DEF Checked
<1>2. ASSUME Unchecked(c) PROVE Carries(c, rpc[c])
  <2>1. Like([rpc[c] EXCEPT !.pc = "list", !.missed = TRUE], rpc[c])
    BY LikeItself
  <2>2. QED
    BY <1>2, <2>1, StepCarries DEF Unchecked
<1>3. ASSUME NEW error, Refuse(c, rpc[c], error) PROVE Carries(c, rpc[c])
  BY <1>3, LikeItself, RefuseCarries
<1>4. ASSUME NEW pc, Step(c, [rpc[c] EXCEPT !.pc = pc]) PROVE Carries(c, rpc[c])
  <2>1. Like([rpc[c] EXCEPT !.pc = pc], rpc[c])
    BY LikeItself
  <2>2. QED
    BY <1>4, <2>1, StepCarries
<1>5. ASSUME NEW pc, NEW plan, Step(c, [rpc[c] EXCEPT !.pc = pc, !.plan = plan]) PROVE Carries(c, rpc[c])
  <2>1. Like([rpc[c] EXCEPT !.pc = pc, !.plan = plan], rpc[c])
    BY LikeItself
  <2>2. QED
    BY <1>5, <2>1, StepCarries
<1>6. CASE Start(c)
  BY <1>4, <1>5, <1>6 DEF Start
<1>7. CASE Record(c)
  <2>1. asked' = asked
    BY <1>7 DEF Record
  <2> DEFINE row == RecordProviderCall(gens[rpc[c].run])
  <2>2. CASE Checked(c, row)
    BY <1>1, <2>1, <2>2
  <2>3. CASE Step(c, [rpc[c] EXCEPT !.pc = "check", !.seen = row, !.readAt = now])
    <3>1. Like([rpc[c] EXCEPT !.pc = "check", !.seen = row, !.readAt = now], rpc[c])
      BY LikeItself
    <3>2. QED
      BY <2>1, <2>3, <3>1, StepCarries
  <2>4. CASE Step(c, [rpc[c] EXCEPT !.pc = "reread"])
    BY <1>4, <2>1, <2>4
  <2>5. QED
    BY <1>7, <2>2, <2>3, <2>4 DEF Record
<1>8. CASE Unmarked(c)
  <2>1. asked' = asked
    BY <1>8 DEF Unmarked
  <2>2. CASE Refuse(c, rpc[c], "ErrGenerationNotFound")
    BY <1>3, <2>1, <2>2
  <2>3. CASE Step(c, Read(rpc[c], AfterMark(gens[rpc[c].run])))
    <3>1. Like(Read(rpc[c], AfterMark(gens[rpc[c].run])), rpc[c])
      BY LikeItself DEF Read
    <3>2. QED
      BY <2>1, <2>3, <3>1, StepCarries
  <2>4. QED
    BY <1>8, <2>2, <2>3 DEF Unmarked
<1>9. CASE CheckIntent(c)
  BY <1>1, <1>5, <1>9 DEF CheckIntent
<1>10. CASE Ask(c)
  BY <1>1, <1>5, <1>10 DEF Ask
<1>11. CASE Unanswered(c)
  <2>1. Like([rpc[c] EXCEPT !.pc = "list", !.status = rpc[c].seen.status, !.missed = TRUE], rpc[c])
    BY LikeItself
  <2>2. QED
    BY <1>11, <2>1, StepCarries DEF Unanswered
<1>12. CASE SettleCall(c)
  BY <1>1, <1>4, <1>12 DEF SettleCall
<1>13. CASE Reread(c)
  BY <1>1, <1>2, <1>3, <1>13 DEF Reread
<1>14. CASE CheckFails(c)
  BY <1>2, <1>3, <1>14 DEF CheckFails
<1>15. CASE List(c)
  BY <1>15, LikeItself, ReplyCarries DEF List
<1>16. CASE ListFails(c)
  BY <1>3, <1>16 DEF ListFails
<1>17. QED
  BY <1>6, <1>7, <1>8, <1>9, <1>10, <1>11, <1>12, <1>13, <1>14, <1>15, <1>16

\* Such a step keeps the submit its own.
LEMMA CarriesOwn ==
    ASSUME OwnInv, TypeOK, NEW c \in Calls, rpc[c].pc # "idle", asked' = asked, Carries(c, rpc[c])
    PROVE  OwnInv'
<1>1. PICK v : /\ Like(v, rpc[c])
               /\ \/ rpc' = [rpc EXCEPT ![c] = v] /\ reply' = None
                  \/ /\ rpc' = [rpc EXCEPT ![c] = Idle]
                     /\ \E code, answered : reply' = [call |-> v, code |-> code, answered |-> answered]
  BY DEF Carries
<1>2. Answers(rpc[c], asked) /\ \A d \in Calls : rpc[d].pc # "idle" => Answers(rpc[d], asked)
  BY DEF OwnInv
<1>3. Answers(v, asked')
  BY <1>1, <1>2 DEF Answers, Like
<1>4. Idle.pc = "idle" /\ rpc \in [Calls -> CallStates]
  BY DEF Idle, TypeOK
<1>5. ASSUME NEW d \in Calls, rpc'[d].pc # "idle" PROVE Answers(rpc'[d], asked')
  <2>1. CASE d = c
    <3>1. rpc'[d] = v
      BY <1>1, <1>4, <1>5, <2>1
    <3>2. QED
      BY <1>3, <3>1
  <2>2. CASE d # c
    <3>1. rpc'[d] = rpc[d]
      BY <1>1, <1>4, <2>2
    <3>2. QED
      BY <1>2, <1>5, <3>1
  <2>3. QED
    BY <2>1, <2>2
<1>6. reply' # None => Answers(reply'.call, asked')
  BY <1>1, <1>3
<1>7. \A r \in Runs : asked'[r] # None => asked'[r] \in ValidRequests
  BY DEF OwnInv
<1>8. QED
  BY <1>5, <1>6, <1>7 DEF OwnInv

\* A step of a call that is about no submit, or over, keeps every submit its own.
LEMMA OthersOwn ==
    ASSUME OwnInv, TypeOK, NEW c \in Calls, asked' = asked, NEW call, call.kind # "submit", Carries(c, call)
    PROVE  OwnInv'
<1>1. PICK v : /\ Like(v, call)
               /\ \/ rpc' = [rpc EXCEPT ![c] = v] /\ reply' = None
                  \/ /\ rpc' = [rpc EXCEPT ![c] = Idle]
                     /\ \E code, answered : reply' = [call |-> v, code |-> code, answered |-> answered]
  BY DEF Carries
<1>2. \A d \in Calls : rpc[d].pc # "idle" => Answers(rpc[d], asked)
  BY DEF OwnInv
<1>3. Answers(v, asked')
  BY <1>1 DEF Answers, Like
<1>4. Idle.pc = "idle" /\ rpc \in [Calls -> CallStates]
  BY DEF Idle, TypeOK
<1>5. ASSUME NEW d \in Calls, rpc'[d].pc # "idle" PROVE Answers(rpc'[d], asked')
  <2>1. CASE d = c
    <3>1. rpc'[d] = v
      BY <1>1, <1>4, <1>5, <2>1
    <3>2. QED
      BY <1>3, <3>1
  <2>2. CASE d # c
    <3>1. rpc'[d] = rpc[d]
      BY <1>1, <1>4, <2>2
    <3>2. QED
      BY <1>2, <1>5, <3>1
  <2>3. QED
    BY <2>1, <2>2
<1>6. reply' # None => Answers(reply'.call, asked')
  BY <1>1, <1>3
<1>7. \A r \in Runs : asked'[r] # None => asked'[r] \in ValidRequests
  BY DEF OwnInv
<1>8. QED
  BY <1>5, <1>6, <1>7 DEF OwnInv

\* A generation a valid submit attaches to was created for the same content: their keys are equal.
LEMMA AttachedIsLike ==
    ASSUME OwnInv, NEW request \in Asked, Refused(request) = "",
           NEW r \in Runs, asked[r] # None, Attaches(r, request)
    PROVE  Content(request) = Content(asked[r])
<1>1. request \in ValidRequests
  BY ApiAssumption DEF Refused, ValidRequests
<1>2. asked[r] \in ValidRequests
  BY DEF OwnInv
<1>3. Key(request) = Key(asked[r])
  BY DEF Attaches
<1>4. QED
  BY <1>1, <1>2, <1>3, KeyIdentifiesContent

\* A submit is refused, holds a generation of its own request, or creates one no other call holds.
LEMMA SubmitOwn ==
    ASSUME OwnInv, TypeOK, NEW c \in Calls, Submit(c)
    PROVE  OwnInv'
<1>1. PICK request \in Asked :
        LET call == [Idle EXCEPT !.kind = "submit", !.request = request]
            runs == {r \in Runs : asked[r] # None /\ Attaches(r, request)}
            free == {r \in Runs : asked[r] = None}
        IN  \/ /\ Refused(request) # ""
               /\ Refuse(c, call, Refused(request))
               /\ UNCHANGED <<gens, asked>>
            \/ /\ Refused(request) = ""
               /\ \E error \in {"ErrUsageCapReached", "statement"} : Refuse(c, call, error)
               /\ UNCHANGED <<gens, asked>>
            \/ /\ Refused(request) = ""
               /\ \E r \in runs :
                     Step(c, [call EXCEPT !.pc = "list", !.run = r, !.status = gens[r].status,
                                          !.before = told[r]])
               /\ UNCHANGED <<gens, asked>>
            \/ /\ Refused(request) = "" /\ runs = {} /\ free # {}
               /\ LET r   == CHOOSE r \in free : \A q \in free : r =< q
                      row == PendingRow(now, request.stream)
                  IN  /\ gens' = [gens EXCEPT ![r] = row]
                      /\ asked' = [asked EXCEPT ![r] = request]
                      /\ Step(c, [call EXCEPT !.pc = "start", !.run = r,
                                              !.status = row.status, !.seen = row, !.readAt = now])
  BY DEF Submit
<1> DEFINE call == [Idle EXCEPT !.kind = "submit", !.request = request]
           free == {r \in Runs : asked[r] = None}
<1>2. /\ Idle.pc = "idle" /\ rpc \in [Calls -> CallStates] /\ asked \in [Runs -> Asked \cup {None}]
      /\ \A d \in Calls : rpc[d].pc # "idle" => Answers(rpc[d], asked)
      /\ \A r \in Runs : asked[r] # None => asked[r] \in ValidRequests
  BY DEF Idle, TypeOK, OwnInv
<1>3. ASSUME NEW error, Refuse(c, call, error), asked' = asked PROVE OwnInv'
  <2>1. rpc' = [rpc EXCEPT ![c] = Idle] /\ reply'.code = StatusOf(error)
    BY <1>3 DEF Refuse, Reply
  <2>2. reply'.code # "OK"
    BY <2>1 DEF StatusOf
  <2>3. \A d \in Calls : rpc'[d].pc # "idle" => rpc'[d] = rpc[d]
    BY <1>2, <2>1
  <2>4. QED
    BY <1>2, <1>3, <2>2, <2>3 DEF OwnInv
<1>4. ASSUME NEW r \in Runs, NEW v, v.pc \in {"list", "start"}, Like(v, [call EXCEPT !.run = r]), Step(c, v),
             \A q \in Runs : asked[q] # None => asked'[q] = asked[q],
             asked'[r] # None, Content(request) = Content(asked'[r]),
             \A q \in Runs : asked'[q] # None => asked'[q] \in ValidRequests
      PROVE  OwnInv'
  <2>1. reply' = None /\ \E w : Like(w, [call EXCEPT !.run = r]) /\ rpc' = [rpc EXCEPT ![c] = w]
    BY <1>4 DEF Step, Past, Like
  <2>2. PICK w : Like(w, [call EXCEPT !.run = r]) /\ rpc' = [rpc EXCEPT ![c] = w]
    BY <2>1
  <2>3. w.run = r /\ w.request = request
    BY <2>2 DEF Like, Idle
  <2>4. Answers(w, asked')
    BY <1>4, <2>3 DEF Answers
  <2>5. ASSUME NEW d \in Calls, rpc'[d].pc # "idle" PROVE Answers(rpc'[d], asked')
    <3>1. CASE d = c
      BY <1>2, <2>2, <2>4, <3>1
    <3>2. CASE d # c
      <4>1. rpc'[d] = rpc[d] /\ Answers(rpc[d], asked)
        BY <1>2, <2>2, <2>5, <3>2
      <4>2. QED
        BY <1>4, <4>1 DEF Answers
    <3>3. QED
      BY <3>1, <3>2
  <2>6. QED
    BY <1>4, <2>1, <2>5 DEF OwnInv
<1>5. ASSUME NEW r \in Runs, asked[r] # None, Attaches(r, request), Refused(request) = "", asked' = asked,
             Step(c, [call EXCEPT !.pc = "list", !.run = r, !.status = gens[r].status, !.before = told[r]])
      PROVE  OwnInv'
  <2>1. Content(request) = Content(asked[r])
    BY <1>5, AttachedIsLike
  <2> DEFINE v == [call EXCEPT !.pc = "list", !.run = r, !.status = gens[r].status, !.before = told[r]]
  <2>2. v.pc = "list" /\ Like(v, [call EXCEPT !.run = r])
    BY DEF Like, Idle
  <2>3. Step(c, v) /\ r \in Runs /\ asked' = asked /\ asked[r] # None
    BY <1>5
  <2> HIDE DEF v, call
  <2>4. QED
    BY <1>2, <1>4, <2>1, <2>2, <2>3
<1>6. ASSUME Refused(request) = "", free # {},
             LET r   == CHOOSE r \in free : \A q \in free : r =< q
                 row == PendingRow(now, request.stream)
             IN  /\ asked' = [asked EXCEPT ![r] = request]
                 /\ Step(c, [call EXCEPT !.pc = "start", !.run = r,
                                         !.status = row.status, !.seen = row, !.readAt = now])
      PROVE  OwnInv'
  <2> DEFINE r == CHOOSE r \in free : \A q \in free : r =< q
             row == PendingRow(now, request.stream)
             v == [call EXCEPT !.pc = "start", !.run = r, !.status = row.status, !.seen = row, !.readAt = now]
  <2>1. r \in free
    <3>1. free \in SUBSET Nat
      BY ApiAssumption
    <3>2. \E q \in free : \A p \in free : q =< p
      BY <1>6, <3>1, LeastNatural
    <3>3. QED
      BY <3>2
  <2> HIDE DEF r
  <2>2. v.pc = "start" /\ Like(v, [call EXCEPT !.run = r])
    BY DEF Like, Idle
  <2>3. asked' = [asked EXCEPT ![r] = request] /\ Step(c, v)
    BY <1>6 DEF r
  <2>4. request \in ValidRequests /\ request # None
    BY <1>6, ApiAssumption DEF Refused, ValidRequests
  <2>5. asked'[r] = request /\ \A q \in Runs : q # r => asked'[q] = asked[q]
    BY <1>2, <2>1, <2>3
  <2> HIDE DEF v, row, call
  <2>6. /\ \A q \in Runs : asked[q] # None => asked'[q] = asked[q]
        /\ \A q \in Runs : asked'[q] # None => asked'[q] \in ValidRequests
        /\ r \in Runs /\ asked'[r] # None /\ Content(request) = Content(asked'[r])
    BY <1>2, <2>1, <2>4, <2>5
  <2>7. QED
    BY <1>4, <2>2, <2>3, <2>6
<1>7. QED
  BY <1>1, <1>3, <1>5, <1>6

\* A get, a cancel and a read that fails are about no submit.
LEMMA ReadersOwn ==
    ASSUME OwnInv, TypeOK, NEW c \in Calls, Get(c) \/ Cancel(c) \/ ReadFails(c)
    PROVE  OwnInv'
<1>1. asked' = asked
  BY DEF Get, Cancel, ReadFails
<1>2. ASSUME NEW kind \in {"get", "cancel"}, NEW mine, NEW r
      PROVE  /\ Opened(kind, mine, r).kind # "submit"
             /\ Like(Opened(kind, mine, r), Opened(kind, mine, r))
             /\ \A pc : Like([Opened(kind, mine, r) EXCEPT !.pc = pc], Opened(kind, mine, r))
             /\ \A pc : Like(Read(Opened(kind, mine, r), pc), Opened(kind, mine, r))
             /\ \A pc, status, seen, at :
                   Like([Opened(kind, mine, r) EXCEPT !.pc = pc, !.status = status, !.seen = seen,
                                                      !.readAt = at], Opened(kind, mine, r))
  <2> DEFINE call == Opened(kind, mine, r)
  <2>1. {"kind", "run", "request"} \subseteq DOMAIN call /\ call.kind # "submit"
    BY DEF Opened, Idle
  <2> HIDE DEF call
  <2>2. /\ Like(call, call) /\ \A pc : Like([call EXCEPT !.pc = pc], call)
        /\ \A pc : Like(Read(call, pc), call)
    BY <2>1 DEF Like, Read
  <2>3. \A pc, status, seen, at :
            Like([call EXCEPT !.pc = pc, !.status = status, !.seen = seen, !.readAt = at], call)
    BY <2>1 DEF Like
  <2>4. QED
    BY <2>1, <2>2, <2>3 DEF call
<1>3. CASE Get(c)
  <2>1. PICK r \in Runs, mine \in BOOLEAN :
            LET call == Opened("get", mine, r)
            IN  \/ Refuse(c, call, "ErrGenerationNotFound")
                \/ \E pc : Step(c, Read(call, pc))
    BY <1>3 DEF Get
  <2> DEFINE call == Opened("get", mine, r)
  <2>2. call.kind # "submit" /\ Like(call, call) /\ \A pc : Like(Read(call, pc), call)
    BY <1>2
  <2> HIDE DEF call
  <2>3. Refuse(c, call, "ErrGenerationNotFound") \/ \E pc : Step(c, Read(call, pc))
    BY <2>1 DEF call
  <2>4. Carries(c, call)
    BY <2>2, <2>3, StepCarries, RefuseCarries
  <2>5. QED
    BY <1>1, <2>2, <2>4, OthersOwn
<1>4. CASE Cancel(c)
  <2>1. PICK r \in Runs, mine \in BOOLEAN :
            LET call == Opened("cancel", mine, r)
            IN  \/ \E pc, status, seen, at :
                      Step(c, [call EXCEPT !.pc = pc, !.status = status, !.seen = seen, !.readAt = at])
                \/ \E pc : Step(c, [call EXCEPT !.pc = pc])
    BY <1>4 DEF Cancel
  <2> DEFINE call == Opened("cancel", mine, r)
  <2>2. /\ call.kind # "submit" /\ \A pc : Like([call EXCEPT !.pc = pc], call)
        /\ \A pc, status, seen, at :
              Like([call EXCEPT !.pc = pc, !.status = status, !.seen = seen, !.readAt = at], call)
    BY <1>2
  <2> HIDE DEF call
  <2>3. \/ \E pc, status, seen, at :
              Step(c, [call EXCEPT !.pc = pc, !.status = status, !.seen = seen, !.readAt = at])
        \/ \E pc : Step(c, [call EXCEPT !.pc = pc])
    BY <2>1 DEF call
  <2>4. Carries(c, call)
    BY <2>2, <2>3, StepCarries
  <2>5. QED
    BY <1>1, <2>2, <2>4, OthersOwn
<1>5. CASE ReadFails(c)
  <2>1. PICK kind \in {"get", "cancel"}, error \in {"ErrInvalidRequest", "statement"} :
            Refuse(c, [Idle EXCEPT !.kind = kind], error)
    BY <1>5 DEF ReadFails
  <2> DEFINE call == [Idle EXCEPT !.kind = kind]
  <2>2. call.kind # "submit" /\ Like(call, call)
    BY DEF Like, Idle
  <2> HIDE DEF call
  <2>3. Refuse(c, call, error)
    BY <2>1 DEF call
  <2>4. QED
    BY <1>1, <2>2, <2>3, RefuseCarries, OthersOwn
<1>6. QED
  BY <1>3, <1>4, <1>5

\* What takes no call on, or drops one, keeps every submit its own.
LEMMA RestOwn ==
    ASSUME OwnInv, TypeOK,
           \/ \E c \in Calls : Lose(c)
           \/ ProviderEnds \/ Purge \/ Tick \/ UNCHANGED vars
    PROVE  OwnInv'
<1>1. asked' = asked
  BY DEF Lose, ProviderEnds, Purge, Tick, vars
<1>2. CASE \E c \in Calls : Lose(c)
  <2>1. PICK c \in Calls : Lose(c)
    BY <1>2
  <2>2. Idle.pc = "idle" /\ rpc' = [rpc EXCEPT ![c] = Idle] /\ reply' = None
    BY <2>1 DEF Lose, Step, Idle
  <2>3. \A d \in Calls : rpc'[d].pc # "idle" => rpc'[d] = rpc[d]
    BY <2>2 DEF TypeOK
  <2>4. QED
    BY <1>1, <2>2, <2>3 DEF OwnInv
<1>3. CASE ProviderEnds \/ Purge \/ Tick
  <2>1. rpc' = rpc /\ reply' = None
    BY <1>3 DEF ProviderEnds, Purge, Tick
  <2>2. QED
    BY <1>1, <2>1 DEF OwnInv
<1>4. CASE UNCHANGED vars
  BY <1>4 DEF OwnInv, vars
<1>5. QED
  BY <1>2, <1>3, <1>4

\* Every step keeps every submit with a generation of its own.
LEMMA OwnStep == OwnInv /\ TypeOK /\ [Next]_vars => OwnInv'
<1>1. SUFFICES ASSUME OwnInv, TypeOK, [Next]_vars PROVE OwnInv'
  OBVIOUS
<1>2. ASSUME NEW c \in Calls, Serve(c) PROVE OwnInv'
  <2>1. CASE Submit(c)
    BY <1>1, <2>1, SubmitOwn
  <2>2. CASE Get(c) \/ Cancel(c) \/ ReadFails(c)
    BY <1>1, <2>2, ReadersOwn
  <2>3. CASE \/ Start(c) \/ Record(c) \/ Unmarked(c) \/ CheckIntent(c) \/ Ask(c) \/ Unanswered(c)
             \/ SettleCall(c) \/ Reread(c) \/ CheckFails(c) \/ List(c) \/ ListFails(c)
    <3>1. rpc[c].pc # "idle"
      BY <2>3 DEF Start, Record, Unmarked, CheckIntent, Ask, Unanswered, SettleCall, Reread, CheckFails,
                  List, ListFails
    <3>2. QED
      BY <1>1, <2>3, <3>1, ChecksCarry, CarriesOwn
  <2>4. QED
    BY <1>2, <2>1, <2>2, <2>3 DEF Serve
<1>3. CASE (\E c \in Calls : Lose(c)) \/ ProviderEnds \/ Purge \/ Tick \/ UNCHANGED vars
  BY <1>1, <1>3, RestOwn
<1>4. QED
  BY <1>1, <1>2, <1>3 DEF Next

\* In every reachable state, every submit holds a generation of its own.
LEMMA AlwaysOwn == Spec => []OwnInv
<1>1. Init => OwnInv
  BY DEF Init, OwnInv, Idle
<1>2. OwnInv /\ TypeOK /\ [Next]_vars => OwnInv'
  BY OwnStep
<1>3. QED
  BY <1>1, <1>2, ApiTypes, PTL DEF Spec

\* A submit is never answered with the generation of another request: the unique index attaches it by its
\* key, and requestKey of generationSubmit.go gives two contents two keys, however their fields run together.
THEOREM OwnAnswered == Spec => []AnsweredWithItsOwn
<1>1. OwnInv => AnsweredWithItsOwn
  BY DEF OwnInv, AnsweredWithItsOwn, Replied, Answers
<1>2. QED
  BY <1>1, AlwaysOwn, PTL

\* The key a new generation is stored under finds exactly the requests that ask for the same, whatever the
\* requests it is compared with: requestKey runs the fields together so that each says where it ends, and
\* canonicalPayload writes every formatting of a payload the same way.
THEOREM KeysIdentify == Spec => KeyIdentifies
<1> DEFINE Told == \A r \in Runs : asked[r] = None /\ asked'[r] # None =>
          LET stored == Entry(asked'[r])
          IN  \A other \in OtherEntries :
                 /\ (other.key = stored.key) = (other.content = stored.content)
                 /\ other.key = stored.key => other.sent = stored.sent
<1>1. OwnInv' => Told
  <2>1. SUFFICES ASSUME OwnInv', NEW r \in Runs, asked'[r] # None, NEW other \in OtherEntries
                 PROVE  LET stored == Entry(asked'[r])
                        IN  /\ (other.key = stored.key) = (other.content = stored.content)
                            /\ other.key = stored.key => other.sent = stored.sent
    OBVIOUS
  <2>2. asked'[r] \in ValidRequests
    BY <2>1 DEF OwnInv
  <2>3. PICK request \in Others : other = Entry(request)
    BY DEF OtherEntries
  <2>4. request \in ValidRequests
    BY ApiAssumption
  <2> DEFINE mine == asked'[r]
  <2> HIDE DEF mine
  <2>5. mine \in ValidRequests
    BY <2>2 DEF mine
  <2>6. /\ Key(request) = Key(mine) <=> Content(request) = Content(mine)
        /\ Key(request) = Key(mine) => Sent(request) = Sent(mine)
    BY <2>4, <2>5, KeyIdentifiesContent, KeyFixesBody
  <2>7. /\ (other.key = Entry(mine).key) = (other.content = Entry(mine).content)
        /\ other.key = Entry(mine).key => other.sent = Entry(mine).sent
    BY <2>3, <2>6 DEF Entry
  <2>8. QED
    BY <2>7 DEF mine
<1>2. [Next]_vars /\ OwnInv' => [Told]_vars
  BY <1>1
<1>3. Spec => [][Told]_vars
  BY <1>2, AlwaysOwn, PTL DEF Spec
<1>4. QED
  BY <1>3 DEF KeyIdentifies

=============================================================================
