-------------------------- MODULE AdmissionProofs --------------------------
(***************************************************************************)
(* Proofs about Admission, for any submits, requests and purposes, any     *)
(* caps, and any hold and retention that satisfy its assumptions.          *)
(*                                                                         *)
(* The submits may be infinitely many: what is counted and summed is       *)
(* finite because only finitely many ever began.                           *)
(*                                                                         *)
(* Who may commit comes first: one generation per request, and the cap on  *)
(* what is in flight.  What is used follows: a summary that misses         *)
(* nothing, the wait a refusal names, and how far a window is overrun.     *)
(***************************************************************************)
EXTENDS Admission, SetLemmas

-----------------------------------------------------------------------------
(***************************************************************************)
(* The inductive invariant, in parts.                                      *)
(***************************************************************************)
Holding == {"inserted", "counted", "admitted"}

\* Whoever inserted its generation holds the owner's lock until its transaction ends.
LockHeld == \A s \in Submits : lock = s <=> tx[s].pc \in Holding

\* Nothing is stored, left running unseen or recorded for a generation that was never committed.
OnlyCommitted ==
    \A s \in Submits :
        gens[s].status # "absent" \/ unknownAt[s] # None \/ usage[s] # None => tx[s].pc = "created"

\* A generation left running unseen keeps the instant in its row, and loses the row only after the
\* retention, hence after the hold.
UnknownKept ==
    \A s \in Submits : unknownAt[s] # None =>
        /\ gens[s].status \notin Live
        /\ IF gens[s].status = "absent"
             THEN unknownAt[s] + Retention < now
             ELSE /\ gens[s].outcomeUnknownAt = unknownAt[s]
                  /\ gens[s].expiresAt = unknownAt[s] + Retention

BeganBefore == \A s \in Submits : tx[s].beganAt =< now

Begun == {s \in Submits : tx[s].pc # "idle"}

Ground ==
    /\ TypeOK
    /\ LockHeld
    /\ OnlyCommitted
    /\ UnknownKept
    /\ BeganBefore
    /\ IsFiniteSet(Begun)

\* No stored generation conflicts with the request of a submit that inserted.
Unopposed ==
    \A s, t \in Submits : tx[s].pc \in Holding => ~Conflict(t, tx[s].request)

\* The generations of one purpose in flight.
Flying(purpose) == {s \in Submits : InFlight(s) /\ Purpose(s) = purpose}

\* A submit past its count still fits in its cap: nobody else can commit while it holds the lock.
CountStands ==
    \A s \in Submits :
        tx[s].pc \in {"counted", "admitted"} /\ tx[s].caps.concurrency # None =>
            Cardinality(Flying(Purpose(s)) \cup {s}) =< tx[s].caps.concurrency

-----------------------------------------------------------------------------
(***************************************************************************)
(* Types.                                                                  *)
(***************************************************************************)
Windows == UNION {c.windows : c \in CapChoices}

TxStates ==
    [pc : {"idle"} \cup Open \cup Ended, request : Requests \cup {None}, caps : CapChoices \cup {NoCaps},
     beganAt : Nat, intentAt : Nat, window : Windows \cup {None}, retryAt : Instants]

Records == [at : Nat, tokens : Tokens]

\* The transaction of a submit is typed.
LEMMA TxTyped == ASSUME TypeOK PROVE tx \in [Submits -> TxStates]
BY DEF TypeOK, TxStates, Windows

\* The rows a submit inserts, and the row that does not exist, are typed.
LEMMA PendingType ==
    ASSUME NEW at \in Instants
    PROVE  PendingRow(at, FALSE) \in Rows /\ AbsentRow \in Rows
<1>1. \A i \in Instants : PendingRow(i, FALSE) \in Rows
  BY DEF PendingRow, Rows, Instants, Live
<1>2. PendingRow(None, FALSE) \in Rows
  BY <1>1 DEF Instants
<1>3. AbsentRow \in Rows
  BY <1>2 DEF AbsentRow, Rows
<1>4. QED
  BY <1>1, <1>3

\* What a settle writes.
LEMMA SettleEffect ==
    ASSUME NEW r \in Rows, NEW at \in Nat, NEW outcome \in Outcomes
    PROVE  /\ Settle(r, outcome, at) \in Rows
           /\ Settle(r, outcome, at).status \in Settled
           /\ Settle(r, outcome, at).expiresAt = at + Retention
           /\ Settle(r, outcome, at).outcomeUnknownAt \in {None, at}
           /\ Settle(r, outcome, at).status = "succeeded" => outcome.status = "succeeded"
<1> DEFINE status  == outcome.status
           error   == outcome.error
           failure == outcome.failure
           unknown == IF failure = "outcome_unknown" THEN at ELSE None
           until   == at + Retention
<1>1. /\ status \in Settled /\ error \in Errors \cup {None} /\ failure \in Failures \cup {None}
      /\ unknown \in {None, at} /\ until \in Nat
  BY RetentionAssumption DEF Outcomes, Settled, Errors, Failures
<1>2. Settle(r, outcome, at) =
        [r EXCEPT !.status = status, !.error = error, !.failure = failure, !.settledAt = at,
                  !.expiresAt = until, !.outcomeUnknownAt = unknown]
  BY DEF Settle
<1> HIDE DEF error, failure, unknown, until
<1>3. Settle(r, outcome, at) \in Rows
  <2> HIDE DEF status
  <2>1. unknown \in Instants /\ until \in Instants /\ at \in Instants
    BY <1>1 DEF Instants
  <2>2. [r EXCEPT !.status = status, !.error = error, !.failure = failure] \in Rows
    BY <1>1 DEF Rows
  <2>3. \A q \in Rows : [q EXCEPT !.settledAt = at, !.expiresAt = until, !.outcomeUnknownAt = unknown] \in Rows
    BY <2>1 DEF Rows
  <2>4. Settle(r, outcome, at) =
          [[r EXCEPT !.status = status, !.error = error, !.failure = failure]
             EXCEPT !.settledAt = at, !.expiresAt = until, !.outcomeUnknownAt = unknown]
    BY <1>2 DEF Rows
  <2>5. QED
    BY <2>2, <2>3, <2>4
<1>4. /\ Settle(r, outcome, at).status = status
      /\ Settle(r, outcome, at).expiresAt = until
      /\ Settle(r, outcome, at).outcomeUnknownAt = unknown
  BY <1>2 DEF Rows
<1>5. QED
  BY <1>1, <1>3, <1>4 DEF until

\* The wait of a refusal ends now, or when the oldest record that filled the window leaves it.
LEMMA FreesAtIs ==
    ASSUME TypeOK, NEW w \in Windows, NEW R \in SUBSET Recorded, R # {}
    PROVE  /\ FreesAt(w, R) \in Nat
           /\ FreesAt(w, R) = now \/ \A r \in R : FreesAt(w, R) =< usage[r].at + w.duration
<1> DEFINE ats   == {usage[r].at : r \in R}
           least == Min(ats) + w.duration
<1>1. ats \in SUBSET Nat /\ ats # {}
  BY DEF TypeOK, Recorded
<1>2. Min(ats) \in Nat /\ \A r \in R : Min(ats) =< usage[r].at
  <2>1. \A r \in R : usage[r].at \in ats
    OBVIOUS
  <2> HIDE DEF ats
  <2>2. QED
    BY <1>1, <2>1, MinIsLeast
<1>3. w.duration \in Nat
  BY CapsAssumption DEF Windows
<1>4. least \in Nat /\ now \in Nat /\ \A r \in R : usage[r].at \in Nat
  BY <1>2, <1>3 DEF TypeOK, Recorded
<1>5. {now} \cup {least} \in SUBSET Nat /\ IsFiniteSet({now} \cup {least})
  <2> HIDE DEF least
  <2>1. IsFiniteSet({now})
    BY FS_Singleton
  <2>2. QED
    BY <1>4, <2>1, FS_AddElement
<1>6. Max({now} \cup {least}) \in {now} \cup {least}
  BY <1>5, MaxIsGreatest
<1>7. FreesAt(w, R) = Max({now} \cup {least})
  BY DEF FreesAt
<1> HIDE DEF ats
<1>8. \A r \in R : least =< usage[r].at + w.duration
  BY <1>2, <1>3, <1>4
<1> HIDE DEF least
<1>9. QED
  BY <1>4, <1>6, <1>7, <1>8

\* Without a record there is no wait to name.
LEMMA FreesAtType ==
    ASSUME TypeOK, NEW w \in Windows, NEW R \in SUBSET Recorded
    PROVE  FreesAt(w, R) \in Instants
<1>1. CASE R = {}
  BY <1>1 DEF FreesAt, Instants
<1>2. CASE R # {}
  BY <1>2, FreesAtIs DEF Instants
<1>3. QED
  BY <1>1, <1>2

-----------------------------------------------------------------------------
(***************************************************************************)
(* The steps of a submit, by what they leave in its transaction.           *)
(***************************************************************************)
Others == <<now, gens, usage, unknownAt, summary>>

Move(s, from, v) == tx[s].pc = from /\ v \in TxStates /\ tx' = [tx EXCEPT ![s] = v]

Begins(s, v) ==
    /\ Move(s, "idle", v)
    /\ v.pc = "begun" /\ v.beganAt = now /\ v.retryAt = None /\ v.caps \in CapChoices
    /\ v.request \in Requests
    /\ lock' = lock

Inserts(s, v) ==
    /\ Move(s, "begun", v)
    /\ v.pc = "inserted" /\ v.request = tx[s].request /\ v.beganAt = tx[s].beganAt
    /\ v.caps = tx[s].caps /\ v.retryAt = tx[s].retryAt
    /\ \A t \in Submits : ~Conflict(t, tx[s].request)
    /\ lock = None /\ lock' = s

\* The count fits in the cap.
Passes(s, v) ==
    /\ Move(s, "inserted", v)
    /\ v = [tx[s] EXCEPT !.pc = "counted"]
    /\ tx[s].caps.concurrency # None =>
          Cardinality(CountLive(Purpose(s), tx[s].beganAt)) + 1 =< tx[s].caps.concurrency
    /\ lock' = lock

\* No window is full.
Admits(s, v) ==
    /\ Move(s, "counted", v)
    /\ v = [tx[s] EXCEPT !.pc = "admitted"]
    /\ \A w \in tx[s].caps.windows :
          ~WindowReached(w, InWindow(Purpose(s), tx[s].beganAt, w.duration))
    /\ lock' = lock

\* Records of the submit's purpose filled the window that refuses it, and the wait is no longer than
\* the oldest of them stays in it.
Filled(s, v) ==
    \E R \in SUBSET Recorded :
        /\ \A r \in R : Purpose(r) = Purpose(s)
        /\ WindowReached(v.window, R)
        /\ v.retryAt = now \/ \A r \in R : v.retryAt =< usage[r].at + v.window.duration

\* A transaction that ends, in whatever way, keeps its request and releases the lock it holds.
Ends(s, v) ==
    /\ tx[s].pc \in Open
    /\ v \in TxStates
    /\ tx' = [tx EXCEPT ![s] = v]
    /\ v.pc \in Ended /\ v.request = tx[s].request /\ v.beganAt = 0 /\ v.caps = NoCaps
    /\ v.retryAt # None => v.window \in Windows /\ Filled(s, v)
    /\ lock' = IF lock = s THEN None ELSE lock

\* A submit that ends without its transaction keeps its request, and what it was told.
LEMMA AnswerEffect ==
    ASSUME TypeOK, NEW s \in Submits, NEW pc \in Ended, NEW window \in Windows \cup {None},
           NEW retryAt \in Instants, Answer(s, pc, window, retryAt)
    PROVE  \E v \in TxStates :
              /\ tx' = [tx EXCEPT ![s] = v]
              /\ v.pc = pc /\ v.request = tx[s].request /\ v.beganAt = 0 /\ v.caps = NoCaps
              /\ v.window = window /\ v.retryAt = retryAt
<1> DEFINE v == [NoTx EXCEPT !.pc = pc, !.request = tx[s].request, !.window = window, !.retryAt = retryAt]
<1>1. NoTx \in TxStates
  BY DEF NoTx, TxStates, Instants
<1>2. tx[s].request \in Requests \cup {None}
  BY DEF TypeOK
<1>3. v \in TxStates
  BY <1>1, <1>2 DEF TxStates
<1>4. /\ v.pc = pc /\ v.request = tx[s].request /\ v.beganAt = 0 /\ v.caps = NoCaps
      /\ v.window = window /\ v.retryAt = retryAt
  BY DEF NoTx
<1>5. tx' = [tx EXCEPT ![s] = v]
  BY DEF Answer
<1>6. QED
  BY <1>3, <1>4, <1>5

\* A transaction that ends leaves nothing open of its submit, and gives its lock back.
LEMMA EndEffect ==
    ASSUME TypeOK, NEW s \in Submits, NEW pc \in Ended, tx[s].pc \in Open, End(s, pc)
    PROVE  \E v \in TxStates : Ends(s, v) /\ v.pc = pc
<1>1. None \in Instants /\ Answer(s, pc, None, None)
  BY DEF End, Instants
<1>2. PICK v \in TxStates :
         /\ tx' = [tx EXCEPT ![s] = v]
         /\ v.pc = pc /\ v.request = tx[s].request /\ v.beganAt = 0 /\ v.caps = NoCaps
         /\ v.window = None /\ v.retryAt = None
  BY <1>1, AnswerEffect
<1>3. QED
  BY <1>2 DEF Ends, End

\* A refusal names its window and its wait, and gives the lock back.
LEMMA RefuseEffect ==
    ASSUME TypeOK, LockHeld, NEW s \in Submits, tx[s].pc \in Holding,
           NEW window \in Windows \cup {None}, NEW retryAt \in Instants, Refuse(s, window, retryAt)
    PROVE  \E v \in TxStates :
              /\ tx' = [tx EXCEPT ![s] = v]
              /\ v.pc = "refused" /\ v.request = tx[s].request /\ v.beganAt = 0 /\ v.caps = NoCaps
              /\ v.window = window /\ v.retryAt = retryAt
              /\ lock' = IF lock = s THEN None ELSE lock
<1>1. lock = s /\ lock' = None /\ Answer(s, "refused", window, retryAt) /\ "refused" \in Ended
  BY DEF LockHeld, Refuse, Ended
<1>2. QED
  BY <1>1, AnswerEffect

\* What a count counts, and what a window holds, is finite: only begun submits are there.
LEMMA CountsAreFinite ==
    ASSUME Ground
    PROVE  /\ \A purpose, at : IsFiniteSet(CountLive(purpose, at))
           /\ IsFiniteSet(Recorded) /\ Recorded \in SUBSET Submits
           /\ \A purpose, at, duration : InWindow(purpose, at, duration) \in SUBSET Recorded
           /\ \A purpose : IsFiniteSet(Flying(purpose))
<1>1. \A S \in SUBSET Begun : IsFiniteSet(S)
  BY FS_Subset DEF Ground
<1>2. \A purpose, at : CountLive(purpose, at) \in SUBSET Begun
  BY DEF Ground, OnlyCommitted, CountLive, Begun
<1>3. Recorded \in SUBSET Begun
  BY DEF Ground, OnlyCommitted, Recorded, Begun
<1>4. \A purpose, at, duration : InWindow(purpose, at, duration) \in SUBSET Recorded
  BY DEF InWindow, Recorded
<1>5. \A purpose : Flying(purpose) \in SUBSET Begun
  BY DEF Ground, OnlyCommitted, Flying, InFlight, Begun, Live
<1>6. QED
  BY <1>1, <1>2, <1>3, <1>4, <1>5 DEF Recorded

\* The count refuses, or the submit fits in its cap.
LEMMA CountEffect ==
    ASSUME Ground, NEW s \in Submits, Count(s, "inserted", "counted")
    PROVE  \E v \in TxStates : Passes(s, v) \/ (Ends(s, v) /\ v.pc # "created")
<1> TypeOK /\ LockHeld
  BY DEF Ground
<1> DEFINE live == Cardinality(CountLive(Purpose(s), tx[s].beganAt)) + 1
           cap  == tx[s].caps.concurrency
<1>1. tx[s].pc = "inserted" /\ tx[s] \in TxStates
  BY TxTyped DEF Count
<1>2. live \in Nat /\ cap \in Limits
  <2>1. Cardinality(CountLive(Purpose(s), tx[s].beganAt)) \in Nat
    BY CountsAreFinite, FS_CardinalityType
  <2>2. tx[s].caps \in CapChoices \cup {NoCaps}
    BY <1>1 DEF TxStates
  <2>3. cap \in Limits
    BY <2>2, CapsAssumption DEF NoCaps, Limits
  <2>4. QED
    BY <2>1, <2>3
<1>3. CASE cap # None /\ live > cap
  <2>1. Refuse(s, None, None) /\ tx[s].pc \in Holding /\ None \in Instants
    BY <1>1, <1>3 DEF Count, Holding, Instants
  <2>2. PICK v \in TxStates :
           /\ tx' = [tx EXCEPT ![s] = v]
           /\ v.pc = "refused" /\ v.request = tx[s].request /\ v.beganAt = 0 /\ v.caps = NoCaps
           /\ v.window = None /\ v.retryAt = None
           /\ lock' = IF lock = s THEN None ELSE lock
    BY <2>1, RefuseEffect
  <2>3. Ends(s, v) /\ v.pc # "created"
    BY <1>1, <2>2 DEF Ends, Open, Ended
  <2>4. QED
    BY <2>3
<1>4. CASE ~(cap # None /\ live > cap)
  <2> DEFINE v == [tx[s] EXCEPT !.pc = "counted"]
  <2>1. v \in TxStates
    BY <1>1 DEF TxStates, Open
  <2>2. tx' = [tx EXCEPT ![s] = v] /\ lock' = lock
    BY <1>4 DEF Count, Goto
  <2>3. cap # None => live =< cap
    BY <1>2, <1>4 DEF Limits
  <2>4. Passes(s, v)
    BY <1>1, <2>1, <2>2, <2>3 DEF Passes, Move
  <2>5. QED
    BY <2>1, <2>4
<1>5. QED
  BY <1>3, <1>4

\* The sum refuses on a window its records fill, or none is full.
LEMMA SumEffect ==
    ASSUME Ground, NEW s \in Submits, Sum(s, "counted", "admitted")
    PROVE  \E v \in TxStates : Admits(s, v) \/ (Ends(s, v) /\ v.pc # "created")
<1> TypeOK /\ LockHeld
  BY DEF Ground
<1> DEFINE records(w) == InWindow(Purpose(s), tx[s].beganAt, w.duration)
           full       == {w \in tx[s].caps.windows : WindowReached(w, records(w))}
<1>1. tx[s].pc = "counted" /\ tx[s] \in TxStates
  BY TxTyped DEF Sum
<1>2. \/ full = {} /\ Goto(s, "admitted") /\ lock' = lock
      \/ \E w \in full : Refuse(s, w, FreesAt(w, records(w)))
  BY DEF Sum
<1>3. CASE full = {} /\ Goto(s, "admitted") /\ lock' = lock
  <2> DEFINE v == [tx[s] EXCEPT !.pc = "admitted"]
  <2>1. v \in TxStates
    BY <1>1 DEF TxStates, Open
  <2>2. tx' = [tx EXCEPT ![s] = v]
    BY <1>3 DEF Goto
  <2>3. \A w \in tx[s].caps.windows : ~WindowReached(w, records(w))
    BY <1>3
  <2>4. Admits(s, v)
    BY <1>1, <1>3, <2>1, <2>2, <2>3 DEF Admits, Move
  <2>5. QED
    BY <2>1, <2>4
<1>4. ASSUME NEW w \in full, Refuse(s, w, FreesAt(w, records(w)))
      PROVE  \E v \in TxStates : Ends(s, v) /\ v.pc # "created"
  <2> DEFINE R  == records(w)
             at == FreesAt(w, R)
  <2>1. w \in Windows
    <3>1. tx[s].caps \in CapChoices \cup {NoCaps} /\ w \in tx[s].caps.windows
      BY <1>1, <1>4 DEF TxStates
    <3>2. QED
      BY <3>1 DEF Windows, NoCaps
  <2>2. R \in SUBSET Recorded /\ \A r \in R : Purpose(r) = Purpose(s)
    BY DEF InWindow, Recorded
  <2>3. at \in Instants /\ tx[s].pc \in Holding
    BY <1>1, <2>1, <2>2, FreesAtType DEF Holding
  <2>4. at # None => (at = now \/ \A r \in R : at =< usage[r].at + w.duration)
    <3>1. CASE R = {}
      BY <3>1 DEF FreesAt
    <3>2. CASE R # {}
      BY <2>1, <2>2, <3>2, FreesAtIs
    <3>3. QED
      BY <3>1, <3>2
  <2>5. WindowReached(w, R)
    BY <1>4
  <2>6. Refuse(s, w, at)
    BY <1>4
  <2> HIDE DEF R, at
  <2>7. PICK v \in TxStates :
           /\ tx' = [tx EXCEPT ![s] = v]
           /\ v.pc = "refused" /\ v.request = tx[s].request /\ v.beganAt = 0 /\ v.caps = NoCaps
           /\ v.window = w /\ v.retryAt = at
           /\ lock' = IF lock = s THEN None ELSE lock
    BY <2>1, <2>3, <2>6, RefuseEffect
  <2>8. v.retryAt # None => Filled(s, v)
    BY <2>2, <2>4, <2>5, <2>7 DEF Filled
  <2>9. Ends(s, v) /\ v.pc # "created"
    BY <1>1, <2>1, <2>7, <2>8 DEF Ends, Open, Ended
  <2>10. QED
    BY <2>9
<1>5. QED
  BY <1>2, <1>3, <1>4

\* Every step of a submit is one of these.
LEMMA SubmitCases ==
    ASSUME Ground, NEW s \in Submits, Submit(s)
    PROVE  \E v \in TxStates :
              \/ UNCHANGED Others /\ (Begins(s, v) \/ Inserts(s, v) \/ Passes(s, v) \/ Admits(s, v))
              \/ UNCHANGED Others /\ Ends(s, v) /\ v.pc # "created"
              \/ Commit(s) /\ Ends(s, v) /\ v.pc = "created"
<1> TypeOK /\ LockHeld
  BY DEF Ground
<1>1. CASE Begin(s)
  <2>1. PICK request \in Requests, caps \in CapChoices :
           tx' = [tx EXCEPT ![s] = [NoTx EXCEPT !.pc = "begun", !.request = request,
                                                !.caps = caps, !.beganAt = now]]
    BY <1>1 DEF Begin
  <2> DEFINE v == [NoTx EXCEPT !.pc = "begun", !.request = request, !.caps = caps, !.beganAt = now]
  <2>2. NoTx \in TxStates /\ now \in Nat
    BY DEF NoTx, TxStates, Instants, TypeOK
  <2>3. v \in TxStates
    BY <2>2 DEF TxStates, Open
  <2>4. /\ v.pc = "begun" /\ v.beganAt = now /\ v.retryAt = None /\ v.caps = caps
        /\ v.request = request
    BY DEF NoTx
  <2>5. tx[s].pc = "idle" /\ tx' = [tx EXCEPT ![s] = v] /\ lock' = lock
    BY <1>1, <2>1 DEF Begin
  <2> HIDE DEF v
  <2>6. Begins(s, v)
    BY <2>3, <2>4, <2>5 DEF Begins, Move
  <2>7. UNCHANGED Others
    BY <1>1 DEF Begin, Others
  <2>8. QED
    BY <2>3, <2>6, <2>7
<1>2. CASE Insert(s)
  <2>1. tx[s].pc = "begun" /\ lock = None /\ UNCHANGED Others
    BY <1>2 DEF Insert, Others
  <2>2. CASE \E t \in Submits : Conflict(t, tx[s].request)
    <3>1. End(s, "replayed") /\ "replayed" \in Ended /\ tx[s].pc \in Open
      BY <1>2, <2>1, <2>2 DEF Insert, Ended, Open
    <3>2. QED
      BY <2>1, <3>1, EndEffect
  <2>3. CASE \A t \in Submits : ~Conflict(t, tx[s].request)
    <3> DEFINE v == [tx[s] EXCEPT !.pc = "inserted", !.intentAt = now]
    <3>1. tx[s] \in TxStates /\ now \in Nat
      BY TxTyped DEF TypeOK
    <3>2. v \in TxStates
      BY <3>1 DEF TxStates, Open
    <3>3. /\ v.pc = "inserted" /\ v.request = tx[s].request /\ v.beganAt = tx[s].beganAt
          /\ v.caps = tx[s].caps /\ v.retryAt = tx[s].retryAt
      BY <3>1 DEF TxStates
    <3>4. tx' = [tx EXCEPT ![s] = v] /\ lock' = s
      BY <1>2, <2>3 DEF Insert
    <3> HIDE DEF v
    <3>5. Inserts(s, v)
      BY <2>1, <2>3, <3>2, <3>3, <3>4 DEF Inserts, Move
    <3>6. QED
      BY <2>1, <3>2, <3>5
  <2>4. QED
    BY <2>2, <2>3
<1>3. CASE Admit(s)
  <2>1. UNCHANGED Others
    BY <1>3 DEF Admit, Count, Sum, Others
  <2>2. QED
    BY <1>3, <2>1, CountEffect, SumEffect DEF Admit
<1>4. CASE Commit(s)
  <2>1. End(s, "created") /\ "created" \in Ended /\ tx[s].pc \in Open
    BY <1>4 DEF Commit, Ended, Open
  <2>2. QED
    BY <1>4, <2>1, EndEffect
<1>5. CASE Fail(s)
  <2>1. End(s, "error") /\ "error" \in Ended /\ tx[s].pc \in Open /\ UNCHANGED Others
    BY <1>5 DEF Fail, Ended, Others
  <2>2. QED
    BY <2>1, EndEffect
<1>6. QED
  BY <1>1, <1>2, <1>3, <1>4, <1>5 DEF Submit

-----------------------------------------------------------------------------
(***************************************************************************)
(* The other steps, and what every step leaves as it was.                  *)
(***************************************************************************)
\* A submit's usage is recorded once, when it is.
RecordsOnce(s) ==
    \/ usage' = usage
    \/ usage[s] = None /\ \E record \in Records : record.at = now /\ usage' = [usage EXCEPT ![s] = record]

Settles(s, row) ==
    /\ gens[s].status \in Live
    /\ row \in Rows /\ row.status \in Settled
    /\ row.expiresAt = now + Retention /\ row.outcomeUnknownAt \in {None, now}
    /\ gens' = [gens EXCEPT ![s] = row]
    /\ unknownAt' = [unknownAt EXCEPT ![s] = row.outcomeUnknownAt]
    /\ RecordsOnce(s)
    /\ UNCHANGED <<now, tx, lock, summary>>

\* Usage is recorded once per generation, and never changed.
LEMMA CountedEffect ==
    ASSUME TypeOK, NEW s \in Submits, NEW tokens \in Tokens \cup {None}, Counted(s, tokens)
    PROVE  RecordsOnce(s)
<1> DEFINE record == [at |-> now, tokens |-> tokens]
<1>1. CASE usage[s] = None /\ tokens # None
  <2>1. record \in Records /\ record.at = now
    BY <1>1 DEF Records, TypeOK
  <2>2. usage' = [usage EXCEPT ![s] = record]
    BY <1>1 DEF Counted, TypeOK
  <2>3. QED
    BY <1>1, <2>1, <2>2 DEF RecordsOnce
<1>2. CASE ~(usage[s] = None /\ tokens # None)
  <2>1. usage' = usage
    BY <1>2 DEF Counted, TypeOK
  <2>2. QED
    BY <2>1 DEF RecordsOnce
<1>3. QED
  BY <1>1, <1>2

\* A settlement writes one live row, with what it says of the call.
LEMMA SettlesRow ==
    ASSUME TypeOK, NEW s \in Submits, SettleGeneration(s)
    PROVE  \E row \in Rows : Settles(s, row)
<1>1. PICK outcome \in Outcomes, tokens \in Tokens \cup {None} :
         gens' = [gens EXCEPT ![s] = Settle(gens[s], outcome, now)] /\ Counted(s, tokens)
  BY DEF SettleGeneration
<1> DEFINE row == Settle(gens[s], outcome, now)
<1>2. gens[s] \in Rows /\ now \in Nat
  BY DEF TypeOK
<1>3. /\ row \in Rows /\ row.status \in Settled /\ row.expiresAt = now + Retention
      /\ row.outcomeUnknownAt \in {None, now}
  BY <1>2, SettleEffect
<1>4. gens' = [gens EXCEPT ![s] = row] /\ gens'[s] = row
  BY <1>1 DEF TypeOK
<1>5. RecordsOnce(s)
  BY <1>1, CountedEffect
<1> HIDE DEF row
<1>6. unknownAt' = [unknownAt EXCEPT ![s] = row.outcomeUnknownAt]
  BY <1>4 DEF SettleGeneration
<1>7. gens[s].status \in Live /\ UNCHANGED <<now, tx, lock, summary>>
  BY DEF SettleGeneration
<1>8. QED
  BY <1>3, <1>4, <1>5, <1>6, <1>7 DEF Settles

Orphans(s) == InFlight(s) /\ RecordsOnce(s) /\ UNCHANGED <<now, gens, tx, lock, unknownAt, summary>>

\* The stop of an orphan records usage and settles nothing.
LEMMA OrphansUsage ==
    ASSUME TypeOK, NEW s \in Submits, OrphanUsage(s)
    PROVE  Orphans(s)
BY CountedEffect DEF OrphanUsage, Orphans, InFlight

Still == UNCHANGED <<now, gens, usage, tx, lock, unknownAt>>

\* A summary reads and changes nothing an admission reads.
LEMMA SummaryAlone ==
    ASSUME Summarise \/ SummaryRead \/ SummaryFails
    PROVE  Still
BY DEF Summarise, SummaryRead, SummaryFails, SummaryCount, SummarySum, Still

\* Every step of the specification is one of these.
LEMMA StepCases ==
    ASSUME Ground, [Next]_vars
    PROVE  \/ \E s \in Submits, v \in TxStates :
                 UNCHANGED Others /\ (Begins(s, v) \/ Inserts(s, v) \/ Passes(s, v) \/ Admits(s, v))
           \/ \E s \in Submits, v \in TxStates : UNCHANGED Others /\ Ends(s, v) /\ v.pc # "created"
           \/ \E s \in Submits, v \in TxStates : Commit(s) /\ Ends(s, v) /\ v.pc = "created"
           \/ \E s \in Submits, row \in Rows : Settles(s, row)
           \/ \E s \in Submits : Orphans(s)
           \/ Purge
           \/ Tick
           \/ Still
<1>1. CASE UNCHANGED vars
  BY <1>1 DEF vars, Still
<1>2. CASE Next
  BY <1>2, SubmitCases, SettlesRow, OrphansUsage, SummaryAlone DEF Next, Ground
<1>3. QED
  BY <1>1, <1>2

\* A transaction of a submit moves to a typed one, and no other transaction moves.
Changes(s, v) == v \in TxStates /\ tx' = [tx EXCEPT ![s] = v] /\ UNCHANGED <<now, usage, unknownAt, summary>>

\* Every step of a submit changes that submit alone, began no later than now, and keeps its request.
LEMMA ChangesTx ==
    ASSUME Ground, NEW s \in Submits, NEW v \in TxStates,
           \/ UNCHANGED Others /\ (Begins(s, v) \/ Inserts(s, v) \/ Passes(s, v) \/ Admits(s, v))
           \/ UNCHANGED Others /\ Ends(s, v) /\ v.pc # "created"
           \/ Commit(s) /\ Ends(s, v) /\ v.pc = "created"
    PROVE  /\ Changes(s, v)
           /\ v.pc # "idle" /\ v.beganAt =< now /\ tx[s].pc # "created"
           /\ tx[s].pc # "idle" => v.request = tx[s].request
<1> tx \in [Submits -> TxStates] /\ now \in Nat /\ tx[s].beganAt =< now
  BY TxTyped DEF Ground, TypeOK, BeganBefore
<1>1. CASE UNCHANGED Others /\ Begins(s, v)
  BY <1>1 DEF Others, Changes, Begins, Move
<1>2. CASE UNCHANGED Others /\ Inserts(s, v)
  BY <1>2 DEF Others, Changes, Inserts, Move
<1>3. CASE UNCHANGED Others /\ Passes(s, v)
  <2>1. v.request = tx[s].request /\ v.beganAt = tx[s].beganAt /\ v.pc = "counted"
    BY <1>3 DEF Passes, TxStates
  <2>2. QED
    BY <1>3, <2>1 DEF Others, Changes, Passes, Move
<1>4. CASE UNCHANGED Others /\ Admits(s, v)
  <2>1. v.request = tx[s].request /\ v.beganAt = tx[s].beganAt /\ v.pc = "admitted"
    BY <1>4 DEF Admits, TxStates
  <2>2. QED
    BY <1>4, <2>1 DEF Others, Changes, Admits, Move
<1>5. CASE UNCHANGED <<now, usage, unknownAt, summary>> /\ Ends(s, v)
  BY <1>5 DEF Changes, Ends, Open, Ended
<1>6. QED
  BY <1>1, <1>2, <1>3, <1>4, <1>5 DEF Others, Commit

\* Time does not go back.
LEMMA ClockStep ==
    ASSUME Ground, [Next]_vars
    PROVE  now' \in Nat /\ now =< now'
<1> now \in Nat
  BY DEF Ground, TypeOK
<1>1. now' = now \/ now' = now + 1
  BY StepCases, ChangesTx DEF Changes, Settles, Orphans, Purge, Tick, Still
<1>2. QED
  BY <1>1

\* A submit that began keeps its request, and once created stays so.
LEMMA RequestKept ==
    ASSUME Ground, [Next]_vars, NEW t \in Submits
    PROVE  /\ tx[t].pc # "idle" => tx'[t].pc # "idle" /\ tx'[t].request = tx[t].request
           /\ tx[t].pc = "created" => tx'[t] = tx[t]
<1> tx \in [Submits -> TxStates]
  BY TxTyped DEF Ground
<1>1. CASE tx' = tx
  BY <1>1
<1>2. ASSUME NEW s \in Submits, NEW v \in TxStates, Changes(s, v), v.pc # "idle", tx[s].pc # "created",
             tx[s].pc # "idle" => v.request = tx[s].request
      PROVE  /\ tx[t].pc # "idle" => tx'[t].pc # "idle" /\ tx'[t].request = tx[t].request
             /\ tx[t].pc = "created" => tx'[t] = tx[t]
  <2>1. CASE t = s
    BY <1>2, <2>1 DEF Changes
  <2>2. CASE t # s
    BY <1>2, <2>2 DEF Changes
  <2>3. QED
    BY <2>1, <2>2
<1>3. QED
  BY <1>1, <1>2, StepCases, ChangesTx DEF Settles, Orphans, Purge, Tick, Still

\* Its purpose is its request's.
LEMMA PurposeKept ==
    ASSUME Ground, [Next]_vars, NEW t \in Submits, tx[t].pc # "idle"
    PROVE  Purpose(t)' = Purpose(t)
BY RequestKept DEF Purpose

\* Usage is recorded once, at the instant it is recorded, and only for a generation in flight.
LEMMA UsageKept ==
    ASSUME Ground, [Next]_vars, NEW t \in Submits
    PROVE  \/ usage'[t] = usage[t]
           \/ usage[t] = None /\ InFlight(t) /\ usage'[t] \in Records /\ usage'[t].at = now /\ now' = now
<1> usage \in [Submits -> {None} \cup Records]
  BY DEF Ground, TypeOK, Records
<1>1. CASE usage' = usage
  BY <1>1
<1>2. ASSUME NEW s \in Submits, RecordsOnce(s), InFlight(s), now' = now
      PROVE  \/ usage'[t] = usage[t]
             \/ usage[t] = None /\ InFlight(t) /\ usage'[t] \in Records /\ usage'[t].at = now /\ now' = now
  BY <1>2 DEF RecordsOnce
<1>3. ASSUME NEW s \in Submits, NEW row \in Rows, Settles(s, row)
      PROVE  RecordsOnce(s) /\ InFlight(s) /\ now' = now
  BY <1>3 DEF Settles, InFlight
<1>4. ASSUME NEW s \in Submits, Orphans(s)
      PROVE  RecordsOnce(s) /\ InFlight(s) /\ now' = now
  BY <1>4 DEF Orphans
<1>5. QED
  BY <1>1, <1>2, <1>3, <1>4, StepCases, ChangesTx DEF Changes, Purge, Tick, Still

\* Only a commit puts a generation in flight.
LEMMA FlightKept ==
    ASSUME Ground, [Next]_vars, NEW t \in Submits, InFlight(t)'
    PROVE  InFlight(t) \/ Commit(t)
<1> gens \in [Submits -> Rows] /\ unknownAt \in [Submits -> Instants] /\ now \in Nat
  BY DEF Ground, TypeOK
<1>1. CASE UNCHANGED <<now, gens, unknownAt>>
  BY <1>1 DEF InFlight
<1>2. ASSUME NEW s \in Submits, Commit(s) PROVE InFlight(t) \/ Commit(t)
  <2>1. CASE t = s
    BY <1>2, <2>1
  <2>2. CASE t # s
    BY <1>2, <2>2 DEF Commit, InFlight
  <2>3. QED
    BY <2>1, <2>2
<1>3. ASSUME NEW s \in Submits, NEW row \in Rows, Settles(s, row) PROVE InFlight(t)
  <2>1. CASE t = s
    BY <1>3, <2>1 DEF Settles, InFlight
  <2>2. CASE t # s
    BY <1>3, <2>2 DEF Settles, InFlight
  <2>3. QED
    BY <2>1, <2>2
<1>4. CASE Purge
  BY <1>4 DEF Purge, InFlight, AbsentRow, PendingRow, Live
<1>5. CASE Tick
  BY <1>5, HoldAssumption, NoneAssumption DEF Tick, InFlight, Instants
<1>6. QED
  BY <1>1, <1>2, <1>3, <1>4, <1>5, StepCases DEF Others, Orphans, Still

-----------------------------------------------------------------------------
(***************************************************************************)
(* The ground every other invariant stands on.                             *)
(***************************************************************************)
SummaryStates ==
    [pc : {"idle", "asked", "counted", "answered", "error"}, purpose : Purposes \cup {None},
     window : Summaries \cup {None}, from : Int \cup {None}, counted : SUBSET Submits,
     summed : SUBSET Submits, live : SUBSET Submits]

\* A summary holds generations that exist and a window the code may ask for.
LEMMA SummaryTyped ==
    ASSUME TypeOK, [Next]_vars
    PROVE  summary' \in SummaryStates
<1> summary \in SummaryStates /\ now \in Nat
  BY DEF TypeOK, SummaryStates
<1>1. NoSummary \in SummaryStates
  BY DEF NoSummary, SummaryStates
<1>2. CASE UNCHANGED summary
  BY <1>2
<1>3. CASE Summarise
  <2>1. PICK purpose \in Purposes, window \in Summaries :
           summary' = [NoSummary EXCEPT !.pc = "asked", !.purpose = purpose, !.window = window,
                          !.live = {s \in Submits : InFlight(s) /\ Purpose(s) = purpose}]
    BY <1>3 DEF Summarise
  <2> DEFINE live == {s \in Submits : InFlight(s) /\ Purpose(s) = purpose}
  <2>2. live \in SUBSET Submits
    OBVIOUS
  <2> HIDE DEF live
  <2>3. [NoSummary EXCEPT !.pc = "asked", !.purpose = purpose, !.window = window, !.live = live]
          \in SummaryStates
    BY <1>1, <2>2 DEF SummaryStates
  <2>4. QED
    BY <2>1, <2>3 DEF live
<1>4. ASSUME NEW from, NEW to \in {"counted", "answered"}, SummaryCount(from, to)
      PROVE  summary' \in SummaryStates
  <2> DEFINE counted == CountLive(summary.purpose, now)
  <2>1. counted \in SUBSET Submits /\ summary' = [summary EXCEPT !.pc = to, !.counted = counted]
    BY <1>4 DEF SummaryCount, CountLive
  <2> HIDE DEF counted
  <2>2. QED
    BY <2>1 DEF SummaryStates
<1>5. ASSUME summary.window # None, SummarySum("counted", "answered")
      PROVE  summary' \in SummaryStates
  <2> DEFINE summed == InWindow(summary.purpose, now, summary.window)
             start  == now - summary.window
  <2>1. /\ summed \in SUBSET Submits
        /\ summary' = [summary EXCEPT !.pc = "answered", !.from = start, !.summed = summed]
    BY <1>5 DEF SummarySum, InWindow
  <2>2. summary.window \in Nat
    BY <1>5, CapsAssumption DEF SummaryStates
  <2>3. start \in Int
    BY <2>2
  <2> HIDE DEF summed, start
  <2>4. QED
    BY <2>1, <2>3 DEF SummaryStates
<1>6. CASE SummaryFails
  BY <1>1, <1>6 DEF SummaryFails, SummaryStates
<1>7. CASE SummaryRead
  BY <1>4, <1>5, <1>7 DEF SummaryRead
<1>8. Next => UNCHANGED summary \/ Summarise \/ SummaryRead \/ SummaryFails
  BY DEF Next, Submit, Begin, Insert, Admit, Count, Sum, Commit, Fail, SettleGeneration, OrphanUsage,
     Purge, Tick
<1>9. QED
  BY <1>2, <1>3, <1>6, <1>7, <1>8 DEF vars

\* Every step keeps every variable's type.
LEMMA TypeStep == ASSUME Ground, [Next]_vars PROVE TypeOK'
<1> TypeOK
  BY DEF Ground
<1>1. now' \in Nat
  BY ClockStep
<1>2. gens' \in [Submits -> Rows]
  <2>1. CASE gens' = gens
    BY <2>1 DEF TypeOK
  <2>2. ASSUME NEW s \in Submits, Commit(s) PROVE gens' \in [Submits -> Rows]
    <3>1. tx[s].intentAt \in Instants
      BY TxTyped DEF TxStates, Instants
    <3>2. PendingRow(tx[s].intentAt, FALSE) \in Rows
      BY <3>1, PendingType
    <3>3. QED
      BY <2>2, <3>2 DEF Commit, TypeOK
  <2>3. ASSUME NEW s \in Submits, NEW row \in Rows, Settles(s, row) PROVE gens' \in [Submits -> Rows]
    BY <2>3 DEF Settles, TypeOK
  <2>4. CASE Purge
    <3>1. AbsentRow \in Rows
      BY PendingType DEF Instants
    <3>2. QED
      BY <2>4, <3>1 DEF Purge, TypeOK
  <2>5. QED
    BY <2>1, <2>2, <2>3, <2>4, StepCases DEF Others, Orphans, Tick, Still
<1>3. usage' \in [Submits -> {None} \cup Records]
  <2>1. ASSUME NEW s \in Submits, RecordsOnce(s) PROVE usage' \in [Submits -> {None} \cup Records]
    BY <2>1 DEF RecordsOnce, TypeOK, Records
  <2>2. CASE usage' = usage
    BY <2>2 DEF TypeOK, Records
  <2>3. QED
    BY <2>1, <2>2, StepCases, ChangesTx DEF Changes, Settles, Orphans, Purge, Tick, Still
<1>4. tx' \in [Submits -> TxStates]
  <2>1. CASE tx' = tx
    BY <2>1, TxTyped
  <2>2. ASSUME NEW s \in Submits, NEW v \in TxStates, Changes(s, v) PROVE tx' \in [Submits -> TxStates]
    BY <2>2, TxTyped DEF Changes
  <2>3. QED
    BY <2>1, <2>2, StepCases, ChangesTx DEF Settles, Orphans, Purge, Tick, Still
<1>5. lock' \in Submits \cup {None}
  <2>1. CASE lock' = lock
    BY <2>1 DEF TypeOK
  <2>2. ASSUME NEW s \in Submits, NEW v \in TxStates, Inserts(s, v) \/ Ends(s, v)
        PROVE  lock' \in Submits \cup {None}
    BY <2>2 DEF Inserts, Ends, TypeOK
  <2>3. QED
    BY <2>1, <2>2, StepCases DEF Begins, Passes, Admits, Settles, Orphans, Purge, Tick, Still
<1>6. unknownAt' \in [Submits -> Instants]
  <2>1. CASE unknownAt' = unknownAt
    BY <2>1 DEF TypeOK
  <2>2. ASSUME NEW s \in Submits, NEW row \in Rows, Settles(s, row) PROVE unknownAt' \in [Submits -> Instants]
    BY <2>2 DEF Settles, TypeOK, Instants
  <2>3. QED
    BY <2>1, <2>2, StepCases, ChangesTx DEF Changes, Orphans, Purge, Tick, Still
<1>7. summary' \in SummaryStates
  BY SummaryTyped
<1>8. QED
  BY <1>1, <1>2, <1>3, <1>4, <1>5, <1>6, <1>7 DEF TypeOK, Records, TxStates, Windows, SummaryStates

\* The lock goes from the transaction that holds it to none, and from none to the one that inserts.
LEMMA LockStep == ASSUME Ground, [Next]_vars PROVE LockHeld'
<1> LockHeld /\ tx \in [Submits -> TxStates] /\ None \notin Submits
  BY TxTyped, CapsAssumption DEF Ground
<1>1. CASE UNCHANGED <<tx, lock>>
  BY <1>1 DEF LockHeld
<1>2. ASSUME NEW s \in Submits, NEW v \in TxStates, tx' = [tx EXCEPT ![s] = v],
             lock' = s <=> v.pc \in Holding, \A q \in Submits \ {s} : lock' = q <=> lock = q
      PROVE  LockHeld'
  <2>1. SUFFICES ASSUME NEW q \in Submits PROVE lock' = q <=> tx'[q].pc \in Holding
    BY DEF LockHeld
  <2>2. CASE q = s
    BY <1>2, <2>2
  <2>3. CASE q # s
    BY <1>2, <2>3 DEF LockHeld
  <2>4. QED
    BY <2>2, <2>3
<1>3. ASSUME NEW s \in Submits, NEW v \in TxStates, Begins(s, v) PROVE LockHeld'
  <2>1. lock' = lock /\ lock # s /\ v.pc \notin Holding
    BY <1>3 DEF Begins, Move, LockHeld, Holding
  <2>2. QED
    BY <1>2, <1>3, <2>1 DEF Begins, Move
<1>4. ASSUME NEW s \in Submits, NEW v \in TxStates, Inserts(s, v) PROVE LockHeld'
  BY <1>2, <1>4 DEF Inserts, Move, Holding
<1>5. ASSUME NEW s \in Submits, NEW v \in TxStates, Passes(s, v) \/ Admits(s, v) PROVE LockHeld'
  <2>1. lock' = lock /\ v.pc \in Holding /\ tx[s].pc \in Holding
    BY <1>5 DEF Passes, Admits, Move, Holding, TxStates
  <2>2. lock = s
    BY <2>1 DEF LockHeld
  <2>3. tx' = [tx EXCEPT ![s] = v]
    BY <1>5 DEF Passes, Admits, Move
  <2>4. QED
    BY <1>2, <2>1, <2>2, <2>3
<1>6. ASSUME NEW s \in Submits, NEW v \in TxStates, Ends(s, v) PROVE LockHeld'
  <2>1. v.pc \notin Holding
    BY <1>6 DEF Ends, Ended, Holding
  <2>2. lock' # s /\ \A q \in Submits \ {s} : lock' = q <=> lock = q
    BY <1>6 DEF Ends
  <2>3. QED
    BY <1>2, <1>6, <2>1, <2>2 DEF Ends
<1>7. QED
  BY <1>1, <1>3, <1>4, <1>5, <1>6, StepCases DEF Settles, Orphans, Purge, Tick, Still

\* What a step stores, leaves unseen or records is of a committed generation.
LEMMA CommittedStep == ASSUME Ground, [Next]_vars PROVE OnlyCommitted'
<1> TypeOK /\ OnlyCommitted
  BY DEF Ground
<1>1. SUFFICES ASSUME NEW t \in Submits,
                      gens'[t].status # "absent" \/ unknownAt'[t] # None \/ usage'[t] # None
               PROVE  tx'[t].pc = "created"
  BY DEF OnlyCommitted
<1>2. CASE tx[t].pc = "created"
  BY <1>2, RequestKept
<1>3. CASE tx[t].pc # "created"
  <2>1. gens[t].status = "absent" /\ unknownAt[t] = None /\ usage[t] = None /\ ~InFlight(t)
    BY <1>3 DEF OnlyCommitted, InFlight, Live
  <2>2. usage'[t] = None
    BY <2>1, UsageKept
  <2>3. ASSUME NEW s \in Submits, NEW v \in TxStates, Commit(s), Ends(s, v), v.pc = "created"
        PROVE  tx'[t].pc = "created"
    <3>1. unknownAt' = unknownAt /\ gens' = [gens EXCEPT ![s] = PendingRow(tx[s].intentAt, FALSE)]
      BY <2>3 DEF Commit
    <3>2. gens \in [Submits -> Rows] /\ tx \in [Submits -> TxStates]
      BY TxTyped DEF TypeOK
    <3>3. t # s => gens'[t] = gens[t]
      BY <3>1, <3>2
    <3>4. t = s
      BY <1>1, <2>1, <2>2, <3>1, <3>3
    <3>5. QED
      BY <2>3, <3>2, <3>4 DEF Ends
  <2>4. ASSUME NEW s \in Submits, NEW row \in Rows, Settles(s, row) PROVE FALSE
    <3>1. gens[s].status \in Live
      BY <2>4 DEF Settles
    <3>2. t # s
      BY <2>1, <3>1 DEF Live
    <3>3. gens'[t] = gens[t] /\ unknownAt'[t] = unknownAt[t]
      BY <2>4, <3>2 DEF Settles
    <3>4. QED
      BY <1>1, <2>1, <2>2, <3>3
  <2>5. CASE Purge
    <3>1. gens'[t].status = "absent" /\ unknownAt' = unknownAt
      BY <2>1, <2>5 DEF Purge, AbsentRow, PendingRow
    <3>2. QED
      BY <1>1, <2>1, <2>2, <3>1
  <2>6. ~(UNCHANGED <<gens, unknownAt>>)
    BY <1>1, <2>1, <2>2
  <2>7. QED
    BY <2>3, <2>4, <2>5, <2>6, StepCases DEF Others, Orphans, Tick, Still
<1>4. QED
  BY <1>2, <1>3

\* A row that says its call was left running unseen says so until its retention is over.
LEMMA UnknownStep == ASSUME Ground, [Next]_vars PROVE UnknownKept'
<1> /\ gens \in [Submits -> Rows] /\ unknownAt \in [Submits -> Instants] /\ now \in Nat
    /\ UnknownKept /\ OnlyCommitted
  BY DEF Ground, TypeOK
<1> DEFINE Kept(t) == unknownAt[t] # None =>
              /\ gens[t].status \notin Live
              /\ IF gens[t].status = "absent"
                   THEN unknownAt[t] + Retention < now
                   ELSE /\ gens[t].outcomeUnknownAt = unknownAt[t]
                        /\ gens[t].expiresAt = unknownAt[t] + Retention
<1>1. SUFFICES ASSUME NEW t \in Submits, unknownAt'[t] # None PROVE Kept(t)'
  BY DEF UnknownKept
<1>2. Kept(t) /\ now' \in Nat /\ now =< now' /\ Retention \in Nat
  BY ClockStep, RetentionAssumption DEF UnknownKept
<1>3. CASE gens'[t] = gens[t] /\ unknownAt'[t] = unknownAt[t]
  <2>1. unknownAt[t] \in Nat
    BY <1>1, <1>3 DEF Instants
  <2>2. QED
    BY <1>1, <1>2, <1>3, <2>1
<1>4. ASSUME NEW s \in Submits, Commit(s) PROVE Kept(t)'
  <2>1. tx[s].pc = "admitted" /\ unknownAt' = unknownAt
    BY <1>4 DEF Commit
  <2>2. t # s
    BY <1>1, <2>1 DEF OnlyCommitted
  <2>3. gens'[t] = gens[t]
    BY <1>4, <2>2 DEF Commit
  <2>4. QED
    BY <1>3, <2>1, <2>3
<1>5. ASSUME NEW s \in Submits, NEW row \in Rows, Settles(s, row) PROVE Kept(t)'
  <2>1. CASE t = s
    <3>1. gens'[t] = row /\ unknownAt'[t] = row.outcomeUnknownAt /\ row.outcomeUnknownAt = now
      BY <1>1, <1>5, <2>1 DEF Settles
    <3>2. row.status \in Settled /\ row.expiresAt = now + Retention
      BY <1>5 DEF Settles
    <3>3. QED
      BY <3>1, <3>2 DEF Settled, Live
  <2>2. CASE t # s
    BY <1>3, <1>5, <2>2 DEF Settles
  <2>3. QED
    BY <2>1, <2>2
<1>6. CASE Purge
  <2>1. PICK batch \in SUBSET Expired : gens' = [s \in Submits |-> IF s \in batch THEN AbsentRow ELSE gens[s]]
    BY <1>6 DEF Purge
  <2>2. unknownAt' = unknownAt /\ now' = now
    BY <1>6 DEF Purge
  <2>3. CASE t \in batch
    <3>1. gens[t].expiresAt < now
      BY <2>1, <2>3 DEF Expired
    <3>2. gens'[t].status = "absent"
      BY <2>1, <2>3 DEF AbsentRow, PendingRow
    <3>3. unknownAt[t] + Retention < now
      BY <1>1, <1>2, <2>2, <3>1
    <3>4. QED
      BY <2>2, <3>2, <3>3 DEF Live
  <2>4. CASE t \notin batch
    BY <1>3, <2>1, <2>2, <2>4
  <2>5. QED
    BY <2>3, <2>4
<1>7. CASE UNCHANGED <<gens, unknownAt>>
  BY <1>3, <1>7
<1>8. QED
  BY <1>4, <1>5, <1>6, <1>7, StepCases DEF Others, Orphans, Tick, Still

\* A submit that moves was begun by then, and one step begins at most one.
LEMMA BeganStep == ASSUME Ground, [Next]_vars PROVE BeganBefore' /\ IsFiniteSet(Begun)'
<1> TypeOK /\ BeganBefore /\ IsFiniteSet(Begun) /\ tx \in [Submits -> TxStates]
  BY TxTyped DEF Ground
<1>1. now \in Nat /\ now' \in Nat /\ now =< now'
  BY ClockStep DEF TypeOK
<1>2. CASE tx' = tx
  <2>1. \A s \in Submits : tx[s].beganAt \in Nat /\ tx[s].beganAt =< now
    BY DEF BeganBefore, TxStates
  <2>2. BeganBefore'
    BY <1>1, <1>2, <2>1 DEF BeganBefore
  <2>3. QED
    BY <1>2, <2>2 DEF Begun
<1>3. ASSUME NEW s \in Submits, NEW v \in TxStates, Changes(s, v), v.beganAt =< now
      PROVE  BeganBefore' /\ IsFiniteSet(Begun)'
  <2>1. tx' = [tx EXCEPT ![s] = v] /\ now' = now
    BY <1>3 DEF Changes
  <2>2. BeganBefore'
    BY <1>3, <2>1 DEF BeganBefore
  <2>3. Begun' \in SUBSET (Begun \cup {s})
    BY <2>1 DEF Begun
  <2>4. QED
    BY <2>2, <2>3, FS_AddElement, FS_Subset
<1>4. QED
  BY <1>2, <1>3, StepCases, ChangesTx DEF Settles, Orphans, Purge, Tick, Still

\* Every step keeps what admission rests on: types, lock, rows, instants, finiteness.
LEMMA GroundStep == ASSUME Ground, [Next]_vars PROVE Ground'
BY TypeStep, LockStep, CommittedStep, UnknownStep, BeganStep DEF Ground

\* An owner without generations satisfies it.
LEMMA GroundInit == ASSUME Init PROVE Ground
<1>1. NoTx \in TxStates /\ NoSummary \in SummaryStates /\ AbsentRow \in Rows /\ None \in Instants
  BY PendingType DEF NoTx, TxStates, NoSummary, SummaryStates, Instants
<1>2. TypeOK
  BY <1>1 DEF Init, TypeOK, TxStates, Windows, SummaryStates
<1>3. LockHeld
  BY CapsAssumption DEF Init, LockHeld, NoTx, Holding
<1>4. OnlyCommitted /\ UnknownKept /\ BeganBefore
  BY DEF Init, OnlyCommitted, UnknownKept, BeganBefore, NoTx, AbsentRow, PendingRow
<1>5. Begun = {}
  BY DEF Init, Begun, NoTx
<1>6. QED
  BY <1>2, <1>3, <1>4, <1>5, FS_EmptySet DEF Ground

-----------------------------------------------------------------------------
(***************************************************************************)
(* One generation per request.                                             *)
(***************************************************************************)
\* Only the submit that holds the lock can commit.
LEMMA CommitHolds ==
    ASSUME Ground, NEW t \in Submits, Commit(t)
    PROVE  tx[t].pc = "admitted" /\ lock = t
BY DEF Ground, LockHeld, Commit, Holding

\* A transaction that holds the lock after a step held it before, or inserts.
LEMMA HoldsSince ==
    ASSUME Ground, [Next]_vars, NEW s \in Submits, tx'[s].pc \in Holding
    PROVE  /\ tx'[s].request = tx[s].request /\ tx'[s].caps = tx[s].caps
           /\ tx'[s].beganAt = tx[s].beganAt
           /\ ~\E t \in Submits : Commit(t)
           /\ \/ tx'[s].pc = tx[s].pc
              \/ tx'[s].pc = "inserted" /\ \E v \in TxStates : UNCHANGED Others /\ Inserts(s, v)
              \/ tx'[s].pc = "counted" /\ \E v \in TxStates : UNCHANGED Others /\ Passes(s, v)
              \/ tx'[s].pc = "admitted" /\ \E v \in TxStates : UNCHANGED Others /\ Admits(s, v)
<1> tx \in [Submits -> TxStates] /\ LockHeld /\ None \notin Submits
  BY TxTyped, CapsAssumption DEF Ground
<1>1. lock' = s
  BY LockStep DEF LockHeld
<1>2. ASSUME NEW t \in Submits, Commit(t) PROVE FALSE
  <2>1. lock = t /\ lock' = None
    BY <1>2, CommitHolds DEF Commit, End
  <2>2. QED
    BY <1>1, <2>1
<1>3. CASE tx' = tx
  BY <1>2, <1>3
<1>4. ASSUME NEW t \in Submits, NEW v \in TxStates, UNCHANGED Others,
             Begins(t, v) \/ Inserts(t, v) \/ Passes(t, v) \/ Admits(t, v)
      PROVE  /\ tx'[s].request = tx[s].request /\ tx'[s].caps = tx[s].caps
             /\ tx'[s].beganAt = tx[s].beganAt
             /\ \/ tx'[s].pc = tx[s].pc
                \/ tx'[s].pc = "inserted" /\ \E w \in TxStates : UNCHANGED Others /\ Inserts(s, w)
                \/ tx'[s].pc = "counted" /\ \E w \in TxStates : UNCHANGED Others /\ Passes(s, w)
                \/ tx'[s].pc = "admitted" /\ \E w \in TxStates : UNCHANGED Others /\ Admits(s, w)
  <2>1. tx' = [tx EXCEPT ![t] = v]
    BY <1>4 DEF Begins, Inserts, Passes, Admits, Move
  <2>2. CASE t # s
    BY <2>1, <2>2
  <2>3. CASE t = s
    <3>1. tx'[s] = v
      BY <2>1, <2>3
    <3>2. ~Begins(s, v)
      BY <3>1 DEF Begins, Holding
    <3>3. CASE Inserts(s, v)
      BY <1>4, <3>1, <3>3 DEF Inserts
    <3>4. CASE Passes(s, v)
      <4>1. /\ v.request = tx[s].request /\ v.caps = tx[s].caps /\ v.beganAt = tx[s].beganAt
            /\ v.pc = "counted"
        BY <3>4 DEF Passes, TxStates
      <4>2. QED
        BY <1>4, <3>1, <3>4, <4>1
    <3>5. CASE Admits(s, v)
      <4>1. /\ v.request = tx[s].request /\ v.caps = tx[s].caps /\ v.beganAt = tx[s].beganAt
            /\ v.pc = "admitted"
        BY <3>5 DEF Admits, TxStates
      <4>2. QED
        BY <1>4, <3>1, <3>5, <4>1
    <3>6. QED
      BY <1>4, <2>3, <3>2, <3>3, <3>4, <3>5
  <2>4. QED
    BY <2>2, <2>3
<1>5. ASSUME NEW t \in Submits, NEW v \in TxStates, Ends(t, v) PROVE tx'[s] = tx[s]
  <2>1. tx' = [tx EXCEPT ![t] = v] /\ v.pc \notin Holding
    BY <1>5 DEF Ends, Ended, Holding
  <2>2. t # s
    BY <2>1
  <2>3. QED
    BY <2>1, <2>2
<1>6. QED
  BY <1>2, <1>3, <1>4, <1>5, StepCases DEF Settles, Orphans, Purge, Tick, Still

\* The generations the unique index covers.
Indexed(t) == gens[t].status \in Live \cup {"succeeded"}

\* The index comes to cover a generation by its commit alone: a settlement or a purge only frees it.
LEMMA IndexedKept ==
    ASSUME Ground, [Next]_vars, NEW t \in Submits, Indexed(t)'
    PROVE  (Indexed(t) /\ tx'[t].request = tx[t].request) \/ Commit(t)
<1> gens \in [Submits -> Rows] /\ OnlyCommitted
  BY DEF Ground, TypeOK
<1>1. CASE Indexed(t)
  <2>1. tx[t].pc = "created"
    BY <1>1 DEF OnlyCommitted, Indexed, Live
  <2>2. QED
    BY <1>1, <2>1, RequestKept
<1>2. CASE ~Indexed(t)
  <2>1. gens'[t] # gens[t]
    BY <1>2 DEF Indexed
  <2>2. ASSUME NEW s \in Submits, Commit(s) PROVE Commit(t)
    <3>1. t = s
      BY <2>1, <2>2 DEF Commit
    <3>2. QED
      BY <2>2, <3>1
  <2>3. ASSUME NEW s \in Submits, NEW row \in Rows, Settles(s, row) PROVE FALSE
    <3>1. t = s
      BY <2>1, <2>3 DEF Settles
    <3>2. QED
      BY <1>2, <2>3, <3>1 DEF Settles, Indexed
  <2>4. CASE Purge
    BY <2>1, <2>4 DEF Purge, AbsentRow, PendingRow, Live, Indexed
  <2>5. QED
    BY <2>1, <2>2, <2>3, <2>4, StepCases DEF Others, Orphans, Tick, Still
<1>3. QED
  BY <1>1, <1>2

\* While a submit holds the lock nobody commits a generation of its request.
LEMMA UnopposedStep ==
    ASSUME Ground, Unopposed, [Next]_vars
    PROVE  Unopposed'
<1>1. SUFFICES ASSUME NEW s \in Submits, NEW t \in Submits, tx'[s].pc \in Holding,
                      Indexed(t)', tx'[t].request = tx'[s].request
               PROVE  FALSE
  BY DEF Unopposed, Conflict, Indexed
<1>2. tx'[s].request = tx[s].request /\ ~Commit(t)
  BY <1>1, HoldsSince
<1>3. Conflict(t, tx[s].request)
  BY <1>1, <1>2, IndexedKept DEF Conflict, Indexed
<1>4. ~Conflict(t, tx[s].request)
  <2>1. CASE tx[s].pc \in Holding
    BY <2>1 DEF Unopposed
  <2>2. CASE tx[s].pc \notin Holding
    BY <1>1, <2>2, HoldsSince DEF Inserts, Passes, Admits, Move, Holding
  <2>3. QED
    BY <2>1, <2>2
<1>5. QED
  BY <1>3, <1>4

\* A commit never adds a second generation that runs or succeeded for its request.
LEMMA OneRunStep ==
    ASSUME Ground, Unopposed, OneRunPerRequest, [Next]_vars
    PROVE  OneRunPerRequest'
<1>1. SUFFICES ASSUME NEW s \in Submits, NEW t \in Submits, s # t, Indexed(s)', Indexed(t)',
                      tx'[s].request = tx'[t].request
               PROVE  FALSE
  BY DEF OneRunPerRequest, Indexed
<1>2. ~(Commit(s) /\ Commit(t))
  BY <1>1, CommitHolds
<1>3. CASE ~Commit(s) /\ ~Commit(t)
  <2>1. Indexed(s) /\ Indexed(t) /\ tx[s].request = tx[t].request
    BY <1>1, <1>3, IndexedKept
  <2>2. QED
    BY <1>1, <2>1 DEF OneRunPerRequest, Indexed
<1>4. ASSUME NEW p \in Submits, NEW q \in Submits, Commit(p), ~Commit(q), Indexed(q)',
             tx'[p].request = tx'[q].request
      PROVE  FALSE
  <2>1. Indexed(q) /\ tx'[q].request = tx[q].request
    BY <1>4, IndexedKept
  <2>2. tx[p].pc = "admitted" /\ tx[p].pc # "idle"
    BY <1>4, CommitHolds
  <2>3. tx'[p].request = tx[p].request
    BY <2>2, RequestKept
  <2>4. Conflict(q, tx[p].request)
    BY <1>4, <2>1, <2>3 DEF Conflict, Indexed
  <2>5. QED
    BY <2>2, <2>4 DEF Unopposed, Holding
<1>5. QED
  BY <1>1, <1>2, <1>3, <1>4

-----------------------------------------------------------------------------
(***************************************************************************)
(* The concurrency cap.                                                    *)
(***************************************************************************)
\* A count taken at an instant already past counts every generation in flight: one left running unseen
\* is still stored, because the hold is no longer than the retention.
LEMMA FlightIsCounted ==
    ASSUME Ground, NEW at \in Nat, at =< now, NEW t \in Submits, InFlight(t)
    PROVE  t \in CountLive(Purpose(t), at)
<1>1. CASE gens[t].status \in Live
  BY <1>1 DEF CountLive, Live
<1>2. CASE gens[t].status \notin Live
  <2>1. /\ unknownAt[t] \in Nat /\ unknownAt[t] # None /\ now \in Nat /\ now - unknownAt[t] < Hold
        /\ Hold \in Nat /\ Retention \in Nat /\ Hold =< Retention
    BY <1>2, HoldAssumption, RetentionAssumption DEF InFlight, Ground, TypeOK, Instants
  <2>2. gens[t].status # "absent" /\ gens[t].outcomeUnknownAt = unknownAt[t]
    BY <2>1 DEF Ground, UnknownKept
  <2>3. unknownAt[t] > at - Hold
    BY <2>1
  <2>4. QED
    BY <2>1, <2>2, <2>3 DEF CountLive
<1>3. QED
  BY <1>1, <1>2

\* What is in flight of one purpose grows by what commits.
LEMMA FlyingStep ==
    ASSUME Ground, [Next]_vars, NEW purpose
    PROVE  Flying(purpose)' \subseteq Flying(purpose) \cup {t \in Submits : Commit(t)}
<1>1. SUFFICES ASSUME NEW t \in Submits, InFlight(t)', Purpose(t)' = purpose, ~Commit(t)
               PROVE  InFlight(t) /\ Purpose(t) = purpose
  BY DEF Flying
<1>2. InFlight(t)
  BY <1>1, FlightKept
<1>3. tx[t].pc = "created"
  BY <1>2 DEF Ground, OnlyCommitted, InFlight, Live
<1>4. QED
  BY <1>1, <1>2, <1>3, PurposeKept

\* What a submit counted stays within its cap until it commits, purges and settlements included.
LEMMA CountStandsStep ==
    ASSUME Ground, CountStands, [Next]_vars
    PROVE  CountStands'
<1> tx \in [Submits -> TxStates]
  BY TxTyped DEF Ground
<1>1. SUFFICES ASSUME NEW s \in Submits, tx'[s].pc \in {"counted", "admitted"},
                      tx'[s].caps.concurrency # None
               PROVE  Cardinality(Flying(Purpose(s)) \cup {s})' =< tx'[s].caps.concurrency
  BY DEF CountStands
<1>2. /\ tx'[s].request = tx[s].request /\ tx'[s].caps = tx[s].caps /\ tx'[s].pc # "inserted"
      /\ ~\E t \in Submits : Commit(t)
  BY <1>1, HoldsSince DEF Holding
<1> DEFINE P   == Purpose(s)
           cap == tx[s].caps.concurrency
<1>3. Purpose(s)' = P
  BY <1>2 DEF Purpose
<1>4. (Flying(Purpose(s)) \cup {s})' \in SUBSET (Flying(P) \cup {s})
  BY <1>2, <1>3, FlyingStep
<1>5. IsFiniteSet(Flying(P) \cup {s})
  BY CountsAreFinite, FS_AddElement
<1>6. Cardinality(Flying(P) \cup {s}) =< cap /\ cap \in Nat
  <2>1. cap \in Nat
    <3>1. tx[s].caps \in CapChoices \cup {NoCaps}
      BY DEF TxStates
    <3>2. QED
      BY <1>1, <1>2, <3>1, CapsAssumption DEF NoCaps, Limits
  <2>2. CASE tx[s].pc \in {"counted", "admitted"}
    BY <1>1, <1>2, <2>1, <2>2 DEF CountStands
  <2>3. CASE tx[s].pc \notin {"counted", "admitted"}
    <3>1. PICK v \in TxStates : Passes(s, v)
      BY <1>1, <2>3, HoldsSince DEF Admits, Move, Holding
    <3>2. Cardinality(CountLive(P, tx[s].beganAt)) + 1 =< cap
      BY <1>1, <1>2, <3>1 DEF Passes
    <3>3. tx[s].beganAt \in Nat /\ tx[s].beganAt =< now
      BY DEF Ground, BeganBefore, TxStates
    <3>4. Flying(P) \in SUBSET CountLive(P, tx[s].beganAt)
      BY <3>3, FlightIsCounted DEF Flying
    <3>5. /\ IsFiniteSet(CountLive(P, tx[s].beganAt))
          /\ Cardinality(Flying(P)) =< Cardinality(CountLive(P, tx[s].beganAt))
          /\ Cardinality(Flying(P) \cup {s}) =< Cardinality(Flying(P)) + 1
      BY <3>4, CountsAreFinite, FS_Subset, FS_AddElement, FS_CardinalityType
    <3>6. Cardinality(CountLive(P, tx[s].beganAt)) \in Nat /\ Cardinality(Flying(P)) \in Nat
          /\ Cardinality(Flying(P) \cup {s}) \in Nat
      BY <1>5, <3>5, CountsAreFinite, FS_CardinalityType
    <3> HIDE DEF P, cap
    <3>7. QED
      BY <2>1, <3>2, <3>5, <3>6
  <2>4. QED
    BY <2>1, <2>2, <2>3
<1>7. Cardinality(Flying(Purpose(s)) \cup {s})' =< Cardinality(Flying(P) \cup {s})
  BY <1>4, <1>5, FS_Subset
<1>8. QED
  <2>1. IsFiniteSet((Flying(Purpose(s)) \cup {s})')
    BY <1>4, <1>5, FS_Subset
  <2>2. Cardinality((Flying(Purpose(s)) \cup {s})') \in Nat /\ Cardinality(Flying(P) \cup {s}) \in Nat
    BY <1>5, <2>1, FS_CardinalityType
  <2> HIDE DEF P, cap
  <2>3. QED
    BY <1>2, <1>6, <1>7, <2>2 DEF cap

\* A submit is created by its commit.
LEMMA CreatedByCommit ==
    ASSUME Ground, [Next]_vars, NEW s \in Submits, tx'[s].pc = "created", tx[s].pc # "created"
    PROVE  Commit(s)
<1> tx \in [Submits -> TxStates]
  BY TxTyped DEF Ground
<1>1. ASSUME NEW q \in Submits, NEW v \in TxStates, tx' = [tx EXCEPT ![q] = v]
      PROVE  q = s /\ v.pc = "created"
  BY <1>1
<1>2. ASSUME NEW q \in Submits, NEW v \in TxStates,
             Begins(q, v) \/ Inserts(q, v) \/ Passes(q, v) \/ Admits(q, v)
      PROVE  FALSE
  <2>1. v.pc # "created" /\ tx' = [tx EXCEPT ![q] = v]
    BY <1>2 DEF Begins, Inserts, Passes, Admits, Move, TxStates
  <2>2. QED
    BY <1>1, <2>1
<1>3. ASSUME NEW q \in Submits, NEW v \in TxStates, Ends(q, v)
      PROVE  q = s /\ v.pc = "created"
  BY <1>1, <1>3 DEF Ends
<1>4. tx' # tx
  OBVIOUS
<1>5. QED
  BY <1>2, <1>3, <1>4, StepCases DEF Settles, Orphans, Purge, Tick, Still

\* What a commit leaves in flight of its purpose was there when it counted, or is its own.
LEMMA CommitFits ==
    ASSUME Ground, CountStands, [Next]_vars, NEW s \in Submits,
           tx'[s].pc = "created", tx[s].pc # "created", tx[s].caps.concurrency # None
    PROVE  Cardinality({t \in Submits : InFlight(t)' /\ Purpose(t)' = Purpose(s)})
              =< tx[s].caps.concurrency
<1> DEFINE P   == Purpose(s)
           new == {t \in Submits : InFlight(t)' /\ Purpose(t)' = P}
           old == Flying(P) \cup {s}
           cap == tx[s].caps.concurrency
<1>1. Commit(s) /\ tx[s].pc = "admitted" /\ lock = s
  BY CreatedByCommit, CommitHolds
<1>2. new \in SUBSET old
  <2>1. SUFFICES ASSUME NEW t \in Submits, InFlight(t)', Purpose(t)' = P, t # s
                 PROVE  InFlight(t) /\ Purpose(t) = P
    BY DEF Flying
  <2>2. InFlight(t)
    BY <1>1, <2>1, FlightKept, CommitHolds
  <2>3. tx[t].pc = "created"
    BY <2>2 DEF Ground, OnlyCommitted, InFlight, Live
  <2>4. QED
    BY <2>1, <2>2, <2>3, PurposeKept
<1>3. IsFiniteSet(old) /\ IsFiniteSet(new) /\ Cardinality(new) =< Cardinality(old)
  BY <1>2, CountsAreFinite, FS_AddElement, FS_Subset
<1>4. Cardinality(old) \in Nat /\ Cardinality(new) \in Nat
  BY <1>3, FS_CardinalityType
<1>5. Cardinality(old) =< cap
  BY <1>1 DEF CountStands
<1>6. cap \in Nat
  <2>1. tx[s].caps \in CapChoices \cup {NoCaps}
    BY DEF Ground, TypeOK
  <2>2. QED
    BY <2>1, CapsAssumption DEF NoCaps, Limits
<1> HIDE DEF old, cap, new
<1>7. Cardinality(new) =< cap
  BY <1>3, <1>4, <1>5, <1>6
<1>8. QED
  BY <1>7 DEF new, cap

-----------------------------------------------------------------------------
(***************************************************************************)
(* One generation per request, and the cap, of the specification.          *)
(***************************************************************************)
\* Who may commit, and what stands in its way or in flight when it does.
AdmissionInv == Ground /\ Unopposed /\ OneRunPerRequest /\ CountStands

\* An owner without generations satisfies every part.
LEMMA AdmissionInit == ASSUME Init PROVE AdmissionInv
<1>1. Ground
  BY GroundInit
<1>2. \A s \in Submits : tx[s].pc = "idle" /\ gens[s].status = "absent"
  BY DEF Init, NoTx, AbsentRow, PendingRow
<1>3. Unopposed /\ OneRunPerRequest /\ CountStands
  BY <1>2 DEF Unopposed, OneRunPerRequest, CountStands, Holding, Live
<1>4. QED
  BY <1>1, <1>3 DEF AdmissionInv

\* Every step preserves every part.
LEMMA AdmissionStep == ASSUME AdmissionInv, [Next]_vars PROVE AdmissionInv'
BY GroundStep, UnopposedStep, OneRunStep, CountStandsStep DEF AdmissionInv

\* In every reachable state the owner's lock is held by the one transaction that inserted, rows keep
\* what the count reads of them as long as the hold, and no transaction has lost its place.
THEOREM AdmissionInvariant == Spec => []AdmissionInv
<1>1. Init => AdmissionInv
  BY AdmissionInit
<1>2. AdmissionInv /\ [Next]_vars => AdmissionInv'
  BY AdmissionStep
<1>3. QED
  BY <1>1, <1>2, PTL DEF Spec

\* Every variable has its type: rows, transactions and records are what the statements write.
THEOREM AdmissionTypes == Spec => []TypeOK
<1>1. AdmissionInv => TypeOK
  BY DEF AdmissionInv, Ground
<1>2. QED
  BY <1>1, AdmissionInvariant, PTL

\* However submits, settlements, purges and rollbacks interleave, the unique index and the lock never let
\* one request have two generations that run or succeeded.
THEOREM OneRun == Spec => []OneRunPerRequest
<1>1. AdmissionInv => OneRunPerRequest
  BY DEF AdmissionInv
<1>2. QED
  BY <1>1, AdmissionInvariant, PTL

\* The count admit reads bounds what is in flight when its transaction commits, though generations
\* settle, are left running unseen and are purged between the two.
THEOREM CapHeld == Spec => ConcurrencyHeld
<1>1. AdmissionInv /\ [Next]_vars =>
        [\A s \in Submits :
            (tx'[s].pc = "created" /\ tx[s].pc # "created" /\ tx[s].caps.concurrency # None) =>
               Cardinality({t \in Submits : InFlight(t)' /\ Purpose(t)' = Purpose(s)})
                  =< tx[s].caps.concurrency]_vars
  BY CommitFits DEF AdmissionInv
<1>2. QED
  BY <1>1, AdmissionInvariant, PTL DEF Spec, ConcurrencyHeld

-----------------------------------------------------------------------------
(***************************************************************************)
(* Usage is only added to, and only by what is in flight.                  *)
(***************************************************************************)
\* Whatever is in flight or recorded was committed.
LEMMA Committed ==
    ASSUME Ground, NEW t \in Submits, InFlight(t) \/ t \in Recorded
    PROVE  tx[t].pc = "created"
BY DEF Ground, OnlyCommitted, InFlight, Recorded, Live

\* Recorded usage is never changed nor removed, and its purpose stays.
LEMMA RecordKept ==
    ASSUME Ground, [Next]_vars, NEW t \in Recorded
    PROVE  t \in Recorded' /\ usage'[t] = usage[t] /\ Purpose(t)' = Purpose(t)
<1> t \in Submits /\ usage[t] # None
  BY DEF Recorded
<1>1. usage'[t] = usage[t]
  BY UsageKept
<1>2. Purpose(t)' = Purpose(t)
  BY Committed, PurposeKept
<1>3. QED
  BY <1>1, <1>2 DEF Recorded

\* Usage is added at the present instant, for a generation that was in flight.
LEMMA RecordAdded ==
    ASSUME Ground, [Next]_vars, NEW t \in Recorded', t \notin Recorded
    PROVE  /\ t \in Submits /\ InFlight(t) /\ Purpose(t)' = Purpose(t)
           /\ usage'[t] \in Records /\ usage'[t].at = now /\ now' = now
<1> t \in Submits /\ usage'[t] # usage[t]
  BY DEF Recorded
<1>1. InFlight(t) /\ usage'[t] \in Records /\ usage'[t].at = now /\ now' = now
  BY UsageKept
<1>2. Purpose(t)' = Purpose(t)
  BY <1>1, Committed, PurposeKept
<1>3. QED
  BY <1>1, <1>2

-----------------------------------------------------------------------------
(***************************************************************************)
(* The summary of usage.                                                   *)
(***************************************************************************)
\* What a summary found in flight when it was asked for was committed by then, and what of it is still
\* in flight once it counted, it counted.
SummaryKnown ==
    /\ \A s \in summary.live : tx[s].pc = "created" /\ Purpose(s) = summary.purpose
    /\ summary.pc \in {"counted", "answered"} /\ summary.window # None =>
          \A s \in summary.live : InFlight(s) => s \in summary.counted

\* A summary changes by its own three steps only, and they change nothing else.
LEMMA SummaryCases ==
    ASSUME [Next]_vars
    PROVE  \/ summary' = summary
           \/ Still /\ (Summarise \/ SummaryRead \/ SummaryFails)
<1>1. Next => summary' = summary \/ Summarise \/ SummaryRead \/ SummaryFails
  BY DEF Next, Submit, Begin, Insert, Admit, Count, Sum, Commit, Fail, SettleGeneration, OrphanUsage,
     Purge, Tick
<1>2. QED
  BY <1>1, SummaryAlone DEF vars

SummaryInv == SummaryKnown /\ SummaryMissesNone

\* The summary waits while the rest moves on.
LEMMA SummaryWaits ==
    ASSUME Ground, SummaryInv, [Next]_vars, summary' = summary
    PROVE  SummaryInv'
<1> summary \in SummaryStates
  BY DEF Ground, TypeOK, SummaryStates
<1>1. \A s \in summary.live : s \in Submits /\ tx[s].pc = "created" /\ Purpose(s) = summary.purpose
  BY DEF SummaryInv, SummaryKnown, SummaryStates
<1>2. \A s \in summary.live : tx'[s].pc = "created" /\ Purpose(s)' = summary.purpose
  BY <1>1, RequestKept, PurposeKept
<1>3. ASSUME NEW s \in summary.live, InFlight(s)' PROVE InFlight(s)
  BY <1>1, <1>3, FlightKept, CommitHolds
<1>4. SummaryKnown'
  BY <1>2, <1>3 DEF SummaryInv, SummaryKnown
<1>5. SummaryMissesNone'
  <2>1. SUFFICES ASSUME summary.pc = "answered", summary.window # None, NEW s \in summary.live,
                        usage'[s] # None, usage'[s].at > summary.from
                 PROVE  s \in summary.counted \cup summary.summed
    BY DEF SummaryMissesNone
  <2>2. CASE usage'[s] = usage[s]
    BY <2>1, <2>2 DEF SummaryInv, SummaryMissesNone
  <2>3. CASE InFlight(s)
    BY <2>1, <2>3 DEF SummaryInv, SummaryKnown
  <2>4. QED
    BY <1>1, <2>2, <2>3, UsageKept
<1>6. QED
  BY <1>4, <1>5 DEF SummaryInv

\* The summary reads, and nothing else moves.
LEMMA SummaryReads ==
    ASSUME Ground, SummaryInv, Still, Summarise \/ SummaryRead \/ SummaryFails
    PROVE  SummaryInv'
<1> summary \in SummaryStates /\ now \in Nat
  BY DEF Ground, TypeOK, SummaryStates
<1>1. /\ \A s \in Submits : Purpose(s)' = Purpose(s) /\ (InFlight(s)' <=> InFlight(s))
      /\ tx' = tx /\ usage' = usage
  BY DEF Still, Purpose, InFlight
<1>2. \A s \in summary.live : s \in Submits
  BY DEF SummaryStates
<1>3. CASE Summarise
  <2>1. /\ summary'.pc = "asked"
        /\ summary'.live = {s \in Submits : InFlight(s) /\ Purpose(s) = summary'.purpose}
    <3>1. PICK purpose \in Purposes, window \in Summaries :
             summary' = [NoSummary EXCEPT !.pc = "asked", !.purpose = purpose, !.window = window,
                            !.live = {s \in Submits : InFlight(s) /\ Purpose(s) = purpose}]
      BY <1>3 DEF Summarise
    <3> DEFINE live == {s \in Submits : InFlight(s) /\ Purpose(s) = purpose}
    <3>2. summary' = [NoSummary EXCEPT !.pc = "asked", !.purpose = purpose, !.window = window, !.live = live]
      BY <3>1
    <3> HIDE DEF live
    <3>3. summary'.pc = "asked" /\ summary'.purpose = purpose /\ summary'.live = live
      BY <3>2 DEF NoSummary
    <3>4. QED
      BY <3>3 DEF live
  <2>2. \A s \in summary'.live : s \in Submits /\ tx[s].pc = "created" /\ Purpose(s) = summary'.purpose
    BY <2>1, Committed
  <2>3. QED
    BY <1>1, <2>1, <2>2 DEF SummaryInv, SummaryKnown, SummaryMissesNone
<1>4. ASSUME NEW to \in {"counted", "answered"}, SummaryCount("asked", to),
             to = "answered" => summary.window = None
      PROVE  SummaryInv'
  <2>1. /\ summary'.pc = to /\ summary'.window = summary.window /\ summary'.live = summary.live
        /\ summary'.purpose = summary.purpose /\ summary'.counted = CountLive(summary.purpose, now)
    BY <1>4 DEF SummaryCount, SummaryStates
  <2>2. \A s \in summary.live : tx[s].pc = "created" /\ Purpose(s) = summary.purpose
    BY DEF SummaryInv, SummaryKnown
  <2>3. \A s \in summary.live : InFlight(s) => s \in summary'.counted
    BY <1>2, <2>1, <2>2, FlightIsCounted
  <2>4. SummaryKnown'
    BY <1>1, <1>2, <2>1, <2>2, <2>3 DEF SummaryKnown
  <2>5. SummaryMissesNone'
    BY <1>4, <2>1 DEF SummaryMissesNone
  <2>6. QED
    BY <2>4, <2>5 DEF SummaryInv
<1>5. ASSUME summary.window # None, SummarySum("counted", "answered")
      PROVE  SummaryInv'
  <2>1. /\ summary.pc = "counted" /\ summary'.window = summary.window /\ summary'.live = summary.live
        /\ summary'.purpose = summary.purpose /\ summary'.counted = summary.counted
        /\ summary'.from = now - summary.window
        /\ summary'.summed = InWindow(summary.purpose, now, summary.window)
    BY <1>5 DEF SummarySum, SummaryStates
  <2>2. \A s \in summary.live : tx[s].pc = "created" /\ Purpose(s) = summary.purpose
    BY DEF SummaryInv, SummaryKnown
  <2>3. \A s \in summary.live : InFlight(s) => s \in summary.counted
    BY <1>5, <2>1 DEF SummaryInv, SummaryKnown
  <2>4. SummaryKnown'
    BY <1>1, <1>2, <2>1, <2>2, <2>3 DEF SummaryKnown
  <2>5. \A s \in summary.live : usage[s] # None /\ usage[s].at > summary'.from => s \in summary'.summed
    BY <1>2, <2>1, <2>2 DEF InWindow
  <2>6. SummaryMissesNone'
    BY <1>1, <2>1, <2>5 DEF SummaryMissesNone
  <2>7. QED
    BY <2>4, <2>6 DEF SummaryInv
<1>6. CASE SummaryFails
  <2>1. summary'.pc = "error" /\ summary'.live = {}
    BY <1>6 DEF SummaryFails, NoSummary
  <2>2. QED
    BY <2>1 DEF SummaryInv, SummaryKnown, SummaryMissesNone
<1>7. CASE SummaryRead
  BY <1>4, <1>5, <1>7 DEF SummaryRead
<1>8. QED
  BY <1>3, <1>6, <1>7

\* Between the count and the sum a check may settle what was counted, and another what was not: a summary
\* still shows all that was in flight when it was asked for and consumed tokens in its window.
THEOREM SummaryComplete == Spec => []SummaryMissesNone
<1>1. Init => SummaryInv
  BY DEF Init, NoSummary, SummaryInv, SummaryKnown, SummaryMissesNone
<1>2. AdmissionInv /\ SummaryInv /\ [Next]_vars => SummaryInv'
  BY SummaryCases, SummaryWaits, SummaryReads DEF AdmissionInv
<1>3. SummaryInv => SummaryMissesNone
  BY DEF SummaryInv
<1>4. QED
  BY <1>1, <1>2, <1>3, AdmissionInvariant, PTL DEF Spec

-----------------------------------------------------------------------------
(***************************************************************************)
(* The sums of usage.                                                      *)
(***************************************************************************)
Inputs  == [s \in Recorded |-> usage[s].tokens.input]
Outputs == [s \in Recorded |-> usage[s].tokens.output]

\* What a window adds up is a sum of naturals over a finite set.
LEMMA SumsTyped ==
    ASSUME Ground, NEW R \in SUBSET Recorded
    PROVE  /\ Inputs \in [Recorded -> Nat] /\ Outputs \in [Recorded -> Nat] /\ IsFiniteSet(R)
           /\ InputOf(R) = SumFunctionOnSet(Inputs, R) /\ OutputOf(R) = SumFunctionOnSet(Outputs, R)
           /\ InputOf(R) \in Nat /\ OutputOf(R) \in Nat
<1>1. Inputs \in [Recorded -> Nat] /\ Outputs \in [Recorded -> Nat]
  <2>1. \A s \in Recorded : usage[s].tokens \in Tokens
    BY DEF Ground, TypeOK, Recorded
  <2>2. \A tokens \in Tokens : tokens.input \in Nat /\ tokens.output \in Nat
    BY CapsAssumption
  <2>3. QED
    BY <2>1, <2>2 DEF Inputs, Outputs
<1>2. IsFiniteSet(R)
  BY CountsAreFinite, FS_Subset
<1>3. InputOf(R) = SumFunctionOnSet(Inputs, R) /\ OutputOf(R) = SumFunctionOnSet(Outputs, R)
  BY DEF InputOf, OutputOf, Inputs, Outputs
<1>4. SumFunctionOnSet(Inputs, R) \in Nat /\ SumFunctionOnSet(Outputs, R) \in Nat
  BY <1>1, <1>2, SumType
<1>5. QED
  BY <1>1, <1>2, <1>3, <1>4

\* What is recorded does not change, and neither does what it sums to.
LEMMA SumsKept ==
    ASSUME Ground, [Next]_vars, NEW R \in SUBSET Recorded
    PROVE  R \in SUBSET Recorded' /\ InputOf(R)' = InputOf(R) /\ OutputOf(R)' = OutputOf(R)
<1> DEFINE inputs  == [s \in Recorded' |-> usage'[s].tokens.input]
           outputs == [s \in Recorded' |-> usage'[s].tokens.output]
<1>1. R \in SUBSET Recorded' /\ \A r \in R : usage'[r] = usage[r]
  BY RecordKept
<1>2. IsFiniteSet(R)
  BY CountsAreFinite, FS_Subset
<1>3. \A r \in R : inputs[r] = Inputs[r] /\ outputs[r] = Outputs[r]
  BY <1>1 DEF Inputs, Outputs
<1>4. /\ SumFunctionOnSet(inputs, R) = SumFunctionOnSet(Inputs, R)
      /\ SumFunctionOnSet(outputs, R) = SumFunctionOnSet(Outputs, R)
  <2> HIDE DEF inputs, outputs
  <2>1. QED
    BY <1>2, <1>3, SumCongruent
<1>5. /\ InputOf(R)' = SumFunctionOnSet(inputs, R) /\ OutputOf(R)' = SumFunctionOnSet(outputs, R)
      /\ InputOf(R) = SumFunctionOnSet(Inputs, R) /\ OutputOf(R) = SumFunctionOnSet(Outputs, R)
  BY DEF InputOf, OutputOf, Inputs, Outputs
<1>6. QED
  BY <1>1, <1>4, <1>5

\* More records sum to more.
LEMMA SumsGrow ==
    ASSUME Ground, NEW S \in SUBSET Recorded, NEW R \in SUBSET S
    PROVE  InputOf(R) =< InputOf(S) /\ OutputOf(R) =< OutputOf(S)
<1>1. R \in SUBSET Recorded
  OBVIOUS
<1>2. /\ Inputs \in [Recorded -> Nat] /\ Outputs \in [Recorded -> Nat] /\ IsFiniteSet(S)
      /\ InputOf(R) = SumFunctionOnSet(Inputs, R) /\ OutputOf(R) = SumFunctionOnSet(Outputs, R)
      /\ InputOf(S) = SumFunctionOnSet(Inputs, S) /\ OutputOf(S) = SumFunctionOnSet(Outputs, S)
  BY <1>1, SumsTyped
<1>3. QED
  BY <1>2, SumGrows

-----------------------------------------------------------------------------
(***************************************************************************)
(* The wait a refusal names.                                               *)
(***************************************************************************)
\* The records that refused a submit fill its window until the wait it named is over.
RefusalStands ==
    \A s \in Submits : tx[s].retryAt # None =>
        /\ tx[s].pc \in Ended /\ tx[s].window \in Windows
        /\ \E R \in SUBSET Recorded :
              /\ \A r \in R : Purpose(r) = Purpose(s)
              /\ WindowReached(tx[s].window, R)
              /\ \/ tx[s].retryAt =< now
                 \/ \A r \in R : tx[s].retryAt =< usage[r].at + tx[s].window.duration

\* A submit that names a wait named it before, or ends now.
LEMMA WaitNamed ==
    ASSUME Ground, RefusalStands, [Next]_vars, NEW s \in Submits, tx'[s].retryAt # None
    PROVE  tx'[s] = tx[s] \/ Ends(s, tx'[s])
<1> tx \in [Submits -> TxStates]
  BY TxTyped DEF Ground
<1>1. CASE tx' = tx
  BY <1>1
<1>2. ASSUME NEW q \in Submits, NEW v \in TxStates,
             Begins(q, v) \/ Inserts(q, v) \/ Passes(q, v) \/ Admits(q, v)
      PROVE  tx'[s] = tx[s]
  <2>1. SUFFICES ASSUME q = s PROVE FALSE
    BY <1>2 DEF Begins, Inserts, Passes, Admits, Move
  <2>2. tx'[s] = v /\ tx[s].pc \notin Ended
    BY <1>2, <2>1 DEF Begins, Inserts, Passes, Admits, Move, Ended
  <2>3. tx[s].retryAt = None
    BY <2>2 DEF RefusalStands
  <2>4. v.retryAt = None
    BY <1>2, <2>1, <2>3 DEF Begins, Inserts, Passes, Admits, TxStates
  <2>5. QED
    BY <2>2, <2>4
<1>3. ASSUME NEW q \in Submits, NEW v \in TxStates, Ends(q, v)
      PROVE  tx'[s] = tx[s] \/ Ends(s, tx'[s])
  <2>1. tx' = [tx EXCEPT ![q] = v]
    BY <1>3 DEF Ends
  <2>2. CASE q = s
    <3>1. tx'[s] = v
      BY <2>1, <2>2
    <3>2. QED
      BY <1>3, <2>2, <3>1
  <2>3. QED
    BY <2>1, <2>2
<1>4. QED
  BY <1>1, <1>2, <1>3, StepCases DEF Settles, Orphans, Purge, Tick, Still

\* The records that refused a submit still fill its window after any step.
LEMMA RefusalStep ==
    ASSUME Ground, RefusalStands, [Next]_vars
    PROVE  RefusalStands'
<1> tx \in [Submits -> TxStates] /\ now \in Nat /\ now' \in Nat /\ now =< now'
  BY TxTyped, ClockStep DEF Ground, TypeOK
<1>1. SUFFICES ASSUME NEW s \in Submits, tx'[s].retryAt # None
               PROVE  /\ tx'[s].pc \in Ended /\ tx'[s].window \in Windows
                      /\ \E R \in SUBSET Recorded' :
                            /\ \A r \in R : Purpose(r)' = Purpose(s)'
                            /\ WindowReached(tx[s].window, R)'
                            /\ \/ tx'[s].retryAt =< now'
                               \/ \A r \in R : tx'[s].retryAt =< usage'[r].at + tx'[s].window.duration
  BY DEF RefusalStands
<1> DEFINE u == tx'[s]
<1>2. /\ u.pc \in Ended /\ u.window \in Windows /\ tx[s].pc # "idle"
      /\ \E R \in SUBSET Recorded :
            /\ \A r \in R : Purpose(r) = Purpose(s)
            /\ WindowReached(u.window, R)
            /\ u.retryAt =< now \/ \A r \in R : u.retryAt =< usage[r].at + u.window.duration
  <2>1. CASE u = tx[s]
    BY <1>1, <2>1 DEF RefusalStands, Ended
  <2>2. CASE Ends(s, u)
    BY <1>1, <2>2 DEF Ends, Filled, Open
  <2>3. QED
    BY <1>1, <2>1, <2>2, WaitNamed
<1>3. PICK R \in SUBSET Recorded :
         /\ \A r \in R : Purpose(r) = Purpose(s)
         /\ WindowReached(u.window, R)
         /\ u.retryAt =< now \/ \A r \in R : u.retryAt =< usage[r].at + u.window.duration
  BY <1>2
<1>4. R \in SUBSET Recorded' /\ InputOf(R)' = InputOf(R) /\ OutputOf(R)' = OutputOf(R)
  BY SumsKept
<1>5. \A r \in R : Purpose(r)' = Purpose(s)' /\ usage'[r] = usage[r]
  BY <1>2, <1>3, RecordKept, PurposeKept
<1>6. WindowReached(tx[s].window, R)'
  BY <1>3, <1>4 DEF WindowReached
<1>7. u.retryAt \in Nat
  <2>1. u.retryAt \in Instants
    BY TypeStep DEF TypeOK
  <2>2. QED
    BY <1>1, <2>1 DEF Instants
<1>8. \/ u.retryAt =< now'
      \/ \A r \in R : u.retryAt =< usage'[r].at + u.window.duration
  BY <1>3, <1>5, <1>7
<1>9. QED
  BY <1>2, <1>4, <1>5, <1>6, <1>8

\* Until the wait is over, the records that refused are still in the window.
LEMMA RefusalHolds ==
    ASSUME Ground, RefusalStands
    PROVE  RetryIsFutileBefore
<1>1. SUFFICES ASSUME NEW s \in Submits, tx[s].retryAt # None, now < tx[s].retryAt
               PROVE  WindowReached(tx[s].window, InWindow(Purpose(s), now, tx[s].window.duration))
  BY DEF RetryIsFutileBefore
<1> DEFINE w      == tx[s].window
           inside == InWindow(Purpose(s), now, w.duration)
<1>2. now \in Nat /\ tx[s].retryAt \in Nat /\ w \in Windows
  BY <1>1 DEF Ground, TypeOK, Instants, RefusalStands
<1>3. w.duration \in Nat /\ w.input \in Limits /\ w.output \in Limits
  BY <1>2, CapsAssumption DEF Windows
<1>4. PICK R \in SUBSET Recorded :
         /\ \A r \in R : Purpose(r) = Purpose(s)
         /\ WindowReached(w, R)
         /\ tx[s].retryAt =< now \/ \A r \in R : tx[s].retryAt =< usage[r].at + w.duration
  BY <1>1 DEF RefusalStands
<1>5. \A r \in R : r \in Submits /\ usage[r] # None /\ usage[r].at \in Nat
  BY DEF Recorded, Ground, TypeOK
<1>6. \A r \in R : usage[r].at > now - w.duration
  <2> HIDE DEF w
  <2>1. QED
    BY <1>1, <1>2, <1>3, <1>4, <1>5
<1>7. R \in SUBSET inside /\ inside \in SUBSET Recorded
  BY <1>4, <1>5, <1>6 DEF InWindow, Recorded
<1> HIDE DEF inside, w
<1>8. /\ InputOf(R) =< InputOf(inside) /\ OutputOf(R) =< OutputOf(inside)
      /\ InputOf(R) \in Nat /\ OutputOf(R) \in Nat /\ InputOf(inside) \in Nat /\ OutputOf(inside) \in Nat
  BY <1>7, SumsGrow, SumsTyped
<1>9. WindowReached(w, inside)
  BY <1>3, <1>4, <1>8 DEF WindowReached, Reached, Limits
<1>10. QED
  BY <1>9 DEF w, inside

\* A caller that comes back before the wait it was told of is refused again, whatever was recorded, settled
\* or purged meanwhile.
THEOREM RetryNotTooLate == Spec => []RetryIsFutileBefore
<1>1. Init => RefusalStands
  BY DEF Init, NoTx, RefusalStands
<1>2. AdmissionInv /\ RefusalStands /\ [Next]_vars => RefusalStands'
  BY RefusalStep DEF AdmissionInv
<1>3. AdmissionInv /\ RefusalStands => RetryIsFutileBefore
  BY RefusalHolds DEF AdmissionInv
<1>4. QED
  BY <1>1, <1>2, <1>3, AdmissionInvariant, PTL DEF Spec

-----------------------------------------------------------------------------
(***************************************************************************)
(* How far a window can be overrun.                                        *)
(***************************************************************************)
Below(limit, used) == limit # None => used =< Max({limit - 1, 0})

\* The generations of one purpose that may yet record usage, or did since the old records were summed.
Since(purpose, old) ==
    {s \in Submits : (InFlight(s) \/ s \in Recorded \ old) /\ Purpose(s) = purpose}

\* The records in each window were summed below its limit when a submit was last admitted, but for those of
\* the generations the concurrency counted by then, the given ones included.
Covered(caps, purpose, more) ==
    \E old \in SUBSET Recorded :
        /\ Cardinality(Since(purpose, old) \cup more) =< caps.concurrency
        /\ \A w \in caps.windows :
              /\ Below(w.input, InputOf(InWindow(purpose, now, w.duration) \cap old))
              /\ Below(w.output, OutputOf(InWindow(purpose, now, w.duration) \cap old))

\* An open transaction carries the caps its caller sent.
Capped == \A s \in Submits : tx[s].pc \in Open => tx[s].caps \in CapChoices

AllCovered ==
    \A caps \in CapChoices : CapChoices = {caps} /\ caps.concurrency # None =>
        /\ \A purpose \in Purposes : Covered(caps, purpose, {})
        /\ \A s \in Submits : tx[s].pc = "admitted" => Covered(caps, Purpose(s), {s})

\* The greatest of zero and another integer.
LEMMA MaxOfTwo ==
    ASSUME NEW a \in Int
    PROVE  Max({a, 0}) \in Nat /\ a =< Max({a, 0})
<1>1. \E x \in {a, 0} : \A y \in {a, 0} : x >= y
  <2>1. CASE a >= 0
    BY <2>1
  <2>2. CASE ~(a >= 0)
    BY <2>2
  <2>3. QED
    BY <2>1, <2>2
<1>2. Max({a, 0}) \in {a, 0} /\ \A y \in {a, 0} : Max({a, 0}) >= y
  BY <1>1 DEF Max
<1> HIDE DEF Max
<1>3. QED
  BY <1>2

\* A sum that did not reach a limit is below it, and so is what sums to less.
LEMMA BelowIsBelow ==
    ASSUME NEW limit \in Limits, NEW used \in Nat
    PROVE  /\ ~Reached(limit, used) => Below(limit, used)
           /\ \A less \in Nat : less =< used /\ Below(limit, used) => Below(limit, less)
<1>1. CASE limit = None
  BY <1>1 DEF Below
<1>2. CASE limit # None
  <2> DEFINE most == Max({limit - 1, 0})
  <2>1. limit \in Nat
    BY <1>2 DEF Limits
  <2>2. limit - 1 \in Int
    BY <2>1
  <2>3. most \in Nat /\ limit - 1 =< most
    BY <2>2, MaxOfTwo
  <2>4. Below(limit, used) <=> used =< most
    BY <1>2 DEF Below
  <2>5. \A less \in Nat : Below(limit, less) <=> less =< most
    BY <1>2 DEF Below
  <2> HIDE DEF most
  <2>6. QED
    BY <1>2, <2>1, <2>3, <2>4, <2>5 DEF Reached
<1>3. QED
  BY <1>1, <1>2

\* A cap is a natural or unlimited, in every caps a caller may send.
LEMMA CapsTyped ==
    ASSUME NEW caps \in CapChoices
    PROVE  /\ caps.concurrency \in Limits
           /\ \A w \in caps.windows : w.duration \in Nat /\ w.input \in Limits /\ w.output \in Limits
BY CapsAssumption

\* What may yet record usage, or did, is finite.
LEMMA SinceFinite ==
    ASSUME Ground, NEW purpose, NEW old, NEW more, IsFiniteSet(more)
    PROVE  /\ IsFiniteSet(Since(purpose, old) \cup more)
           /\ Cardinality(Since(purpose, old) \cup more) \in Nat
<1>1. Since(purpose, old) \in SUBSET Begun
  BY Committed DEF Since, Begun
<1>2. IsFiniteSet(Since(purpose, old))
  BY <1>1, FS_Subset DEF Ground
<1>3. IsFiniteSet(Since(purpose, old) \cup more)
  BY <1>2, FS_Union
<1>4. QED
  BY <1>3, FS_CardinalityType

\* What covers the records of a purpose goes on covering them, together with whatever commits.
LEMMA CoveredKept ==
    ASSUME Ground, [Next]_vars, NEW caps \in CapChoices, caps.concurrency # None, NEW purpose,
           NEW more, IsFiniteSet(more), NEW rest \in SUBSET more,
           \A t \in Submits : Commit(t) /\ Purpose(t) = purpose => t \in more,
           Covered(caps, purpose, more)
    PROVE  Covered(caps, purpose, rest)'
<1>1. PICK old \in SUBSET Recorded :
         /\ Cardinality(Since(purpose, old) \cup more) =< caps.concurrency
         /\ \A w \in caps.windows :
               /\ Below(w.input, InputOf(InWindow(purpose, now, w.duration) \cap old))
               /\ Below(w.output, OutputOf(InWindow(purpose, now, w.duration) \cap old))
  BY DEF Covered
<1>2. old \in SUBSET Recorded'
  BY RecordKept
<1>3. Cardinality(Since(purpose, old)' \cup rest) =< caps.concurrency
  <2> DEFINE before == Since(purpose, old) \cup more
             after  == Since(purpose, old)' \cup rest
  <2>1. ASSUME NEW t \in Since(purpose, old)', t \notin more PROVE t \in Since(purpose, old)
    <3>1. t \in Submits /\ (InFlight(t)' \/ t \in Recorded' \ old) /\ Purpose(t)' = purpose
      BY <2>1 DEF Since
    <3>2. CASE Commit(t)
      <4>1. Purpose(t)' = Purpose(t)
        BY <3>1, <3>2, CommitHolds, PurposeKept
      <4>2. QED
        BY <2>1, <3>1, <3>2, <4>1
    <3>3. CASE ~Commit(t)
      <4>1. InFlight(t) \/ t \in Recorded \ old
        BY <3>1, <3>3, FlightKept, RecordAdded
      <4>2. Purpose(t)' = Purpose(t)
        BY <3>1, <4>1, Committed, PurposeKept
      <4>3. QED
        BY <3>1, <4>1, <4>2 DEF Since
    <3>4. QED
      BY <3>2, <3>3
  <2>2. after \in SUBSET before
    BY <2>1
  <2>3. IsFiniteSet(before) /\ Cardinality(before) \in Nat
    BY SinceFinite
  <2>4. IsFiniteSet(after) /\ Cardinality(after) =< Cardinality(before)
    BY <2>2, <2>3, FS_Subset
  <2>5. Cardinality(after) \in Nat /\ caps.concurrency \in Nat
    BY <2>4, FS_CardinalityType, CapsTyped DEF Limits
  <2>6. Cardinality(before) =< caps.concurrency
    BY <1>1
  <2> HIDE DEF before, after
  <2>7. Cardinality(after) =< caps.concurrency
    BY <2>3, <2>4, <2>5, <2>6
  <2>8. QED
    BY <2>7 DEF after
<1>4. ASSUME NEW w \in caps.windows
      PROVE  /\ Below(w.input, InputOf(InWindow(purpose, now, w.duration) \cap old)')
             /\ Below(w.output, OutputOf(InWindow(purpose, now, w.duration) \cap old)')
  <2> DEFINE d == w.duration
  <2>1. w.input \in Limits /\ w.output \in Limits /\ d \in Nat
    BY CapsTyped
  <2>2. PICK before : before = InWindow(purpose, now, d) \cap old
    OBVIOUS
  <2>3. PICK after : after = InWindow(purpose, now, d)' \cap old
    OBVIOUS
  <2>4. before \in SUBSET Recorded /\ after \in SUBSET before
    <3>1. before \in SUBSET Recorded
      BY <2>2
    <3>2. ASSUME NEW t \in after PROVE t \in InWindow(purpose, now, d)
      <4>1. t \in Submits /\ t \in Recorded /\ Purpose(t)' = purpose /\ usage'[t].at > now' - d
        BY <2>3, <3>2 DEF InWindow
      <4>2. usage'[t] = usage[t] /\ Purpose(t)' = Purpose(t)
        BY <4>1, RecordKept
      <4>3. usage[t] # None /\ usage[t].at \in Nat
        BY <4>1 DEF Recorded, Ground, TypeOK
      <4>4. now \in Nat /\ now' \in Nat /\ now =< now'
        BY ClockStep DEF Ground, TypeOK
      <4>5. usage[t].at > now - d
        BY <2>1, <4>1, <4>2, <4>3, <4>4
      <4>6. QED
        BY <4>1, <4>2, <4>3, <4>5 DEF InWindow
    <3>3. QED
      BY <2>2, <2>3, <3>1, <3>2
  <2>5. /\ InputOf(after) =< InputOf(before) /\ OutputOf(after) =< OutputOf(before)
        /\ InputOf(after) \in Nat /\ OutputOf(after) \in Nat
        /\ InputOf(before) \in Nat /\ OutputOf(before) \in Nat
    BY <2>4, SumsGrow, SumsTyped
  <2>6. InputOf(after)' = InputOf(after) /\ OutputOf(after)' = OutputOf(after)
    BY <2>4, SumsKept
  <2>7. Below(w.input, InputOf(before)) /\ Below(w.output, OutputOf(before))
    BY <1>1, <2>2
  <2>8. Below(w.input, InputOf(after)') /\ Below(w.output, OutputOf(after)')
    BY <2>1, <2>5, <2>6, <2>7, BelowIsBelow
  <2>9. QED
    BY <2>3, <2>8
<1>5. QED
  BY <1>2, <1>3, <1>4 DEF Covered

\* A transaction keeps the caps its caller sent.
LEMMA CappedStep == ASSUME Ground, Capped, [Next]_vars PROVE Capped'
<1> tx \in [Submits -> TxStates]
  BY TxTyped DEF Ground
<1>1. SUFFICES ASSUME NEW s \in Submits, tx'[s].pc \in Open PROVE tx'[s].caps \in CapChoices
  BY DEF Capped
<1>2. CASE tx' = tx
  BY <1>1, <1>2 DEF Capped
<1>3. ASSUME NEW q \in Submits, NEW v \in TxStates, tx' = [tx EXCEPT ![q] = v],
             q = s => v.caps \in CapChoices
      PROVE  tx'[s].caps \in CapChoices
  BY <1>1, <1>3 DEF Capped
<1>4. ASSUME NEW q \in Submits, NEW v \in TxStates,
             Begins(q, v) \/ Inserts(q, v) \/ Passes(q, v) \/ Admits(q, v)
      PROVE  tx'[s].caps \in CapChoices
  <2>1. tx' = [tx EXCEPT ![q] = v]
    BY <1>4 DEF Begins, Inserts, Passes, Admits, Move
  <2>2. v.caps \in CapChoices
    <3>1. CASE Begins(q, v)
      BY <3>1 DEF Begins
    <3>2. CASE Inserts(q, v) \/ Passes(q, v) \/ Admits(q, v)
      <4>1. v.caps = tx[q].caps /\ tx[q].pc \in Open
        BY <3>2 DEF Inserts, Passes, Admits, Move, Open, TxStates
      <4>2. QED
        BY <4>1 DEF Capped
    <3>3. QED
      BY <1>4, <3>1, <3>2
  <2>3. QED
    BY <1>3, <2>1, <2>2
<1>5. ASSUME NEW q \in Submits, NEW v \in TxStates, Ends(q, v)
      PROVE  tx'[s].caps \in CapChoices
  <2>1. tx' = [tx EXCEPT ![q] = v] /\ v.pc \in Ended
    BY <1>5 DEF Ends
  <2>2. q # s
    BY <1>1, <2>1 DEF Open, Ended
  <2>3. QED
    BY <1>3, <2>1, <2>2
<1>6. QED
  BY <1>2, <1>4, <1>5, StepCases DEF Settles, Orphans, Purge, Tick, Still

\* A submit that is admitted found every window below its limit, and the concurrency counted what is in flight:
\* the records there are now are the old ones.
LEMMA CoveredByAdmission ==
    ASSUME Ground, Capped, CountStands, NEW s \in Submits, NEW v \in TxStates, Admits(s, v),
           UNCHANGED Others, NEW caps \in CapChoices, CapChoices = {caps}, caps.concurrency # None
    PROVE  Covered(caps, Purpose(s), {s})'
<1> DEFINE P  == Purpose(s)
           at == tx[s].beganAt
<1>1. tx \in [Submits -> TxStates] /\ tx[s].pc = "counted" /\ tx[s].caps = caps
  BY TxTyped DEF Ground, Capped, Admits, Move, Open
<1>2. /\ \A t \in Submits : Purpose(t)' = Purpose(t) /\ (InFlight(t)' <=> InFlight(t))
      /\ usage' = usage /\ now' = now
  <2>1. tx' = [tx EXCEPT ![s].pc = "admitted"] /\ UNCHANGED <<now, gens, unknownAt, usage>>
    BY <1>1 DEF Admits, Move, Others
  <2>2. \A t \in Submits : tx'[t].request = tx[t].request
    BY <1>1, <2>1 DEF TxStates
  <2>3. QED
    BY <2>1, <2>2 DEF Purpose, InFlight
<1>3. Recorded' = Recorded /\ Recorded \in SUBSET Recorded'
  BY <1>2 DEF Recorded
<1>4. Cardinality(Since(P, Recorded)' \cup {s}) =< caps.concurrency
  <2>1. Since(P, Recorded)' = Flying(P)
    BY <1>2, <1>3 DEF Since, Flying
  <2>2. Cardinality(Flying(P) \cup {s}) =< caps.concurrency
    BY <1>1 DEF CountStands
  <2>3. QED
    BY <2>1, <2>2
<1>5. ASSUME NEW w \in caps.windows
      PROVE  /\ Below(w.input, InputOf(InWindow(P, now, w.duration) \cap Recorded))
             /\ Below(w.output, OutputOf(InWindow(P, now, w.duration) \cap Recorded))
  <2>1. w.input \in Limits /\ w.output \in Limits /\ w.duration \in Nat
    BY CapsTyped
  <2>2. PICK summed : summed = InWindow(P, at, w.duration)
    OBVIOUS
  <2>3. PICK less : less = InWindow(P, now, w.duration) \cap Recorded
    OBVIOUS
  <2>4. summed \in SUBSET Recorded /\ less \in SUBSET summed
    <3>1. at \in Nat /\ now \in Nat /\ at =< now
      BY <1>1 DEF Ground, TypeOK, BeganBefore, TxStates
    <3>2. \A t \in Recorded : usage[t].at \in Nat
      BY DEF Ground, TypeOK, Recorded
    <3>3. summed \in SUBSET Recorded
      BY <2>2 DEF InWindow, Recorded
    <3>4. ASSUME NEW t \in less PROVE t \in summed
      <4>1. t \in Recorded /\ t \in Submits /\ usage[t] # None /\ Purpose(t) = P
            /\ usage[t].at > now - w.duration
        BY <2>3, <3>4 DEF InWindow
      <4>2. usage[t].at > at - w.duration
        BY <2>1, <3>1, <3>2, <4>1
      <4>3. QED
        BY <2>2, <4>1, <4>2 DEF InWindow
    <3>5. QED
      BY <3>3, <3>4
  <2>5. ~Reached(w.input, InputOf(summed)) /\ ~Reached(w.output, OutputOf(summed))
    BY <1>1, <2>2 DEF Admits, WindowReached
  <2>6. /\ InputOf(less) =< InputOf(summed) /\ OutputOf(less) =< OutputOf(summed)
        /\ InputOf(less) \in Nat /\ OutputOf(less) \in Nat
        /\ InputOf(summed) \in Nat /\ OutputOf(summed) \in Nat
    BY <2>4, SumsGrow, SumsTyped
  <2>7. Below(w.input, InputOf(less)) /\ Below(w.output, OutputOf(less))
    BY <2>1, <2>5, <2>6, BelowIsBelow
  <2>8. QED
    BY <2>3, <2>7
<1>6. \A R \in SUBSET Recorded : InputOf(R)' = InputOf(R) /\ OutputOf(R)' = OutputOf(R)
  BY <1>2, <1>3 DEF InputOf, OutputOf
<1>7. \A d : InWindow(P, now, d)' = InWindow(P, now, d)
  BY <1>2 DEF InWindow
<1>8. P' = P
  BY <1>2
<1>9. \A w \in caps.windows :
        /\ Below(w.input, InputOf(InWindow(P, now, w.duration) \cap Recorded)')
        /\ Below(w.output, OutputOf(InWindow(P, now, w.duration) \cap Recorded)')
  BY <1>3, <1>5, <1>6, <1>7, <1>8
<1> HIDE DEF P
<1>10. Covered(caps, P, {s})'
  BY <1>3, <1>4, <1>8, <1>9 DEF Covered
<1>11. QED
  BY <1>10 DEF P

\* Whatever is recorded was below its window, or was counted when the last submit was admitted.
LEMMA AllCoveredStep ==
    ASSUME Ground, Capped, CountStands, AllCovered, [Next]_vars
    PROVE  AllCovered'
<1> LockHeld /\ tx \in [Submits -> TxStates]
  BY TxTyped DEF Ground
<1>1. SUFFICES ASSUME NEW caps \in CapChoices, CapChoices = {caps}, caps.concurrency # None
               PROVE  /\ \A purpose \in Purposes : Covered(caps, purpose, {})'
                      /\ \A s \in Submits : tx'[s].pc = "admitted" => Covered(caps, Purpose(s), {s})'
  BY DEF AllCovered
<1>2. ASSUME NEW purpose \in Purposes PROVE Covered(caps, purpose, {})'
  <2>1. CASE \E q \in Submits : Commit(q) /\ Purpose(q) = purpose
    <3>1. PICK q \in Submits : Commit(q) /\ Purpose(q) = purpose
      BY <2>1
    <3>2. Covered(caps, purpose, {q}) /\ IsFiniteSet({q})
      BY <1>1, <3>1, CommitHolds, FS_Singleton DEF AllCovered
    <3>3. \A t \in Submits : Commit(t) => t \in {q}
      BY <3>1, CommitHolds
    <3>4. QED
      BY <1>1, <3>2, <3>3, CoveredKept
  <2>2. CASE ~\E q \in Submits : Commit(q) /\ Purpose(q) = purpose
    BY <1>1, <2>2, CoveredKept, FS_EmptySet DEF AllCovered
  <2>3. QED
    BY <2>1, <2>2
<1>3. ASSUME NEW s \in Submits, tx'[s].pc = "admitted" PROVE Covered(caps, Purpose(s), {s})'
  <2>1. /\ tx'[s].request = tx[s].request /\ ~\E t \in Submits : Commit(t)
        /\ tx[s].pc = "admitted" \/ \E v \in TxStates : UNCHANGED Others /\ Admits(s, v)
    BY <1>3, HoldsSince DEF Holding
  <2>2. CASE tx[s].pc = "admitted"
    <3>1. PICK purpose : purpose = Purpose(s)
      OBVIOUS
    <3>2. Purpose(s)' = purpose
      BY <2>1, <3>1 DEF Purpose
    <3>3. Covered(caps, purpose, {s}) /\ IsFiniteSet({s})
      BY <1>1, <2>2, <3>1, FS_Singleton DEF AllCovered
    <3>4. Covered(caps, purpose, {s})'
      BY <1>1, <2>1, <3>3, CoveredKept
    <3>5. QED
      BY <3>2, <3>4
  <2>3. CASE \E v \in TxStates : UNCHANGED Others /\ Admits(s, v)
    BY <1>1, <2>3, CoveredByAdmission
  <2>4. QED
    BY <2>1, <2>2, <2>3
<1>4. QED
  BY <1>2, <1>3

\* With nothing recorded every window is covered.
LEMMA AllCoveredInit == ASSUME Init PROVE Capped /\ AllCovered
<1>1. \A s \in Submits : tx[s].pc = "idle" /\ ~InFlight(s) /\ usage[s] = None
  BY DEF Init, NoTx, AbsentRow, PendingRow, InFlight, Live
<1>2. ASSUME NEW caps \in CapChoices, caps.concurrency # None, NEW purpose
      PROVE  Covered(caps, purpose, {})
  <2>1. Recorded = {} /\ Since(purpose, {}) \cup {} = {}
    BY <1>1 DEF Since, Recorded
  <2>2. Cardinality({}) =< caps.concurrency
    BY <1>2, CapsTyped, FS_EmptySet DEF Limits
  <2>3. ASSUME NEW w \in caps.windows
        PROVE  Below(w.input, 0) /\ Below(w.output, 0)
    <3>1. \A limit \in Nat : Max({limit - 1, 0}) \in Nat
      <4>1. \A limit \in Nat : limit - 1 \in Int
        OBVIOUS
      <4>2. QED
        BY <4>1, MaxOfTwo
    <3>2. w.input \in Limits /\ w.output \in Limits
      BY CapsTyped
    <3>3. QED
      BY <3>1, <3>2 DEF Below, Limits
  <2>4. InputOf({}) = 0 /\ OutputOf({}) = 0
    BY SumOfNone DEF InputOf, OutputOf
  <2>5. \A X : X \cap {} = {}
    OBVIOUS
  <2>6. QED
    BY <2>1, <2>2, <2>3, <2>4, <2>5 DEF Covered
<1>3. Capped
  BY <1>1 DEF Capped, Open
<1>4. QED
  BY <1>1, <1>2, <1>3 DEF AllCovered

\* What an answer may report is at most the greatest there is.
LEMMA MostTokens ==
    ASSUME IsFiniteSet(Tokens)
    PROVE  /\ MostInput \in Nat /\ MostOutput \in Nat
           /\ \A tokens \in Tokens : tokens.input =< MostInput /\ tokens.output =< MostOutput
<1>1. ASSUME NEW f \in [Tokens -> Nat]
      PROVE  LET values == {0} \cup {f[tokens] : tokens \in Tokens}
             IN  Max(values) \in Nat /\ \A tokens \in Tokens : f[tokens] =< Max(values)
  <2> DEFINE image  == {f[tokens] : tokens \in Tokens}
             values == {0} \cup image
  <2>1. f \in Surjection(Tokens, image)
    BY DEF Surjection
  <2>2. IsFiniteSet(image)
    BY <2>1, FS_Surjection
  <2>3. values \in SUBSET Nat /\ values # {} /\ IsFiniteSet(values)
    <3>1. image \in SUBSET Nat
      OBVIOUS
    <3>2. IsFiniteSet({0})
      BY FS_Singleton
    <3> HIDE DEF image
    <3>3. IsFiniteSet(values)
      BY <2>2, <3>2, FS_Union
    <3>4. QED
      BY <3>1, <3>3
  <2>4. \A tokens \in Tokens : f[tokens] \in values
    OBVIOUS
  <2> HIDE DEF values
  <2>5. Max(values) \in Nat /\ \A tokens \in Tokens : f[tokens] =< Max(values)
    BY <2>3, <2>4, MaxIsGreatest
  <2>6. QED
    BY <2>5 DEF values
<1> DEFINE inputs  == [tokens \in Tokens |-> tokens.input]
           outputs == [tokens \in Tokens |-> tokens.output]
<1>2. inputs \in [Tokens -> Nat] /\ outputs \in [Tokens -> Nat]
  BY CapsAssumption
<1>3. /\ {inputs[tokens] : tokens \in Tokens} = {tokens.input : tokens \in Tokens}
      /\ {outputs[tokens] : tokens \in Tokens} = {tokens.output : tokens \in Tokens}
      /\ \A tokens \in Tokens : inputs[tokens] = tokens.input /\ outputs[tokens] = tokens.output
  OBVIOUS
<1> HIDE DEF inputs, outputs
<1>4. QED
  BY <1>1, <1>2, <1>3 DEF MostInput, MostOutput

\* What was below a limit, joined by that many generations, exceeds it by no more than they report.
LEMMA CoveredIsBounded ==
    ASSUME Ground, AllCovered, IsFiniteSet(Tokens)
    PROVE  OverspendBounded
<1>1. SUFFICES ASSUME NEW caps \in CapChoices, NEW w \in caps.windows, NEW purpose \in Purposes,
                      CapChoices = {caps}, caps.concurrency # None
               PROVE  LET records == InWindow(purpose, now, w.duration)
                      IN  /\ w.input # None =>
                               InputOf(records) =< Max({w.input - 1, 0}) + caps.concurrency * MostInput
                          /\ w.output # None =>
                               OutputOf(records) =< Max({w.output - 1, 0}) + caps.concurrency * MostOutput
  BY DEF OverspendBounded
<1> DEFINE records == InWindow(purpose, now, w.duration)
<1>2. PICK old \in SUBSET Recorded :
         /\ Cardinality(Since(purpose, old) \cup {}) =< caps.concurrency
         /\ Below(w.input, InputOf(records \cap old)) /\ Below(w.output, OutputOf(records \cap old))
  BY <1>1 DEF AllCovered, Covered
<1> DEFINE first == records \cap old
           later == records \ old
           n     == caps.concurrency
<1>3. /\ n \in Nat /\ w.input \in Limits /\ w.output \in Limits
      /\ records \in SUBSET Recorded /\ first \in SUBSET Recorded /\ later \in SUBSET Recorded
  <2>1. records \in SUBSET Recorded
    BY DEF InWindow, Recorded
  <2>2. QED
    BY <1>1, <2>1, CapsTyped DEF Limits
<1>4. IsFiniteSet(later) /\ Cardinality(later) \in Nat /\ Cardinality(later) =< n
  <2> DEFINE since == Since(purpose, old) \cup {}
  <2>1. later \in SUBSET since
    BY DEF Since, InWindow, Recorded
  <2>2. IsFiniteSet(since) /\ Cardinality(since) \in Nat
    BY SinceFinite, FS_EmptySet
  <2>3. IsFiniteSet(later) /\ Cardinality(later) =< Cardinality(since)
    BY <2>1, <2>2, FS_Subset
  <2>4. Cardinality(later) \in Nat /\ Cardinality(since) =< n
    BY <1>2, <2>3, FS_CardinalityType
  <2> HIDE DEF since, later, n
  <2>5. QED
    BY <1>3, <2>2, <2>3, <2>4
<1>5. ASSUME NEW f \in [Recorded -> Nat], NEW m \in Nat, \A x \in Recorded : f[x] =< m
      PROVE  SumFunctionOnSet(f, records) =< SumFunctionOnSet(f, first) + n * m
  <2>1. IsFiniteSet(records)
    BY <1>3, CountsAreFinite, FS_Subset
  <2>2. \A x \in records : f[x] =< m
    BY <1>3, <1>5
  <2>3. Cardinality(records \ old) =< n
    BY <1>4
  <2> HIDE DEF records, later, n
  <2>4. SumFunctionOnSet(f, records) =< SumFunctionOnSet(f, records \cap old) + n * m
    BY <1>3, <2>1, <2>2, <2>3, SumOverrun
  <2>5. QED
    BY <2>4
<1>6. /\ Inputs \in [Recorded -> Nat] /\ Outputs \in [Recorded -> Nat]
      /\ InputOf(records) = SumFunctionOnSet(Inputs, records)
      /\ OutputOf(records) = SumFunctionOnSet(Outputs, records)
      /\ InputOf(first) = SumFunctionOnSet(Inputs, first)
      /\ OutputOf(first) = SumFunctionOnSet(Outputs, first)
      /\ InputOf(records) \in Nat /\ OutputOf(records) \in Nat
      /\ InputOf(first) \in Nat /\ OutputOf(first) \in Nat
  BY <1>3, SumsTyped
<1>7. MostInput \in Nat /\ MostOutput \in Nat /\ n * MostInput \in Nat /\ n * MostOutput \in Nat
  BY <1>3, MostTokens
<1>8. \A x \in Recorded : Inputs[x] =< MostInput /\ Outputs[x] =< MostOutput
  <2>1. \A x \in Recorded : usage[x].tokens \in Tokens
    BY DEF Ground, TypeOK, Recorded
  <2>2. QED
    BY <2>1, MostTokens DEF Inputs, Outputs
<1>9. /\ InputOf(records) =< InputOf(first) + n * MostInput
      /\ OutputOf(records) =< OutputOf(first) + n * MostOutput
  <2> HIDE DEF records, first, n
  <2>1. QED
    BY <1>5, <1>6, <1>7, <1>8
<1>10. /\ w.input # None => InputOf(first) =< Max({w.input - 1, 0}) /\ Max({w.input - 1, 0}) \in Nat
       /\ w.output # None => OutputOf(first) =< Max({w.output - 1, 0}) /\ Max({w.output - 1, 0}) \in Nat
  <2>1. \A limit \in Nat : limit - 1 \in Int
    OBVIOUS
  <2>2. QED
    BY <1>2, <1>3, <2>1, MaxOfTwo DEF Below, Limits
<1>11. QED
  <2> HIDE DEF records, first
  <2>1. /\ w.input # None => InputOf(records) =< Max({w.input - 1, 0}) + n * MostInput
        /\ w.output # None => OutputOf(records) =< Max({w.output - 1, 0}) + n * MostOutput
    <3> HIDE DEF n
    <3>1. QED
      BY <1>6, <1>7, <1>9, <1>10
  <2>2. QED
    BY <2>1 DEF records

\* Nothing is reserved for a submit, and what the sum found may be joined by the usage of every generation the
\* count let through: a window is overrun by no more than those together report.
THEOREM OverspendIsBounded == ASSUME IsFiniteSet(Tokens) PROVE Spec => []OverspendBounded
<1>1. Init => Capped /\ AllCovered
  BY AllCoveredInit
<1>2. AdmissionInv /\ Capped /\ AllCovered /\ [Next]_vars => Capped' /\ AllCovered'
  BY CappedStep, AllCoveredStep DEF AdmissionInv
<1>3. AdmissionInv /\ Capped /\ AllCovered => OverspendBounded
  BY CoveredIsBounded DEF AdmissionInv
<1>4. QED
  BY <1>1, <1>2, <1>3, AdmissionInvariant, PTL DEF Spec

=============================================================================
