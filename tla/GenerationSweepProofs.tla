----------------------- MODULE GenerationSweepProofs -----------------------
(***************************************************************************)
(* Proofs about GenerationSweep: the types, the balance of the slots, what *)
(* a run checks and when, and the uniqueness of the leader.                *)
(*                                                                         *)
(* The inductive invariant, SweepInv, holds for any number of runs,        *)
(* replicas and generations and for every size and timeout: finiteness is  *)
(* not assumed of any constant but proved of what the sweep holds, which   *)
(* grows by one element at a time.                                         *)
(***************************************************************************)
EXTENDS GenerationSweep, SetLemmas

-----------------------------------------------------------------------------
(***************************************************************************)
(* The statement that reads a page.                                        *)
(***************************************************************************)
\* A page is the first unsettled generations past the given one: what it leaves out comes after all it
\* holds, and only when it is full.
LEMMA PageIsPrefix ==
    ASSUME unsettled \in SUBSET Nat, IsFiniteSet(unsettled), NEW after \in Nat,
           NEW g \in unsettled, g > after, g \notin Page(after)
    PROVE  /\ Cardinality(Page(after)) >= BatchSize
           /\ \A p \in Page(after) : p < g
<1> DEFINE left     == {h \in unsettled : h > after}
           below(h) == {k \in left : k < h}
           missed   == {h \in left : h \notin Page(after)}
<1>1. IsFiniteSet(left) /\ left \in SUBSET Nat
  BY FS_Subset
<1>2. \A h \in left : IsFiniteSet(below(h)) /\ Cardinality(below(h)) \in Nat
  <2>1. SUFFICES ASSUME NEW h \in left
                 PROVE  IsFiniteSet(below(h)) /\ Cardinality(below(h)) \in Nat
    OBVIOUS
  <2>2. below(h) \in SUBSET left
    OBVIOUS
  <2>3. IsFiniteSet(below(h))
    BY <1>1, <2>2, FS_Subset
  <2>4. QED
    BY <2>3, FS_CardinalityType
<1>3. \A h \in left : h \in Page(after) <=> Cardinality(below(h)) < BatchSize
  BY DEF Page
<1>4. Page(after) \in SUBSET left
  BY DEF Page
<1>5. \A p \in Page(after) : p < g
  <2>1. SUFFICES ASSUME NEW p \in Page(after), ~(p < g) PROVE FALSE
    OBVIOUS
  <2>2. p \in left /\ g \in left
    BY <1>4
  <2>3. below(g) \in SUBSET below(p)
    BY <1>1, <2>1, <2>2
  <2>4. Cardinality(below(g)) =< Cardinality(below(p))
    BY <1>2, <2>2, <2>3, FS_Subset
  <2>5. Cardinality(below(p)) < BatchSize /\ ~(Cardinality(below(g)) < BatchSize)
    BY <1>3, <2>2
  <2>6. QED
    BY <1>2, <2>2, <2>4, <2>5, SweepAssumption
<1>6. Cardinality(Page(after)) >= BatchSize
  <2>1. missed \in SUBSET Nat /\ missed # {}
    BY <1>1
  <2>2. PICK h \in missed : \A k \in missed : h =< k
    <3> HIDE DEF missed
    <3>1. QED
      BY <2>1, LeastNatural
  <2>3. below(h) \in SUBSET Page(after)
    BY <1>1, <2>2
  <2>4. IsFiniteSet(Page(after)) /\ Cardinality(Page(after)) \in Nat
    BY <1>1, <1>4, FS_Subset, FS_CardinalityType
  <2>5. Cardinality(below(h)) =< Cardinality(Page(after))
    BY <2>3, <2>4, FS_Subset
  <2>6. ~(Cardinality(below(h)) < BatchSize) /\ Cardinality(below(h)) \in Nat
    BY <1>2, <1>3, <2>2
  <2>7. QED
    BY <2>4, <2>5, <2>6, SweepAssumption
<1>7. QED
  BY <1>5, <1>6

-----------------------------------------------------------------------------
(***************************************************************************)
(* The inductive invariant.                                                *)
(***************************************************************************)
InBatch == {"dispatch", "granted", "wait"}

\* The run starts no check any more, and never will before it ends.
Closed(r) == run[r].over \/ ~MayStart(run[r].deadline)

Holders(p)  == {c \in checks : ReplicaOf[c.run] = p}
Starters(p) == {r \in Runs : ReplicaOf[r] = p /\ run[r].pc = "granted"}

\* What the sweep holds is finite, whatever the constants are.
Finite ==
    /\ IsFiniteSet(unsettled)
    /\ IsFiniteSet(checks)
    /\ \A p \in Replicas : IsFiniteSet(Starters(p))

\* A check belongs to a run in its batch, which keeps track of it, and ends before the run's deadline.
ChecksInBatch ==
    \A c \in checks :
        /\ run[c.run].pc \in InBatch
        /\ c.gen \in run[c.run].checked
        /\ now =< c.startedAt + CheckTimeout
        /\ run[c.run].deadline # None => c.startedAt + CheckTimeout < run[c.run].deadline

\* The page is what its run reads next: past what it checked, up to its last generation.
PagesAhead ==
    \A r \in Runs :
        /\ run[r].pc \notin InBatch => run[r].page = {}
        /\ run[r].pc = "granted" => run[r].page # {}
        /\ run[r].pc = "lock" => run[r].after = 0 /\ run[r].last = 0
        /\ run[r].pc = "read" => run[r].after = run[r].last
        /\ \A g \in run[r].page : g =< run[r].last /\ g \notin run[r].checked
        /\ \A g \in run[r].checked : g =< run[r].last

\* A run that may still start checks owes nothing behind its cursor.
NothingSkipped ==
    \A r \in Runs :
        /\ run[r].owed \subseteq unsettled \cup settled
        /\ run[r].pc = "read" =>
              Closed(r) \/ \A g \in run[r].owed \cap unsettled : g \in run[r].checked \/ g > run[r].last
        /\ run[r].pc \in InBatch =>
              \A g \in run[r].owed \cap unsettled :
                 g \in run[r].checked \cup run[r].page \/ (run[r].full /\ g > run[r].last)
        /\ run[r].pc = "wait" => run[r].page = {} \/ Closed(r)

SweepInv ==
    /\ TypeOK
    /\ Finite
    /\ SlotsBalanced
    /\ ChecksInBatch
    /\ PagesAhead
    /\ NothingSkipped
    /\ DrainedMissesNone

\* As long as no session is severed, the role is held by the run that leads, and by no other.
LeadHeld == \A r \in Runs : Leading(r) <=> leader = r

-----------------------------------------------------------------------------
(***************************************************************************)
(* Types.                                                                  *)
(***************************************************************************)
RunStates ==
    [pc : Pcs, deadline : Nat \cup {None}, over : BOOLEAN, after : Nat, page : SUBSET Generations,
     last : Nat, full : BOOLEAN, checked : SUBSET Generations, owed : SUBSET Generations]

Checks == [run : Runs, gen : Generations, startedAt : Nat]

\* A run that is over holds a typed state.
LEMMA NoRunType == NoRun \in RunStates
BY DEF NoRun, RunStates, Pcs

\* What a step of one run writes is a state of a run.
LEMMA RunType ==
    ASSUME TypeOK, NEW r \in Runs,
           \/ Begin(r) \/ TakeLead(r) \/ LeadFails(r) \/ ReadBatch(r) \/ ReadFails(r) \/ TakeSlot(r)
           \/ StopDispatch(r) \/ StartCheck(r) \/ EndBatch(r) \/ Unlock(r) \/ EndContext(r),
           IsFiniteSet(unsettled), PagesAhead
    PROVE  run' \in [Runs -> RunStates]
<1> run \in [Runs -> RunStates] /\ unsettled \subseteq Generations
  BY DEF TypeOK, RunStates
<1>1. SUFFICES \E v \in RunStates : run' = [run EXCEPT ![r] = v]
  OBVIOUS
<1>2. ASSUME NEW pc \in Pcs, Goto(r, pc) PROVE \E v \in RunStates : run' = [run EXCEPT ![r] = v]
  <2> DEFINE v == [run[r] EXCEPT !.pc = pc]
  <2>1. v \in RunStates
    BY <1>2 DEF RunStates
  <2>2. run' = [run EXCEPT ![r] = v]
    BY <1>2 DEF Goto
  <2>3. QED
    BY <2>1, <2>2
<1>3. {"unlock", "granted", "wait"} \subseteq Pcs
  BY DEF Pcs
<1>4. CASE Begin(r)
  <2>1. \A d \in Deadlines : [NoRun EXCEPT !.pc = "lock", !.deadline = d] \in RunStates
    BY SweepAssumption DEF NoRun, RunStates, Pcs
  <2>2. QED
    BY <1>4, <2>1 DEF Begin
<1>5. CASE TakeLead(r)
  BY <1>5, NoRunType DEF TakeLead, RunStates, Pcs
<1>6. CASE LeadFails(r) \/ Unlock(r)
  BY <1>6, NoRunType DEF LeadFails, Unlock
<1>7. CASE ReadBatch(r)
  <2> DEFINE page == Page(run[r].after)
             last == Max({run[r].after} \cup page)
             full == Cardinality(page) >= BatchSize
             v    == [run[r] EXCEPT !.pc = "dispatch", !.page = page, !.last = last, !.full = full]
  <2>1. CASE Closed(r)
    BY <1>7, <1>2, <1>3, <2>1 DEF ReadBatch, Closed
  <2>2. CASE ~Closed(r)
    <3>1. page \in SUBSET unsettled
      BY DEF Page
    <3>2. run[r].after \in Nat /\ page \in SUBSET Nat
      BY <3>1, SweepAssumption DEF RunStates
    <3>3. {run[r].after} \cup page \in SUBSET Nat /\ IsFiniteSet({run[r].after} \cup page)
      BY <3>1, <3>2, FS_Subset, FS_AddElement
    <3>4. last \in Nat
      BY <3>2, <3>3, MaxIsGreatest
    <3>5. v \in RunStates
      <4>1. page \in SUBSET Generations /\ full \in BOOLEAN
        BY <3>1 DEF TypeOK
      <4> HIDE DEF page, last, full
      <4>2. QED
        BY <3>4, <4>1 DEF RunStates, Pcs
    <3>6. run' = [run EXCEPT ![r] = v]
      BY <1>7, <2>2 DEF ReadBatch, Closed
    <3>7. QED
      BY <3>5, <3>6
  <2>3. QED
    BY <2>1, <2>2
<1>8. CASE ReadFails(r) \/ TakeSlot(r) \/ StopDispatch(r)
  <2>1. CASE ReadFails(r)
    BY <1>2, <1>3, <2>1 DEF ReadFails
  <2>2. CASE TakeSlot(r)
    BY <1>2, <1>3, <2>2 DEF TakeSlot
  <2>3. CASE StopDispatch(r)
    BY <1>2, <1>3, <2>3 DEF StopDispatch
  <2>4. QED
    BY <1>8, <2>1, <2>2, <2>3
<1>9. CASE StartCheck(r)
  <2>1. CASE Closed(r)
    BY <1>9, <1>2, <1>3, <2>1 DEF StartCheck, Closed
  <2>2. CASE ~Closed(r)
    <3> DEFINE g == Min(run[r].page)
               v == [run[r] EXCEPT !.pc = "dispatch", !.page = @ \ {g}, !.checked = @ \cup {g}]
    <3>1. g \in run[r].page
      <4>1. run[r].page \in SUBSET Nat /\ run[r].page # {}
        BY <1>9, SweepAssumption DEF StartCheck, PagesAhead, RunStates
      <4>2. QED
        BY <4>1, MinIsLeast
    <3>2. v \in RunStates
      <4> HIDE DEF g
      <4>1. QED
        BY <3>1 DEF RunStates, Pcs
    <3>3. run' = [run EXCEPT ![r] = v]
      BY <1>9, <2>2 DEF StartCheck, Closed
    <3>4. QED
      BY <3>2, <3>3
  <2>3. QED
    BY <2>1, <2>2
<1>10. CASE EndBatch(r)
  <2> DEFINE pc == IF run[r].full THEN "read" ELSE IF run[r].page = {} THEN "drained" ELSE "unlock"
             v  == [run[r] EXCEPT !.pc = pc, !.after = run[r].last, !.page = {}]
  <2>1. pc \in Pcs
    BY DEF Pcs
  <2>2. run' = [run EXCEPT ![r] = v]
    BY <1>10 DEF EndBatch
  <2>3. v \in RunStates
    <3> HIDE DEF pc
    <3>1. QED
      BY <2>1 DEF RunStates
  <2>4. QED
    BY <2>2, <2>3
<1>11. CASE EndContext(r)
  <2> DEFINE v == [run[r] EXCEPT !.over = TRUE]
  <2>1. v \in RunStates
    BY DEF RunStates
  <2>2. run' = [run EXCEPT ![r] = v]
    BY <1>11 DEF EndContext
  <2>3. QED
    BY <2>1, <2>2
<1>12. QED
  BY <1>4, <1>5, <1>6, <1>7, <1>8, <1>9, <1>10, <1>11

-----------------------------------------------------------------------------
(***************************************************************************)
(* The slots.                                                              *)
(***************************************************************************)
Balanced(p) == slots[p] = Cardinality(Holders(p)) + Cardinality(Starters(p))

\* The slots are balanced when they are on each replica.
LEMMA BalanceIs == SlotsBalanced <=> \A p \in Replicas : Balanced(p)
BY DEF SlotsBalanced, Balanced, Holders, Starters

\* The holders of the slots of one process are finite in number, and each of them holds one.
LEMMA SlotsCount ==
    ASSUME Finite, SlotsBalanced, NEW p \in Replicas
    PROVE  /\ IsFiniteSet(Holders(p)) /\ Cardinality(Holders(p)) \in Nat
           /\ IsFiniteSet(Starters(p)) /\ Cardinality(Starters(p)) \in Nat
           /\ Balanced(p)
           /\ Holders(p) # {} \/ Starters(p) # {} => slots[p] >= 1
<1>1. Holders(p) \in SUBSET checks /\ IsFiniteSet(checks) /\ IsFiniteSet(Starters(p))
  BY DEF Holders, Finite
<1>2. IsFiniteSet(Holders(p)) /\ Cardinality(Holders(p)) \in Nat
  BY <1>1, FS_Subset, FS_CardinalityType
<1>3. Cardinality(Starters(p)) \in Nat
  BY <1>1, FS_CardinalityType
<1>4. Balanced(p)
  BY BalanceIs
<1>5. /\ Cardinality(Holders(p)) = 0 <=> Holders(p) = {}
      /\ Cardinality(Starters(p)) = 0 <=> Starters(p) = {}
  BY <1>1, <1>2, FS_EmptySet
<1>6. QED
  BY <1>1, <1>2, <1>3, <1>4, <1>5 DEF Balanced

\* A run takes a slot, and its process counts it.
LEMMA TakeSlotBalance ==
    ASSUME TypeOK, Finite, SlotsBalanced, NEW r \in Runs, TakeSlot(r), NEW p \in Replicas
    PROVE  Balanced(p)' /\ IsFiniteSet(Starters(p)')
<1>1. /\ checks' = checks /\ slots' = [slots EXCEPT ![ReplicaOf[r]] = @ + 1]
      /\ run[r].pc = "dispatch" /\ run'[r].pc = "granted"
      /\ \A q \in Runs \ {r} : run'[q] = run[q]
  <2>1. run' = [run EXCEPT ![r].pc = "granted"]
    BY DEF TakeSlot, Goto
  <2>2. QED
    BY <2>1 DEF TypeOK, TakeSlot
<1>2. Holders(p)' = Holders(p)
  BY <1>1 DEF Holders
<1>3. CASE p = ReplicaOf[r]
  <2>1. Starters(p)' = Starters(p) \cup {r} /\ r \notin Starters(p)
    BY <1>1, <1>3 DEF Starters
  <2>2. slots'[p] = slots[p] + 1
    BY <1>1, <1>3 DEF TypeOK
  <2>3. Cardinality(Starters(p)') = Cardinality(Starters(p)) + 1 /\ IsFiniteSet(Starters(p)')
    BY <2>1, SlotsCount, FS_AddElement
  <2>4. QED
    BY <1>2, <2>2, <2>3, SlotsCount DEF Balanced
<1>4. CASE p # ReplicaOf[r]
  <2>1. Starters(p)' = Starters(p) /\ slots'[p] = slots[p]
    BY <1>1, <1>4 DEF Starters, TypeOK
  <2>2. QED
    BY <1>2, <2>1, SlotsCount DEF Balanced
<1>5. QED
  BY <1>3, <1>4

\* A run gives the slot it took to the check it starts, or back to its process.
LEMMA StartCheckBalance ==
    ASSUME TypeOK, Finite, SlotsBalanced, ChecksInBatch, PagesAhead,
           NEW r \in Runs, StartCheck(r), NEW p \in Replicas
    PROVE  Balanced(p)' /\ IsFiniteSet(Starters(p)') /\ IsFiniteSet(checks')
<1> DEFINE g == Min(run[r].page)
           c == [run |-> r, gen |-> g, startedAt |-> now]
<1>1. /\ ReplicaOf[r] \in Replicas /\ slots[p] \in Int
      /\ run[r].pc = "granted" /\ run'[r].pc # "granted"
      /\ \A q \in Runs \ {r} : run'[q] = run[q]
  BY SweepAssumption DEF TypeOK, StartCheck, Goto
<1>2. IF p = ReplicaOf[r]
        THEN Starters(p)' = Starters(p) \ {r} /\ r \in Starters(p)
        ELSE Starters(p)' = Starters(p)
  <2>1. CASE p = ReplicaOf[r]
    BY <1>1, <2>1 DEF Starters
  <2>2. CASE p # ReplicaOf[r]
    BY <1>1, <2>2 DEF Starters
  <2>3. QED
    BY <2>1, <2>2
<1>3. CASE Closed(r)
  <2>1. slots' = [slots EXCEPT ![ReplicaOf[r]] = @ - 1] /\ checks' = checks
    BY <1>3 DEF StartCheck, Closed
  <2>2. Holders(p)' = Holders(p)
    BY <2>1 DEF Holders
  <2>3. slots'[p] = IF p = ReplicaOf[r] THEN slots[p] - 1 ELSE slots[p]
    BY <1>1, <2>1 DEF TypeOK
  <2>4. IsFiniteSet(checks')
    BY <2>1 DEF Finite
  <2>5. CASE p = ReplicaOf[r]
    <3>1. Cardinality(Starters(p)') = Cardinality(Starters(p)) - 1 /\ IsFiniteSet(Starters(p)')
      BY <1>2, <2>5, SlotsCount, FS_RemoveElement
    <3>2. QED
      BY <2>2, <2>3, <2>4, <2>5, <3>1, SlotsCount DEF Balanced
  <2>6. CASE p # ReplicaOf[r]
    BY <1>2, <2>2, <2>3, <2>4, <2>6, SlotsCount DEF Balanced
  <2>7. QED
    BY <2>5, <2>6
<1>4. CASE ~Closed(r)
  <2>1. slots' = slots /\ checks' = checks \cup {c}
    BY <1>4 DEF StartCheck, Closed
  <2>2. g \in run[r].page /\ g \notin run[r].checked
    <3>1. run[r].page \in SUBSET Nat /\ run[r].page # {}
      BY <1>1, SweepAssumption DEF TypeOK, PagesAhead
    <3>2. g \in run[r].page
      BY <3>1, MinIsLeast
    <3>3. QED
      BY <3>2 DEF PagesAhead
  <2>3. c \notin checks
    <3> HIDE DEF g
    <3>1. QED
      BY <2>2 DEF ChecksInBatch
  <2>4. c.run = r
    OBVIOUS
  <2>5. IF p = ReplicaOf[r] THEN Holders(p)' = Holders(p) \cup {c} /\ c \notin Holders(p)
                            ELSE Holders(p)' = Holders(p)
    <3> HIDE DEF c
    <3>1. QED
      BY <2>1, <2>3, <2>4 DEF Holders
  <2>6. IsFiniteSet(checks')
    BY <2>1, FS_AddElement DEF Finite
  <2>7. QED
    <3> HIDE DEF c
    <3>1. CASE p = ReplicaOf[r]
      <4>1. /\ Cardinality(Holders(p)') = Cardinality(Holders(p)) + 1
            /\ Cardinality(Starters(p)') = Cardinality(Starters(p)) - 1
            /\ IsFiniteSet(Starters(p)')
        <5>1. Holders(p)' = Holders(p) \cup {c} /\ c \notin Holders(p)
          BY <2>5, <3>1
        <5>2. Starters(p)' = Starters(p) \ {r} /\ r \in Starters(p)
          BY <1>2, <3>1
        <5>3. Cardinality(Holders(p)') = Cardinality(Holders(p)) + 1
          BY <5>1, SlotsCount, FS_AddElement
        <5>4. QED
          BY <5>2, <5>3, SlotsCount, FS_RemoveElement
      <4>2. QED
        BY <2>1, <2>6, <4>1, SlotsCount DEF Balanced
    <3>2. CASE p # ReplicaOf[r]
      BY <1>2, <2>1, <2>5, <2>6, <3>2, SlotsCount DEF Balanced
    <3>3. QED
      BY <3>1, <3>2
<1>5. QED
  BY <1>3, <1>4

\* A check that ends gives its slot back.
LEMMA EndCheckBalance ==
    ASSUME TypeOK, Finite, SlotsBalanced, NEW c \in checks, EndCheck(c), NEW p \in Replicas
    PROVE  Balanced(p)' /\ IsFiniteSet(Starters(p)') /\ IsFiniteSet(checks')
<1>1. /\ checks' = checks \ {c} /\ run' = run /\ slots[p] \in Int
      /\ slots' = [slots EXCEPT ![ReplicaOf[c.run]] = @ - 1]
  BY DEF EndCheck, TypeOK
<1>2. Starters(p)' = Starters(p)
  BY <1>1 DEF Starters
<1>3. IF p = ReplicaOf[c.run] THEN Holders(p)' = Holders(p) \ {c} /\ c \in Holders(p)
                              ELSE Holders(p)' = Holders(p)
  BY <1>1 DEF Holders
<1>4. slots'[p] = IF p = ReplicaOf[c.run] THEN slots[p] - 1 ELSE slots[p]
  BY <1>1 DEF TypeOK
<1>5. IsFiniteSet(checks')
  BY <1>1, FS_RemoveElement DEF Finite
<1>6. CASE p = ReplicaOf[c.run]
  <2>1. Cardinality(Holders(p)') = Cardinality(Holders(p)) - 1
    BY <1>3, <1>6, SlotsCount, FS_RemoveElement
  <2>2. QED
    BY <1>1, <1>2, <1>4, <1>5, <1>6, <2>1, SlotsCount DEF Balanced
<1>7. CASE p # ReplicaOf[c.run]
  BY <1>2, <1>3, <1>4, <1>5, <1>7, SlotsCount DEF Balanced
<1>8. QED
  BY <1>6, <1>7

\* A process that dies takes its runs, its checks and its slots with it.
LEMMA CrashBalance ==
    ASSUME TypeOK, Finite, SlotsBalanced, NEW p \in Replicas, NEW q \in Replicas, Crash(q)
    PROVE  Balanced(p)' /\ IsFiniteSet(Starters(p)') /\ IsFiniteSet(checks')
<1>1. /\ slots' = [slots EXCEPT ![q] = 0]
      /\ run' = [r \in Runs |-> IF ReplicaOf[r] = q THEN NoRun ELSE run[r]]
      /\ \A c \in checks : c.run \in Runs
  BY DEF Crash, TypeOK
<1>2. checks' = {c \in checks : ReplicaOf[c.run] # q}
  BY <1>1 DEF Crash
<1>3. checks' \in SUBSET checks /\ IsFiniteSet(checks')
  <2>1. checks' \in SUBSET checks
    BY <1>2
  <2>2. QED
    BY <2>1, FS_Subset DEF Finite
<1>4. CASE p = q
  <2>1. Holders(p)' = {} /\ Starters(p)' = {} /\ slots'[p] = 0
    BY <1>1, <1>2, <1>4 DEF Holders, Starters, NoRun, TypeOK
  <2>2. QED
    BY <1>3, <2>1, FS_EmptySet DEF Balanced
<1>5. CASE p # q
  <2>1. Holders(p)' = Holders(p) /\ Starters(p)' = Starters(p) /\ slots'[p] = slots[p]
    BY <1>1, <1>2, <1>5 DEF Holders, Starters, TypeOK
  <2>2. QED
    BY <1>3, <2>1, SlotsCount DEF Balanced
<1>6. QED
  BY <1>4, <1>5

\* The steps that take no slot and give none back.
Slotless(r) ==
    \/ Begin(r) \/ TakeLead(r) \/ LeadFails(r) \/ ReadBatch(r) \/ ReadFails(r) \/ StopDispatch(r)
    \/ EndBatch(r) \/ Unlock(r) \/ EndContext(r)

\* What happens around the runs.
Around == SeverSession \/ Create \/ PollSettles \/ Tick \/ Recover \/ UNCHANGED vars

\* A step that takes and gives back no slot leaves the balance as it was.
LEMMA SlotlessBalance ==
    ASSUME TypeOK, Finite, SlotsBalanced, (\E r \in Runs : Slotless(r)) \/ Around, NEW p \in Replicas
    PROVE  Balanced(p)' /\ IsFiniteSet(Starters(p)') /\ IsFiniteSet(checks') /\ slots' = slots
<1>1. /\ slots' = slots /\ checks' = checks
      /\ \A q \in Runs : run'[q].pc = "granted" <=> run[q].pc = "granted"
  <2>1. CASE Around
    BY <2>1 DEF Around, SeverSession, Create, PollSettles, Tick, Recover, vars
  <2>2. ASSUME NEW r \in Runs, Slotless(r)
        PROVE  /\ slots' = slots /\ checks' = checks
               /\ \A q \in Runs : run'[q].pc = "granted" <=> run[q].pc = "granted"
    <3>1. slots' = slots /\ checks' = checks
      BY <2>2 DEF Slotless, Begin, TakeLead, LeadFails, ReadBatch, ReadFails, StopDispatch, EndBatch,
         Unlock, EndContext
    <3>2. /\ \A q \in Runs \ {r} : run'[q] = run[q]
          /\ run'[r].pc = "granted" <=> run[r].pc = "granted"
      <4> run \in [Runs -> RunStates]
        BY DEF TypeOK, RunStates
      <4>1. CASE Begin(r)
        BY <4>1 DEF Begin, NoRun
      <4>2. CASE TakeLead(r)
        BY <4>2 DEF TakeLead, NoRun, RunStates
      <4>3. CASE LeadFails(r) \/ Unlock(r)
        BY <4>3 DEF LeadFails, Unlock, NoRun
      <4>4. CASE ReadBatch(r) \/ ReadFails(r)
        BY <4>4 DEF ReadBatch, ReadFails, Goto, RunStates
      <4>5. CASE StopDispatch(r) \/ EndContext(r)
        BY <4>5 DEF StopDispatch, EndContext, Goto, RunStates
      <4>6. CASE EndBatch(r)
        BY <4>6 DEF EndBatch, RunStates
      <4>7. QED
        BY <2>2, <4>1, <4>2, <4>3, <4>4, <4>5, <4>6 DEF Slotless
    <3>3. QED
      BY <3>1, <3>2
  <2>3. QED
    BY <2>1, <2>2
<1>2. Holders(p)' = Holders(p) /\ Starters(p)' = Starters(p)
  BY <1>1 DEF Holders, Starters
<1>3. QED
  BY <1>1, <1>2, SlotsCount DEF Balanced, Finite

\* Every step is a step of a run that keeps its slots, one that does not, or one around the runs.
LEMMA StepCases ==
    ASSUME [Next]_vars
    PROVE  \/ \E r \in Runs : Slotless(r) \/ TakeSlot(r) \/ StartCheck(r)
           \/ \E c \in checks : EndCheck(c)
           \/ \E p \in Replicas : Crash(p)
           \/ Around
BY DEF Next, Sweep, Slotless, Around

\* Every step leaves each slot with its holder, and what is held finite.
LEMMA BalanceStep ==
    ASSUME SweepInv, [Next]_vars
    PROVE  SlotsBalanced' /\ Finite'
<1> USE DEF SweepInv
<1>1. IsFiniteSet(unsettled')
  <2>1. CASE Create
    BY <2>1, FS_AddElement DEF Create, Finite
  <2>2. CASE ~Create
    <3>1. unsettled' \in SUBSET unsettled
      <4>1. ASSUME NEW c \in checks, EndCheck(c) PROVE unsettled' \in SUBSET unsettled
        BY <4>1 DEF EndCheck
      <4>2. ASSUME NEW p \in Replicas, Crash(p) PROVE unsettled' \in SUBSET unsettled
        BY <4>2 DEF Crash
      <4>3. ASSUME NEW r \in Runs, Slotless(r) \/ TakeSlot(r) \/ StartCheck(r)
            PROVE  unsettled' \in SUBSET unsettled
        BY <4>3 DEF Slotless, Begin, TakeLead, LeadFails, ReadBatch, ReadFails, StopDispatch, EndBatch,
           Unlock, EndContext, TakeSlot, StartCheck
      <4>4. CASE Around
        BY <2>2, <4>4 DEF Around, SeverSession, PollSettles, Tick, Recover, vars
      <4>5. QED
        BY <4>1, <4>2, <4>3, <4>4, StepCases
    <3>2. QED
      BY <3>1, FS_Subset DEF Finite
  <2>3. QED
    BY <2>1, <2>2
<1>2. IsFiniteSet(checks') /\ \A p \in Replicas : Balanced(p)' /\ IsFiniteSet(Starters(p)')
  <2>1. ASSUME NEW r \in Runs, TakeSlot(r)
        PROVE  IsFiniteSet(checks') /\ \A p \in Replicas : Balanced(p)' /\ IsFiniteSet(Starters(p)')
    <3>1. IsFiniteSet(checks')
      BY <2>1 DEF TakeSlot, Finite
    <3>2. QED
      BY <2>1, <3>1, TakeSlotBalance
  <2>2. ASSUME NEW r \in Runs, StartCheck(r)
        PROVE  IsFiniteSet(checks') /\ \A p \in Replicas : Balanced(p)' /\ IsFiniteSet(Starters(p)')
    <3>1. ReplicaOf[r] \in Replicas
      BY SweepAssumption
    <3>2. QED
      BY <2>2, <3>1, StartCheckBalance
  <2>3. ASSUME NEW c \in checks, EndCheck(c)
        PROVE  IsFiniteSet(checks') /\ \A p \in Replicas : Balanced(p)' /\ IsFiniteSet(Starters(p)')
    <3>1. IsFiniteSet(checks')
      BY <2>3, FS_RemoveElement DEF EndCheck, Finite
    <3>2. QED
      BY <2>3, <3>1, EndCheckBalance
  <2>4. ASSUME NEW q \in Replicas, Crash(q)
        PROVE  IsFiniteSet(checks') /\ \A p \in Replicas : Balanced(p)' /\ IsFiniteSet(Starters(p)')
    BY <2>4, CrashBalance
  <2>5. CASE (\E r \in Runs : Slotless(r)) \/ Around
    <3>1. checks' = checks
      BY <2>5 DEF Slotless, Begin, TakeLead, LeadFails, ReadBatch, ReadFails, StopDispatch, EndBatch,
         Unlock, EndContext, Around, SeverSession, Create, PollSettles, Tick, Recover, vars
    <3>2. IsFiniteSet(checks')
      BY <3>1 DEF Finite
    <3>3. QED
      BY <2>5, <3>2, SlotlessBalance
  <2>6. QED
    BY <2>1, <2>2, <2>3, <2>4, <2>5, StepCases
<1>3. SlotsBalanced'
  BY <1>2, BalanceIs DEF SlotsBalanced, Balanced, Holders, Starters
<1>4. QED
  BY <1>1, <1>2, <1>3 DEF Finite

\* Every variable keeps its type: no slot is given back that was not taken.
LEMMA TypeStep == ASSUME SweepInv, [Next]_vars PROVE TypeOK'
<1> USE DEF SweepInv
<1>1. run \in [Runs -> RunStates] /\ checks \in SUBSET Checks
  BY DEF TypeOK, RunStates, Checks
<1>3. ASSUME NEW r \in Runs, Slotless(r) PROVE TypeOK'
  <2>1. run' \in [Runs -> RunStates]
    BY <1>3, RunType DEF Slotless, Finite
  <2>2. UNCHANGED <<now, failing, unsettled, settled, slots, checks>> /\ leader' \in Runs \cup {None}
    BY <1>3 DEF Slotless, Begin, TakeLead, LeadFails, ReadBatch, ReadFails, StopDispatch, EndBatch,
       Unlock, EndContext, TypeOK
  <2>3. QED
    BY <2>1, <2>2 DEF TypeOK, RunStates
<1>4. ASSUME NEW r \in Runs, TakeSlot(r) PROVE TypeOK'
  <2>1. run' \in [Runs -> RunStates]
    BY <1>4, RunType DEF Finite
  <2>2. slots' \in [Replicas -> 0..Concurrency]
    <3>1. ReplicaOf[r] \in Replicas /\ slots \in [Replicas -> 0..Concurrency]
      BY SweepAssumption DEF TypeOK
    <3>2. slots[ReplicaOf[r]] + 1 \in 0..Concurrency
      BY <1>4, <3>1, SweepAssumption DEF TakeSlot
    <3>3. QED
      BY <1>4, <3>1, <3>2 DEF TakeSlot
  <2>3. QED
    BY <1>4, <2>1, <2>2 DEF TakeSlot, TypeOK, RunStates
<1>5. ASSUME NEW p \in Replicas, slots[p] >= 1, slots' = [slots EXCEPT ![p] = @ - 1]
      PROVE  slots' \in [Replicas -> 0..Concurrency]
  <2>1. slots \in [Replicas -> 0..Concurrency]
    BY DEF TypeOK
  <2>2. slots[p] - 1 \in 0..Concurrency
    BY <1>5, <2>1, SweepAssumption
  <2>3. QED
    BY <1>5, <2>1, <2>2
<1>6. ASSUME NEW r \in Runs, StartCheck(r) PROVE TypeOK'
  <2>1. run' \in [Runs -> RunStates]
    BY <1>6, RunType DEF Finite
  <2>2. CASE Closed(r)
    <3>1. ReplicaOf[r] \in Replicas /\ r \in Starters(ReplicaOf[r])
      BY <1>6, SweepAssumption DEF StartCheck, Starters
    <3>2. slots[ReplicaOf[r]] >= 1
      BY <3>1, SlotsCount
    <3>3. slots' \in [Replicas -> 0..Concurrency] /\ checks' = checks
      BY <1>5, <1>6, <2>2, <3>1, <3>2 DEF StartCheck, Closed
    <3>4. QED
      BY <1>6, <2>1, <3>3 DEF StartCheck, TypeOK, RunStates
  <2>3. CASE ~Closed(r)
    <3> DEFINE g == Min(run[r].page)
    <3>1. g \in Generations
      <4>1. run[r].page \in SUBSET Nat /\ run[r].page # {} /\ run[r].page \in SUBSET Generations
        BY <1>6, SweepAssumption DEF StartCheck, PagesAhead, TypeOK
      <4>2. QED
        BY <4>1, MinIsLeast
    <3>2. checks' = checks \cup {[run |-> r, gen |-> g, startedAt |-> now]} /\ slots' = slots
      BY <1>6, <2>3 DEF StartCheck, Closed
    <3>3. checks' \in SUBSET Checks
      <4> HIDE DEF g
      <4>1. now \in Nat
        BY DEF TypeOK
      <4>2. QED
        BY <1>1, <3>1, <3>2, <4>1 DEF Checks
    <3>4. QED
      BY <1>6, <2>1, <3>2, <3>3 DEF StartCheck, TypeOK, RunStates, Checks
  <2>4. QED
    BY <2>2, <2>3
<1>7. ASSUME NEW c \in checks, EndCheck(c) PROVE TypeOK'
  <2>1. ReplicaOf[c.run] \in Replicas /\ c \in Holders(ReplicaOf[c.run])
    BY <1>1, SweepAssumption DEF Checks, Holders
  <2>2. slots[ReplicaOf[c.run]] >= 1
    BY <2>1, SlotsCount
  <2>3. slots' \in [Replicas -> 0..Concurrency]
    BY <1>5, <1>7, <2>1, <2>2 DEF EndCheck
  <2>4. QED
    BY <1>7, <2>3 DEF EndCheck, TypeOK
<1>8. ASSUME NEW p \in Replicas, Crash(p) PROVE TypeOK'
  <2>1. run' \in [Runs -> RunStates]
    BY <1>1, <1>8, NoRunType DEF Crash
  <2>2. leader' \in Runs \cup {None} /\ checks' \in SUBSET checks
    BY <1>8 DEF Crash, TypeOK
  <2>3. slots' \in [Replicas -> 0..Concurrency]
    BY <1>8, SweepAssumption DEF Crash, TypeOK
  <2>4. QED
    BY <1>8, <2>1, <2>2, <2>3 DEF Crash, TypeOK, RunStates
<1>9. CASE Around
  <2>1. CASE Create \/ PollSettles
    BY <2>1 DEF Create, PollSettles, TypeOK
  <2>2. CASE SeverSession \/ Tick
    BY <2>2 DEF SeverSession, Tick, TypeOK
  <2>3. CASE Recover
    BY <2>3 DEF Recover, TypeOK
  <2>4. CASE UNCHANGED vars
    BY <2>4 DEF vars, TypeOK
  <2>5. QED
    BY <1>9, <2>1, <2>2, <2>3, <2>4 DEF Around
<1>10. QED
  BY <1>3, <1>4, <1>6, <1>7, <1>8, <1>9, StepCases

-----------------------------------------------------------------------------
(***************************************************************************)
(* What each step of a run leaves in its record.                           *)
(***************************************************************************)
\* The step is the run's: the others keep their records, and the backlog and the clock stand still.
Alone(r) == (\A q \in Runs \ {r} : run'[q] = run[q]) /\ UNCHANGED <<now, unsettled, settled>>

\* A step of a run changes no other run.
LEMMA StepsAlone ==
    ASSUME TypeOK, NEW r \in Runs, Slotless(r) \/ TakeSlot(r) \/ StartCheck(r)
    PROVE  Alone(r)
<1>1. CASE Slotless(r)
  BY <1>1 DEF Slotless, Alone, Begin, TakeLead, LeadFails, ReadBatch, ReadFails, StopDispatch, EndBatch,
     Unlock, EndContext, Goto, TypeOK
<1>2. CASE TakeSlot(r) \/ StartCheck(r)
  BY <1>2 DEF Alone, TakeSlot, StartCheck, Goto, TypeOK
<1>3. QED
  BY <1>1, <1>2

\* A run that begins, or ends, has nothing to check.
LEMMA FreshEffect ==
    ASSUME TypeOK, NEW r \in Runs,
           Begin(r) \/ LeadFails(r) \/ Unlock(r) \/ (TakeLead(r) /\ leader # None)
    PROVE  /\ run'[r].pc \in {"idle", "lock"} /\ run'[r].page = {} /\ run'[r].checked = {}
           /\ run'[r].owed = {}
           /\ run'[r].after = 0 /\ run'[r].last = 0
           /\ run[r].pc \notin InBatch
<1> run \in [Runs -> RunStates]
  BY DEF TypeOK, RunStates
<1>1. CASE Begin(r)
  <2>1. PICK deadline \in Deadlines :
           /\ run[r].pc = "idle"
           /\ run' = [run EXCEPT ![r] = [NoRun EXCEPT !.pc = "lock", !.deadline = deadline]]
    BY <1>1 DEF Begin
  <2>2. run'[r] = [NoRun EXCEPT !.pc = "lock", !.deadline = deadline]
    BY <2>1
  <2>3. QED
    BY <2>1, <2>2 DEF NoRun, InBatch
<1>2. CASE LeadFails(r) \/ Unlock(r) \/ (TakeLead(r) /\ leader # None)
  BY <1>2 DEF LeadFails, Unlock, TakeLead, NoRun, InBatch
<1>3. QED
  BY <1>1, <1>2

\* The run that takes the role owes every generation unsettled by then.
LEMMA TakeLeadEffect ==
    ASSUME TypeOK, NEW r \in Runs, TakeLead(r), leader = None
    PROVE  run[r].pc = "lock" /\ run' = [run EXCEPT ![r] = [run[r] EXCEPT !.pc = "read", !.owed = unsettled]]
BY DEF TakeLead

\* A step that moves the run on and changes nothing else of its record.
Moved(r, from, to) == run[r].pc \in from /\ run' = [run EXCEPT ![r] = [run[r] EXCEPT !.pc = to]]

\* Steps that move a run on without changing its pages.
LEMMA MovedEffect ==
    ASSUME NEW r \in Runs
    PROVE  /\ ReadFails(r) => Moved(r, {"read"}, "unlock")
           /\ ReadBatch(r) /\ Closed(r) => Moved(r, {"read"}, "unlock")
           /\ TakeSlot(r) => Moved(r, {"dispatch"}, "granted") /\ run[r].page # {}
           /\ StopDispatch(r) => Moved(r, {"dispatch"}, "wait") /\ (run[r].page = {} \/ run[r].over)
           /\ StartCheck(r) /\ Closed(r) => Moved(r, {"granted"}, "wait")
<1>1. ReadFails(r) => Moved(r, {"read"}, "unlock")
  BY DEF ReadFails, Goto, Moved
<1>2. ReadBatch(r) /\ Closed(r) => Moved(r, {"read"}, "unlock")
  BY DEF ReadBatch, Closed, Goto, Moved
<1>3. TakeSlot(r) => Moved(r, {"dispatch"}, "granted") /\ run[r].page # {}
  BY DEF TakeSlot, Goto, Moved
<1>4. StopDispatch(r) => Moved(r, {"dispatch"}, "wait") /\ (run[r].page = {} \/ run[r].over)
  BY DEF StopDispatch, Goto, Moved
<1>5. StartCheck(r) /\ Closed(r) => Moved(r, {"granted"}, "wait")
  BY DEF StartCheck, Closed, Goto, Moved
<1>6. QED
  BY <1>1, <1>2, <1>3, <1>4, <1>5

\* A page is read from the backlog as it stands, and its last generation bounds it.
LEMMA ReadBatchEffect ==
    ASSUME TypeOK, Finite, NEW r \in Runs, ReadBatch(r), ~Closed(r)
    PROVE  /\ run[r].pc = "read"
           /\ \E last \in Nat, full \in BOOLEAN :
                 /\ run' = [run EXCEPT ![r] = [run[r] EXCEPT !.pc = "dispatch", !.page = Page(run[r].after),
                                                            !.last = last, !.full = full]]
                 /\ run[r].after =< last
                 /\ \A g \in Page(run[r].after) : g =< last /\ g > run[r].after
                 /\ last \in {run[r].after} \cup Page(run[r].after)
                 /\ full <=> Cardinality(Page(run[r].after)) >= BatchSize
<1> DEFINE page == Page(run[r].after)
           last == Max({run[r].after} \cup page)
           full == Cardinality(page) >= BatchSize
<1>1. run[r].after \in Nat /\ page \in SUBSET unsettled /\ page \in SUBSET Nat
  BY SweepAssumption DEF TypeOK, Page
<1>2. {run[r].after} \cup page \in SUBSET Nat /\ IsFiniteSet({run[r].after} \cup page)
  BY <1>1, FS_Subset, FS_AddElement DEF Finite
<1>3. last \in {run[r].after} \cup page /\ \A g \in {run[r].after} \cup page : g =< last
  BY <1>1, <1>2, MaxIsGreatest
<1>4. run[r].pc = "read" /\ run' = [run EXCEPT ![r] = [run[r] EXCEPT !.pc = "dispatch", !.page = page,
                                                                    !.last = last, !.full = full]]
  BY DEF ReadBatch, Closed
<1>5. \A g \in page : g > run[r].after
  BY DEF Page
<1>6. last \in Nat /\ full \in BOOLEAN
  BY <1>1, <1>3
<1>7. QED
  <2> HIDE DEF page, last, full
  <2>1. full <=> Cardinality(page) >= BatchSize
    BY DEF full
  <2>2. QED
    BY <1>3, <1>4, <1>5, <1>6, <2>1 DEF page

\* The next generation of the page leaves it for a check.
LEMMA StartCheckEffect ==
    ASSUME TypeOK, PagesAhead, NEW r \in Runs, StartCheck(r), ~Closed(r)
    PROVE  /\ run[r].pc = "granted"
           /\ \E g \in run[r].page :
                 /\ run' = [run EXCEPT ![r] = [run[r] EXCEPT !.pc = "dispatch", !.page = @ \ {g},
                                                            !.checked = @ \cup {g}]]
                 /\ checks' = checks \cup {[run |-> r, gen |-> g, startedAt |-> now]}
<1> DEFINE g == Min(run[r].page)
<1>1. run[r].pc = "granted"
  BY DEF StartCheck
<1>2. g \in run[r].page
  <2>1. run[r].page \in SUBSET Nat /\ run[r].page # {}
    BY <1>1, SweepAssumption DEF TypeOK, PagesAhead
  <2>2. QED
    BY <2>1, MinIsLeast
<1>3. /\ run' = [run EXCEPT ![r] = [run[r] EXCEPT !.pc = "dispatch", !.page = @ \ {g},
                                                 !.checked = @ \cup {g}]]
      /\ checks' = checks \cup {[run |-> r, gen |-> g, startedAt |-> now]}
  BY DEF StartCheck, Closed
<1>4. QED
  BY <1>1, <1>2, <1>3

\* The end of a batch goes on to the next page, or ends the drain.
LEMMA EndBatchEffect ==
    ASSUME NEW r \in Runs, EndBatch(r)
    PROVE  /\ run[r].pc = "wait" /\ ChecksOf(r) = {}
           /\ run' = [run EXCEPT ![r] = [run[r] EXCEPT
                        !.pc = IF run[r].full THEN "read" ELSE IF run[r].page = {} THEN "drained" ELSE "unlock",
                        !.after = run[r].last, !.page = {}]]
BY DEF EndBatch

\* A deadline or a stop marks its run over, and no more.
LEMMA EndContextEffect ==
    ASSUME NEW r \in Runs, EndContext(r)
    PROVE  run' = [run EXCEPT ![r] = [run[r] EXCEPT !.over = TRUE]]
BY DEF EndContext

\* The steps of a run, by what they leave in its record.
Fresh(r) == Begin(r) \/ LeadFails(r) \/ Unlock(r) \/ (TakeLead(r) /\ leader # None)

Moves(r) ==
    \/ Moved(r, {"read"}, "unlock")
    \/ Moved(r, {"dispatch"}, "granted") /\ run[r].page # {}
    \/ Moved(r, {"dispatch"}, "wait") /\ (run[r].page = {} \/ run[r].over)
    \/ Moved(r, {"granted"}, "wait") /\ Closed(r)

\* The steps of a run, by what they change.
LEMMA RunCases ==
    ASSUME NEW r \in Runs, Slotless(r) \/ TakeSlot(r) \/ StartCheck(r)
    PROVE  \/ Fresh(r) \/ (TakeLead(r) /\ leader = None) \/ Moves(r)
           \/ (ReadBatch(r) /\ ~Closed(r)) \/ (StartCheck(r) /\ ~Closed(r)) \/ EndBatch(r) \/ EndContext(r)
<1>1. ReadFails(r) \/ (ReadBatch(r) /\ Closed(r)) \/ TakeSlot(r) \/ StopDispatch(r)
        \/ (StartCheck(r) /\ Closed(r)) => Moves(r)
  BY MovedEffect DEF Moves
<1>2. QED
  BY <1>1 DEF Slotless, Fresh

-----------------------------------------------------------------------------
(***************************************************************************)
(* The checks under way.                                                   *)
(***************************************************************************)
\* A run never leaves its batch, nor forgets a check, while that check goes on.
LEMMA ChecksKept ==
    ASSUME SweepInv, NEW r \in Runs, Slotless(r) \/ TakeSlot(r) \/ StartCheck(r),
           NEW c \in checks
    PROVE  /\ run'[c.run].pc \in InBatch /\ c.gen \in run'[c.run].checked
           /\ run'[c.run].deadline = run[c.run].deadline
<1> run \in [Runs -> RunStates] /\ c.run \in Runs /\ TypeOK /\ Finite /\ PagesAhead
  BY DEF SweepInv, TypeOK, RunStates
<1>1. run[c.run].pc \in InBatch /\ c.gen \in run[c.run].checked
  BY DEF SweepInv, ChecksInBatch
<1>2. CASE c.run # r
  BY <1>1, <1>2, StepsAlone DEF Alone
<1>3. CASE c.run = r
  <2>1. CASE Fresh(r)
    BY <1>1, <1>3, <2>1, FreshEffect DEF Fresh
  <2>2. CASE TakeLead(r) /\ leader = None
    BY <1>1, <1>3, <2>2, TakeLeadEffect DEF InBatch
  <2>3. CASE Moves(r)
    BY <1>1, <1>3, <2>3 DEF Moves, Moved, InBatch, RunStates
  <2>4. CASE ReadBatch(r) /\ ~Closed(r)
    BY <1>1, <1>3, <2>4, ReadBatchEffect DEF InBatch
  <2>5. CASE StartCheck(r) /\ ~Closed(r)
    <3>1. PICK g \in run[r].page :
             run' = [run EXCEPT ![r] = [run[r] EXCEPT !.pc = "dispatch", !.page = @ \ {g},
                                                     !.checked = @ \cup {g}]]
      BY <2>5, StartCheckEffect
    <3>2. QED
      BY <1>1, <1>3, <3>1 DEF InBatch, RunStates
  <2>6. CASE EndBatch(r)
    <3>1. c \notin ChecksOf(r)
      BY <2>6, EndBatchEffect
    <3>2. QED
      BY <1>3, <3>1 DEF ChecksOf
  <2>7. CASE EndContext(r)
    BY <1>1, <1>3, <2>7, EndContextEffect DEF RunStates
  <2>8. QED
    BY <2>1, <2>2, <2>3, <2>4, <2>5, <2>6, <2>7, RunCases
<1>4. QED
  BY <1>2, <1>3

\* A check starts only when it ends before the deadline of its run, and ends by its own.
LEMMA ChecksStep == ASSUME SweepInv, [Next]_vars PROVE ChecksInBatch'
<1> TypeOK /\ ChecksInBatch /\ Finite /\ PagesAhead
  BY DEF SweepInv
<1> DEFINE Kept(c) == /\ run'[c.run].pc \in InBatch /\ c.gen \in run'[c.run].checked
                      /\ now' =< c.startedAt + CheckTimeout
                      /\ run'[c.run].deadline # None => c.startedAt + CheckTimeout < run'[c.run].deadline
<1>1. SUFFICES \A c \in checks' : Kept(c)
  BY DEF ChecksInBatch
<1>2. ASSUME NEW r \in Runs, Slotless(r) \/ TakeSlot(r) \/ StartCheck(r), NEW c \in checks
      PROVE  Kept(c)
  <2>1. now' = now
    BY <1>2, StepsAlone DEF Alone
  <2>2. QED
    BY <1>2, <2>1, ChecksKept DEF ChecksInBatch
<1>3. ASSUME NEW r \in Runs, Slotless(r) \/ TakeSlot(r) \/ (StartCheck(r) /\ Closed(r))
      PROVE  \A c \in checks' : Kept(c)
  <2>1. checks' = checks
    BY <1>3 DEF Slotless, Begin, TakeLead, LeadFails, ReadBatch, ReadFails, StopDispatch, EndBatch,
       Unlock, EndContext, TakeSlot, StartCheck, Closed
  <2>2. QED
    BY <1>2, <1>3, <2>1
<1>4. ASSUME NEW r \in Runs, StartCheck(r), ~Closed(r)
      PROVE  \A c \in checks' : Kept(c)
  <2>1. PICK g \in run[r].page :
           /\ run' = [run EXCEPT ![r] = [run[r] EXCEPT !.pc = "dispatch", !.page = @ \ {g},
                                                      !.checked = @ \cup {g}]]
           /\ checks' = checks \cup {[run |-> r, gen |-> g, startedAt |-> now]}
    BY <1>4, StartCheckEffect
  <2>2. Kept([run |-> r, gen |-> g, startedAt |-> now])
    <3>1. run \in [Runs -> RunStates] /\ now \in Nat /\ now' = now
      BY <1>4 DEF TypeOK, RunStates, StartCheck
    <3>2. run'[r].pc = "dispatch" /\ g \in run'[r].checked /\ run'[r].deadline = run[r].deadline
      BY <2>1, <3>1 DEF RunStates
    <3>3. run[r].deadline # None => now < run[r].deadline - CheckTimeout /\ run[r].deadline \in Nat
      BY <1>4, <3>1 DEF Closed, MayStart, RunStates
    <3>4. QED
      BY <3>1, <3>2, <3>3, SweepAssumption DEF InBatch
  <2>3. QED
    BY <1>2, <1>4, <2>1, <2>2
<1>5. ASSUME NEW c \in checks, EndCheck(c) PROVE \A d \in checks' : Kept(d)
  BY <1>5 DEF EndCheck, ChecksInBatch
<1>6. ASSUME NEW p \in Replicas, Crash(p) PROVE \A c \in checks' : Kept(c)
  <2>1. ASSUME NEW c \in checks' PROVE c \in checks /\ run'[c.run] = run[c.run] /\ now' = now
    BY <1>6 DEF Crash, TypeOK
  <2>2. QED
    BY <2>1 DEF ChecksInBatch
<1>7. CASE Tick
  <2>1. \A c \in checks : c.startedAt \in Nat /\ now \in Nat
    BY DEF TypeOK
  <2>2. QED
    BY <1>7, <2>1, SweepAssumption DEF Tick, ChecksInBatch
<1>8. CASE SeverSession \/ Create \/ PollSettles \/ Recover \/ UNCHANGED vars
  BY <1>8 DEF SeverSession, Create, PollSettles, Recover, vars, ChecksInBatch
<1>9. QED
  BY <1>3, <1>4, <1>5, <1>6, <1>7, <1>8, StepCases DEF Around

-----------------------------------------------------------------------------
(***************************************************************************)
(* The pages.                                                              *)
(***************************************************************************)
PageAhead(q) ==
    /\ run[q].pc \notin InBatch => run[q].page = {}
    /\ run[q].pc = "granted" => run[q].page # {}
    /\ run[q].pc = "lock" => run[q].after = 0 /\ run[q].last = 0
    /\ run[q].pc = "read" => run[q].after = run[q].last
    /\ \A g \in run[q].page : g =< run[q].last /\ g \notin run[q].checked
    /\ \A g \in run[q].checked : g =< run[q].last

\* A run's cursor stays behind its page and past what it checked.
LEMMA PageAheadStep ==
    ASSUME SweepInv, NEW r \in Runs, Slotless(r) \/ TakeSlot(r) \/ StartCheck(r)
    PROVE  PageAhead(r)'
<1> run \in [Runs -> RunStates] /\ TypeOK /\ Finite /\ PagesAhead
  BY DEF SweepInv, TypeOK, RunStates
<1>1. PageAhead(r)
  BY DEF PagesAhead, PageAhead
<1>2. CASE Fresh(r)
  BY <1>2, FreshEffect DEF Fresh, PageAhead
<1>3. CASE TakeLead(r) /\ leader = None
  <2>1. run[r].pc = "lock" /\ run' = [run EXCEPT ![r] = [run[r] EXCEPT !.pc = "read", !.owed = unsettled]]
    BY <1>3, TakeLeadEffect
  <2>2. run[r].after = 0 /\ run[r].last = 0
    BY <1>1, <2>1 DEF PageAhead
  <2>3. QED
    BY <1>1, <2>1, <2>2 DEF PageAhead, InBatch, RunStates
<1>4. CASE Moves(r)
  BY <1>1, <1>4 DEF Moves, Moved, PageAhead, InBatch, RunStates
<1>5. CASE ReadBatch(r) /\ ~Closed(r)
  <2>1. PICK last \in Nat, full \in BOOLEAN :
           /\ run' = [run EXCEPT ![r] = [run[r] EXCEPT !.pc = "dispatch", !.page = Page(run[r].after),
                                                      !.last = last, !.full = full]]
           /\ run[r].after =< last
           /\ \A g \in Page(run[r].after) : g =< last /\ g > run[r].after
    BY <1>5, ReadBatchEffect
  <2>2. run[r].after \in Nat /\ run[r].checked \in SUBSET Nat /\ run[r].after = run[r].last
    BY <1>1, <1>5, SweepAssumption DEF RunStates, PageAhead, ReadBatch
  <2>3. \A g \in run[r].checked : g =< run[r].after
    BY <1>1, <2>2 DEF PageAhead
  <2>4. \A g \in Page(run[r].after) : g \in Nat
    BY SweepAssumption DEF Page, TypeOK
  <2>5. /\ run'[r].pc = "dispatch" /\ run'[r].page = Page(run[r].after) /\ run'[r].last = last
        /\ run'[r].checked = run[r].checked
    BY <2>1
  <2>6. \A g \in run'[r].checked : g =< run'[r].last
    BY <2>1, <2>2, <2>3, <2>5
  <2>7. \A g \in run'[r].page : g =< run'[r].last /\ g \notin run'[r].checked
    BY <2>1, <2>2, <2>3, <2>4, <2>5
  <2>8. QED
    BY <2>5, <2>6, <2>7 DEF PageAhead, InBatch
<1>6. CASE StartCheck(r) /\ ~Closed(r)
  <2>1. PICK g \in run[r].page :
           run' = [run EXCEPT ![r] = [run[r] EXCEPT !.pc = "dispatch", !.page = @ \ {g},
                                                   !.checked = @ \cup {g}]]
    BY <1>6, StartCheckEffect
  <2>2. /\ run'[r].pc = "dispatch" /\ run'[r].page = run[r].page \ {g} /\ run'[r].last = run[r].last
        /\ run'[r].checked = run[r].checked \cup {g}
    BY <2>1 DEF RunStates
  <2>3. QED
    BY <1>1, <2>2 DEF PageAhead, InBatch
<1>7. CASE EndBatch(r)
  <2>1. /\ run'[r].page = {} /\ run'[r].after = run[r].last /\ run'[r].last = run[r].last
        /\ run'[r].checked = run[r].checked /\ run'[r].pc \in {"read", "drained", "unlock"}
    <3> DEFINE pc == IF run[r].full THEN "read" ELSE IF run[r].page = {} THEN "drained" ELSE "unlock"
    <3>1. pc \in {"read", "drained", "unlock"}
      OBVIOUS
    <3>2. run' = [run EXCEPT ![r] = [run[r] EXCEPT !.pc = pc, !.after = run[r].last, !.page = {}]]
      BY <1>7, EndBatchEffect
    <3> HIDE DEF pc
    <3>3. QED
      BY <3>1, <3>2 DEF RunStates
  <2>2. QED
    BY <1>1, <2>1 DEF PageAhead, InBatch
<1>8. CASE EndContext(r)
  BY <1>1, <1>8, EndContextEffect DEF PageAhead, RunStates
<1>9. QED
  BY <1>2, <1>3, <1>4, <1>5, <1>6, <1>7, <1>8, RunCases

\* Every step leaves the pages of each run ahead of what it checked.
LEMMA PagesStep == ASSUME SweepInv, [Next]_vars PROVE PagesAhead'
<1> TypeOK /\ PagesAhead
  BY DEF SweepInv
<1>1. PagesAhead <=> \A q \in Runs : PageAhead(q)
  BY DEF PagesAhead, PageAhead
<1>2. SUFFICES ASSUME NEW q \in Runs PROVE PageAhead(q)'
  BY DEF PagesAhead, PageAhead
<1>3. CASE run'[q] = run[q]
  BY <1>1, <1>3 DEF PageAhead
<1>4. ASSUME NEW r \in Runs, Slotless(r) \/ TakeSlot(r) \/ StartCheck(r) PROVE PageAhead(q)'
  BY <1>3, <1>4, StepsAlone, PageAheadStep DEF Alone
<1>5. ASSUME NEW c \in checks, EndCheck(c) PROVE PageAhead(q)'
  BY <1>3, <1>5 DEF EndCheck
<1>6. ASSUME NEW p \in Replicas, Crash(p) PROVE PageAhead(q)'
  <2>1. run'[q] = run[q] \/ run'[q] = NoRun
    BY <1>6 DEF Crash
  <2>2. CASE run'[q] = NoRun
    BY <2>2 DEF PageAhead, NoRun
  <2>3. QED
    BY <1>3, <2>1, <2>2
<1>7. CASE Around
  BY <1>3, <1>7 DEF Around, SeverSession, Create, PollSettles, Tick, Recover, vars
<1>8. QED
  BY <1>4, <1>5, <1>6, <1>7, StepCases

-----------------------------------------------------------------------------
(***************************************************************************)
(* What a run owes.                                                        *)
(***************************************************************************)
OwesNothingBehind(q) ==
    /\ run[q].owed \subseteq unsettled \cup settled
    /\ run[q].pc = "read" =>
          Closed(q) \/ \A g \in run[q].owed \cap unsettled : g \in run[q].checked \/ g > run[q].last
    /\ run[q].pc \in InBatch =>
          \A g \in run[q].owed \cap unsettled :
             g \in run[q].checked \cup run[q].page \/ (run[q].full /\ g > run[q].last)
    /\ run[q].pc = "wait" => run[q].page = {} \/ Closed(q)
    /\ run[q].pc = "drained" => run[q].owed \cap unsettled \subseteq run[q].checked

\* A run passes no generation it owes: each is checked, on its page, or past the end of a full one.
LEMMA OwedStep ==
    ASSUME SweepInv, NEW r \in Runs, Slotless(r) \/ TakeSlot(r) \/ StartCheck(r)
    PROVE  OwesNothingBehind(r)'
<1> run \in [Runs -> RunStates] /\ TypeOK /\ Finite /\ PagesAhead
  BY DEF SweepInv, TypeOK, RunStates
<1>1. OwesNothingBehind(r)
  BY DEF SweepInv, NothingSkipped, DrainedMissesNone, OwesNothingBehind
<1>2. unsettled' = unsettled /\ settled' = settled /\ now' = now
  BY StepsAlone DEF Alone
<1>3. CASE Fresh(r)
  BY <1>3, FreshEffect DEF Fresh, OwesNothingBehind, InBatch
<1>4. CASE TakeLead(r) /\ leader = None
  <2>1. run[r].pc = "lock" /\ run' = [run EXCEPT ![r] = [run[r] EXCEPT !.pc = "read", !.owed = unsettled]]
    BY <1>4, TakeLeadEffect
  <2>2. run'[r].pc = "read" /\ run'[r].last = 0 /\ run'[r].owed = unsettled
    BY <2>1 DEF PagesAhead, RunStates
  <2>3. \A g \in unsettled : g > 0
    BY SweepAssumption DEF TypeOK
  <2>4. QED
    BY <1>2, <2>2, <2>3 DEF OwesNothingBehind, InBatch
<1>5. CASE Moves(r)
  <2>1. PICK pc \in {"unlock", "granted", "wait"} : run' = [run EXCEPT ![r] = [run[r] EXCEPT !.pc = pc]]
    BY <1>5 DEF Moves, Moved
  <2>2. /\ run'[r].pc = pc /\ run'[r].page = run[r].page /\ run'[r].last = run[r].last
        /\ run'[r].checked = run[r].checked /\ run'[r].owed = run[r].owed /\ run'[r].full = run[r].full
        /\ run'[r].over = run[r].over /\ run'[r].deadline = run[r].deadline
    BY <2>1 DEF RunStates
  <2>3. /\ pc \in {"granted", "wait"} => run[r].pc \in InBatch
        /\ pc = "wait" => run[r].page = {} \/ Closed(r)
    BY <1>5, <2>2 DEF Moves, Moved, InBatch, Closed, RunStates
  <2>4. Closed(r)' <=> Closed(r)
    BY <1>2, <2>2 DEF Closed, MayStart
  <2>5. QED
    BY <1>1, <1>2, <2>2, <2>3, <2>4 DEF OwesNothingBehind, InBatch
<1>6. CASE ReadBatch(r) /\ ~Closed(r)
  <2>1. PICK last \in Nat, full \in BOOLEAN :
           /\ run' = [run EXCEPT ![r] = [run[r] EXCEPT !.pc = "dispatch", !.page = Page(run[r].after),
                                                      !.last = last, !.full = full]]
           /\ last \in {run[r].after} \cup Page(run[r].after)
           /\ full <=> Cardinality(Page(run[r].after)) >= BatchSize
    BY <1>6, ReadBatchEffect
  <2>2. /\ run'[r].pc = "dispatch" /\ run'[r].page = Page(run[r].after) /\ run'[r].last = last
        /\ run'[r].checked = run[r].checked /\ run'[r].owed = run[r].owed /\ run'[r].full = full
    BY <2>1 DEF RunStates
  <2>3. /\ run[r].pc = "read" /\ run[r].after = run[r].last /\ run[r].after \in Nat
        /\ unsettled \in SUBSET Nat /\ IsFiniteSet(unsettled)
    BY <1>6, SweepAssumption DEF ReadBatch, PagesAhead, RunStates, TypeOK, Finite
  <2>4. ASSUME NEW g \in run[r].owed \cap unsettled, g \notin run[r].checked, g \notin Page(run[r].after)
        PROVE  full /\ g > last
    <3>1. g > run[r].after /\ g \in Nat
      BY <1>1, <1>6, <2>3, <2>4 DEF OwesNothingBehind
    <3>2. /\ Cardinality(Page(run[r].after)) >= BatchSize
          /\ \A p \in Page(run[r].after) : p < g
      BY <2>3, <2>4, <3>1, PageIsPrefix
    <3>3. QED
      BY <2>1, <3>1, <3>2
  <2>5. \A g \in run'[r].owed \cap unsettled' :
           g \in run'[r].checked \cup run'[r].page \/ (run'[r].full /\ g > run'[r].last)
    BY <1>2, <2>2, <2>4
  <2>6. run'[r].owed \subseteq unsettled' \cup settled'
    BY <1>1, <1>2, <2>2 DEF OwesNothingBehind
  <2>7. QED
    BY <2>2, <2>5, <2>6 DEF OwesNothingBehind
<1>7. CASE StartCheck(r) /\ ~Closed(r)
  <2>1. PICK g \in run[r].page :
           run' = [run EXCEPT ![r] = [run[r] EXCEPT !.pc = "dispatch", !.page = @ \ {g},
                                                   !.checked = @ \cup {g}]]
    BY <1>7, StartCheckEffect
  <2>2. /\ run'[r].pc = "dispatch" /\ run'[r].page = run[r].page \ {g} /\ run'[r].last = run[r].last
        /\ run'[r].checked = run[r].checked \cup {g} /\ run'[r].owed = run[r].owed
        /\ run'[r].full = run[r].full
    BY <2>1 DEF RunStates
  <2>3. run[r].pc = "granted"
    BY <1>7, StartCheckEffect
  <2>4. QED
    BY <1>1, <1>2, <2>2, <2>3 DEF OwesNothingBehind, InBatch
<1>8. CASE EndBatch(r)
  <2> DEFINE pc == IF run[r].full THEN "read" ELSE IF run[r].page = {} THEN "drained" ELSE "unlock"
  <2>1. /\ run[r].pc = "wait"
        /\ run' = [run EXCEPT ![r] = [run[r] EXCEPT !.pc = pc, !.after = run[r].last, !.page = {}]]
    BY <1>8, EndBatchEffect
  <2>2. /\ pc \in {"read", "drained", "unlock"}
        /\ pc = "read" => run[r].full
        /\ pc = "drained" => ~run[r].full /\ run[r].page = {}
    OBVIOUS
  <2> HIDE DEF pc
  <2>3. /\ run'[r].pc = pc /\ run'[r].last = run[r].last /\ run'[r].checked = run[r].checked
        /\ run'[r].owed = run[r].owed /\ run'[r].over = run[r].over /\ run'[r].deadline = run[r].deadline
    BY <2>1 DEF RunStates
  <2>4. Closed(r)' <=> Closed(r)
    BY <1>2, <2>3 DEF Closed, MayStart
  <2>5. /\ run[r].page = {} \/ Closed(r)
        /\ \A g \in run[r].owed \cap unsettled :
              g \in run[r].checked \cup run[r].page \/ (run[r].full /\ g > run[r].last)
    BY <1>1, <2>1 DEF OwesNothingBehind, InBatch
  <2>6. run'[r].owed \subseteq unsettled' \cup settled'
    BY <1>1, <1>2, <2>3 DEF OwesNothingBehind
  <2>7. CASE pc = "read"
    <3>1. Closed(r)' \/ \A g \in run'[r].owed \cap unsettled' : g \in run'[r].checked \/ g > run'[r].last
      BY <1>2, <2>3, <2>4, <2>5
    <3>2. QED
      BY <2>3, <2>6, <2>7, <3>1 DEF OwesNothingBehind, InBatch
  <2>8. CASE pc # "read"
    <3>1. pc = "drained" => run'[r].owed \cap unsettled' \subseteq run'[r].checked
      BY <1>2, <2>2, <2>3, <2>5
    <3>2. QED
      BY <2>2, <2>3, <2>6, <2>8, <3>1 DEF OwesNothingBehind, InBatch
  <2>9. QED
    BY <2>7, <2>8
<1>9. CASE EndContext(r)
  <2>1. run' = [run EXCEPT ![r] = [run[r] EXCEPT !.over = TRUE]]
    BY <1>9, EndContextEffect
  <2>2. /\ run'[r].pc = run[r].pc /\ run'[r].page = run[r].page /\ run'[r].last = run[r].last
        /\ run'[r].checked = run[r].checked /\ run'[r].owed = run[r].owed /\ run'[r].full = run[r].full
        /\ run'[r].over = TRUE
    BY <2>1 DEF RunStates
  <2>3. QED
    BY <1>1, <1>2, <2>2 DEF OwesNothingBehind, Closed
<1>10. QED
  BY <1>3, <1>4, <1>5, <1>6, <1>7, <1>8, <1>9, RunCases

\* Nor do the other steps add to what it owes: what was unsettled only gets settled, and a run whose
\* deadline leaves no room for a check never has room again.
LEMMA SkippedStep == ASSUME SweepInv, [Next]_vars PROVE NothingSkipped' /\ DrainedMissesNone'
<1> run \in [Runs -> RunStates] /\ TypeOK /\ PagesAhead
  BY DEF SweepInv, TypeOK, RunStates
<1>1. \A q \in Runs : OwesNothingBehind(q)
  BY DEF SweepInv, NothingSkipped, DrainedMissesNone, OwesNothingBehind
<1>2. SUFFICES ASSUME NEW q \in Runs PROVE OwesNothingBehind(q)'
  BY DEF NothingSkipped, DrainedMissesNone, OwesNothingBehind, Closed
<1>3. CASE /\ run'[q] = run[q] /\ now' \in Nat /\ now' >= now
           /\ run[q].owed \cap unsettled' \subseteq unsettled
           /\ unsettled \cup settled \subseteq unsettled' \cup settled'
  <2>1. Closed(q) => Closed(q)'
    BY <1>3, SweepAssumption DEF Closed, MayStart, RunStates, TypeOK
  <2>2. QED
    BY <1>1, <1>3, <2>1 DEF OwesNothingBehind
<1>4. ASSUME NEW r \in Runs, Slotless(r) \/ TakeSlot(r) \/ StartCheck(r) PROVE OwesNothingBehind(q)'
  <2>1. CASE q = r
    BY <1>4, <2>1, OwedStep
  <2>2. CASE q # r
    BY <1>3, <1>4, <2>2, StepsAlone DEF Alone, TypeOK
  <2>3. QED
    BY <2>1, <2>2
<1>5. ASSUME NEW c \in checks, EndCheck(c) PROVE OwesNothingBehind(q)'
  BY <1>3, <1>5 DEF EndCheck, TypeOK
<1>6. ASSUME NEW p \in Replicas, Crash(p) PROVE OwesNothingBehind(q)'
  <2>1. run'[q] = run[q] \/ run'[q] = NoRun
    BY <1>6 DEF Crash
  <2>2. CASE run'[q] = NoRun
    BY <2>2 DEF OwesNothingBehind, NoRun, InBatch
  <2>3. now' = now /\ unsettled' = unsettled /\ settled' = settled /\ now \in Nat
    BY <1>6 DEF Crash, TypeOK
  <2>4. QED
    BY <1>3, <2>1, <2>2, <2>3
<1>7. CASE Create
  <2>1. PICK g \in Generations \ (unsettled \cup settled) : unsettled' = unsettled \cup {g}
    BY <1>7 DEF Create
  <2>2. g \notin run[q].owed
    BY <1>1, <2>1 DEF OwesNothingBehind
  <2>3. QED
    BY <1>3, <1>7, <2>1, <2>2 DEF Create, TypeOK
<1>8. CASE PollSettles \/ Tick
  BY <1>3, <1>8 DEF PollSettles, Tick, TypeOK
<1>9. CASE SeverSession \/ Recover \/ UNCHANGED vars
  BY <1>3, <1>9 DEF SeverSession, Recover, vars, TypeOK
<1>10. QED
  BY <1>4, <1>5, <1>6, <1>7, <1>8, <1>9, StepCases DEF Around

-----------------------------------------------------------------------------
(***************************************************************************)
(* The leader role.                                                        *)
(***************************************************************************)
\* A step of a run takes the role when it is free, keeps it while the run leads, and leaves it last.
LEMMA LeadOfRun ==
    ASSUME SweepInv, LeadHeld, NEW r \in Runs, Slotless(r) \/ TakeSlot(r) \/ StartCheck(r)
    PROVE  LeadHeld'
<1> TypeOK /\ Finite /\ PagesAhead
  BY DEF SweepInv
<1> run \in [Runs -> RunStates] /\ None \notin Runs /\ leader \in Runs \cup {None}
  BY SweepAssumption DEF TypeOK, RunStates
<1>1. \A q \in Runs \ {r} : run'[q] = run[q]
  BY StepsAlone DEF Alone
<1>2. SUFFICES /\ Leading(r)' <=> leader' = r
               /\ \A q \in Runs \ {r} : leader' = q <=> leader = q
  <2>1. \A q \in Runs \ {r} : Leading(q)' <=> Leading(q)
    BY <1>1 DEF Leading
  <2>2. QED
    BY <1>2, <2>1 DEF LeadHeld
<1>3. Leading(r) <=> leader = r
  BY DEF LeadHeld
<1>4. CASE TakeLead(r) /\ leader = None
  <2>1. run' = [run EXCEPT ![r] = [run[r] EXCEPT !.pc = "read", !.owed = unsettled]] /\ leader' = r
    BY <1>4 DEF TakeLead
  <2>2. run'[r].pc = "read"
    BY <2>1
  <2>3. QED
    BY <1>4, <2>1, <2>2 DEF Leading, Pcs
<1>5. CASE Begin(r) \/ LeadFails(r) \/ (TakeLead(r) /\ leader # None)
  <2>1. run[r].pc \in {"idle", "lock"} /\ leader' = leader
    BY <1>5 DEF Begin, LeadFails, TakeLead
  <2>2. run'[r].pc \in {"idle", "lock"}
    BY <1>5, FreshEffect
  <2>3. QED
    BY <1>3, <2>1, <2>2 DEF Leading
<1>6. CASE Unlock(r)
  <2>1. leader' = (IF leader = r THEN None ELSE leader) /\ run' = [run EXCEPT ![r] = NoRun]
    BY <1>6 DEF Unlock
  <2>2. run'[r].pc = "idle"
    BY <2>1 DEF NoRun
  <2>3. QED
    BY <2>1, <2>2 DEF Leading
<1>7. CASE \/ Moves(r) \/ (ReadBatch(r) /\ ~Closed(r)) \/ (StartCheck(r) /\ ~Closed(r))
           \/ EndBatch(r) \/ EndContext(r)
  <2>1. leader' = leader
    BY <1>7 DEF Slotless, Begin, TakeLead, LeadFails, ReadBatch, ReadFails, StopDispatch, EndBatch,
       Unlock, EndContext, TakeSlot, StartCheck, Moves, Moved
  <2>2. Leading(r)' <=> Leading(r)
    <3>1. CASE Moves(r)
      <4>1. PICK pc \in {"unlock", "granted", "wait"} :
               /\ run[r].pc \in {"read", "dispatch", "granted"}
               /\ run' = [run EXCEPT ![r] = [run[r] EXCEPT !.pc = pc]]
        BY <3>1 DEF Moves, Moved
      <4>2. run'[r].pc = pc
        BY <4>1 DEF RunStates
      <4>3. QED
        BY <4>1, <4>2 DEF Leading, Pcs
    <3>2. CASE ReadBatch(r) /\ ~Closed(r)
      <4>1. run[r].pc = "read" /\ run'[r].pc = "dispatch"
        <5>1. PICK last \in Nat, full \in BOOLEAN :
                 run' = [run EXCEPT ![r] = [run[r] EXCEPT !.pc = "dispatch", !.page = Page(run[r].after),
                                                          !.last = last, !.full = full]]
          BY <3>2, ReadBatchEffect
        <5>2. run'[r].pc = "dispatch"
          BY <5>1 DEF RunStates
        <5>3. QED
          BY <3>2, <5>2 DEF ReadBatch
      <4>2. QED
        BY <4>1 DEF Leading, Pcs
    <3>3. CASE StartCheck(r) /\ ~Closed(r)
      <4>1. run[r].pc = "granted" /\ run'[r].pc = "dispatch"
        <5>1. PICK g \in run[r].page :
                 run' = [run EXCEPT ![r] = [run[r] EXCEPT !.pc = "dispatch", !.page = @ \ {g},
                                                          !.checked = @ \cup {g}]]
          BY <3>3, StartCheckEffect
        <5>2. run'[r].pc = "dispatch"
          BY <5>1 DEF RunStates
        <5>3. QED
          BY <3>3, <5>2 DEF StartCheck
      <4>2. QED
        BY <4>1 DEF Leading, Pcs
    <3>4. CASE EndBatch(r)
      <4>1. run[r].pc = "wait" /\ run'[r].pc \in {"read", "drained", "unlock"}
        <5> DEFINE pc == IF run[r].full THEN "read" ELSE IF run[r].page = {} THEN "drained" ELSE "unlock"
        <5>1. /\ run[r].pc = "wait"
              /\ run' = [run EXCEPT ![r] = [run[r] EXCEPT !.pc = pc, !.after = run[r].last, !.page = {}]]
          BY <3>4, EndBatchEffect
        <5>2. pc \in {"read", "drained", "unlock"}
          OBVIOUS
        <5> HIDE DEF pc
        <5>3. QED
          BY <5>1, <5>2 DEF RunStates
      <4>2. QED
        BY <4>1 DEF Leading, Pcs
    <3>5. CASE EndContext(r)
      <4>1. run'[r].pc = run[r].pc
        BY <3>5, EndContextEffect DEF RunStates
      <4>2. QED
        BY <4>1 DEF Leading
    <3>6. QED
      BY <1>7, <3>1, <3>2, <3>3, <3>4, <3>5
  <2>3. QED
    BY <1>3, <2>1, <2>2
<1>8. QED
  BY <1>4, <1>5, <1>6, <1>7, RunCases DEF Fresh

\* While no session is severed, the role changes hands only through its release or its holder's end.
LEMMA LeadStep ==
    ASSUME ~MaySever, SweepInv, LeadHeld, [Next]_vars
    PROVE  LeadHeld'
<1>1. ASSUME NEW r \in Runs, Slotless(r) \/ TakeSlot(r) \/ StartCheck(r) PROVE LeadHeld'
  BY <1>1, LeadOfRun
<1>2. CASE UNCHANGED <<run, leader>>
  BY <1>2 DEF LeadHeld, Leading
<1>3. ASSUME NEW c \in checks, EndCheck(c) PROVE LeadHeld'
  BY <1>2, <1>3 DEF EndCheck
<1>4. ASSUME NEW p \in Replicas, Crash(p) PROVE LeadHeld'
  <2> DEFINE dead == {r \in Runs : ReplicaOf[r] = p}
  <2>1. /\ run' = [r \in Runs |-> IF r \in dead THEN NoRun ELSE run[r]]
        /\ leader' = IF leader \in dead THEN None ELSE leader
    BY <1>4 DEF Crash
  <2>2. None \notin Runs /\ dead \in SUBSET Runs
    BY SweepAssumption
  <2>3. ASSUME NEW r \in Runs PROVE Leading(r)' <=> leader' = r
    <3> HIDE DEF dead
    <3>1. Leading(r) <=> leader = r
      BY DEF LeadHeld
    <3>2. CASE r \in dead
      <4>1. run'[r].pc = "idle" /\ leader' # r
        BY <2>1, <2>2, <3>2 DEF NoRun
      <4>2. QED
        BY <4>1 DEF Leading
    <3>3. CASE r \notin dead
      <4>1. run'[r] = run[r] /\ (leader' = r <=> leader = r)
        BY <2>1, <2>2, <3>3
      <4>2. QED
        BY <3>1, <4>1 DEF Leading
    <3>4. QED
      BY <3>2, <3>3
  <2>4. QED
    BY <2>3 DEF LeadHeld
<1>5. CASE Around
  <2>1. UNCHANGED <<run, leader>>
    BY <1>5 DEF Around, SeverSession, Create, PollSettles, Tick, Recover, vars
  <2>2. QED
    BY <1>2, <2>1
<1>6. QED
  BY <1>1, <1>3, <1>4, <1>5, StepCases

-----------------------------------------------------------------------------
(***************************************************************************)
(* The theorems.                                                           *)
(***************************************************************************)
\* Before any run began, every part holds.
LEMMA InitSweep == Init => SweepInv /\ LeadHeld
<1> SUFFICES ASSUME Init PROVE SweepInv /\ LeadHeld
  OBVIOUS
<1>1. TypeOK
  BY NoRunType, SweepAssumption DEF Init, TypeOK, RunStates
<1>2. /\ \A p \in Replicas : Holders(p) = {} /\ Starters(p) = {} /\ slots[p] = 0
      /\ checks = {} /\ unsettled = {}
  BY DEF Init, Holders, Starters, NoRun
<1>3. SlotsBalanced
  BY <1>2, FS_EmptySet, BalanceIs DEF Balanced
<1>4. Finite
  BY <1>2, FS_EmptySet DEF Finite
<1>5. ChecksInBatch /\ PagesAhead /\ NothingSkipped /\ DrainedMissesNone
  BY DEF Init, NoRun, InBatch, ChecksInBatch, PagesAhead, NothingSkipped, DrainedMissesNone
<1>6. LeadHeld
  BY SweepAssumption DEF Init, NoRun, LeadHeld, Leading
<1>7. QED
  BY <1>1, <1>3, <1>4, <1>5, <1>6 DEF SweepInv

\* Whatever fails, stops or is severed, the inductive invariant of the sweep holds.
THEOREM SweepInvariant == Spec => []SweepInv
<1>1. ASSUME SweepInv, [Next]_vars PROVE SweepInv'
  BY <1>1, TypeStep, BalanceStep, ChecksStep, PagesStep, SkippedStep DEF SweepInv
<1>2. QED
  BY <1>1, InitSweep, PTL DEF Spec

\* Every variable keeps its type; with it, no process runs more checks than its Concurrency.
THEOREM SweepTypes == Spec => []TypeOK
BY SweepInvariant, PTL DEF SweepInv

\* Every slot of a process is held by one of its checks or by a run about to start one: none leaks when a
\* deadline, a stop or a crash cuts a run off, and none is given back twice.
THEOREM SlotsStayBalanced == Spec => []SlotsBalanced
BY SweepInvariant, PTL DEF SweepInv

\* mayStart, looked at before the page is read and again once the slot is granted, leaves every check the
\* time to end before its caller's deadline.
THEOREM ChecksKeepDeadline == Spec => []ChecksEndInTime
<1>1. SweepInv => ChecksEndInTime
  <2> SUFFICES ASSUME SweepInv, NEW c \in checks, run[c.run].deadline # None
               PROVE  now < run[c.run].deadline
    BY DEF ChecksEndInTime
  <2>1. c.startedAt \in Nat /\ run[c.run].deadline \in Nat /\ now \in Nat
    BY DEF SweepInv, TypeOK
  <2>2. now =< c.startedAt + CheckTimeout /\ c.startedAt + CheckTimeout < run[c.run].deadline
    BY DEF SweepInv, ChecksInBatch
  <2>3. QED
    BY <2>1, <2>2, SweepAssumption
<1>2. QED
  BY <1>1, SweepInvariant, PTL

\* A run that drained the backlog checked every generation left unsettled since it began, for any page
\* size and whatever appeared, settled or crashed between its pages.
THEOREM DrainMissesNone == Spec => []DrainedMissesNone
BY SweepInvariant, PTL DEF SweepInv

\* A run never takes a slot for a generation it checked before: its pages only move forward.
THEOREM ChecksOnce == Spec => CheckedOnce
<1>1. SweepInv' =>
         (\A r \in Runs : run'[r].pc = "granted" => Min(run'[r].page) \notin run'[r].checked)
  <2> SUFFICES ASSUME SweepInv', NEW r \in Runs, run'[r].pc = "granted"
               PROVE  Min(run'[r].page) \notin run'[r].checked
    OBVIOUS
  <2>1. /\ run'[r].page # {} /\ run'[r].page \in SUBSET Nat
        /\ \A g \in run'[r].page : g \notin run'[r].checked
    BY SweepAssumption DEF SweepInv, PagesAhead, TypeOK
  <2>2. QED
    BY <2>1, MinIsLeast
<1>2. QED
  BY <1>1, SweepInvariant, PTL DEF CheckedOnce

\* As long as the database severs no session that holds the role, one run leads at a time across every
\* replica, through crashes, failed statements and lost answers.
THEOREM OneLeader == ASSUME ~MaySever PROVE Spec => []OneSweepAtATime
<1>1. LeadHeld => OneSweepAtATime
  BY DEF LeadHeld, OneSweepAtATime
<1>2. ASSUME SweepInv, LeadHeld, [Next]_vars PROVE LeadHeld'
  BY <1>2, LeadStep
<1>3. QED
  BY <1>1, <1>2, InitSweep, SweepInvariant, PTL DEF Spec

=============================================================================
