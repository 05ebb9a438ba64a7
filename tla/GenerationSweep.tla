-------------------------- MODULE GenerationSweep --------------------------
(***************************************************************************)
(* The sweep: internal/core/generationSweep.go run by a scheduler's        *)
(* request or by the sweep server's ticker, on several replicas that share *)
(* the database.  A run takes the leader role, reads the unsettled         *)
(* generations page by page, and checks each in a goroutine that holds one *)
(* of its process's slots.                                                 *)
(*                                                                         *)
(* A check is a single step here, which may settle its generation:         *)
(* GenerationCheck says what it does.  Identifiers are compared as their   *)
(* uuids are; they are minted before the insert, so generations may appear *)
(* in any order of them.                                                   *)
(***************************************************************************)
EXTENDS Integers, FiniteSetsExt

CONSTANTS
    None,
    Runs,           \* calls of Exec: requests and ticks, each may be repeated
    Replicas,
    ReplicaOf,      \* the process a run belongs to
    Generations,    \* ids
    BatchSize, Concurrency, CheckTimeout,
    Deadlines,      \* the caller's deadlines, None for the ticker
    MayEnd,         \* a caller may go away, a server stop, a process crash
    MayFail,        \* a statement may fail
    MaySever,       \* the database may end the session that holds the leader role
    Horizon         \* bound: last instant of the clock

ASSUME SweepAssumption ==
    /\ ReplicaOf \in [Runs -> Replicas]
    /\ Generations \subseteq Nat \ {0}
    /\ BatchSize \in Nat \ {0}
    /\ Concurrency \in Nat \ {0}
    /\ CheckTimeout \in Nat \ {0}
    /\ Deadlines \subseteq Nat \cup {None}
    /\ None \notin Nat \cup Runs
    /\ {MayEnd, MayFail, MaySever} \subseteq BOOLEAN
    /\ Horizon \in Nat

VARIABLES
    now,        \* the clock
    failing,    \* whether contexts, statements and processes may still fail
    unsettled,  \* the generations whose row is pending or running
    settled,    \* the ones whose row no longer is
    leader,     \* the run whose session holds the leader role, or None
    slots,      \* how many slots of each process are taken
    run,        \* each run of the sweep
    checks      \* the checks under way

vars == <<now, failing, unsettled, settled, leader, slots, run, checks>>

\* page is what a batch has left to dispatch, last its greatest id. checked and owed are history: the
\* generations the run checked, and those unsettled since it took the leader role.
NoRun == [pc |-> "idle", deadline |-> None, over |-> FALSE, after |-> 0, page |-> {}, last |-> 0,
          full |-> FALSE, checked |-> {}, owed |-> {}]

Pcs == {"idle", "lock", "read", "dispatch", "granted", "wait", "drained", "unlock"}

Leading(r) == run[r].pc \in Pcs \ {"idle", "lock"}

ChecksOf(r) == {c \in checks : c.run = r}

\* Mutant: the deadline leaves no room for a check.
MayStartLate(deadline) == deadline = None \/ now < deadline

\* mayStart: a check started now ends before the caller's deadline.
MayStart(deadline) == deadline = None \/ now < deadline - CheckTimeout

\* Mutant: the page starts over from the generation the last one ended with.
PageFromLast(after) ==
    LET left == {g \in unsettled : g >= after}
    IN  {g \in left : Cardinality({h \in left : h < g}) < BatchSize}

\* PgGenerationSweep: the first unsettled generations after the given one.
Page(after) ==
    LET left == {g \in unsettled : g > after}
    IN  {g \in left : Cardinality({h \in left : h < g}) < BatchSize}

Init ==
    /\ now = 0
    /\ failing = (MayEnd \/ MayFail)
    /\ unsettled = {}
    /\ settled = {}
    /\ leader = None
    /\ slots = [p \in Replicas |-> 0]
    /\ run = [r \in Runs |-> NoRun]
    /\ checks = {}

-----------------------------------------------------------------------------
Goto(r, pc) == run' = [run EXCEPT ![r].pc = pc]

Begin(r) ==
    /\ run[r].pc = "idle"
    /\ \E deadline \in {d \in Deadlines : MayStart(d)} :
          run' = [run EXCEPT ![r] = [NoRun EXCEPT !.pc = "lock", !.deadline = deadline]]
    /\ UNCHANGED <<now, failing, unsettled, settled, leader, slots, checks>>

\* Mutant: the answer of the lock statement is not looked at.
TakeLeadAnyway(r) ==
    /\ run[r].pc = "lock"
    /\ leader' = IF leader = None THEN r ELSE leader
    /\ run' = [run EXCEPT ![r].pc = "read", ![r].owed = unsettled]
    /\ UNCHANGED <<now, failing, unsettled, settled, slots, checks>>

\* PgGenerationSweepLock: granted at once, or refused at once because another session holds the role.
TakeLead(r) ==
    /\ run[r].pc = "lock"
    /\ IF leader = None
         THEN /\ leader' = r
              /\ run' = [run EXCEPT ![r].pc = "read", ![r].owed = unsettled]
         ELSE /\ run' = [run EXCEPT ![r] = NoRun]
              /\ UNCHANGED leader
    /\ UNCHANGED <<now, failing, unsettled, settled, slots, checks>>

\* The role may have been granted with no answer to tell: the session is discarded, and the role with it.
LeadFails(r) ==
    /\ MayFail /\ failing
    /\ run[r].pc = "lock"
    /\ run' = [run EXCEPT ![r] = NoRun]
    /\ UNCHANGED <<now, failing, unsettled, settled, leader, slots, checks>>

\* Mutant: only a page larger than the batch size asks for another.
ReadBatchShort(r) ==
    /\ run[r].pc = "read"
    /\ IF run[r].over \/ ~MayStart(run[r].deadline)
         THEN Goto(r, "unlock")
         ELSE LET page == Page(run[r].after)
              IN  run' = [run EXCEPT ![r].pc = "dispatch", ![r].page = page,
                             ![r].last = Max({run[r].after} \cup page),
                             ![r].full = Cardinality(page) > BatchSize]
    /\ UNCHANGED <<now, failing, unsettled, settled, leader, slots, checks>>

\* The loop's guard, then the read of one page.
ReadBatch(r) ==
    /\ run[r].pc = "read"
    /\ IF run[r].over \/ ~MayStart(run[r].deadline)
         THEN Goto(r, "unlock")
         ELSE LET page == Page(run[r].after)
              IN  run' = [run EXCEPT ![r].pc = "dispatch", ![r].page = page,
                             ![r].last = Max({run[r].after} \cup page),
                             ![r].full = Cardinality(page) >= BatchSize]
    /\ UNCHANGED <<now, failing, unsettled, settled, leader, slots, checks>>

ReadFails(r) ==
    /\ MayFail /\ failing
    /\ run[r].pc = "read"
    /\ Goto(r, "unlock")
    /\ UNCHANGED <<now, failing, unsettled, settled, leader, slots, checks>>

\* Mutant: checks start without waiting for a slot.
TakeSlotUnbounded(r) ==
    /\ run[r].pc = "dispatch"
    /\ run[r].page # {}
    /\ slots' = [slots EXCEPT ![ReplicaOf[r]] = @ + 1]
    /\ Goto(r, "granted")
    /\ UNCHANGED <<now, failing, unsettled, settled, leader, checks>>

\* The select: a slot, or the end of the context. When both are ready either is taken.
TakeSlot(r) ==
    /\ run[r].pc = "dispatch"
    /\ run[r].page # {}
    /\ slots[ReplicaOf[r]] < Concurrency
    /\ slots' = [slots EXCEPT ![ReplicaOf[r]] = @ + 1]
    /\ Goto(r, "granted")
    /\ UNCHANGED <<now, failing, unsettled, settled, leader, checks>>

\* Dispatch is over: every generation has its check, or the context ended first.
StopDispatch(r) ==
    /\ run[r].pc = "dispatch"
    /\ run[r].page = {} \/ run[r].over
    /\ Goto(r, "wait")
    /\ UNCHANGED <<now, failing, unsettled, settled, leader, slots, checks>>

\* Mutant: a slot taken too late is kept.
StartCheckLeaky(r) ==
    /\ run[r].pc = "granted"
    /\ IF run[r].over \/ ~MayStart(run[r].deadline)
         THEN /\ Goto(r, "wait")
              /\ UNCHANGED <<slots, checks>>
         ELSE LET g == Min(run[r].page)
              IN  /\ run' = [run EXCEPT ![r].pc = "dispatch", ![r].page = @ \ {g},
                                        ![r].checked = @ \cup {g}]
                  /\ checks' = checks \cup {[run |-> r, gen |-> g, startedAt |-> now]}
                  /\ UNCHANGED slots
    /\ UNCHANGED <<now, failing, unsettled, settled, leader>>

\* The wait for a slot may have outlasted the deadline or the server: the slot then goes back.
StartCheck(r) ==
    /\ run[r].pc = "granted"
    /\ IF run[r].over \/ ~MayStart(run[r].deadline)
         THEN /\ slots' = [slots EXCEPT ![ReplicaOf[r]] = @ - 1]
              /\ Goto(r, "wait")
              /\ UNCHANGED checks
         ELSE LET g == Min(run[r].page)
              IN  /\ run' = [run EXCEPT ![r].pc = "dispatch", ![r].page = @ \ {g},
                                        ![r].checked = @ \cup {g}]
                  /\ checks' = checks \cup {[run |-> r, gen |-> g, startedAt |-> now]}
                  /\ UNCHANGED slots
    /\ UNCHANGED <<now, failing, unsettled, settled, leader>>

\* A check ends, by itself, by its deadline or by a panic, and gives its slot back.
EndCheck(c) ==
    /\ checks' = checks \ {c}
    /\ slots' = [slots EXCEPT ![ReplicaOf[c.run]] = @ - 1]
    /\ \E done \in {{}, {c.gen} \cap unsettled} :
          /\ unsettled' = unsettled \ done
          /\ settled' = settled \cup done
    /\ UNCHANGED <<now, failing, leader, run>>

\* sweepBatch waits for its checks. A page that is not full is the last one.
EndBatch(r) ==
    /\ run[r].pc = "wait"
    /\ ChecksOf(r) = {}
    /\ run' = [run EXCEPT ![r].pc = IF run[r].full THEN "read"
                                    ELSE IF run[r].page = {} THEN "drained" ELSE "unlock",
                          ![r].after = run[r].last, ![r].page = {}]
    /\ UNCHANGED <<now, failing, unsettled, settled, leader, slots, checks>>

\* Mutant: a run whose context ended leaves the role to its session.
UnlockUnlessOver(r) ==
    /\ run[r].pc \in {"drained", "unlock"}
    /\ leader' = IF leader = r /\ ~run[r].over THEN None ELSE leader
    /\ run' = [run EXCEPT ![r] = NoRun]
    /\ UNCHANGED <<now, failing, unsettled, settled, slots, checks>>

\* PgGenerationSweepUnlock: the session releases the role, or ends and releases it too.
Unlock(r) ==
    /\ run[r].pc \in {"drained", "unlock"}
    /\ leader' = IF leader = r THEN None ELSE leader
    /\ run' = [run EXCEPT ![r] = NoRun]
    /\ UNCHANGED <<now, failing, unsettled, settled, slots, checks>>

-----------------------------------------------------------------------------
(***************************************************************************)
(* The run's surroundings.                                                 *)
(***************************************************************************)
\* The caller goes away or the server stops: checks are detached, so they go on.
EndContext(r) ==
    /\ MayEnd /\ failing
    /\ run[r].pc # "idle"
    /\ ~run[r].over
    /\ run' = [run EXCEPT ![r].over = TRUE]
    /\ UNCHANGED <<now, failing, unsettled, settled, leader, slots, checks>>

\* A process dies, with its slots, its checks and its sessions.
Crash(p) ==
    /\ MayEnd /\ failing
    /\ LET dead == {r \in Runs : ReplicaOf[r] = p}
       IN  /\ run' = [r \in Runs |-> IF r \in dead THEN NoRun ELSE run[r]]
           /\ leader' = IF leader \in dead THEN None ELSE leader
           /\ checks' = {c \in checks : c.run \notin dead}
    /\ slots' = [slots EXCEPT ![p] = 0]
    /\ UNCHANGED <<now, failing, unsettled, settled>>

\* The session that holds the role ends under a run that goes on.
SeverSession ==
    /\ MaySever
    /\ leader # None
    /\ leader' = None
    /\ UNCHANGED <<now, failing, unsettled, settled, slots, run, checks>>

\* A submit records a generation, and a poll's check settles one.
Create ==
    /\ \E g \in Generations \ (unsettled \cup settled) : unsettled' = unsettled \cup {g}
    /\ UNCHANGED <<now, failing, settled, leader, slots, run, checks>>

PollSettles ==
    /\ \E g \in unsettled : /\ unsettled' = unsettled \ {g}
                            /\ settled' = settled \cup {g}
    /\ UNCHANGED <<now, failing, leader, slots, run, checks>>

\* A check ends by its own deadline.
Tick ==
    /\ now < Horizon
    /\ \A c \in checks : now < c.startedAt + CheckTimeout
    /\ now' = now + 1
    /\ UNCHANGED <<failing, unsettled, settled, leader, slots, run, checks>>

\* Contexts, statements and processes hold from now on.
Recover ==
    /\ failing
    /\ failing' = FALSE
    /\ UNCHANGED <<now, unsettled, settled, leader, slots, run, checks>>

Sweep(r) ==
    \/ Begin(r) \/ TakeLead(r) \/ LeadFails(r) \/ ReadBatch(r) \/ ReadFails(r) \/ TakeSlot(r)
    \/ StopDispatch(r) \/ StartCheck(r) \/ EndBatch(r) \/ Unlock(r) \/ EndContext(r)

Next ==
    \/ \E r \in Runs : Sweep(r)
    \/ \E c \in checks : EndCheck(c)
    \/ \E p \in Replicas : Crash(p)
    \/ SeverSession
    \/ Create
    \/ PollSettles
    \/ Tick
    \/ Recover

Spec == Init /\ [][Next]_vars

-----------------------------------------------------------------------------
\* Every variable has its type, and no process runs more checks than its connections allow.
TypeOK ==
    /\ now \in Nat
    /\ failing \in BOOLEAN
    /\ unsettled \subseteq Generations
    /\ settled \subseteq Generations \ unsettled
    /\ leader \in Runs \cup {None}
    /\ slots \in [Replicas -> 0..Concurrency]
    /\ run \in [Runs -> [pc : Pcs, deadline : Nat \cup {None}, over : BOOLEAN,
                         after : Nat, page : SUBSET Generations, last : Nat, full : BOOLEAN,
                         checked : SUBSET Generations, owed : SUBSET Generations]]
    /\ checks \subseteq [run : Runs, gen : Generations, startedAt : Nat]

\* No slot leaks: every slot taken is held by a check under way or by a run about to start one, also
\* when runs that overlap share the slots of one process, and when a deadline or a stop cuts one off.
SlotsBalanced ==
    \A p \in Replicas :
        slots[p] = Cardinality({c \in checks : ReplicaOf[c.run] = p})
                     + Cardinality({r \in Runs : ReplicaOf[r] = p /\ run[r].pc = "granted"})

\* "It starts no check that could outlast its caller's deadline": whatever the run waited for, its
\* checks end before it.
ChecksEndInTime ==
    \A c \in checks : run[c.run].deadline # None => now < run[c.run].deadline

\* "One call reads every unsettled generation once": a run that drained the backlog checked every
\* generation left unsettled since it began, whatever appeared or settled between its pages.
DrainedMissesNone ==
    \A r \in Runs : run[r].pc = "drained" => run[r].owed \cap unsettled \subseteq run[r].checked

\* No run starts a second check of a generation.
CheckedOnce ==
    [][\A r \in Runs : run'[r].pc = "granted" => Min(run'[r].page) \notin run'[r].checked]_vars

\* "One sweep runs at a time across every replica, the leader".
OneSweepAtATime == \A q, r \in Runs : Leading(q) /\ Leading(r) => q = r

-----------------------------------------------------------------------------
(***************************************************************************)
(* Liveness: the ticker begins run after run, goroutines are scheduled, a  *)
(* check ends by its own deadline, and a wait for a slot is served.        *)
(***************************************************************************)
Fairness ==
    /\ WF_vars(Tick)
    /\ \A r \in Runs :
          /\ WF_vars(Begin(r))
          /\ WF_vars(TakeLead(r))
          /\ WF_vars(ReadBatch(r) \/ StopDispatch(r) \/ StartCheck(r) \/ EndBatch(r) \/ Unlock(r))
          /\ SF_vars(TakeSlot(r))
    /\ \A g \in Generations : WF_vars(\E c \in checks : c.gen = g /\ EndCheck(c))

FairSpec == Spec /\ Fairness

\* Every unsettled generation is settled or checked again once contexts, statements and processes stop
\* failing, whatever their failures left behind: no page, leader or slot starves it.
EveryGenerationChecked ==
    <>~failing =>
        \A g \in Generations :
            g \in unsettled ~> (g \notin unsettled \/ \E c \in checks : c.gen = g)

\* A run ends even when its context or its deadline does first, and leaves the role free.
LeadIsReleased == \A r \in Runs : leader = r ~> leader # r

=============================================================================
