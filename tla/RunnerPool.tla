----------------------------- MODULE RunnerPool -----------------------------
(***************************************************************************)
(* The Code Mode warm-runner pool                                          *)
(* (crates/labby-codemode/src/pool.rs, pool/config.rs and                  *)
(* pool/runner_handle.rs).                                                 *)
(*                                                                         *)
(* A caller is an async task that runs executions one after the other.     *)
(* Checking out a runner pops a slot index from the free list, or, when    *)
(* the list is empty, takes a permit of a FIFO semaphore and spawns an     *)
(* ephemeral runner.  Every .await of the code is a place where another    *)
(* caller may run and where the task may be cancelled, so each stretch of  *)
(* code between two awaits is one action.                                  *)
(***************************************************************************)
EXTENDS Integers, Sequences, FiniteSets, SequencesExt

CONSTANTS
    Callers,        \* the tasks that run executions
    Procs,          \* identities of runner processes
    NoProc,         \* "no runner here" (None)
    Size,           \* PoolConfig.size; 0 disables pooling
    MaxOverflow,    \* PoolConfig.max_overflow, before the .max(1) clamp
    RecycleAfter    \* PoolConfig.recycle_after, at least 1 (from_env clamps)

ASSUME PoolConfigAssumption ==
    /\ Size \in Nat
    /\ MaxOverflow \in Nat
    /\ RecycleAfter \in Nat \ {0}
    /\ NoProc \notin Procs

ASSUME FiniteCallersAssumption == IsFiniteSet(Callers)

Slots == 0 .. Size - 1
NoSlot == -1

\* with_config_and_spawn: a zero permit semaphore would block every overflow
\* checkout for ever, so there is always at least one permit.
Overflow == IF MaxOverflow = 0 THEN 1 ELSE MaxOverflow

VARIABLES
    free_slots,     \* VecDeque of idle slot indices
    slots,          \* [Slots -> Procs \cup {NoProc}], the runner parked in a slot
    permits,        \* available permits of overflow_permits
    waiters,        \* tasks queued on overflow_permits, in FIFO order
    pc,             \* where each caller is
    index,          \* the slot index a caller holds, NoSlot if none
    runner,         \* the runner a caller's lease holds
    executions,     \* PooledRunner.executions of each process
    alive,          \* processes that are running
    unverified      \* history: processes started on an execution whose end the
                    \* driver has not read

vars == << free_slots, slots, permits, waiters, pc, index, runner, executions,
           alive, unverified >>

PCs == {"idle",      \* no execution
        "claimed",   \* a slot index is popped, awaiting slots[index].lock()
        "waiting",   \* queued on the overflow semaphore
        "granted",   \* an overflow permit is assigned, the task not yet resumed
        "driving",   \* a lease exists, the drive loop runs
        "answered",  \* the drive loop read Done or Error
        "parking"}   \* release() awaits the slot lock, the runner in hand

Init ==
    /\ free_slots = [i \in 1 .. Size |-> i - 1]
    /\ slots = [i \in Slots |-> NoProc]
    /\ permits = Overflow
    /\ waiters = << >>
    /\ pc = [c \in Callers |-> "idle"]
    /\ index = [c \in Callers |-> NoSlot]
    /\ runner = [c \in Callers |-> NoProc]
    /\ executions = [p \in Procs |-> 0]
    /\ alive = {}
    /\ unverified = {}

-----------------------------------------------------------------------------
\* checkout

Handles == {slots[i] : i \in Slots} \cup {runner[c] : c \in Callers}

\* The first await-free stretch of checkout: pop_front of the free list, else
\* the first poll of acquire_owned().
Checkout(c) ==
    /\ pc[c] = "idle"
    /\ \/ /\ free_slots # << >>
          /\ index' = [index EXCEPT ![c] = Head(free_slots)]
          /\ free_slots' = Tail(free_slots)
          /\ pc' = [pc EXCEPT ![c] = "claimed"]
          /\ UNCHANGED << permits, waiters >>
       \/ /\ free_slots = << >>
          /\ permits > 0
          /\ permits' = permits - 1
          /\ pc' = [pc EXCEPT ![c] = "granted"]
          /\ UNCHANGED << free_slots, index, waiters >>
       \/ /\ free_slots = << >>
          /\ permits = 0
          /\ waiters' = Append(waiters, c)
          /\ pc' = [pc EXCEPT ![c] = "waiting"]
          /\ UNCHANGED << free_slots, index, permits >>
    /\ UNCHANGED << slots, runner, executions, alive, unverified >>

\* PooledRunner::spawn succeeded: a new process with no executions, handed to
\* c's lease, which is driven at once (run_via_pool).
SpawnInto(c, p) ==
    /\ p \in Procs \ (alive \cup Handles)
    /\ runner' = [runner EXCEPT ![c] = p]
    /\ executions' = [executions EXCEPT ![p] = 0]
    /\ alive' = alive \cup {p}
    /\ unverified' = unverified \cup {p}
    /\ pc' = [pc EXCEPT ![c] = "driving"]

\* Mutant of TakeParked: the runner is handed out and also left in its slot.
TakeParkedKeepsSlot(c) ==
    /\ pc[c] = "claimed"
    /\ slots[index[c]] # NoProc
    /\ runner' = [runner EXCEPT ![c] = slots[index[c]]]
    /\ unverified' = unverified \cup {slots[index[c]]}
    /\ pc' = [pc EXCEPT ![c] = "driving"]
    /\ UNCHANGED << free_slots, slots, permits, waiters, index, executions,
                    alive >>

\* take_or_spawn_slot found a parked runner.
TakeParked(c) ==
    /\ pc[c] = "claimed"
    /\ slots[index[c]] # NoProc
    /\ runner' = [runner EXCEPT ![c] = slots[index[c]]]
    /\ unverified' = unverified \cup {slots[index[c]]}
    /\ slots' = [slots EXCEPT ![index[c]] = NoProc]
    /\ pc' = [pc EXCEPT ![c] = "driving"]
    /\ UNCHANGED << free_slots, permits, waiters, index, executions, alive >>

\* take_or_spawn_slot found an empty slot and spawned into it.
SpawnPooled(c) ==
    /\ pc[c] = "claimed"
    /\ slots[index[c]] = NoProc
    /\ \E p \in Procs : SpawnInto(c, p)
    /\ UNCHANGED << free_slots, slots, permits, waiters, index >>

\* The spawn failed: the index goes back to the free list and checkout fails.
SpawnPooledFails(c) ==
    /\ pc[c] = "claimed"
    /\ slots[index[c]] = NoProc
    /\ free_slots' = Append(free_slots, index[c])
    /\ index' = [index EXCEPT ![c] = NoSlot]
    /\ pc' = [pc EXCEPT ![c] = "idle"]
    /\ UNCHANGED << slots, permits, waiters, runner, executions, alive,
                    unverified >>

\* The task is cancelled at slots[index].lock().await.  The index is a local of
\* the checkout future and no lease exists yet, so nothing pushes it back.
CancelClaim(c) ==
    /\ pc[c] = "claimed"
    /\ index' = [index EXCEPT ![c] = NoSlot]
    /\ pc' = [pc EXCEPT ![c] = "idle"]
    /\ UNCHANGED << free_slots, slots, permits, waiters, runner, executions,
                    alive, unverified >>

\* Mutant of ReturnPermit: the permit becomes available and no waiter is woken.
ReturnPermitNoWake(pcOf) ==
    /\ permits' = permits + 1
    /\ pc' = pcOf
    /\ UNCHANGED waiters

\* Dropping an OwnedSemaphorePermit: the permit goes to the first waiter.
\* pcOf is pc after the caller's own change.
ReturnPermit(pcOf) ==
    \/ /\ waiters = << >>
       /\ permits' = permits + 1
       /\ pc' = pcOf
       /\ UNCHANGED waiters
    \/ /\ waiters # << >>
       /\ waiters' = Tail(waiters)
       /\ pc' = [pcOf EXCEPT ![Head(waiters)] = "granted"]
       /\ UNCHANGED permits

\* The overflow permit is held and the ephemeral runner spawned.
SpawnOverflow(c) ==
    /\ pc[c] = "granted"
    /\ \E p \in Procs : SpawnInto(c, p)
    /\ UNCHANGED << free_slots, slots, permits, waiters, index >>

\* Mutant of GiveUpGrant: the error path forgets the permit.
GiveUpGrantLeaks(c) ==
    /\ pc[c] = "granted"
    /\ pc' = [pc EXCEPT ![c] = "idle"]
    /\ UNCHANGED << free_slots, slots, permits, waiters, index, runner,
                    executions, alive, unverified >>

\* The ephemeral spawn failed, or the task was cancelled before it resumed: the
\* permit is dropped.
GiveUpGrant(c) ==
    /\ pc[c] = "granted"
    /\ ReturnPermit([pc EXCEPT ![c] = "idle"])
    /\ UNCHANGED << free_slots, slots, index, runner, executions, alive,
                    unverified >>

\* The task is cancelled while it is queued on the semaphore.
CancelWait(c) ==
    /\ pc[c] = "waiting"
    /\ \E k \in 1 .. Len(waiters) :
          waiters[k] = c /\ waiters' = RemoveAt(waiters, k)
    /\ pc' = [pc EXCEPT ![c] = "idle"]
    /\ UNCHANGED << free_slots, slots, permits, index, runner, executions,
                    alive, unverified >>

-----------------------------------------------------------------------------
\* The lease

\* The drive loop read Done or Error, which only a running process can have
\* written since Start.
Answer(c) ==
    /\ pc[c] = "driving"
    /\ runner[c] \in alive
    /\ unverified' = unverified \ {runner[c]}
    /\ pc' = [pc EXCEPT ![c] = "answered"]
    /\ UNCHANGED << free_slots, slots, permits, waiters, index, runner,
                    executions, alive >>

\* Mutant of FinishLease: without the returned flag, release and the drop of the
\* lease both push the index.
FinishLeaseTwice(c) ==
    \/ /\ index[c] # NoSlot
       /\ free_slots' = Append(Append(free_slots, index[c]), index[c])
       /\ index' = [index EXCEPT ![c] = NoSlot]
       /\ pc' = [pc EXCEPT ![c] = "idle"]
       /\ UNCHANGED << permits, waiters >>
    \/ /\ index[c] = NoSlot
       /\ ReturnPermit([pc EXCEPT ![c] = "idle"])
       /\ UNCHANGED << free_slots, index >>

\* What the end of a lease does to the slot index or to the permit: return_slot
\* for a pooled lease, the drop of _permit for an ephemeral one.
FinishLease(c) ==
    \/ /\ index[c] # NoSlot
       /\ free_slots' = Append(free_slots, index[c])
       /\ index' = [index EXCEPT ![c] = NoSlot]
       /\ pc' = [pc EXCEPT ![c] = "idle"]
       /\ UNCHANGED << permits, waiters >>
    \/ /\ index[c] = NoSlot
       /\ ReturnPermit([pc EXCEPT ![c] = "idle"])
       /\ UNCHANGED << free_slots, index >>

\* Mutant of KillRunner: the handle is dropped and the process left running.
KillRunnerDetaches(c) ==
    /\ unverified' = unverified \ {runner[c]}
    /\ runner' = [runner EXCEPT ![c] = NoProc]
    /\ UNCHANGED alive

\* PooledRunner::drop kills the process (group).
KillRunner(c) ==
    /\ alive' = alive \ {runner[c]}
    /\ unverified' = unverified \ {runner[c]}
    /\ runner' = [runner EXCEPT ![c] = NoProc]

\* Mutant of Release: the recycle threshold is compared with > for >=.
ReleaseOneMore(c) ==
    /\ pc[c] = "answered"
    /\ \/ /\ index[c] # NoSlot
          /\ executions[runner[c]] + 1 <= RecycleAfter
          /\ executions' = [executions EXCEPT ![runner[c]] = @ + 1]
          /\ pc' = [pc EXCEPT ![c] = "parking"]
          /\ UNCHANGED << free_slots, slots, permits, waiters, index, runner,
                          alive, unverified >>
       \/ /\ index[c] # NoSlot => executions[runner[c]] + 1 > RecycleAfter
          /\ KillRunner(c)
          /\ FinishLease(c)
          /\ UNCHANGED << slots, executions >>

\* release(), up to the slot lock: an ephemeral runner is dropped, and so is a
\* pooled one that reached the recycle threshold.
Release(c) ==
    /\ pc[c] = "answered"
    /\ \/ /\ index[c] # NoSlot
          /\ executions[runner[c]] + 1 < RecycleAfter
          /\ executions' = [executions EXCEPT ![runner[c]] = @ + 1]
          /\ pc' = [pc EXCEPT ![c] = "parking"]
          /\ UNCHANGED << free_slots, slots, permits, waiters, index, runner,
                          alive, unverified >>
       \/ /\ index[c] # NoSlot => executions[runner[c]] + 1 >= RecycleAfter
          /\ KillRunner(c)
          /\ FinishLease(c)
          /\ UNCHANGED << slots, executions >>

\* release() once it has the slot lock.
Park(c) ==
    /\ pc[c] = "parking"
    /\ slots' = [slots EXCEPT ![index[c]] = runner[c]]
    /\ runner' = [runner EXCEPT ![c] = NoProc]
    /\ FinishLease(c)
    /\ UNCHANGED << executions, alive, unverified >>

\* evict() after a crash, a timeout or a protocol fault.
Evict(c) ==
    /\ pc[c] = "driving"
    /\ KillRunner(c)
    /\ FinishLease(c)
    /\ UNCHANGED << slots, executions >>

\* Mutant of DropLease: a cancelled lease parks its runner.
DropLeaseParks(c) ==
    /\ pc[c] \in {"driving", "answered", "parking"}
    /\ index[c] # NoSlot
    /\ slots' = [slots EXCEPT ![index[c]] = runner[c]]
    /\ runner' = [runner EXCEPT ![c] = NoProc]
    /\ FinishLease(c)
    /\ UNCHANGED << executions, alive, unverified >>

\* The task is cancelled while it holds a lease: Drop for RunnerLease.  While
\* parking, the runner is a local of release(), dropped with its future.
DropLease(c) ==
    /\ pc[c] \in {"driving", "answered", "parking"}
    /\ KillRunner(c)
    /\ FinishLease(c)
    /\ UNCHANGED << slots, executions >>

\* A runner process dies on its own, leased or parked.  Its handle stays.
RunnerDies(p) ==
    /\ p \in alive
    /\ alive' = alive \ {p}
    /\ UNCHANGED << free_slots, slots, permits, waiters, pc, index, runner,
                    executions, unverified >>

-----------------------------------------------------------------------------
CallerStep(c) ==
    \/ Checkout(c)
    \/ TakeParked(c)
    \/ SpawnPooled(c)
    \/ SpawnPooledFails(c)
    \/ CancelClaim(c)
    \/ SpawnOverflow(c)
    \/ GiveUpGrant(c)
    \/ CancelWait(c)
    \/ Answer(c)
    \/ Release(c)
    \/ Park(c)
    \/ Evict(c)
    \/ DropLease(c)

Next ==
    \/ \E c \in Callers : CallerStep(c)
    \/ \E p \in Procs : RunnerDies(p)

Spec == Init /\ [][Next]_vars

\* A task that is runnable is polled: the executor resumes a claimed or granted
\* checkout, release runs to its end, and the drive loop ends because every
\* wait of it is bounded by the execution deadline (then the lease is evicted).
\* Nothing is assumed of new checkouts, cancellations or crashes.
Fairness ==
    \A c \in Callers :
        /\ WF_vars(TakeParked(c) \/ SpawnPooled(c) \/ SpawnPooledFails(c))
        /\ WF_vars(SpawnOverflow(c) \/ GiveUpGrant(c))
        /\ WF_vars(Answer(c) \/ Evict(c))
        /\ WF_vars(Release(c))
        /\ WF_vars(Park(c))

FairSpec == Spec /\ Fairness

-----------------------------------------------------------------------------
\* Properties

TypeOK ==
    /\ free_slots \in Seq(Slots)
    /\ slots \in [Slots -> Procs \cup {NoProc}]
    /\ permits \in 0 .. Overflow
    /\ waiters \in Seq(Callers)
    /\ pc \in [Callers -> PCs]
    /\ index \in [Callers -> Slots \cup {NoSlot}]
    /\ runner \in [Callers -> Procs \cup {NoProc}]
    /\ executions \in [Procs -> 0 .. RecycleAfter - 1]
    /\ alive \subseteq Procs
    /\ unverified \subseteq Procs

\* pool.rs:58-60, "two concurrent checkouts can never select the same slot": an
\* index is at most once in the free list, held by at most one caller, and
\* never both.  A slot returned twice (by release and again by Drop) breaks it.
SlotExclusive ==
    /\ \A j, k \in 1 .. Len(free_slots) :
          free_slots[j] = free_slots[k] => j = k
    /\ \A c, d \in Callers :
          index[c] # NoSlot /\ index[c] = index[d] => c = d
    /\ \A c \in Callers, k \in 1 .. Len(free_slots) : index[c] # free_slots[k]

\* pool.rs:9, "one execution per runner at a time": a process is in at most one
\* slot or lease, so no two executions ever write to the same runner.
RunnerExclusive ==
    /\ \A c, d \in Callers : runner[c] # NoProc /\ runner[c] = runner[d] => c = d
    /\ \A i, j \in Slots : slots[i] # NoProc /\ slots[i] = slots[j] => i = j
    /\ \A c \in Callers, i \in Slots :
          runner[c] # NoProc => runner[c] # slots[i]

\* Drop for RunnerLease, "never park a runner whose execution state we did not
\* verify": whatever was cancelled or failed, a process that a slot offers to
\* the next checkout has no execution whose end was not read.
ParkedVerified == \A i \in Slots : slots[i] \notin unverified

\* pool/config.rs:24-25, "Bounds total concurrent runner processes to
\* pool_size + max_overflow": every running process is in a slot or in a lease
\* and there are never more than that, cancellations and failures included.
ProcessBound ==
    /\ alive \subseteq Handles
    /\ Cardinality(alive) <= Size + Overflow

\* The semaphore's books: a permit is available, assigned, or held by an
\* ephemeral lease, and nobody queues while one is available.
HoldsPermit(c) ==
    \/ pc[c] = "granted"
    \/ pc[c] \in {"driving", "answered"} /\ index[c] = NoSlot

PermitsConserved ==
    /\ permits + Cardinality({c \in Callers : HoldsPermit(c)}) = Overflow
    /\ permits > 0 => waiters = << >>

\* A checkout queued on the overflow semaphore is not starved by later ones: it
\* leaves the queue, with a permit or cancelled.
WaiterServed == \A c \in Callers : pc[c] = "waiting" ~> pc[c] # "waiting"

=============================================================================
