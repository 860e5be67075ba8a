---------------------------- MODULE UpstreamPool ----------------------------
(* One upstream in one pool: its catalogue entry with the breaker of the tools *)
(* capability, the shared connection in `connections`, the connect lock in     *)
(* `lazy_connect_locks`, and the operations that meet there: the lazy ensure,  *)
(* the re-probe, a tool call with the records its surface adds, the cleanup    *)
(* that reconciles the upstream, a subject-scoped request (only for the sweep  *)
(* loop it starts) and the drain of a superseded pool.  An operation may be    *)
(* cancelled wherever it waits.                                                *)
EXTENDS Integers, FiniteSets

CONSTANTS
    Tasks,         \* tasks that run operations, one at a time each
    Conns,         \* names for connections
    Casts,         \* which operations the tasks run: functions from Tasks to sets
    Threshold,     \* CIRCUIT_BREAKER_THRESHOLD
    MaxReconciles, \* bound on the number of cleanups
    None

ASSUME NamesSuffice ==
    /\ IsFiniteSet(Tasks) /\ IsFiniteSet(Conns)
    /\ Cardinality(Conns) > Cardinality(Tasks) + 1
ASSUME NoneFresh == None \notin Conns \cup Nat
ASSUME ThresholdPositive == Threshold \in Nat \ {0} /\ MaxReconciles \in Nat

\* The operations; "code" and "mcp" are tool calls by Code Mode and by the MCP
\* server.
Surfaces == {"code", "mcp"}
Operations == {"ensure", "reprobe", "cleanup", "subject"} \cup Surfaces

ASSUME CastsAssumption == Casts \subseteq [Tasks -> SUBSET Operations]

VARIABLES
    runs,       \* task -> the operations it runs
    listed,     \* whether the catalogue has an entry for the upstream
    tools,      \* whether the entry has a tool that is exposed
    failures,   \* its consecutive failures, counted up to Threshold
    conn,       \* the connection in `connections`
    up,         \* connections whose peer is alive
    lock,       \* the lock in lazy_connect_locks, named by its epoch
    epoch,      \* how often a lock was removed from that map
    lockOf,     \* task -> the lock whose Arc it has
    op,         \* task -> its operation, or the surface and outcome of its call
    pc,         \* task -> where it is
    holds,      \* task -> a connection that is in its hands
    peer,       \* task -> the connection whose peer it has cloned
    sweeping,   \* the sweep loop, which keeps the pool: "off", "on", or "again"
                \* when it was started after the drain had stopped it
    drain,      \* where the swap and the drain of the pool are
    drainHolds, \* the connection that the drain shuts down
    reconciles, \* cleanups so far
    streak,     \* observer: failed contacts since the last good one
    reported    \* observer: the MCP server has recorded a failure since then

vars == << runs, listed, tools, failures, conn, up, lock, epoch, lockOf, op, pc,
           holds, peer, sweeping, drain, drainHolds, reconciles, streak, reported >>
entryVars == << listed, tools, failures >>
observers == << streak, reported >>
taskVars == << lockOf, op, pc, holds, peer >>
poolVars == << runs, epoch, sweeping, drain, drainHolds, reconciles >>

-----------------------------------------------------------------------------
\* is_routable, and has_healthy_tools_for_upstream
Open == failures >= Threshold
Healthy == listed /\ tools /\ ~Open

\* record_failure_for and record_success_for change an entry that exists.
\* Mutant of RecordFailure: a failure counts twice.
RecordFailureTwice ==
    failures' = IF listed /\ failures < Threshold THEN failures + 2 ELSE failures

RecordFailure ==
    failures' = IF listed /\ failures < Threshold THEN failures + 1 ELSE failures

\* Mutant of RecordSuccess: a success forgives one failure.
RecordSuccessForgivesOne == failures' = failures - 1

RecordSuccess == failures' = 0

\* What happened at the upstream, whoever records it.
Bad ==
    /\ streak' = IF streak < Threshold THEN streak + 1 ELSE streak
    /\ UNCHANGED reported
Good == streak' = 0 /\ reported' = FALSE

To(t, p) == pc' = [pc EXCEPT ![t] = p]

\* The operation ends: its guard and its Arcs are dropped.
End(t) ==
    /\ To(t, "idle")
    /\ lockOf' = [lockOf EXCEPT ![t] = None]
    /\ op' = [op EXCEPT ![t] = "none"]
    /\ peer' = [peer EXCEPT ![t] = None]

\* The tasks that have the mutex of their connect lock.
Critical == {"take", "heartbeat", "shutdown", "connect", "insert", "replace",
             "record"}

\* Mutant of LockFree: nobody waits.
LockIgnored(t) == pc[t] = "wait"

LockFree(t) ==
    /\ pc[t] = "wait"
    /\ \A u \in Tasks : pc[u] \in Critical => lockOf[u] # lockOf[t]

\* Names that nobody uses.
FreeConns == Conns \ (up \cup {conn, drainHolds} \cup {holds[t] : t \in Tasks}
                         \cup {peer[t] : t \in Tasks})

Init ==
    /\ runs \in Casts
    /\ listed = TRUE
    /\ tools = FALSE
    /\ failures = 0
    /\ conn = None
    /\ up = {}
    /\ lock = None
    /\ epoch = 0
    /\ lockOf = [t \in Tasks |-> None]
    /\ op = [t \in Tasks |-> "none"]
    /\ pc = [t \in Tasks |-> "idle"]
    /\ holds = [t \in Tasks |-> None]
    /\ peer = [t \in Tasks |-> None]
    /\ sweeping = "off"
    /\ drain = "serving"
    /\ drainHolds = None
    /\ reconciles = 0
    /\ streak = 0
    /\ reported = FALSE

-----------------------------------------------------------------------------
\* ensure_tools_for_upstream and reprobe_tools_for_upstream_as

\* An operation begins on the pool that the runtime serves now.
Begins(t, o) ==
    /\ drain = "serving"
    /\ pc[t] = "idle"
    /\ o \in runs[t]
    /\ op' = [op EXCEPT ![t] = o]

\* The connect lock is cloned, and inserted if there is none.  An ensure of an
\* upstream with healthy tools has returned before.
ConnectBegin(t) ==
    /\ \/ ~Healthy /\ Begins(t, "ensure")
       \/ Begins(t, "reprobe")
    /\ LET l == IF lock = None THEN epoch ELSE lock
       IN  lock' = l /\ lockOf' = [lockOf EXCEPT ![t] = l]
    /\ To(t, "wait")
    /\ UNCHANGED << entryVars, conn, up, holds, peer, poolVars, observers >>

\* With the mutex an ensure looks again ...
EnsureReady(t) ==
    /\ LockFree(t)
    /\ op[t] = "ensure"
    /\ Healthy
    /\ End(t)
    /\ UNCHANGED << entryVars, conn, up, lock, holds, poolVars, observers >>

\* ... and makes sure that there is an entry.
EnsureLocked(t) ==
    /\ LockFree(t)
    /\ op[t] = "ensure"
    /\ ~Healthy
    /\ listed' = TRUE
    /\ To(t, "take")
    /\ UNCHANGED << tools, failures, conn, up, lock, lockOf, op, holds, peer,
                    poolVars, observers >>

\* A re-probe asks the connection for its tools, if there is one.
ReprobeLocked(t) ==
    /\ LockFree(t)
    /\ op[t] = "reprobe"
    /\ peer' = [peer EXCEPT ![t] = conn]
    /\ To(t, IF conn = None THEN "take" ELSE "heartbeat")
    /\ UNCHANGED << entryVars, conn, up, lock, lockOf, op, holds, poolVars,
                    observers >>

HeartbeatOk(t) ==
    /\ pc[t] = "heartbeat"
    /\ peer[t] \in up
    /\ To(t, "replace")
    /\ UNCHANGED << entryVars, conn, up, lock, lockOf, op, holds, peer, poolVars,
                    observers >>

HeartbeatFails(t) ==
    /\ pc[t] = "heartbeat"
    /\ RecordFailure
    /\ Bad
    /\ To(t, "take")
    /\ UNCHANGED << listed, tools, conn, up, lock, lockOf, op, holds, peer,
                    poolVars >>

\* The connection that is in the map now is removed and shut down.
TakeStale(t) ==
    /\ pc[t] = "take"
    /\ conn' = None
    /\ holds' = [holds EXCEPT ![t] = conn]
    /\ peer' = [peer EXCEPT ![t] = None]
    /\ To(t, IF conn = None THEN "connect" ELSE "shutdown")
    /\ UNCHANGED << entryVars, up, lock, lockOf, op, poolVars, observers >>

ShutDown(t) ==
    /\ pc[t] = "shutdown"
    /\ up' = up \ {holds[t]}
    /\ holds' = [holds EXCEPT ![t] = None]
    /\ To(t, "connect")
    /\ UNCHANGED << entryVars, conn, lock, lockOf, op, peer, poolVars, observers >>

ConnectOk(t) ==
    /\ pc[t] = "connect"
    /\ LET c == CHOOSE f \in FreeConns : TRUE
       IN  holds' = [holds EXCEPT ![t] = c] /\ up' = up \cup {c}
    /\ To(t, "insert")
    /\ UNCHANGED << entryVars, conn, lock, lockOf, op, peer, poolVars, observers >>

\* The connect fails or times out; a re-probe records nothing.
ConnectFails(t) ==
    /\ pc[t] = "connect"
    /\ IF op[t] = "ensure" THEN RecordFailure ELSE UNCHANGED failures
    /\ Bad
    /\ End(t)
    /\ UNCHANGED << listed, tools, conn, up, lock, holds, poolVars >>

\* A connection that the insertion overwrites is dropped.
InsertConn(t) ==
    /\ pc[t] = "insert"
    /\ conn' = holds[t]
    /\ up' = up \ {conn}
    /\ holds' = [holds EXCEPT ![t] = None]
    /\ To(t, "replace")
    /\ UNCHANGED << entryVars, lock, lockOf, op, peer, poolVars, observers >>

\* replace_catalog_tools: the tools, of which none may be exposed.
ReplaceTools(t) ==
    /\ pc[t] = "replace"
    /\ \E exposed \in BOOLEAN : tools' = (listed /\ exposed)
    /\ To(t, "record")
    /\ UNCHANGED << listed, failures, conn, up, lock, lockOf, op, holds, peer,
                    poolVars, observers >>

RecordConnected(t) ==
    /\ pc[t] = "record"
    /\ RecordSuccess
    /\ Good
    /\ End(t)
    /\ UNCHANGED << listed, tools, conn, up, lock, holds, poolVars >>

-----------------------------------------------------------------------------
\* A tool call

\* The tool is resolved in the catalogue; acquire_peer clones the peer.
CallBegin(t) ==
    /\ Healthy
    /\ \E s \in Surfaces : Begins(t, s)
    /\ peer' = [peer EXCEPT ![t] = conn]
    /\ To(t, IF conn = None THEN "absent" ELSE "calling")
    /\ UNCHANGED << entryVars, conn, up, lock, lockOf, holds, poolVars, observers >>

\* Without a connection the surface records a failure.
CallAbsent(t) ==
    /\ pc[t] = "absent"
    /\ RecordFailure
    /\ Bad
    /\ End(t)
    /\ UNCHANGED << listed, tools, conn, up, lock, holds, poolVars >>

\* timed_capability_call: a result, or an error of the protocol, is a success.
CallAnswered(t) ==
    /\ pc[t] = "calling"
    /\ peer[t] \in up
    /\ RecordSuccess
    /\ Good
    /\ \/ To(t, "answered") \/ To(t, "refused")
    /\ UNCHANGED << listed, tools, conn, up, lock, lockOf, op, holds, peer,
                    poolVars >>

\* A transport error or a timeout is a failure.
CallFailed(t) ==
    /\ pc[t] = "calling"
    /\ RecordFailure
    /\ Bad
    /\ To(t, "refused")
    /\ UNCHANGED << listed, tools, conn, up, lock, lockOf, op, holds, peer,
                    poolVars >>

\* The concurrency gate does not admit the call: nothing is recorded.
CallSaturated(t) ==
    /\ pc[t] = "calling"
    /\ To(t, "refused")
    /\ UNCHANGED << entryVars, conn, up, lock, lockOf, op, holds, peer, poolVars,
                    observers >>

\* What the surface adds: a result is recorded as a success again; an error is
\* recorded as a failure by the MCP server only.
Report(t) ==
    /\ \/ pc[t] = "answered" /\ RecordSuccess /\ UNCHANGED reported
       \/ pc[t] = "refused" /\ op[t] = "code" /\ UNCHANGED << failures, reported >>
       \/ pc[t] = "refused" /\ op[t] = "mcp" /\ RecordFailure /\ reported' = TRUE
    /\ End(t)
    /\ UNCHANGED << listed, tools, conn, up, lock, holds, poolVars, streak >>

-----------------------------------------------------------------------------
\* cleanup_upstream_processes with reconcile_lazy_upstreams, without any lock

\* The processes that match the upstream are killed; an upstream over HTTP has
\* none.
CleanupKills(t) ==
    /\ reconciles < MaxReconciles
    /\ Begins(t, "cleanup")
    /\ reconciles' = reconciles + 1
    /\ up' \in {up, {}}
    /\ To(t, "r_take")
    /\ UNCHANGED << entryVars, conn, lock, lockOf, holds, peer, runs, epoch,
                    sweeping, drain, drainHolds, observers >>

ReconcileTakes(t) ==
    /\ pc[t] = "r_take"
    /\ conn' = None
    /\ holds' = [holds EXCEPT ![t] = conn]
    /\ To(t, "r_forget")
    /\ UNCHANGED << entryVars, up, lock, lockOf, op, peer, poolVars, observers >>

\* It is shut down, and the entry and its health are forgotten.
ReconcileForgets(t) ==
    /\ pc[t] = "r_forget"
    /\ up' = up \ {holds[t]}
    /\ holds' = [holds EXCEPT ![t] = None]
    /\ listed' = FALSE /\ tools' = FALSE /\ failures' = 0
    /\ To(t, "r_lock")
    /\ UNCHANGED << conn, lock, lockOf, op, peer, poolVars, observers >>

ReconcileUnlocks(t) ==
    /\ pc[t] = "r_lock"
    /\ lock' = None
    /\ epoch' = epoch + 1
    /\ To(t, "r_seed")
    /\ UNCHANGED << entryVars, conn, up, lockOf, op, holds, peer, runs,
                    sweeping, drain,
                    drainHolds, reconciles, observers >>

ReconcileSeeds(t) ==
    /\ pc[t] = "r_seed"
    /\ listed' = TRUE
    /\ End(t)
    /\ UNCHANGED << tools, failures, conn, up, lock, holds, poolVars, observers >>

-----------------------------------------------------------------------------
\* A subject-scoped request, of which only the sweep loop it starts matters here
\* (ConnectionCache has the rest).
SubjectBegin(t) ==
    /\ Begins(t, "subject")
    /\ To(t, "arm")
    /\ UNCHANGED << entryVars, conn, up, lock, lockOf, holds, peer, poolVars,
                    observers >>

\* ensure_subject_sweep_task: the loop owns a clone of the pool.
ArmSweep(t) ==
    /\ pc[t] = "arm"
    /\ sweeping' = IF sweeping # "off" THEN sweeping
                    ELSE IF drain \in {"serving", "swapped"} THEN "on" ELSE "again"
    /\ End(t)
    /\ UNCHANGED << entryVars, conn, up, lock, holds, runs, epoch, drain, drainHolds,
                    reconciles, observers >>

\* The future of an operation is dropped where it waits, and with it a
\* connection in its hands.  A request for a tool call or a cleanup is no
\* exception.
Cancel(t) ==
    /\ pc[t] # "idle"
    /\ up' = up \ {holds[t]}
    /\ holds' = [holds EXCEPT ![t] = None]
    /\ End(t)
    /\ UNCHANGED << entryVars, conn, lock, poolVars, observers >>

-----------------------------------------------------------------------------
\* The runtime swaps the pool; then drain_for_swap runs in a task of its own.
Swap ==
    /\ drain = "serving"
    /\ drain' = "swapped"
    /\ UNCHANGED << entryVars, conn, up, lock, runs, epoch, taskVars, sweeping,
                    drainHolds,
                    reconciles, observers >>

\* Mutant of DrainTakes: the sweep loop is left running.
DrainKeepsToken ==
    /\ drain = "swapped"
    /\ drain' = "shutdown"
    /\ conn' = None
    /\ drainHolds' = conn
    /\ UNCHANGED << entryVars, up, lock, runs, epoch, taskVars, sweeping,
                    reconciles, observers >>

\* The sweep token is cancelled and the connection taken out of the map ...
DrainTakes ==
    /\ drain = "swapped"
    /\ drain' = "shutdown"
    /\ sweeping' = "off"
    /\ conn' = None
    /\ drainHolds' = conn
    /\ UNCHANGED << entryVars, up, lock, runs, epoch, taskVars, reconciles,
                    observers >>

\* ... and shut down; then the catalogue is cleared.
DrainClears ==
    /\ drain = "shutdown"
    /\ drain' = "drained"
    /\ up' = up \ {drainHolds}
    /\ drainHolds' = None
    /\ listed' = FALSE /\ tools' = FALSE /\ failures' = 0
    /\ UNCHANGED << conn, lock, runs, epoch, taskVars, sweeping, reconciles,
                    observers >>

\* The last clone of the pool is dropped, and what is in it.
PoolDropped ==
    /\ drain = "drained"
    /\ sweeping = "off"
    /\ \A t \in Tasks : pc[t] = "idle"
    /\ drain' = "dropped"
    /\ conn' = None
    /\ up' = up \ {conn}
    /\ UNCHANGED << entryVars, lock, runs, epoch, taskVars, sweeping, drainHolds,
                    reconciles, observers >>

\* A peer dies.
UpstreamDies ==
    /\ \E c \in up : up' = up \ {c}
    /\ UNCHANGED << entryVars, conn, lock, taskVars, poolVars, observers >>

-----------------------------------------------------------------------------
ConnectStep(t) ==
    \/ EnsureReady(t) \/ EnsureLocked(t) \/ ReprobeLocked(t)
    \/ HeartbeatOk(t) \/ HeartbeatFails(t) \/ TakeStale(t) \/ ShutDown(t)
    \/ ConnectOk(t) \/ ConnectFails(t) \/ InsertConn(t) \/ ReplaceTools(t)
    \/ RecordConnected(t)

CallStep(t) ==
    \/ CallAbsent(t) \/ CallAnswered(t) \/ CallFailed(t) \/ CallSaturated(t)
    \/ Report(t)

ReconcileStep(t) ==
    \/ ReconcileTakes(t) \/ ReconcileForgets(t) \/ ReconcileUnlocks(t)
    \/ ReconcileSeeds(t)

Step(t) ==
    ConnectStep(t) \/ CallStep(t) \/ ReconcileStep(t) \/ ArmSweep(t) \/ Cancel(t)

Begin(t) == ConnectBegin(t) \/ CallBegin(t) \/ CleanupKills(t) \/ SubjectBegin(t)

DrainStep == DrainTakes \/ DrainClears \/ PoolDropped

\* Nothing is left, or only a sweep loop that goes on.
Quiet ==
    /\ drain = "dropped" \/ (drain = "drained" /\ sweeping # "off")
    /\ UNCHANGED vars

Next ==
    \/ \E t \in Tasks : Begin(t) \/ Step(t)
    \/ Swap \/ DrainStep \/ UpstreamDies \/ Quiet

\* An operation that has begun goes on or is cancelled (every await in it has a
\* timeout of its own or that of its request); the drain is a task of its own.
Fairness == WF_vars(DrainStep) /\ \A t \in Tasks : WF_vars(Step(t))

Spec == Init /\ [][Next]_vars /\ Fairness

-----------------------------------------------------------------------------
\* Properties

Phases == {"idle", "wait", "absent", "calling", "answered", "refused", "arm",
           "r_take", "r_forget", "r_lock", "r_seed"} \cup Critical

TypeOK ==
    /\ listed \in BOOLEAN /\ tools \in BOOLEAN
    /\ failures \in 0 .. Threshold /\ streak \in 0 .. Threshold
    /\ conn \in Conns \cup {None} /\ drainHolds \in Conns \cup {None}
    /\ up \subseteq Conns
    /\ lock \in (0 .. MaxReconciles) \cup {None}
    /\ lockOf \in [Tasks -> (0 .. MaxReconciles) \cup {None}]
    /\ runs \in Casts
    /\ op \in [Tasks -> Operations \cup {"none"}]
    /\ pc \in [Tasks -> Phases]
    /\ holds \in [Tasks -> Conns \cup {None}]
    /\ peer \in [Tasks -> Conns \cup {None}]
    /\ sweeping \in {"off", "on", "again"} /\ reported \in BOOLEAN
    /\ drain \in {"serving", "swapped", "shutdown", "drained", "dropped"}
    /\ reconciles \in 0 .. MaxReconciles /\ epoch \in 0 .. reconciles

\* The circuit opens only after Threshold contacts failed in a row (types.rs:11:
\* "Number of consecutive failures before marking an upstream unhealthy").
CircuitNeedsThreshold == Open => streak >= Threshold

\* So it does as long as the pool alone keeps the account: only a failure that
\* the MCP server adds can open it earlier (code_mode_host.rs:516: "The pool owns
\* transport-vs-MCP health accounting").
PoolCountsOnce == Open => streak >= Threshold \/ reported

\* The connect lock allows one connect at a time; each cleanup, which forgets
\* the lock under its holder, allows one more (lifecycle.rs:88-93).
ConnectsBounded ==
    Cardinality({t \in Tasks : pc[t] \in Critical}) <= 1 + epoch

\* Until a cleanup forgets the lock, a re-probe only removes the connection whose
\* heartbeat failed, never one that another task has inserted since
\* (probe.rs:286-294).
TakesWhatFailed ==
    [][\A t \in Tasks :
          pc[t] = "take" /\ op[t] = "reprobe" /\ holds'[t] # None /\ epoch = 0
              => holds'[t] = peer[t]]_vars

\* A superseded pool leaves no upstream process behind, whatever was under way
\* when it was swapped (lifecycle.rs:112-193, connection.rs:87-130), unless a
\* request that got the pool before the swap starts the sweep loop again after
\* the drain: the loop then keeps the pool for ever.
DrainedDiesOrSwept ==
    (drain = "swapped")
        ~> \/ drain = "dropped" /\ up = {}
           \/ sweeping = "again"

=============================================================================
