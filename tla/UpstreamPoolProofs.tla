-------------------------- MODULE UpstreamPoolProofs --------------------------
(* Proofs about UpstreamPool, for every number of tasks, every threshold and    *)
(* every set of connections.                                                    *)
EXTENDS UpstreamPool, FiniteSetTheorems, TLAPS

-----------------------------------------------------------------------------
\* The breaker.  The pool's count never runs ahead of the failed contacts, and
\* both stop at the threshold.
Account ==
    /\ failures \in 0 .. Threshold
    /\ streak \in 0 .. Threshold
    /\ ~reported => failures <= streak

LEMMA AccountInit == Init => Account
BY ThresholdPositive DEF Init, Account

LEMMA AccountNext == Account /\ [Next]_vars => Account'
<1> SUFFICES ASSUME Account, [Next]_vars PROVE Account'
    OBVIOUS
<1> USE ThresholdPositive DEF Account, entryVars, observers, poolVars, taskVars
<1>1. CASE UNCHANGED vars
    BY <1>1 DEF vars
<1>2. ASSUME NEW t \in Tasks, Begin(t) PROVE Account'
    BY <1>2 DEF Begin, ConnectBegin, CallBegin, CleanupKills, SubjectBegin
<1>3. ASSUME NEW t \in Tasks, ConnectStep(t) PROVE Account'
    BY <1>3 DEF ConnectStep, EnsureReady, EnsureLocked, ReprobeLocked, HeartbeatOk,
       HeartbeatFails, TakeStale, ShutDown, ConnectOk, ConnectFails, InsertConn,
       ReplaceTools, RecordConnected, RecordFailure, RecordSuccess, Bad, Good
<1>4. ASSUME NEW t \in Tasks, CallStep(t) PROVE Account'
    BY <1>4 DEF CallStep, CallAbsent, CallAnswered, CallFailed, CallSaturated,
       Report, RecordFailure, RecordSuccess, Bad, Good
<1>5. ASSUME NEW t \in Tasks, ReconcileStep(t) \/ ArmSweep(t) \/ Cancel(t)
      PROVE Account'
    BY <1>5 DEF ReconcileStep, ReconcileTakes, ReconcileForgets, ReconcileUnlocks,
       ReconcileSeeds, ArmSweep, Cancel
<1>6. CASE Swap \/ DrainStep \/ UpstreamDies \/ Quiet
    BY <1>6 DEF Swap, DrainStep, DrainTakes, DrainClears, PoolDropped,
       UpstreamDies, Quiet, vars
<1> QED
    BY <1>1, <1>2, <1>3, <1>4, <1>5, <1>6 DEF Next, Step

\* Unless the MCP server has added a failure of its own since the last good
\* contact, the circuit of an upstream opens only after Threshold failed contacts
\* in a row, whichever tasks record them.
THEOREM PoolCountsOnceHolds == Spec => []PoolCountsOnce
<1>1. Account => PoolCountsOnce
    BY ThresholdPositive DEF Account, PoolCountsOnce, Open
<1> QED
    BY AccountInit, AccountNext, <1>1, PTL DEF Spec

-----------------------------------------------------------------------------
\* The connect lock

\* The functions of the model have the tasks as their domain.
Shape ==
    /\ pc \in [Tasks -> Phases]
    /\ op = [t \in Tasks |-> op[t]]
    /\ lockOf = [t \in Tasks |-> lockOf[t]]
    /\ holds = [t \in Tasks |-> holds[t]]
    /\ peer = [t \in Tasks |-> peer[t]]

\* A task that waits for a connect lock or has it knows a lock of some epoch, and
\* no two tasks have the same one.
Gate ==
    /\ epoch \in Nat
    /\ lock \in (0 .. epoch) \cup {None}
    /\ \A t \in Tasks : pc[t] \in Critical \cup {"wait"} => lockOf[t] \in 0 .. epoch
    /\ \A t, u \in Tasks :
          pc[t] \in Critical /\ pc[u] \in Critical /\ t # u => lockOf[t] # lockOf[u]

\* Connections are in the hands of a task only where it shuts one down or is
\* about to insert one; before the first cleanup, what a re-probe is about to
\* remove is what it probed.
Hands ==
    /\ \A t \in Tasks : pc[t] \notin {"shutdown", "insert", "r_forget"} => holds[t] = None
    /\ \A t \in Tasks :
          epoch = 0 /\ pc[t] \in {"heartbeat", "take"} /\ op[t] = "reprobe"
              => conn \in {None, peer[t]}

LockInv == Shape /\ Gate /\ Hands

LEMMA LockInvInit == Init => LockInv
BY NoneFresh DEF Init, LockInv, Shape, Gate, Hands, Phases, Critical

LEMMA ShapeNext == Shape /\ [Next]_vars => Shape'
<1> SUFFICES ASSUME Shape, [Next]_vars PROVE Shape'
    OBVIOUS
<1> USE DEF Shape, Phases, Critical, To, End, entryVars, observers, poolVars, taskVars
<1>1. CASE UNCHANGED vars
    BY <1>1 DEF vars
<1>2. ASSUME NEW t \in Tasks, Begin(t) PROVE Shape'
    BY <1>2 DEF Begin, Begins, ConnectBegin, CallBegin, CleanupKills, SubjectBegin
<1>3. ASSUME NEW t \in Tasks, ConnectStep(t) PROVE Shape'
    BY <1>3 DEF ConnectStep, LockFree, EnsureReady, EnsureLocked, ReprobeLocked,
       HeartbeatOk, HeartbeatFails, TakeStale, ShutDown, ConnectOk, ConnectFails,
       InsertConn, ReplaceTools, RecordConnected
<1>4. ASSUME NEW t \in Tasks, CallStep(t) PROVE Shape'
    BY <1>4 DEF CallStep, CallAbsent, CallAnswered, CallFailed, CallSaturated, Report
<1>5. ASSUME NEW t \in Tasks, ReconcileStep(t) \/ ArmSweep(t) \/ Cancel(t)
      PROVE Shape'
    BY <1>5 DEF ReconcileStep, ReconcileTakes, ReconcileForgets, ReconcileUnlocks,
       ReconcileSeeds, ArmSweep, Cancel
<1>6. CASE Swap \/ DrainStep \/ UpstreamDies \/ Quiet
    BY <1>6 DEF Swap, DrainStep, DrainTakes, DrainClears, PoolDropped,
       UpstreamDies, Quiet, vars
<1> QED
    BY <1>1, <1>2, <1>3, <1>4, <1>5, <1>6 DEF Next, Step

LEMMA GateNext == Shape /\ Gate /\ [Next]_vars => Gate'
<1> SUFFICES ASSUME Shape, Gate, [Next]_vars PROVE Gate'
    OBVIOUS
<1> USE NoneFresh DEF Shape, Gate, Phases, Critical, To, End, entryVars, observers,
        poolVars, taskVars
<1>1. CASE UNCHANGED vars
    BY <1>1 DEF vars
<1>2. ASSUME NEW t \in Tasks, ConnectBegin(t) PROVE Gate'
    BY <1>2 DEF Begins, ConnectBegin
<1>3. ASSUME NEW t \in Tasks, CallBegin(t) \/ CleanupKills(t) \/ SubjectBegin(t)
      PROVE Gate'
    BY <1>3 DEF Begins, CallBegin, CleanupKills, SubjectBegin
<1>4. ASSUME NEW t \in Tasks,
             EnsureReady(t) \/ EnsureLocked(t) \/ ReprobeLocked(t)
      PROVE Gate'
    BY <1>4 DEF LockFree, EnsureReady, EnsureLocked, ReprobeLocked
<1>5. ASSUME NEW t \in Tasks,
             HeartbeatOk(t) \/ HeartbeatFails(t) \/ TakeStale(t) \/ ShutDown(t)
                \/ ConnectOk(t) \/ ConnectFails(t) \/ InsertConn(t)
                \/ ReplaceTools(t) \/ RecordConnected(t)
      PROVE Gate'
    BY <1>5 DEF HeartbeatOk, HeartbeatFails, TakeStale, ShutDown, ConnectOk,
       ConnectFails, InsertConn, ReplaceTools, RecordConnected
<1>6. ASSUME NEW t \in Tasks, CallStep(t) PROVE Gate'
    BY <1>6 DEF CallStep, CallAbsent, CallAnswered, CallFailed, CallSaturated, Report
<1>7. ASSUME NEW t \in Tasks, ReconcileStep(t) \/ ArmSweep(t) \/ Cancel(t)
      PROVE Gate'
    BY <1>7 DEF ReconcileStep, ReconcileTakes, ReconcileForgets, ReconcileUnlocks,
       ReconcileSeeds, ArmSweep, Cancel
<1>8. CASE Swap \/ DrainStep \/ UpstreamDies \/ Quiet
    BY <1>8 DEF Swap, DrainStep, DrainTakes, DrainClears, PoolDropped,
       UpstreamDies, Quiet, vars
<1> QED
    BY <1>1, <1>2, <1>3, <1>4, <1>5, <1>6, <1>7, <1>8 DEF Next, Begin, Step, ConnectStep

\* Before the first cleanup at most one task has the connect lock.
LEMMA Alone ==
    ASSUME Gate, epoch = 0,
           NEW t \in Tasks, NEW u \in Tasks,
           pc[t] \in Critical, pc[u] \in Critical
    PROVE  t = u
BY DEF Gate

LEMMA HandsNext == LockInv /\ [Next]_vars => Hands'
<1> SUFFICES ASSUME Shape, Gate, Hands, [Next]_vars PROVE Hands'
    BY DEF LockInv
<1> USE NoneFresh DEF Shape, Hands, Phases, Critical, To, End, entryVars, observers,
        poolVars, taskVars
<1>0. epoch \in Nat
    BY DEF Gate
<1>1. CASE UNCHANGED vars
    BY <1>1 DEF vars
<1>2. ASSUME NEW t \in Tasks, Begin(t) PROVE Hands'
    BY <1>2 DEF Begin, Begins, ConnectBegin, CallBegin, CleanupKills, SubjectBegin
<1>3. ASSUME NEW t \in Tasks,
             EnsureReady(t) \/ EnsureLocked(t) \/ ReprobeLocked(t) \/ HeartbeatOk(t)
                \/ HeartbeatFails(t) \/ ConnectOk(t) \/ ConnectFails(t)
                \/ ReplaceTools(t) \/ RecordConnected(t)
      PROVE Hands'
    BY <1>3 DEF LockFree, EnsureReady, EnsureLocked, ReprobeLocked, HeartbeatOk,
       HeartbeatFails, ConnectOk, ConnectFails, ReplaceTools, RecordConnected
<1>4. ASSUME NEW t \in Tasks, TakeStale(t) \/ ShutDown(t) PROVE Hands'
    BY <1>4 DEF TakeStale, ShutDown
<1>5. ASSUME NEW t \in Tasks, InsertConn(t) PROVE Hands'
    BY <1>5, Alone DEF InsertConn
<1>6. ASSUME NEW t \in Tasks, CallStep(t) PROVE Hands'
    BY <1>6 DEF CallStep, CallAbsent, CallAnswered, CallFailed, CallSaturated, Report
<1>7. ASSUME NEW t \in Tasks, ReconcileStep(t) \/ ArmSweep(t) \/ Cancel(t)
      PROVE Hands'
    BY <1>0, <1>7 DEF ReconcileStep, ReconcileTakes, ReconcileForgets,
       ReconcileUnlocks, ReconcileSeeds, ArmSweep, Cancel
<1>8. CASE Swap \/ DrainStep \/ UpstreamDies \/ Quiet
    BY <1>8 DEF Swap, DrainStep, DrainTakes, DrainClears, PoolDropped,
       UpstreamDies, Quiet, vars
<1> QED
    BY <1>1, <1>2, <1>3, <1>4, <1>5, <1>6, <1>7, <1>8 DEF Next, Step, ConnectStep

LEMMA LockInvariant == Spec => []LockInv
<1>1. LockInv /\ [Next]_vars => LockInv'
    BY ShapeNext, GateNext, HandsNext DEF LockInv
<1> QED
    BY LockInvInit, <1>1, PTL DEF Spec

\* The connect lock allows one connect at a time, and each cleanup, which forgets
\* the lock under its holder, one more: the holders have locks of different
\* epochs.
THEOREM ConnectsBoundedHolds == Spec => []ConnectsBounded
<1>1. ASSUME LockInv PROVE ConnectsBounded
    <2> DEFINE H == {t \in Tasks : pc[t] \in Critical}
               E == 0 .. epoch
               f == [t \in H |-> lockOf[t]]
    <2>1. IsFiniteSet(E) /\ Cardinality(E) = epoch + 1
        <3>1. epoch \in Nat
            BY <1>1 DEF LockInv, Gate
        <3> QED BY <3>1, FS_Interval
    <2>2. f \in Injection(H, E)
        BY <1>1 DEF LockInv, Gate, Injection, IsInjective
    <2>3. IsFiniteSet(H)
        BY NamesSuffice, FS_Subset
    <2>4. Cardinality(H) <= Cardinality(E)
        <3> HIDE DEF H, E, f
        <3> QED BY <2>1, <2>2, <2>3, FS_Injection
    <2> QED
        BY <1>1, <2>1, <2>4 DEF ConnectsBounded, LockInv, Gate
<1> QED
    BY LockInvariant, <1>1, PTL

\* Until the first cleanup, a re-probe removes the connection whose heartbeat
\* failed and no other.
THEOREM TakesWhatFailedHolds == Spec => TakesWhatFailed
<1>1. ASSUME LockInv, [Next]_vars,
             NEW t \in Tasks, pc[t] = "take", op[t] = "reprobe",
             holds'[t] # None, epoch = 0
      PROVE  holds'[t] = peer[t]
    <2> USE DEF LockInv, Shape, Hands, entryVars, observers, poolVars, taskVars
    <2>1. holds[t] = None
        BY <1>1
    <2>2. TakeStale(t)
        <3>1. ASSUME UNCHANGED vars PROVE FALSE
            BY <1>1, <2>1, <3>1 DEF vars
        <3>2. ASSUME NEW u \in Tasks, Begin(u) PROVE FALSE
            BY <1>1, <2>1, <3>2
               DEF Begin, Begins, ConnectBegin, CallBegin, CleanupKills, SubjectBegin
        <3>3. ASSUME NEW u \in Tasks, ConnectStep(u), ~TakeStale(t) PROVE FALSE
            BY <1>1, <2>1, <3>3
               DEF ConnectStep, LockFree, EnsureReady, EnsureLocked, ReprobeLocked,
                   HeartbeatOk, HeartbeatFails, TakeStale, ShutDown, ConnectOk,
                   ConnectFails, InsertConn, ReplaceTools, RecordConnected
        <3>4. ASSUME NEW u \in Tasks,
                     CallStep(u) \/ ReconcileStep(u) \/ ArmSweep(u) \/ Cancel(u)
              PROVE  FALSE
            BY <1>1, <2>1, <3>4
               DEF CallStep, CallAbsent, CallAnswered, CallFailed, CallSaturated,
                   Report, ReconcileStep, ReconcileTakes, ReconcileForgets,
                   ReconcileUnlocks, ReconcileSeeds, ArmSweep, Cancel
        <3>5. ASSUME Swap \/ DrainStep \/ UpstreamDies \/ Quiet PROVE FALSE
            BY <1>1, <2>1, <3>5
               DEF Swap, DrainStep, DrainTakes, DrainClears, PoolDropped,
                   UpstreamDies, Quiet, vars
        <3> QED
            BY <1>1, <3>1, <3>2, <3>3, <3>4, <3>5 DEF Next, Step
    <2>3. holds'[t] = conn
        BY <1>1, <2>2 DEF TakeStale
    <2> QED
        BY <1>1, <2>3
<1>2. LockInv /\ [Next]_vars
        => [\A t \in Tasks :
              pc[t] = "take" /\ op[t] = "reprobe" /\ holds'[t] # None /\ epoch = 0
                  => holds'[t] = peer[t]]_vars
    BY <1>1
<1> QED
    BY LockInvariant, <1>2, PTL DEF Spec, TakesWhatFailed
-----------------------------------------------------------------------------
\* Types

\* What one operation assigns without looking at anything else.
PlainTypes ==
    /\ listed \in BOOLEAN /\ tools \in BOOLEAN /\ reported \in BOOLEAN
    /\ runs \in Casts
    /\ op \in [Tasks -> Operations \cup {"none"}]
    /\ sweeping \in {"off", "on", "again"}
    /\ drain \in {"serving", "swapped", "shutdown", "drained", "dropped"}
    /\ reconciles \in 0 .. MaxReconciles

LEMMA PlainTypesInit == Init => PlainTypes
<1> SUFFICES ASSUME Init PROVE PlainTypes
    OBVIOUS
<1>1. op \in [Tasks -> Operations \cup {"none"}]
    BY DEF Init
<1>2. reconciles \in 0 .. MaxReconciles
    BY ThresholdPositive DEF Init
<1> QED
    BY <1>1, <1>2, Zenon DEF Init, PlainTypes

LEMMA PlainTypesNext == PlainTypes /\ [Next]_vars => PlainTypes'
<1> SUFFICES ASSUME PlainTypes, [Next]_vars PROVE PlainTypes'
    OBVIOUS
<1> USE ThresholdPositive DEF PlainTypes, To, End, entryVars, observers, poolVars,
        taskVars
<1>1. CASE UNCHANGED vars
    BY <1>1 DEF vars
<1>2. ASSUME NEW t \in Tasks, Begin(t) PROVE PlainTypes'
    BY <1>2 DEF Begin, Begins, ConnectBegin, CallBegin, CleanupKills, SubjectBegin,
       Operations, Surfaces
<1>3. ASSUME NEW t \in Tasks, ConnectStep(t) PROVE PlainTypes'
    BY <1>3 DEF ConnectStep, EnsureReady, EnsureLocked, ReprobeLocked,
       HeartbeatOk, HeartbeatFails, TakeStale, ShutDown, ConnectOk, ConnectFails,
       InsertConn, ReplaceTools, RecordConnected, Good, Bad
<1>4. ASSUME NEW t \in Tasks, CallStep(t) PROVE PlainTypes'
    BY <1>4 DEF CallStep, CallAbsent, CallAnswered, CallFailed, CallSaturated, Report,
       Good, Bad
<1>5. ASSUME NEW t \in Tasks, ReconcileStep(t) \/ ArmSweep(t) \/ Cancel(t)
      PROVE PlainTypes'
    BY <1>5 DEF ReconcileStep, ReconcileTakes, ReconcileForgets, ReconcileUnlocks,
       ReconcileSeeds, ArmSweep, Cancel
<1>6. CASE Swap \/ DrainStep \/ UpstreamDies \/ Quiet
    BY <1>6 DEF Swap, DrainStep, DrainTakes, DrainClears, PoolDropped,
       UpstreamDies, Quiet, vars
<1> QED
    BY <1>1, <1>2, <1>3, <1>4, <1>5, <1>6 DEF Next, Step

\* A lock that a task knows is one of the epochs so far.
KnownLocks == \A t \in Tasks : lockOf[t] \in (0 .. epoch) \cup {None}

LEMMA KnownLocksNext == LockInv /\ KnownLocks /\ [Next]_vars => KnownLocks'
<1> SUFFICES ASSUME Shape, Gate, KnownLocks, [Next]_vars PROVE KnownLocks'
    BY DEF LockInv
<1>0. epoch \in Nat /\ lock \in (0 .. epoch) \cup {None}
    BY DEF Gate
<1>S. lockOf = [t \in Tasks |-> lockOf[t]]
    BY DEF Shape
<1> USE <1>0, <1>S, NoneFresh DEF KnownLocks, To, End, entryVars, observers, poolVars,
        taskVars
<1>1. CASE UNCHANGED vars
    BY <1>1 DEF vars
<1>2. ASSUME NEW t \in Tasks, Begin(t) PROVE KnownLocks'
    BY <1>2 DEF Begin, Begins, ConnectBegin, CallBegin, CleanupKills, SubjectBegin
<1>3. ASSUME NEW t \in Tasks, ConnectStep(t) PROVE KnownLocks'
    BY <1>3 DEF ConnectStep, EnsureReady, EnsureLocked, ReprobeLocked,
       HeartbeatOk, HeartbeatFails, TakeStale, ShutDown, ConnectOk, ConnectFails,
       InsertConn, ReplaceTools, RecordConnected
<1>4. ASSUME NEW t \in Tasks, CallStep(t) PROVE KnownLocks'
    BY <1>4 DEF CallStep, CallAbsent, CallAnswered, CallFailed, CallSaturated, Report
<1>5. ASSUME NEW t \in Tasks, ReconcileStep(t) \/ ArmSweep(t) \/ Cancel(t)
      PROVE KnownLocks'
    BY <1>5 DEF ReconcileStep, ReconcileTakes, ReconcileForgets, ReconcileUnlocks,
       ReconcileSeeds, ArmSweep, Cancel
<1>6. CASE Swap \/ DrainStep \/ UpstreamDies \/ Quiet
    BY <1>6 DEF Swap, DrainStep, DrainTakes, DrainClears, PoolDropped,
       UpstreamDies, Quiet, vars
<1> QED
    BY <1>1, <1>2, <1>3, <1>4, <1>5, <1>6 DEF Next, Step

-----------------------------------------------------------------------------
\* How often the lock is forgotten: a cleanup that has not done it yet was
\* counted when it began, also when it is cancelled.
Cleaning == {"r_take", "r_forget", "r_lock"}
Cleaners == {t \in Tasks : pc[t] \in Cleaning}

Forgotten == epoch + Cardinality(Cleaners) <= reconciles

\* A step starts a cleanup, forgets the lock for one, or does neither.
LEMMA CleanersStep ==
    ASSUME Shape, [Next]_vars
    PROVE  \/ \E t \in Tasks : /\ reconciles' = reconciles + 1 /\ epoch' = epoch
                               /\ Cleaners' \subseteq Cleaners \cup {t}
           \/ \E t \in Cleaners : /\ reconciles' = reconciles /\ epoch' = epoch + 1
                                  /\ Cleaners' \subseteq Cleaners \ {t}
           \/ /\ reconciles' = reconciles /\ epoch' = epoch
              /\ Cleaners' \subseteq Cleaners
<1> DEFINE Neither == /\ reconciles' = reconciles /\ epoch' = epoch
                      /\ Cleaners' \subseteq Cleaners
<1>S. pc = [t \in Tasks |-> pc[t]]
    BY DEF Shape
<1> USE <1>S DEF Cleaners, Cleaning, To, End, entryVars, observers, poolVars, taskVars
<1>1. CASE UNCHANGED vars
    BY <1>1 DEF vars
<1>2. ASSUME NEW t \in Tasks, CleanupKills(t)
      PROVE /\ reconciles' = reconciles + 1 /\ epoch' = epoch
            /\ Cleaners' \subseteq Cleaners \cup {t}
    BY <1>2 DEF CleanupKills, Begins
<1>3. ASSUME NEW t \in Tasks, ConnectBegin(t) \/ CallBegin(t) \/ SubjectBegin(t)
      PROVE Neither
    BY <1>3 DEF Begins, ConnectBegin, CallBegin, SubjectBegin
<1>4. ASSUME NEW t \in Tasks, ConnectStep(t) PROVE Neither
    BY <1>4 DEF ConnectStep, EnsureReady, EnsureLocked, ReprobeLocked,
       HeartbeatOk, HeartbeatFails, TakeStale, ShutDown, ConnectOk, ConnectFails,
       InsertConn, ReplaceTools, RecordConnected
<1>5. ASSUME NEW t \in Tasks, CallStep(t) PROVE Neither
    BY <1>5 DEF CallStep, CallAbsent, CallAnswered, CallFailed, CallSaturated, Report
<1>6. ASSUME NEW t \in Tasks, ReconcileUnlocks(t)
      PROVE /\ t \in Cleaners /\ reconciles' = reconciles /\ epoch' = epoch + 1
            /\ Cleaners' \subseteq Cleaners \ {t}
    BY <1>6 DEF ReconcileUnlocks
<1>7. ASSUME NEW t \in Tasks,
             ReconcileTakes(t) \/ ReconcileForgets(t) \/ ReconcileSeeds(t)
                \/ ArmSweep(t) \/ Cancel(t)
      PROVE Neither
    BY <1>7 DEF ReconcileTakes, ReconcileForgets, ReconcileSeeds, ArmSweep, Cancel
<1>8. CASE Swap \/ DrainStep \/ UpstreamDies \/ Quiet
    BY <1>8 DEF Swap, DrainStep, DrainTakes, DrainClears, PoolDropped,
       UpstreamDies, Quiet, vars
<1> HIDE <1>S DEF Cleaners
<1> QED
    BY <1>1, <1>2, <1>3, <1>4, <1>5, <1>6, <1>7, <1>8
       DEF Next, Begin, Step, ReconcileStep

LEMMA ForgottenNext ==
    ASSUME Shape, Gate, PlainTypes, Forgotten, [Next]_vars
    PROVE  Forgotten'
<1>1. IsFiniteSet(Cleaners)
    BY NamesSuffice, FS_Subset DEF Cleaners
<1>2. epoch \in Nat /\ reconciles \in Nat
    BY ThresholdPositive DEF Gate, PlainTypes
<1>3. Cardinality(Cleaners) \in Nat
    BY <1>1, FS_CardinalityType
<1>4. ASSUME NEW S, IsFiniteSet(S), Cleaners' \subseteq S
      PROVE  Cardinality(Cleaners') <= Cardinality(S) /\ Cardinality(Cleaners') \in Nat
    BY <1>4, FS_Subset, FS_CardinalityType
<1>5. CASE \E t \in Tasks : /\ reconciles' = reconciles + 1 /\ epoch' = epoch
                            /\ Cleaners' \subseteq Cleaners \cup {t}
    <2>1. PICK t \in Tasks : /\ reconciles' = reconciles + 1 /\ epoch' = epoch
                             /\ Cleaners' \subseteq Cleaners \cup {t}
        BY <1>5
    <2>2. /\ IsFiniteSet(Cleaners \cup {t})
          /\ Cardinality(Cleaners \cup {t}) <= Cardinality(Cleaners) + 1
          /\ Cardinality(Cleaners \cup {t}) \in Nat
        <3>1. Cardinality(Cleaners \cup {t})
                = IF t \in Cleaners THEN Cardinality(Cleaners)
                                    ELSE Cardinality(Cleaners) + 1
            BY <1>1, FS_AddElement
        <3>2. IsFiniteSet(Cleaners \cup {t})
            BY <1>1, FS_AddElement
        <3> QED
            BY <1>3, <3>1, <3>2
    <2>3. Cardinality(Cleaners') <= Cardinality(Cleaners \cup {t})
            /\ Cardinality(Cleaners') \in Nat
        BY <1>4, <2>1, <2>2
    <2> QED
        BY <1>2, <1>3, <2>1, <2>2, <2>3 DEF Forgotten
<1>6. CASE \E t \in Cleaners : /\ reconciles' = reconciles /\ epoch' = epoch + 1
                               /\ Cleaners' \subseteq Cleaners \ {t}
    <2>1. PICK t \in Cleaners : /\ reconciles' = reconciles /\ epoch' = epoch + 1
                                /\ Cleaners' \subseteq Cleaners \ {t}
        BY <1>6
    <2>2. /\ IsFiniteSet(Cleaners \ {t})
          /\ Cardinality(Cleaners \ {t}) = Cardinality(Cleaners) - 1
        BY <1>1, <2>1, FS_RemoveElement
    <2>3. Cardinality(Cleaners') <= Cardinality(Cleaners \ {t})
            /\ Cardinality(Cleaners') \in Nat
        BY <1>4, <2>1, <2>2
    <2> QED
        BY <1>2, <1>3, <2>1, <2>2, <2>3 DEF Forgotten
<1>7. CASE /\ reconciles' = reconciles /\ epoch' = epoch
           /\ Cleaners' \subseteq Cleaners
    <2>1. Cardinality(Cleaners') <= Cardinality(Cleaners)
            /\ Cardinality(Cleaners') \in Nat
        BY <1>1, <1>4, <1>7
    <2> QED
        BY <1>2, <1>3, <1>7, <2>1 DEF Forgotten
<1> QED
    BY <1>5, <1>6, <1>7, CleanersStep

-----------------------------------------------------------------------------
\* Who has a connection.  A connection whose peer is alive is in the map, with the
\* drain or in the hands of a task: none is left without an owner that will shut
\* it down or drop it.
Owned ==
    \A c \in up : c = conn \/ c = drainHolds \/ \E t \in Tasks : holds[t] = c

\* Peers are cloned only by a re-probe and by a call, so no task has a connection
\* and a peer at once; only the drain has a connection of its own; a pool that was
\* dropped has no tasks and nothing in its map.
Cloning == {"take", "heartbeat", "replace", "record", "calling", "answered", "refused"}
Clones == \A t \in Tasks : pc[t] \notin Cloning => peer[t] = None
DrainOnly == drain # "shutdown" => drainHolds = None
Emptied == drain = "dropped" => conn = None /\ \A t \in Tasks : pc[t] = "idle"

ConnTypes ==
    /\ conn \in Conns \cup {None}
    /\ drainHolds \in Conns \cup {None}
    /\ up \subseteq Conns
    /\ holds \in [Tasks -> Conns \cup {None}]
    /\ peer \in [Tasks -> Conns \cup {None}]

Custody == ConnTypes /\ Owned /\ Clones /\ DrainOnly /\ Emptied

LEMMA CustodyInit == Init => Custody
BY DEF Init, Custody, ConnTypes, Owned, Clones, DrainOnly, Emptied

\* There is a name for a new connection: the tasks other than the one that
\* connects use one name each, the map and the drain one each.
LEMMA NameLeft ==
    ASSUME Shape, Hands, Custody, NEW t \in Tasks, pc[t] = "connect"
    PROVE  FreeConns # {}
<1> DEFINE name == [u \in Tasks \ {t} |-> IF holds[u] # None THEN holds[u] ELSE peer[u]]
           N == {name[u] : u \in Tasks \ {t}}
           M == (N \cup {conn}) \cup {drainHolds}
<1>1. holds[t] = None /\ peer[t] = None
    BY DEF Hands, Custody, Clones, Cloning
<1>2. \A u \in Tasks : holds[u] = None \/ peer[u] = None
    BY DEF Hands, Custody, Clones, Cloning
<1>3. /\ IsFiniteSet(Tasks \ {t}) /\ Cardinality(Tasks \ {t}) = Cardinality(Tasks) - 1
      /\ Cardinality(Tasks) \in Nat
    BY NamesSuffice, FS_RemoveElement, FS_CardinalityType
<1>4. IsFiniteSet(N) /\ Cardinality(N) <= Cardinality(Tasks \ {t})
    <2>1. name \in Surjection(Tasks \ {t}, N)
        BY DEF Surjection
    <2> HIDE DEF name, N
    <2> QED
        BY <1>3, <2>1, FS_Surjection
<1>5. IsFiniteSet(M) /\ Cardinality(M) <= Cardinality(N) + 2
    <2> HIDE DEF N
    <2>1. IsFiniteSet(N \cup {conn}) /\ Cardinality(N) \in Nat
        BY <1>4, FS_AddElement, FS_CardinalityType
    <2>2. Cardinality(N \cup {conn}) = IF conn \in N THEN Cardinality(N)
                                                      ELSE Cardinality(N) + 1
        BY <1>4, FS_AddElement
    <2>3. Cardinality(M) = IF drainHolds \in N \cup {conn}
                              THEN Cardinality(N \cup {conn})
                              ELSE Cardinality(N \cup {conn}) + 1
        BY <2>1, FS_AddElement
    <2>4. IsFiniteSet(M)
        BY <2>1, FS_AddElement
    <2> HIDE DEF M
    <2> QED
        BY <2>1, <2>2, <2>3, <2>4
<1>6. ASSUME FreeConns = {} PROVE FALSE
    <2>1. ASSUME NEW c \in Conns PROVE c \in M
        <3>1. c # None
            BY NoneFresh
        <3>2. \/ c = conn \/ c = drainHolds
              \/ \E u \in Tasks : holds[u] = c \/ peer[u] = c
            BY <1>6 DEF FreeConns, Custody, Owned
        <3>3. ASSUME NEW u \in Tasks, holds[u] = c \/ peer[u] = c PROVE c \in N
            <4>1. u \in Tasks \ {t} /\ name[u] = c
                BY <1>1, <1>2, <3>1, <3>3
            <4> QED BY <4>1
        <3> QED
            BY <3>2, <3>3
    <2>2. Cardinality(Conns) <= Cardinality(M)
        <3> HIDE DEF M
        <3> QED BY <1>5, <2>1, FS_Subset
    <2>3. Cardinality(N) \in Nat /\ Cardinality(M) \in Nat /\ Cardinality(Conns) \in Nat
        <3> HIDE DEF M, N
        <3> QED BY <1>4, <1>5, NamesSuffice, FS_CardinalityType
    <2> HIDE DEF M, N
    <2> QED
        BY <1>3, <1>4, <1>5, <2>2, <2>3, NamesSuffice
<1> QED
    BY <1>6

LEMMA CustodyNext == LockInv /\ Custody /\ [Next]_vars => Custody'
<1> SUFFICES ASSUME Shape, Hands, Custody, [Next]_vars PROVE Custody'
    BY DEF LockInv
<1>S. /\ pc = [t \in Tasks |-> pc[t]]
      /\ holds = [t \in Tasks |-> holds[t]]
      /\ peer = [t \in Tasks |-> peer[t]]
    BY DEF Shape
<1>H. \A t \in Tasks : pc[t] \notin {"shutdown", "insert", "r_forget"} => holds[t] = None
    BY DEF Hands
<1> USE <1>S, NoneFresh DEF Custody, ConnTypes, Owned, Clones, Cloning, DrainOnly,
        Emptied, To, End, entryVars, observers, poolVars, taskVars
<1>1. CASE UNCHANGED vars
    BY <1>1 DEF vars
<1>2. ASSUME NEW t \in Tasks, Begin(t) PROVE Custody'
    BY <1>2 DEF Begin, Begins, ConnectBegin, CallBegin, CleanupKills, SubjectBegin
<1>3. ASSUME NEW t \in Tasks,
             EnsureReady(t) \/ EnsureLocked(t) \/ ReprobeLocked(t) \/ HeartbeatOk(t)
                \/ HeartbeatFails(t) \/ ConnectFails(t) \/ ReplaceTools(t)
                \/ RecordConnected(t)
      PROVE Custody'
    BY <1>3 DEF LockFree, EnsureReady, EnsureLocked, ReprobeLocked, HeartbeatOk,
       HeartbeatFails, ConnectFails, ReplaceTools, RecordConnected
<1>4. ASSUME NEW t \in Tasks, TakeStale(t) \/ ShutDown(t) PROVE Custody'
    BY <1>4, <1>H DEF TakeStale, ShutDown
<1>5. ASSUME NEW t \in Tasks, ConnectOk(t) PROVE Custody'
    <2>1. PICK c : /\ c \in FreeConns
                   /\ holds' = [holds EXCEPT ![t] = c] /\ up' = up \cup {c}
        BY <1>5, NameLeft DEF ConnectOk
    <2>2. c \in Conns /\ holds[t] = None
        BY <1>5, <1>H, <2>1 DEF ConnectOk, FreeConns
    <2> QED
        BY <1>5, <2>1, <2>2 DEF ConnectOk
<1>6. ASSUME NEW t \in Tasks, InsertConn(t) PROVE Custody'
    BY <1>6 DEF InsertConn
<1>7. ASSUME NEW t \in Tasks, CallStep(t) PROVE Custody'
    BY <1>7 DEF CallStep, CallAbsent, CallAnswered, CallFailed, CallSaturated, Report
<1>8. ASSUME NEW t \in Tasks, ReconcileStep(t) \/ ArmSweep(t) \/ Cancel(t)
      PROVE Custody'
    BY <1>8, <1>H DEF ReconcileStep, ReconcileTakes, ReconcileForgets,
       ReconcileUnlocks, ReconcileSeeds, ArmSweep, Cancel
<1>9. CASE Swap \/ DrainStep \/ UpstreamDies \/ Quiet
    BY <1>9, <1>H DEF Swap, DrainStep, DrainTakes, DrainClears, PoolDropped,
       UpstreamDies, Quiet, vars
<1> QED
    BY <1>1, <1>2, <1>3, <1>4, <1>5, <1>6, <1>7, <1>8, <1>9 DEF Next, Step, ConnectStep

-----------------------------------------------------------------------------
\* The inductive invariant of the pool.
PoolInv == Account /\ LockInv /\ PlainTypes /\ KnownLocks /\ Forgotten /\ Custody

LEMMA PoolInvariant == Spec => []PoolInv
<1>1. Init => PoolInv
    <2> SUFFICES ASSUME Init PROVE PoolInv
        OBVIOUS
    <2>1. KnownLocks
        BY DEF Init, KnownLocks
    <2>2. Forgotten
        <3>1. Cleaners = {}
            BY DEF Init, Cleaners, Cleaning
        <3> QED BY <3>1, FS_EmptySet DEF Init, Forgotten
    <2> QED
        BY <2>1, <2>2, AccountInit, LockInvInit, PlainTypesInit, CustodyInit DEF PoolInv
<1>2. PoolInv /\ [Next]_vars => PoolInv'
    BY AccountNext, ShapeNext, GateNext, HandsNext, PlainTypesNext, KnownLocksNext,
       ForgottenNext, CustodyNext DEF PoolInv, LockInv
<1> QED
    BY <1>1, <1>2, PTL DEF Spec

\* Every variable keeps its type: in particular a connect always finds a name for
\* its connection that nobody uses, and a lock is forgotten at most as often as a
\* cleanup began.
THEOREM UpstreamPoolTypes == Spec => []TypeOK
<1>1. ASSUME PoolInv PROVE TypeOK
    <2> USE <1>1 DEF PoolInv
    <2>1. epoch \in Nat /\ reconciles \in 0 .. MaxReconciles /\ epoch <= reconciles
        <3>1. epoch \in Nat /\ reconciles \in 0 .. MaxReconciles
            BY DEF LockInv, Gate, PlainTypes
        <3>2. Cardinality(Cleaners) \in Nat
            BY NamesSuffice, FS_Subset, FS_CardinalityType DEF Cleaners
        <3> QED BY <3>1, <3>2, ThresholdPositive DEF Forgotten
    <2>2. 0 .. epoch \subseteq 0 .. MaxReconciles
        BY <2>1, ThresholdPositive
    <2>3. lock \in (0 .. MaxReconciles) \cup {None}
        BY <2>2 DEF LockInv, Gate
    <2>4. lockOf \in [Tasks -> (0 .. MaxReconciles) \cup {None}]
        BY <2>2 DEF LockInv, Shape, KnownLocks
    <2>5. failures \in 0 .. Threshold /\ streak \in 0 .. Threshold
        BY DEF Account
    <2>6. epoch \in 0 .. reconciles
        BY <2>1, ThresholdPositive
    <2>7. pc \in [Tasks -> Phases]
        BY DEF LockInv, Shape
    <2> QED
        BY <2>1, <2>3, <2>4, <2>5, <2>6, <2>7, Zenon
           DEF TypeOK, PlainTypes, Custody, ConnTypes
<1> QED
    BY PoolInvariant, <1>1, PTL

\* No upstream process is left without an owner, whatever is cancelled, cleaned up
\* or drained at the same time: a live connection is in the map, with the drain or
\* in the hands of a task.
THEOREM LiveConnectionsOwned == Spec => []Owned
BY PoolInvariant, PTL DEF PoolInv, Custody

\* A pool whose last clone was dropped has left no live connection behind.
DroppedIsEmpty == drain = "dropped" => up = {}

\* Once a superseded pool is dropped, none of its connections is alive, and none
\* comes alive again.
THEOREM DroppedPoolEmpty == Spec => []DroppedIsEmpty
<1>1. ASSUME PoolInv, drain = "dropped" PROVE up = {}
    <2>1. conn = None /\ drainHolds = None /\ \A t \in Tasks : holds[t] = None
        BY <1>1 DEF PoolInv, LockInv, Hands, Custody, DrainOnly, Emptied
    <2>2. None \notin up
        BY <1>1, NoneFresh DEF PoolInv, Custody, ConnTypes
    <2> QED
        BY <1>1, <2>1, <2>2 DEF PoolInv, Custody, Owned
<1>2. PoolInv => DroppedIsEmpty
    BY <1>1 DEF DroppedIsEmpty
<1> QED
    BY PoolInvariant, <1>2, PTL

=============================================================================
