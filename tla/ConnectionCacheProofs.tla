------------------------ MODULE ConnectionCacheProofs ------------------------
(* Proofs about ConnectionCache, for every finite set of requests and every set *)
(* of sessions, subjects and capabilities.                                      *)
EXTENDS ConnectionCache, FiniteSetTheorems, TLAPS

\* The key of each request as a function: callers never change, so neither does
\* it.
KeyOf == [r \in Requests |-> Key(r)]

LEMMA KeyOfType == who \in Casts => KeyOf \in [Requests -> Keys]
<1> SUFFICES ASSUME who \in Casts, NEW r \in Requests PROVE Key(r) \in Keys
    BY DEF KeyOf
<1>1. who[r] \in Callers
    BY CastsAssumption
<1> QED
    BY <1>1 DEF Callers, RelayCallers, SubjectCallers, Key, Keys, RelayKeys,
       SubjectKeys

LEMMA KeyIs == \A r \in Requests : Key(r) = KeyOf[r]
BY DEF KeyOf

LEMMA CallersFixed == [Next]_vars => who' = who
BY DEF Next, vars, static, requestVars, cacheVars, taskVars, sweepVars, RequestStep,
   FastHit, FastMiss, SpawnSweep, SweepPanics, ResolveLock, RecheckHit, RecheckMiss,
   Connected, ConnectFails, Finish, Cancel, CallAnswered, CallFailed, CallTask,
   TaskUnrouted, TakeForTask, RegisterTask, SweepStep, SweepConnections, SweepLocks, SweepEnds,
   UseTask, Reconcile, DrainToken, DrainConnections, Expire, UpstreamCloses, Quiet

LEMMA KeysFixed == [Next]_vars => KeyOf' = KeyOf
BY CallersFixed DEF KeyOf, Key

-----------------------------------------------------------------------------
\* Types.  A request that calls has a connection, and one that is about to
\* register a task has the connection it took for it.
PeerHeld ==
    \A r \in Requests : /\ pc[r] \in {"call", "task", "route"} => peer[r] # None
                        /\ pc[r] = "route" <=> taken[r] # None

Typed == TypeOK /\ PeerHeld

LEMMA TypedInit == Init => Typed
BY BoundsAssumption DEF Init, Typed, TypeOK, PeerHeld, Phases, Cached, NoRoute

LEMMA TypedNext == Typed /\ [Next]_vars => Typed'
<1> SUFFICES ASSUME Typed, [Next]_vars PROVE Typed'
    OBVIOUS
<1>k. KeyOf \in [Requests -> Keys]
    BY KeyOfType DEF Typed, TypeOK
<1> USE <1>k, KeyIs, BoundsAssumption, RequestsFinite
        DEF Typed, TypeOK, PeerHeld, Phases, Cached, static, requestVars, cacheVars,
            taskVars, sweepVars
<1>1. CASE UNCHANGED vars
    BY <1>1 DEF vars
<1>2. ASSUME NEW r \in Requests,
             FastHit(r) \/ SpawnSweep(r) \/ SweepPanics(r) \/ ResolveLock(r)
                \/ RecheckHit(r) \/ ConnectFails(r) \/ Finish(r) \/ Cancel(r)
      PROVE Typed'
    BY <1>2 DEF FastHit, SpawnSweep, SweepPanics, ResolveLock, RecheckHit,
       ConnectFails, Finish, Cancel, Usable
<1>3. ASSUME NEW r \in Requests,
             FastMiss(r) \/ RecheckMiss(r) \/ CallFailed(r)
      PROVE Typed'
    BY <1>3 DEF FastMiss, RecheckMiss, CallFailed, Evict, Done
<1>4. ASSUME NEW r \in Requests, Connected(r) PROVE Typed'
    BY <1>4 DEF Connected, Insert
<1>5. ASSUME NEW r \in Requests,
             CallAnswered(r) \/ CallTask(r) \/ TaskUnrouted(r)
      PROVE Typed'
    BY <1>5 DEF CallAnswered, CallTask, TaskUnrouted, Done
<1>6. ASSUME NEW r \in Requests, TakeForTask(r) \/ RegisterTask(r) PROVE Typed'
    BY <1>6 DEF TakeForTask, RegisterTask, Routed, Done, PruneTaskRoutes, Routes
<1>7. ASSUME NEW t \in Requests, SweepStep(t) PROVE Typed'
  <2>1. CASE SweepConnections(t)
    BY <2>1 DEF SweepConnections, Evict
  <2>2. CASE SweepLocks(t)
    BY <2>2 DEF SweepLocks
  <2>3. CASE SweepEnds(t)
    BY <2>3 DEF SweepEnds
  <2> QED
    BY <1>7, <2>1, <2>2, <2>3 DEF SweepStep
<1>8. CASE UseTask
    BY <1>8 DEF UseTask, PruneTaskRoutes, Routes
<1>9. CASE Reconcile \/ DrainToken \/ DrainConnections
    BY <1>9 DEF Reconcile, DrainToken, DrainConnections, Evict, Fault
<1>10. ASSUME NEW k \in Keys, Expire(k) PROVE Typed'
    BY <1>10 DEF Expire, Fault
<1>11. ASSUME NEW c \in Requests, UpstreamCloses(c) PROVE Typed'
    BY <1>11 DEF UpstreamCloses, Fault
<1> QED
    BY <1>1, <1>2, <1>3, <1>4, <1>5, <1>6, <1>7, <1>8, <1>9, <1>10, <1>11
       DEF Next, RequestStep, Quiet

-----------------------------------------------------------------------------
\* A connection is cached, and a lock is in the map, under the key of the request
\* that created it, and a request takes a connection of its own key for a task.
Names ==
    /\ \A k \in Keys : /\ cache[k] # None => KeyOf[cache[k]] = k
                       /\ locks[k] # None => KeyOf[locks[k]] = k
    /\ \A r \in Requests : taken[r] # None => KeyOf[taken[r]] = KeyOf[r]

\* A request that waits for its lock or has it holds a clone of the lock that the
\* map has under its key, no two requests have the mutex of one lock, and nothing
\* is cached under a key for which a connect is under way.
Gate ==
    /\ \A r \in Requests :
         /\ pc[r] \in Locked \cup {"wait"} <=> lockOf[r] # None
         /\ lockOf[r] # None => locks[KeyOf[r]] = lockOf[r]
         /\ pc[r] = "connect" => cache[KeyOf[r]] = None
    /\ \A r, s \in Requests :
         pc[r] \in Locked /\ pc[s] \in Locked /\ lockOf[r] = lockOf[s] => r = s

LEMMA MapHasOne ==
    ASSUME Names, NEW k \in Keys, locks[k] # None
    PROVE  Cardinality({j \in Keys : locks[j] = locks[k]}) = 1
<1>1. {j \in Keys : locks[j] = locks[k]} = {k}
    BY DEF Names
<1> QED
    BY <1>1, FS_Singleton

LEMMA ClonesAreNat ==
    ASSUME NEW l
    PROVE  /\ IsFiniteSet({r \in Requests : lockOf[r] = l})
           /\ Cardinality({r \in Requests : lockOf[r] = l}) \in Nat
<1>1. IsFiniteSet({r \in Requests : lockOf[r] = l})
    BY RequestsFinite, FS_Subset
<1> QED
    BY <1>1, FS_CardinalityType

\* One request with a clone, or two, beside the map.
LEMMA CountWithOne ==
    ASSUME Names, NEW k \in Keys, locks[k] # None,
           NEW r \in Requests, lockOf[r] = locks[k]
    PROVE  StrongCount(locks[k]) # 1
<1> DEFINE C == {q \in Requests : lockOf[q] = locks[k]}
<1>1. IsFiniteSet(C) /\ Cardinality(C) \in Nat
    BY ClonesAreNat
<1>2. Cardinality(C) # 0
    BY <1>1, FS_EmptySet
<1>3. Cardinality({j \in Keys : locks[j] = locks[k]}) = 1
    BY MapHasOne
<1> HIDE DEF C
<1>4. StrongCount(locks[k]) = 1 + Cardinality(C)
    BY <1>3 DEF StrongCount, C
<1> QED
    BY <1>1, <1>2, <1>4

LEMMA CountWithTwo ==
    ASSUME Names, NEW k \in Keys, locks[k] # None,
           NEW r \in Requests, lockOf[r] = locks[k],
           NEW s \in Requests, lockOf[s] = locks[k], r # s
    PROVE  ~(StrongCount(locks[k]) <= 2)
<1> DEFINE C == {q \in Requests : lockOf[q] = locks[k]}
<1>1. IsFiniteSet(C) /\ Cardinality(C) \in Nat
    BY ClonesAreNat
<1>2. IsFiniteSet(C \ {r}) /\ Cardinality(C \ {r}) = Cardinality(C) - 1
    BY <1>1, FS_RemoveElement
<1>e. C \ {r} # {}
    OBVIOUS
<1> HIDE DEF C
<1>3. Cardinality(C \ {r}) # 0 /\ Cardinality(C \ {r}) \in Nat
    BY <1>2, <1>e, FS_EmptySet, FS_CardinalityType
<1>4. Cardinality({j \in Keys : locks[j] = locks[k]}) = 1
    BY MapHasOne
<1>5. StrongCount(locks[k]) = 1 + Cardinality(C)
    BY <1>4 DEF StrongCount, C
<1> QED
    BY <1>1, <1>2, <1>3, <1>5

-----------------------------------------------------------------------------
GateInv == Typed /\ Names /\ Gate

LEMMA GateInit == Init => GateInv
BY TypedInit DEF GateInv, Init, Names, Gate, Locked

LEMMA GateNext == GateInv /\ [Next]_vars => GateInv'
<1> SUFFICES ASSUME GateInv, [Next]_vars PROVE Names' /\ Gate'
    BY TypedNext DEF GateInv
<1>a. /\ KeyOf \in [Requests -> Keys] /\ KeyOf' = KeyOf /\ None \notin Requests
      /\ pc \in [Requests -> Phases] /\ cache \in [Keys -> Requests \cup {None}]
      /\ locks \in [Keys -> Requests \cup {None}]
      /\ lockOf \in [Requests -> Requests \cup {None}]
      /\ taken \in [Requests -> Requests \cup {None}]
    BY KeyOfType, KeysFixed, RequestsFinite DEF GateInv, Typed, TypeOK
<1>b. Names /\ Gate
    BY DEF GateInv
<1> USE <1>a, <1>b, KeyIs DEF Names, Gate, Locked, static, requestVars, cacheVars,
        taskVars, sweepVars
<1>1. CASE UNCHANGED vars
    BY <1>1 DEF vars
<1>2. ASSUME NEW r \in Requests,
             FastHit(r) \/ SpawnSweep(r) \/ SweepPanics(r) \/ ConnectFails(r)
                \/ CallAnswered(r) \/ CallTask(r) \/ TaskUnrouted(r)
      PROVE Names' /\ Gate'
    BY <1>2 DEF FastHit, SpawnSweep, SweepPanics, ConnectFails, CallAnswered,
       CallTask, TaskUnrouted, Done
<1>3. ASSUME NEW r \in Requests, FastMiss(r) \/ CallFailed(r)
      PROVE Names' /\ Gate'
    BY <1>3 DEF FastMiss, CallFailed, Evict, Done
<1>4. ASSUME NEW r \in Requests, ResolveLock(r) PROVE Names' /\ Gate'
    BY <1>4 DEF ResolveLock
<1>5. ASSUME NEW r \in Requests, RecheckHit(r) \/ RecheckMiss(r)
      PROVE Names' /\ Gate'
    BY <1>5 DEF RecheckHit, RecheckMiss, MutexFree, Evict, Usable
<1>6. ASSUME NEW r \in Requests, Connected(r) PROVE Names' /\ Gate'
    BY <1>6 DEF Connected, Insert
<1>7. ASSUME NEW r \in Requests, Finish(r) PROVE Names' /\ Gate'
  <2>1. ASSUME NEW s \in Requests, s # r, lockOf[s] # None
        PROVE locks'[KeyOf[s]] = lockOf[s]
    BY <1>7, <2>1, CountWithTwo DEF Finish
  <2> QED
    BY <1>7, <2>1 DEF Finish
<1>8. ASSUME NEW r \in Requests, Cancel(r) PROVE Names' /\ Gate'
    BY <1>8 DEF Cancel
<1>9. ASSUME NEW r \in Requests, TakeForTask(r) \/ RegisterTask(r)
      PROVE Names' /\ Gate'
    BY <1>9 DEF TakeForTask, RegisterTask, Done
<1>10. ASSUME NEW t \in Requests, SweepStep(t) PROVE Names' /\ Gate'
  <2>1. CASE SweepConnections(t) \/ SweepEnds(t)
    BY <2>1 DEF SweepConnections, SweepEnds, Evict
  <2>2. CASE SweepLocks(t)
    <3>1. ASSUME NEW s \in Requests, lockOf[s] # None
          PROVE KeyOf[s] \notin Orphans
      BY <3>1, CountWithOne DEF Orphans
    <3> QED
      BY <2>2, <3>1 DEF SweepLocks
  <2> QED
    BY <1>10, <2>1, <2>2 DEF SweepStep
<1>11. CASE UseTask \/ Reconcile \/ DrainToken \/ DrainConnections
    BY <1>11 DEF UseTask, Reconcile, DrainToken, DrainConnections, Evict
<1>12. ASSUME NEW k \in Keys, Expire(k) PROVE Names' /\ Gate'
    BY <1>12 DEF Expire
<1>13. ASSUME NEW c \in Requests, UpstreamCloses(c) PROVE Names' /\ Gate'
    BY <1>13 DEF UpstreamCloses
<1> QED
    BY <1>1, <1>2, <1>3, <1>4, <1>5, <1>6, <1>7, <1>8, <1>9, <1>10, <1>11, <1>12,
       <1>13
       DEF Next, RequestStep, Quiet

LEMMA GateAlways == Spec => []GateInv
BY GateInit, GateNext, PTL DEF Spec

LEMMA GateGivesSingleFlight == GateInv => SingleFlight
BY KeyIs DEF GateInv, Gate, SingleFlight, Locked

\* The state stays within its types; in particular every task route keeps a
\* connection and only cached connections are idle.
THEOREM TypesHold == Spec => []TypeOK
<1>1. GateInv => TypeOK
    BY DEF GateInv, Typed
<1> QED
    BY <1>1, GateAlways, PTL

\* However lock entries are removed by returning requests and by the sweep loop,
\* two connects for one key are never under way (connection.rs:385-394, 461-463).
THEOREM SingleFlightHolds == Spec => []SingleFlight
BY GateAlways, GateGivesSingleFlight, PTL

-----------------------------------------------------------------------------
\* Identity.

LEMMA CallerParts ==
    ASSUME who \in Casts, NEW r \in Requests, NEW c \in Requests, Key(c) = Key(r),
           Relayed(r) => who[c].caps = who[r].caps
    PROVE  who[c] = who[r]
<1>1. who[c] \in Callers /\ who[r] \in Callers
    BY CastsAssumption
<1>2. who[c].session = who[r].session /\ who[c].subject = who[r].subject
    BY DEF Key
<1>3. CASE Relayed(r)
  <2>1. who[c] \in RelayCallers /\ who[r] \in RelayCallers
    BY <1>1, <1>2, <1>3 DEF Relayed, Callers, SubjectCallers
  <2> QED
    BY <1>2, <1>3, <2>1 DEF RelayCallers
<1>4. CASE ~Relayed(r)
  <2>1. who[c] \in SubjectCallers /\ who[r] \in SubjectCallers
    BY <1>1, <1>2, <1>4, SessionsAssumption DEF Relayed, Callers, RelayCallers
  <2> QED
    BY <1>2, <2>1 DEF SubjectCallers
<1> QED
    BY <1>3, <1>4

\* What a request finds in the cache was opened for its own caller, ...
LEMMA HitIsOwn ==
    ASSUME GateInv, NEW r \in Requests, Usable(r)
    PROVE  cache[Key(r)] \in Requests /\ who[cache[Key(r)]] = who[r]
<1>1. Key(r) \in Keys /\ who \in Casts /\ cache \in [Keys -> Requests \cup {None}]
    BY KeyOfType, KeyIs DEF GateInv, Typed, TypeOK
<1>2. cache[Key(r)] \in Requests /\ Key(cache[Key(r)]) = Key(r)
    BY <1>1, KeyIs DEF GateInv, Names, Usable
<1> QED
    BY <1>1, <1>2, CallerParts DEF Usable

\* ... and what it takes for a task at least for its session and subject.
LEMMA TakenIsLike ==
    ASSUME GateInv, NEW r \in Requests, taken[r] # None
    PROVE  /\ taken[r] \in Requests
           /\ who[taken[r]].session = who[r].session
           /\ who[taken[r]].subject = who[r].subject
<1>1. taken \in [Requests -> Requests \cup {None}]
    BY DEF GateInv, Typed, TypeOK
<1>2. taken[r] \in Requests /\ Key(taken[r]) = Key(r)
    BY <1>1, KeyIs DEF GateInv, Names
<1> QED
    BY <1>2 DEF Key

LEMMA IdentityNext == GateInv /\ IdentityKept /\ [Next]_vars => IdentityKept'
<1> SUFFICES ASSUME GateInv, IdentityKept, [Next]_vars PROVE IdentityKept'
    OBVIOUS
<1>a. /\ who' = who /\ None \notin Requests
      /\ peer \in [Requests -> Requests \cup {None}]
      /\ route \in [Requests -> [keeps : Requests, made : Requests] \cup {NoRoute}]
    BY CallersFixed, RequestsFinite DEF GateInv, Typed, TypeOK
<1> USE <1>a DEF IdentityKept, Routes, static, requestVars, cacheVars, taskVars,
        sweepVars
<1>1. CASE UNCHANGED vars
    BY <1>1 DEF vars
<1>2. ASSUME NEW r \in Requests, FastHit(r) \/ RecheckHit(r)
      PROVE IdentityKept'
    BY <1>2, HitIsOwn DEF FastHit, RecheckHit
<1>3. ASSUME NEW r \in Requests,
             FastMiss(r) \/ SpawnSweep(r) \/ SweepPanics(r) \/ ResolveLock(r)
                \/ RecheckMiss(r) \/ ConnectFails(r) \/ Finish(r) \/ CallTask(r)
                \/ TakeForTask(r)
      PROVE IdentityKept'
    BY <1>3 DEF FastMiss, SpawnSweep, SweepPanics, ResolveLock, RecheckMiss,
       ConnectFails, Finish, CallTask, TakeForTask
<1>4. ASSUME NEW r \in Requests,
             Connected(r) \/ Cancel(r) \/ CallAnswered(r) \/ CallFailed(r)
                \/ TaskUnrouted(r)
      PROVE IdentityKept'
    BY <1>4 DEF Connected, Cancel, CallAnswered, CallFailed, TaskUnrouted, Done
<1>5. ASSUME NEW r \in Requests, RegisterTask(r) PROVE IdentityKept'
  <2>1. taken[r] # None
    BY <1>5 DEF RegisterTask, GateInv, Typed, PeerHeld
  <2>2. /\ who[taken[r]].session = who[r].session
        /\ who[taken[r]].subject = who[r].subject
    BY <2>1, TakenIsLike
  <2> QED
    BY <1>5, <2>2 DEF RegisterTask, Routed, Done
<1>6. ASSUME NEW t \in Requests, SweepStep(t) \/ UpstreamCloses(t)
      PROVE IdentityKept'
    BY <1>6 DEF SweepStep, SweepConnections, SweepLocks, SweepEnds, UpstreamCloses
<1>7. CASE UseTask
    BY <1>7 DEF UseTask
<1>8. CASE Reconcile \/ DrainToken \/ DrainConnections \/ \E k \in Keys : Expire(k)
    BY <1>8 DEF Reconcile, DrainToken, DrainConnections, Expire
<1> QED
    BY <1>1, <1>2, <1>3, <1>4, <1>5, <1>6, <1>7, <1>8 DEF Next, RequestStep, Quiet

\* A request is only ever given a connection that was opened for its own caller,
\* and a task route only keeps one of its session and subject (relay.rs:15-28,
\* 1256-1258).
THEOREM IdentityHolds == Spec => []IdentityKept
<1>1. Init => IdentityKept
    BY DEF Init, IdentityKept, Routes
<1> QED
    BY <1>1, IdentityNext, GateAlways, PTL DEF Spec

-----------------------------------------------------------------------------
\* Bounds.

LEMMA CachedFinite ==
    ASSUME GateInv, NEW K \in SUBSET Keys PROVE IsFiniteSet(Cached(K))
<1> DEFINE f == [k \in Cached(K) |-> cache[k]]
<1>1. cache \in [Keys -> Requests \cup {None}] /\ Names
    BY DEF GateInv, Typed, TypeOK
<1>2. f \in [Cached(K) -> Requests]
    BY <1>1 DEF Cached
<1>3. \A j, k \in Cached(K) : f[j] = f[k] => j = k
    BY <1>1 DEF Cached, Names
<1>4. f \in Injection(Cached(K), Requests)
    BY <1>2, <1>3 DEF Injection, IsInjective
<1> QED
    BY <1>4, RequestsFinite, FS_Injection

LEMMA KeysDisjoint == RelayKeys \cap SubjectKeys = {}
BY SessionsAssumption DEF RelayKeys, SubjectKeys

LEMMA KeyLike ==
    ASSUME who \in Casts, NEW r \in Requests
    PROVE  Key(r) \in KeysLike(r)
<1>1. who[r] \in Callers
    BY CastsAssumption
<1> QED
    BY <1>1, SessionsAssumption DEF Callers, RelayCallers, SubjectCallers, Key,
       KeysLike, Relayed, RelayKeys, SubjectKeys

\* What Victims leaves has room for one more.
LEMMA VictimsLeaveRoom ==
    ASSUME NEW S, IsFiniteSet(S), NEW V \in SUBSET S,
           \/ Cardinality(S) - (Cap - 1) <= 0 /\ V = {}
           \/ Cardinality(S) - (Cap - 1) > 0
                /\ Cardinality(V) = Cardinality(S) - (Cap - 1)
           \/ Cardinality(S) - (Cap - 1) > Cardinality(S) /\ V = S,
           NEW k
    PROVE  Cardinality((S \ V) \cup {k}) <= Cap
<1>1. Cardinality(S) \in Nat /\ Cap \in Nat \ {0}
    BY FS_CardinalityType, BoundsAssumption
<1>2. S \cap V = V
    OBVIOUS
<1>3. IsFiniteSet(S \ V) /\ Cardinality(S \ V) = Cardinality(S) - Cardinality(V)
    BY <1>2, FS_Difference
<1> DEFINE left == S \ V
<1>4. IsFiniteSet(left) /\ Cardinality(left) \in Nat
    BY <1>3, FS_CardinalityType
<1>5. V = {} => Cardinality(V) = 0
    BY FS_EmptySet
<1>6. Cardinality(left) <= Cap - 1
    BY <1>1, <1>3, <1>4, <1>5
<1> HIDE DEF left
<1>7. /\ Cardinality(left \cup {k}) \in Nat
      /\ Cardinality(left \cup {k}) = IF k \in left THEN Cardinality(left)
                                       ELSE Cardinality(left) + 1
    BY <1>4, FS_AddElement, FS_CardinalityType
<1>8. Cardinality(left \cup {k}) <= Cap
    BY <1>1, <1>4, <1>6, <1>7
<1> QED
    BY <1>8 DEF left

\* A cache that only loses entries stays within its cap.
Shrinks == \A k \in Keys : cache'[k] # None => cache[k] # None

LEMMA ShrinkKeepsBound ==
    ASSUME GateInv, NEW K \in SUBSET Keys, Cardinality(Cached(K)) <= Cap, Shrinks
    PROVE  Cardinality(Cached(K)') <= Cap
<1>1. IsFiniteSet(Cached(K)) /\ Cardinality(Cached(K)) \in Nat
    BY CachedFinite, FS_CardinalityType
<1>2. Cached(K)' \in SUBSET Cached(K)
    BY DEF Cached, Shrinks
<1>3. Cardinality(Cached(K)') <= Cardinality(Cached(K))
    BY <1>1, <1>2, FS_Subset
<1>4. Cardinality(Cached(K)') \in Nat /\ Cap \in Nat
    BY <1>1, <1>2, FS_Subset, FS_CardinalityType, BoundsAssumption
<1> QED
    BY <1>1, <1>3, <1>4

LEMMA OnlyConnectedInserts ==
    ASSUME GateInv, [Next]_vars, \A r \in Requests : ~Connected(r)
    PROVE  Shrinks
<1>1. KeyOf \in [Requests -> Keys] /\ cache \in [Keys -> Requests \cup {None}]
    BY KeyOfType DEF GateInv, Typed, TypeOK
<1> USE <1>1, KeyIs DEF Shrinks, static, requestVars, cacheVars, taskVars, sweepVars
<1>2. CASE UNCHANGED cache
    BY <1>2
<1>3. ASSUME NEW K, Evict(K) PROVE Shrinks
    BY <1>3 DEF Evict
<1>4. ASSUME NEW r \in Requests, RequestStep(r) PROVE Shrinks
  <2>1. CASE FastMiss(r) \/ RecheckMiss(r) \/ CallFailed(r)
    BY <2>1, <1>3 DEF FastMiss, RecheckMiss, CallFailed
  <2>2. CASE TakeForTask(r)
    BY <2>2 DEF TakeForTask
  <2>3. CASE \/ FastHit(r) \/ SpawnSweep(r) \/ SweepPanics(r) \/ ResolveLock(r)
             \/ RecheckHit(r) \/ ConnectFails(r) \/ Finish(r) \/ Cancel(r)
             \/ CallAnswered(r) \/ CallTask(r) \/ TaskUnrouted(r) \/ RegisterTask(r)
    BY <2>3, <1>2 DEF FastHit, SpawnSweep, SweepPanics, ResolveLock, RecheckHit,
       ConnectFails, Finish, Cancel, CallAnswered, CallTask, TaskUnrouted, RegisterTask
  <2> QED
    BY <1>4, <2>1, <2>2, <2>3 DEF RequestStep
<1>5. ASSUME NEW t \in Requests, SweepStep(t) \/ UpstreamCloses(t) PROVE Shrinks
    BY <1>2, <1>3, <1>5 DEF SweepStep, SweepConnections, SweepLocks, SweepEnds,
       UpstreamCloses
<1>6. CASE \/ UseTask \/ Reconcile \/ DrainToken \/ DrainConnections
           \/ \E k \in Keys : Expire(k)
    BY <1>2, <1>3, <1>6 DEF UseTask, Reconcile, DrainToken, DrainConnections, Expire
<1> QED
    BY <1>2, <1>4, <1>5, <1>6 DEF Next, Quiet, vars

\* The insertion of a connection: its own cache has room, the other is unchanged.
LEMMA ConnectedKeepsBound ==
    ASSUME GateInv, NEW r \in Requests, Connected(r), NEW K \in {RelayKeys, SubjectKeys},
           Cardinality(Cached(K)) <= Cap
    PROVE  Cardinality(Cached(K)') <= Cap
<1>1. PICK V \in Victims(r, Cap - 1) : Insert(r, V)
    BY DEF Connected
<1>2. /\ who \in Casts /\ cache \in [Keys -> Requests \cup {None}]
      /\ Key(r) \in Keys /\ cache[Key(r)] = None /\ None \notin Requests
  <2>1. pc[r] = "connect"
    BY DEF Connected
  <2> QED
    BY <2>1, KeyOfType, KeyIs, RequestsFinite DEF GateInv, Gate, Typed, TypeOK
<1>3. Key(r) \in KeysLike(r) /\ KeysLike(r) \in {RelayKeys, SubjectKeys}
    BY <1>2, KeyLike DEF KeysLike
<1>4. K \subseteq Keys
    BY DEF Keys
<1> DEFINE here == Cached(KeysLike(r))
<1>5. V \in SUBSET here /\ here \ {Key(r)} = here
    BY <1>2 DEF Victims, Cached
<1>6. CASE K = KeysLike(r)
  <2>1. Cached(K)' = (here \ V) \cup {Key(r)}
    BY <1>1, <1>2, <1>3, <1>4, <1>5, <1>6 DEF Insert, Cached
  <2>2. IsFiniteSet(here)
    BY <1>4, <1>6, CachedFinite
  <2>3. \/ Cardinality(here) - (Cap - 1) <= 0 /\ V = {}
        \/ Cardinality(here) - (Cap - 1) > 0
             /\ Cardinality(V) = Cardinality(here) - (Cap - 1)
        \/ Cardinality(here) - (Cap - 1) > Cardinality(here) /\ V = here
    BY <1>5 DEF Victims
  <2> HIDE DEF here
  <2> QED
    BY <1>5, <2>1, <2>2, <2>3, VictimsLeaveRoom
<1>7. CASE K # KeysLike(r)
  <2>1. Key(r) \notin K /\ V \cap K = {}
    BY <1>3, <1>5, <1>7, KeysDisjoint DEF Cached
  <2>2. Cached(K)' = Cached(K)
    BY <1>1, <1>2, <1>4, <2>1 DEF Insert, Cached
  <2> QED
    BY <2>2
<1> QED
    BY <1>6, <1>7

LEMMA RoutesBounded ==
    ASSUME GateInv, [Next]_vars, Cardinality(Routes) <= TaskCap
    PROVE  Cardinality(Routes') <= TaskCap
<1>1. /\ route \in [Requests -> [keeps : Requests, made : Requests] \cup {NoRoute}]
      /\ TaskCap \in Nat \ {0}
    BY BoundsAssumption DEF GateInv, Typed, TypeOK
<1>2. Routes \subseteq Requests /\ IsFiniteSet(Routes)
    BY RequestsFinite, FS_Subset DEF Routes
<1>3. ASSUME NEW r \in Requests, NEW keep \in SUBSET Routes,
             Cardinality(keep) < TaskCap, Routes' \in SUBSET (keep \cup {r})
      PROVE Cardinality(Routes') <= TaskCap
  <2>1. IsFiniteSet(keep) /\ Cardinality(keep) \in Nat
    BY <1>2, FS_Subset, FS_CardinalityType
  <2> DEFINE more == keep \cup {r}
  <2>2. IsFiniteSet(more) /\ Cardinality(more) <= TaskCap
    BY <1>1, <1>3, <2>1, FS_AddElement
  <2>3. Cardinality(more) \in Nat
    BY <2>2, FS_CardinalityType
  <2> HIDE DEF more
  <2>4. Routes' \in SUBSET more
    BY <1>3 DEF more
  <2>5. IsFiniteSet(Routes') /\ Cardinality(Routes') <= Cardinality(more)
    BY <2>2, <2>4, FS_Subset
  <2>6. Cardinality(Routes') \in Nat
    BY <2>5, FS_CardinalityType
  <2> QED
    BY <1>1, <2>2, <2>3, <2>5, <2>6
<1>4. CASE \E r \in Requests : RegisterTask(r)
  <2>1. PICK r \in Requests : RegisterTask(r)
    BY <1>4
  <2>2. PICK keep \in SUBSET Routes :
            Cardinality(keep) < TaskCap /\ route' = Routed(r, keep)
    BY <2>1 DEF RegisterTask, PruneTaskRoutes
  <2>3. Routes' \in SUBSET (keep \cup {r})
    BY <2>2 DEF Routes, Routed
  <2> QED
    BY <1>3, <2>2, <2>3
<1>5. CASE UseTask
  <2>1. PICK keep \in SUBSET Routes :
            /\ Cardinality(keep) < TaskCap
            /\ route' = [q \in Requests |-> IF q \in keep THEN route[q] ELSE NoRoute]
    BY <1>5 DEF UseTask, PruneTaskRoutes
  <2>2. Routes' \in SUBSET keep
    BY <2>1 DEF Routes
  <2>3. PICK r \in Requests : TRUE
    BY <1>2, <1>5 DEF UseTask
  <2> QED
    BY <1>3, <2>1, <2>2, <2>3
<1>6. CASE UNCHANGED route
    BY <1>6 DEF Routes
<1>7. (\E r \in Requests : RegisterTask(r)) \/ UseTask \/ UNCHANGED route
    BY DEF Next, vars, static, requestVars, cacheVars, taskVars, sweepVars, RequestStep,
       FastHit, FastMiss, SpawnSweep, SweepPanics, ResolveLock, RecheckHit,
       RecheckMiss, Connected, ConnectFails, Finish, Cancel, CallAnswered,
       CallFailed, CallTask, TaskUnrouted, TakeForTask, SweepStep, SweepConnections,
       SweepLocks, SweepEnds, Reconcile, DrainToken, DrainConnections, Expire, UpstreamCloses,
       Quiet
<1> QED
    BY <1>4, <1>5, <1>6, <1>7

LEMMA BoundNext == GateInv /\ CacheBound /\ [Next]_vars => CacheBound'
<1> SUFFICES ASSUME GateInv, CacheBound, [Next]_vars PROVE CacheBound'
    OBVIOUS
<1>1. ASSUME NEW K \in {RelayKeys, SubjectKeys} PROVE Cardinality(Cached(K)') <= Cap
  <2>1. Cardinality(Cached(K)) <= Cap /\ K \in SUBSET Keys
    BY DEF CacheBound, Keys
  <2> QED
    BY <2>1, OnlyConnectedInserts, ShrinkKeepsBound, ConnectedKeepsBound
<1>2. Cardinality(Routes') <= TaskCap
    BY RoutesBounded DEF CacheBound
<1>3. Cardinality(Cached(RelayKeys)') <= Cap /\ Cardinality(Cached(SubjectKeys)') <= Cap
    BY <1>1
<1>4. RelayKeys' = RelayKeys /\ SubjectKeys' = SubjectKeys
    BY DEF RelayKeys, SubjectKeys
<1> QED
    BY <1>2, <1>3, <1>4 DEF CacheBound, Cached

\* Neither cache ever holds more than SUBJECT_CONN_MAX_ENTRIES connections, nor
\* task_routes more than TASK_ROUTE_MAX_ENTRIES routes (connection.rs:355-357,
\* tasks.rs:42-56).
THEOREM CacheBoundHolds == Spec => []CacheBound
<1>1. Init => CacheBound
  <2> SUFFICES ASSUME Init PROVE CacheBound
    OBVIOUS
  <2>1. Cached(SubjectKeys) = {} /\ Cached(RelayKeys) = {} /\ Routes = {}
    BY DEF Init, Cached, Routes, Keys
  <2> QED
    BY <2>1, FS_EmptySet, BoundsAssumption DEF CacheBound
<1> QED
    BY <1>1, BoundNext, GateAlways, PTL DEF Spec

-----------------------------------------------------------------------------
\* Ownership.  A request that has not connected yet owns nothing, an open
\* connection has an owner, and no two entries own one connection.
Early == {"new", "armed", "resolve", "wait", "connect"}

\* Nothing holds the connection c.
Free(c) ==
    /\ \A k \in Keys : cache[k] # c
    /\ \A q \in Requests : taken[q] # c /\ route[q].keeps # c

OwnersDiffer ==
    /\ \A p, q \in Requests :
         /\ taken[p] # None /\ taken[p] = taken[q] => p = q
         /\ route[p].keeps # None /\ route[p].keeps = route[q].keeps => p = q
         /\ taken[p] # None => route[q].keeps # taken[p]
    /\ \A k \in Keys, q \in Requests :
         cache[k] # None => taken[q] # cache[k] /\ route[q].keeps # cache[k]

Owned ==
    /\ \A r \in Requests : /\ pc[r] # "done" => route[r] = NoRoute
                           /\ pc[r] \in Early => Free(r)
    /\ \A c \in open : ~Free(c)
    /\ OwnersDiffer

LEMMA OwnedNext == GateInv /\ Owned /\ [Next]_vars => Owned'
<1> SUFFICES ASSUME GateInv, Owned, [Next]_vars PROVE Owned'
    OBVIOUS
<1>a. /\ KeyOf \in [Requests -> Keys] /\ None \notin Requests
      /\ pc \in [Requests -> Phases] /\ cache \in [Keys -> Requests \cup {None}]
      /\ taken \in [Requests -> Requests \cup {None}]
      /\ open \subseteq Requests
      /\ route \in [Requests -> [keeps : Requests, made : Requests] \cup {NoRoute}]
    BY KeyOfType, RequestsFinite DEF GateInv, Typed, TypeOK
<1>b. \A j, k \in Keys : cache[j] # None /\ cache[j] = cache[k] => j = k
    BY DEF GateInv, Names
<1>c. Keys' = Keys
    BY DEF Keys, RelayKeys, SubjectKeys
<1>d. \A r \in Requests : pc[r] = "route" <=> taken[r] # None
    BY DEF GateInv, Typed, PeerHeld
<1> USE <1>a, <1>b, <1>c, KeyIs DEF Owned, OwnersDiffer, Free, Early, NoRoute, static,
        requestVars, cacheVars, taskVars, sweepVars
<1>1. CASE UNCHANGED vars
    BY <1>1 DEF vars
<1>2. ASSUME NEW r \in Requests,
             FastHit(r) \/ SpawnSweep(r) \/ SweepPanics(r) \/ ResolveLock(r)
                \/ RecheckHit(r) \/ ConnectFails(r) \/ Finish(r)
                \/ CallAnswered(r) \/ CallTask(r) \/ TaskUnrouted(r)
      PROVE Owned'
  <2>1. /\ UNCHANGED << cacheVars, taskVars >>
        /\ pc[r] # "done" /\ \E x \in Phases : pc' = [pc EXCEPT ![r] = x]
        /\ pc'[r] \in Early => pc[r] \in Early
    BY <1>2 DEF FastHit, SpawnSweep, SweepPanics, ResolveLock, RecheckHit,
       ConnectFails, Finish, CallAnswered, CallTask, TaskUnrouted, Done, Phases
  <2>2. \A q \in Requests : /\ pc'[q] # "done" => pc[q] # "done"
                            /\ pc'[q] \in Early => pc[q] \in Early
    BY <2>1
  <2> QED
    BY <2>1, <2>2
<1>3. ASSUME NEW K, Evict(K), UNCHANGED taskVars,
             \A r \in Requests : /\ pc'[r] # "done" => pc[r] # "done"
                                 /\ pc'[r] \in Early => pc[r] \in Early
      PROVE Owned'
  <2>1. \A k \in Keys : cache'[k] = IF k \in K THEN None ELSE cache[k]
    BY <1>3 DEF Evict
  <2>2. \A c \in open' : c \in open /\ \A k \in Keys : cache[k] = c => k \notin K
    BY <1>3 DEF Evict, Conns, Cached
  <2>3. ASSUME NEW q \in Requests
        PROVE /\ pc'[q] # "done" => route'[q] = NoRoute
              /\ pc'[q] \in Early => Free(q)'
    BY <1>3, <2>1
  <2>4. ASSUME NEW c \in open' PROVE ~Free(c)'
    BY <1>3, <2>1, <2>2
  <2>5. OwnersDiffer'
    BY <1>3, <2>1
  <2> QED
    BY <2>3, <2>4, <2>5
<1>4. ASSUME NEW r \in Requests, FastMiss(r) \/ RecheckMiss(r) \/ CallFailed(r)
      PROVE Owned'
  <2>1. Evict({Key(r)}) /\ UNCHANGED taskVars
    BY <1>4 DEF FastMiss, RecheckMiss, CallFailed
  <2>2. \A q \in Requests : /\ pc'[q] # "done" => pc[q] # "done"
                            /\ pc'[q] \in Early => pc[q] \in Early
    BY <1>4 DEF FastMiss, RecheckMiss, CallFailed, Done
  <2> QED
    BY <1>3, <2>1, <2>2
<1>5. ASSUME NEW r \in Requests, Connected(r) PROVE Owned'
  <2>1. PICK V : Insert(r, V)
    BY <1>5 DEF Connected
  <2>2. pc[r] = "connect" /\ pc' = [pc EXCEPT ![r] = "finish"] /\ UNCHANGED taskVars
    BY <1>5 DEF Connected
  <2>3. /\ \A k \in Keys : cache'[k] = IF k = KeyOf[r] THEN r
                                       ELSE IF k \in V THEN None ELSE cache[k]
        /\ \A c \in open' \ {r} :
             c \in open /\ \A k \in Keys : cache[k] = c => k \notin V /\ k # KeyOf[r]
    BY <2>1 DEF Insert, Conns, Cached
  <2>4. ASSUME NEW q \in Requests
        PROVE /\ pc'[q] # "done" => route'[q] = NoRoute
              /\ pc'[q] \in Early => Free(q)'
    BY <2>2, <2>3
  <2>5. ASSUME NEW c \in open' PROVE ~Free(c)'
    BY <2>2, <2>3
  <2>6. OwnersDiffer'
    BY <2>2, <2>3
  <2> QED
    BY <2>4, <2>5, <2>6
<1>12. ASSUME NEW r \in Requests, Cancel(r) PROVE Owned'
  <2>1. /\ pc' = [pc EXCEPT ![r] = "done"] /\ UNCHANGED << cache, route >>
        /\ taken' = [taken EXCEPT ![r] = None] /\ open' = open \ {taken[r]}
    BY <1>12 DEF Cancel
  <2>2. \A q \in Requests : /\ pc'[q] # "done" => pc[q] # "done"
                            /\ pc'[q] \in Early => pc[q] \in Early
                            /\ taken'[q] = IF q = r THEN None ELSE taken[q]
    BY <2>1
  <2>3. ASSUME NEW q \in Requests
        PROVE /\ pc'[q] # "done" => route'[q] = NoRoute
              /\ pc'[q] \in Early => Free(q)'
    BY <2>1, <2>2
  <2>4. ASSUME NEW c \in open' PROVE ~Free(c)'
    BY <2>1, <2>2
  <2>5. OwnersDiffer'
    BY <2>1, <2>2
  <2> QED
    BY <2>3, <2>4, <2>5
<1>13. ASSUME NEW r \in Requests, TakeForTask(r) PROVE Owned'
  <2>1. /\ pc[r] = "task" /\ pc' = [pc EXCEPT ![r] = "route"]
        /\ cache[KeyOf[r]] # None /\ UNCHANGED << open, route >>
        /\ taken' = [taken EXCEPT ![r] = cache[KeyOf[r]]]
        /\ cache' = [cache EXCEPT ![KeyOf[r]] = None]
    BY <1>13 DEF TakeForTask
  <2>2. /\ \A k \in Keys : cache'[k] = IF k = KeyOf[r] THEN None ELSE cache[k]
        /\ \A q \in Requests :
             /\ taken'[q] = IF q = r THEN cache[KeyOf[r]] ELSE taken[q]
             /\ pc'[q] # "done" => pc[q] # "done"
             /\ pc'[q] \in Early => pc[q] \in Early
    BY <2>1
  <2>3. ASSUME NEW q \in Requests
        PROVE /\ pc'[q] # "done" => route'[q] = NoRoute
              /\ pc'[q] \in Early => Free(q)'
    BY <2>1, <2>2
  <2>4. ASSUME NEW c \in open' PROVE ~Free(c)'
    <3>1. CASE \E k \in Keys : cache[k] = c
      <4>1. PICK k \in Keys : cache[k] = c
        BY <3>1
      <4>2. k # KeyOf[r] => cache'[k] = c
        BY <2>2, <4>1
      <4>3. k = KeyOf[r] => taken'[r] = c
        BY <2>2, <4>1
      <4> QED
        BY <4>2, <4>3
    <3>2. CASE \E q \in Requests : taken[q] = c
      <4>1. PICK q \in Requests : taken[q] = c
        BY <3>2
      <4>2. c # None /\ pc[q] = "route"
        BY <2>1, <4>1, <1>d
      <4> QED
        BY <2>1, <2>2, <4>1, <4>2
    <3>3. CASE \E q \in Requests : route[q].keeps = c
      BY <2>1, <3>3
    <3> QED
      BY <2>1, <3>1, <3>2, <3>3
  <2>5. OwnersDiffer'
    BY <2>1, <2>2
  <2> QED
    BY <2>3, <2>4, <2>5
<1>6. ASSUME NEW r \in Requests, RegisterTask(r) PROVE Owned'
  <2>1. PICK keep \in SUBSET Routes :
            /\ route' = Routed(r, keep)
            /\ open' = open \ {route[q].keeps : q \in Routes \ keep}
    BY <1>6 DEF RegisterTask
  <2>2. /\ pc[r] = "route" /\ pc' = [pc EXCEPT ![r] = "done"]
        /\ taken[r] # None /\ UNCHANGED cache
        /\ taken' = [taken EXCEPT ![r] = None]
    BY <1>6, <1>d DEF RegisterTask, Done
  <2>3. /\ route'[r].keeps = taken[r]
        /\ \A q \in Requests \ {r} :
             route'[q].keeps = IF q \in keep THEN route[q].keeps ELSE None
        /\ \A q \in Requests \ {r} : route'[q] # NoRoute => route'[q] = route[q]
    BY <2>1 DEF Routed
  <2>4. \A q \in Requests : taken'[q] = IF q = r THEN None ELSE taken[q]
    BY <2>2
  <2>5. \A c \in open' : /\ c \in open
                         /\ \A q \in Requests : route[q].keeps = c => q \in keep
    BY <2>1 DEF Routes
  <2>6. route[r] = NoRoute /\ r \notin keep
    BY <2>2, <2>1 DEF Routes
  <2>7. ASSUME NEW q \in Requests
        PROVE /\ pc'[q] # "done" => route'[q] = NoRoute
              /\ pc'[q] \in Early => Free(q)'
    BY <2>2, <2>3, <2>4
  <2>8. ASSUME NEW c \in open' PROVE ~Free(c)'
    <3>1. CASE \E k \in Keys : cache[k] = c
      BY <2>2, <3>1
    <3>2. CASE \E q \in Requests : taken[q] = c
      BY <2>3, <2>4, <3>2
    <3>3. CASE \E q \in Requests : route[q].keeps = c
      BY <2>3, <2>5, <2>6, <3>3
    <3> QED
      BY <2>5, <3>1, <3>2, <3>3
  <2>9. OwnersDiffer'
    BY <2>2, <2>3, <2>4
  <2> QED
    BY <2>7, <2>8, <2>9
<1>7. ASSUME NEW t \in Requests, SweepStep(t) PROVE Owned'
  <2>1. CASE SweepConnections(t)
    BY <1>3, <2>1 DEF SweepConnections
  <2>2. CASE SweepLocks(t) \/ SweepEnds(t)
    BY <2>2 DEF SweepLocks, SweepEnds
  <2> QED
    BY <1>7, <2>1, <2>2 DEF SweepStep
<1>8. CASE UseTask
    BY <1>8 DEF UseTask, Routes
<1>9. CASE Reconcile \/ DrainConnections
    BY <1>3, <1>9 DEF Reconcile, DrainConnections
<1>10. CASE DrainToken \/ \E k \in Keys : Expire(k)
    BY <1>10 DEF DrainToken, Expire
<1>11. ASSUME NEW c \in Requests, UpstreamCloses(c) PROVE Owned'
    BY <1>11 DEF UpstreamCloses
<1> QED
    BY <1>1, <1>2, <1>4, <1>5, <1>6, <1>7, <1>8, <1>9, <1>10, <1>11, <1>12, <1>13
       DEF Next, RequestStep, Quiet

LEMMA OwnedGivesOneOwner == GateInv /\ Owned => OneOwner
<1> DEFINE InCache(c) == {k \in Keys : cache[k] = c}
           Held(c) == {r \in Requests : taken[r] = c}
           Tasks(c) == {r \in Routes : route[r].keeps = c}
<1> SUFFICES ASSUME GateInv, Owned, NEW c \in open
             PROVE  Cardinality(InCache(c)) + Cardinality(Held(c))
                        + Cardinality(Tasks(c)) = 1
    BY DEF OneOwner
<1>1. c # None /\ c \in Requests
    BY RequestsFinite DEF GateInv, Typed, TypeOK
<1>2. Cardinality({}) = 0 /\ \A x : Cardinality({x}) = 1
    BY FS_EmptySet, FS_Singleton
<1>3. CASE \E k \in Keys : cache[k] = c
  <2>1. PICK k \in Keys : cache[k] = c
    BY <1>3
  <2>2. InCache(c) = {k} /\ Held(c) = {} /\ Tasks(c) = {}
    BY <1>1, <2>1 DEF Owned, OwnersDiffer, GateInv, Names, Routes
  <2>c. /\ Cardinality(InCache(c)) = 1 /\ Cardinality(Held(c)) = 0
        /\ Cardinality(Tasks(c)) = 0
    BY <1>2, <2>2
  <2> HIDE DEF InCache, Held, Tasks
  <2> QED
    BY <2>c
<1>4. CASE \E q \in Requests : taken[q] = c
  <2>1. PICK q \in Requests : taken[q] = c
    BY <1>4
  <2>2. InCache(c) = {} /\ Held(c) = {q} /\ Tasks(c) = {}
    BY <1>1, <2>1 DEF Owned, OwnersDiffer, Routes
  <2>c. /\ Cardinality(InCache(c)) = 0 /\ Cardinality(Held(c)) = 1
        /\ Cardinality(Tasks(c)) = 0
    BY <1>2, <2>2
  <2> HIDE DEF InCache, Held, Tasks
  <2> QED
    BY <2>c
<1>5. CASE \E q \in Requests : route[q].keeps = c
  <2>1. PICK q \in Requests : route[q].keeps = c
    BY <1>5
  <2>2. q \in Routes
    BY <1>1, <2>1 DEF Routes, NoRoute
  <2>3. InCache(c) = {} /\ Held(c) = {} /\ Tasks(c) = {q}
    BY <1>1, <2>1, <2>2 DEF Owned, OwnersDiffer, Routes
  <2>c. /\ Cardinality(InCache(c)) = 0 /\ Cardinality(Held(c)) = 0
        /\ Cardinality(Tasks(c)) = 1
    BY <1>2, <2>3
  <2> HIDE DEF InCache, Held, Tasks
  <2> QED
    BY <2>c
<1> QED
    BY <1>3, <1>4, <1>5 DEF Owned, Free

\* Every open connection has exactly one owner that will close it, a cache entry, a
\* task route or the request that moves it from one to the other, whatever is
\* evicted, moved, cancelled or pruned in which order.
THEOREM OneOwnerHolds == Spec => []OneOwner
<1>1. Init => Owned
    BY RequestsFinite DEF Init, Owned, OwnersDiffer, Free, NoRoute, Early
<1> QED
    BY <1>1, OwnedNext, OwnedGivesOneOwner, GateAlways, PTL DEF Spec

-----------------------------------------------------------------------------
\* ConnectionCache implements KeyedCache: a miss found under the mutex opens, a
\* successful connect stores, a failed or cancelled one gives up, and every other
\* step forgets connections or none.

\* The requests that are opening a connection for a key, as KeyedCache sees them.
Opener == [k \in Keys |-> {r \in Requests : pc[r] = "connect" /\ Key(r) = k}]

LEMMA OpenerIs == Opener = [k \in Keys |-> {r \in Requests : pc[r] = "connect" /\ KeyOf[r] = k}]
BY KeyIs DEF Opener

LEMMA OpenerNext ==
    [Next]_vars => Opener' = [k \in Keys |->
                               {r \in Requests : pc'[r] = "connect" /\ KeyOf[r] = k}]
BY CallersFixed DEF Opener, Key, KeyOf, Keys, RelayKeys, SubjectKeys

\* A step that moves no request to or from "connect".
LEMMA SameOpener ==
    ASSUME [Next]_vars, \A r \in Requests : pc'[r] = "connect" <=> pc[r] = "connect"
    PROVE  Opener' = Opener
BY OpenerIs, OpenerNext

LEMMA AbstractKeys == Abstract!Keys = Keys
BY DEF Abstract!Keys, Keys

\* KeyedCache's copy of Cardinality is Cardinality.
LEMMA AbstractCardinality == \A S : Abstract!Cardinality(S) = Cardinality(S)
BY DEF Abstract!Cardinality, Cardinality

LEMMA ForgetStep ==
    ASSUME Shrinks, Opener' = Opener
    PROVE  Abstract!Forget
<1>1. Cached(Keys)' \in SUBSET Cached(Keys)
    BY DEF Shrinks, Cached, Keys, RelayKeys, SubjectKeys
<1> QED
    BY <1>1 DEF Abstract!Forget, Opener

LEMMA OpenStep ==
    ASSUME GateInv, [Next]_vars, NEW r \in Requests, RecheckMiss(r)
    PROVE  Abstract!Open(Key(r), r)
<1>1. /\ KeyOf \in [Requests -> Keys] /\ pc \in [Requests -> Phases]
      /\ cache \in [Keys -> Requests \cup {None}]
    BY KeyOfType DEF GateInv, Typed, TypeOK
<1>2. \A s \in Requests : pc[s] = "connect" => KeyOf[s] # KeyOf[r]
    BY <1>1 DEF GateInv, Gate, Locked, RecheckMiss, MutexFree
<1>3. Opener[Key(r)] = {}
    BY <1>1, <1>2, OpenerIs, KeyIs
<1>4. Opener' = [Opener EXCEPT ![Key(r)] = {r}]
  <2>1. ASSUME NEW k \in Keys
        PROVE Opener'[k] = IF k = Key(r) THEN {r} ELSE Opener[k]
    <3>1. Opener[k] = {s \in Requests : pc[s] = "connect" /\ KeyOf[s] = k}
      BY OpenerIs
    <3>2. Opener'[k] = {s \in Requests : pc'[s] = "connect" /\ KeyOf[s] = k}
      BY OpenerNext
    <3>3. Key(r) = KeyOf[r] /\ pc[r] # "connect" /\ pc' = [pc EXCEPT ![r] = "connect"]
      BY KeyIs DEF RecheckMiss
    <3> QED
      BY <1>1, <1>2, <3>1, <3>2, <3>3
  <2> QED
    BY <2>1, OpenerIs, OpenerNext
<1>5. Cached(Keys)' = Cached(Keys) \ {Key(r)}
    BY <1>1, KeyIs DEF RecheckMiss, Evict, Cached, Keys, RelayKeys, SubjectKeys
<1> QED
    BY <1>3, <1>4, <1>5 DEF Abstract!Open, Opener

LEMMA LeaveConnect ==
    ASSUME GateInv, [Next]_vars, NEW r \in Requests, pc[r] = "connect",
           NEW x \in Phases \ {"connect"}, pc' = [pc EXCEPT ![r] = x]
    PROVE  Opener[Key(r)] = {r} /\ Opener' = [Opener EXCEPT ![Key(r)] = {}]
<1>1. KeyOf \in [Requests -> Keys] /\ pc \in [Requests -> Phases]
    BY KeyOfType DEF GateInv, Typed, TypeOK
<1>2. \A s \in Requests : pc[s] = "connect" /\ KeyOf[s] = KeyOf[r] => s = r
    BY GateGivesSingleFlight, KeyIs DEF SingleFlight
<1>3. Opener[Key(r)] = {r}
    BY <1>1, <1>2, OpenerIs, KeyIs
<1>4. Opener' = [Opener EXCEPT ![Key(r)] = {}]
  <2>1. ASSUME NEW k \in Keys
        PROVE Opener'[k] = IF k = Key(r) THEN {} ELSE Opener[k]
    <3>1. Opener[k] = {s \in Requests : pc[s] = "connect" /\ KeyOf[s] = k}
      BY OpenerIs
    <3>2. Opener'[k] = {s \in Requests : pc'[s] = "connect" /\ KeyOf[s] = k}
      BY OpenerNext
    <3>3. Key(r) = KeyOf[r] /\ x # "connect" /\ pc' = [pc EXCEPT ![r] = x]
      BY KeyIs DEF Phases
    <3> QED
      BY <1>1, <1>2, <3>1, <3>2, <3>3
  <2> QED
    BY <2>1, OpenerIs, OpenerNext
<1> QED
    BY <1>3, <1>4

LEMMA StoreStep ==
    ASSUME GateInv, CacheBound', [Next]_vars, NEW r \in Requests, Connected(r)
    PROVE  Abstract!Store(Key(r), r)
<1>1. /\ cache \in [Keys -> Requests \cup {None}] /\ Key(r) \in Keys
      /\ None \notin Requests
    BY KeyOfType, KeyIs, RequestsFinite DEF GateInv, Typed, TypeOK
<1>2. pc[r] = "connect" /\ pc' = [pc EXCEPT ![r] = "finish"]
    BY DEF Connected
<1>3. Opener[Key(r)] = {r} /\ Opener' = [Opener EXCEPT ![Key(r)] = {}]
    BY <1>2, LeaveConnect DEF Phases
<1>4. Key(r) \notin Cached(Keys)
    BY <1>2, KeyIs DEF GateInv, Gate, Cached
<1>5. PICK V : Insert(r, V)
    BY DEF Connected
<1>6. Cached(Keys)' = (Cached(Keys) \ V) \cup {Key(r)}
    BY <1>1, <1>4, <1>5 DEF Insert, Cached, Keys, RelayKeys, SubjectKeys
<1>7. /\ Cached(Keys)' \cap SubjectKeys = Cached(SubjectKeys)'
      /\ Cached(Keys)' \cap RelayKeys = Cached(RelayKeys)'
    BY DEF Cached, Keys, RelayKeys, SubjectKeys
<1>8. Abstract!WithinCap(Cached(Keys)')
    BY <1>7, AbstractCardinality DEF Abstract!WithinCap, CacheBound
<1> QED
    BY <1>3, <1>4, <1>6, <1>8 DEF Abstract!Store, Opener

LEMMA AbstractStep ==
    GateInv /\ CacheBound' /\ [Next]_vars => [Abstract!Next]_(Abstract!cacheVars)
<1> SUFFICES ASSUME GateInv, CacheBound', [Next]_vars PROVE Abstract!Next
    OBVIOUS
<1>a. /\ pc \in [Requests -> Phases]
      /\ \A r \in Requests : Key(r) \in Abstract!Keys
    BY KeyOfType, KeyIs, AbstractKeys DEF GateInv, Typed, TypeOK
<1>1. ASSUME NEW r \in Requests, RecheckMiss(r) PROVE Abstract!Next
    BY <1>1, <1>a, OpenStep DEF Abstract!Next, Abstract!Open
<1>2. ASSUME NEW r \in Requests, Connected(r) PROVE Abstract!Next
    BY <1>2, <1>a, StoreStep DEF Abstract!Next, Abstract!Store
<1>3. ASSUME NEW r \in Requests, pc[r] = "connect", ConnectFails(r) \/ Cancel(r)
      PROVE Abstract!Next
  <2>1. /\ UNCHANGED cache
        /\ \E x \in Phases \ {"connect"} : pc' = [pc EXCEPT ![r] = x]
    BY <1>3 DEF ConnectFails, Cancel, cacheVars, Phases
  <2>2. Opener[Key(r)] = {r} /\ Opener' = [Opener EXCEPT ![Key(r)] = {}]
    BY <1>3, <2>1, LeaveConnect
  <2>3. Cached(Keys)' = Cached(Keys)
    BY <2>1 DEF Cached, Keys, RelayKeys, SubjectKeys
  <2>4. Abstract!GiveUp(Key(r), r)
    BY <2>2, <2>3 DEF Abstract!GiveUp, Opener
  <2> QED
    BY <1>a, <2>4 DEF Abstract!Next, Abstract!GiveUp
<1>4. CASE /\ \A r \in Requests : ~RecheckMiss(r) /\ ~Connected(r)
           /\ \A r \in Requests : pc[r] = "connect" => ~ConnectFails(r) /\ ~Cancel(r)
  <2>1. \A r \in Requests : pc'[r] = "connect" <=> pc[r] = "connect"
    BY <1>4, <1>a DEF Next, vars, static, requestVars, cacheVars, taskVars, sweepVars,
       RequestStep,
       FastHit, FastMiss, SpawnSweep, SweepPanics, ResolveLock, RecheckHit,
       ConnectFails, Finish, Cancel, CallAnswered,
       CallFailed, CallTask, TaskUnrouted, TakeForTask, RegisterTask, Done, SweepStep,
       SweepConnections, SweepLocks, SweepEnds, UseTask, Reconcile, DrainToken,
       DrainConnections, Expire, UpstreamCloses, Quiet
  <2>2. Opener' = Opener
    BY <2>1, SameOpener
  <2>3. Abstract!Forget
    BY <1>4, <2>2, OnlyConnectedInserts, ForgetStep
  <2> QED
    BY <2>3 DEF Abstract!Next
<1> QED
    BY <1>1, <1>2, <1>3, <1>4

\* The two caches with their lock maps, lock pruning, sweep loop and drain behave
\* as caches that open one connection per key at a time, never overwrite one and
\* never exceed their cap.
THEOREM CacheRefines == Spec => ImplementsKeyedCache
<1>1. Init => Abstract!Init
  <2> SUFFICES ASSUME Init PROVE Abstract!Init
    OBVIOUS
  <2>1. Cached(Keys) = {} /\ Opener = [k \in Keys |-> {}]
    BY DEF Init, Cached, Opener
  <2> QED
    BY <2>1, AbstractKeys DEF Abstract!Init, Opener
<1> QED
    BY <1>1, AbstractStep, GateAlways, CacheBoundHolds, PTL
       DEF Spec, ImplementsKeyedCache, Abstract!Spec
=============================================================================
