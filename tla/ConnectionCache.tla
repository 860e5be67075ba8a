--------------------------- MODULE ConnectionCache ---------------------------
(* The caches of dedicated upstream connections of one upstream in one pool:   *)
(* subject_connections, keyed by OAuth subject, and relay_connections, keyed   *)
(* by downstream session and subject.  A request takes a cached connection or  *)
(* opens one under a lock of its key that lives in a map of its own, uses it   *)
(* for one call, and a call that answers with a task moves the connection out  *)
(* of the cache into the route of that task.  A sweep loop prunes both caches  *)
(* and both lock maps; reconciliation and the drain empty the caches.          *)
(*                                                                             *)
(* A connection and a lock are named by the request that created them; a       *)
(* request runs once.                                                          *)
EXTENDS Integers, FiniteSets

CONSTANTS
    Requests,  \* requests for a dedicated connection
    Sessions,  \* downstream sessions
    Subjects,  \* OAuth subjects; None, the raw path, may be one
    Caps,      \* sets of client capabilities
    Casts,     \* who may make the requests: functions from Requests to Callers
    Cap,       \* SUBJECT_CONN_MAX_ENTRIES
    TaskCap,   \* TASK_ROUTE_MAX_ENTRIES
    MaxFaults, \* bound on the events of the environment
    None

\* The caller of a request: a downstream session with the capabilities it
\* declares and, unless the request is raw, a subject; or, on the subject path,
\* a subject alone.
RelayCallers == [session : Sessions, subject : Subjects, caps : Caps]
SubjectCallers == [session : {None}, subject : Subjects \ {None}, caps : {None}]
Callers == RelayCallers \cup SubjectCallers

ASSUME RequestsFinite == IsFiniteSet(Requests) /\ None \notin Requests
ASSUME SessionsAssumption == None \notin Sessions
ASSUME CastsAssumption == Casts \subseteq [Requests -> Callers]
ASSUME BoundsAssumption ==
    Cap \in Nat \ {0} /\ TaskCap \in Nat \ {0} /\ MaxFaults \in Nat

VARIABLES
    who,      \* request -> its caller
    pc,       \* where a request is
    cache,    \* key -> the connection cached under it
    idle,     \* keys whose entry was last used SUBJECT_CONN_IDLE_TTL ago or more
    locks,    \* key -> the lock in subject_connect_locks or relay_connect_locks
    lockOf,   \* request -> the lock whose Arc it has cloned
    peer,     \* request -> the connection it was given, until it is done
    open,     \* connections whose transport is open
    taken,    \* request -> the connection it has taken out of the cache for a task
    route,    \* request -> the entry of its task in task_routes
    slot,     \* subject_sweep_task: the token of the sweep loop
    sweeper,  \* token -> where the sweep loop with that token is
    drain,    \* where drain_for_swap is
    faults    \* events of the environment so far

vars == << who, pc, cache, idle, locks, lockOf, peer, open, taken, route, slot,
           sweeper, drain, faults >>
requestVars == << pc, lockOf, peer >>
cacheVars == << cache, idle, open >>
taskVars == << taken, route >>
sweepVars == << slot, sweeper, drain >>
static == << who, faults >>

-----------------------------------------------------------------------------
\* The key of a caller's connection, without the upstream's name, which is the
\* same for all: << None, subject >> in subject_connections, and
\* << session, subject >> in relay_connections.
\* Mutant of Key: the relay cache is keyed by the session alone.
Relayed(r) == who[r].session # None

KeyNoSubject(r) ==
    << who[r].session, IF Relayed(r) THEN None ELSE who[r].subject >>

Key(r) == << who[r].session, who[r].subject >>

RelayKeys == Sessions \X Subjects
SubjectKeys == {None} \X (Subjects \ {None})
Keys == RelayKeys \cup SubjectKeys
KeysLike(r) == IF Relayed(r) THEN RelayKeys ELSE SubjectKeys

Cached(K) == {k \in K : cache[k] # None}
Conns(K) == {cache[k] : k \in Cached(K)}

\* An entry of task_routes: the connection it keeps, and the one the task was
\* created on.
NoRoute == [keeps |-> None, made |-> None]
Routes == {r \in Requests : route[r] # NoRoute}
Kept == {route[r].keeps : r \in Routes}

\* Arc::strong_count: the map's clones and the requests' clones.
StrongCount(l) ==
    Cardinality({k \in Keys : locks[k] = l})
        + Cardinality({r \in Requests : lockOf[r] = l})

\* A request that has the mutex of its lock.
Locked == {"connect", "finish"}
MutexFree(l) == \A r \in Requests : lockOf[r] = l => pc[r] \notin Locked

\* A cached entry serves a request while it is fresh and, on the relay path,
\* while its transport is open and it was opened with the same capabilities.
Usable(r) ==
    /\ cache[Key(r)] # None
    /\ Key(r) \notin idle
    /\ Relayed(r) =>
         /\ cache[Key(r)] \in open
         /\ who[cache[Key(r)]].caps = who[r].caps

\* Entries of K leave the cache and their connections are shut down or dropped.
Evict(K) ==
    /\ cache' = [k \in Keys |-> IF k \in K THEN None ELSE cache[k]]
    /\ idle' = idle \ K
    /\ open' = open \ Conns(K)

\* An event of the environment, of which there are at most MaxFaults.
Fault == faults < MaxFaults /\ faults' = faults + 1

Init ==
    /\ who \in Casts
    /\ pc = [r \in Requests |-> "new"]
    /\ cache = [k \in Keys |-> None]
    /\ idle = {}
    /\ locks = [k \in Keys |-> None]
    /\ lockOf = [r \in Requests |-> None]
    /\ peer = [r \in Requests |-> None]
    /\ open = {}
    /\ taken = [r \in Requests |-> None]
    /\ route = [r \in Requests |-> NoRoute]
    /\ slot = None
    /\ sweeper = [r \in Requests |-> "off"]
    /\ drain = "serving"
    /\ faults = 0

-----------------------------------------------------------------------------
\* acquire_or_connect_subject and acquire_or_connect_relay

\* The fast path, under the cache's write lock: a usable entry is returned.
FastHit(r) ==
    /\ pc[r] = "new"
    /\ Usable(r)
    /\ peer' = [peer EXCEPT ![r] = cache[Key(r)]]
    /\ pc' = [pc EXCEPT ![r] = "call"]
    /\ UNCHANGED << cacheVars, locks, lockOf, taskVars, sweepVars, static >>

\* Any other entry is removed; ensure_subject_sweep_task puts a token into its
\* slot unless there is one ...
FastMiss(r) ==
    /\ pc[r] = "new"
    /\ ~Usable(r)
    /\ Evict({Key(r)})
    /\ \/ /\ slot # None
          /\ pc' = [pc EXCEPT ![r] = "resolve"]
          /\ UNCHANGED slot
       \/ /\ slot = None
          /\ slot' = r
          /\ pc' = [pc EXCEPT ![r] = "armed"]
    /\ UNCHANGED << locks, lockOf, peer, taskVars, sweeper, drain, static >>

\* ... and reads it back to start the loop.
SpawnSweep(r) ==
    /\ pc[r] = "armed"
    /\ slot # None
    /\ sweeper' = [sweeper EXCEPT ![slot] = IF @ = "off" THEN "sleep" ELSE @]
    /\ pc' = [pc EXCEPT ![r] = "resolve"]
    /\ UNCHANGED << cacheVars, locks, lockOf, peer, taskVars, slot, drain, static >>

\* A drain has taken the token meanwhile: expect("sweep token just inserted")
\* panics and the request is lost.
SweepPanics(r) ==
    /\ pc[r] = "armed"
    /\ slot = None
    /\ pc' = [pc EXCEPT ![r] = "done"]
    /\ UNCHANGED << cacheVars, locks, lockOf, peer, taskVars, sweepVars, static >>

\* Clone the lock of the key out of the map, inserting one if there is none.
ResolveLock(r) ==
    /\ pc[r] = "resolve"
    /\ LET l == IF locks[Key(r)] = None THEN r ELSE locks[Key(r)]
       IN  /\ locks' = [locks EXCEPT ![Key(r)] = l]
           /\ lockOf' = [lockOf EXCEPT ![r] = l]
    /\ pc' = [pc EXCEPT ![r] = "wait"]
    /\ UNCHANGED << cacheVars, peer, taskVars, sweepVars, static >>

\* With the mutex, look again: another waiter may have connected.
RecheckHit(r) ==
    /\ pc[r] = "wait"
    /\ MutexFree(lockOf[r])
    /\ Usable(r)
    /\ peer' = [peer EXCEPT ![r] = cache[Key(r)]]
    /\ pc' = [pc EXCEPT ![r] = "finish"]
    /\ UNCHANGED << cacheVars, locks, lockOf, taskVars, sweepVars, static >>

\* Without a usable entry, connect.
RecheckMiss(r) ==
    /\ pc[r] = "wait"
    /\ MutexFree(lockOf[r])
    /\ ~Usable(r)
    /\ Evict({Key(r)})
    /\ pc' = [pc EXCEPT ![r] = "connect"]
    /\ UNCHANGED << locks, lockOf, peer, taskVars, sweepVars, static >>

\* evict_lru_over_cap: the entries that must go for the cache to have at most
\* max entries, never the protected one.  Which ones is left open: the clock
\* that orders them is not modelled.
Victims(r, max) ==
    LET here == Cached(KeysLike(r))
        over == Cardinality(here) - max
        free == here \ {Key(r)}
    IN  {V \in SUBSET free :
            \/ over <= 0 /\ V = {}
            \/ over > 0 /\ Cardinality(V) = over
            \/ over > Cardinality(free) /\ V = free}

\* The new connection is inserted, and the victims are shut down.
Insert(r, V) ==
    /\ cache' = [k \in Keys |-> IF k = Key(r) THEN r
                                ELSE IF k \in V THEN None ELSE cache[k]]
    /\ idle' = idle \ (V \cup {Key(r)})
    /\ open' = (open \ Conns(V \cup {Key(r)})) \cup {r}

\* Mutant of Connected: room is made for the cap, not for one less.
ConnectedLateEvict(r) ==
    /\ pc[r] = "connect"
    /\ \E V \in Victims(r, Cap) : Insert(r, V)
    /\ peer' = [peer EXCEPT ![r] = r]
    /\ pc' = [pc EXCEPT ![r] = "finish"]
    /\ UNCHANGED << locks, lockOf, taskVars, sweepVars, static >>

\* The connect succeeds; room is made below the cap before the insertion.
Connected(r) ==
    /\ pc[r] = "connect"
    /\ \E V \in Victims(r, Cap - 1) : Insert(r, V)
    /\ peer' = [peer EXCEPT ![r] = r]
    /\ pc' = [pc EXCEPT ![r] = "finish"]
    /\ UNCHANGED << locks, lockOf, taskVars, sweepVars, static >>

\* The connect fails, or on the relay path the cancellation sender cannot be
\* built and the new connection is shut down.
ConnectFails(r) ==
    /\ pc[r] = "connect"
    /\ pc' = [pc EXCEPT ![r] = "finish"]
    /\ UNCHANGED << cacheVars, locks, lockOf, peer, taskVars, sweepVars, static >>

\* Return: on the subject path the lock entry goes when the map and this request
\* have the only clones; the mutex and the clone are released.
Finish(r) ==
    /\ pc[r] = "finish"
    /\ locks' = IF ~Relayed(r) /\ locks[Key(r)] # None
                     /\ StrongCount(locks[Key(r)]) <= 2
                  THEN [locks EXCEPT ![Key(r)] = None] ELSE locks
    /\ lockOf' = [lockOf EXCEPT ![r] = None]
    /\ pc' = [pc EXCEPT ![r] = IF peer[r] = None THEN "done" ELSE "call"]
    /\ UNCHANGED << cacheVars, peer, taskVars, sweepVars, static >>

\* The caller goes away at an await: the guard and the clone are dropped, and so
\* are a connection that is not in the cache yet and one that was taken out of it
\* for a task.  The lock entry stays.
Cancel(r) ==
    /\ pc[r] \notin {"new", "done"}
    /\ pc' = [pc EXCEPT ![r] = "done"]
    /\ lockOf' = [lockOf EXCEPT ![r] = None]
    /\ peer' = [peer EXCEPT ![r] = None]
    /\ taken' = [taken EXCEPT ![r] = None]
    /\ open' = open \ {taken[r]}
    /\ UNCHANGED << cache, idle, locks, route, sweepVars, static >>

-----------------------------------------------------------------------------
\* The call on the connection, and tasks

Done(r) ==
    /\ pc' = [pc EXCEPT ![r] = "done"]
    /\ peer' = [peer EXCEPT ![r] = None]

\* The upstream answers, with a result or an error of the protocol; or the call
\* never gets past the concurrency gate.
CallAnswered(r) ==
    /\ pc[r] = "call"
    /\ Done(r)
    /\ UNCHANGED << cacheVars, locks, lockOf, taskVars, sweepVars, static >>

\* A transport failure or a timeout evicts what is cached under the key now.
CallFailed(r) ==
    /\ pc[r] = "call"
    /\ Evict({Key(r)})
    /\ Done(r)
    /\ UNCHANGED << locks, lockOf, taskVars, sweepVars, static >>

\* A relayed tool call answers with a task.
CallTask(r) ==
    /\ pc[r] = "call"
    /\ Relayed(r)
    /\ peer[r] \in open
    /\ pc' = [pc EXCEPT ![r] = "task"]
    /\ UNCHANGED << cacheVars, locks, lockOf, peer, taskVars, sweepVars, static >>

\* prune_task_routes: routes of closed connections and routes idle for a day go,
\* then the oldest ones until there is room for one more.
PruneTaskRoutes(keep) ==
    /\ \A r \in keep : route[r].keeps \in open
    /\ Cardinality(keep) < TaskCap

\* Mutant of TaskUnrouted: a route without a connection.
TaskUnroutedKept(r) ==
    /\ pc[r] = "task"
    /\ cache[Key(r)] = None
    /\ route' = [route EXCEPT ![r] = [keeps |-> cache[Key(r)], made |-> peer[r]]]
    /\ Done(r)
    /\ UNCHANGED << cacheVars, locks, lockOf, taken, sweepVars, static >>

\* register_task_response without a cached connection: the native task id is
\* returned as it is.
TaskUnrouted(r) ==
    /\ pc[r] = "task"
    /\ cache[Key(r)] = None
    /\ Done(r)
    /\ UNCHANGED << cacheVars, locks, lockOf, taskVars, sweepVars, static >>

\* register_task_response: the connection cached under the key of the call is taken
\* out of the cache; the notifications that wait for the task's name are sent ...
TakeForTask(r) ==
    /\ pc[r] = "task"
    /\ cache[Key(r)] # None
    /\ taken' = [taken EXCEPT ![r] = cache[Key(r)]]
    /\ cache' = [cache EXCEPT ![Key(r)] = None]
    /\ idle' = idle \ {Key(r)}
    /\ pc' = [pc EXCEPT ![r] = "route"]
    /\ UNCHANGED << open, locks, lockOf, peer, route, sweepVars, static >>

\* The route of r's task, beside the routes in keep.
Routed(r, keep) ==
    [q \in Requests |-> IF q = r THEN [keeps |-> taken[r], made |-> peer[r]]
                        ELSE IF q \in keep THEN route[q] ELSE NoRoute]

\* Mutant of RegisterTask: the connections of pruned routes are not closed.
RegisterTaskLeaks(r) ==
    /\ pc[r] = "route"
    /\ \E keep \in SUBSET Routes : PruneTaskRoutes(keep) /\ route' = Routed(r, keep)
    /\ taken' = [taken EXCEPT ![r] = None]
    /\ Done(r)
    /\ UNCHANGED << cacheVars, locks, lockOf, sweepVars, static >>

\* ... and it is put into the route of the task.
RegisterTask(r) ==
    /\ pc[r] = "route"
    /\ \E keep \in SUBSET Routes :
          /\ PruneTaskRoutes(keep)
          /\ route' = Routed(r, keep)
          /\ open' = open \ {route[q].keeps : q \in Routes \ keep}
    /\ taken' = [taken EXCEPT ![r] = None]
    /\ Done(r)
    /\ UNCHANGED << cache, idle, locks, lockOf, sweepVars, static >>

\* tasks/get, tasks/update and tasks/cancel prune the routes before they look
\* theirs up.
UseTask ==
    /\ Routes # {}
    /\ \E keep \in SUBSET Routes :
          /\ PruneTaskRoutes(keep)
          /\ route' = [q \in Requests |-> IF q \in keep THEN route[q] ELSE NoRoute]
          /\ open' = open \ {route[q].keeps : q \in Routes \ keep}
    /\ UNCHANGED << requestVars, cache, idle, locks, taken, sweepVars, static >>

-----------------------------------------------------------------------------
\* The sweep loop with token t.  Its two caches are disjoint, so both are swept
\* in one step, and then both lock maps.

\* The interval elapses: expired entries go, and relay entries whose transport
\* is closed.
SweepConnections(t) ==
    /\ sweeper[t] = "sleep"
    /\ Evict(idle \cup {k \in Cached(RelayKeys) : cache[k] \notin open})
    /\ sweeper' = [sweeper EXCEPT ![t] = "locks"]
    /\ UNCHANGED << requestVars, locks, taskVars, slot, drain, static >>

\* Mutant of Orphans: a lock without a cached connection is an orphan, whoever
\* has a clone of it.
OrphansReferenced == {k \in Keys : locks[k] # None /\ cache[k] = None}

\* Locks that gate no cached connection and that nobody else references.
Orphans ==
    {k \in Keys : locks[k] # None /\ cache[k] = None /\ StrongCount(locks[k]) = 1}

SweepLocks(t) ==
    /\ sweeper[t] = "locks"
    /\ locks' = [k \in Keys |-> IF k \in Orphans THEN None ELSE locks[k]]
    /\ sweeper' = [sweeper EXCEPT ![t] = "sleep"]
    /\ UNCHANGED << requestVars, cacheVars, taskVars, slot, drain, static >>

\* The token was cancelled: the loop ends at its next select.
SweepEnds(t) ==
    /\ sweeper[t] = "sleep"
    /\ slot # t
    /\ sweeper' = [sweeper EXCEPT ![t] = "off"]
    /\ UNCHANGED << requestVars, cacheVars, locks, taskVars, slot, drain, static >>

-----------------------------------------------------------------------------
\* reconcile_lazy_upstreams evicts the connections of the upstream.
Reconcile ==
    /\ Cached(Keys) # {}
    /\ Evict(Keys)
    /\ Fault
    /\ UNCHANGED << requestVars, locks, taskVars, sweepVars, who >>

\* drain_for_swap takes and cancels the sweep token, then empties the caches.
DrainToken ==
    /\ drain = "serving"
    /\ slot' = None
    /\ drain' = "draining"
    /\ Fault
    /\ UNCHANGED << requestVars, cacheVars, locks, taskVars, sweeper, who >>

DrainConnections ==
    /\ drain = "draining"
    /\ Evict(Keys)
    /\ drain' = "drained"
    /\ UNCHANGED << requestVars, locks, taskVars, slot, sweeper, static >>

\* The environment: an entry is unused for the TTL; an upstream closes a
\* connection.
Expire(k) ==
    /\ cache[k] # None /\ k \notin idle
    /\ idle' = idle \cup {k}
    /\ Fault
    /\ UNCHANGED << requestVars, cache, open, locks, taskVars, sweepVars, who >>

UpstreamCloses(c) ==
    /\ c \in open
    /\ open' = open \ {c}
    /\ Fault
    /\ UNCHANGED << requestVars, cache, idle, locks, taskVars, sweepVars, who >>

-----------------------------------------------------------------------------
RequestStep(r) ==
    \/ FastHit(r) \/ FastMiss(r) \/ SpawnSweep(r) \/ SweepPanics(r)
    \/ ResolveLock(r) \/ RecheckHit(r) \/ RecheckMiss(r)
    \/ Connected(r) \/ ConnectFails(r) \/ Finish(r) \/ Cancel(r)
    \/ CallAnswered(r) \/ CallFailed(r) \/ CallTask(r)
    \/ TaskUnrouted(r) \/ TakeForTask(r) \/ RegisterTask(r)

SweepStep(t) == SweepConnections(t) \/ SweepLocks(t) \/ SweepEnds(t)

\* A pool without requests may have nothing left to do.
Quiet == (\A r \in Requests : pc[r] = "done") /\ UNCHANGED vars

Next ==
    \/ \E r \in Requests : RequestStep(r) \/ SweepStep(r) \/ UpstreamCloses(r)
    \/ UseTask \/ Reconcile \/ DrainToken \/ DrainConnections
    \/ \E k \in Keys : Expire(k)
    \/ Quiet

Spec == Init /\ [][Next]_vars

-----------------------------------------------------------------------------
\* Properties

Phases == {"new", "armed", "resolve", "wait", "connect", "finish", "call", "task",
           "route", "done"}

TypeOK ==
    /\ who \in Casts
    /\ pc \in [Requests -> Phases]
    /\ cache \in [Keys -> Requests \cup {None}]
    /\ idle \subseteq Cached(Keys)
    /\ locks \in [Keys -> Requests \cup {None}]
    /\ lockOf \in [Requests -> Requests \cup {None}]
    /\ peer \in [Requests -> Requests \cup {None}]
    /\ open \subseteq Requests
    /\ taken \in [Requests -> Requests \cup {None}]
    /\ route \in [Requests -> [keeps : Requests, made : Requests] \cup {NoRoute}]
    /\ slot \in Requests \cup {None}
    /\ sweeper \in [Requests -> {"off", "sleep", "locks"}]
    /\ drain \in {"serving", "draining", "drained"}
    /\ faults \in 0 .. MaxFaults

\* At most one connect per key is under way, although lock entries are removed
\* while requests come and go (connection.rs:392-400 and 453-455: a lock is
\* "never pruned out from under a single-flight gate").
SingleFlight ==
    \A r, s \in Requests :
        pc[r] = "connect" /\ pc[s] = "connect" /\ Key(r) = Key(s) => r = s

\* A request is only given, and a task only keeps, a connection opened for the
\* same subject and, on the relay path, by the same downstream session; a call
\* never runs on a connection that declared other capabilities (relay.rs:15-28
\* and 1248-1251).
IdentityKept ==
    \A r \in Requests :
        /\ peer[r] # None => who[peer[r]] = who[r]
        /\ r \in Routes => /\ who[route[r].keeps].session = who[r].session
                           /\ who[route[r].keeps].subject = who[r].subject

\* Neither the caches nor the task routes outgrow their caps, whichever requests
\* insert at the same time (connection.rs:366-371, tasks.rs:42-57).
CacheBound ==
    /\ Cardinality(Cached(SubjectKeys)) <= Cap
    /\ Cardinality(Cached(RelayKeys)) <= Cap
    /\ Cardinality(Routes) <= TaskCap

\* An open connection has exactly one owner that will close it: one cache entry,
\* one task route, or one request that is moving it from one to the other.
OneOwner ==
    \A c \in open :
        Cardinality({k \in Keys : cache[k] = c})
            + Cardinality({r \in Requests : taken[r] = c})
            + Cardinality({r \in Routes : route[r].keeps = c}) = 1

\* The route of a task leads to the connection that created the task
\* (tasks.rs:60-62: "The relay connection that created the task is moved out of
\* the general relay cache and retained for the task lifecycle").
TaskOnItsConnection == \A r \in Routes : route[r].keeps = route[r].made

\* The caches implement KeyedCache: locks and lock maps are invisible.  SingleFlight
\* follows, as no key of a KeyedCache has two openers.
Abstract == INSTANCE KeyedCache WITH
    Openers <- Requests,
    cached <- Cached(Keys),
    opener <- [k \in Keys |-> {r \in Requests : pc[r] = "connect" /\ Key(r) = k}]

ImplementsKeyedCache == Abstract!Spec

=============================================================================
