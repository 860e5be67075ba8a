------------------------ MODULE GatewayManagerProofs ------------------------
(* Proofs about GatewayManager, for every set of tasks, names, specifications, *)
(* casts and starting configurations.                                          *)
EXTENDS GatewayManager, SequenceTheorems, TLAPS

-----------------------------------------------------------------------------
\* Configurations and catalogues

LEMMA ServedType == \A v : Served(v) \in Specs \cup {Absent}
BY DEF Served

\* Of two entries the first is served.
LEMMA ServedTwice == \A e \in Entries : Served(<< e, Off >>) = Served(e)
<1> SUFFICES ASSUME NEW e \in Entries PROVE Served(<< e, Off >>) = Served(e)
    OBVIOUS
<1> DEFINE v == << e, Off >>
<1>1. v \in Twice /\ v[1] = e
    BY DEF Twice
<1>2. v \notin Specs /\ e \notin Twice
    BY <1>1, GatewayAssumption DEF Entries
<1> HIDE DEF v
<1>3. Served(v) = IF e \in Specs THEN e ELSE Absent
    BY <1>1, <1>2 DEF Served
<1>4. Served(e) = IF e \in Specs THEN e ELSE Absent
    BY <1>2 DEF Served
<1> QED
    BY <1>3, <1>4 DEF v

LEMMA SeedType ==
    ASSUME NEW cat \in Catalogues, NEW up PROVE Seed(cat, up) \in Catalogues
BY ServedType DEF Seed, Catalogues

LEMMA EmptyType == Empty \in Catalogues
BY DEF Empty, Catalogues

LEMMA WithoutType ==
    ASSUME NEW cat \in Catalogues, NEW names PROVE Without(cat, names) \in Catalogues
BY DEF Without, Catalogues

LEMMA PublishType ==
    ASSUME NEW cat \in Catalogues, NEW owner \in BOOLEAN, NEW lazy \in BOOLEAN
    PROVE  Publish(cat, owner, lazy) \in Pools
BY DEF Publish, Pools

LEMMA JobType ==
    ASSUME job \in Casts, NEW t \in Tasks
    PROVE  job[t] \in Jobs /\ Kind(t) \in Kinds /\ job[t].to \in Entries
<1>1. job[t] \in Jobs
    BY GatewayAssumption
<1> QED
    BY <1>1 DEF Jobs, Kind

\* The value an operation makes of a name is one a configuration may have.
LEMMA AfterType ==
    ASSUME job \in Casts, memory \in Configs, NEW t \in Tasks,
           NEW names \in SUBSET Eligible(t), NEW n \in names
    PROVE  After(t, memory.up[n]) \in Values
<1> DEFINE v == memory.up[n]
<1>1. v \in Values /\ job[t].to \in Entries
  <2>1. n \in Names
    BY JobType DEF Eligible, Jobs
  <2> QED
    BY <2>1, JobType DEF Configs
<1>2. v \in Twice => v[1] \in Entries /\ v[2] \in Entries /\ v[2] = Off
    BY DEF Twice, Entries
<1>3. First(v, job[t].to) \in Values
    BY <1>1, <1>2 DEF First, Values, Twice
<1>4. CASE Kind(t) = "approve"
  <2>1. v \notin Twice
    BY <1>4 DEF Eligible
  <2>2. After(t, v) = IF v = Absent THEN Off ELSE << v, Off >>
    BY <1>4 DEF After
  <2> QED
    BY <1>1, <2>1, <2>2 DEF Values, Twice, Entries
<1>5. CASE Kind(t) = "remove"
  <2>1. After(t, v) = IF v \in Twice THEN v[2] ELSE Absent
    BY <1>5 DEF After
  <2> QED
    BY <1>2, <2>1 DEF Values
<1>6. CASE Kind(t) \notin {"approve", "remove"}
  <2>1. After(t, v) \in {v, First(v, job[t].to)}
    BY <1>6 DEF After
  <2> QED
    BY <1>1, <1>3, <2>1
<1> QED
    BY <1>4, <1>5, <1>6

\* What an edit makes of each upstream.
LEMMA EditedUp ==
    ASSUME memory \in Configs, job \in Casts, NEW t \in Tasks,
           NEW names \in SUBSET Eligible(t),
           (names # {}) <=> (Kind(t) \notin {"settings", "virtual"})
    PROVE  /\ Edited(t, names) \in Configs
           /\ \A n \in Names : Edited(t, names).up[n] =
                 IF n \in names THEN After(t, memory.up[n]) ELSE memory.up[n]
<1>1. CASE Kind(t) = "settings"
  <2>1. Edited(t, names) = [memory EXCEPT !.settings = ~@]
    BY <1>1 DEF Edited
  <2> QED
    BY <1>1, <2>1 DEF Configs
<1>2. CASE Kind(t) = "virtual"
  <2>1. Edited(t, names) = [memory EXCEPT !.stale = FALSE]
    BY <1>2 DEF Edited
  <2> QED
    BY <1>2, <2>1 DEF Configs
<1>3. CASE Kind(t) \notin {"settings", "virtual"}
  <2> DEFINE up == [n \in Names |-> IF n \in names THEN After(t, memory.up[n])
                                                    ELSE memory.up[n]]
  <2>1. Edited(t, names) = [memory EXCEPT !.up = up]
    BY <1>3 DEF Edited
  <2>2. up \in [Names -> Values]
    BY AfterType DEF Configs
  <2>3. \A n \in Names :
            up[n] = IF n \in names THEN After(t, memory.up[n]) ELSE memory.up[n]
    OBVIOUS
  <2> HIDE DEF up
  <2> QED
    BY <2>1, <2>2, <2>3 DEF Configs
<1> QED
    BY <1>1, <1>2, <1>3

LEMMA QuarantinedUp ==
    ASSUME NEW c \in Configs
    PROVE  Quarantined(c) \in Configs /\ Quarantined(c).up = c.up
BY DEF Quarantined, Configs

-----------------------------------------------------------------------------
\* Types.  A write in flight belongs to a task that waits for it or that was
\* cancelled while it did; once a pool is published, one is.
Writing == {"write", "quarantine"}

Typed ==
    /\ TypeOK
    /\ cfg \in [Tasks -> Configs \cup {None}]
    /\ writes \in [Tasks -> Configs \cup {None}]
    /\ \A t \in Tasks : writes[t] # None => pc[t] \in Writing \cup {"cancelled"}
    /\ runtime = 0 => Len(pools) = 0

\* The parts of the type that are about the tasks, and about the pools.
TaskTypes ==
    /\ file \in Configs /\ memory \in Configs
    /\ lock \in Tasks \cup {None} /\ initLock \in Tasks \cup {None}
    /\ job \in Casts
    /\ pc \in [Tasks -> Phases]
    /\ \A t \in Tasks : \/ cfg[t] \in Configs
                        \/ cfg[t] = None /\ pc[t] \in {"start", "load"} \cup Ended
    /\ \A t \in Tasks : writes[t] \in {None, cfg[t]}
    /\ \A t \in Tasks : pc[t] \in {"write", "quarantine"} => writes[t] = cfg[t]
    /\ edits \in 0 .. MaxEdits
    /\ claim \in [Tasks -> [Names -> Values \cup {Unknown}]]
    /\ acked \in [Names -> Values \cup {Unknown}]
    /\ late \subseteq Names /\ lag \subseteq Names
    /\ cfg \in [Tasks -> Configs \cup {None}]
    /\ writes \in [Tasks -> Configs \cup {None}]
    /\ \A t \in Tasks : writes[t] # None => pc[t] \in Writing \cup {"cancelled"}

PoolTypes ==
    /\ pools \in Seq(Pools) /\ runtime \in 0 .. Len(pools)
    /\ old \in [Tasks -> 0 .. Len(pools)]
    /\ raced \subseteq DOMAIN pools
    /\ runtime = 0 => Len(pools) = 0

LEMMA TypedParts == Typed <=> TaskTypes /\ PoolTypes
BY DEF Typed, TypeOK, TaskTypes, PoolTypes

\* What is added to the histories are names.
LEMMA LagTypes ==
    /\ \A c, d : Moved(c, d) \subseteq Names /\ Hidden(c, d) \subseteq Names
    /\ \A t \in Tasks : Undone(t) \subseteq Names /\ Adrift(t) \subseteq Names
BY DEF Moved, Hidden, Undone, Adrift

LEMMA TaskTypesNext == TaskTypes /\ [Next]_vars => TaskTypes'
<1> SUFFICES ASSUME TaskTypes, [Next]_vars PROVE TaskTypes'
    OBVIOUS
<1>a. None \notin Configs /\ None \notin Tasks /\ MaxEdits \in Nat
    BY GatewayAssumption
<1>b. Unknown \notin Values
    BY GatewayAssumption
<1> USE <1>a, <1>b DEF TaskTypes, Writing, Phases, Ended, Goto, stores, serving, locals, history
<1>1. CASE UNCHANGED vars
    BY <1>1 DEF vars
<1>2. ASSUME NEW t \in Tasks, Begin(t) PROVE TaskTypes'
  <2>1. PICK names \in SUBSET Eligible(t) :
          /\ (names # {}) <=> (Kind(t) \notin {"settings", "virtual"})
          /\ cfg' = [cfg EXCEPT ![t] = Edited(t, names)]
          /\ writes' = [writes EXCEPT ![t] = Edited(t, names)]
          /\ claim' = [claim EXCEPT ![t] = [n \in Names |->
                           IF n \in names THEN After(t, memory.up[n]) ELSE Unknown]]
          /\ acked' = [n \in Names |-> IF n \in names THEN Unknown ELSE acked[n]]
          /\ late' = late \ names
    BY <1>2 DEF Begin, Persist
  <2>2. Edited(t, names) \in Configs
    BY <2>1, EditedUp
  <2>3. \A n \in names : After(t, memory.up[n]) \in Values
    BY AfterType
  <2>4. /\ pc' = [pc EXCEPT ![t] = "write"] /\ lock' = t
        /\ UNCHANGED << file, memory, initLock, job, edits, lag >>
    BY <1>2 DEF Begin
  <2>5. /\ claim' \in [Tasks -> [Names -> Values \cup {Unknown}]]
        /\ acked' \in [Names -> Values \cup {Unknown}] /\ late' \subseteq Names
    BY <2>1, <2>3
  <2> HIDE DEF Values
  <2> QED
    BY <2>1, <2>2, <2>4, <2>5
<1>3. ASSUME NEW t \in Tasks, Refuse(t) \/ BeginReload(t) \/ Skip(t) \/ Build(t)
      PROVE TaskTypes'
    BY <1>3, LagTypes DEF Refuse, BeginReload, Skip, Build
<1>4. ASSUME NEW t \in Tasks, Write(t) PROVE TaskTypes'
    BY <1>4, LagTypes DEF Write, Persist
<1>5. ASSUME NEW t \in Tasks, WriteFails(t) PROVE TaskTypes'
    BY <1>5, LagTypes DEF WriteFails, Persist, Unlock
<1>6. ASSUME NEW t \in Tasks, Load(t) PROVE TaskTypes'
  <2>1. Quarantined(file) \in Configs
    BY QuarantinedUp
  <2> QED
    BY <1>6, <2>1 DEF Load, Persist
<1>7. ASSUME NEW t \in Tasks, LoadFails(t) \/ InstallQuarantined(t) PROVE TaskTypes'
    BY <1>7, LagTypes DEF LoadFails, InstallQuarantined, Unlock
<1>8. ASSUME NEW t \in Tasks, ReconcileInPlace(t) \/ Extend(t) \/ Swap(t)
      PROVE TaskTypes'
    BY <1>8, LagTypes DEF ReconcileInPlace, Extend, Swap
<1>9. ASSUME NEW t \in Tasks, Install(t) PROVE TaskTypes'
  <2>1. acked' \in [Names -> Values \cup {Unknown}]
    <3>1. acked' \in {acked, [n \in Names |-> IF claim[t][n] # Unknown THEN claim[t][n]
                                                                   ELSE acked[n]]}
      BY <1>9 DEF Install
    <3> HIDE DEF Values
    <3> QED
      BY <3>1
  <2>2. lag' \subseteq Names
    BY <1>9, LagTypes DEF Install
  <2>3. /\ memory' \in Configs /\ lock' \in Tasks \cup {None}
        /\ pc' \in {[pc EXCEPT ![t] = "done"], [pc EXCEPT ![t] = "failed"]}
        /\ pc[t] = "install"
        /\ UNCHANGED << file, initLock, job, cfg, writes, edits, claim, late >>
    BY <1>9 DEF Install, Unlock
  <2> QED
    BY <2>1, <2>2, <2>3
<1>10. ASSUME NEW t \in Tasks, ReadConfig(t) \/ PickPool(t) \/ WantPool(t) \/ InitPool(t)
       PROVE TaskTypes'
    BY <1>10 DEF ReadConfig, PickPool, WantPool, InitPool
<1>11. ASSUME NEW t \in Tasks, PublishPool(t) PROVE TaskTypes'
    BY <1>11 DEF PublishPool
<1>12. ASSUME NEW t \in Tasks, SeedPool(t) PROVE TaskTypes'
    BY <1>12 DEF SeedPool, Uninit
<1>13. ASSUME NEW t \in Tasks, Cancel(t) PROVE TaskTypes'
    BY <1>13, LagTypes DEF Cancel, Unlock, Uninit
<1>14. ASSUME NEW i \in DOMAIN pools, Drain(i) PROVE TaskTypes'
    BY <1>14 DEF Drain
<1>15. ASSUME NEW e \in Edits, EditFile(e[1], e[2]) PROVE TaskTypes'
  <2>1. e[1] \in Names /\ e[2] \in Values
    BY GatewayAssumption
  <2>2. [file EXCEPT !.up[e[1]] = e[2]] \in Configs
    BY <2>1 DEF Configs
  <2>3. claim' \in [Tasks -> [Names -> Values \cup {Unknown}]]
    BY <1>15, <2>1 DEF EditFile
  <2> QED
    BY <1>15, <2>1, <2>2, <2>3 DEF EditFile
<1> QED
    BY <1>1, <1>2, <1>3, <1>4, <1>5, <1>6, <1>7, <1>8, <1>9, <1>10, <1>11, <1>12,
       <1>13, <1>14, <1>15 DEF Next, MutationStep, EnsureStep

\* Only some steps touch the pools.
Publishes(t) == Swap(t) \/ PublishPool(t)
Edges(t) == ReconcileInPlace(t) \/ Extend(t) \/ SeedPool(t)
Picks(t) == ReconcileInPlace(t) \/ Build(t) \/ PickPool(t) \/ InitPool(t)

LEMMA PoolsUntouched ==
    ASSUME [Next]_vars,
           \A t \in Tasks : ~Publishes(t) /\ ~Edges(t),
           \A i \in DOMAIN pools : ~Drain(i)
    PROVE  UNCHANGED << pools, runtime, raced >>
BY DEF Next, vars, stores, serving, locals, history, MutationStep, EnsureStep, Begin, Refuse,
   BeginReload, Write, WriteFails, Load, LoadFails, InstallQuarantined, Skip, Build,
   Install, ReadConfig, PickPool, WantPool, InitPool, Cancel, EditFile, Publishes,
   Edges

LEMMA OldUntouched ==
    ASSUME [Next]_vars, \A t \in Tasks : ~Picks(t) /\ ~PublishPool(t)
    PROVE  UNCHANGED old
BY DEF Next, vars, stores, serving, locals, history, MutationStep, EnsureStep, Begin, Refuse,
   BeginReload, Write, WriteFails, Load, LoadFails, InstallQuarantined, Skip,
   Extend, Swap, SeedPool, Install, ReadConfig, WantPool, Cancel, EditFile, Picks, Drain

LEMMA PoolTypesNext == TaskTypes /\ PoolTypes /\ [Next]_vars => PoolTypes'
<1> SUFFICES ASSUME TaskTypes, PoolTypes, [Next]_vars PROVE PoolTypes'
    OBVIOUS
<1>a. job \in Casts /\ \A t \in Tasks : job[t].owner \in BOOLEAN
    BY JobType DEF TaskTypes, Jobs
<1>b. \A i \in DOMAIN pools : pools[i] \in Pools
    BY DEF PoolTypes
<1>c. DOMAIN pools = 1 .. Len(pools) /\ Len(pools) \in Nat
    BY DEF PoolTypes
<1>1. ASSUME NEW i \in DOMAIN pools, NEW p \in Pools, pools' = [pools EXCEPT ![i] = p],
             UNCHANGED << runtime, raced >>, old' \in [Tasks -> 0 .. Len(pools)]
      PROVE PoolTypes'
  <2>1. pools' \in Seq(Pools) /\ Len(pools') = Len(pools)
    BY <1>1, <1>c, ExceptSeq DEF PoolTypes
  <2>2. DOMAIN pools' = DOMAIN pools
    BY <1>1
  <2> QED
    BY <1>1, <2>1, <2>2 DEF PoolTypes
<1>2. ASSUME NEW q \in Seq(Pools), Len(q) = Len(pools), NEW p \in Pools,
             pools' = Append(q, p), runtime' = Len(pools) + 1,
             raced' \subseteq raced \cup ({runtime} \ {0}),
             NEW t \in Tasks, old' \in {old, [old EXCEPT ![t] = Len(pools) + 1]}
      PROVE PoolTypes'
  <2>1. pools' \in Seq(Pools) /\ Len(pools') = Len(pools) + 1
    BY <1>2
  <2>2. DOMAIN pools' = 1 .. Len(pools) + 1
    BY <2>1
  <2> QED
    BY <1>2, <1>c, <2>1, <2>2 DEF PoolTypes
<1>3. ASSUME NEW t \in Tasks, Swap(t) PROVE PoolTypes'
  <2>1. Publish(Seed(Empty, cfg[t].up), job[t].owner, FALSE) \in Pools
    BY <1>a, EmptyType, SeedType, PublishType
  <2>2. Draining(pools, old[t]) \in Seq(Pools) /\ Len(Draining(pools, old[t])) = Len(pools)
    <3>1. CASE old[t] = 0
      BY <3>1 DEF Draining, PoolTypes
    <3>2. CASE old[t] # 0
      <4>1. old[t] \in 1 .. Len(pools)
        BY <1>c, <3>2 DEF PoolTypes
      <4>2. [pools[old[t]] EXCEPT !.state = "draining"] \in Pools
        BY <1>b, <1>c, <4>1 DEF Pools
      <4>3. Draining(pools, old[t]) =
              [pools EXCEPT ![old[t]] = [pools[old[t]] EXCEPT !.state = "draining"]]
        BY <1>c, <3>2, <4>1 DEF Draining
      <4> QED
        BY <4>1, <4>2, <4>3, ExceptSeq DEF PoolTypes
    <3> QED
      BY <3>1, <3>2
  <2>3. raced' \subseteq raced \cup ({runtime} \ {0})
    BY <1>3, <1>c DEF Swap, PoolTypes
  <2> QED
    BY <1>2, <1>3, <2>1, <2>2, <2>3 DEF Swap, Swapped, locals
<1>4. ASSUME NEW t \in Tasks, PublishPool(t) PROVE PoolTypes'
  <2>1. Publish(Empty, job[t].owner, TRUE) \in Pools
    BY <1>a, EmptyType, PublishType
  <2>2. raced' \subseteq raced \cup ({runtime} \ {0})
    BY <1>4, <1>c DEF PublishPool, PoolTypes
  <2> QED
    BY <1>2, <1>4, <2>1, <2>2 DEF PublishPool, PoolTypes
<1>5. ASSUME NEW t \in Tasks, ReconcileInPlace(t) PROVE PoolTypes'
  <2> DEFINE cat == Without(pools[runtime].cat, Changed(memory, cfg[t]))
  <2>1. runtime \in DOMAIN pools
    BY <1>5, <1>c DEF ReconcileInPlace, Selective, PoolTypes
  <2>2. cat \in Catalogues
    BY <1>b, <2>1, WithoutType DEF Pools
  <2> HIDE DEF cat
  <2>3. [pools[runtime] EXCEPT !.cat = cat] \in Pools
    BY <1>b, <2>1, <2>2 DEF Pools
  <2>4. pools' = [pools EXCEPT ![runtime] = [pools[runtime] EXCEPT !.cat = cat]]
    BY <1>5, <2>1 DEF ReconcileInPlace, cat
  <2>5. UNCHANGED << runtime, raced >> /\ old' \in [Tasks -> 0 .. Len(pools)]
    BY <1>5 DEF ReconcileInPlace, PoolTypes
  <2> QED
    BY <1>1, <2>1, <2>3, <2>4, <2>5
<1>6. ASSUME NEW t \in Tasks, Extend(t) \/ SeedPool(t) PROVE PoolTypes'
  <2> DEFINE cat == Seed(pools[old[t]].cat, cfg[t].up)
  <2>0. UNCHANGED << runtime, raced >> /\ old' \in [Tasks -> 0 .. Len(pools)]
    BY <1>6 DEF Extend, SeedPool, locals, PoolTypes
  <2>1. CASE old[t] \in DOMAIN pools
    <3>1. cat \in Catalogues
      BY <1>b, <2>1, SeedType DEF Pools
    <3> HIDE DEF cat
    <3>2. [pools[old[t]] EXCEPT !.cat = cat] \in Pools
      BY <1>b, <2>1, <3>1 DEF Pools
    <3>3. pools' = [pools EXCEPT ![old[t]] = [pools[old[t]] EXCEPT !.cat = cat]]
      BY <1>6, <2>1 DEF Extend, SeedPool, cat
    <3> QED
      BY <1>1, <2>0, <2>1, <3>2, <3>3
  <2>2. CASE old[t] \notin DOMAIN pools
    <3>1. pools' = pools
      BY <1>6, <1>c, <2>2 DEF Extend, SeedPool, PoolTypes
    <3> QED
      BY <2>0, <3>1 DEF PoolTypes
  <2> QED
    BY <2>1, <2>2
<1>7. ASSUME NEW i \in DOMAIN pools, Drain(i) PROVE PoolTypes'
  <2>1. [pools[i] EXCEPT !.state = "drained"] \in Pools
    BY <1>b DEF Pools
  <2>2. pools' = [pools EXCEPT ![i] = [pools[i] EXCEPT !.state = "drained"]]
    BY <1>7 DEF Drain
  <2>3. UNCHANGED << runtime, raced >> /\ old' \in [Tasks -> 0 .. Len(pools)]
    BY <1>7 DEF Drain, locals, history, PoolTypes
  <2> QED
    BY <1>1, <2>1, <2>2, <2>3
<1>8. ASSUME NEW t \in Tasks, Picks(t), ~ReconcileInPlace(t) PROVE PoolTypes'
    BY <1>8 DEF Picks, Build, PickPool, InitPool, PoolTypes, serving, history
<1>9. CASE /\ \A t \in Tasks : ~Publishes(t) /\ ~Edges(t) /\ ~Picks(t)
           /\ \A i \in DOMAIN pools : ~Drain(i)
    BY <1>9, PoolsUntouched, OldUntouched DEF PoolTypes, Publishes
<1> QED
    BY <1>3, <1>4, <1>5, <1>6, <1>7, <1>8, <1>9 DEF Publishes, Edges

LEMMA TypedInit == Init => Typed
<1> SUFFICES ASSUME Init PROVE TaskTypes /\ PoolTypes
    BY TypedParts
<1>1. memory \in Configs /\ Publish(Seed(Empty, memory.up), FALSE, FALSE) \in Pools
    BY GatewayAssumption, EmptyType, SeedType, PublishType DEF Init
<1>2. TaskTypes
  <2>1. MaxEdits \in Nat /\ job \in Casts
    BY GatewayAssumption DEF Init
  <2>2. /\ file \in Configs /\ pc \in [Tasks -> Phases] /\ edits \in 0 .. MaxEdits
        /\ claim \in [Tasks -> [Names -> Values \cup {Unknown}]]
        /\ acked \in [Names -> Values \cup {Unknown}]
    BY <1>1, <2>1 DEF Init, Phases
  <2>3. /\ cfg \in [Tasks -> Configs \cup {None}]
        /\ writes \in [Tasks -> Configs \cup {None}]
        /\ \A t \in Tasks : pc[t] = "start" /\ cfg[t] = None /\ writes[t] = None
    BY DEF Init
  <2>4. lock = None /\ initLock = None /\ late = {} /\ lag = {}
    BY DEF Init
  <2> QED
    BY <1>1, <2>1, <2>2, <2>3, <2>4 DEF TaskTypes, Writing
<1>3. PoolTypes
  <2> DEFINE first == Publish(Seed(Empty, memory.up), FALSE, FALSE)
  <2>0. first \in Pools
    BY <1>1
  <2>1. << >> \in Seq(Pools) /\ << first >> \in Seq(Pools)
    <3> HIDE DEF first
    <3> QED
      BY <2>0
  <2>2. /\ Len(<< >>) = 0 /\ Len(<< first >>) = 1
        /\ 0 \in 0 .. 0 /\ 1 \in 0 .. 1 /\ 0 \in 0 .. 1
    OBVIOUS
  <2>3. \/ pools = << first >> /\ runtime = 1
        \/ pools = << >> /\ runtime = 0
    BY DEF Init
  <2>4. old = [t \in Tasks |-> 0] /\ raced = {}
    BY DEF Init
  <2> HIDE DEF first
  <2> QED
    BY <2>1, <2>2, <2>3, <2>4 DEF PoolTypes
<1> QED
    BY <1>2, <1>3

LEMMA TypedAlways == Spec => []Typed
<1>1. Typed /\ [Next]_vars => Typed'
    BY TypedParts, TaskTypesNext, PoolTypesNext DEF Typed, TypeOK, TaskTypes, PoolTypes
<1> QED
    BY <1>1, TypedInit, PTL DEF Spec

-----------------------------------------------------------------------------
\* Mutual exclusion: a mutation or a reload in progress has config_mutation, and a
\* request that is about to publish a pool has lazy_pool_init.
Critical == {"write", "load", "quarantine", "quarantined", "diff", "extend", "build",
             "install"}

\* The phases of a reload, which no operation that installs without one reaches.
Reloading == {"load", "quarantine", "quarantined", "diff", "extend", "build"}

Exclusive ==
    /\ \A t \in Tasks : pc[t] \in Critical => lock = t
    /\ \A t \in Tasks : pc[t] = "publish" => initLock = t
    /\ \A t \in Tasks : pc[t] \in Reloading => Kind(t) \notin Installs

LEMMA ExclusiveNext == TaskTypes /\ Exclusive /\ [Next]_vars => Exclusive'
<1> SUFFICES ASSUME TaskTypes, Exclusive, [Next]_vars PROVE Exclusive'
    OBVIOUS
<1>a. /\ pc \in [Tasks -> Phases] /\ None \notin Tasks
      /\ \A t \in Tasks : writes[t] # None => pc[t] \in Writing \cup {"cancelled"}
    BY GatewayAssumption DEF TaskTypes
<1> USE <1>a DEF Exclusive, Critical, Reloading, Kind, Installs, Ended, Writing, Goto,
        Unlock, Uninit, locals
<1>1. CASE UNCHANGED << pc, lock, initLock, job >>
    BY <1>1
<1>2. ASSUME NEW t \in Tasks, Begin(t) \/ Refuse(t) \/ BeginReload(t)
      PROVE Exclusive'
    BY <1>2 DEF Begin, Refuse, BeginReload, LockFree
<1>3. ASSUME NEW t \in Tasks, Write(t) PROVE Exclusive'
    BY <1>3 DEF Write
<1>4. ASSUME NEW t \in Tasks, WriteFails(t) \/ Load(t) \/ LoadFails(t)
      PROVE Exclusive'
    BY <1>4 DEF WriteFails, Load, LoadFails
<1>5. ASSUME NEW t \in Tasks,
             InstallQuarantined(t) \/ Skip(t) \/ ReconcileInPlace(t) \/ Extend(t)
                \/ Build(t) \/ Swap(t) \/ Install(t)
      PROVE Exclusive'
    BY <1>5 DEF InstallQuarantined, Skip, ReconcileInPlace, Extend, Build, Swap, Install
<1>6. ASSUME NEW t \in Tasks, EnsureStep(t) PROVE Exclusive'
    BY <1>6 DEF EnsureStep, ReadConfig, PickPool, WantPool, InitPool, PublishPool,
       SeedPool
<1>7. ASSUME NEW t \in Tasks, Cancel(t) PROVE Exclusive'
    BY <1>7 DEF Cancel
<1>8. CASE (\E i \in DOMAIN pools : Drain(i)) \/ \E e \in Edits : EditFile(e[1], e[2])
    BY <1>1, <1>8 DEF Drain, EditFile
<1> QED
    BY <1>1, <1>2, <1>3, <1>4, <1>5, <1>6, <1>7, <1>8 DEF Next, MutationStep, vars

-----------------------------------------------------------------------------
\* No lost update.  While a mutation runs, the configuration it works on has what
\* was acknowledged of the other names and, for the names it will acknowledge,
\* what it will say of them; so has the file once it was written.  The names a late
\* write changed are exempt until the next operation on them.
Agrees(t) ==
    \A n \in Names \ late :
        /\ pc[t] # "load" =>
             /\ acked[n] # Unknown => cfg[t].up[n] = acked[n]
             /\ claim[t][n] # Unknown => cfg[t].up[n] = claim[t][n]
        /\ pc[t] # "write" /\ claim[t][n] # Unknown => file.up[n] = claim[t][n]

Kept ==
    /\ AckedKept
    /\ \A t \in Tasks : pc[t] = "start" => \A n \in Names : claim[t][n] = Unknown
    /\ \A t \in Tasks : pc[t] \in Critical => Agrees(t)

LEMMA KeptNext == TaskTypes /\ Exclusive /\ Kept /\ [Next]_vars => Kept'
<1> SUFFICES ASSUME TaskTypes, Exclusive, Kept, [Next]_vars PROVE Kept'
    OBVIOUS
<1>a. /\ pc \in [Tasks -> Phases] /\ claim \in [Tasks -> [Names -> Values \cup {Unknown}]]
      /\ acked \in [Names -> Values \cup {Unknown}] /\ job \in Casts
      /\ file \in Configs /\ memory \in Configs
      /\ cfg \in [Tasks -> Configs \cup {None}]
      /\ \A t \in Tasks : writes[t] # None => pc[t] \in Writing \cup {"cancelled"}
      /\ \A t \in Tasks : writes[t] \in {None, cfg[t]}
      /\ late \subseteq Names /\ None \notin Tasks
    BY GatewayAssumption DEF TaskTypes
<1>b. \A s, t \in Tasks : pc[s] \in Critical /\ pc[t] \in Critical => s = t
    BY DEF Exclusive
<1>c. lock = None => \A t \in Tasks : pc[t] \notin Critical
    BY <1>a DEF Exclusive
<1>d. /\ \A t \in Tasks : pc[t] = "start" => \A n \in Names : claim[t][n] = Unknown
      /\ \A t \in Tasks : pc[t] \in Critical => Agrees(t)
      /\ \A n \in Names \ late :
            acked[n] # Unknown => memory.up[n] = acked[n] /\ file.up[n] = acked[n]
    BY DEF Kept, AckedKept
<1> USE <1>a DEF Goto, Ended, Writing, stores, serving, locals, history
<1>1. ASSUME UNCHANGED << file, memory, cfg, claim, acked, late, job >>,
             \A t \in Tasks : \/ pc'[t] = pc[t]
                              \/ pc'[t] \notin Critical \cup {"start"}
                              \/ /\ pc[t] \in Critical \ {"load", "write"}
                                 /\ pc'[t] \in Critical \ {"load", "write"}
                              \/ pc[t] = "start" /\ pc'[t] = "load"
      PROVE Kept'
    BY <1>1, <1>d DEF Kept, AckedKept, Agrees, Critical
<1>2. CASE UNCHANGED vars
    BY <1>1, <1>2 DEF vars
<1>3. ASSUME NEW t \in Tasks, Begin(t) PROVE Kept'
  <2>1. PICK names \in SUBSET Eligible(t) :
          /\ (names # {}) <=> (Kind(t) \notin {"settings", "virtual"})
          /\ cfg' = [cfg EXCEPT ![t] = Edited(t, names)]
          /\ claim' = [claim EXCEPT ![t] = [n \in Names |->
                           IF n \in names THEN After(t, memory.up[n]) ELSE Unknown]]
          /\ acked' = [n \in Names |-> IF n \in names THEN Unknown ELSE acked[n]]
          /\ late' = late \ names
    BY <1>3 DEF Begin
  <2>2. \A n \in Names : Edited(t, names).up[n] =
            IF n \in names THEN After(t, memory.up[n]) ELSE memory.up[n]
    BY <2>1, EditedUp
  <2>4. /\ pc' = [pc EXCEPT ![t] = "write"]
        /\ UNCHANGED << file, memory >>
        /\ \A s \in Tasks : pc[s] \notin Critical
    BY <1>3, <1>c DEF Begin, LockFree
  <2>5. Agrees(t)'
    <3> SUFFICES ASSUME NEW n \in Names \ late'
                 PROVE /\ acked'[n] # Unknown => cfg'[t].up[n] = acked'[n]
                       /\ claim'[t][n] # Unknown => cfg'[t].up[n] = claim'[t][n]
      BY <2>4 DEF Agrees
    <3>1. CASE n \in names
      BY <2>1, <2>2, <3>1
    <3>2. CASE n \notin names
      BY <1>d, <2>1, <2>2, <3>2
    <3> QED
      BY <3>1, <3>2
  <2>6. AckedKept'
    BY <1>d, <2>1, <2>4 DEF AckedKept
  <2>7. \A s \in Tasks : pc'[s] = "start" => s # t /\ pc[s] = "start" /\ claim'[s] = claim[s]
    BY <2>1, <2>4
  <2> QED
    BY <1>d, <2>4, <2>5, <2>6, <2>7 DEF Kept, Critical
<1>4. ASSUME NEW t \in Tasks,
             Refuse(t) \/ BeginReload(t) \/ LoadFails(t) \/ Skip(t)
                \/ ReconcileInPlace(t) \/ Extend(t) \/ Build(t) \/ Swap(t)
      PROVE Kept'
    BY <1>1, <1>4 DEF Refuse, BeginReload, LoadFails, Skip,
       ReconcileInPlace, Extend, Build, Swap, Critical
\* A write of a cancelled request: every name it changes is late.
<1>16. ASSUME NEW t \in Tasks, pc[t] = "cancelled", file' = writes[t],
              late' = late \cup Undone(t), pc' = pc,
              UNCHANGED << memory, cfg, claim, acked >>
       PROVE Kept'
  <2>1. \A n \in Names \ late' : n \notin late /\ file'.up[n] = file.up[n]
    BY <1>16 DEF Undone
  <2> QED
    BY <1>16, <1>d, <2>1 DEF Kept, AckedKept, Agrees
\* A write of a request that waits for it.
<1>17. ASSUME NEW t \in Tasks, pc[t] \in Writing, file' = cfg[t],
              late' = late \cup Undone(t),
              UNCHANGED << memory, cfg, claim, acked >>,
              pc'[t] \notin {"write", "start"},
              \A s \in Tasks : s # t => pc'[s] = pc[s]
       PROVE Kept'
  <2>1. late' = late
    BY <1>17 DEF Undone
  <2>2. \A s \in Tasks : s # t => pc[s] \notin Critical
    BY <1>b, <1>17 DEF Critical
  <2>3. pc[t] # "load" /\ Agrees(t)
    BY <1>d, <1>17 DEF Critical
  <2>4. Agrees(t)'
    BY <1>17, <2>1, <2>3 DEF Agrees
  <2>5. AckedKept'
    BY <1>17, <1>d, <2>1, <2>3 DEF AckedKept, Agrees
  <2> QED
    BY <1>17, <1>d, <2>2, <2>4, <2>5 DEF Kept
<1>18. ASSUME NEW t \in Tasks, writes[t] # None, pc[t] # "cancelled"
       PROVE pc[t] \in Writing /\ writes[t] = cfg[t]
    BY <1>18
<1>15. ASSUME NEW t \in Tasks, WriteFails(t) PROVE Kept'
  <2>1. CASE UNCHANGED << file, late >>
    BY <1>1, <1>15, <2>1 DEF WriteFails, Critical
  <2>2. CASE pc[t] = "cancelled" /\ ~UNCHANGED << file, late >>
    BY <1>15, <1>16, <2>2 DEF WriteFails
  <2>3. CASE pc[t] # "cancelled" /\ ~UNCHANGED << file, late >>
    BY <1>15, <1>17, <1>18, <2>3 DEF WriteFails
  <2> QED
    BY <2>1, <2>2, <2>3
<1>5. ASSUME NEW t \in Tasks, Write(t) PROVE Kept'
  <2>1. CASE pc[t] = "cancelled"
    BY <1>5, <1>16, <2>1 DEF Write
  <2>2. CASE pc[t] # "cancelled"
    BY <1>5, <1>17, <1>18, <2>2 DEF Write
  <2> QED
    BY <2>1, <2>2
<1>6. ASSUME NEW t \in Tasks, Load(t) PROVE Kept'
  <2>1. Quarantined(file).up = file.up
    BY QuarantinedUp
  <2>2. /\ pc[t] = "load" /\ cfg' = [cfg EXCEPT ![t] = Quarantined(file)]
        /\ pc' \in {[pc EXCEPT ![t] = "quarantine"], [pc EXCEPT ![t] = "diff"]}
        /\ UNCHANGED << file, memory, claim, acked, late >>
    BY <1>6 DEF Load
  <2>3. \A s \in Tasks : s # t => pc'[s] = pc[s] /\ pc[s] \notin Critical
    BY <1>b, <2>2 DEF Critical
  <2>4. Agrees(t)'
    BY <1>d, <2>1, <2>2 DEF Agrees, Critical
  <2> QED
    BY <1>d, <2>2, <2>3, <2>4 DEF Kept, AckedKept
<1>7. ASSUME NEW t \in Tasks, InstallQuarantined(t) PROVE Kept'
  <2>1. /\ pc[t] = "quarantined" /\ memory' = cfg[t] /\ pc' = [pc EXCEPT ![t] = "diff"]
        /\ UNCHANGED << file, cfg, claim, acked, late >>
    BY <1>7 DEF InstallQuarantined
  <2>2. Agrees(t) /\ Agrees(t)'
    BY <1>d, <2>1 DEF Agrees, Critical
  <2>3. \A s \in Tasks : s # t => pc'[s] = pc[s] /\ pc[s] \notin Critical
    BY <1>b, <2>1 DEF Critical
  <2> QED
    BY <1>d, <2>1, <2>2, <2>3 DEF Kept, AckedKept, Agrees
<1>8. ASSUME NEW t \in Tasks, Install(t) PROVE Kept'
  <2>1. /\ pc[t] = "install" /\ memory' = cfg[t]
        /\ pc'[t] \in {"done", "failed"}
        /\ acked' \in {acked, [n \in Names |-> IF claim[t][n] # Unknown THEN claim[t][n]
                                                                    ELSE acked[n]]}
        /\ UNCHANGED << file, cfg, claim, late >>
    BY <1>8 DEF Install
  <2>2. Agrees(t)
    BY <1>d, <2>1 DEF Critical
  <2>3. \A s \in Tasks : s # t => pc'[s] = pc[s] /\ pc[s] \notin Critical
    BY <1>8, <1>b, <2>1 DEF Critical, Install
  <2>4. \A n \in Names \ late :
          /\ acked[n] # Unknown => cfg[t].up[n] = acked[n] /\ file.up[n] = acked[n]
          /\ claim[t][n] # Unknown => cfg[t].up[n] = claim[t][n]
                                        /\ file.up[n] = claim[t][n]
    BY <1>d, <2>1, <2>2 DEF Agrees
  <2>5. AckedKept'
    BY <2>1, <2>4 DEF AckedKept
  <2>6. \A s \in Tasks : pc'[s] \notin Critical
    BY <2>1, <2>3 DEF Critical
  <2>7. \A s \in Tasks : pc'[s] = "start" => pc[s] = "start"
    BY <2>1, <2>3
  <2> QED
    BY <1>d, <2>1, <2>5, <2>6, <2>7 DEF Kept
<1>9. ASSUME NEW t \in Tasks, EnsureStep(t) PROVE Kept'
  <2>1. /\ UNCHANGED << file, memory, claim, acked, late, job >>
        /\ pc[t] \notin Critical /\ pc'[t] \notin Critical \cup {"start"}
        /\ \A s \in Tasks : s # t => pc'[s] = pc[s] /\ cfg'[s] = cfg[s]
    BY <1>9 DEF EnsureStep, ReadConfig, PickPool, WantPool, InitPool, PublishPool,
       SeedPool, Critical
  <2>2. ASSUME NEW s \in Tasks, pc'[s] \in Critical PROVE Agrees(s)'
    <3>1. s # t /\ Agrees(s) /\ pc'[s] = pc[s] /\ cfg'[s] = cfg[s]
      BY <1>d, <2>1, <2>2
    <3> QED
      BY <2>1, <3>1 DEF Agrees
  <2>3. \A s \in Tasks : pc'[s] = "start" => pc[s] = "start"
    BY <2>1
  <2> QED
    BY <1>d, <2>1, <2>2, <2>3 DEF Kept, AckedKept
<1>10. ASSUME NEW t \in Tasks, Cancel(t) PROVE Kept'
    BY <1>1, <1>10 DEF Cancel, Critical
<1>11. ASSUME NEW i \in DOMAIN pools, Drain(i) PROVE Kept'
    BY <1>1, <1>11 DEF Drain
<1>12. ASSUME NEW e \in Edits, EditFile(e[1], e[2]) PROVE Kept'
  <2>1. e[1] \in Names /\ e[2] \in Values
    BY GatewayAssumption
  <2>2. \A n \in Names : n # e[1] => file'.up[n] = file.up[n]
    BY <1>12, <2>1 DEF EditFile, Configs
  <2>3. /\ acked' = [acked EXCEPT ![e[1]] = Unknown]
        /\ \A t \in Tasks, n \in Names :
             claim'[t][n] = IF n = e[1] THEN Unknown ELSE claim[t][n]
        /\ UNCHANGED << memory, pc, cfg, late >>
    BY <1>12, <2>1 DEF EditFile
  <2>4. ASSUME NEW t \in Tasks, Agrees(t) PROVE Agrees(t)'
    BY <2>1, <2>2, <2>3, <2>4 DEF Agrees
  <2> QED
    BY <1>d, <2>1, <2>2, <2>3, <2>4 DEF Kept, AckedKept
<1> QED
    BY <1>2, <1>3, <1>4, <1>15, <1>5, <1>6, <1>7, <1>8, <1>9, <1>10, <1>11, <1>12
       DEF Next, MutationStep

-----------------------------------------------------------------------------
\* One pool serves.  A request that is about to publish a lazy pool saw no pool
\* under lazy_pool_init, so whatever is published by then came from a reload.
Alone ==
    /\ OnePoolServes
    /\ \A t \in Tasks : pc[t] = "publish" => runtime = 0 \/ ~pools[runtime].lazy

\* A step that changes neither the state nor the laziness of any pool.
SameStates ==
    /\ UNCHANGED << runtime, raced >>
    /\ DOMAIN pools' = DOMAIN pools
    /\ \A i \in DOMAIN pools : /\ (pools'[i].state = "live") <=> (pools[i].state = "live")
                               /\ pools'[i].lazy = pools[i].lazy

LEMMA AloneNext ==
    TaskTypes /\ PoolTypes /\ Exclusive /\ Alone /\ [Next]_vars => Alone'
<1> SUFFICES ASSUME TaskTypes, PoolTypes, Exclusive, Alone, [Next]_vars PROVE Alone'
    OBVIOUS
<1>a. /\ pc \in [Tasks -> Phases] /\ runtime \in 0 .. Len(pools) /\ None \notin Tasks
      /\ pools \in Seq(Pools) /\ old \in [Tasks -> 0 .. Len(pools)]
      /\ DOMAIN pools = 1 .. Len(pools) /\ Len(pools) \in Nat
      /\ \A i \in DOMAIN pools : pools[i] \in Pools
      /\ (runtime = 0 => Len(pools) = 0) /\ raced \subseteq DOMAIN pools
    BY GatewayAssumption DEF TaskTypes, PoolTypes
<1>b. \A t \in Tasks : pc[t] = "publish" => runtime = 0 \/ ~pools[runtime].lazy
    BY DEF Alone
<1>c. \A i \in DOMAIN pools \ raced : (pools[i].state = "live") <=> (i = runtime)
    BY DEF Alone, OnePoolServes
<1>1. ASSUME SameStates,
             \A t \in Tasks : pc'[t] = "publish" => pc[t] = "publish" \/ runtime = 0
      PROVE Alone'
    BY <1>1, <1>a, <1>b, <1>c DEF SameStates, Alone, OnePoolServes
<1>2. ASSUME NEW t \in Tasks, Swap(t) PROVE Alone'
  <2> DEFINE fresh == Publish(Seed(Empty, cfg[t].up), job[t].owner, FALSE)
             rest == Draining(pools, old[t])
  <2>1. /\ Len(rest) = Len(pools) /\ rest \in Seq(Pools)
        /\ \A i \in 1 .. Len(pools) : (rest[i].state = "live") <=>
                                         (pools[i].state = "live" /\ i # old[t])
    <3>1. CASE old[t] = 0
      BY <1>a, <3>1 DEF Draining
    <3>2. CASE old[t] # 0
      <4>1. old[t] \in 1 .. Len(pools)
        BY <1>a, <3>2
      <4> DEFINE dying == [pools[old[t]] EXCEPT !.state = "draining"]
      <4>2. dying \in Pools /\ dying.state # "live"
        BY <1>a, <4>1 DEF Pools
      <4>3. rest = [pools EXCEPT ![old[t]] = dying]
        BY <1>a, <3>2, <4>1 DEF Draining
      <4> HIDE DEF dying, rest
      <4> QED
        BY <1>a, <4>1, <4>2, <4>3, ExceptSeq
    <3> QED
      BY <3>1, <3>2
  <2>2. fresh \in Pools /\ fresh.state = "live" /\ ~fresh.lazy
    BY EmptyType, SeedType, PublishType, JobType DEF Publish, Jobs, TaskTypes
  <2>3. /\ pools' = Append(rest, fresh) /\ runtime' = Len(pools) + 1
        /\ raced' = IF runtime = old[t] THEN raced ELSE raced \cup {runtime}
        /\ pc' = [pc EXCEPT ![t] = "install"]
    BY <1>2 DEF Swap, Swapped, Goto
  <2> HIDE DEF fresh, rest
  <2>4. /\ DOMAIN pools' = 1 .. Len(pools) + 1 /\ pools'[Len(pools) + 1] = fresh
        /\ \A i \in 1 .. Len(pools) : pools'[i] = rest[i]
    BY <1>a, <2>1, <2>2, <2>3, AppendProperties
  <2>5. \A i \in DOMAIN pools' \ raced' : (pools'[i].state = "live") <=> (i = runtime')
    BY <1>a, <1>c, <2>1, <2>2, <2>3, <2>4
  <2>6. \A s \in Tasks : pc'[s] = "publish" => ~pools'[runtime'].lazy
    BY <2>2, <2>3, <2>4
  <2> QED
    BY <2>5, <2>6 DEF Alone, OnePoolServes
<1>3. ASSUME NEW t \in Tasks, PublishPool(t) PROVE Alone'
  <2> DEFINE fresh == Publish(Empty, job[t].owner, TRUE)
  <2>1. fresh \in Pools /\ fresh.state = "live"
    BY EmptyType, PublishType, JobType DEF Publish, Jobs, TaskTypes
  <2>2. /\ pools' = Append(pools, fresh) /\ runtime' = Len(pools) + 1
        /\ raced' = IF runtime # 0 /\ ~pools[runtime].lazy THEN raced \cup {runtime}
                                                           ELSE raced
        /\ pc[t] = "publish" /\ pc' = [pc EXCEPT ![t] = "seed"]
    BY <1>3 DEF PublishPool, Goto
  <2> HIDE DEF fresh
  <2>3. /\ DOMAIN pools' = 1 .. Len(pools) + 1 /\ pools'[Len(pools) + 1] = fresh
        /\ \A i \in 1 .. Len(pools) : pools'[i] = pools[i]
    BY <1>a, <2>1, <2>2, AppendProperties
  <2>4. raced' = IF runtime # 0 THEN raced \cup {runtime} ELSE raced
    BY <1>b, <2>2
  <2>5. \A i \in DOMAIN pools' \ raced' : (pools'[i].state = "live") <=> (i = runtime')
    BY <1>a, <1>c, <2>1, <2>2, <2>3, <2>4
  <2>6. \A s \in Tasks : pc'[s] # "publish"
    BY <1>a, <2>2 DEF Exclusive
  <2> QED
    BY <2>5, <2>6 DEF Alone, OnePoolServes
<1>4. ASSUME NEW t \in Tasks, Edges(t) PROVE Alone'
  <2>0. ASSUME NEW i, NEW x, pools' = [pools EXCEPT ![i].cat = x],
               UNCHANGED << runtime, raced >>
        PROVE SameStates
    BY <2>0, <1>a DEF SameStates, Pools
  <2>1. SameStates
    <3>1. CASE ReconcileInPlace(t)
      <4>1. pools' = [pools EXCEPT ![runtime].cat =
                        Without(pools[runtime].cat, Changed(memory, cfg[t]))]
        BY <3>1 DEF ReconcileInPlace
      <4> QED
        BY <2>0, <3>1, <4>1 DEF ReconcileInPlace
    <3>2. CASE Extend(t) \/ SeedPool(t)
      <4>1. pools' = [pools EXCEPT ![old[t]].cat = Seed(pools[old[t]].cat, cfg[t].up)]
        BY <3>2 DEF Extend, SeedPool
      <4> QED
        BY <2>0, <3>2, <4>1 DEF Extend, SeedPool
    <3> QED
      BY <1>4, <3>1, <3>2 DEF Edges
  <2>2. \A s \in Tasks : pc'[s] = "publish" => pc[s] = "publish"
    BY <1>4, <1>a DEF Edges, ReconcileInPlace, Extend, SeedPool, Goto
  <2> QED
    BY <1>1, <2>1, <2>2
<1>5. ASSUME NEW i \in DOMAIN pools, Drain(i) PROVE Alone'
  <2>1. SameStates /\ pc' = pc
    BY <1>5, <1>a DEF SameStates, Drain, Pools, history
  <2> QED
    BY <1>1, <2>1
<1>6. CASE /\ \A t \in Tasks : ~Publishes(t) /\ ~Edges(t)
           /\ \A i \in DOMAIN pools : ~Drain(i)
  <2>1. UNCHANGED << pools, runtime, raced >>
    BY <1>6, PoolsUntouched
  <2>2. \A t \in Tasks : pc'[t] = "publish" => pc[t] = "publish" \/ runtime = 0
    <3>1. ASSUME NEW t \in Tasks, Write(t)
          PROVE \A s \in Tasks : pc'[s] = "publish" => pc[s] = "publish"
      BY <3>1, <1>a DEF Write
    <3>2. ASSUME NEW t \in Tasks, MutationStep(t), ~Write(t), ~Swap(t)
          PROVE \A s \in Tasks : pc'[s] = "publish" => pc[s] = "publish"
      BY <3>2, <1>a DEF MutationStep, Begin, Refuse, BeginReload, WriteFails, Load,
         LoadFails, InstallQuarantined, Skip, ReconcileInPlace, Extend, Build, Install,
         Goto
    <3>3. ASSUME NEW t \in Tasks, EnsureStep(t)
          PROVE \A s \in Tasks : pc'[s] = "publish" => pc[s] = "publish" \/ runtime = 0
      BY <3>3, <1>a DEF EnsureStep, ReadConfig, PickPool, WantPool, InitPool,
         PublishPool, SeedPool, Goto
    <3>4. ASSUME NEW t \in Tasks, Cancel(t)
          PROVE \A s \in Tasks : pc'[s] = "publish" => pc[s] = "publish"
      BY <3>4, <1>a DEF Cancel, Goto
    <3>5. CASE UNCHANGED vars \/ \E e \in Edits : EditFile(e[1], e[2])
      BY <3>5 DEF vars, EditFile
    <3> QED
      BY <1>6, <3>1, <3>2, <3>3, <3>4, <3>5 DEF Next, Publishes
  <2> QED
    BY <1>1, <2>1, <2>2 DEF SameStates
<1> QED
    BY <1>2, <1>3, <1>4, <1>5, <1>6 DEF Publishes

GatewayInv == Typed /\ Exclusive /\ Kept /\ Alone

LEMMA GatewayAlways == Spec => []GatewayInv
<1>1. Init => GatewayInv
  <2> SUFFICES ASSUME Init PROVE Exclusive /\ Kept /\ Alone
    BY TypedInit DEF GatewayInv
  <2>1. \A t \in Tasks : pc[t] = "start" /\ \A n \in Names : claim[t][n] = Unknown
    BY DEF Init
  <2>2. \A n \in Names : acked[n] = Unknown
    BY DEF Init
  <2> DEFINE first == Publish(Seed(Empty, memory.up), FALSE, FALSE)
  <2>3. \/ pools = << first >> /\ runtime = 1
        \/ pools = << >> /\ runtime = 0
    BY DEF Init
  <2>4. first.state = "live"
    BY DEF Publish
  <2> HIDE DEF first
  <2>5. OnePoolServes
    BY <2>3, <2>4 DEF OnePoolServes
  <2> QED
    BY <2>1, <2>2, <2>5 DEF Exclusive, Critical, Reloading, Kept, AckedKept, Alone
<1>2. GatewayInv /\ [Next]_vars => GatewayInv'
  <2> SUFFICES ASSUME GatewayInv, [Next]_vars PROVE GatewayInv'
    OBVIOUS
  <2>1. TaskTypes /\ PoolTypes /\ Exclusive /\ Kept /\ Alone
    BY TypedParts DEF GatewayInv
  <2>2. TaskTypes' /\ PoolTypes' /\ Exclusive' /\ Kept' /\ Alone'
    BY <2>1, TaskTypesNext, PoolTypesNext, ExclusiveNext, KeptNext, AloneNext
  <2>3. Typed'
    BY <2>2 DEF Typed, TypeOK, TaskTypes, PoolTypes
  <2> QED
    BY <2>2, <2>3 DEF GatewayInv
<1> QED
    BY <1>1, <1>2, PTL DEF Spec

\* The state stays within its types; in particular a write in flight writes the
\* configuration its task works on, and the migrated one.
THEOREM TypesHold == Spec => []TypeOK
<1>1. GatewayInv => TypeOK
    BY DEF GatewayInv, Typed
<1> QED
    BY <1>1, GatewayAlways, PTL

\* No lost update: what was acknowledged of an upstream stays in the file and in
\* memory until the next operation on it, unless a write that outlived its
\* cancelled request changed that upstream (config_ops.rs, manager.rs:183-216).
THEOREM AckedKeptHolds == Spec => []AckedKept
<1>1. GatewayInv => AckedKept
    BY DEF GatewayInv, Kept
<1> QED
    BY <1>1, GatewayAlways, PTL

\* One pool serves and every other one is drained or being drained, except the
\* ones a lazy start and a reload hid from each other (pool_lifecycle.rs:514-550,
\* code_mode_runtime.rs:210-235).
THEOREM OnePoolServesHolds == Spec => []OnePoolServes
<1>1. GatewayInv => OnePoolServes
    BY DEF GatewayInv, Alone
<1> QED
    BY <1>1, GatewayAlways, PTL

-----------------------------------------------------------------------------
\* What is served.  Between reloads the serving pool has the upstreams of the
\* memory, and between a reload's change of the pool and its install those of the
\* configuration it is about to install, except for the names in lag.
Level(up) ==
    runtime # 0 => \A n \in Names \ lag : pools[runtime].cat[n] = Served(up[n])

\* A reload that has changed the pool and not the memory yet.
Ahead(t) == pc[t] = "install" /\ Kind(t) \notin Installs

InStep ==
    /\ (\A t \in Tasks : ~Ahead(t)) => Level(memory.up)
    /\ \A t \in Tasks : Ahead(t) => Level(cfg[t].up)
    /\ \A t \in Tasks : pc[t] = "extend" =>
         (old[t] = runtime \/ lag = Names) /\ AddOnly(memory, cfg[t])
    /\ \A t \in Tasks :
         pc[t] \in {"write", "install"} /\ Kind(t) \in {"approve", "virtual"} =>
            Moved(memory, cfg[t]) = {}

LEMMA ServedOff == Served(Off) = Absent /\ Served(Absent) = Absent
BY GatewayAssumption DEF Served, Entries

\* An approval and the removal of a virtual server change nothing a pool serves.
LEMMA InstallsServeSame ==
    ASSUME memory \in Configs, job \in Casts, NEW t \in Tasks,
           Kind(t) \in {"approve", "virtual"}, NEW names \in SUBSET Eligible(t),
           (names # {}) <=> (Kind(t) \notin {"settings", "virtual"})
    PROVE  Moved(memory, Edited(t, names)) = {}
<1>1. \A n \in Names : Edited(t, names).up[n] =
                           IF n \in names THEN After(t, memory.up[n]) ELSE memory.up[n]
    BY EditedUp
<1>2. CASE Kind(t) = "virtual"
    BY <1>1, <1>2 DEF Moved
<1>3. CASE Kind(t) = "approve"
  <2>1. ASSUME NEW n \in names PROVE Served(After(t, memory.up[n])) = Served(memory.up[n])
    <3>1. memory.up[n] \in Entries \cup {Absent}
      <4>1. n \in Names /\ memory.up[n] \notin Twice
        BY <1>3, JobType DEF Eligible, Jobs
      <4> QED
        BY <4>1 DEF Configs, Values
    <3>2. After(t, memory.up[n]) = IF memory.up[n] = Absent THEN Off ELSE << memory.up[n], Off >>
      BY <1>3 DEF After
    <3> QED
      BY <3>1, <3>2, ServedOff, ServedTwice DEF Entries
  <2> QED
    BY <1>1, <2>1 DEF Moved
<1> QED
    BY <1>2, <1>3

LEMMA InStepNext ==
    GatewayInv /\ InStep /\ [Next]_vars => InStep'
<1> SUFFICES ASSUME GatewayInv, InStep, [Next]_vars PROVE InStep'
    OBVIOUS
<1>t. TaskTypes /\ PoolTypes
    BY TypedParts DEF GatewayInv
<1>a. /\ pc \in [Tasks -> Phases] /\ job \in Casts /\ None \notin Tasks
      /\ file \in Configs /\ memory \in Configs
      /\ cfg \in [Tasks -> Configs \cup {None}] /\ lag \subseteq Names
      /\ \A t \in Tasks : writes[t] # None => pc[t] \in Writing \cup {"cancelled"}
    BY <1>t, GatewayAssumption DEF TaskTypes
<1>p. /\ runtime \in 0 .. Len(pools) /\ pools \in Seq(Pools)
      /\ DOMAIN pools = 1 .. Len(pools) /\ Len(pools) \in Nat
      /\ \A i \in DOMAIN pools : pools[i] \in Pools
      /\ old \in [Tasks -> 0 .. Len(pools)]
    BY <1>t DEF PoolTypes
<1>b. \A s, t \in Tasks : pc[s] \in Critical /\ pc[t] \in Critical => s = t
    BY DEF GatewayInv, Exclusive
<1>c. lock = None => \A t \in Tasks : pc[t] \notin Critical
    BY <1>a DEF GatewayInv, Exclusive
\* A step that leaves the pools and the memory alone.
<1>1. ASSUME UNCHANGED << pools, runtime, memory, lag, job >>,
             \A t \in Tasks : pc'[t] \in {"install", "write", "extend"} =>
                 /\ cfg'[t] = cfg[t] /\ old'[t] = old[t]
                 /\ \/ pc'[t] = pc[t]
                    \/ pc[t] = "write" /\ pc'[t] = "install" /\ Kind(t) \in Installs,
             \A t \in Tasks : Ahead(t) => pc'[t] = "install"
      PROVE InStep'
  <2>1. \A t \in Tasks : Ahead(t)' <=> Ahead(t)
    BY <1>1 DEF Ahead, Kind
  <2>2. \A t \in Tasks : Ahead(t) => cfg'[t] = cfg[t]
    BY <1>1 DEF Ahead
  <2>3. ASSUME NEW t \in Tasks, pc'[t] = "extend"
        PROVE /\ pc[t] = "extend" /\ old'[t] = old[t]
              /\ AddOnly(memory, cfg[t])' <=> AddOnly(memory, cfg[t])
    BY <1>1, <2>3 DEF AddOnly, Changed
  <2>4. ASSUME NEW t \in Tasks, pc'[t] \in {"write", "install"}
        PROVE /\ pc[t] \in {"write", "install"}
              /\ Moved(memory, cfg[t])' = Moved(memory, cfg[t])
    BY <1>1, <2>4 DEF Moved
  <2> QED
    BY <1>1, <2>1, <2>2, <2>3, <2>4 DEF InStep, Level, Kind
\* The only task past its write after the step brings the pool level.
<1>2. ASSUME NEW t \in Tasks, pc'[t] = "install", Kind(t) \notin Installs, job' = job,
             \A s \in Tasks : s # t => pc'[s] \notin {"install", "write", "extend"},
             Level(cfg[t].up)'
      PROVE InStep'
  <2>1. Ahead(t)' /\ \A s \in Tasks : Ahead(s)' => s = t
    BY <1>2 DEF Ahead, Kind
  <2> QED
    BY <1>2, <2>1 DEF InStep, Kind, Installs
\* No task is past its write and the pool is level.
<1>3. ASSUME \A s \in Tasks : pc'[s] \notin {"install", "write", "extend"},
             Level(memory.up)'
      PROVE InStep'
    BY <1>3 DEF InStep, Ahead
<1> USE DEF Goto, Ended, Writing, stores, serving, locals, history
<1>4. CASE UNCHANGED vars
    BY <1>1, <1>4 DEF vars, Ahead
<1>5. ASSUME NEW t \in Tasks, Begin(t) PROVE InStep'
  <2>1. PICK names \in SUBSET Eligible(t) :
          /\ (names # {}) <=> (Kind(t) \notin {"settings", "virtual"})
          /\ cfg' = [cfg EXCEPT ![t] = Edited(t, names)]
    BY <1>5 DEF Begin
  <2>2. /\ pc' = [pc EXCEPT ![t] = "write"]
        /\ UNCHANGED << memory, pools, runtime, lag, job >>
        /\ \A s \in Tasks : pc[s] \notin Critical
    BY <1>5, <1>c DEF Begin, LockFree
  <2>3. Kind(t) \in {"approve", "virtual"} => Moved(memory, Edited(t, names)) = {}
    BY <1>a, <2>1, InstallsServeSame
  <2>4. /\ cfg'[t] = Edited(t, names)
        /\ \A s \in Tasks : /\ pc'[s] \notin {"install", "extend"}
                            /\ pc'[s] = "write" => s = t
    BY <1>a, <2>1, <2>2 DEF Critical
  <2>5. Level(memory.up)'
    BY <2>2 DEF InStep, Level, Ahead, Critical
  <2>6. Kind(t)' \in {"approve", "virtual"} => Moved(memory, cfg[t])' = {}
    BY <2>2, <2>3, <2>4 DEF Moved, Kind
  <2> QED
    BY <2>4, <2>5, <2>6 DEF InStep, Ahead
<1>6. ASSUME NEW t \in Tasks,
             Refuse(t) \/ BeginReload(t) \/ Load(t) \/ LoadFails(t) \/ Build(t)
      PROVE InStep'
  <2>1. /\ UNCHANGED << pools, runtime, memory, lag, job >>
        /\ pc[t] # "install" /\ pc'[t] \notin {"install", "write", "extend"}
        /\ \A s \in Tasks : s # t => /\ pc'[s] = pc[s] /\ cfg'[s] = cfg[s]
                                     /\ old'[s] = old[s]
    <3>1. CASE Refuse(t) \/ BeginReload(t) \/ LoadFails(t)
      BY <3>1, <1>a DEF Refuse, BeginReload, LoadFails
    <3>2. CASE Load(t)
      BY <3>2, <1>a DEF Load
    <3>3. CASE Build(t)
      BY <3>3, <1>a, <1>p DEF Build
    <3> QED
      BY <1>6, <3>1, <3>2, <3>3
  <2> QED
    BY <1>1, <2>1 DEF Ahead
<1>7. ASSUME NEW t \in Tasks, Write(t) PROVE InStep'
  <2>1. /\ UNCHANGED << pools, runtime, memory, lag, job, cfg, old >>
        /\ \A s \in Tasks : s # t => pc'[s] = pc[s]
    BY <1>7 DEF Write
  <2>2. pc[t] \in Writing \cup {"cancelled"}
    BY <1>7, <1>a DEF Write
  <2>3. \/ pc'[t] \notin {"install", "write", "extend"}
        \/ pc[t] = "write" /\ pc'[t] = "install" /\ Kind(t) \in Installs
    BY <1>7, <1>a, <2>2 DEF Write
  <2> QED
    BY <1>1, <2>1, <2>2, <2>3 DEF Ahead
<1>8. ASSUME NEW t \in Tasks, WriteFails(t) PROVE InStep'
    BY <1>1, <1>8, <1>a DEF WriteFails, Ahead
<1>9. ASSUME NEW t \in Tasks, InstallQuarantined(t) PROVE InStep'
  <2>1. /\ pc[t] = "quarantined" /\ memory' = cfg[t] /\ pc' = [pc EXCEPT ![t] = "diff"]
        /\ lag' = lag \cup Moved(memory, cfg[t]) /\ UNCHANGED << pools, runtime >>
    BY <1>9 DEF InstallQuarantined
  <2>2. \A s \in Tasks : s # t => pc[s] \notin Critical
    BY <1>b, <2>1 DEF Critical
  <2>3. Level(memory.up)
    BY <2>1, <2>2 DEF InStep, Ahead, Critical
  <2>4. Level(memory.up)'
    BY <2>1, <2>3 DEF Level, Moved
  <2> QED
    BY <1>3, <1>a, <2>1, <2>2, <2>4 DEF Critical
<1>10. ASSUME NEW t \in Tasks, pc[t] \in {"diff", "extend", "build"}
       PROVE /\ Level(memory.up) /\ Kind(t) \notin Installs
             /\ \A s \in Tasks : s # t => pc[s] \notin {"install", "write", "extend"}
  <2>1. \A s \in Tasks : s # t => pc[s] \notin Critical
    BY <1>b, <1>10 DEF Critical
  <2>2. Kind(t) \notin Installs
    BY <1>10 DEF GatewayInv, Exclusive, Reloading
  <2> QED
    BY <1>10, <2>1, <2>2 DEF InStep, Ahead, Critical
<1>11. ASSUME NEW t \in Tasks, Skip(t) PROVE InStep'
  <2>1. /\ pc[t] = "diff" /\ pc' = [pc EXCEPT ![t] = "install"]
        /\ Changed(memory, cfg[t]) = {} /\ lag' = lag \cup Hidden(memory, cfg[t])
        /\ UNCHANGED << pools, runtime, cfg, job >>
    BY <1>11 DEF Skip, SamePool
  <2>2. Level(cfg[t].up)'
    BY <1>10, <2>1 DEF Level, Hidden, Moved
  <2> QED
    BY <1>2, <1>10, <1>a, <2>1, <2>2
<1>12. ASSUME NEW t \in Tasks, ReconcileInPlace(t) PROVE InStep'
  <2> DEFINE changed == Changed(memory, cfg[t])
             cat == Without(pools[runtime].cat, changed)
  <2>1. /\ pc[t] = "diff" /\ pc' = [pc EXCEPT ![t] = "extend"]
        /\ runtime # 0 /\ old' = [old EXCEPT ![t] = runtime]
        /\ lag' = lag \ changed /\ AddOnly(memory, cfg[t])
        /\ pools' = [pools EXCEPT ![runtime].cat = cat]
        /\ UNCHANGED << runtime, memory, cfg, job >>
    BY <1>12 DEF ReconcileInPlace, Selective
  <2>2. pools'[runtime].cat = cat
    BY <1>p, <2>1 DEF Pools
  <2>3. \A n \in Names \ lag : pools[runtime].cat[n] = Served(memory.up[n])
    BY <1>10, <2>1 DEF Level
  <2>4. \A n \in Names : cat[n] = IF n \in changed THEN Absent ELSE pools[runtime].cat[n]
    BY DEF Without
  <2>5. \A n \in changed : memory.up[n] = Absent
    BY <2>1 DEF AddOnly
  <2>6. AddOnly(memory, cfg[t])'
    BY <2>1 DEF AddOnly, Changed
  <2> HIDE DEF cat, changed
  <2>7. Level(memory.up)'
    BY <2>1, <2>2, <2>3, <2>4, <2>5, ServedOff DEF Level
  <2>8. \A s \in Tasks : /\ pc'[s] \notin {"install", "write"}
                         /\ pc'[s] = "extend" => s = t
    BY <1>10, <1>a, <2>1
  <2>9. old'[t] = runtime'
    BY <1>p, <2>1
  <2> QED
    BY <2>6, <2>7, <2>8, <2>9 DEF InStep, Ahead
<1>21. ASSUME NEW t \in Tasks, Extend(t) PROVE InStep'
  <2> DEFINE cat == Seed(pools[old[t]].cat, cfg[t].up)
             changed == Changed(memory, cfg[t])
  <2>1. /\ pc[t] = "extend" /\ pc' = [pc EXCEPT ![t] = "install"]
        /\ lag' = lag \cup Hidden(memory, cfg[t])
        /\ pools' = [pools EXCEPT ![old[t]].cat = cat]
        /\ UNCHANGED << runtime, memory, cfg, job >>
    BY <1>21 DEF Extend
  <2>2. /\ old[t] = runtime \/ lag = Names
        /\ \A n \in changed : memory.up[n] = Absent
    BY <2>1 DEF InStep, AddOnly
  <2>3. \A n \in Names : cat[n] = IF pools[old[t]].cat[n] = Absent
                                  THEN Served(cfg[t].up[n]) ELSE pools[old[t]].cat[n]
    BY DEF Seed
  <2>4. ASSUME NEW n \in Names \ lag'
        PROVE /\ n \notin lag
              /\ n \notin changed => Served(memory.up[n]) = Served(cfg[t].up[n])
    BY <2>1, <2>4 DEF Hidden, Moved
  <2> HIDE DEF cat, changed
  <2>5. ASSUME old[t] = runtime, runtime # 0 PROVE Level(cfg[t].up)'
    <3>1. pools'[runtime].cat = cat
      BY <1>p, <2>1, <2>5 DEF Pools
    <3>2. \A n \in Names \ lag : pools[runtime].cat[n] = Served(memory.up[n])
      BY <1>10, <2>1, <2>5 DEF Level
    <3>3. ASSUME NEW n \in Names \ lag' PROVE cat[n] = Served(cfg[t].up[n])
      BY <2>2, <2>3, <2>4, <2>5, <3>2, ServedOff
    <3> QED
      BY <2>1, <3>1, <3>3 DEF Level
  <2>6. ASSUME runtime = 0 \/ lag = Names PROVE Level(cfg[t].up)'
    BY <2>1, <2>6 DEF Level
  <2>7. Level(cfg[t].up)'
    BY <2>2, <2>5, <2>6
  <2> QED
    BY <1>2, <1>10, <1>a, <2>1, <2>7
<1>13. ASSUME NEW t \in Tasks, Swap(t) PROVE InStep'
  <2> DEFINE fresh == Publish(Seed(Empty, cfg[t].up), job[t].owner, FALSE)
  <2>1. /\ pc[t] = "build" /\ pc' = [pc EXCEPT ![t] = "install"]
        /\ runtime' = Len(pools) + 1 /\ cfg' = cfg /\ job' = job /\ lag' = {}
        /\ pools' = Append(Draining(pools, old[t]), fresh)
    BY <1>13 DEF Swap, Swapped
  <2>2. /\ DOMAIN Draining(pools, old[t]) = 1 .. Len(pools)
        /\ Draining(pools, old[t]) \in Seq(Pools)
        /\ Len(Draining(pools, old[t])) = Len(pools)
    <3>1. CASE old[t] = 0
      BY <1>p, <3>1 DEF Draining
    <3>2. CASE old[t] # 0
      <4>1. old[t] \in 1 .. Len(pools)
        BY <1>p, <3>2
      <4> DEFINE dying == [pools[old[t]] EXCEPT !.state = "draining"]
      <4>2. dying \in Pools
        BY <1>p, <4>1 DEF Pools
      <4>3. Draining(pools, old[t]) = [pools EXCEPT ![old[t]] = dying]
        BY <1>p, <3>2, <4>1 DEF Draining
      <4> HIDE DEF dying
      <4> QED
        BY <1>p, <4>1, <4>2, <4>3, ExceptSeq
    <3> QED
      BY <3>1, <3>2
  <2>3. fresh \in Pools
    BY <1>a, EmptyType, SeedType, PublishType, JobType DEF Jobs
  <2>4. \A n \in Names : fresh.cat[n] = Served(cfg[t].up[n])
    BY DEF Publish, Seed, Empty
  <2> HIDE DEF fresh
  <2>5. pools'[runtime'] = fresh
    BY <2>1, <2>2, <2>3, AppendProperties
  <2>6. Level(cfg[t].up)'
    BY <2>1, <2>4, <2>5 DEF Level
  <2> QED
    BY <1>2, <1>10, <1>a, <2>1, <2>6
<1>14. ASSUME NEW t \in Tasks, Install(t) PROVE InStep'
  <2>1. /\ pc[t] = "install" /\ memory' = cfg[t] /\ UNCHANGED << pools, runtime >>
        /\ pc' \in {[pc EXCEPT ![t] = "done"], [pc EXCEPT ![t] = "failed"]}
        /\ lag' = IF Kind(t) = "oauth" THEN lag \cup Moved(memory, cfg[t]) ELSE lag
    BY <1>14 DEF Install
  <2>2. \A s \in Tasks : s # t => pc[s] \notin Critical
    BY <1>b, <2>1 DEF Critical
  <2>3. CASE Kind(t) \notin Installs
    <3>1. Level(cfg[t].up) /\ lag' = lag
      BY <2>1, <2>3 DEF InStep, Ahead, Installs
    <3> QED
      BY <1>3, <1>a, <2>1, <2>2, <3>1 DEF Critical, Level
  <2>4. CASE Kind(t) \in Installs
    <3>1. Level(memory.up)
      BY <2>1, <2>2, <2>4 DEF InStep, Ahead, Critical
    <3>2. \A n \in Names \ lag' : n \notin lag /\ Served(memory.up[n]) = Served(cfg[t].up[n])
      BY <2>1, <2>4 DEF InStep, Installs, Moved
    <3>3. Level(memory.up)'
      BY <2>1, <3>1, <3>2 DEF Level
    <3> QED
      BY <1>3, <1>a, <2>1, <2>2, <3>3 DEF Critical
  <2> QED
    BY <2>3, <2>4
<1>15. ASSUME NEW t \in Tasks, ReadConfig(t) \/ PickPool(t) \/ WantPool(t) \/ InitPool(t)
       PROVE InStep'
    BY <1>1, <1>15, <1>a, <1>p DEF ReadConfig, PickPool, WantPool, InitPool, Ahead
<1>16. ASSUME NEW t \in Tasks, PublishPool(t) PROVE InStep'
  <2>1. /\ lag' = Names /\ UNCHANGED << memory, cfg, job >>
        /\ pc[t] = "publish" /\ pc' = [pc EXCEPT ![t] = "seed"]
    BY <1>16 DEF PublishPool
  <2>2. \A up : runtime' # 0 =>
            \A n \in Names \ lag' : pools'[runtime'].cat[n] = Served(up[n])
    BY <2>1
  <2>3. \A s \in Tasks : s # t => pc'[s] = pc[s]
    BY <2>1
  <2>4. \A s \in Tasks : /\ Moved(memory, cfg[s])' = Moved(memory, cfg[s])
                         /\ AddOnly(memory, cfg[s])' <=> AddOnly(memory, cfg[s])
    BY <2>1 DEF Moved, AddOnly, Changed
  <2>5. pc'[t] = "seed"
    BY <1>a, <2>1
  <2> QED
    BY <2>1, <2>2, <2>3, <2>4, <2>5 DEF InStep, Level, Kind
<1>17. ASSUME NEW t \in Tasks, SeedPool(t) PROVE InStep'
  <2> DEFINE now == pools[old[t]].cat
             seeded == Seed(now, cfg[t].up)
  <2>1. /\ pools' = [pools EXCEPT ![old[t]].cat = seeded]
        /\ lag' = IF old[t] = runtime THEN lag \cup {n \in Names : seeded[n] # now[n]}
                                      ELSE lag
        /\ pc[t] = "seed" /\ pc' = [pc EXCEPT ![t] = "done"]
        /\ UNCHANGED << runtime, memory, cfg, job, old >>
    BY <1>17 DEF SeedPool
  <2>2. ASSUME NEW n \in Names \ lag', runtime # 0
        PROVE n \notin lag /\ pools'[runtime].cat[n] = pools[runtime].cat[n]
    <3> HIDE DEF seeded
    <3> QED
      BY <1>p, <2>1, <2>2 DEF Pools
  <2>3. ASSUME NEW up, Level(up) PROVE runtime' # 0 =>
          \A n \in Names \ lag' : pools'[runtime'].cat[n] = Served(up[n])
    BY <2>1, <2>2, <2>3 DEF Level
  <2>4. lag = Names => lag' = Names
    BY <2>1
  <2> HIDE DEF seeded, now
  <2>5. \A s \in Tasks : /\ Moved(memory, cfg[s])' = Moved(memory, cfg[s])
                         /\ AddOnly(memory, cfg[s])' <=> AddOnly(memory, cfg[s])
                         /\ pc'[s] \in {"install", "write", "extend"} => pc'[s] = pc[s]
                         /\ Ahead(s)' <=> Ahead(s)
    BY <1>a, <2>1 DEF Moved, AddOnly, Changed, Ahead, Kind
  <2>6. (\A s \in Tasks : ~Ahead(s)') => Level(memory.up)'
    BY <2>1, <2>3, <2>5 DEF InStep, Level
  <2>7. \A s \in Tasks : Ahead(s)' => Level(cfg[s].up)'
    BY <2>1, <2>3, <2>5 DEF InStep, Level
  <2> QED
    BY <2>1, <2>4, <2>5, <2>6, <2>7 DEF InStep, Kind
<1>18. ASSUME NEW t \in Tasks, Cancel(t) PROVE InStep'
  <2>1. /\ UNCHANGED << pools, runtime, memory, cfg, job, old >>
        /\ pc' = [pc EXCEPT ![t] = "cancelled"]
        /\ lag' = lag \cup Adrift(t)
    BY <1>18 DEF Cancel
  <2>2. CASE Ahead(t)
    <3>1. \A s \in Tasks : s # t => pc[s] \notin Critical
      BY <1>b, <2>2 DEF Ahead, Critical
    <3>2. Adrift(t) = Moved(memory, cfg[t])
      BY <2>2 DEF Ahead, Adrift
    <3>3. Level(memory.up)'
      BY <2>1, <2>2, <3>2 DEF InStep, Level, Moved
    <3> QED
      BY <1>3, <1>a, <2>1, <3>1, <3>3 DEF Critical
  <2>3. CASE ~Ahead(t)
    <3>1. lag' = lag
      BY <2>1, <2>3 DEF Ahead, Adrift
    <3> QED
      BY <1>1, <1>a, <2>1, <2>3, <3>1 DEF Ahead
  <2> QED
    BY <2>2, <2>3
<1>19. ASSUME NEW i \in DOMAIN pools, Drain(i) PROVE InStep'
  <2>1. /\ pools' = [pools EXCEPT ![i].state = "drained"]
        /\ UNCHANGED << runtime, memory, cfg, job, pc, lag, old >>
    BY <1>19 DEF Drain
  <2>2. runtime # 0 => pools'[runtime].cat = pools[runtime].cat
    BY <1>p, <2>1 DEF Pools
  <2> QED
    BY <2>1, <2>2 DEF InStep, Level, Kind, Ahead, AddOnly, Changed, Moved
<1>20. CASE \E e \in Edits : EditFile(e[1], e[2])
    BY <1>1, <1>20 DEF EditFile, Ahead
<1> QED
    BY <1>4, <1>5, <1>6, <1>7, <1>8, <1>9, <1>11, <1>12, <1>13, <1>14, <1>15, <1>16,
       <1>17, <1>18, <1>19, <1>20, <1>21 DEF Next, MutationStep, EnsureStep

\* What was acknowledged of an upstream is what the serving pool has of it, except
\* for the names known to lag and the ones a late write changed
\* (pool_lifecycle.rs:303-560).
THEOREM AckedServedHolds == Spec => []AckedServed
<1>1. Init => InStep
  <2> SUFFICES ASSUME Init PROVE InStep
    OBVIOUS
  <2>1. \A t \in Tasks : pc[t] = "start"
    BY DEF Init
  <2>2. Level(memory.up)
    <3> DEFINE first == Publish(Seed(Empty, memory.up), FALSE, FALSE)
    <3>1. \/ pools = << first >> /\ runtime = 1
          \/ runtime = 0
      BY DEF Init
    <3>2. \A n \in Names : first.cat[n] = Served(memory.up[n])
      BY DEF Publish, Seed, Empty
    <3> HIDE DEF first
    <3> QED
      BY <3>1, <3>2 DEF Level
  <2> QED
    BY <2>1, <2>2 DEF InStep, Ahead
<1>2. GatewayInv /\ InStep => AckedServed
  <2> SUFFICES ASSUME GatewayInv, InStep, runtime # 0,
                      NEW n \in Names \ (lag \cup late), acked[n] # Unknown
               PROVE  pools[runtime].cat[n] = Served(acked[n])
    BY DEF AckedServed
  <2>1. CASE \A t \in Tasks : ~Ahead(t)
    BY <2>1 DEF InStep, Level, GatewayInv, Kept, AckedKept
  <2>2. ASSUME NEW t \in Tasks, Ahead(t)
        PROVE pools[runtime].cat[n] = Served(acked[n])
    BY <2>2 DEF InStep, Level, Ahead, GatewayInv, Kept, Agrees, Critical
  <2> QED
    BY <2>1, <2>2
<1> QED
    BY <1>1, <1>2, InStepNext, GatewayAlways, PTL DEF Spec
=============================================================================
