--------------------------- MODULE GatewayManager ---------------------------
(***************************************************************************)
(* The gateway manager (crates/labby-gateway/src/gateway: manager.rs,      *)
(* manager/config_ops.rs, manager/pool_lifecycle.rs, manager/imports.rs,   *)
(* manager/virtual_servers.rs, manager/code_mode_runtime.rs,               *)
(* oauth_lifecycle.rs, config.rs, runtime.rs)                              *)
(* and the host's store (crates/labby/src/dispatch/gateway/config_store.rs)*)
(*                                                                         *)
(* One configuration exists three times: in config.toml, in the manager's  *)
(* memory and, as far as upstreams go, in the catalogue of the pool that   *)
(* serves requests.  A mutation edits a copy of the memory under the       *)
(* config_mutation mutex, persists it, and either installs it or reloads:  *)
(* reads the file back, compares it with the memory and keeps, extends or  *)
(* replaces the pool.  A task runs one operation; tasks run between any    *)
(* two awaits of each other, and a request is cancelled at any await.  A   *)
(* write runs on a blocking thread, which cancellation does not stop.      *)
(***************************************************************************)
EXTENDS Integers, Sequences

CONSTANTS
    Tasks,
    Names,          \* of upstreams
    Specs,          \* what the configuration may say of an enabled upstream
    Off,            \* a disabled upstream
    Absent,         \* no upstream of that name
    Unknown,        \* history: nothing acknowledged since the last change
    None,           \* no task, no configuration
    Casts,          \* who runs what: functions from Tasks to Jobs
    Starts,         \* the configurations the process may start with
    Seeded,         \* whether a pool is published at startup: subset of BOOLEAN
    Edits,          \* pairs of a name and what an operator's edit makes of it
    MaxEdits        \* bound: edits of the file by an operator

\* What the configuration says of a name: nothing, an entry, or two entries, of
\* which the second is disabled.
Entries == Specs \cup {Off}
Twice == Entries \X {Off}
Values == Entries \cup {Absent} \cup Twice
Configs == [up : [Names -> Values], settings : BOOLEAN, stale : BOOLEAN]
Kinds == {"add", "update", "remove", "settings",    \* persist, then reload
          "approve", "virtual", "oauth",            \* persist and install
          "reload", "ensure"}
Jobs == [kind : Kinds, names : SUBSET Names, to : Entries, owner : BOOLEAN]
Catalogues == [Names -> Specs \cup {Absent}]
Pools == [cat : Catalogues, owner : BOOLEAN, lazy : BOOLEAN,
          state : {"live", "draining", "drained"}]

ASSUME GatewayAssumption ==
    /\ Off \notin Specs /\ Absent \notin Entries \cup Twice
    /\ Entries \cap Twice = {}
    /\ Unknown \notin Values
    /\ None \notin Tasks /\ None \notin Configs
    /\ Casts \subseteq [Tasks -> Jobs]
    /\ Starts \subseteq Configs
    /\ Seeded \subseteq BOOLEAN
    /\ Edits \subseteq Names \X Values /\ MaxEdits \in Nat

VARIABLES
    file,       \* config.toml
    memory,     \* GatewayManager.config
    pools,      \* every pool ever published
    runtime,    \* GatewayRuntimeHandle.pool: an index of pools, 0 for None
    lock,       \* holder of config_mutation
    initLock,   \* holder of lazy_pool_init
    job,        \* what each task runs
    pc,
    cfg,        \* the configuration a task works on
    old,        \* the pool a task read from the runtime
    writes,     \* the configuration a blocking thread is writing for a task
    edits,
    claim,      \* history: what each task would acknowledge of a name
    acked,      \* history: the value of a name last acknowledged
    late,       \* history: names a write changed after its request was cancelled
    raced,      \* history: pools a lazy start and a reload hid from each other
    lag         \* history: names the serving pool is known to be behind on

stores == << file, memory >>
serving == << pools, runtime >>
locals == << job, cfg, old, claim >>
history == << acked, late, raced, lag >>
vars == << stores, serving, lock, initLock, pc, locals, writes, edits, history >>

-----------------------------------------------------------------------------
\* Configurations and catalogues

\* upstream_fingerprint_map: of two entries the second counts
Fingerprint(v) == IF v \in Twice THEN v[2] ELSE v

\* upstream_changed_names, upstream_changes_are_add_only
Changed(c, d) == {n \in Names : Fingerprint(c.up[n]) # Fingerprint(d.up[n])}
AddOnly(c, d) == Changed(c, d) # {} /\ \A n \in Changed(c, d) : c.up[n] = Absent

\* quarantine_unregistered_virtual_servers
Quarantined(c) == [c EXCEPT !.stale = FALSE]

\* What a catalogue seeded with it has: of two entries the first counts.
Served(v) ==
    IF v \in Specs THEN v
    ELSE IF v \in Twice /\ v[1] \in Specs THEN v[1] ELSE Absent

\* The names a catalogue would have to follow, and the ones among them whose
\* change the comparison does not see.
Moved(c, d) == {n \in Names : Served(c.up[n]) # Served(d.up[n])}
Hidden(c, d) == Moved(c, d) \ Changed(c, d)

\* seed_lazy_upstreams: enabled upstreams the catalogue does not have yet
Seed(cat, up) ==
    [n \in Names |-> IF cat[n] = Absent THEN Served(up[n]) ELSE cat[n]]

Empty == [n \in Names |-> Absent]

Without(cat, names) == [n \in Names |-> IF n \in names THEN Absent ELSE cat[n]]

Publish(cat, owner, lazy) ==
    [cat |-> cat, owner |-> owner, lazy |-> lazy, state |-> "live"]

Init ==
    /\ memory \in Starts
    /\ file = memory
    /\ \E seeded \in Seeded :
          /\ pools = IF seeded THEN << Publish(Seed(Empty, memory.up), FALSE, FALSE) >>
                               ELSE << >>
          /\ runtime = IF seeded THEN 1 ELSE 0
    /\ lock = None /\ initLock = None
    /\ job \in Casts
    /\ pc = [t \in Tasks |-> "start"]
    /\ cfg = [t \in Tasks |-> None]
    /\ old = [t \in Tasks |-> 0]
    /\ writes = [t \in Tasks |-> None]
    /\ edits = 0
    /\ claim = [t \in Tasks |-> [n \in Names |-> Unknown]]
    /\ acked = [n \in Names |-> Unknown]
    /\ late = {} /\ raced = {} /\ lag = {}

-----------------------------------------------------------------------------
Kind(t) == job[t].kind
Goto(t, at) == pc' = [pc EXCEPT ![t] = at]
Ended == {"done", "failed", "cancelled"}
Installs == {"approve", "virtual", "oauth"}
Mutations == {"add", "update", "remove", "settings"} \cup Installs

\* The guards of a task that ends or is dropped.
Unlock(t) == lock' = IF lock = t THEN None ELSE lock
Uninit(t) == initLock' = IF initLock = t THEN None ELSE initLock

\* The names a mutation may change, given the memory it copied: insert_upstream
\* refuses a name that exists (batch_add keeps the others), update_upstream and
\* remove_upstream one that does not, and the OAuth callback leaves one that has an
\* oauth section alone.  approve_pending_import does not look; that a name gets a
\* third entry is left out.
Eligible(t) ==
    {n \in job[t].names :
        CASE Kind(t) = "add" -> memory.up[n] = Absent
          [] Kind(t) = "approve" -> memory.up[n] \notin Twice
          [] Kind(t) = "oauth" -> memory.up[n] # Absent
                                    /\ Served(memory.up[n]) # job[t].to
          [] OTHER -> memory.up[n] # Absent}

\* v with its first entry replaced by e.
First(v, e) == IF v \in Twice THEN << e, v[2] >> ELSE e

\* What the operation makes of a name: a removal takes the first entry, an update
\* edits it, an approval adds a disabled one behind it, and the OAuth callback
\* gives an enabled one an oauth section.
After(t, v) ==
    CASE Kind(t) = "approve" -> IF v = Absent THEN Off ELSE << v, Off >>
      [] Kind(t) = "remove" -> IF v \in Twice THEN v[2] ELSE Absent
      [] Kind(t) = "oauth" /\ Served(v) = Absent -> v
      [] OTHER -> First(v, job[t].to)

\* The edited copy.  "virtual" is remove_virtual_server of the stale server.
Edited(t, names) ==
    CASE Kind(t) = "settings" -> [memory EXCEPT !.settings = ~@]
      [] Kind(t) = "virtual" -> [memory EXCEPT !.stale = FALSE]
      [] OTHER -> [memory EXCEPT !.up = [n \in Names |-> IF n \in names
                                                         THEN After(t, @[n]) ELSE @[n]]]

\* Hands a configuration to the blocking thread.
Persist(t, c) == writes' = [writes EXCEPT ![t] = c]

\* Mutant of LockFree: the mutex is not awaited.
LockIgnored(t) == TRUE
LockFree(t) == lock = None

\* add, batch_add, update, remove, set_code_mode_config, approve_pending_import,
\* remove_virtual_server and the end of complete_upstream_oauth_callback, up to
\* the write.
Begin(t) ==
    /\ pc[t] = "start" /\ Kind(t) \in Mutations
    /\ LockFree(t)
    /\ \E names \in SUBSET Eligible(t) :
          /\ Kind(t) = "virtual" => memory.stale
          /\ (names # {}) <=> (Kind(t) \notin {"settings", "virtual"})
          /\ cfg' = [cfg EXCEPT ![t] = Edited(t, names)]
          /\ Persist(t, Edited(t, names))
          /\ claim' = [claim EXCEPT ![t] = [n \in Names |->
                           IF n \in names THEN After(t, memory.up[n]) ELSE Unknown]]
          /\ acked' = [n \in Names |-> IF n \in names THEN Unknown ELSE acked[n]]
          /\ late' = late \ names
    /\ lock' = t
    /\ Goto(t, "write")
    /\ UNCHANGED << stores, serving, initLock, job, old, edits, raced, lag >>

\* A validation error, a name that is taken or not found: nothing is written.
Refuse(t) ==
    /\ pc[t] = "start" /\ Kind(t) \in Mutations
    /\ LockFree(t)
    /\ Goto(t, "failed")
    /\ UNCHANGED << stores, serving, lock, initLock, locals, writes, edits, history >>

\* reload_with_origin, in the task reload_with_origin_detached spawns.
BeginReload(t) ==
    /\ pc[t] = "start" /\ Kind(t) = "reload"
    /\ LockFree(t)
    /\ lock' = t
    /\ Goto(t, "load")
    /\ UNCHANGED << stores, serving, initLock, locals, writes, edits, history >>

\* The names a write is about to change although its request is gone.
Undone(t) ==
    {n \in Names : pc[t] = "cancelled" /\ file.up[n] # writes[t].up[n]}

\* The blocking thread writes the file; its request goes on if it still exists.
Write(t) ==
    /\ writes[t] # None
    /\ file' = writes[t]
    /\ Persist(t, None)
    /\ pc' = [pc EXCEPT ![t] = CASE @ = "quarantine" -> "quarantined"
                                 [] @ = "write" /\ Kind(t) \in Installs -> "install"
                                 [] @ = "write" /\ Kind(t) \notin Installs -> "load"
                                 [] OTHER -> @]
    /\ late' = late \cup Undone(t)
    /\ UNCHANGED << memory, serving, lock, initLock, locals, edits, acked, raced, lag >>

\* The write fails, before or after the new file has replaced the old one.
WriteFails(t) ==
    /\ writes[t] # None
    /\ \/ UNCHANGED << file, late >>
       \/ file' = writes[t] /\ late' = late \cup Undone(t)
    /\ Persist(t, None)
    /\ pc' = [pc EXCEPT ![t] = IF @ = "cancelled" THEN @ ELSE "failed"]
    /\ Unlock(t)
    /\ UNCHANGED << memory, serving, initLock, locals, edits, acked, raced, lag >>

\* validate_upstreams: no name appears more than once.
Valid(c) == \A n \in Names : c.up[n] \notin Twice

\* Mutant of Load: the configuration is persisted as it was before the migration.
LoadPersistsStale(t) ==
    /\ pc[t] = "load" /\ Valid(file)
    /\ cfg' = [cfg EXCEPT ![t] = Quarantined(file)]
    /\ IF file.stale
       THEN Persist(t, file) /\ Goto(t, "quarantine")
       ELSE Goto(t, "diff") /\ UNCHANGED writes
    /\ UNCHANGED << stores, serving, lock, initLock, job, old, claim, edits, history >>

\* load_gateway_config; the result is persisted first if a virtual server of it
\* was quarantined.
Load(t) ==
    /\ pc[t] = "load" /\ Valid(file)
    /\ cfg' = [cfg EXCEPT ![t] = Quarantined(file)]
    /\ IF file.stale
       THEN Persist(t, Quarantined(file)) /\ Goto(t, "quarantine")
       ELSE Goto(t, "diff") /\ UNCHANGED writes
    /\ UNCHANGED << stores, serving, lock, initLock, job, old, claim, edits, history >>

LoadFails(t) ==
    /\ pc[t] = "load"
    /\ Goto(t, "failed")
    /\ Unlock(t)
    /\ UNCHANGED << stores, serving, initLock, locals, writes, edits, history >>

\* The end of persist_config after a quarantine: the memory the comparison is
\* about to read is replaced.
InstallQuarantined(t) ==
    /\ pc[t] = "quarantined"
    /\ memory' = cfg[t]
    /\ lag' = lag \cup Moved(memory, cfg[t])
    /\ Goto(t, "diff")
    /\ UNCHANGED << file, serving, lock, initLock, locals, writes, edits,
                    acked, late, raced >>

\* pool_settings_fingerprint
Inputs(t) == memory.settings = cfg[t].settings
\* Mutant of SamePool: only the names of the upstreams are compared.
SamePoolByName(t) ==
    Inputs(t) /\ runtime # 0
        /\ \A n \in Names : memory.up[n] = Absent <=> cfg[t].up[n] = Absent
SamePool(t) == Inputs(t) /\ runtime # 0 /\ Changed(memory, cfg[t]) = {}
Selective(t) == Inputs(t) /\ runtime # 0 /\ AddOnly(memory, cfg[t])
                    /\ pools[runtime].owner = job[t].owner

\* The live pool is preserved.
Skip(t) ==
    /\ pc[t] = "diff" /\ SamePool(t)
    /\ lag' = lag \cup Hidden(memory, cfg[t])
    /\ Goto(t, "install")
    /\ UNCHANGED << stores, serving, lock, initLock, locals, writes, edits,
                    acked, late, raced >>

\* reconcile_lazy_upstreams of the live pool: what it has of the new upstreams is
\* removed ...
ReconcileInPlace(t) ==
    LET changed == Changed(memory, cfg[t]) IN
    /\ pc[t] = "diff" /\ ~SamePool(t) /\ Selective(t)
    /\ old' = [old EXCEPT ![t] = runtime]
    /\ pools' = [pools EXCEPT ![runtime].cat = Without(@, changed)]
    /\ lag' = lag \ changed
    /\ Goto(t, "extend")
    /\ UNCHANGED << stores, runtime, lock, initLock, job, cfg, claim, writes, edits,
                    acked, late, raced >>

\* ... and after the locks of their connects, all that it lacks is seeded.
Extend(t) ==
    /\ pc[t] = "extend"
    /\ pools' = [pools EXCEPT ![old[t]].cat = Seed(@, cfg[t].up)]
    /\ lag' = lag \cup Hidden(memory, cfg[t])
    /\ Goto(t, "install")
    /\ UNCHANGED << stores, runtime, lock, initLock, locals, writes, edits,
                    acked, late, raced >>

\* A fresh pool is built and probed while the old one serves.
Build(t) ==
    /\ pc[t] = "diff" /\ ~SamePool(t) /\ ~Selective(t)
    /\ old' = [old EXCEPT ![t] = runtime]
    /\ Goto(t, "build")
    /\ UNCHANGED << stores, serving, lock, initLock, job, cfg, claim, writes,
                    edits, history >>

Draining(ps, i) == IF i = 0 THEN ps ELSE [ps EXCEPT ![i].state = "draining"]

\* The fresh pool is published, and a task that no cancellation reaches is
\* spawned to drain the one read before.
Swapped(t) ==
    pools' = Append(Draining(pools, old[t]),
                    Publish(Seed(Empty, cfg[t].up), job[t].owner, FALSE))

Swap(t) ==
    /\ pc[t] = "build"
    /\ Swapped(t)
    /\ runtime' = Len(pools) + 1
    /\ raced' = IF runtime = old[t] THEN raced ELSE raced \cup {runtime}
    /\ lag' = {}
    /\ Goto(t, "install")
    /\ UNCHANGED << stores, lock, initLock, locals, writes, edits, acked, late >>

\* The new configuration becomes the memory and the caller is answered, with an
\* error if the state of the child processes could not be recorded.  The pool is
\* not told of an oauth section.
Install(t) ==
    /\ pc[t] = "install"
    /\ memory' = cfg[t]
    /\ Unlock(t)
    /\ \/ /\ Goto(t, "done")
          /\ acked' = [n \in Names |-> IF claim[t][n] # Unknown THEN claim[t][n]
                                                              ELSE acked[n]]
       \/ /\ Kind(t) \notin Installs
          /\ Goto(t, "failed")
          /\ UNCHANGED acked
    /\ lag' = IF Kind(t) = "oauth" THEN lag \cup Moved(memory, cfg[t]) ELSE lag
    /\ UNCHANGED << file, serving, initLock, locals, writes, edits, late, raced >>

-----------------------------------------------------------------------------
\* Requests that need an upstream: ensure_lazy_upstream_pool

ReadConfig(t) ==
    /\ pc[t] = "start" /\ Kind(t) = "ensure"
    /\ cfg' = [cfg EXCEPT ![t] = memory]
    /\ Goto(t, "pick")
    /\ UNCHANGED << stores, serving, lock, initLock, job, old, claim, writes,
                    edits, history >>

PickPool(t) ==
    /\ pc[t] = "pick" /\ runtime # 0
    /\ old' = [old EXCEPT ![t] = runtime]
    /\ Goto(t, "seed")
    /\ UNCHANGED << stores, serving, lock, initLock, job, cfg, claim, writes,
                    edits, history >>

WantPool(t) ==
    /\ pc[t] = "pick" /\ runtime = 0
    /\ Goto(t, "init")
    /\ UNCHANGED << stores, serving, lock, initLock, locals, writes, edits, history >>

\* Mutant of InitPool: what another request published meanwhile is not noticed.
InitPoolBlind(t) ==
    /\ pc[t] = "init" /\ initLock = None
    /\ initLock' = t
    /\ Goto(t, "publish")
    /\ UNCHANGED << stores, serving, lock, locals, writes, edits, history >>

\* The second look, under lazy_pool_init.
InitPool(t) ==
    /\ pc[t] = "init" /\ initLock = None
    /\ initLock' = t
    /\ old' = [old EXCEPT ![t] = runtime]
    /\ Goto(t, IF runtime = 0 THEN "publish" ELSE "seed")
    /\ UNCHANGED << stores, serving, lock, job, cfg, claim, writes, edits, history >>

\* A reload does not take lazy_pool_init: it may have published since.  The lazy
\* pool has no upstream until requests seed them.
PublishPool(t) ==
    /\ pc[t] = "publish"
    /\ pools' = Append(pools, Publish(Empty, job[t].owner, TRUE))
    /\ runtime' = Len(pools) + 1
    /\ old' = [old EXCEPT ![t] = Len(pools) + 1]
    /\ raced' = IF runtime # 0 /\ ~pools[runtime].lazy THEN raced \cup {runtime}
                                                       ELSE raced
    /\ lag' = Names
    /\ Goto(t, "seed")
    /\ UNCHANGED << stores, lock, initLock, job, cfg, claim, writes, edits,
                    acked, late >>

\* The configuration read at the start is seeded, whatever the memory is now.
SeedPool(t) ==
    LET now == pools[old[t]].cat
        seeded == Seed(now, cfg[t].up) IN
    /\ pc[t] = "seed"
    /\ pools' = [pools EXCEPT ![old[t]].cat = seeded]
    /\ lag' = IF old[t] = runtime THEN lag \cup {n \in Names : seeded[n] # now[n]}
                                  ELSE lag
    /\ Uninit(t)
    /\ Goto(t, "done")
    /\ UNCHANGED << stores, runtime, lock, locals, writes, edits, acked, late, raced >>

-----------------------------------------------------------------------------
\* The names in which the pool is ahead of the memory until the install.
Adrift(t) ==
    {n \in Moved(memory, cfg[t]) : pc[t] = "install" /\ Kind(t) \notin Installs}

\* Mutant of Cancel: the mutex is not released by unwinding.
CancelKeepsLock(t) ==
    /\ pc[t] \notin Ended \cup {"start"} /\ Kind(t) # "reload"
    /\ lag' = lag \cup Adrift(t)
    /\ Goto(t, "cancelled")
    /\ UNCHANGED << stores, serving, lock, initLock, locals, writes, edits,
                    acked, late, raced >>

\* The request is dropped by its timeout or its client.  The detached reload has
\* no request; a write in flight goes on.
Cancel(t) ==
    /\ pc[t] \notin Ended \cup {"start"} /\ Kind(t) # "reload"
    /\ lag' = lag \cup Adrift(t)
    /\ Unlock(t) /\ Uninit(t)
    /\ Goto(t, "cancelled")
    /\ UNCHANGED << stores, serving, locals, writes, edits, acked, late, raced >>

\* drain_for_swap of a superseded pool, in its own task.
Drain(i) ==
    /\ pools[i].state = "draining"
    /\ pools' = [pools EXCEPT ![i].state = "drained"]
    /\ UNCHANGED << stores, runtime, lock, initLock, pc, locals, writes, edits,
                    history >>

\* An operator edits config.toml.
EditFile(n, v) ==
    /\ edits < MaxEdits
    /\ edits' = edits + 1
    /\ file' = [file EXCEPT !.up[n] = v]
    /\ acked' = [acked EXCEPT ![n] = Unknown]
    /\ claim' = [t \in Tasks |-> [claim[t] EXCEPT ![n] = Unknown]]
    /\ UNCHANGED << memory, serving, lock, initLock, pc, job, cfg, old, writes,
                    late, raced, lag >>

MutationStep(t) ==
    \/ Begin(t) \/ Refuse(t) \/ BeginReload(t)
    \/ Write(t) \/ WriteFails(t)
    \/ Load(t) \/ LoadFails(t) \/ InstallQuarantined(t)
    \/ Skip(t) \/ ReconcileInPlace(t) \/ Extend(t) \/ Build(t) \/ Swap(t)
    \/ Install(t)

EnsureStep(t) ==
    \/ ReadConfig(t) \/ PickPool(t) \/ WantPool(t)
    \/ InitPool(t) \/ PublishPool(t) \/ SeedPool(t)

\* Every task runs one operation and stops.
Next ==
    \/ \E t \in Tasks : MutationStep(t) \/ EnsureStep(t) \/ Cancel(t)
    \/ \E i \in DOMAIN pools : Drain(i)
    \/ \E e \in Edits : EditFile(e[1], e[2])

\* The tasks are scheduled, connects and file operations return.
Fairness ==
    /\ \A t \in Tasks : WF_vars(MutationStep(t) \/ EnsureStep(t))
    /\ WF_vars(\E i \in DOMAIN pools : Drain(i))

Spec == Init /\ [][Next]_vars /\ Fairness

-----------------------------------------------------------------------------
Phases == {"start", "write", "load", "quarantine", "quarantined", "diff", "extend",
           "build", "install", "pick", "init", "publish", "seed"} \cup Ended

TypeOK ==
    /\ file \in Configs /\ memory \in Configs
    /\ pools \in Seq(Pools) /\ runtime \in 0 .. Len(pools)
    /\ lock \in Tasks \cup {None} /\ initLock \in Tasks \cup {None}
    /\ job \in Casts
    /\ pc \in [Tasks -> Phases]
    /\ \A t \in Tasks : \/ cfg[t] \in Configs
                        \/ cfg[t] = None /\ pc[t] \in {"start", "load"} \cup Ended
    /\ old \in [Tasks -> 0 .. Len(pools)]
    /\ \A t \in Tasks : writes[t] \in {None, cfg[t]}
    /\ \A t \in Tasks : pc[t] \in {"write", "quarantine"} => writes[t] = cfg[t]
    /\ edits \in 0 .. MaxEdits
    /\ claim \in [Tasks -> [Names -> Values \cup {Unknown}]]
    /\ acked \in [Names -> Values \cup {Unknown}]
    /\ late \subseteq Names /\ raced \subseteq DOMAIN pools /\ lag \subseteq Names

\* No lost update: what a mutation acknowledged of an upstream stays in the file
\* and in memory until the next operation on that upstream, whatever other
\* mutations, reloads, failures and cancellations happen between.  Only for a name
\* in late can it be undone: a write that outlived its cancelled request changed
\* that name in the file.
AckedKept ==
    \A n \in Names \ late :
        acked[n] # Unknown => memory.up[n] = acked[n] /\ file.up[n] = acked[n]

\* What was acknowledged of an upstream is what the serving pool has of it,
\* whichever way the reload took, except for the names in late and the ones in
\* lag: the pool was started lazily and no reload touched the name since, a
\* quarantine replaced the memory before it was compared, a request seeded the
\* upstream from a configuration it had read before, a request was cancelled
\* between the swap and the install, the upstream was given an oauth section, or
\* the second entry of the name hid the change from the comparison.
AckedServed ==
    runtime # 0 => \A n \in Names \ (lag \cup late) :
        acked[n] # Unknown => pools[runtime].cat[n] = Served(acked[n])

\* Exactly one pool serves: it is not drained, and every other pool ever
\* published is drained or owned by the task that drains it, also when the
\* reload was cancelled right after the swap.
OnePoolServes ==
    \A i \in DOMAIN pools \ raced : (pools[i].state = "live") <=> (i = runtime)

\* Every operation ends: the two mutexes are released on every path.
OperationsEnd == \A t \in Tasks : <>(pc[t] \in Ended)

\* A removed upstream leaves the pool ("removed upstreams must rebuild the pool
\* to avoid stale runtime state").
RemovedLeavesPool ==
    \A n \in Names : acked[n] = Absent => runtime = 0 \/ pools[runtime].cat[n] = Absent
=============================================================================
