--------------------------- MODULE UpstreamOauth ----------------------------
(***************************************************************************)
(* The OAuth credential the gateway keeps for one upstream and one subject *)
(* (crates/labby-auth/src/upstream: manager.rs, store.rs, refresh.rs;      *)
(* sqlite.rs; crates/labby-gateway/src/gateway/oauth_lifecycle.rs;         *)
(* crates/labby/src/api: upstream_oauth.rs, router.rs).                    *)
(*                                                                         *)
(* An authorization registers a client, hands out a URL and, when the      *)
(* browser comes back, exchanges the code and stores the tokens.  Building *)
(* a client for a connection and checking the status refresh the tokens    *)
(* under a mutex of the upstream's manager; a client in use refreshes them *)
(* without it, and neither the callback nor the deletion of the credential *)
(* takes it.  A reload that finds the upstream changed replaces its        *)
(* manager, and with it the mutex and the record of failures, while        *)
(* requests go on with the old one.  Every statement of SQLite and every   *)
(* call of the authorization server is an await: any other request runs    *)
(* there, and the request may be dropped.                                  *)
(***************************************************************************)
EXTENDS Integers

CONSTANTS
    Flows,          \* authorizations; also their states and registrations
    Callbacks,      \* requests to the callback route
    Builders,       \* calls of build_auth_client and build_auth_client_with
    Checkers,       \* calls of upstream_oauth_status
    Clears,         \* calls of clear_upstream_credentials
    Casts,          \* requests that run beside each other, and their managers
    Old,            \* the grant stored by an earlier process, and its client
    MaxManagers,    \* bound: managers of the upstream in one behaviour
    None

Managers == 1..MaxManagers
Modes == {"dynamic", "preregistered"}
Workers == Builders \cup Checkers
Requests == Flows \cup Callbacks \cup Workers \cup Clears
Grants == Flows \cup {Old}
Clients == Flows \cup {Old}     \* in mode "preregistered" Old is the only one
Tokens == [grant : Grants, client : Clients, gen : Nat]
Ages == 0..2                    \* more than 300 s, at most 300 s, at most 30 s left
Rows == [token : Tokens, client : Clients, age : Ages]

FlowPCs == {"idle", "registered", "saved", "url", "open", "failed"}
CallbackPCs == {"idle", "owned", "configured", "taken", "granted", "stored",
                "refused", "done", "gone"}
WorkerPCs == {"idle", "wait", "locked", "ready", "row", "expiry", "token",
              "send", "save", "kept", "refused", "client", "late", "done", "gone"}
ClearPCs == {"idle", "failures", "rows", "done"}

ASSUME OauthAssumption ==
    /\ Old \notin Flows /\ None \notin Grants /\ None \notin Workers
    /\ None \notin Tokens /\ None \notin Rows
    /\ Builders \cap Checkers = {}
    /\ MaxManagers \in Nat
    /\ Casts \subseteq [run : SUBSET Requests, first : Managers,
                        mode : [Managers -> Modes]]

VARIABLES
    manager,        \* the upstream's manager
    mode,           \* what each manager's configuration says of registration
    row,            \* upstream_oauth_credentials of the upstream and subject
    reg,            \* upstream_oauth_dynamic_clients: the client registered last
    states,         \* upstream_oauth_state: rows that have not expired
    lock,           \* holder of each manager's refresh lock
    failed,         \* RefreshFailureCache: a failure younger than the cooldown
    fpc, url,       \* an authorization, and the client its URL names
    cpc, cmgr, cflow, cclient,
    wpc, wmgr, wclient, token, due,
    clr,
    live,           \* authorization server: the generation a grant accepts, or -1
    exchanged,      \* history: how often the code of a flow was presented
    unsure          \* history: grants revoked, refreshed without the lock, or
                    \* refreshed by a call whose tokens may not have been stored

tables == << row, reg, states >>
registry == << manager, mode >>
memory == << registry, lock, failed >>
flows == << fpc, url >>
arguments == << cmgr, cflow, cclient >>
callbacks == << cpc, arguments >>
locals == << wmgr, wclient, token, due >>
workers == << wpc, locals >>
server == << live, exchanged, unsure >>
vars == << tables, memory, flows, callbacks, workers, clr, server >>

-----------------------------------------------------------------------------
\* What is stored by SqliteCredentialStore::save
Stored(t, c) == [token |-> t, client |-> c, age |-> 0]

OldToken == [grant |-> Old, client |-> Old, gen |-> 0]

Init ==
    /\ \E cast \in Casts :
          /\ manager = cast.first /\ mode = cast.mode
          /\ fpc = [f \in Flows |-> IF f \in cast.run THEN "idle" ELSE "failed"]
          /\ cpc = [k \in Callbacks |-> IF k \in cast.run THEN "idle" ELSE "gone"]
          /\ wpc = [w \in Workers |-> IF w \in cast.run THEN "idle" ELSE "gone"]
          /\ clr = [c \in Clears |-> IF c \in cast.run THEN "idle" ELSE "done"]
    /\ \/ row = None /\ reg = None /\ live = [g \in Grants |-> -1]
       \/ /\ row \in {[Stored(OldToken, Old) EXCEPT !.age = a] : a \in Ages}
          /\ reg = IF mode[manager] = "dynamic" THEN Old ELSE None
          /\ live = [g \in Grants |-> IF g = Old THEN 0 ELSE -1]
    /\ states = {}
    /\ lock = [m \in Managers |-> None] /\ failed = [m \in Managers |-> FALSE]
    /\ url = [f \in Flows |-> None]
    /\ cmgr = [k \in Callbacks |-> manager] /\ wmgr = [w \in Workers |-> manager]
    /\ cflow = [k \in Callbacks |-> None]
    /\ cclient = [k \in Callbacks |-> None]
    /\ wclient = [w \in Workers |-> None]
    /\ token = [w \in Workers |-> None]
    /\ due = [w \in Workers |-> FALSE]
    /\ exchanged = [f \in Flows |-> 0] /\ unsure = {}

-----------------------------------------------------------------------------
\* begin_authorization

FlowAt(f, at) == fpc' = [fpc EXCEPT ![f] = at]

\* register_client at the authorization server, or the configured client.
Begin(f) ==
    /\ fpc[f] = "idle"
    /\ \/ mode[manager] = "dynamic" /\ FlowAt(f, "registered") /\ UNCHANGED url
       \/ /\ mode[manager] = "preregistered"
          /\ FlowAt(f, "url") /\ url' = [url EXCEPT ![f] = Old]
    /\ UNCHANGED << tables, memory, callbacks, workers, clr, server >>

\* save_dynamic_client_registration: the last registration replaces the others.
SaveRegistration(f) ==
    /\ fpc[f] = "registered" /\ FlowAt(f, "saved")
    /\ reg' = f
    /\ UNCHANGED << row, states, memory, url, callbacks, workers, clr, server >>

\* The URL names the client the table has now.
ReadBack(f) ==
    /\ fpc[f] = "saved"
    /\ \/ reg = None /\ FlowAt(f, "failed") /\ UNCHANGED url
       \/ reg # None /\ FlowAt(f, "url") /\ url' = [url EXCEPT ![f] = reg]
    /\ UNCHANGED << tables, memory, callbacks, workers, clr, server >>

\* get_authorization_url stores the state; the URL is then returned.
SaveState(f) ==
    /\ fpc[f] = "url" /\ FlowAt(f, "open")
    /\ states' = states \cup {f}
    /\ UNCHANGED << row, reg, memory, url, callbacks, workers, clr, server >>

\* An error of any step, or the request is dropped.
BeginFails(f) ==
    /\ fpc[f] \in {"idle", "registered", "saved", "url"} /\ FlowAt(f, "failed")
    /\ UNCHANGED << tables, memory, url, callbacks, workers, clr, server >>

-----------------------------------------------------------------------------
\* callback

CallbackAt(k, at) == cpc' = [cpc EXCEPT ![k] = at]

\* find_upstream_oauth_state_owner; the browser may send one callback twice.
FindOwner(k) ==
    /\ cpc[k] = "idle"
    /\ \E f \in Flows :
          /\ fpc[f] = "open"
          /\ cflow' = [cflow EXCEPT ![k] = f]
          /\ CallbackAt(k, IF f \in states THEN "owned" ELSE "done")
    /\ UNCHANGED << tables, memory, flows, cmgr, cclient, workers, clr, server >>

\* The server answered with an error or without a code.
CallbackWithoutCode(k) ==
    /\ cpc[k] = "owned" /\ CallbackAt(k, "done")
    /\ states' = states \ {cflow[k]}
    /\ UNCHANGED << row, reg, memory, flows, arguments, workers, clr, server >>

\* configured_authorization_manager for CompleteAuthorization: the client is the
\* one registered last, whichever one the URL named.
Configure(k) ==
    /\ cpc[k] = "owned"
    /\ cmgr' = [cmgr EXCEPT ![k] = manager]
    /\ LET c == IF mode[manager] = "dynamic" THEN reg ELSE Old
       IN  \/ CallbackAt(k, "refused") /\ UNCHANGED cclient
           \/ /\ c # None
              /\ CallbackAt(k, "configured") /\ cclient' = [cclient EXCEPT ![k] = c]
    /\ UNCHANGED << tables, memory, flows, cflow, workers, clr, server >>

\* Mutant of TakeState: a state that is gone is taken to have been valid.
TakeStateUnchecked(k) ==
    /\ cpc[k] = "configured" /\ CallbackAt(k, "taken")
    /\ states' = states \ {cflow[k]}
    /\ UNCHANGED << row, reg, memory, flows, arguments, workers, clr, server >>

\* SqliteStateStore::load: DELETE ... RETURNING
TakeState(k) ==
    /\ cpc[k] = "configured"
    /\ CallbackAt(k, IF cflow[k] \in states THEN "taken" ELSE "refused")
    /\ states' = states \ {cflow[k]}
    /\ UNCHANGED << row, reg, memory, flows, arguments, workers, clr, server >>

\* The server accepts a code once, from the client it was issued to; the call
\* may fail.
Exchange(k) ==
    LET f == cflow[k]
    IN  /\ cpc[k] = "taken"
        /\ exchanged' = [exchanged EXCEPT ![f] = @ + 1]
        /\ \/ CallbackAt(k, "refused") /\ UNCHANGED live
           \/ /\ exchanged[f] = 0 /\ cclient[k] = url[f]
              /\ CallbackAt(k, "granted") /\ live' = [live EXCEPT ![f] = 0]
        /\ UNCHANGED << tables, memory, flows, arguments, workers, clr, unsure >>

\* Mutants of StoreGrant: the client is read again from the registration, without
\* or with a look at whether there is one.
StoreGrantReread(k) ==
    /\ cpc[k] = "granted" /\ CallbackAt(k, "stored")
    /\ row' = Stored([grant |-> cflow[k], client |-> cclient[k], gen |-> 0], reg)
    /\ UNCHANGED << reg, states, memory, flows, arguments, workers, clr, server >>

StoreGrantNewest(k) ==
    /\ cpc[k] = "granted" /\ CallbackAt(k, "stored")
    /\ row' = Stored([grant |-> cflow[k], client |-> cclient[k], gen |-> 0],
                     IF reg = None THEN cclient[k] ELSE reg)
    /\ UNCHANGED << reg, states, memory, flows, arguments, workers, clr, server >>

\* SqliteCredentialStore::save, without the refresh lock.
StoreGrant(k) ==
    /\ cpc[k] = "granted" /\ CallbackAt(k, "stored")
    /\ row' = Stored([grant |-> cflow[k], client |-> cclient[k], gen |-> 0], cclient[k])
    /\ UNCHANGED << reg, states, memory, flows, arguments, workers, clr, server >>

\* refresh_failures.clear
Granted(k) ==
    /\ cpc[k] = "stored" /\ CallbackAt(k, "done")
    /\ failed' = [failed EXCEPT ![cmgr[k]] = FALSE]
    /\ UNCHANGED << tables, registry, lock, flows, arguments, workers, clr, server >>

\* Mutant of Refused: the state is left to expire.
RefusedKept(k) ==
    /\ cpc[k] = "refused" /\ CallbackAt(k, "done")
    /\ UNCHANGED << tables, memory, flows, arguments, workers, clr, server >>

\* delete_upstream_oauth_state_by_csrf after a failure
Refused(k) ==
    /\ cpc[k] = "refused" /\ CallbackAt(k, "done")
    /\ states' = states \ {cflow[k]}
    /\ UNCHANGED << row, reg, memory, flows, arguments, workers, clr, server >>

\* The request is dropped, or SQLite fails.
DropCallback(k) ==
    /\ cpc[k] \notin {"idle", "done", "gone"} /\ CallbackAt(k, "gone")
    /\ UNCHANGED << tables, memory, flows, arguments, workers, clr, server >>

-----------------------------------------------------------------------------
\* build_auth_client, build_auth_client_with, refresh_auth_client

At(w, at) == wpc' = [wpc EXCEPT ![w] = at]
Holds(w) == lock[wmgr[w]] = w
Unlock(w) == lock' = IF Holds(w) THEN [lock EXCEPT ![wmgr[w]] = None] ELSE lock

\* The end of a call that returns an error without having tried a refresh.
GiveUp(w) == At(w, "done") /\ Unlock(w)

\* A request takes the manager of the moment.  upstream_oauth_status reads the
\* row, without the lock, and refreshes a token with at most 300 s left.
Start(w) ==
    /\ wpc[w] = "idle"
    /\ wmgr' = [wmgr EXCEPT ![w] = manager]
    /\ At(w, IF w \in Builders \/ (row # None /\ row.age > 0) THEN "wait" ELSE "done")
    /\ UNCHANGED << tables, memory, flows, callbacks, wclient, token, due, clr, server >>

\* Mutant of Lock: the mutex is not awaited.
LockSeized(w) ==
    /\ wpc[w] = "wait" /\ At(w, "locked")
    /\ lock' = [lock EXCEPT ![wmgr[w]] = w]
    /\ UNCHANGED << tables, registry, failed, flows, callbacks, locals, clr, server >>

Lock(w) ==
    /\ wpc[w] = "wait" /\ At(w, "locked")
    /\ lock[wmgr[w]] = None /\ lock' = [lock EXCEPT ![wmgr[w]] = w]
    /\ UNCHANGED << tables, registry, failed, flows, callbacks, locals, clr, server >>

\* configured_authorization_manager and initialize_from_store need a row.
Prepare(w) ==
    /\ wpc[w] = "locked"
    /\ \/ GiveUp(w)
       \/ row # None /\ At(w, "ready") /\ UNCHANGED lock
    /\ UNCHANGED << tables, registry, failed, flows, callbacks, locals, clr, server >>

\* reconfigure_client_after_store_init reads the row once more for its client.
Reconfigure(w) ==
    /\ wpc[w] = "ready"
    /\ \/ GiveUp(w) /\ UNCHANGED wclient
       \/ /\ mode[wmgr[w]] = "dynamic" => row # None
          /\ wclient' = [wclient EXCEPT ![w] =
                            IF mode[wmgr[w]] = "dynamic" THEN row.client ELSE Old]
          /\ At(w, IF w \in Builders THEN "row" ELSE "token") /\ UNCHANGED lock
    /\ UNCHANGED << tables, registry, failed, flows, callbacks, wmgr, token, due, clr,
                    server >>

\* credential_row and TokenRefreshState::refresh_due
ReadExpiry(w) ==
    /\ wpc[w] = "row" /\ At(w, "expiry")
    /\ due' = [due EXCEPT ![w] = row # None /\ row.age = 2]
    /\ UNCHANGED << tables, memory, flows, callbacks, wmgr, wclient, token, clr, server >>

\* Mutant of CheckCooldown: the record of the manager of the moment is read.
CheckCooldownNewest(w) ==
    /\ wpc[w] = "expiry"
    /\ \/ due[w] /\ failed[manager] /\ GiveUp(w)
       \/ ~(due[w] /\ failed[manager]) /\ At(w, "token") /\ UNCHANGED lock
    /\ UNCHANGED << tables, registry, failed, flows, callbacks, locals, clr, server >>

\* recently_failed
CheckCooldown(w) ==
    /\ wpc[w] = "expiry"
    /\ \/ due[w] /\ failed[wmgr[w]] /\ GiveUp(w)
       \/ ~(due[w] /\ failed[wmgr[w]]) /\ At(w, "token") /\ UNCHANGED lock
    /\ UNCHANGED << tables, registry, failed, flows, callbacks, locals, clr, server >>

\* get_access_token and refresh_token load the row: the first refreshes a token
\* with at most 30 s left, the second any.
LoadToken(w) ==
    /\ wpc[w] = "token"
    /\ \/ row = None /\ At(w, "refused") /\ UNCHANGED token
       \/ /\ row # None /\ w \in Builders /\ row.age < 2
          /\ At(w, "kept") /\ UNCHANGED token
       \/ /\ row # None /\ (w \in Checkers \/ row.age = 2)
          /\ At(w, "send") /\ token' = [token EXCEPT ![w] = row.token]
    /\ UNCHANGED << tables, memory, flows, callbacks, wmgr, wclient, due, clr, server >>

\* A client in use asks for its token before every request; the lock is free or
\* someone else's.  One refresh of each client is followed.
UseClient(w) ==
    /\ wpc[w] = "client" /\ row # None /\ row.age = 2
    /\ At(w, "send") /\ token' = [token EXCEPT ![w] = row.token]
    /\ UNCHANGED << tables, memory, flows, callbacks, wmgr, wclient, due, clr, server >>

\* The server accepts the latest refresh token of a grant, from its client.
Accepted(w) == live[token[w].grant] = token[w].gen /\ wclient[w] = token[w].client
Rotate(w) == live' = [live EXCEPT ![token[w].grant] = @ + 1]
Doubt(w) == unsure' = unsure \cup {token[w].grant}

\* The refresh at the server: it answers, refuses, is not reached, or its answer
\* is lost or cannot be stored.
Send(w) ==
    /\ wpc[w] = "send"
    /\ \/ /\ Accepted(w) /\ Rotate(w) /\ At(w, "save")
          /\ token' = [token EXCEPT ![w].gen = @ + 1]
          /\ IF Holds(w) /\ wmgr[w] = manager THEN UNCHANGED unsure ELSE Doubt(w)
       \/ At(w, "refused") /\ UNCHANGED << token, live, unsure >>
       \/ Accepted(w) /\ Rotate(w) /\ Doubt(w) /\ At(w, "refused") /\ UNCHANGED token
    /\ UNCHANGED << tables, memory, flows, callbacks, wmgr, wclient, due, clr, exchanged >>

\* SqliteCredentialStore::save inserts or replaces the row.
Save(w) ==
    /\ wpc[w] = "save" /\ At(w, "kept")
    /\ row' = Stored(token[w], wclient[w])
    /\ UNCHANGED << reg, states, memory, flows, callbacks, locals, clr, server >>

\* A build forgets the recorded failure, a status check does not.
Finish(w) ==
    /\ wpc[w] = "kept"
    /\ LET built == w \in Builders /\ Holds(w)
       IN  /\ At(w, IF built THEN "client" ELSE "done") /\ Unlock(w)
           /\ failed' = [failed EXCEPT ![wmgr[w]] = @ /\ ~built]
    /\ UNCHANGED << tables, registry, flows, callbacks, locals, clr, server >>

\* A build records the failure of a refresh it found due.
Fail(w) ==
    /\ wpc[w] = "refused" /\ At(w, "done") /\ Unlock(w)
    /\ failed' = [failed EXCEPT ![wmgr[w]] =
                                    @ \/ (w \in Builders /\ Holds(w) /\ due[w])]
    /\ UNCHANGED << tables, registry, flows, callbacks, locals, clr, server >>

\* The request is dropped, or SQLite fails to read.  The server may still serve a
\* call that was sent, and SQLite may still execute a statement that was queued.
DropWorker(w) ==
    /\ wpc[w] \notin {"idle", "client", "late", "done", "gone"} /\ Unlock(w)
    /\ \/ /\ At(w, "gone") /\ UNCHANGED live
          /\ IF wpc[w] = "save" THEN Doubt(w) ELSE UNCHANGED unsure
       \/ wpc[w] = "send" /\ Accepted(w) /\ Rotate(w) /\ Doubt(w) /\ At(w, "gone")
       \/ wpc[w] = "save" /\ Doubt(w) /\ At(w, "late") /\ UNCHANGED live
    /\ UNCHANGED << tables, registry, failed, flows, callbacks, locals, clr, exchanged >>

LateSave(w) ==
    /\ wpc[w] = "late" /\ At(w, "gone")
    /\ row' = Stored(token[w], wclient[w])
    /\ UNCHANGED << reg, states, memory, flows, callbacks, locals, clr, server >>

-----------------------------------------------------------------------------
\* clear_credentials, without the refresh lock

ClearFailures(c) ==
    /\ clr[c] = "idle" /\ clr' = [clr EXCEPT ![c] = "failures"]
    /\ failed' = [failed EXCEPT ![manager] = FALSE]
    /\ UNCHANGED << tables, registry, lock, flows, callbacks, workers, server >>

DeleteCredentials(c) ==
    /\ clr[c] = "failures" /\ clr' = [clr EXCEPT ![c] = "rows"]
    /\ row' = None
    /\ UNCHANGED << reg, states, memory, flows, callbacks, workers, server >>

DeleteRegistration(c) ==
    /\ clr[c] = "rows" /\ clr' = [clr EXCEPT ![c] = "done"]
    /\ reg' = None
    /\ UNCHANGED << row, states, memory, flows, callbacks, workers, server >>

-----------------------------------------------------------------------------
\* Time, the authorization server and the process

Age ==
    /\ row # None /\ row.age < 2 /\ row' = [row EXCEPT !.age = @ + 1]
    /\ UNCHANGED << reg, states, memory, flows, callbacks, workers, clr, server >>

ExpireState(f) ==
    /\ f \in states /\ states' = states \ {f}
    /\ UNCHANGED << row, reg, memory, flows, callbacks, workers, clr, server >>

Cooldown(m) ==
    /\ failed[m] /\ failed' = [failed EXCEPT ![m] = FALSE]
    /\ UNCHANGED << tables, registry, lock, flows, callbacks, workers, clr, server >>

Revoke(g) ==
    /\ live[g] >= 0 /\ live' = [live EXCEPT ![g] = -1]
    /\ unsure' = unsure \cup {g}
    /\ UNCHANGED << tables, memory, flows, callbacks, workers, clr, exchanged >>

\* Grants whose tokens some request has got and not stored.
InHand == {token[w].grant : w \in {v \in Workers : wpc[v] = "save"}}

\* reconcile_upstream_oauth_managers: the upstream changed in the configuration.
Replace ==
    /\ manager < MaxManagers /\ manager' = manager + 1
    /\ unsure' = unsure \cup InHand
    /\ UNCHANGED << tables, mode, lock, failed, flows, callbacks, workers, clr, live,
                    exchanged >>

\* The tables survive a restart; the lock, the recorded failure, the clients and
\* every request do not.
Restart ==
    /\ lock' = [m \in Managers |-> None] /\ failed' = [m \in Managers |-> FALSE]
    /\ fpc' = [f \in Flows |-> IF fpc[f] \in {"idle", "open"} THEN fpc[f] ELSE "failed"]
    /\ cpc' = [k \in Callbacks |-> IF cpc[k] \in {"idle", "done"} THEN cpc[k] ELSE "gone"]
    /\ wpc' = [w \in Workers |-> IF wpc[w] \in {"idle", "done"} THEN wpc[w] ELSE "gone"]
    /\ clr' = [c \in Clears |-> IF clr[c] = "idle" THEN "idle" ELSE "done"]
    /\ unsure' = unsure \cup InHand
    /\ UNCHANGED << tables, registry, url, arguments, locals, live, exchanged >>

FlowNext(f) ==
    Begin(f) \/ SaveRegistration(f) \/ ReadBack(f) \/ SaveState(f)
        \/ BeginFails(f) \/ ExpireState(f)
CallbackNext(k) ==
    FindOwner(k) \/ CallbackWithoutCode(k) \/ Configure(k) \/ TakeState(k)
        \/ Exchange(k) \/ StoreGrant(k) \/ Granted(k) \/ Refused(k) \/ DropCallback(k)
WorkerNext(w) ==
    Start(w) \/ Lock(w) \/ Prepare(w) \/ Reconfigure(w) \/ ReadExpiry(w)
        \/ CheckCooldown(w) \/ LoadToken(w) \/ UseClient(w) \/ Send(w) \/ Save(w)
        \/ Finish(w) \/ Fail(w) \/ DropWorker(w) \/ LateSave(w)
ClearNext(c) == ClearFailures(c) \/ DeleteCredentials(c) \/ DeleteRegistration(c)

Next ==
    \/ \E f \in Flows : FlowNext(f)
    \/ \E k \in Callbacks : CallbackNext(k)
    \/ \E w \in Workers : WorkerNext(w)
    \/ \E c \in Clears : ClearNext(c)
    \/ \E g \in Grants : Revoke(g)
    \/ \E m \in Managers : Cooldown(m)
    \/ Age \/ Replace \/ Restart

Spec == Init /\ [][Next]_vars

-----------------------------------------------------------------------------
\* Properties

\* Types of the tables, of the locals of every request and of the server.
TypeOK ==
    /\ manager \in Managers
    /\ mode \in [Managers -> Modes]
    /\ row \in Rows \cup {None}
    /\ reg \in Clients \cup {None}
    /\ states \subseteq Flows
    /\ lock \in [Managers -> Workers \cup {None}]
    /\ failed \in [Managers -> BOOLEAN]
    /\ fpc \in [Flows -> FlowPCs]
    /\ url \in [Flows -> Clients \cup {None}]
    /\ cpc \in [Callbacks -> CallbackPCs]
    /\ cmgr \in [Callbacks -> Managers]
    /\ cflow \in [Callbacks -> Flows \cup {None}]
    /\ cclient \in [Callbacks -> Clients \cup {None}]
    /\ wpc \in [Workers -> WorkerPCs]
    /\ wmgr \in [Workers -> Managers]
    /\ wclient \in [Workers -> Clients \cup {None}]
    /\ token \in [Workers -> Tokens \cup {None}]
    /\ due \in [Workers -> BOOLEAN]
    /\ clr \in [Clears -> ClearPCs]
    /\ live \in [Grants -> Int]
    /\ exchanged \in [Flows -> Nat]
    /\ unsure \subseteq Grants

\* take_upstream_oauth_state: however often the browser repeats the callback, and
\* whatever is dropped or restarted meanwhile, the code of an authorization is
\* presented to the server at most once.
ExchangeOnce == \A f \in Flows : exchanged[f] <= 1

\* The callback route removes the state on every failure "to prevent replay": once
\* a callback was answered, its state can no longer be used by another one, unless
\* SQLite refused to delete it.
ReplayForeclosed ==
    \A k \in Callbacks : cpc[k] = "done" => cflow[k] \notin states

\* The client stored beside the tokens, which names the client of every later
\* refresh and authenticates the encrypted tokens, is the one the server issued
\* them to, although registrations, consents and refreshes replace both.
StoredClientOwns ==
    row # None => row.client = row.token.client

\* RefreshLocks: a refresh made under the lock of the upstream's manager never
\* presents a refresh token that the server has replaced, unless the grant was
\* revoked, was refreshed without that lock (by a client in use, or through a
\* manager replaced since), or lost the answer or the storing of a refresh.
LockedRefreshLive ==
    \A w \in Workers :
        wmgr[w] = manager /\ Holds(w) /\ wpc[w] = "send" /\ token[w].grant \notin unsure
            => live[token[w].grant] = token[w].gen

\* RefreshFailureCache: a build that found its token due does not call the server
\* while a failure of another build is recorded, although callbacks, deletions and
\* other builds change the record between its check and its call.
CooldownQuiet ==
    \A w \in Builders :
        Holds(w) /\ wpc[w] \in {"token", "send"} /\ due[w] => ~failed[wmgr[w]]
=============================================================================
