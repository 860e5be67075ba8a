------------------------ MODULE UpstreamOauthProofs -------------------------
(* Proofs about UpstreamOauth, for every set of flows, callbacks, builds,     *)
(* checks, clears and casts, and any number of managers.                      *)
EXTENDS UpstreamOauth, TLAPS

-----------------------------------------------------------------------------
\* Rows and tokens

LEMMA StoredType ==
    ASSUME NEW t \in Tokens, NEW c \in Clients
    PROVE  /\ Stored(t, c) \in Rows /\ Stored(t, c) # None
           /\ Stored(t, c).token = t /\ Stored(t, c).client = c
<1>1. Stored(t, c) \in Rows
    BY DEF Stored, Rows, Ages
<1> QED
    BY <1>1, OauthAssumption DEF Stored

LEMMA RowFields ==
    ASSUME NEW r \in Rows
    PROVE  /\ r.token \in Tokens /\ r.client \in Clients /\ r.age \in Ages
           /\ r # None
BY OauthAssumption DEF Rows

LEMMA TokenFields ==
    ASSUME NEW t \in Tokens
    PROVE  /\ t.grant \in Grants /\ t.client \in Clients /\ t.gen \in Nat
           /\ t # None
BY OauthAssumption DEF Tokens

\* A refresh keeps the grant and the client of a token.
LEMMA NextGeneration ==
    ASSUME NEW t \in Tokens
    PROVE  /\ [t EXCEPT !.gen = @ + 1] \in Tokens
           /\ [t EXCEPT !.gen = @ + 1].grant = t.grant
           /\ [t EXCEPT !.gen = @ + 1].client = t.client
           /\ [t EXCEPT !.gen = @ + 1].gen = t.gen + 1
BY DEF Tokens

LEMMA GrantToken ==
    ASSUME NEW f \in Flows, NEW c \in Clients
    PROVE  /\ [grant |-> f, client |-> c, gen |-> 0] \in Tokens
           /\ [grant |-> f, client |-> c, gen |-> 0].grant = f
           /\ [grant |-> f, client |-> c, gen |-> 0].gen = 0
           /\ [grant |-> f, client |-> c, gen |-> 0].client = c
BY DEF Tokens, Grants

LEMMA OldTokenType == OldToken \in Tokens /\ OldToken.grant = Old /\ OldToken.client = Old
                        /\ OldToken.gen = 0 /\ Old \in Clients
BY DEF OldToken, Tokens, Grants, Clients

-----------------------------------------------------------------------------
\* Types.  A request has the flow, the client and the token its step reads.
Named ==
    /\ \A w \in Workers : wpc[w] \in {"send", "save", "late"} => token[w] \in Tokens
    /\ \A w \in Workers :
          wpc[w] \in {"row", "expiry", "token", "send", "save", "kept", "client", "late"}
              => wclient[w] \in Clients
    /\ \A k \in Callbacks : cpc[k] \notin {"idle", "gone"} => cflow[k] \in Flows
    /\ \A k \in Callbacks :
          cpc[k] \in {"configured", "taken", "granted"} => cclient[k] \in Clients

Typed == TypeOK /\ Named

LEMMA FlowTyped ==
    ASSUME Typed, NEW f \in Flows, FlowNext(f) PROVE Typed'
<1> USE DEF Typed, TypeOK, Named, FlowAt, FlowPCs, tables, registry, memory, flows,
        arguments, callbacks, locals, workers, server
<1>0. f \in Clients /\ Old \in Clients /\ f # None
    BY OauthAssumption DEF Clients, Grants
<1>1. CASE Begin(f)
    BY <1>0, <1>1 DEF Begin
<1>2. CASE SaveRegistration(f)
    BY <1>0, <1>2 DEF SaveRegistration
<1>3. CASE ReadBack(f)
    BY <1>3 DEF ReadBack
<1>4. CASE SaveState(f)
    BY <1>4 DEF SaveState
<1>5. CASE BeginFails(f)
    BY <1>5 DEF BeginFails
<1>6. CASE ExpireState(f)
    BY <1>6 DEF ExpireState
<1> QED
    BY <1>1, <1>2, <1>3, <1>4, <1>5, <1>6 DEF FlowNext

LEMMA CallbackTyped ==
    ASSUME Typed, NEW k \in Callbacks, CallbackNext(k) PROVE Typed'
<1> USE DEF Typed, TypeOK, Named, CallbackAt, CallbackPCs, tables, registry, memory,
        flows, arguments, callbacks, locals, workers, server
<1>0. Old \in Clients /\ None \notin Flows
    BY OauthAssumption DEF Clients, Grants
<1>1. CASE FindOwner(k)
    BY <1>0, <1>1 DEF FindOwner
<1>2. CASE CallbackWithoutCode(k)
    BY <1>2 DEF CallbackWithoutCode
<1>3. CASE Configure(k)
    BY <1>0, <1>3 DEF Configure
<1>4. CASE TakeState(k)
    BY <1>4 DEF TakeState
<1>5. CASE Exchange(k)
    BY <1>5 DEF Exchange, Grants
<1>6. CASE StoreGrant(k)
  <2>1. row' \in Rows
    BY <1>6, GrantToken, StoredType DEF StoreGrant
  <2> QED
    BY <1>6, <2>1 DEF StoreGrant
<1>7. CASE Granted(k)
    BY <1>7 DEF Granted
<1>8. CASE Refused(k)
    BY <1>8 DEF Refused
<1>9. CASE DropCallback(k)
    BY <1>9 DEF DropCallback
<1> QED
    BY <1>1, <1>2, <1>3, <1>4, <1>5, <1>6, <1>7, <1>8, <1>9 DEF CallbackNext

LEMMA WorkerTyped ==
    ASSUME Typed, NEW w \in Workers, WorkerNext(w) PROVE Typed'
<1> USE DEF Typed, TypeOK, Named, At, WorkerPCs, tables, registry, memory, flows,
        arguments, callbacks, locals, workers, server
<1>0. Old \in Clients /\ None \notin Workers
    BY OauthAssumption DEF Clients
<1>a. row # None => row \in Rows /\ row.token \in Tokens /\ row.client \in Clients
    BY RowFields
<1>b. ASSUME Unlock(w) PROVE lock' \in [Managers -> Workers \cup {None}]
    BY <1>b DEF Unlock
<1>c. ASSUME wpc[w] = "send", Rotate(w) PROVE live' \in [Grants -> Int]
  <2>1. token[w].grant \in Grants /\ live \in [Grants -> Int]
    BY <1>c, TokenFields
  <2> QED
    BY <1>c, <2>1 DEF Rotate
<1>d. ASSUME wpc[w] \in {"send", "save"}, Doubt(w) PROVE unsure' \subseteq Grants
    BY <1>d, TokenFields DEF Doubt
<1>1. CASE Start(w)
    BY <1>1 DEF Start
<1>2. CASE Lock(w)
    BY <1>0, <1>2 DEF Lock
<1>3. CASE Prepare(w)
    BY <1>b, <1>3 DEF Prepare, GiveUp
<1>4. CASE Reconfigure(w)
    BY <1>0, <1>a, <1>b, <1>4 DEF Reconfigure, GiveUp
<1>5. CASE ReadExpiry(w)
    BY <1>5 DEF ReadExpiry
<1>6. CASE CheckCooldown(w)
    BY <1>b, <1>6 DEF CheckCooldown, GiveUp
<1>7. CASE LoadToken(w)
    BY <1>a, <1>7 DEF LoadToken
<1>8. CASE UseClient(w)
    BY <1>a, <1>8 DEF UseClient
<1>9. CASE Send(w)
  <2>1. token[w] \in Tokens
    BY <1>9 DEF Send
  <2>2. live' \in [Grants -> Int] /\ unsure' \subseteq Grants
    BY <1>c, <1>d, <1>9 DEF Send
  <2>3. [token[w] EXCEPT !.gen = @ + 1] \in Tokens
    BY <2>1, NextGeneration
  <2> QED
    BY <1>9, <2>1, <2>2, <2>3 DEF Send
<1>10. CASE Save(w)
  <2>1. row' \in Rows
    BY <1>10, StoredType DEF Save
  <2> QED
    BY <1>10, <2>1 DEF Save
<1>11. CASE Finish(w)
    BY <1>b, <1>11 DEF Finish
<1>12. CASE Fail(w)
    BY <1>b, <1>12 DEF Fail
<1>13. CASE DropWorker(w)
  <2>1. live' \in [Grants -> Int] /\ unsure' \subseteq Grants
    BY <1>c, <1>d, <1>13 DEF DropWorker
  <2> QED
    BY <1>b, <1>13, <2>1 DEF DropWorker
<1>14. CASE LateSave(w)
  <2>1. row' \in Rows
    BY <1>14, StoredType DEF LateSave
  <2> QED
    BY <1>14, <2>1 DEF LateSave
<1> QED
    BY <1>1, <1>2, <1>3, <1>4, <1>5, <1>6, <1>7, <1>8, <1>9, <1>10, <1>11, <1>12,
       <1>13, <1>14 DEF WorkerNext

LEMMA InHandType == Typed => InHand \subseteq Grants
BY TokenFields DEF Typed, Named, InHand

LEMMA OtherTyped ==
    ASSUME Typed,
           \/ \E c \in Clears : ClearNext(c)
           \/ \E g \in Grants : Revoke(g)
           \/ \E m \in Managers : Cooldown(m)
           \/ Age \/ Replace \/ Restart
    PROVE  Typed'
<1> USE DEF Typed, TypeOK, Named, ClearPCs, tables, registry, memory, flows, arguments,
        callbacks, locals, workers, server
<1>1. ASSUME NEW c \in Clears, ClearNext(c) PROVE Typed'
    BY <1>1 DEF ClearNext, ClearFailures, DeleteCredentials, DeleteRegistration
<1>2. ASSUME NEW g \in Grants, Revoke(g) PROVE Typed'
    BY <1>2 DEF Revoke
<1>3. ASSUME NEW m \in Managers, Cooldown(m) PROVE Typed'
    BY <1>3 DEF Cooldown
<1>4. CASE Age
  <2>1. row' \in Rows
    BY <1>4 DEF Age, Rows, Ages
  <2> QED
    BY <1>4, <2>1 DEF Age
<1>5. CASE Replace
  <2>1. manager' \in Managers
    BY <1>5, OauthAssumption DEF Replace, Managers
  <2> QED
    BY <1>5, <2>1, InHandType DEF Replace
<1>6. CASE Restart
    BY <1>6, InHandType DEF Restart, FlowPCs, CallbackPCs, WorkerPCs
<1> QED
    BY <1>1, <1>2, <1>3, <1>4, <1>5, <1>6

LEMMA TypedNext == Typed /\ [Next]_vars => Typed'
<1> SUFFICES ASSUME Typed, [Next]_vars PROVE Typed'
    OBVIOUS
<1>1. CASE UNCHANGED vars
    BY <1>1 DEF Typed, TypeOK, Named, vars, tables, registry, memory, flows, arguments,
       callbacks, locals, workers, server
<1>2. CASE Next
    BY <1>2, FlowTyped, CallbackTyped, WorkerTyped, OtherTyped DEF Next
<1> QED
    BY <1>1, <1>2

LEMMA TypedInit == Init => Typed
<1> SUFFICES ASSUME Init PROVE Typed
    OBVIOUS
<1>1. PICK cast \in Casts :
          /\ manager = cast.first /\ mode = cast.mode
          /\ fpc = [f \in Flows |-> IF f \in cast.run THEN "idle" ELSE "failed"]
          /\ cpc = [k \in Callbacks |-> IF k \in cast.run THEN "idle" ELSE "gone"]
          /\ wpc = [w \in Workers |-> IF w \in cast.run THEN "idle" ELSE "gone"]
          /\ clr = [c \in Clears |-> IF c \in cast.run THEN "idle" ELSE "done"]
    BY DEF Init
<1>2. cast.first \in Managers /\ cast.mode \in [Managers -> Modes]
    BY OauthAssumption
<1>3. \A a \in Ages : [Stored(OldToken, Old) EXCEPT !.age = a] \in Rows
  <2>1. Stored(OldToken, Old) \in Rows
    BY OldTokenType, StoredType
  <2> QED
    BY <2>1 DEF Rows
<1>4. row \in Rows \cup {None} /\ reg \in Clients \cup {None} /\ live \in [Grants -> Int]
    BY <1>3, OldTokenType DEF Init
<1> QED
    BY <1>1, <1>2, <1>4 DEF Init, Typed, TypeOK, Named, FlowPCs, CallbackPCs, WorkerPCs,
       ClearPCs

-----------------------------------------------------------------------------
\* What the steps leave alone

LEMMA WorkersUntouched ==
    ASSUME [Next]_vars, ~Restart, \A w \in Workers : ~WorkerNext(w)
    PROVE  UNCHANGED << lock, wpc, wmgr, wclient, token, due >>
BY DEF Next, vars, tables, registry, memory, flows, arguments, callbacks, locals, workers,
   server, FlowNext, Begin, SaveRegistration, ReadBack, SaveState, BeginFails, ExpireState,
   CallbackNext, FindOwner, CallbackWithoutCode, Configure, TakeState, Exchange,
   StoreGrant, Granted, Refused, DropCallback, ClearNext, ClearFailures,
   DeleteCredentials, DeleteRegistration, Revoke, Cooldown, Age, Replace

LEMMA CallbacksUntouched ==
    ASSUME [Next]_vars, ~Restart, \A k \in Callbacks : ~CallbackNext(k)
    PROVE  UNCHANGED << cpc, cflow, cclient, exchanged >>
BY DEF Next, vars, tables, registry, memory, flows, arguments, callbacks, locals, workers,
   server, FlowNext, Begin, SaveRegistration, ReadBack, SaveState, BeginFails, ExpireState,
   WorkerNext, Start, Lock, Prepare, Reconfigure, ReadExpiry, CheckCooldown, LoadToken,
   UseClient, Send, Save, Finish, Fail, DropWorker, LateSave, ClearNext, ClearFailures,
   DeleteCredentials, DeleteRegistration, Revoke, Cooldown, Age, Replace

LEMMA StatesShrink ==
    ASSUME [Next]_vars, \A f \in Flows : ~SaveState(f)
    PROVE  states' \subseteq states
BY DEF Next, vars, tables, registry, memory, flows, arguments, callbacks, locals, workers,
   server, FlowNext, Begin, SaveRegistration, ReadBack, BeginFails, ExpireState,
   CallbackNext, FindOwner, CallbackWithoutCode, Configure, TakeState, Exchange,
   StoreGrant, Granted, Refused, DropCallback,
   WorkerNext, Start, Lock, Prepare, Reconfigure, ReadExpiry, CheckCooldown, LoadToken,
   UseClient, Send, Save, Finish, Fail, DropWorker, LateSave, ClearNext, ClearFailures,
   DeleteCredentials, DeleteRegistration, Revoke, Cooldown, Age, Replace, Restart

LEMMA OpenStays ==
    ASSUME Typed, [Next]_vars, NEW f \in Flows, fpc[f] = "open"
    PROVE  fpc'[f] = "open"
<1>1. CASE Restart
    BY <1>1 DEF Restart, Typed, TypeOK
<1>2. ASSUME NEW h \in Flows, FlowNext(h) PROVE fpc'[f] = "open"
    BY <1>2 DEF FlowNext, Begin, SaveRegistration, ReadBack, SaveState, BeginFails,
       ExpireState, FlowAt, flows, Typed, TypeOK
<1>3. CASE ~Restart /\ \A h \in Flows : ~FlowNext(h)
  <2>1. UNCHANGED fpc
    BY <1>3 DEF Next, vars, tables, registry, memory, flows, arguments, callbacks, locals,
       workers, server, CallbackNext, FindOwner, CallbackWithoutCode, Configure, TakeState,
       Exchange, StoreGrant, Granted, Refused, DropCallback, WorkerNext, Start, Lock,
       Prepare, Reconfigure, ReadExpiry, CheckCooldown, LoadToken, UseClient, Send, Save,
       Finish, Fail, DropWorker, LateSave, ClearNext, ClearFailures, DeleteCredentials,
       DeleteRegistration, Revoke, Cooldown, Age, Replace
  <2> QED
    BY <2>1
<1> QED
    BY <1>1, <1>2, <1>3

LEMMA ManagerMoves ==
    ASSUME Typed, [Next]_vars
    PROVE  /\ manager' \in {manager, manager + 1}
           /\ manager' # manager => Replace
BY DEF Next, vars, tables, registry, memory, flows, arguments, callbacks, locals, workers,
   server, FlowNext, Begin, SaveRegistration, ReadBack, SaveState, BeginFails, ExpireState,
   CallbackNext, FindOwner, CallbackWithoutCode, Configure, TakeState, Exchange,
   StoreGrant, Granted, Refused, DropCallback,
   WorkerNext, Start, Lock, Prepare, Reconfigure, ReadExpiry, CheckCooldown, LoadToken,
   UseClient, Send, Save, Finish, Fail, DropWorker, LateSave, ClearNext, ClearFailures,
   DeleteCredentials, DeleteRegistration, Revoke, Cooldown, Age, Replace, Restart

-----------------------------------------------------------------------------
\* The refresh locks: who is between the acquisition and the end of a call holds the
\* lock of its manager, and nobody else does.
Guarded == {"locked", "ready", "row", "expiry", "token"}
Held == Guarded \cup {"send", "save", "kept", "refused"}

LocksHeld ==
    /\ \A w \in Workers : wpc[w] \in Guarded => Holds(w)
    /\ \A m \in Managers : lock[m] # None => wmgr[lock[m]] = m /\ wpc[lock[m]] \in Held
    /\ \A w \in Workers : wmgr[w] <= manager

LEMMA LocksHeldNext == Typed /\ LocksHeld /\ [Next]_vars => LocksHeld'
<1> SUFFICES ASSUME Typed, LocksHeld, [Next]_vars PROVE LocksHeld'
    OBVIOUS
<1>0. /\ manager \in Nat /\ manager \in Managers
      /\ None \notin Workers
      /\ lock \in [Managers -> Workers \cup {None}]
      /\ wpc \in [Workers -> WorkerPCs] /\ wmgr \in [Workers -> Managers]
    BY OauthAssumption DEF Typed, TypeOK, Managers
<1>m. \A v \in Workers : wmgr[v] <= manager'
  <2>1. \A v \in Workers : wmgr[v] \in Nat /\ wmgr[v] <= manager
    BY <1>0 DEF LocksHeld, Managers
  <2>2. manager <= manager' /\ manager' \in Nat
    BY <1>0, ManagerMoves
  <2> QED
    BY <1>0, <2>1, <2>2
<1> USE DEF LocksHeld, Holds, Guarded, Held, At
<1>1. ASSUME NEW w \in Workers, Start(w) PROVE LocksHeld'
    BY <1>0, <1>1 DEF Start, memory, registry
<1>2. ASSUME NEW w \in Workers, Lock(w) PROVE LocksHeld'
    BY <1>0, <1>2 DEF Lock, registry, locals
<1>3. ASSUME NEW w \in Workers, wpc[w] \in Held, wpc' = [wpc EXCEPT ![w] = "done"]
                                      \/ wpc' = [wpc EXCEPT ![w] = "client"]
                                      \/ wpc' = [wpc EXCEPT ![w] = "gone"]
                                      \/ wpc' = [wpc EXCEPT ![w] = "late"],
             Unlock(w), UNCHANGED wmgr
      PROVE LocksHeld'
    BY <1>0, <1>m, <1>3 DEF Unlock
<1>4. ASSUME NEW w \in Workers, NEW at \in Held, wpc[w] \in Held, at \in Guarded => wpc[w] \in Guarded,
             wpc' = [wpc EXCEPT ![w] = at], UNCHANGED << lock, wmgr >>
      PROVE LocksHeld'
    BY <1>0, <1>m, <1>4
<1>5. ASSUME NEW w \in Workers, Prepare(w) \/ Reconfigure(w) \/ CheckCooldown(w)
      PROVE LocksHeld'
    BY <1>3, <1>4, <1>5 DEF Prepare, Reconfigure, CheckCooldown, GiveUp, locals
<1>6. ASSUME NEW w \in Workers, ReadExpiry(w) \/ LoadToken(w) \/ Send(w) \/ Save(w)
      PROVE LocksHeld'
    BY <1>4, <1>6 DEF ReadExpiry, LoadToken, Send, Save, memory, locals
<1>7. ASSUME NEW w \in Workers, Finish(w) \/ Fail(w) PROVE LocksHeld'
    BY <1>3, <1>7 DEF Finish, Fail, locals
<1>8. ASSUME NEW w \in Workers, DropWorker(w) PROVE LocksHeld'
  <2>1. wpc[w] \in Held \cup {"wait"}
    BY <1>0, <1>8 DEF DropWorker, WorkerPCs
  <2>2. CASE wpc[w] \in Held
    BY <1>3, <1>8, <2>2 DEF DropWorker, locals
  <2>3. CASE wpc[w] = "wait"
    BY <1>0, <1>m, <1>8, <2>3 DEF DropWorker, Unlock, locals
  <2> QED
    BY <2>1, <2>2, <2>3
<1>9. ASSUME NEW w \in Workers, UseClient(w) \/ LateSave(w) PROVE LocksHeld'
  <2>1. /\ wpc[w] \in {"client", "late"} /\ UNCHANGED << lock, wmgr >>
        /\ wpc' = [wpc EXCEPT ![w] = "send"] \/ wpc' = [wpc EXCEPT ![w] = "gone"]
    BY <1>9 DEF UseClient, LateSave, memory, locals
  <2>2. \A m \in Managers : lock[m] # w
    BY <1>0, <2>1
  <2> QED
    BY <1>0, <1>m, <2>1, <2>2
<1>10. CASE Restart
    BY <1>0, <1>10 DEF Restart, registry, locals
<1>11. CASE ~Restart /\ \A w \in Workers : ~WorkerNext(w)
    BY <1>0, <1>m, <1>11, WorkersUntouched
<1> QED
    BY <1>1, <1>2, <1>5, <1>6, <1>7, <1>8, <1>9, <1>10, <1>11 DEF WorkerNext

LEMMA LocksHeldInit == Init => LocksHeld
<1> SUFFICES ASSUME Init PROVE LocksHeld
    OBVIOUS
<1>1. Typed
    BY TypedInit
<1>2. manager \in Nat
    BY <1>1 DEF Typed, TypeOK, Managers
<1>3. \A w \in Workers : wpc[w] \in {"idle", "gone"}
    BY DEF Init
<1> QED
    BY <1>2, <1>3 DEF Init, LocksHeld, Guarded, Managers

-----------------------------------------------------------------------------
\* A build that passed the check of the cooldown keeps its lock until it has called
\* the server, and only the holder of the lock records a failure.
LEMMA FailedGrows ==
    ASSUME Typed, [Next]_vars, NEW m \in Managers, failed'[m], ~failed[m]
    PROVE  \E w \in Workers : Fail(w) /\ Holds(w) /\ wmgr[w] = m
<1>0. failed \in [Managers -> BOOLEAN]
    BY DEF Typed, TypeOK
<1>1. ASSUME NEW w \in Workers, WorkerNext(w), ~Fail(w) PROVE failed'[m] => failed[m]
    BY <1>0, <1>1 DEF WorkerNext, Start, Lock, Prepare, Reconfigure, ReadExpiry,
       CheckCooldown, LoadToken, UseClient, Send, Save, Finish, DropWorker, LateSave, memory
<1>2. ASSUME NEW w \in Workers, Fail(w) PROVE Holds(w) /\ wmgr[w] = m
    BY <1>0, <1>2 DEF Fail
<1>3. CASE \A w \in Workers : ~WorkerNext(w)
    BY <1>0, <1>3 DEF Next, vars, tables, registry, memory, flows, arguments, callbacks,
       locals, workers, server, FlowNext, Begin, SaveRegistration, ReadBack, SaveState,
       BeginFails, ExpireState, CallbackNext, FindOwner, CallbackWithoutCode, Configure,
       TakeState, Exchange, StoreGrant, Granted, Refused, DropCallback, ClearNext,
       ClearFailures, DeleteCredentials, DeleteRegistration, Revoke, Cooldown, Age,
       Replace, Restart
<1> QED
    BY <1>1, <1>2, <1>3

LEMMA CooldownNext ==
    Typed /\ LocksHeld /\ CooldownQuiet /\ [Next]_vars => CooldownQuiet'
<1> SUFFICES ASSUME Typed, LocksHeld, CooldownQuiet, [Next]_vars,
                    NEW w \in Builders, Holds(w)', wpc'[w] \in {"token", "send"}, due'[w]
             PROVE  ~failed'[wmgr'[w]]
    BY DEF CooldownQuiet
<1>0. /\ w \in Workers /\ None \notin Workers
      /\ lock \in [Managers -> Workers \cup {None}] /\ failed \in [Managers -> BOOLEAN]
      /\ wpc \in [Workers -> WorkerPCs] /\ wmgr \in [Workers -> Managers]
      /\ due \in [Workers -> BOOLEAN]
    BY OauthAssumption DEF Typed, TypeOK, Workers
<1>1. Holds(w) /\ wmgr'[w] = wmgr[w] /\ due[w] /\ ~failed[wmgr[w]]
  <2>1. ASSUME NEW v \in Workers, WorkerNext(v), v # w
        PROVE  wpc'[w] = wpc[w] /\ wmgr'[w] = wmgr[w] /\ due'[w] = due[w] /\ Holds(w)
    <3>1. wpc'[w] = wpc[w] /\ wmgr'[w] = wmgr[w] /\ due'[w] = due[w]
      BY <1>0, <2>1 DEF WorkerNext, Start, Lock, Prepare, Reconfigure, ReadExpiry,
         CheckCooldown, LoadToken, UseClient, Send, Save, Finish, Fail, DropWorker,
         LateSave, At, GiveUp, locals
    <3>0. lock'[wmgr[w]] = w /\ wmgr[w] \in Managers /\ wmgr[v] \in Managers
      BY <1>0, <3>1 DEF Holds
    <3>2. CASE Lock(v)
      BY <1>0, <2>1, <3>0, <3>1, <3>2 DEF Lock, Holds
    <3>3. CASE Unlock(v) \/ UNCHANGED lock
      BY <1>0, <2>1, <3>0, <3>1, <3>3 DEF Unlock, Holds
    <3>4. Lock(v) \/ Unlock(v) \/ UNCHANGED lock
      BY <2>1 DEF WorkerNext, Start, Prepare, Reconfigure, ReadExpiry, CheckCooldown,
         LoadToken, UseClient, Send, Save, Finish, Fail, DropWorker, LateSave, GiveUp,
         memory
    <3> QED
      BY <3>1, <3>2, <3>3, <3>4
  <2>2. CASE WorkerNext(w)
    <3>1. CASE CheckCooldown(w)
      BY <1>0, <3>1 DEF CheckCooldown, GiveUp, At, Unlock, Holds, locals
    <3>2. CASE LoadToken(w)
      BY <1>0, <3>2 DEF LoadToken, At, Holds, memory, CooldownQuiet
    <3>3. CASE UseClient(w)
      BY <1>0, <3>3 DEF UseClient, At, Holds, memory, LocksHeld, Held, Guarded
    <3>4. CASE Reconfigure(w)
      BY <1>0, <3>4 DEF Reconfigure, GiveUp, At
    <3> QED
      BY <1>0, <2>2, <3>1, <3>2, <3>3, <3>4 DEF WorkerNext, Start, Lock, Prepare,
         ReadExpiry, Send, Save, Finish, Fail, DropWorker, LateSave, At, GiveUp
  <2>3. CASE Restart
    BY <1>0, <2>3 DEF Restart
  <2>4. CASE ~Restart /\ \A v \in Workers : ~WorkerNext(v)
    BY <2>4, WorkersUntouched DEF Holds, CooldownQuiet
  <2> QED
    BY <1>0, <2>1, <2>2, <2>3, <2>4 DEF CooldownQuiet
<1>2. ASSUME failed'[wmgr'[w]] PROVE FALSE
  <2>1. PICK v \in Workers : Fail(v) /\ Holds(v) /\ wmgr[v] = wmgr[w]
    BY <1>0, <1>1, <1>2, FailedGrows
  <2>2. v = w
    BY <1>1, <2>1 DEF Holds
  <2> QED
    BY <1>0, <2>1, <2>2 DEF Fail, At
<1> QED
    BY <1>2

-----------------------------------------------------------------------------
\* One use of a code.  A state exists from the moment the authorization is open
\* until one callback takes it, and only that callback presents the code.
Opened ==
    /\ \A f \in states : fpc[f] = "open"
    /\ \A k \in Callbacks : cflow[k] \in Flows => fpc[cflow[k]] = "open"
    /\ \A f \in Flows : exchanged[f] # 0 => fpc[f] = "open"

Presenting == {"taken", "granted"}

TakenOnce ==
    /\ \A f \in Flows : exchanged[f] \in {0, 1}
    /\ \A f \in states : exchanged[f] = 0
    /\ \A k \in Callbacks :
          /\ cpc[k] \in Presenting \cup {"stored", "done"} => cflow[k] \notin states
          /\ cpc[k] = "taken" => exchanged[cflow[k]] = 0
          /\ cpc[k] = "granted" => exchanged[cflow[k]] = 1
    /\ \A j, k \in Callbacks :
          cpc[j] \in Presenting /\ cpc[k] \in Presenting /\ cflow[j] = cflow[k] => j = k

LEMMA OpenedNext == Typed /\ Opened /\ [Next]_vars => Opened'
<1> SUFFICES ASSUME Typed, Opened, [Next]_vars PROVE Opened'
    OBVIOUS
<1>0. /\ states \subseteq Flows /\ fpc \in [Flows -> FlowPCs]
      /\ cflow \in [Callbacks -> Flows \cup {None}] /\ exchanged \in [Flows -> Nat]
    BY DEF Typed, TypeOK
<1>1. \A f \in states' : fpc'[f] = "open"
  <2>1. ASSUME NEW h \in Flows, SaveState(h) PROVE \A f \in states' : fpc'[f] = "open"
    BY <1>0, <2>1 DEF SaveState, FlowAt, Opened
  <2>2. CASE \A h \in Flows : ~SaveState(h)
    BY <1>0, <2>2, StatesShrink, OpenStays DEF Opened
  <2> QED
    BY <2>1, <2>2
<1>2. \A k \in Callbacks : cflow'[k] \in Flows => fpc'[cflow'[k]] = "open"
  <2>1. ASSUME NEW j \in Callbacks, CallbackNext(j), NEW k \in Callbacks, cflow'[k] \in Flows
        PROVE  fpc[cflow'[k]] = "open"
    BY <1>0, <2>1 DEF CallbackNext, FindOwner, CallbackWithoutCode, Configure, TakeState,
       Exchange, StoreGrant, Granted, Refused, DropCallback, arguments, Opened
  <2>2. CASE Restart
    BY <1>0, <2>2, OpenStays DEF Restart, arguments, Opened
  <2>3. CASE ~Restart /\ \A j \in Callbacks : ~CallbackNext(j)
    BY <1>0, <2>3, CallbacksUntouched, OpenStays DEF Opened
  <2> QED
    BY <2>1, <2>2, <2>3, OpenStays
<1>3. \A f \in Flows : exchanged'[f] # 0 => fpc'[f] = "open"
  <2>1. ASSUME NEW j \in Callbacks, CallbackNext(j), NEW f \in Flows, exchanged'[f] # 0
        PROVE  fpc[f] = "open"
    <3>1. CASE Exchange(j)
      <4>1. cflow[j] \in Flows
        BY <3>1 DEF Exchange, Typed, Named
      <4> QED
        BY <1>0, <2>1, <3>1, <4>1 DEF Exchange, Opened
    <3>2. CASE ~Exchange(j)
      BY <1>0, <2>1, <3>2 DEF CallbackNext, FindOwner, CallbackWithoutCode, Configure,
         TakeState, StoreGrant, Granted, Refused, DropCallback, server, Opened
    <3> QED
      BY <3>1, <3>2
  <2>2. CASE Restart
    BY <1>0, <2>2, OpenStays DEF Restart, Opened
  <2>3. CASE ~Restart /\ \A j \in Callbacks : ~CallbackNext(j)
    BY <1>0, <2>3, CallbacksUntouched, OpenStays DEF Opened
  <2> QED
    BY <2>1, <2>2, <2>3, OpenStays
<1> QED
    BY <1>1, <1>2, <1>3 DEF Opened

LEMMA TakenOnceNext == Typed /\ Opened /\ TakenOnce /\ [Next]_vars => TakenOnce'
<1> SUFFICES ASSUME Typed, Opened, TakenOnce, [Next]_vars PROVE TakenOnce'
    OBVIOUS
<1>0. /\ states \subseteq Flows /\ fpc \in [Flows -> FlowPCs]
      /\ cpc \in [Callbacks -> CallbackPCs]
      /\ cflow \in [Callbacks -> Flows \cup {None}] /\ exchanged \in [Flows -> Nat]
      /\ \A k \in Callbacks : cpc[k] \notin {"idle", "gone"} => cflow[k] \in Flows
    BY DEF Typed, TypeOK, Named
<1> USE DEF TakenOnce, Presenting
<1>1. ASSUME NEW f \in Flows, SaveState(f) PROVE TakenOnce'
  <2>1. exchanged[f] = 0 /\ \A k \in Callbacks : cflow[k] # f
    BY <1>0, <1>1 DEF SaveState, Opened
  <2> QED
    BY <1>0, <1>1, <2>1 DEF SaveState, callbacks, arguments, server
<1>2. ASSUME NEW k \in Callbacks, FindOwner(k) PROVE TakenOnce'
    BY <1>0, <1>2 DEF FindOwner, CallbackAt, tables, server
<1>3. ASSUME NEW k \in Callbacks, NEW at \in {"done", "gone", "configured", "refused", "stored"},
             cpc[k] # "idle", cpc' = [cpc EXCEPT ![k] = at], UNCHANGED << cflow, exchanged >>,
             states' \subseteq states, at \in {"done", "stored"} => cflow[k] \notin states'
      PROVE  TakenOnce'
    BY <1>0, <1>3
<1>4. ASSUME NEW k \in Callbacks, CallbackWithoutCode(k) \/ Configure(k) \/ StoreGrant(k)
                            \/ Granted(k) \/ Refused(k) \/ DropCallback(k)
      PROVE  TakenOnce'
    BY <1>0, <1>3, <1>4 DEF CallbackWithoutCode, Configure, StoreGrant, Granted, Refused,
       DropCallback, CallbackAt, arguments, tables, server
<1>5. ASSUME NEW k \in Callbacks, TakeState(k) PROVE TakenOnce'
  <2>1. CASE cflow[k] \in states
    <3>1. \A j \in Callbacks : cpc[j] \in Presenting => cflow[j] # cflow[k]
      BY <2>1
    <3> QED
      BY <1>0, <1>5, <2>1, <3>1 DEF TakeState, CallbackAt, arguments, server
  <2>2. CASE cflow[k] \notin states
    BY <1>3, <1>5, <2>2 DEF TakeState, CallbackAt, arguments, server
  <2> QED
    BY <2>1, <2>2
<1>6. ASSUME NEW k \in Callbacks, Exchange(k) PROVE TakenOnce'
  <2>1. /\ cpc[k] = "taken" /\ cflow[k] \in Flows /\ exchanged[cflow[k]] = 0
        /\ cflow[k] \notin states
        /\ \A j \in Callbacks : j # k /\ cpc[j] \in Presenting => cflow[j] # cflow[k]
    BY <1>0, <1>6 DEF Exchange
  <2>2. /\ exchanged' = [exchanged EXCEPT ![cflow[k]] = 1]
        /\ cpc' = [cpc EXCEPT ![k] = "refused"] \/ cpc' = [cpc EXCEPT ![k] = "granted"]
        /\ UNCHANGED << states, cflow >>
    BY <1>0, <1>6, <2>1 DEF Exchange, CallbackAt, tables, arguments
  <2> QED
    BY <1>0, <2>1, <2>2
<1>7. CASE Restart
    BY <1>0, <1>7 DEF Restart, tables, arguments
<1>8. CASE /\ ~Restart /\ \A k \in Callbacks : ~CallbackNext(k)
           /\ \A f \in Flows : ~SaveState(f)
    BY <1>0, <1>8, CallbacksUntouched, StatesShrink
<1> QED
    BY <1>1, <1>2, <1>4, <1>5, <1>6, <1>7, <1>8 DEF CallbackNext

LEMMA TakenOnceInit == Init => Opened /\ TakenOnce
BY OauthAssumption DEF Init, Opened, TakenOnce, Presenting, Grants

-----------------------------------------------------------------------------
\* How the stored row and the tokens in hand change

LEMMA RowMoves ==
    ASSUME Typed, [Next]_vars
    PROVE  \/ row' = None
           \/ row # None /\ row' # None /\ row'.token = row.token /\ row'.client = row.client
           \/ \E k \in Callbacks : StoreGrant(k)
           \/ \E w \in Workers : Save(w) \/ LateSave(w)
<1>1. CASE Age
  <2>1. row \in Rows /\ row.age \in Nat
    BY <1>1, RowFields DEF Age, Typed, TypeOK, Ages
  <2>2. row' = [row EXCEPT !.age = row.age + 1]
    BY <1>1 DEF Age
  <2>3. row' \in Rows /\ row'.token = row.token /\ row'.client = row.client
    BY <1>1, <2>1, <2>2 DEF Age, Rows, Ages
  <2> QED
    BY <2>1, <2>3, RowFields
<1>2. CASE ~Age /\ ~(\E k \in Callbacks : StoreGrant(k))
             /\ ~(\E w \in Workers : Save(w) \/ LateSave(w))
  <2>1. row' = row \/ row' = None
    BY <1>2 DEF Next, vars, tables, FlowNext, Begin, SaveRegistration, ReadBack, SaveState,
       BeginFails, ExpireState, CallbackNext, FindOwner, CallbackWithoutCode, Configure,
       TakeState, Exchange, Granted, Refused, DropCallback, WorkerNext, Start, Lock,
       Prepare, Reconfigure, ReadExpiry, CheckCooldown, LoadToken, UseClient, Send,
       Finish, Fail, DropWorker, ClearNext, ClearFailures, DeleteCredentials,
       DeleteRegistration, Revoke, Cooldown, Replace, Restart
  <2> QED
    BY <2>1
<1> QED
    BY <1>1, <1>2

LEMMA TokenMoves ==
    ASSUME Typed, [Next]_vars, NEW w \in Workers
    PROVE  \/ token'[w] = token[w]
           \/ row # None /\ token'[w] = row.token /\ (LoadToken(w) \/ UseClient(w))
           \/ Send(w) /\ token[w] \in Tokens /\ token'[w] = [token[w] EXCEPT !.gen = @ + 1]
<1>0. token \in [Workers -> Tokens \cup {None}]
    BY DEF Typed, TypeOK
<1>1. ASSUME NEW v \in Workers, LoadToken(v) \/ UseClient(v)
      PROVE  \/ token'[w] = token[w]
             \/ row # None /\ token'[w] = row.token /\ (LoadToken(w) \/ UseClient(w))
    BY <1>0, <1>1 DEF LoadToken, UseClient
<1>2. ASSUME NEW v \in Workers, Send(v)
      PROVE  \/ token'[w] = token[w]
             \/ Send(w) /\ token[w] \in Tokens /\ token'[w] = [token[w] EXCEPT !.gen = @ + 1]
  <2>1. token[v] \in Tokens
    BY <1>2 DEF Send, Typed, Named
  <2> QED
    BY <1>0, <1>2, <2>1 DEF Send
<1>3. CASE \A v \in Workers : ~LoadToken(v) /\ ~UseClient(v) /\ ~Send(v)
  <2>1. UNCHANGED token
    BY <1>3 DEF Next, vars, locals, workers, FlowNext, Begin, SaveRegistration, ReadBack,
       SaveState, BeginFails, ExpireState, CallbackNext, FindOwner, CallbackWithoutCode,
       Configure, TakeState, Exchange, StoreGrant, Granted, Refused, DropCallback,
       WorkerNext, Start, Lock, Prepare, Reconfigure, ReadExpiry, CheckCooldown, Save,
       Finish, Fail, DropWorker, LateSave, ClearNext, ClearFailures, DeleteCredentials,
       DeleteRegistration, Revoke, Cooldown, Age, Replace, Restart
  <2> QED
    BY <2>1
<1> QED
    BY <1>1, <1>2, <1>3

-----------------------------------------------------------------------------
\* The client beside the tokens.  A refresh that the server answered was made with
\* the client of its token, so the pair it stores agrees.
TokensOwned ==
    /\ StoredClientOwns
    /\ \A w \in Workers : wpc[w] \in {"save", "late"} => token[w].client = wclient[w]

LEMMA StoredByWorker ==
    ASSUME Typed, NEW w \in Workers, Save(w) \/ LateSave(w)
    PROVE  /\ token[w] \in Tokens /\ row' \in Rows /\ row' # None
           /\ row'.token = token[w] /\ row'.client = wclient[w]
<1>1. token[w] \in Tokens /\ wclient[w] \in Clients /\ row' = Stored(token[w], wclient[w])
    BY DEF Save, LateSave, Typed, Named
<1> QED
    BY <1>1, StoredType

LEMMA StoredByCallback ==
    ASSUME Typed, NEW k \in Callbacks, StoreGrant(k)
    PROVE  /\ row' \in Rows /\ row' # None /\ row'.token.grant = cflow[k]
           /\ row'.token.gen = 0 /\ row'.client = row'.token.client
           /\ cflow[k] \in Flows /\ cpc[k] = "granted"
<1>1. cflow[k] \in Flows /\ cclient[k] \in Clients /\ cpc[k] = "granted"
    BY DEF StoreGrant, Typed, Named
<1>2. row' = Stored([grant |-> cflow[k], client |-> cclient[k], gen |-> 0], cclient[k])
    BY DEF StoreGrant
<1> QED
    BY <1>1, <1>2, GrantToken, StoredType

LEMMA TokensOwnedNext == Typed /\ TokensOwned /\ [Next]_vars => TokensOwned'
<1> SUFFICES ASSUME Typed, TokensOwned, [Next]_vars PROVE TokensOwned'
    OBVIOUS
<1>0. /\ wpc \in [Workers -> WorkerPCs]
      /\ wclient \in [Workers -> Clients \cup {None}]
      /\ token \in [Workers -> Tokens \cup {None}]
    BY DEF Typed, TypeOK
<1>1. StoredClientOwns'
    BY RowMoves, StoredByWorker, StoredByCallback
       DEF TokensOwned, StoredClientOwns, Save, LateSave
<1>2. \A w \in Workers : wpc'[w] \in {"save", "late"} => token'[w].client = wclient'[w]
  <2>1. ASSUME NEW v \in Workers, Send(v)
        PROVE  \A w \in Workers : wpc'[w] \in {"save", "late"} => token'[w].client = wclient'[w]
    <3>1. token[v] \in Tokens
      BY <2>1 DEF Send, Typed, Named
    <3>2. [token[v] EXCEPT !.gen = @ + 1].client = token[v].client
      BY <3>1, NextGeneration
    <3> QED
      BY <1>0, <2>1, <3>1, <3>2 DEF Send, At, Accepted, TokensOwned
  <2>2. ASSUME NEW v \in Workers, WorkerNext(v), ~Send(v)
        PROVE  \A w \in Workers : wpc'[w] \in {"save", "late"} =>
                 wpc[w] \in {"save", "late"} /\ token'[w] = token[w] /\ wclient'[w] = wclient[w]
    BY <1>0, <2>2 DEF WorkerNext, Start, Lock, Prepare, Reconfigure, ReadExpiry,
       CheckCooldown, LoadToken, UseClient, Save, Finish, Fail, DropWorker, LateSave, At,
       GiveUp, locals
  <2>3. CASE Restart
    BY <1>0, <2>3 DEF Restart
  <2>4. CASE ~Restart /\ \A v \in Workers : ~WorkerNext(v)
    BY <2>4, WorkersUntouched DEF TokensOwned
  <2> QED
    BY <2>1, <2>2, <2>3, <2>4 DEF TokensOwned
<1> QED
    BY <1>1, <1>2 DEF TokensOwned

LEMMA InitRow ==
    ASSUME Init, row # None
    PROVE  row.client = Old /\ row.token = OldToken /\ live[Old] = 0
<1>1. PICK a \in Ages : row = [Stored(OldToken, Old) EXCEPT !.age = a]
    BY DEF Init
<1>2. row.client = Old /\ row.token = OldToken
    BY <1>1 DEF Stored
<1>3. Old \in Grants
    BY DEF Grants
<1> QED
    BY <1>2, <1>3 DEF Init

LEMMA TokensOwnedInit == Init => TokensOwned
<1> SUFFICES ASSUME Init PROVE TokensOwned
    OBVIOUS
<1>1. \A w \in Workers : wpc[w] \in {"idle", "gone"}
    BY DEF Init
<1> QED
    BY <1>1, InitRow, OldTokenType DEF TokensOwned, StoredClientOwns

-----------------------------------------------------------------------------
\* Before its code was exchanged, and until the callback has stored it, a grant is
\* in no row and in no request's hand.
Out(g) ==
    \/ row # None /\ row.token.grant = g
    \/ \E w \in Workers : token[w] # None /\ token[w].grant = g

Unissued ==
    /\ \A f \in Flows : exchanged[f] = 0 => ~Out(f)
    /\ \A k \in Callbacks : cpc[k] = "granted" => ~Out(cflow[k])

LEMMA OutGrows ==
    ASSUME Typed, [Next]_vars, NEW g, Out(g)', ~Out(g)
    PROVE  \E k \in Callbacks : StoreGrant(k) /\ cflow[k] = g
<1>0. token \in [Workers -> Tokens \cup {None}]
    BY DEF Typed, TypeOK
<1>1. ASSUME NEW w \in Workers, token'[w] # None, token'[w].grant = g PROVE FALSE
    BY <1>0, <1>1, TokenMoves, TokenFields, NextGeneration DEF Out
<1>2. row' # None /\ row'.token.grant = g
    BY <1>1 DEF Out
<1>3. ASSUME NEW w \in Workers, Save(w) \/ LateSave(w) PROVE FALSE
    BY <1>2, <1>3, StoredByWorker, TokenFields DEF Out
<1> QED
    BY <1>2, <1>3, RowMoves, StoredByCallback DEF Out

LEMMA UnissuedNext == Typed /\ TakenOnce /\ Unissued /\ [Next]_vars => Unissued'
<1> SUFFICES ASSUME Typed, TakenOnce, Unissued, [Next]_vars PROVE Unissued'
    OBVIOUS
<1>0. /\ cpc \in [Callbacks -> CallbackPCs] /\ exchanged \in [Flows -> Nat]
      /\ \A k \in Callbacks : cpc[k] = "granted" => cflow[k] \in Flows
    BY DEF Typed, TypeOK, Named
<1>1. ASSUME NEW f \in Flows, exchanged'[f] = 0 PROVE ~Out(f)'
  <2>1. exchanged[f] = 0
    <3>1. ASSUME NEW k \in Callbacks, Exchange(k) PROVE exchanged[f] = 0
      BY <1>0, <1>1, <3>1 DEF Exchange
    <3>2. ASSUME NEW k \in Callbacks, CallbackNext(k), ~Exchange(k) PROVE exchanged[f] = 0
      BY <1>1, <3>2 DEF CallbackNext, FindOwner, CallbackWithoutCode, Configure, TakeState,
         StoreGrant, Granted, Refused, DropCallback, server
    <3>3. CASE Restart
      BY <1>1, <3>3 DEF Restart
    <3>4. CASE ~Restart /\ \A k \in Callbacks : ~CallbackNext(k)
      BY <1>1, <3>4, CallbacksUntouched
    <3> QED
      BY <3>1, <3>2, <3>3, <3>4
  <2>2. ~Out(f)
    BY <2>1 DEF Unissued
  <2>3. ~(\E k \in Callbacks : StoreGrant(k) /\ cflow[k] = f)
    BY <2>1, StoredByCallback DEF TakenOnce
  <2> QED
    BY <2>2, <2>3, OutGrows
<1>2. ASSUME NEW k \in Callbacks, cpc'[k] = "granted" PROVE ~Out(cflow[k])' /\ cflow'[k] = cflow[k]
  <2>1. cflow'[k] = cflow[k] /\ (cpc[k] = "granted" \/ Exchange(k))
    <3>1. ASSUME NEW j \in Callbacks, CallbackNext(j)
          PROVE  cflow'[k] = cflow[k] /\ (cpc[k] = "granted" \/ Exchange(k))
      BY <1>0, <1>2, <3>1 DEF CallbackNext, FindOwner, CallbackWithoutCode, Configure,
         TakeState, Exchange, StoreGrant, Granted, Refused, DropCallback, CallbackAt,
         arguments, Typed, TypeOK
    <3>2. CASE Restart
      BY <1>0, <1>2, <3>2 DEF Restart, arguments
    <3>3. CASE ~Restart /\ \A j \in Callbacks : ~CallbackNext(j)
      BY <1>2, <3>3, CallbacksUntouched
    <3> QED
      BY <3>1, <3>2, <3>3
  <2>2. CASE Exchange(k)
    <3>1. cpc[k] = "taken" /\ cflow[k] \in Flows /\ ~Out(cflow[k])
      BY <2>2 DEF Exchange, Typed, Named, TakenOnce, Unissued
    <3>2. UNCHANGED << row, token, cflow >>
      BY <2>2 DEF Exchange, tables, arguments, workers, locals
    <3> QED
      BY <3>1, <3>2 DEF Out
  <2>3. CASE cpc[k] = "granted"
    <3>1. ASSUME NEW j \in Callbacks, StoreGrant(j), cflow[j] = cflow[k] PROVE FALSE
      <4>1. j = k
        BY <2>3, <3>1 DEF StoreGrant, TakenOnce, Presenting
      <4> QED
        BY <1>0, <1>2, <3>1, <4>1 DEF StoreGrant, CallbackAt
    <3>2. ~Out(cflow[k])
      BY <2>3 DEF Unissued
    <3>3. ASSUME NEW g, g = cflow[k], Out(g)' PROVE FALSE
      BY <3>1, <3>2, <3>3, OutGrows
    <3> QED
      BY <2>1, <3>3 DEF Out
  <2> QED
    BY <2>1, <2>2, <2>3
<1> QED
    BY <1>1, <1>2 DEF Unissued, Out

LEMMA UnissuedInit == Init => Unissued
<1> SUFFICES ASSUME Init PROVE Unissued
    OBVIOUS
<1>1. \A w \in Workers : token[w] = None
    BY DEF Init
<1>2. \A f \in Flows : ~Out(f)
    BY <1>1, InitRow, OldTokenType, OauthAssumption DEF Out
<1>3. \A k \in Callbacks : cpc[k] \in {"idle", "gone"}
    BY DEF Init
<1> QED
    BY <1>2, <1>3 DEF Unissued

-----------------------------------------------------------------------------
\* The latest refresh token of a grant that is not in doubt is in the row, or in the
\* hand of the holder of the serving manager's lock, who is about to store it.
SaveFresh ==
    \A w \in Workers :
        wpc[w] = "save" /\ token[w].grant \notin unsure =>
            Holds(w) /\ wmgr[w] = manager /\ token[w].gen = live[token[w].grant]
LateUnsure ==
    \A w \in Workers : wpc[w] = "late" => token[w].grant \in unsure
RowFresh ==
    row # None /\ row.token.grant \notin unsure =>
        \/ row.token.gen = live[row.token.grant]
        \/ \E w \in Workers : wpc[w] = "save" /\ token[w].grant = row.token.grant
GrantFresh ==
    \A k \in Callbacks : cpc[k] = "granted" /\ cflow[k] \notin unsure => live[cflow[k]] = 0

Fresh == SaveFresh /\ LateUnsure /\ RowFresh /\ GrantFresh /\ LockedRefreshLive

LEMMA GrantsInHand ==
    ASSUME Typed
    PROVE  /\ \A w \in Workers : wpc[w] \in {"send", "save", "late"} =>
                  token[w] \in Tokens /\ token[w].grant \in Grants /\ Out(token[w].grant)
           /\ row # None => row.token \in Tokens /\ row.token.grant \in Grants
                              /\ Out(row.token.grant)
           /\ \A k \in Callbacks : cpc[k] \in Presenting =>
                  cflow[k] \in Flows /\ cflow[k] \in Grants
<1>1. \A w \in Workers : wpc[w] \in {"send", "save", "late"} =>
          token[w] \in Tokens /\ token[w].grant \in Grants /\ token[w] # None
    BY TokenFields DEF Typed, Named
<1>2. row # None => row.token \in Tokens /\ row.token.grant \in Grants
    BY RowFields, TokenFields DEF Typed, TypeOK
<1>3. \A k \in Callbacks : cpc[k] \in Presenting => cflow[k] \in Flows
    BY DEF Typed, Named, Presenting
<1> QED
    BY <1>1, <1>2, <1>3 DEF Out, Grants

\* Steps that move no token, and call the server for grants in doubt only.
LEMMA FreshKept ==
    ASSUME Typed, Fresh,
           UNCHANGED << manager, token >>, unsure \subseteq unsure',
           \A g \in Grants : g \notin unsure' => live'[g] = live[g],
           \A w \in Workers : wpc'[w] \in {"send", "save"} => wpc'[w] = wpc[w],
           \A w \in Workers : wpc'[w] = "late" =>
               wpc[w] = "late" \/ token[w].grant \in unsure',
           \A w \in Workers : wpc[w] = "save" =>
               wpc'[w] = "save" \/ token[w].grant \in unsure',
           \A w \in Workers : wpc[w] = wpc'[w] /\ wpc[w] \in {"send", "save"} =>
               wmgr'[w] = wmgr[w] /\ (Holds(w)' <=> Holds(w)),
           row' = None \/ (row # None /\ row'.token = row.token),
           \A k \in Callbacks : cpc'[k] = "granted" =>
               cpc[k] = "granted" /\ cflow'[k] = cflow[k]
    PROVE  Fresh'
<1>1. SaveFresh'
    BY GrantsInHand DEF Fresh, SaveFresh
<1>2. LateUnsure'
    BY DEF Fresh, LateUnsure
<1>3. RowFresh'
    BY GrantsInHand DEF Fresh, RowFresh
<1>4. GrantFresh'
    BY GrantsInHand DEF Fresh, GrantFresh, Presenting
<1>5. LockedRefreshLive'
    BY GrantsInHand DEF Fresh, LockedRefreshLive
<1> QED
    BY <1>1, <1>2, <1>3, <1>4, <1>5 DEF Fresh

\* A step of another request does not take the lock away.
LEMMA HolderKeeps ==
    ASSUME Typed, NEW v \in Workers, NEW w \in Workers, v # w,
           Lock(v) \/ Unlock(v) \/ UNCHANGED lock, wmgr'[w] = wmgr[w]
    PROVE  Holds(w) => Holds(w)'
<1>0. /\ lock \in [Managers -> Workers \cup {None}] /\ wmgr \in [Workers -> Managers]
      /\ None \notin Workers
    BY OauthAssumption DEF Typed, TypeOK
<1>1. CASE Lock(v)
    BY <1>0, <1>1 DEF Lock, Holds
<1>2. CASE Unlock(v) \/ UNCHANGED lock
    BY <1>0, <1>2 DEF Unlock, Holds
<1> QED
    BY <1>1, <1>2

LEMMA HolderNew ==
    ASSUME Typed, NEW v \in Workers, NEW w \in Workers, v # w,
           Lock(v) \/ Unlock(v) \/ UNCHANGED lock, wmgr'[w] = wmgr[w]
    PROVE  Holds(w)' => Holds(w)
<1>0. /\ lock \in [Managers -> Workers \cup {None}] /\ wmgr \in [Workers -> Managers]
      /\ None \notin Workers
    BY OauthAssumption DEF Typed, TypeOK
<1>1. CASE Lock(v)
    BY <1>0, <1>1 DEF Lock, Holds
<1>2. CASE Unlock(v) \/ UNCHANGED lock
    BY <1>0, <1>2 DEF Unlock, Holds
<1> QED
    BY <1>1, <1>2

\* Steps of a worker that do not call the server, store, or load a token.
Still(w) ==
    \/ Start(w) \/ Lock(w) \/ Prepare(w) \/ Reconfigure(w) \/ ReadExpiry(w)
    \/ CheckCooldown(w) \/ Finish(w) \/ Fail(w)

LEMMA StillFresh ==
    ASSUME Typed, Fresh, NEW v \in Workers, Still(v) PROVE Fresh'
<1>0. wpc \in [Workers -> WorkerPCs] /\ wmgr \in [Workers -> Managers]
    BY DEF Typed, TypeOK
<1>1. /\ UNCHANGED << manager, live, token, unsure, row, cpc, cflow >>
      /\ Lock(v) \/ Unlock(v) \/ UNCHANGED lock
    BY DEF Still, Start, Lock, Prepare, Reconfigure, ReadExpiry, CheckCooldown, Finish,
       Fail, GiveUp, tables, memory, registry, callbacks, arguments, locals, server
<1>2. /\ wpc[v] \notin {"send", "save", "late"} /\ wpc'[v] \notin {"send", "save", "late"}
      /\ \A w \in Workers : w # v => wpc'[w] = wpc[w] /\ wmgr'[w] = wmgr[w]
    BY <1>0 DEF Still, Start, Lock, Prepare, Reconfigure, ReadExpiry, CheckCooldown, Finish,
       Fail, GiveUp, At, locals
<1>3. \A w \in Workers : wpc[w] = wpc'[w] /\ wpc[w] \in {"send", "save"} =>
          wmgr'[w] = wmgr[w] /\ (Holds(w)' <=> Holds(w))
    BY <1>1, <1>2, HolderKeeps, HolderNew
<1> QED
    BY <1>1, <1>2, <1>3, FreshKept

\* Who is about to store a token that is not in doubt holds the lock, so nobody else
\* who holds it has one in hand.
LEMMA OneHolder ==
    ASSUME NEW v \in Workers, NEW w \in Workers, Holds(v), Holds(w), wmgr[v] = wmgr[w]
    PROVE  v = w
BY DEF Holds

LEMMA LoadFresh ==
    ASSUME Typed, LocksHeld, Fresh, NEW v \in Workers, LoadToken(v) \/ UseClient(v)
    PROVE  Fresh'
<1>0. /\ wpc \in [Workers -> WorkerPCs] /\ token \in [Workers -> Tokens \cup {None}]
      /\ wpc[v] \in {"token", "client"}
      /\ UNCHANGED << manager, lock, wmgr, live, unsure, row, cpc, cflow >>
    BY DEF LoadToken, UseClient, tables, memory, registry, callbacks, arguments, server,
       Typed, TypeOK
<1>h. \A w \in Workers : Holds(w)' <=> Holds(w)
    BY <1>0 DEF Holds
<1>1. CASE /\ wpc' = [wpc EXCEPT ![v] = "refused"] \/ wpc' = [wpc EXCEPT ![v] = "kept"]
           /\ UNCHANGED token
    BY <1>0, <1>h, <1>1, FreshKept
<1>2. CASE /\ row # None /\ wpc' = [wpc EXCEPT ![v] = "send"]
           /\ token' = [token EXCEPT ![v] = row.token]
  <2>0. \A w \in Workers : w # v => wpc'[w] = wpc[w] /\ token'[w] = token[w]
    BY <1>0, <1>2
  <2>v. wpc'[v] = "send" /\ token'[v] = row.token
    BY <1>0, <1>2
  <2>1. SaveFresh'
    BY <1>0, <1>h, <2>0, <2>v DEF Fresh, SaveFresh
  <2>2. LateUnsure'
    BY <1>0, <2>0, <2>v DEF Fresh, LateUnsure
  <2>3. RowFresh'
    BY <1>0, <2>0, <2>v DEF Fresh, RowFresh
  <2>4. GrantFresh'
    BY <1>0 DEF Fresh, GrantFresh
  <2>5. ASSUME Holds(v), wmgr[v] = manager, row.token.grant \notin unsure
        PROVE  live[row.token.grant] = row.token.gen
    <3>1. ASSUME NEW u \in Workers, wpc[u] = "save", token[u].grant = row.token.grant
          PROVE  FALSE
      BY <1>0, <2>5, <3>1, OneHolder DEF Fresh, SaveFresh
    <3> QED
      BY <1>2, <2>5, <3>1 DEF Fresh, RowFresh
  <2>6. LockedRefreshLive'
    BY <1>0, <1>h, <2>0, <2>v, <2>5 DEF Fresh, LockedRefreshLive
  <2> QED
    BY <2>1, <2>2, <2>3, <2>4, <2>6 DEF Fresh
<1> QED
    BY <1>1, <1>2 DEF LoadToken, UseClient, At

\* The answer of the server: the lock holder has the latest token in hand, and any
\* other caller puts the grant in doubt.
LEMMA SendFresh ==
    ASSUME Typed, LocksHeld, Unissued, Fresh, NEW v \in Workers, Send(v)
    PROVE  Fresh'
<1> DEFINE g == token[v].grant
<1>0. /\ wpc \in [Workers -> WorkerPCs] /\ token \in [Workers -> Tokens \cup {None}]
      /\ live \in [Grants -> Int]
      /\ wpc[v] = "send" /\ token[v] \in Tokens /\ g \in Grants /\ Out(g)
      /\ UNCHANGED << manager, lock, wmgr, row, cpc, cflow >>
    BY GrantsInHand DEF Send, tables, memory, registry, callbacks, arguments, Typed, TypeOK
<1>h. \A w \in Workers : Holds(w)' <=> Holds(w)
    BY <1>0 DEF Holds
<1>g. ASSUME NEW k \in Callbacks, cpc[k] = "granted" PROVE cflow[k] # g /\ cflow[k] \in Grants
    BY <1>0, <1>g, GrantsInHand DEF Unissued, Presenting
<1>1. CASE wpc' = [wpc EXCEPT ![v] = "refused"] /\ UNCHANGED << token, live, unsure >>
    BY <1>0, <1>h, <1>1, FreshKept
<1>2. CASE /\ Rotate(v) /\ Doubt(v) /\ wpc' = [wpc EXCEPT ![v] = "refused"]
           /\ UNCHANGED token
    BY <1>0, <1>h, <1>2, FreshKept DEF Rotate, Doubt
<1>3. CASE /\ Accepted(v) /\ Rotate(v) /\ wpc' = [wpc EXCEPT ![v] = "save"]
           /\ token' = [token EXCEPT ![v].gen = @ + 1]
           /\ IF Holds(v) /\ wmgr[v] = manager THEN UNCHANGED unsure ELSE Doubt(v)
  <2>0. \A w \in Workers : w # v => wpc'[w] = wpc[w] /\ token'[w] = token[w]
    BY <1>0, <1>3
  <2>v. /\ wpc'[v] = "save" /\ token'[v] \in Tokens
        /\ token'[v].grant = g /\ token'[v].gen = live[g] + 1
    BY <1>0, <1>3, NextGeneration DEF Accepted
  <2>l. live'[g] = live[g] + 1 /\ \A h \in Grants : h # g => live'[h] = live[h]
    BY <1>0, <1>3 DEF Rotate
  <2>u. /\ unsure \subseteq unsure'
        /\ g \notin unsure' => Holds(v) /\ wmgr[v] = manager
    BY <1>3 DEF Doubt
  <2> HIDE DEF g
  <2>o. ASSUME NEW w \in Workers, w # v, Holds(w), wmgr[w] = manager, token[w].grant \notin unsure'
        PROVE  token[w].grant # g
    BY <2>o, <2>u, OneHolder
  <2>1. SaveFresh'
    <3>1. ASSUME NEW w \in Workers, w # v, wpc[w] = "save", token[w].grant \notin unsure'
          PROVE  /\ Holds(w) /\ wmgr[w] = manager
                 /\ token[w].gen = live'[token[w].grant]
      BY <2>l, <2>o, <2>u, <3>1, GrantsInHand DEF Fresh, SaveFresh
    <3> QED
      BY <1>0, <1>h, <2>0, <2>v, <2>l, <2>u, <3>1 DEF SaveFresh
  <2>2. LateUnsure'
    BY <2>0, <2>u, <2>v DEF Fresh, LateUnsure
  <2>3. RowFresh'
    <3>1. CASE row = None \/ row.token.grant \in unsure'
      BY <1>0, <3>1 DEF RowFresh
    <3>2. CASE row # None /\ row.token.grant \notin unsure' /\ row.token.grant = g
      BY <1>0, <2>v, <3>2 DEF RowFresh
    <3>3. CASE row # None /\ row.token.grant \notin unsure' /\ row.token.grant # g
      <4>1. live'[row.token.grant] = live[row.token.grant] /\ row.token.grant \notin unsure
        BY <2>l, <2>u, <3>3, GrantsInHand
      <4>2. ASSUME NEW w \in Workers, wpc[w] = "save", token[w].grant = row.token.grant
            PROVE  wpc'[w] = "save" /\ token'[w].grant = row.token.grant
        BY <1>0, <2>0, <4>2
      <4> QED
        BY <1>0, <3>3, <4>1, <4>2 DEF Fresh, RowFresh
    <3> QED
      BY <3>1, <3>2, <3>3
  <2>4. GrantFresh'
    BY <1>0, <1>g, <2>l, <2>u DEF Fresh, GrantFresh
  <2>5. LockedRefreshLive'
    <3>1. ASSUME NEW w \in Workers, w # v, wpc[w] = "send", wmgr[w] = manager, Holds(w),
                 token[w].grant \notin unsure'
          PROVE  live'[token[w].grant] = token[w].gen
      BY <2>l, <2>o, <2>u, <3>1, GrantsInHand DEF Fresh, LockedRefreshLive
    <3> QED
      BY <1>0, <1>h, <2>0, <2>v, <3>1 DEF LockedRefreshLive
  <2> QED
    BY <2>1, <2>2, <2>3, <2>4, <2>5 DEF Fresh
<1> QED
    BY <1>1, <1>2, <1>3 DEF Send, At

LEMMA SaveKeepsFresh ==
    ASSUME Typed, Fresh, NEW v \in Workers, Save(v) \/ LateSave(v) PROVE Fresh'
<1>0. /\ wpc \in [Workers -> WorkerPCs]
      /\ wpc[v] \in {"save", "late"} /\ wpc'[v] \in {"kept", "gone"}
      /\ UNCHANGED << manager, lock, wmgr, live, unsure, token, cpc, cflow >>
      /\ \A w \in Workers : w # v => wpc'[w] = wpc[w]
    BY DEF Save, LateSave, At, memory, registry, callbacks, arguments, locals, server,
       Typed, TypeOK
<1>h. \A w \in Workers : Holds(w)' <=> Holds(w)
    BY <1>0 DEF Holds
<1>r. row'.token = token[v]
    BY StoredByWorker
<1>1. SaveFresh'
    BY <1>0, <1>h DEF Fresh, SaveFresh
<1>2. LateUnsure'
    BY <1>0 DEF Fresh, LateUnsure
<1>3. RowFresh'
    BY <1>0, <1>r DEF Fresh, RowFresh, SaveFresh, LateUnsure
<1>4. GrantFresh'
    BY <1>0 DEF Fresh, GrantFresh
<1>5. LockedRefreshLive'
    BY <1>0, <1>h DEF Fresh, LockedRefreshLive
<1> QED
    BY <1>1, <1>2, <1>3, <1>4, <1>5 DEF Fresh

LEMMA DropFresh ==
    ASSUME Typed, Fresh, NEW v \in Workers, DropWorker(v) PROVE Fresh'
<1>0. /\ wpc \in [Workers -> WorkerPCs] /\ live \in [Grants -> Int]
      /\ UNCHANGED << manager, wmgr, token, row, cpc, cflow >>
      /\ unsure \subseteq unsure' /\ Unlock(v)
      /\ wpc'[v] \in {"gone", "late"}
      /\ \A w \in Workers : w # v => wpc'[w] = wpc[w]
      /\ wpc[v] = "save" => token[v].grant \in unsure'
      /\ wpc'[v] = "late" => wpc[v] = "save"
    BY DEF DropWorker, Doubt, At, tables, registry, callbacks, arguments, locals, Typed,
       TypeOK
<1>1. \A g \in Grants : g \notin unsure' => live'[g] = live[g]
  <2>1. UNCHANGED live \/ (Rotate(v) /\ Doubt(v))
    BY DEF DropWorker
  <2> QED
    BY <1>0, <2>1 DEF Rotate, Doubt
<1>2. \A w \in Workers : wpc[w] = wpc'[w] /\ wpc[w] \in {"send", "save"} =>
          wmgr'[w] = wmgr[w] /\ (Holds(w)' <=> Holds(w))
    BY <1>0, HolderKeeps, HolderNew
<1> QED
    BY <1>0, <1>1, <1>2, FreshKept

LEMMA CallbackFresh ==
    ASSUME Typed, TakenOnce, Unissued, Fresh, NEW k \in Callbacks, CallbackNext(k)
    PROVE  Fresh'
<1>0. /\ cpc \in [Callbacks -> CallbackPCs] /\ live \in [Grants -> Int]
      /\ UNCHANGED << manager, lock, wpc, wmgr, token, unsure >>
    BY DEF CallbackNext, FindOwner, CallbackWithoutCode, Configure, TakeState, Exchange,
       StoreGrant, Granted, Refused, DropCallback, tables, memory, registry, workers,
       locals, server, Typed, TypeOK
<1>h. \A w \in Workers : Holds(w)' <=> Holds(w)
    BY <1>0 DEF Holds
<1>1. CASE StoreGrant(k)
  <2>0. /\ cpc[k] = "granted" /\ \A j \in Callbacks : cpc'[j] = "granted" => cpc[j] = "granted"
        /\ UNCHANGED << live, cflow >>
    BY <1>0, <1>1 DEF StoreGrant, CallbackAt, arguments, server
  <2>1. SaveFresh' /\ LateUnsure' /\ LockedRefreshLive'
    BY <1>0, <1>h, <2>0 DEF Fresh, SaveFresh, LateUnsure, LockedRefreshLive
  <2>2. GrantFresh'
    BY <1>0, <2>0 DEF Fresh, GrantFresh
  <2>3. RowFresh'
    BY <1>0, <1>1, <2>0, StoredByCallback DEF Fresh, GrantFresh, RowFresh
  <2> QED
    BY <2>1, <2>2, <2>3 DEF Fresh
<1>2. CASE /\ Exchange(k) /\ cpc' = [cpc EXCEPT ![k] = "granted"]
           /\ live' = [live EXCEPT ![cflow[k]] = 0]
  <2> DEFINE f == cflow[k]
  <2>0. /\ cpc[k] = "taken" /\ f \in Grants /\ ~Out(f)
        /\ UNCHANGED << row, cflow >>
        /\ \A j \in Callbacks : j # k /\ cpc[j] = "granted" => cflow[j] # f
    BY <1>2, GrantsInHand DEF Exchange, TakenOnce, Unissued, Presenting, tables, arguments
  <2>l. live'[f] = 0 /\ \A g \in Grants : g # f => live'[g] = live[g]
    BY <1>0, <1>2, <2>0
  <2>c. /\ cpc'[k] = "granted" /\ \A j \in Callbacks : j # k => cpc'[j] = cpc[j]
    BY <1>0, <1>2
  <2>1. \A w \in Workers : wpc[w] \in {"send", "save"} =>
            live'[token[w].grant] = live[token[w].grant]
    BY <2>0, <2>l, GrantsInHand
  <2>2. row # None => live'[row.token.grant] = live[row.token.grant]
    BY <2>0, <2>l, GrantsInHand
  <2>3. SaveFresh' /\ LateUnsure' /\ LockedRefreshLive'
    BY <1>0, <1>h, <2>1 DEF Fresh, SaveFresh, LateUnsure, LockedRefreshLive
  <2>4. RowFresh'
    BY <1>0, <2>0, <2>2 DEF Fresh, RowFresh
  <2>5. GrantFresh'
    <3>1. ASSUME NEW j \in Callbacks, j # k, cpc[j] = "granted", cflow[j] \notin unsure
          PROVE  live'[cflow[j]] = 0
      BY <2>0, <2>l, <3>1, GrantsInHand DEF Fresh, GrantFresh, Presenting
    <3> QED
      BY <1>0, <2>0, <2>l, <2>c, <3>1 DEF GrantFresh
  <2> QED
    BY <2>3, <2>4, <2>5 DEF Fresh
<1>3. CASE /\ Exchange(k) /\ cpc' = [cpc EXCEPT ![k] = "refused"]
           /\ UNCHANGED live
  <2>1. UNCHANGED << row, cflow >>
    BY <1>3 DEF Exchange, tables, arguments
  <2> QED
    BY <1>0, <1>h, <1>3, <2>1, FreshKept
<1>4. CASE ~StoreGrant(k) /\ ~Exchange(k)
  <2>1. \A j \in Callbacks : cpc'[j] = "granted" => cpc[j] = "granted" /\ cflow'[j] = cflow[j]
    BY <1>0, <1>4 DEF CallbackNext, FindOwner, CallbackWithoutCode, Configure, TakeState,
       Granted, Refused, DropCallback, CallbackAt, arguments, Typed, TypeOK
  <2>2. UNCHANGED << row, live >>
    BY <1>4 DEF CallbackNext, FindOwner, CallbackWithoutCode, Configure, TakeState,
       Granted, Refused, DropCallback, tables, server
  <2> QED
    BY <1>0, <1>h, <2>1, <2>2, FreshKept
<1> QED
    BY <1>1, <1>2, <1>3, <1>4 DEF Exchange, CallbackAt

LEMMA FreshNext ==
    Typed /\ LocksHeld /\ TakenOnce /\ Unissued /\ Fresh /\ [Next]_vars => Fresh'
<1> SUFFICES ASSUME Typed, LocksHeld, TakenOnce, Unissued, Fresh, [Next]_vars
             PROVE  Fresh'
    OBVIOUS
<1>0. /\ manager \in Nat /\ wmgr \in [Workers -> Managers] /\ live \in [Grants -> Int]
      /\ wpc \in [Workers -> WorkerPCs] /\ cpc \in [Callbacks -> CallbackPCs]
    BY DEF Typed, TypeOK, Managers
<1>1. ASSUME NEW w \in Workers, WorkerNext(w) PROVE Fresh'
    BY <1>1, StillFresh, LoadFresh, SendFresh, SaveKeepsFresh, DropFresh
       DEF WorkerNext, Still
<1>2. ASSUME NEW k \in Callbacks, CallbackNext(k) PROVE Fresh'
    BY <1>2, CallbackFresh
<1>3. ASSUME NEW g \in Grants, Revoke(g) PROVE Fresh'
  <2>1. /\ UNCHANGED << manager, lock, wmgr, wpc, token, row, cpc, cflow >>
        /\ live' = [live EXCEPT ![g] = -1] /\ unsure' = unsure \cup {g}
    BY <1>3 DEF Revoke, tables, memory, registry, callbacks, arguments, workers, locals
  <2>2. \A h \in Grants : h \notin unsure' => live'[h] = live[h]
    BY <1>0, <2>1
  <2>3. \A w \in Workers : Holds(w)' <=> Holds(w)
    BY <2>1 DEF Holds
  <2> QED
    BY <2>1, <2>2, <2>3, FreshKept
<1>4. CASE Replace
  <2>1. /\ UNCHANGED << lock, wmgr, wpc, token, row, cpc, cflow, live >>
        /\ manager' = manager + 1 /\ unsure' = unsure \cup InHand
    BY <1>4 DEF Replace, tables, callbacks, arguments, workers, locals
  <2>2. \A w \in Workers : wpc[w] = "save" => token[w].grant \in unsure'
    BY <2>1 DEF InHand
  <2>3. \A w \in Workers : wmgr[w] # manager'
    BY <1>0, <2>1 DEF LocksHeld, Managers
  <2>4. SaveFresh' /\ LateUnsure' /\ LockedRefreshLive'
    BY <2>1, <2>2, <2>3 DEF Fresh, SaveFresh, LateUnsure, LockedRefreshLive
  <2>5. RowFresh' /\ GrantFresh'
    BY <2>1 DEF Fresh, RowFresh, GrantFresh
  <2> QED
    BY <2>4, <2>5 DEF Fresh
<1>5. CASE Restart
  <2>1. /\ UNCHANGED << manager, wmgr, token, row, cflow, live >>
        /\ unsure' = unsure \cup InHand
        /\ \A w \in Workers : wpc'[w] \notin {"send", "save", "late"}
        /\ \A k \in Callbacks : cpc'[k] # "granted"
    BY <1>5 DEF Restart, tables, registry, arguments, locals
  <2>2. \A w \in Workers : wpc[w] = "save" => token[w].grant \in unsure'
    BY <2>1 DEF InHand
  <2> QED
    BY <2>1, <2>2, FreshKept
<1>6. CASE /\ \A w \in Workers : ~WorkerNext(w)
           /\ \A k \in Callbacks : ~CallbackNext(k)
           /\ \A g \in Grants : ~Revoke(g)
           /\ ~Replace /\ ~Restart
  <2>1. UNCHANGED << lock, wpc, wmgr, token, cpc, cflow, manager >>
    BY <1>6, WorkersUntouched, CallbacksUntouched, ManagerMoves
  <2>2. UNCHANGED << live, unsure >>
    BY <1>6 DEF Next, vars, server, FlowNext, Begin, SaveRegistration, ReadBack, SaveState,
       BeginFails, ExpireState, ClearNext, ClearFailures, DeleteCredentials,
       DeleteRegistration, Cooldown, Age
  <2>3. row' = None \/ (row # None /\ row'.token = row.token)
    BY <1>6, RowMoves DEF WorkerNext, CallbackNext
  <2>4. \A w \in Workers : Holds(w)' <=> Holds(w)
    BY <2>1 DEF Holds
  <2> QED
    BY <2>1, <2>2, <2>3, <2>4, FreshKept
<1> QED
    BY <1>1, <1>2, <1>3, <1>4, <1>5, <1>6

LEMMA FreshInit == Init => Fresh
<1> SUFFICES ASSUME Init PROVE Fresh
    OBVIOUS
<1>1. /\ \A w \in Workers : wpc[w] \in {"idle", "gone"}
      /\ \A k \in Callbacks : cpc[k] \in {"idle", "gone"}
    BY DEF Init
<1> QED
    BY <1>1, InitRow, OldTokenType DEF Fresh, SaveFresh, LateUnsure, RowFresh, GrantFresh,
       LockedRefreshLive

-----------------------------------------------------------------------------
\* The inductive invariant and the theorems
OauthInv ==
    /\ Typed /\ LocksHeld /\ CooldownQuiet /\ Opened /\ TakenOnce
    /\ TokensOwned /\ Unissued /\ Fresh

LEMMA OauthInvInit == Init => OauthInv
<1> SUFFICES ASSUME Init PROVE OauthInv
    OBVIOUS
<1>1. CooldownQuiet
    BY DEF Init, CooldownQuiet, Workers
<1> QED
    BY <1>1, TypedInit, LocksHeldInit, TakenOnceInit, TokensOwnedInit, UnissuedInit,
       FreshInit DEF OauthInv

LEMMA OauthInvNext == OauthInv /\ [Next]_vars => OauthInv'
BY TypedNext, LocksHeldNext, CooldownNext, OpenedNext, TakenOnceNext, TokensOwnedNext,
   UnissuedNext, FreshNext DEF OauthInv

LEMMA OauthInvHolds == Spec => []OauthInv
BY OauthInvInit, OauthInvNext, PTL DEF Spec

\* Types: the tables, the locals of every request and the server are well typed,
\* whatever requests, managers and registrations there are.
THEOREM TypesHold == Spec => []TypeOK
<1>1. OauthInv => TypeOK
    BY DEF OauthInv, Typed
<1> QED
    BY <1>1, OauthInvHolds, PTL

\* take_upstream_oauth_state deletes the state it returns: a code is presented to the
\* server at most once, however many callbacks carry it.
THEOREM ExchangeOnceHolds == Spec => []ExchangeOnce
<1>1. TakenOnce => ExchangeOnce
  <2> SUFFICES ASSUME TakenOnce, NEW f \in Flows PROVE exchanged[f] <= 1
    BY DEF ExchangeOnce
  <2>1. exchanged[f] \in {0, 1}
    BY DEF TakenOnce
  <2> QED
    BY <2>1
<1>2. OauthInv => TakenOnce
    BY DEF OauthInv
<1> QED
    BY <1>1, <1>2, OauthInvHolds, PTL

\* The callback route deletes the state on every failure: no callback that was
\* answered leaves a state another one could use.
THEOREM ReplayForeclosedHolds == Spec => []ReplayForeclosed
<1>1. OauthInv => ReplayForeclosed
    BY DEF OauthInv, TakenOnce, ReplayForeclosed
<1> QED
    BY <1>1, OauthInvHolds, PTL

\* SqliteCredentialStore::save: the stored client is the one the stored tokens were
\* issued to, whoever stored them last.
THEOREM StoredClientOwnsHolds == Spec => []StoredClientOwns
<1>1. OauthInv => StoredClientOwns
    BY DEF OauthInv, TokensOwned
<1> QED
    BY <1>1, OauthInvHolds, PTL

\* RefreshLocks: a refresh under the serving manager's lock presents the latest
\* refresh token of its grant, unless the grant is in doubt.
THEOREM LockedRefreshLiveHolds == Spec => []LockedRefreshLive
<1>1. OauthInv => LockedRefreshLive
    BY DEF OauthInv, Fresh
<1> QED
    BY <1>1, OauthInvHolds, PTL

\* RefreshFailureCache: no build calls the server for a token it found due while a
\* failure is recorded.
THEOREM CooldownQuietHolds == Spec => []CooldownQuiet
<1>1. OauthInv => CooldownQuiet
    BY DEF OauthInv
<1> QED
    BY <1>1, OauthInvHolds, PTL
=============================================================================
