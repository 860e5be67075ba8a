----------------------- MODULE CredentialBrokerProofs -----------------------
(***************************************************************************)
(* Proofs about CredentialBroker, for any number of requests of each kind, *)
(* any lifetimes and any delays: a code or token is used once              *)
(* (SingleUse), a revoked token stays revoked (RevokedStaysRevoked), a     *)
(* rotation is backed by a Google credential (RotationBacked), a refresh   *)
(* that Google rejects deletes only what it presented while its grant is   *)
(* stored (InboundDeletesWhatFailed), every variable keeps its type, and   *)
(* the whole implements the grant store (ImplementsGrantStore).            *)
(***************************************************************************)
EXTENDS CredentialBroker, TLAPS

\* The places each kind of request can be at.
PlacesOf(p) ==
    {at \in PCs :
        \/ at \in {"start", "done"}
        \/ p \in Consents /\ at \in {"exchanged", "merging"}
        \/ p \in Callbacks /\ at = "stored"
        \/ p \in Redeemers /\ at \in {"redeemed", "checked"}
        \/ p \in Refreshers /\ at \in {"claimed", "saving", "rotating", "releasing"}
        \/ p \in Refreshers \cup Outbounds \cup Revokers
              /\ at \in {"locking", "loading", "calling", "invalidating"}
        \/ p \in Outbounds \cup Revokers
              /\ at \in {"rereading", "resaving", "rejected"}
        \/ p \in Refreshers \cup Outbounds \cup Revokers
              /\ at \in {"late save", "late delete"}
        \/ p \in Clients /\ at = "found"}

Rows == [exp : Nat, claim : Refreshers \cup {None}, claimExp : Nat]

\* The parts of the inductive invariant.
Sorts ==
    /\ now \in Nat
    /\ cred.gen \in Nat
    /\ codes \in [Callbacks -> Nat]
    /\ tokens \in [Tokens -> Rows]
    /\ uses \in [Requests -> Callbacks \cup Tokens \cup {None}]
    /\ issued \subseteq Callbacks \cup Tokens
    /\ revoked \subseteq issued \cap Tokens

Places ==
    /\ pc \in [Requests -> PCs]
    /\ \A p \in Requests : pc[p] \in PlacesOf(p)

\* What a request presents was issued, and a request that issued something is
\* over.
Presented ==
    /\ \A p \in Requests : uses[p] # None => uses[p] \in issued
    /\ \A p \in Requests : pc[p] = "start" => uses[p] = None
    /\ \A d \in Redeemers : uses[d] \in Callbacks \cup {None}
    /\ \A r \in Refreshers \cup Clients : uses[r] \in Tokens \cup {None}
    /\ \A p \in Tokens \cup Clients : pc[p] \notin {"start", "done"} => uses[p] # None
    /\ \A x \in issued : pc[x] = "done"
    /\ \A t \in issued \cap Tokens : uses[t] # None

\* A row that is still there was not redeemed.
Unspent ==
    /\ \A t \in Tokens : Live(t) => t \in issued
    /\ \A c \in Callbacks : codes[c] > 0 => \A d \in Redeemers : uses[d] # c
    /\ \A r \in Refreshers \cap issued : ~Live(uses[r])
    /\ \A d, e \in Redeemers : uses[d] # None /\ uses[d] = uses[e] => d = e

\* A request about to rotate a token it still holds the claim of.
Backed ==
    \A p \in Refreshers :
        pc[p] = "rotating" /\ tokens[uses[p]].claim = p => cred # NoCred

BrokerInv ==
    Sorts /\ Places /\ Presented /\ Unspent /\ SingleUse /\ RevokedStaysRevoked
          /\ Backed

-----------------------------------------------------------------------------
\* NoCred is the only row with generation 0 that matters: an upserted row is one.
LEMMA UpsertedRow ==
    ASSUME cred.gen \in Nat, NEW rt, NEW scopes
    PROVE  Upserted(rt, scopes) # NoCred /\ Upserted(rt, scopes).gen \in Nat
BY DEF Upserted, NoCred

\* The kinds of request are disjoint.
LEMMA Kinds ==
    /\ None \notin Requests
    /\ Callbacks \subseteq Requests /\ Tokens \subseteq Requests
    /\ Clients \subseteq Requests
    /\ Callbacks \cap Tokens = {} /\ Redeemers \cap Refreshers = {}
    /\ Tokens = Redeemers \cup Refreshers
    /\ \A p \in Consents \cup Outbounds \cup Revokers \cup Clients : p \notin Tokens
    /\ \A p \in Tokens \cup Outbounds \cup Revokers \cup Clients : p \notin Callbacks
    /\ \A p \in Consents \cup Outbounds \cup Revokers : p \notin Clients
BY BrokerAssumption DEF Consents, Tokens, Requests

\* The invariant holds before the first request.
LEMMA BrokerInit == Init => BrokerInv
<1> SUFFICES ASSUME Init PROVE BrokerInv
  OBVIOUS
<1>1. \A t \in Tokens : ~Live(t)
  BY DEF Init, Live, NoRow
<1>2. Sorts
  BY DEF Init, Sorts, NoCred, NoRow, Rows
<1>3. Places
  BY DEF Init, Places, PlacesOf, PCs
<1>4. Presented /\ Unspent
  BY <1>1, Kinds DEF Init, Presented, Unspent
<1>5. SingleUse /\ RevokedStaysRevoked /\ Backed
  BY Kinds DEF Init, SingleUse, RevokedStaysRevoked, Backed
<1> QED BY <1>2, <1>3, <1>4, <1>5 DEF BrokerInv

\* A step that moves one request and leaves the grants alone.
LEMMA ControlStep ==
    ASSUME BrokerInv, NEW p \in Requests, NEW at \in PCs,
           pc[p] # "start" \/ p \notin Tokens \cup Clients \/ at = "done",
           pc[p] # "done",
           at \in PlacesOf(p), at # "start",
           pc' = [pc EXCEPT ![p] = at],
           at = "rotating" => cred' # NoCred,
           cred' = cred \/ cred' # NoCred, cred'.gen \in Nat,
           now' = now,
           UNCHANGED << codes, tokens, uses, issued, revoked >>
    PROVE  BrokerInv'
<1> USE Kinds
<1>0. Sorts /\ Places /\ Presented /\ Unspent /\ SingleUse
        /\ RevokedStaysRevoked /\ Backed
  BY DEF BrokerInv
<1>1. Sorts'
  BY <1>0 DEF Sorts
<1>2. /\ Places'
      /\ pc'[p] = at /\ \A q \in Requests : q # p => pc'[q] = pc[q]
  <2>1. /\ pc'[p] = at /\ \A q \in Requests : q # p => pc'[q] = pc[q]
        /\ pc' \in [Requests -> PCs]
    BY <1>0 DEF Places
  <2> QED BY <2>1, <1>0 DEF Places
<1>3. Presented'
  BY <1>0, <1>2 DEF Presented, Sorts
<1>4. Unspent' /\ SingleUse' /\ RevokedStaysRevoked'
  BY <1>0 DEF Unspent, SingleUse, RevokedStaysRevoked, Live
<1>5. Backed'
  BY <1>0, <1>2 DEF Backed
<1> QED BY <1>1, <1>2, <1>3, <1>4, <1>5 DEF BrokerInv

\* The steps that move one request and at most replace the credential row.
LEMMA ControlActions ==
    ASSUME BrokerInv, NEW p \in Requests,
           \/ ExchangeCode(p) \/ ReadExisting(p) \/ StoreConsent(p)
           \/ CheckCredential(p) \/ CheckClaim(p) \/ ResolveLock(p) \/ Lock(p)
           \/ Load(p) \/ CallGoogle(p) \/ SaveInbound(p) \/ RereadOutbound(p)
           \/ SaveOutbound(p) \/ ReadRejected(p) \/ Cancel(p) \/ Detach(p)
           \/ LateSave(p)
    PROVE  BrokerInv'
<1>0. /\ cred.gen \in Nat /\ pc[p] \in PlacesOf(p)
      /\ cred' = cred => cred'.gen \in Nat
  BY DEF BrokerInv, Sorts, Places
<1>1. CASE ExchangeCode(p)
  <2>1. PICK at \in PlacesOf(p) :
          /\ at \notin {"start", "rotating"} /\ pc' = [pc EXCEPT ![p] = at]
    BY <1>0, <1>1 DEF ExchangeCode, At, Goto, PlacesOf, PCs
  <2>2. /\ pc[p] # "start" \/ p \notin Tokens \cup Clients
        /\ pc[p] # "done" /\ at \in PCs
    BY <1>1, Kinds DEF ExchangeCode, At, PlacesOf
  <2> QED BY <1>0, <1>1, <2>1, <2>2, ControlStep
            DEF ExchangeCode, tables, history
<1>2. CASE ReadExisting(p)
  <2>1. PICK at \in PlacesOf(p) :
          /\ at \notin {"start", "rotating"} /\ pc' = [pc EXCEPT ![p] = at]
    BY <1>0, <1>2 DEF ReadExisting, At, Goto, PlacesOf, PCs
  <2>2. /\ pc[p] # "start" \/ p \notin Tokens \cup Clients
        /\ pc[p] # "done" /\ at \in PCs
    BY <1>2, Kinds DEF ReadExisting, At, PlacesOf
  <2> QED BY <1>0, <1>2, <2>1, <2>2, ControlStep
            DEF ReadExisting, tables, history
<1>3. CASE StoreConsent(p)
  <2>1. PICK at \in PlacesOf(p) :
          /\ at \notin {"start", "rotating"} /\ pc' = [pc EXCEPT ![p] = at]
    BY <1>0, <1>3 DEF StoreConsent, At, Goto, PlacesOf, PCs
  <2>2. /\ pc[p] # "start" \/ p \notin Tokens \cup Clients
        /\ pc[p] # "done" /\ at \in PCs
    BY <1>3, Kinds DEF StoreConsent, At, PlacesOf
  <2>3. /\ cred' = cred \/ cred' # NoCred
        /\ cred'.gen \in Nat
    <3>1. cred' = cred \/ \E rt, scopes : cred' = Upserted(rt, scopes)
      BY <1>3 DEF StoreConsent
    <3> QED BY <1>0, <3>1, UpsertedRow
  <2> QED BY <1>0, <1>3, <2>1, <2>2, <2>3, ControlStep
            DEF StoreConsent, locals, history
<1>4. CASE CheckCredential(p)
  <2>1. PICK at \in PlacesOf(p) :
          /\ at \notin {"start", "rotating"} /\ pc' = [pc EXCEPT ![p] = at]
    BY <1>0, <1>4 DEF CheckCredential, At, Goto, PlacesOf, PCs
  <2>2. /\ pc[p] # "start" \/ p \notin Tokens \cup Clients
        /\ pc[p] # "done" /\ at \in PCs
    BY <1>4, Kinds DEF CheckCredential, At, PlacesOf
  <2> QED BY <1>0, <1>4, <2>1, <2>2, ControlStep
            DEF CheckCredential, locals, tables, history
<1>5. CASE CheckClaim(p)
  <2>1. PICK at \in PlacesOf(p) :
          /\ at \notin {"start", "rotating"} /\ pc' = [pc EXCEPT ![p] = at]
    BY <1>0, <1>5 DEF CheckClaim, At, Goto, PlacesOf, PCs
  <2>2. /\ pc[p] # "start" \/ p \notin Tokens \cup Clients
        /\ pc[p] # "done" /\ at \in PCs
    BY <1>5, Kinds DEF CheckClaim, At, PlacesOf
  <2> QED BY <1>0, <1>5, <2>1, <2>2, ControlStep
            DEF CheckClaim, locals, tables, history
<1>6. CASE ResolveLock(p)
  <2>1. PICK at \in PlacesOf(p) :
          /\ at \notin {"start", "rotating"} /\ pc' = [pc EXCEPT ![p] = at]
    BY <1>0, <1>6 DEF ResolveLock, At, Goto, PlacesOf, PCs
  <2>2. /\ pc[p] # "start" \/ p \notin Tokens \cup Clients
        /\ pc[p] # "done" /\ at \in PCs
    BY <1>6, Kinds DEF ResolveLock, At, PlacesOf
  <2> QED BY <1>0, <1>6, <2>1, <2>2, ControlStep
            DEF ResolveLock, tables, history
<1>7. CASE Lock(p)
  <2>1. PICK at \in PlacesOf(p) :
          /\ at \notin {"start", "rotating"} /\ pc' = [pc EXCEPT ![p] = at]
    BY <1>0, <1>7 DEF Lock, At, Goto, PlacesOf, PCs
  <2>2. /\ pc[p] # "start" \/ p \notin Tokens \cup Clients
        /\ pc[p] # "done" /\ at \in PCs
    BY <1>7, Kinds DEF Lock, At, PlacesOf
  <2> QED BY <1>0, <1>7, <2>1, <2>2, ControlStep
            DEF Lock, tables, history
<1>8. CASE Load(p)
  <2>1. PICK at \in PlacesOf(p) :
          /\ at \notin {"start", "rotating"} /\ pc' = [pc EXCEPT ![p] = at]
    BY <1>0, <1>8 DEF Load, At, Goto, PlacesOf, PCs, Failed
  <2>2. /\ pc[p] # "start" \/ p \notin Tokens \cup Clients
        /\ pc[p] # "done" /\ at \in PCs
    BY <1>8, Kinds DEF Load, At, PlacesOf
  <2> QED BY <1>0, <1>8, <2>1, <2>2, ControlStep
            DEF Load, tables, history
<1>9. CASE CallGoogle(p)
  <2>1. PICK at \in PlacesOf(p) :
          /\ at \notin {"start", "rotating"} /\ pc' = [pc EXCEPT ![p] = at]
    BY <1>0, <1>9 DEF CallGoogle, At, Goto, PlacesOf, PCs, Failed
  <2>2. /\ pc[p] # "start" \/ p \notin Tokens \cup Clients
        /\ pc[p] # "done" /\ at \in PCs
    BY <1>9, Kinds DEF CallGoogle, At, PlacesOf
  <2> QED BY <1>0, <1>9, <2>1, <2>2, ControlStep
            DEF CallGoogle, tables, history
<1>10. CASE SaveInbound(p)
  <2>1. PICK at \in PlacesOf(p) :
          /\ at \notin {"start"} /\ pc' = [pc EXCEPT ![p] = at]
    BY <1>0, <1>10 DEF SaveInbound, At, Goto, PlacesOf, PCs
  <2>2. /\ pc[p] # "start" \/ p \notin Tokens \cup Clients
        /\ pc[p] # "done" /\ at \in PCs
    BY <1>10, Kinds DEF SaveInbound, At, PlacesOf
  <2>3. cred' # NoCred /\ cred'.gen \in Nat
    BY <1>0, <1>10, UpsertedRow DEF SaveInbound
  <2> QED BY <1>0, <1>10, <2>1, <2>2, <2>3, ControlStep
            DEF SaveInbound, locals, history
<1>11. CASE RereadOutbound(p)
  <2>1. PICK at \in PlacesOf(p) :
          /\ at \notin {"start", "rotating"} /\ pc' = [pc EXCEPT ![p] = at]
    BY <1>0, <1>11 DEF RereadOutbound, At, Goto, PlacesOf, PCs
  <2>2. /\ pc[p] # "start" \/ p \notin Tokens \cup Clients
        /\ pc[p] # "done" /\ at \in PCs
    BY <1>11, Kinds DEF RereadOutbound, At, PlacesOf
  <2> QED BY <1>0, <1>11, <2>1, <2>2, ControlStep
            DEF RereadOutbound, tables, history
<1>12. CASE SaveOutbound(p)
  <2>1. PICK at \in PlacesOf(p) :
          /\ at \notin {"start", "rotating"} /\ pc' = [pc EXCEPT ![p] = at]
    BY <1>0, <1>12 DEF SaveOutbound, At, Goto, PlacesOf, PCs
  <2>2. /\ pc[p] # "start" \/ p \notin Tokens \cup Clients
        /\ pc[p] # "done" /\ at \in PCs
    BY <1>12, Kinds DEF SaveOutbound, At, PlacesOf
  <2>3. /\ cred' = cred \/ cred' # NoCred
        /\ cred'.gen \in Nat
    <3>1. cred' = cred \/ \E rt, scopes : cred' = Upserted(rt, scopes)
      BY <1>12 DEF SaveOutbound
    <3> QED BY <1>0, <3>1, UpsertedRow
  <2> QED BY <1>0, <1>12, <2>1, <2>2, <2>3, ControlStep
            DEF SaveOutbound, locals, history
<1>13. CASE ReadRejected(p)
  <2>1. PICK at \in PlacesOf(p) :
          /\ at \notin {"start", "rotating"} /\ pc' = [pc EXCEPT ![p] = at]
    BY <1>0, <1>13 DEF ReadRejected, At, Goto, PlacesOf, PCs
  <2>2. /\ pc[p] # "start" \/ p \notin Tokens \cup Clients
        /\ pc[p] # "done" /\ at \in PCs
    BY <1>13, Kinds DEF ReadRejected, At, PlacesOf
  <2> QED BY <1>0, <1>13, <2>1, <2>2, ControlStep
            DEF ReadRejected, tables, history
<1>14. CASE Cancel(p)
  <2>1. PICK at \in PlacesOf(p) :
          /\ at \notin {"start", "rotating"} /\ pc' = [pc EXCEPT ![p] = at]
    BY <1>0, <1>14 DEF Cancel, At, Goto, PlacesOf, PCs
  <2>2. /\ pc[p] # "start" \/ p \notin Tokens \cup Clients
        /\ pc[p] # "done" /\ at \in PCs
    BY <1>14, Kinds DEF Cancel, At, PlacesOf
  <2> QED BY <1>0, <1>14, <2>1, <2>2, ControlStep
            DEF Cancel, locals, tables, history
<1>15. CASE Detach(p)
  <2>1. PICK at \in PlacesOf(p) :
          /\ at \notin {"start", "rotating"} /\ pc' = [pc EXCEPT ![p] = at]
    BY <1>0, <1>15 DEF Detach, At, Goto, PlacesOf, PCs
  <2>2. /\ pc[p] # "start" \/ p \notin Tokens \cup Clients
        /\ pc[p] # "done" /\ at \in PCs
    BY <1>15, Kinds DEF Detach, At, PlacesOf
  <2> QED BY <1>0, <1>15, <2>1, <2>2, ControlStep
            DEF Detach, locals, tables, history
<1>16. CASE LateSave(p)
  <2>1. PICK at \in PlacesOf(p) :
          /\ at \notin {"start", "rotating"} /\ pc' = [pc EXCEPT ![p] = at]
    BY <1>0, <1>16 DEF LateSave, At, Goto, PlacesOf, PCs
  <2>2. /\ pc[p] # "start" \/ p \notin Tokens \cup Clients
        /\ pc[p] # "done" /\ at \in PCs
    BY <1>16, Kinds DEF LateSave, At, PlacesOf
  <2>3. /\ cred' = cred \/ cred' # NoCred
        /\ cred'.gen \in Nat
    <3>1. cred' = cred \/ \E rt, scopes : cred' = Upserted(rt, scopes)
      BY <1>16 DEF LateSave
    <3> QED BY <1>0, <3>1, UpsertedRow
  <2> QED BY <1>0, <1>16, <2>1, <2>2, <2>3, ControlStep
            DEF LateSave, locals, history
<1> QED BY <1>1, <1>2, <1>3, <1>4, <1>5, <1>6, <1>7, <1>8, <1>9, <1>10, <1>11,
           <1>12, <1>13, <1>14, <1>15, <1>16

\* insert_auth_code: nobody can have presented the code before.
LEMMA InsertCodeInv ==
    ASSUME BrokerInv, NEW p \in Requests, InsertCode(p)
    PROVE  BrokerInv'
<1> USE Kinds, BrokerAssumption
<1>0. Sorts /\ Places /\ Presented /\ Unspent /\ SingleUse
        /\ RevokedStaysRevoked /\ Backed
  BY DEF BrokerInv
<1>1. /\ pc[p] # "done" /\ p \notin issued
      /\ pc'[p] = "done" /\ \A q \in Requests : q # p => pc'[q] = pc[q]
      /\ Places'
  <2>1. pc[p] # "done" /\ p \notin issued
    BY <1>0 DEF InsertCode, At, Presented
  <2>2. /\ pc'[p] = "done" /\ \A q \in Requests : q # p => pc'[q] = pc[q]
        /\ pc' \in [Requests -> PCs]
    BY <1>0 DEF InsertCode, Goto, Places, PCs
  <2> QED BY <1>0, <2>1, <2>2 DEF Places, PlacesOf, PCs
<1>2. p \in Callbacks /\ p \notin Tokens
  BY <1>0 DEF InsertCode, At, Places, PlacesOf
<1>3. \A q \in Requests : uses[q] # p
  BY <1>0, <1>1, <1>2 DEF Presented
<1>4. Sorts'
  BY <1>0, <1>2 DEF InsertCode, Sorts, locals
<1>5. Presented'
  BY <1>0, <1>1, <1>2 DEF InsertCode, Presented, Sorts, locals
<1>6. Unspent' /\ SingleUse' /\ RevokedStaysRevoked' /\ Backed'
  <2>1. \A c \in Callbacks : c # p => codes'[c] = codes[c]
    BY <1>0 DEF InsertCode, Sorts
  <2> QED BY <1>0, <1>1, <1>2, <1>3, <2>1
            DEF InsertCode, Unspent, SingleUse, RevokedStaysRevoked, Backed, Live,
                locals
<1> QED BY <1>1, <1>4, <1>5, <1>6 DEF BrokerInv

\* redeem_auth_code: a code that is still there was presented by nobody.
LEMMA RedeemCodeInv ==
    ASSUME BrokerInv, NEW p \in Requests, RedeemCode(p)
    PROVE  BrokerInv'
<1> USE Kinds, BrokerAssumption
<1>0. Sorts /\ Places /\ Presented /\ Unspent /\ SingleUse
        /\ RevokedStaysRevoked /\ Backed
  BY DEF BrokerInv
<1>1. PICK c \in issued \cap Callbacks, t \in ReadTimes :
          \/ /\ codes[c] > t
             /\ codes' = [codes EXCEPT ![c] = 0]
             /\ uses' = [uses EXCEPT ![p] = c]
             /\ Goto(p, "redeemed")
          \/ /\ codes[c] <= t
             /\ Goto(p, "done")
             /\ UNCHANGED << codes, uses >>
  BY DEF RedeemCode
<1>2. /\ pc[p] = "start" /\ p \in Redeemers /\ p \notin issued
      /\ UNCHANGED << now, cred, tokens, issued, revoked >>
  BY <1>0 DEF RedeemCode, At, Presented, history
<1>3. CASE codes[c] <= t /\ Goto(p, "done") /\ UNCHANGED << codes, uses >>
  BY <1>0, <1>2, <1>3, ControlStep DEF Goto, PlacesOf, PCs, Sorts
<1>4. CASE codes[c] > t /\ codes' = [codes EXCEPT ![c] = 0]
             /\ uses' = [uses EXCEPT ![p] = c] /\ Goto(p, "redeemed")
  <2>1. t \in Int /\ t >= 1
    BY <1>0 DEF ReadTimes, Sorts
  <2>2. \A d \in Redeemers : uses[d] # c
    BY <1>0, <1>4, <2>1 DEF Unspent, Sorts
  <2>3. /\ uses'[p] = c /\ \A q \in Requests : q # p => uses'[q] = uses[q]
        /\ codes'[c] = 0 /\ \A x \in Callbacks : x # c => codes'[x] = codes[x]
        /\ Sorts'
    BY <1>0, <1>2, <1>4 DEF Sorts
  <2>4. /\ pc'[p] = "redeemed" /\ \A q \in Requests : q # p => pc'[q] = pc[q]
        /\ Places'
    <3>1. /\ pc'[p] = "redeemed" /\ \A q \in Requests : q # p => pc'[q] = pc[q]
          /\ pc' \in [Requests -> PCs]
      BY <1>0, <1>4 DEF Goto, Places, PCs
    <3> QED BY <1>0, <1>2, <3>1 DEF Places, PlacesOf, PCs
  <2>5. Presented'
    BY <1>0, <1>2, <2>3, <2>4 DEF Presented, Sorts
  <2>6. Unspent'
    BY <1>0, <1>2, <2>2, <2>3 DEF Unspent, Live
  <2>7. SingleUse' /\ RevokedStaysRevoked' /\ Backed'
    BY <1>0, <1>2, <2>3, <2>4 DEF SingleUse, RevokedStaysRevoked, Backed, Live
  <2> QED BY <2>3, <2>4, <2>5, <2>6, <2>7 DEF BrokerInv
<1> QED BY <1>1, <1>3, <1>4

\* upsert_refresh_token: the first token of a redeemed code.
LEMMA InsertTokenInv ==
    ASSUME BrokerInv, NEW p \in Requests, InsertToken(p)
    PROVE  BrokerInv'
<1> USE Kinds, BrokerAssumption
<1>0. Sorts /\ Places /\ Presented /\ Unspent /\ SingleUse
        /\ RevokedStaysRevoked /\ Backed
  BY DEF BrokerInv
<1>1. /\ pc[p] # "done" /\ p \notin issued
      /\ pc'[p] = "done" /\ \A q \in Requests : q # p => pc'[q] = pc[q]
      /\ Places'
  <2>1. pc[p] # "done" /\ p \notin issued
    BY <1>0 DEF InsertToken, At, Presented
  <2>2. /\ pc'[p] = "done" /\ \A q \in Requests : q # p => pc'[q] = pc[q]
        /\ pc' \in [Requests -> PCs]
    BY <1>0 DEF InsertToken, Goto, Places, PCs
  <2> QED BY <1>0, <2>1, <2>2 DEF Places, PlacesOf, PCs
<1>2. p \in Redeemers /\ pc[p] = "checked"
  BY <1>0 DEF InsertToken, At, Places, PlacesOf
<1>3. /\ \A q \in Requests : uses[q] # p
      /\ uses[p] \in Callbacks /\ p \notin revoked
  BY <1>0, <1>1, <1>2 DEF Presented, Sorts
<1>4. /\ issued' = issued \cup {p}
      /\ UNCHANGED << now, cred, codes, uses, revoked >>
      /\ \A t \in Tokens : t # p => tokens'[t] = tokens[t]
      /\ tokens'[p].claim = None
  BY <1>0, <1>2 DEF InsertToken, locals, Sorts, NoRow
<1>5. Sorts'
  <2>1. tokens' \in [Tokens -> Rows]
    BY <1>0, <1>2 DEF InsertToken, Sorts, Rows, NoRow
  <2> QED BY <1>0, <1>2, <1>4, <2>1 DEF Sorts
<1>6. Presented'
  BY <1>0, <1>1, <1>2, <1>3, <1>4 DEF Presented, Sorts
<1>7. Unspent' /\ RevokedStaysRevoked'
  BY <1>0, <1>2, <1>3, <1>4
    DEF Unspent, RevokedStaysRevoked, Live, Presented, Sorts
<1>8. SingleUse'
  BY <1>0, <1>2, <1>3, <1>4 DEF Unspent, SingleUse, Presented
<1>9. Backed'
  BY <1>0, <1>1, <1>2, <1>3, <1>4 DEF Backed, Presented
<1> QED BY <1>1, <1>5, <1>6, <1>7, <1>8, <1>9 DEF BrokerInv

\* A step of p changes neither what is live nor what was issued, and gives
\* nobody else a claim: Claim and ReleaseClaim.
LEMMA ClaimStep ==
    ASSUME BrokerInv, NEW p \in Refreshers, NEW at \in PCs \ {"start", "rotating"},
           pc[p] # "done", at \in PlacesOf(p), pc' = [pc EXCEPT ![p] = at],
           tokens' \in [Tokens -> Rows],
           \A t \in Tokens : tokens'[t].exp = tokens[t].exp,
           \A t \in Tokens : tokens'[t].claim \in {tokens[t].claim, p, None},
           uses' \in [Requests -> Callbacks \cup Tokens \cup {None}],
           \A q \in Requests \ {p} : uses'[q] = uses[q],
           uses'[p] \in issued \cap Tokens,
           UNCHANGED << now, cred, codes, issued, revoked >>
    PROVE  BrokerInv'
<1> USE Kinds, BrokerAssumption
<1>0. Sorts /\ Places /\ Presented /\ Unspent /\ SingleUse
        /\ RevokedStaysRevoked /\ Backed
  BY DEF BrokerInv
<1>1. p \in Requests /\ p \in Tokens /\ p \notin issued
  BY <1>0 DEF Presented
<1>2. /\ pc'[p] = at /\ \A q \in Requests : q # p => pc'[q] = pc[q]
      /\ Places'
  <2>1. /\ pc'[p] = at /\ \A q \in Requests : q # p => pc'[q] = pc[q]
        /\ pc' \in [Requests -> PCs]
    BY <1>0, <1>1 DEF Places
  <2> QED BY <1>0, <2>1 DEF Places
<1>3. Sorts'
  BY <1>0 DEF Sorts
<1>4. Presented'
  BY <1>0, <1>1, <1>2 DEF Presented, Sorts
<1>5. Unspent'
  <2>1. \A r \in Refreshers \cap issued : uses'[r] = uses[r] /\ uses[r] \in Tokens
    BY <1>0, <1>1 DEF Presented
  <2> QED BY <1>0, <1>1, <2>1 DEF Unspent, Live
<1>6. SingleUse' /\ RevokedStaysRevoked'
  BY <1>0, <1>1 DEF SingleUse, RevokedStaysRevoked, Live, Sorts
<1>7. Backed'
  <2> SUFFICES ASSUME NEW q \in Refreshers, pc'[q] = "rotating",
                      tokens'[uses'[q]].claim = q
               PROVE  cred # NoCred
    BY DEF Backed
  <2>1. q # p /\ pc[q] = "rotating" /\ uses'[q] = uses[q]
    BY <1>1, <1>2
  <2>2. uses[q] \in Tokens
    BY <1>0, <2>1 DEF Presented
  <2> QED BY <1>0, <2>1, <2>2 DEF Backed
<1> QED BY <1>2, <1>3, <1>4, <1>5, <1>6, <1>7 DEF BrokerInv

\* claim_refresh_token
LEMMA ClaimInv ==
    ASSUME BrokerInv, NEW p \in Requests, Claim(p)
    PROVE  BrokerInv'
<1> USE Kinds, BrokerAssumption
<1>0. Sorts /\ Places /\ Presented /\ Unspent /\ SingleUse
        /\ RevokedStaysRevoked /\ Backed
  BY DEF BrokerInv
<1>1. PICK t \in issued \cap Tokens, at \in ReadTimes :
          \/ /\ tokens' = [tokens EXCEPT ![t].claim = p,
                                         ![t].claimExp = at + Lease]
             /\ uses' = [uses EXCEPT ![p] = t]
             /\ Goto(p, "claimed")
          \/ /\ Goto(p, "done")
             /\ UNCHANGED << tokens, uses >>
  BY DEF Claim
<1>2. /\ pc[p] = "start" /\ p \in Refreshers
      /\ UNCHANGED << now, cred, codes, issued, revoked >>
  BY DEF Claim, At, history
<1>3. CASE Goto(p, "done") /\ UNCHANGED << tokens, uses >>
  BY <1>0, <1>2, <1>3, ControlStep DEF Goto, PlacesOf, PCs, Sorts
<1>4. CASE /\ tokens' = [tokens EXCEPT ![t].claim = p, ![t].claimExp = at + Lease]
           /\ uses' = [uses EXCEPT ![p] = t]
           /\ Goto(p, "claimed")
  <2>1. at + Lease \in Nat
    BY <1>0 DEF ReadTimes, Sorts
  <2>2. tokens' \in [Tokens -> Rows]
    BY <1>0, <1>2, <1>4, <2>1 DEF Sorts, Rows
  <2>3. \A u \in Tokens : /\ tokens'[u].exp = tokens[u].exp
                          /\ tokens'[u].claim \in {tokens[u].claim, p}
    BY <1>0, <1>4 DEF Sorts, Rows
  <2>4. /\ uses' \in [Requests -> Callbacks \cup Tokens \cup {None}]
        /\ uses'[p] = t /\ \A q \in Requests \ {p} : uses'[q] = uses[q]
    BY <1>0, <1>4 DEF Sorts
  <2>5. "claimed" \in PlacesOf(p) /\ "claimed" \in PCs \ {"start", "rotating"}
    BY <1>2 DEF PlacesOf, PCs
  <2>6. /\ pc[p] # "done" /\ uses'[p] \in issued \cap Tokens
        /\ pc' = [pc EXCEPT ![p] = "claimed"]
    BY <1>2, <1>4, <2>4 DEF Goto
  <2> QED BY <1>2, <2>2, <2>3, <2>4, <2>5, <2>6, ClaimStep
<1> QED BY <1>1, <1>3, <1>4

\* release_refresh_claim
LEMMA ReleaseClaimInv ==
    ASSUME BrokerInv, NEW p \in Requests, ReleaseClaim(p)
    PROVE  BrokerInv'
<1> USE Kinds, BrokerAssumption
<1>0. Sorts /\ Places /\ Presented /\ Unspent /\ SingleUse
        /\ RevokedStaysRevoked /\ Backed
  BY DEF BrokerInv
<1>1. /\ pc[p] = "releasing" /\ p \in Refreshers
      /\ UNCHANGED << now, cred, codes, uses, issued, revoked >>
  BY <1>0 DEF ReleaseClaim, At, history, locals, Places, PlacesOf
<1>2. uses[p] \in issued \cap Tokens
  BY <1>0, <1>1 DEF Presented
<1>3. tokens' \in [Tokens -> Rows]
  BY <1>0, <1>2 DEF ReleaseClaim, Sorts, Rows
<1>4. \A u \in Tokens : /\ tokens'[u].exp = tokens[u].exp
                        /\ tokens'[u].claim \in {tokens[u].claim, None}
  BY <1>0, <1>2 DEF ReleaseClaim, Sorts, Rows
<1>5. "done" \in PlacesOf(p) /\ "done" \in PCs \ {"start", "rotating"}
  BY DEF PlacesOf, PCs
<1>6. uses' \in [Requests -> Callbacks \cup Tokens \cup {None}]
  BY <1>0, <1>1 DEF Sorts
<1>7. pc' = [pc EXCEPT ![p] = "done"]
  BY DEF ReleaseClaim, Goto
<1> QED BY <1>1, <1>2, <1>3, <1>4, <1>5, <1>6, <1>7, ClaimStep

\* rotate_claimed_refresh_token: the old row was live, so no successor exists.
LEMMA RotateInv ==
    ASSUME BrokerInv, NEW p \in Requests, Rotate(p)
    PROVE  BrokerInv'
<1> USE Kinds, BrokerAssumption
<1>0. Sorts /\ Places /\ Presented /\ Unspent /\ SingleUse
        /\ RevokedStaysRevoked /\ Backed
  BY DEF BrokerInv
<1>1. /\ pc[p] = "rotating" /\ p \in Refreshers /\ p \notin issued
      /\ UNCHANGED << now, cred, codes, uses, revoked >>
  BY <1>0 DEF Rotate, At, locals, Places, PlacesOf, Presented
<1>2. uses[p] \in issued \cap Tokens /\ uses[p] # p
  BY <1>0, <1>1 DEF Presented
<1>3. PICK at \in ReadTimes :
          \/ /\ tokens[uses[p]].exp > at
             /\ tokens' = [tokens EXCEPT
                              ![uses[p]] = NoRow,
                              ![p] = [NoRow EXCEPT !.exp = at + TokenTTL]]
             /\ issued' = issued \cup {p}
             /\ Goto(p, "done")
          \/ /\ Goto(p, "releasing")
             /\ UNCHANGED << tokens, issued >>
  BY DEF Rotate
<1>4. CASE Goto(p, "releasing") /\ UNCHANGED << tokens, issued >>
  BY <1>0, <1>1, <1>4, ControlStep DEF Goto, PlacesOf, PCs, Sorts
<1>5. CASE /\ tokens[uses[p]].exp > at
           /\ tokens' = [tokens EXCEPT
                            ![uses[p]] = NoRow,
                            ![p] = [NoRow EXCEPT !.exp = at + TokenTTL]]
           /\ issued' = issued \cup {p}
           /\ Goto(p, "done")
  <2>1. at \in Nat /\ at >= 1
    BY <1>0 DEF ReadTimes, Sorts
  <2>2. Live(uses[p])
    BY <1>0, <1>2, <1>5, <2>1 DEF Live, Sorts, Rows
  <2>3. /\ tokens' \in [Tokens -> Rows]
        /\ tokens'[uses[p]] = NoRow /\ tokens'[p].claim = None
        /\ \A t \in Tokens \ {p, uses[p]} : tokens'[t] = tokens[t]
    <3>1. [NoRow EXCEPT !.exp = at + TokenTTL] \in Rows /\ NoRow \in Rows
      BY <2>1 DEF NoRow, Rows
    <3>2. [NoRow EXCEPT !.exp = at + TokenTTL].claim = None
      BY DEF NoRow
    <3> QED BY <1>0, <1>1, <1>2, <1>5, <3>1, <3>2 DEF Sorts
  <2>4. /\ pc'[p] = "done" /\ \A q \in Requests : q # p => pc'[q] = pc[q]
        /\ Places'
    <3>1. /\ pc'[p] = "done" /\ \A q \in Requests : q # p => pc'[q] = pc[q]
          /\ pc' \in [Requests -> PCs]
      BY <1>0, <1>5 DEF Goto, Places, PCs
    <3> QED BY <1>0, <3>1 DEF Places, PlacesOf, PCs
  <2>5. ~ NoRow.exp > 0 /\ NoRow.claim = None
    BY DEF NoRow
  <2>6. \A q \in Requests : uses[q] # p
    BY <1>0, <1>1 DEF Presented
  <2>7. \A u \in issued \cap Tokens : uses[u] # uses[p]
    BY <1>0, <1>2, <2>2 DEF Presented, Unspent
  <2>8. Sorts'
    BY <1>0, <1>1, <1>5, <2>3 DEF Sorts
  <2>9. Presented'
    BY <1>0, <1>1, <1>2, <1>5, <2>4 DEF Presented, Sorts
  <2>10. Unspent'
    <3>1. \A r \in Refreshers \cap issued' : ~Live(uses[r])'
      <4> TAKE r \in Refreshers \cap issued'
      <4>1. CASE r = p
        BY <1>1, <2>3, <2>5, <4>1 DEF Live
      <4>2. CASE r # p
        <5>1. r \in issued /\ uses[r] \in Tokens \ {p, uses[p]}
          BY <1>0, <1>5, <2>6, <2>7, <4>2 DEF Presented
        <5> QED BY <1>0, <1>1, <2>3, <5>1 DEF Unspent, Live
      <4> QED BY <4>1, <4>2
    <3>2. \A t \in Tokens : Live(t)' => t \in issued'
      BY <1>0, <1>2, <1>5, <2>3 DEF Unspent, Live
    <3> QED BY <1>0, <1>1, <3>1, <3>2 DEF Unspent
  <2>11. SingleUse'
    BY <1>0, <1>1, <1>5, <2>7 DEF SingleUse
  <2>12. RevokedStaysRevoked'
    BY <1>0, <1>1, <1>2, <1>5, <2>2, <2>3, <2>5
      DEF RevokedStaysRevoked, Live, Sorts
  <2>13. Backed'
    <3> SUFFICES ASSUME NEW q \in Refreshers, pc'[q] = "rotating",
                        tokens'[uses'[q]].claim = q
                 PROVE  cred' # NoCred
      BY DEF Backed
    <3>1. q # p /\ pc[q] = "rotating" /\ uses'[q] = uses[q]
      BY <1>1, <2>4
    <3>2. uses[q] \in Tokens \ {p, uses[p]}
      BY <1>0, <2>3, <2>5, <2>6, <3>1 DEF Presented
    <3> QED BY <1>0, <1>1, <2>3, <3>1, <3>2 DEF Backed
  <2> QED BY <2>4, <2>8, <2>9, <2>10, <2>11, <2>12, <2>13 DEF BrokerInv
<1> QED BY <1>3, <1>4, <1>5

\* Rows are only deleted, and the live ones that go may count as revoked:
\* Invalidate, RevokeToken and Cleanup.
LEMMA DeleteStep ==
    ASSUME BrokerInv, Places', Presented',
           \A q \in Refreshers : pc'[q] = "rotating" => pc[q] = "rotating",
           codes' \in [Callbacks -> Nat],
           \A c \in Callbacks : codes'[c] \in {codes[c], 0},
           tokens' \in [Tokens -> Rows],
           \A t \in Tokens : tokens'[t] \in {tokens[t], NoRow},
           NEW gone \in SUBSET {t \in Tokens : Live(t)},
           \A t \in gone : tokens'[t] = NoRow,
           revoked' = revoked \cup gone,
           cred' = cred \/ \A t \in Tokens : tokens'[t] = NoRow,
           cred'.gen \in Nat,
           UNCHANGED << now, uses, issued >>
    PROVE  BrokerInv'
<1> USE Kinds, BrokerAssumption
<1>0. Sorts /\ Places /\ Presented /\ Unspent /\ SingleUse
        /\ RevokedStaysRevoked /\ Backed
  BY DEF BrokerInv
<1>1. ~ NoRow.exp > 0 /\ NoRow.claim = None
  BY DEF NoRow
<1>2. \A t \in Tokens : Live(t)' => Live(t)
  BY <1>1 DEF Live
<1>3. Sorts'
  BY <1>0 DEF Sorts, Unspent
<1>4. Unspent'
  <2>1. \A r \in Refreshers \cap issued : uses[r] \in Tokens
    BY <1>0 DEF Presented
  <2>2. \A r \in Refreshers \cap issued : ~Live(uses[r])'
    BY <1>0, <1>2, <2>1 DEF Unspent, Live
  <2> QED BY <1>0, <1>2, <2>2 DEF Unspent
<1>5. RevokedStaysRevoked'
  <2> SUFFICES ASSUME NEW t \in revoked \cup gone
               PROVE  ~Live(t)' /\ \A u \in issued \cap Tokens : uses[u] # t
    BY DEF RevokedStaysRevoked
  <2>1. CASE t \in revoked
    BY <1>0, <1>2, <2>1 DEF RevokedStaysRevoked, Sorts
  <2>2. CASE t \in gone
    BY <1>0, <1>1, <2>2 DEF Live, Unspent, Presented
  <2> QED BY <2>1, <2>2
<1>6. SingleUse'
  BY <1>0 DEF SingleUse
<1>7. Backed'
  <2> SUFFICES ASSUME NEW q \in Refreshers, pc'[q] = "rotating",
                      tokens'[uses'[q]].claim = q
               PROVE  cred' # NoCred
    BY DEF Backed
  <2>1. pc[q] = "rotating" /\ uses[q] \in Tokens
    BY <1>0 DEF Presented
  <2>2. tokens'[uses[q]] # NoRow
    BY <1>1
  <2> QED BY <1>0, <2>1, <2>2 DEF Backed
<1> QED BY <1>3, <1>4, <1>5, <1>6, <1>7 DEF BrokerInv

\* invalidate_google_provider_credential and its stale outcomes, by a request or
\* after it
LEMMA InvalidateInv ==
    ASSUME BrokerInv, NEW p \in Requests,
           InvalidateCredential(p) \/ LateDelete(p)
    PROVE  BrokerInv'
<1> USE Kinds, BrokerAssumption
<1>0. Sorts /\ Places /\ Presented /\ Unspent /\ SingleUse
        /\ RevokedStaysRevoked /\ Backed
  BY DEF BrokerInv
<1>1. /\ pc[p] \in {"invalidating", "late delete"}
      /\ p \in Refreshers \cup Outbounds \cup Revokers
      /\ UNCHANGED << now, uses, issued >>
  BY <1>0 DEF InvalidateCredential, LateDelete, At, Places, PlacesOf, locals
<1>2. PICK at \in {"releasing", "done", "loading"} :
          pc' = [pc EXCEPT ![p] = at] /\ at \in PlacesOf(p)
  BY <1>1 DEF InvalidateCredential, LateDelete, Goto, Failed, PlacesOf, PCs
<1>3. CASE UNCHANGED << tables, revoked >>
  <2>1. /\ pc[p] \notin {"start", "done"} /\ at \in PCs
        /\ at \notin {"start", "rotating"} /\ cred'.gen \in Nat
        /\ UNCHANGED << cred, codes, tokens, uses, issued, revoked >>
    BY <1>0, <1>1, <1>2, <1>3 DEF tables, PlacesOf, Sorts
  <2> QED BY <1>1, <1>2, <2>1, ControlStep
<1>4. CASE Invalidate(p)
  <2>1. /\ pc'[p] = at /\ \A q \in Requests : q # p => pc'[q] = pc[q]
        /\ Places'
    <3>1. /\ pc'[p] = at /\ \A q \in Requests : q # p => pc'[q] = pc[q]
          /\ pc' \in [Requests -> PCs]
      BY <1>0, <1>2 DEF Places, PCs
    <3> QED BY <1>0, <1>2, <3>1 DEF Places, PlacesOf
  <2>2. Presented'
    BY <1>0, <1>1, <1>2, <2>1 DEF Presented, Sorts
  <2>3. /\ \A t \in Tokens : tokens'[t] = NoRow
        /\ \A c \in Callbacks : codes'[c] = 0
        /\ tokens' \in [Tokens -> Rows] /\ codes' \in [Callbacks -> Nat]
    BY <1>4 DEF Invalidate, Rows, NoRow
  <2>4. revoked' = revoked \cup {t \in Tokens : Live(t)} /\ cred'.gen \in Nat
    BY <1>4 DEF Invalidate, NoCred
  <2>5. \A q \in Refreshers : pc'[q] = "rotating" => pc[q] = "rotating"
    BY <1>2, <2>1
  <2> DEFINE gone == {t \in Tokens : Live(t)}
  <2>6. /\ gone \in SUBSET {t \in Tokens : Live(t)} /\ revoked' = revoked \cup gone
        /\ \A t \in gone : tokens'[t] = NoRow
    BY <2>3, <2>4
  <2> HIDE DEF gone
  <2> QED BY <1>1, <2>1, <2>2, <2>3, <2>4, <2>5, <2>6, DeleteStep
<1>5. Invalidate(p) \/ UNCHANGED << tables, revoked >>
  BY DEF InvalidateCredential, LateDelete
<1> QED BY <1>3, <1>4, <1>5

\* find_refresh_token of POST /revoke
LEMMA FindTokenInv ==
    ASSUME BrokerInv, NEW p \in Requests, FindToken(p)
    PROVE  BrokerInv'
<1> USE Kinds, BrokerAssumption
<1>0. Sorts /\ Places /\ Presented /\ Unspent /\ SingleUse
        /\ RevokedStaysRevoked /\ Backed
  BY DEF BrokerInv
<1>1. PICK t \in issued \cap Tokens :
          \/ uses' = [uses EXCEPT ![p] = t] /\ Goto(p, "found")
          \/ Goto(p, "done") /\ UNCHANGED uses
  BY DEF FindToken
<1>2. /\ pc[p] = "start" /\ p \in Clients
      /\ UNCHANGED << now, cred, codes, tokens, issued, revoked >>
  BY DEF FindToken, At, tables, history
<1>3. CASE Goto(p, "done") /\ UNCHANGED uses
  BY <1>0, <1>2, <1>3, ControlStep DEF Goto, PlacesOf, PCs, Sorts
<1>4. CASE uses' = [uses EXCEPT ![p] = t] /\ Goto(p, "found")
  <2>1. /\ pc'[p] = "found" /\ \A q \in Requests : q # p => pc'[q] = pc[q]
        /\ Places'
    <3>1. /\ pc'[p] = "found" /\ \A q \in Requests : q # p => pc'[q] = pc[q]
          /\ pc' \in [Requests -> PCs]
      BY <1>0, <1>4 DEF Goto, Places, PCs
    <3> QED BY <1>0, <1>2, <3>1 DEF Places, PlacesOf, PCs
  <2>2. /\ uses'[p] = t /\ \A q \in Requests : q # p => uses'[q] = uses[q]
        /\ Sorts' /\ p \notin Tokens
    BY <1>0, <1>2, <1>4 DEF Sorts
  <2>3. Presented'
    BY <1>0, <1>2, <2>1, <2>2 DEF Presented, Sorts
  <2>4. Unspent' /\ SingleUse' /\ RevokedStaysRevoked' /\ Backed'
    BY <1>0, <1>2, <2>1, <2>2
      DEF Unspent, SingleUse, RevokedStaysRevoked, Backed, Live
  <2> QED BY <2>1, <2>2, <2>3, <2>4 DEF BrokerInv
<1> QED BY <1>1, <1>3, <1>4

\* revoke_refresh_token of POST /revoke
LEMMA RevokeTokenInv ==
    ASSUME BrokerInv, NEW p \in Requests, RevokeToken(p)
    PROVE  BrokerInv'
<1> USE Kinds, BrokerAssumption
<1>0. Sorts /\ Places /\ Presented /\ Unspent /\ SingleUse
        /\ RevokedStaysRevoked /\ Backed
  BY DEF BrokerInv
<1>1. /\ pc[p] = "found" /\ p \in Clients
      /\ UNCHANGED << now, cred, codes, uses, issued >>
      /\ pc' = [pc EXCEPT ![p] = "done"] /\ "done" \in PlacesOf(p)
  BY <1>0 DEF RevokeToken, At, Goto, Places, PlacesOf, PCs, locals
<1>2. uses[p] \in Tokens
  BY <1>0, <1>1 DEF Presented
<1>3. CASE UNCHANGED << tokens, revoked >>
  BY <1>0, <1>1, <1>3, ControlStep DEF PCs, Sorts
<1>4. CASE /\ revoked' = revoked \cup {t \in {uses[p]} : Live(t)}
           /\ tokens' = [tokens EXCEPT ![uses[p]] = NoRow]
  <2>1. /\ pc'[p] = "done" /\ \A q \in Requests : q # p => pc'[q] = pc[q]
        /\ Places'
    <3>1. /\ pc'[p] = "done" /\ \A q \in Requests : q # p => pc'[q] = pc[q]
          /\ pc' \in [Requests -> PCs]
      BY <1>0, <1>1 DEF Places, PCs
    <3> QED BY <1>0, <1>1, <3>1 DEF Places, PlacesOf
  <2>2. Presented'
    BY <1>0, <1>1, <2>1 DEF Presented, Sorts
  <2>3. /\ \A t \in Tokens : tokens'[t] \in {tokens[t], NoRow}
        /\ tokens' \in [Tokens -> Rows] /\ tokens'[uses[p]] = NoRow
    <3>1. NoRow \in Rows
      BY DEF NoRow, Rows
    <3> QED BY <1>0, <1>2, <1>4, <3>1 DEF Sorts
  <2>4. \A q \in Refreshers : pc'[q] = "rotating" => pc[q] = "rotating"
    BY <2>1
  <2>5. codes' \in [Callbacks -> Nat] /\ cred'.gen \in Nat
    BY <1>0, <1>1 DEF Sorts
  <2> DEFINE gone == {t \in {uses[p]} : Live(t)}
  <2>6. gone \in SUBSET {t \in Tokens : Live(t)} /\ \A t \in gone : tokens'[t] = NoRow
    BY <1>2, <2>3
  <2>7. revoked' = revoked \cup gone
    BY <1>4
  <2> HIDE DEF gone
  <2> QED BY <1>1, <2>1, <2>2, <2>3, <2>4, <2>5, <2>6, <2>7, DeleteStep
<1> QED BY <1>3, <1>4 DEF RevokeToken

\* cleanup_expired
LEMMA CleanupInv ==
    ASSUME BrokerInv, Cleanup
    PROVE  BrokerInv'
<1>0. Sorts /\ Places /\ Presented /\ Unspent /\ SingleUse
        /\ RevokedStaysRevoked /\ Backed
  BY DEF BrokerInv
<1>1. UNCHANGED << now, cred, pc, uses, issued, revoked >>
  BY DEF Cleanup, locals, history
<1>2. Places' /\ Presented'
  BY <1>0, <1>1 DEF Places, PlacesOf, Presented
<1>3. /\ codes' \in [Callbacks -> Nat]
      /\ \A c \in Callbacks : codes'[c] \in {codes[c], 0}
  BY <1>0 DEF Cleanup, Sorts
<1>4. /\ tokens' \in [Tokens -> Rows]
      /\ \A t \in Tokens : tokens'[t] \in {tokens[t], NoRow}
  <2>1. NoRow \in Rows
    BY DEF NoRow, Rows
  <2> QED BY <1>0, <2>1 DEF Cleanup, Sorts
<1>5. cred'.gen \in Nat /\ revoked' = revoked \cup {}
  BY <1>0, <1>1 DEF Sorts
<1>6. {} \in SUBSET {t \in Tokens : Live(t)} /\ \A t \in {} : tokens'[t] = NoRow
  OBVIOUS
<1> QED BY <1>1, <1>2, <1>3, <1>4, <1>5, <1>6, DeleteStep

-----------------------------------------------------------------------------
\* Every step keeps the invariant.
LEMMA BrokerNext == BrokerInv /\ [Next]_vars => BrokerInv'
<1> SUFFICES ASSUME BrokerInv, [Next]_vars PROVE BrokerInv'
  OBVIOUS
<1>1. ASSUME NEW p \in Requests, Step(p) PROVE BrokerInv'
  BY <1>1, ControlActions, InsertCodeInv, RedeemCodeInv, InsertTokenInv, ClaimInv,
     ReleaseClaimInv, RotateInv, InvalidateInv, FindTokenInv, RevokeTokenInv
     DEF Step
<1>2. CASE Cleanup
  BY <1>2, CleanupInv
<1>3. ASSUME UNCHANGED << tables, pc, uses, history >>, now' \in Nat
      PROVE  BrokerInv'
  BY <1>3 DEF BrokerInv, Sorts, Places, PlacesOf, Presented, Unspent, SingleUse,
              RevokedStaysRevoked, Backed, Live, tables, history
<1>4. CASE GoogleRevokes \/ Tick \/ UNCHANGED vars
  <2>1. now \in Nat
    BY DEF BrokerInv, Sorts
  <2>2. UNCHANGED << tables, pc, uses, history >> /\ now' \in Nat
    BY <1>4, <2>1 DEF GoogleRevokes, Tick, vars, locals
  <2> QED BY <1>3, <2>2
<1>5. CASE Quiet
  BY <1>4, <1>5 DEF Quiet
<1> QED BY <1>1, <1>2, <1>4, <1>5 DEF Next

\* The inductive invariant of the broker holds in every reachable state.
THEOREM BrokerInvariant == Spec => []BrokerInv
BY BrokerInit, BrokerNext, PTL DEF Spec

\* A code or a refresh token is redeemed for at most one new refresh token,
\* whatever requests race (redeem_auth_code, rotate_claimed_refresh_token).
THEOREM BrokerSingleUse == Spec => []SingleUse
<1>1. BrokerInv => SingleUse
  BY DEF BrokerInv
<1> QED BY <1>1, BrokerInvariant, PTL

\* A revoked refresh token stays revoked and has no successor
\* (invalidate_google_provider_credential, revoke_refresh_token).
THEOREM BrokerRevokedStaysRevoked == Spec => []RevokedStaysRevoked
<1>1. BrokerInv => RevokedStaysRevoked
  BY DEF BrokerInv
<1> QED BY <1>1, BrokerInvariant, PTL

\* Only Rotate issues a token of a refresh grant.
LEMMA OnlyRotateIssues ==
    ASSUME BrokerInv, [Next]_vars, NEW p \in Refreshers, p \in issued' \ issued
    PROVE  Rotate(p) /\ tokens[uses[p]].claim = p
<1> USE Kinds, BrokerAssumption
<1>1. PICK q \in Requests : Step(q)
  BY DEF Next, Cleanup, GoogleRevokes, Tick, Quiet, vars, history
<1>2. /\ pc[q] = "stored" => q \in Callbacks
      /\ pc[q] = "checked" => q \in Redeemers
  BY DEF BrokerInv, Places, PlacesOf
<1>3. InsertCode(q) \/ InsertToken(q) \/ Rotate(q)
  BY <1>1 DEF Step, history, ExchangeCode, ReadExisting, StoreConsent, RedeemCode,
       CheckCredential, Claim, CheckClaim, ReleaseClaim, ResolveLock, Lock, Load,
       CallGoogle, SaveInbound, RereadOutbound, SaveOutbound, ReadRejected,
       InvalidateCredential, FindToken, RevokeToken, Cancel, Detach, LateSave,
       LateDelete
<1>4. ~InsertCode(q)
  BY <1>2 DEF InsertCode, At
<1>5. ~InsertToken(q)
  BY <1>2 DEF InsertToken, At
<1>6. Rotate(q)
  BY <1>3, <1>4, <1>5
<1> QED BY <1>6 DEF Rotate

\* A rotation issues a token only while the Google credential exists
\* (complete_claimed_refresh).
THEOREM BrokerRotationBacked == Spec => RotationBacked
<1>1. BrokerInv /\ [Next]_vars
          => [\A p \in Refreshers : p \in issued' \ issued => cred # NoCred]_vars
  BY OnlyRotateIssues DEF BrokerInv, Backed, Rotate, At
<1> QED BY <1>1, BrokerInvariant, PTL DEF Spec, RotationBacked

-----------------------------------------------------------------------------
\* Types

\* What the requests' locals hold, for TypeOK: a request that calls Google, or is to
\* store the answer, has a refresh token, and an attempt is left to one that calls.
Held ==
    /\ \A p \in Requests : pc[p] \in {"calling", "saving"} => seen[p].rt # 0
    /\ \A p \in Requests : pc[p] \in {"loading", "calling"} => attempt[p] >= 1

TokenRows == [exp : 0 .. MaxNow + TokenTTL, claim : Refreshers \cup {None},
              claimExp : 0 .. MaxNow + Lease]

\* The part of TypeOK about the clock and the grants.
GrantTypes ==
    /\ now \in 1 .. MaxNow
    /\ codes \in [Callbacks -> 0 .. MaxNow + CodeTTL]
    /\ tokens \in [Tokens -> TokenRows]

\* The part about the shared credential, what requests know of it, and the locks.
CredTypes ==
    /\ cred \in Creds /\ (cred.gen = 0 <=> cred = NoCred) /\ (cred.rt = 0 <=> cred = NoCred)
    /\ minted \in 0 .. MaxMinted /\ valid \subseteq 1 .. minted
    /\ seen \in [Requests -> Creds]
    /\ tried \in [Requests -> 0 .. MaxMinted]
    /\ got \in [Requests -> 0 .. MaxMinted]

ControlTypes ==
    /\ locks \in [Keys -> Requests \cup {None}]
    /\ key \in [Requests -> Keys]
    /\ attempt \in [Requests -> 0 .. RevokeAttempts]

LEMMA TypeParts ==
    /\ TypeOK => GrantTypes /\ CredTypes /\ ControlTypes
    /\ BrokerInv /\ GrantTypes /\ CredTypes /\ ControlTypes => TypeOK
<1>1. TypeOK => GrantTypes /\ CredTypes /\ ControlTypes
  BY DEF TypeOK, GrantTypes, CredTypes, ControlTypes, TokenRows
<1>2. ASSUME BrokerInv, GrantTypes, CredTypes, ControlTypes PROVE TypeOK
  <2>1. /\ pc \in [Requests -> PCs]
        /\ uses \in [Requests -> Callbacks \cup Tokens \cup {None}]
        /\ issued \subseteq Callbacks \cup Tokens /\ revoked \subseteq Tokens
    BY <1>2 DEF BrokerInv, Sorts, Places
  <2> QED BY <1>2, <2>1 DEF TypeOK, GrantTypes, CredTypes, ControlTypes, TokenRows
<1> QED BY <1>1, <1>2

\* A statement's time lies between 1 and now.
LEMMA ReadTimesType ==
    ASSUME now \in 1 .. MaxNow, NEW at \in ReadTimes
    PROVE  at \in 1 .. MaxNow
BY BrokerAssumption DEF ReadTimes

LEMMA GrantTypesStep ==
    ASSUME BrokerInv, GrantTypes, [Next]_vars
    PROVE  GrantTypes'
<1> USE BrokerAssumption, Kinds
<1>0. /\ NoRow \in TokenRows
      /\ \A at \in 1 .. MaxNow : [NoRow EXCEPT !.exp = at + TokenTTL] \in TokenRows
  BY DEF NoRow, TokenRows
<1>1. CASE UNCHANGED << now, codes, tokens >>
  BY <1>1 DEF GrantTypes
<1>2. ASSUME NEW p \in Requests, InsertCode(p) PROVE GrantTypes'
  <2>1. now + CodeTTL \in 0 .. MaxNow + CodeTTL
    BY DEF GrantTypes
  <2> QED BY <1>2, <2>1 DEF InsertCode, GrantTypes
<1>3. ASSUME NEW p \in Requests, RedeemCode(p) PROVE GrantTypes'
  BY <1>3 DEF RedeemCode, GrantTypes
<1>4. ASSUME NEW p \in Requests, InsertToken(p) PROVE GrantTypes'
  <2>1. [NoRow EXCEPT !.exp = now + TokenTTL] \in TokenRows
    BY <1>0 DEF GrantTypes
  <2> QED BY <1>4, <2>1 DEF InsertToken, GrantTypes
<1>5. ASSUME NEW p \in Requests, Claim(p) PROVE GrantTypes'
  <2>1. p \in Refreshers /\ UNCHANGED << now, codes >>
    BY <1>5 DEF Claim
  <2>2. CASE UNCHANGED tokens
    BY <1>1, <2>1, <2>2
  <2>3. ASSUME NEW t \in Tokens, NEW at \in ReadTimes,
               tokens' = [tokens EXCEPT ![t].claim = p, ![t].claimExp = at + Lease]
        PROVE  GrantTypes'
    <3>1. at + Lease \in 0 .. MaxNow + Lease
      BY ReadTimesType DEF GrantTypes
    <3>2. tokens' \in [Tokens -> TokenRows]
      BY <2>1, <2>3, <3>1 DEF GrantTypes, TokenRows
    <3> QED BY <2>1, <3>2 DEF GrantTypes
  <2> QED BY <1>5, <2>2, <2>3 DEF Claim
<1>6. ASSUME NEW p \in Requests, ReleaseClaim(p) PROVE GrantTypes'
  <2>1. UNCHANGED << now, codes >>
    BY <1>6 DEF ReleaseClaim
  <2>2. CASE UNCHANGED tokens
    BY <1>1, <2>1, <2>2
  <2>3. CASE tokens' = [tokens EXCEPT ![uses[p]].claim = None, ![uses[p]].claimExp = 0]
    <3>1. p \in Refreshers /\ pc[p] = "releasing"
      BY <1>6 DEF ReleaseClaim, At, BrokerInv, Places, PlacesOf
    <3>2. uses[p] \in Tokens
      BY <3>1 DEF BrokerInv, Presented
    <3>3. tokens' \in [Tokens -> TokenRows]
      BY <2>3, <3>2 DEF GrantTypes, TokenRows
    <3> QED BY <2>1, <3>3 DEF GrantTypes
  <2> QED BY <1>6, <2>2, <2>3 DEF ReleaseClaim
<1>7. ASSUME NEW p \in Requests, Rotate(p) PROVE GrantTypes'
  <2>1. PICK at \in ReadTimes :
           \/ tokens' = [tokens EXCEPT ![uses[p]] = NoRow,
                                       ![p] = [NoRow EXCEPT !.exp = at + TokenTTL]]
           \/ UNCHANGED tokens
    BY <1>7 DEF Rotate
  <2>2. [NoRow EXCEPT !.exp = at + TokenTTL] \in TokenRows
    BY <1>0, ReadTimesType DEF GrantTypes
  <2> QED BY <1>0, <1>7, <2>1, <2>2 DEF Rotate, GrantTypes
<1>8. ASSUME NEW p \in Requests, InvalidateCredential(p) \/ LateDelete(p)
      PROVE  GrantTypes'
  <2>1. now' = now /\ (Invalidate(p) \/ UNCHANGED tables)
    BY <1>8 DEF InvalidateCredential, LateDelete
  <2> QED BY <1>0, <2>1 DEF Invalidate, GrantTypes, tables
<1>9. ASSUME NEW p \in Requests, RevokeToken(p) PROVE GrantTypes'
  BY <1>0, <1>9 DEF RevokeToken, GrantTypes
<1>10. CASE Cleanup
  BY <1>0, <1>10 DEF Cleanup, GrantTypes
<1>11. CASE Tick
  BY <1>11 DEF Tick, GrantTypes, tables
<1>12. ASSUME NEW p \in Requests,
              \/ ExchangeCode(p) \/ ReadExisting(p) \/ StoreConsent(p)
              \/ CheckCredential(p) \/ CheckClaim(p) \/ ResolveLock(p) \/ Lock(p)
              \/ Load(p) \/ CallGoogle(p) \/ SaveInbound(p) \/ RereadOutbound(p)
              \/ SaveOutbound(p) \/ ReadRejected(p) \/ FindToken(p) \/ Cancel(p)
              \/ Detach(p) \/ LateSave(p)
       PROVE  GrantTypes'
  BY <1>1, <1>12
     DEF ExchangeCode, ReadExisting, StoreConsent, CheckCredential, CheckClaim,
         ResolveLock, Lock, Load, CallGoogle, SaveInbound, RereadOutbound,
         SaveOutbound, ReadRejected, FindToken, Cancel, Detach, LateSave, tables
<1>13. CASE GoogleRevokes \/ Quiet \/ UNCHANGED vars
  BY <1>1, <1>13 DEF GoogleRevokes, Quiet, vars, tables
<1> QED
  BY <1>2, <1>3, <1>4, <1>5, <1>6, <1>7, <1>8, <1>9, <1>10, <1>11, <1>12, <1>13
     DEF Next, Step

\* A row that is written has a refresh token and a generation.
LEMMA UpsertedType ==
    ASSUME CredTypes, NEW rt \in 1 .. MaxMinted, NEW scopes \in SUBSET Consents
    PROVE  LET row == Upserted(rt, scopes) IN
           row \in Creds /\ row.gen # 0 /\ row.rt # 0 /\ row # NoCred
<1>1. rt \in 0 .. MaxMinted /\ rt # 0
  BY BrokerAssumption
<1>2. cred.gen \in Nat
  BY DEF CredTypes, Creds
<1>3. cred.gen + 1 \in Nat /\ cred.gen + 1 # 0
  BY <1>2
<1> QED BY <1>1, <1>3 DEF Upserted, Creds, NoCred

\* The refresh token a request would store: Google's, else the one it read.
LEMMA RefreshTokenType ==
    ASSUME CredTypes, NEW p \in Requests
    PROVE  /\ (IF got[p] # 0 THEN got[p] ELSE seen[p].rt) \in 0 .. MaxMinted
           /\ seen[p].scopes \subseteq Consents
           /\ got[p] \in 0 .. MaxMinted /\ seen[p].rt \in 0 .. MaxMinted
BY DEF CredTypes, Creds

\* A token Google has just issued.
LEMMA MintedType ==
    ASSUME CredTypes, minted < MaxMinted
    PROVE  /\ minted + 1 \in 0 .. MaxMinted
           /\ valid \cup {minted + 1} \subseteq 1 .. minted + 1
BY BrokerAssumption DEF CredTypes

LEMMA CredTypesStep ==
    ASSUME BrokerInv, CredTypes, Held, [Next]_vars
    PROVE  CredTypes'
<1> USE BrokerAssumption
<1>0. NoCred \in Creds /\ NoCred.gen = 0 /\ NoCred.rt = 0
  BY DEF NoCred, Creds
<1>1. CASE UNCHANGED << cred, minted, valid, seen, tried, got >>
  BY <1>1 DEF CredTypes
<1>u. ASSUME NEW rt \in 0 .. MaxMinted, rt # 0, NEW scopes \in SUBSET Consents,
             cred' = Upserted(rt, scopes), UNCHANGED << minted, valid, seen, tried, got >>
      PROVE  CredTypes'
  <2>1. rt \in 1 .. MaxMinted
    BY <1>u
  <2>2. /\ cred' \in Creds /\ (cred'.gen = 0 <=> cred' = NoCred)
        /\ (cred'.rt = 0 <=> cred' = NoCred)
    BY <1>u, <2>1, UpsertedType
  <2> QED BY <1>u, <2>2 DEF CredTypes
<1>s. ASSUME NEW p \in Requests, seen' = [seen EXCEPT ![p] = cred],
             UNCHANGED << cred, minted, valid, tried, got >>
      PROVE  CredTypes'
  BY <1>s DEF CredTypes
<1>2. ASSUME NEW p \in Requests, ExchangeCode(p) PROVE CredTypes'
  <2>1. UNCHANGED << cred, seen, tried >>
    BY <1>2 DEF ExchangeCode, tables
  <2>2. CASE minted < MaxMinted /\ minted' = minted + 1
             /\ valid' = valid \cup {minted'} /\ got' = [got EXCEPT ![p] = minted']
    BY <2>1, <2>2, MintedType DEF CredTypes
  <2>3. CASE UNCHANGED << minted, valid, got >>
    BY <1>1, <2>1, <2>3
  <2> QED BY <1>2, <2>2, <2>3 DEF ExchangeCode
<1>3. ASSUME NEW p \in Requests, ReadExisting(p) \/ RereadOutbound(p) \/ ReadRejected(p)
      PROVE  CredTypes'
  BY <1>3, <1>s DEF ReadExisting, RereadOutbound, ReadRejected, tables, google
<1>4. ASSUME NEW p \in Requests, StoreConsent(p) PROVE CredTypes'
  <2> DEFINE rt == IF got[p] # 0 THEN got[p] ELSE seen[p].rt
  <2>1. p \in Consents
    BY <1>4 DEF StoreConsent, At, BrokerInv, Places, PlacesOf
  <2>2. rt \in 0 .. MaxMinted /\ seen[p].scopes \cup {p} \in SUBSET Consents
    BY <2>1, RefreshTokenType
  <2>3. /\ UNCHANGED << minted, valid, seen, tried, got >>
        /\ \/ rt # 0 /\ cred' = Upserted(rt, seen[p].scopes \cup {p})
           \/ UNCHANGED cred
    BY <1>4 DEF StoreConsent, google, locals
  <2> HIDE DEF rt
  <2> QED BY <1>1, <1>u, <2>2, <2>3
<1>5. ASSUME NEW p \in Requests, Load(p) PROVE CredTypes'
  BY <1>1, <1>5, <1>s DEF Load, tables, google
<1>6. ASSUME NEW p \in Requests, CallGoogle(p) PROVE CredTypes'
  <2>1. UNCHANGED << cred, seen >> /\ tried' = [tried EXCEPT ![p] = seen[p].rt]
    BY <1>6 DEF CallGoogle, tables
  <2>2. tried' \in [Requests -> 0 .. MaxMinted]
    BY <2>1, RefreshTokenType DEF CredTypes
  <2>3. CASE minted < MaxMinted /\ minted' = minted + 1
             /\ valid' = valid \cup {minted'} /\ got' = [got EXCEPT ![p] = minted']
    BY <2>1, <2>2, <2>3, MintedType DEF CredTypes
  <2>4. CASE UNCHANGED << minted, valid >>
             /\ (got' = got \/ got' = [got EXCEPT ![p] = 0])
    BY <2>1, <2>2, <2>4 DEF CredTypes
  <2> QED BY <1>6, <2>3, <2>4 DEF CallGoogle
<1>7. ASSUME NEW p \in Requests, SaveInbound(p) PROVE CredTypes'
  <2> DEFINE rt == IF got[p] # 0 THEN got[p] ELSE seen[p].rt
  <2>1. rt \in 0 .. MaxMinted /\ seen[p].scopes \in SUBSET Consents
    BY RefreshTokenType
  <2>2. rt # 0
    BY <1>7 DEF SaveInbound, At, Held
  <2>3. /\ UNCHANGED << minted, valid, seen, tried, got >>
        /\ cred' = Upserted(rt, seen[p].scopes)
    BY <1>7 DEF SaveInbound, google, locals
  <2> HIDE DEF rt
  <2> QED BY <1>u, <2>1, <2>2, <2>3
<1>8. ASSUME NEW p \in Requests, SaveOutbound(p) \/ LateSave(p) PROVE CredTypes'
  <2> DEFINE rt == IF got[p] # 0 THEN got[p] ELSE seen[p].rt
  <2>1. rt \in 0 .. MaxMinted /\ seen[p].scopes \in SUBSET Consents
    BY RefreshTokenType
  <2>2. /\ UNCHANGED << minted, valid, seen, tried, got >>
        /\ \/ rt # 0 /\ cred' = Upserted(rt, seen[p].scopes)
           \/ UNCHANGED cred
    BY <1>8 DEF SaveOutbound, LateSave, google, locals
  <2> HIDE DEF rt
  <2> QED BY <1>1, <1>u, <2>1, <2>2
<1>9. ASSUME NEW p \in Requests, InvalidateCredential(p) \/ LateDelete(p)
      PROVE  CredTypes'
  <2>1. UNCHANGED << minted, valid, seen, tried, got >> /\ (cred' = NoCred \/ cred' = cred)
    BY <1>9 DEF InvalidateCredential, LateDelete, Invalidate, tables, google, locals
  <2> QED BY <1>0, <2>1 DEF CredTypes
<1>10. CASE GoogleRevokes
  BY <1>10 DEF GoogleRevokes, CredTypes, tables, locals
<1>11. ASSUME NEW p \in Requests,
              \/ InsertCode(p) \/ RedeemCode(p) \/ CheckCredential(p) \/ InsertToken(p)
              \/ Claim(p) \/ CheckClaim(p) \/ ReleaseClaim(p) \/ Rotate(p)
              \/ ResolveLock(p) \/ Lock(p) \/ FindToken(p) \/ RevokeToken(p)
              \/ Cancel(p) \/ Detach(p)
       PROVE  CredTypes'
  BY <1>1, <1>11
     DEF InsertCode, RedeemCode, CheckCredential, InsertToken, Claim, CheckClaim,
         ReleaseClaim, Rotate, ResolveLock, Lock, FindToken, RevokeToken, Cancel,
         Detach, tables, google, locals
<1>12. CASE Cleanup \/ Tick \/ Quiet \/ UNCHANGED vars
  BY <1>1, <1>12 DEF Cleanup, Tick, Quiet, vars, tables, google, locals
<1> QED
  BY <1>2, <1>3, <1>4, <1>5, <1>6, <1>7, <1>8, <1>9, <1>10, <1>11, <1>12 DEF Next, Step

LEMMA UnlockedType ==
    ASSUME ControlTypes, NEW p
    PROVE  Unlocked(p) \in [Keys -> Requests \cup {None}]
BY DEF Unlocked, ControlTypes

LEMMA ControlTypesStep ==
    ASSUME BrokerInv, ControlTypes, Held, [Next]_vars
    PROVE  ControlTypes'
<1>0. ASSUME locks' = locks \/ \E p \in Requests : locks' = Unlocked(p),
             UNCHANGED << key, attempt >>
      PROVE  ControlTypes'
  <2>1. locks' \in [Keys -> Requests \cup {None}]
    BY <1>0, UnlockedType DEF ControlTypes
  <2> QED BY <1>0, <2>1 DEF ControlTypes
<1>1. ASSUME NEW p \in Requests, ResolveLock(p) PROVE ControlTypes'
  <2>1. (IF cred = NoCred THEN "unbound" ELSE "subject") \in Keys
    BY DEF Keys
  <2> QED BY <1>1, <2>1 DEF ResolveLock, ControlTypes
<1>2. ASSUME NEW p \in Requests, Lock(p) PROVE ControlTypes'
  <2>1. (IF p \in Revokers THEN RevokeAttempts ELSE 2) \in 0 .. RevokeAttempts
    BY DEF RevokeAttempts
  <2> QED BY <1>2, <2>1 DEF Lock, ControlTypes
<1>3. ASSUME NEW p \in Requests, CallGoogle(p) PROVE ControlTypes'
  <2>1. attempt[p] \in 1 .. RevokeAttempts
    BY <1>3 DEF CallGoogle, At, Held, ControlTypes, RevokeAttempts
  <2>2. attempt[p] - 1 \in 0 .. RevokeAttempts /\ 0 \in 0 .. RevokeAttempts
    BY <2>1 DEF RevokeAttempts
  <2>3. key' = key /\ attempt' \in [Requests -> 0 .. RevokeAttempts]
    BY <1>3, <2>2 DEF CallGoogle, ControlTypes
  <2>4. locks' = locks \/ locks' = Unlocked(p)
    BY <1>3 DEF CallGoogle
  <2> QED BY <2>3, <2>4, UnlockedType DEF ControlTypes
<1>4. ASSUME NEW p \in Requests, InvalidateCredential(p) PROVE ControlTypes'
  <2>1. key' = key /\ (locks' = locks \/ locks' = Unlocked(p))
    BY <1>4 DEF InvalidateCredential
  <2>2. \/ attempt' = attempt
        \/ attempt[p] > 1 /\ attempt' = [attempt EXCEPT ![p] = @ - 1]
    BY <1>4 DEF InvalidateCredential, ControlTypes
  <2>3. attempt' \in [Requests -> 0 .. RevokeAttempts]
    BY <2>2 DEF ControlTypes, RevokeAttempts
  <2> QED BY <2>1, <2>3, UnlockedType DEF ControlTypes
<1>5. ASSUME NEW p \in Requests,
             \/ ExchangeCode(p) \/ ReadExisting(p) \/ StoreConsent(p) \/ InsertCode(p)
             \/ RedeemCode(p) \/ CheckCredential(p) \/ InsertToken(p)
             \/ Claim(p) \/ CheckClaim(p) \/ ReleaseClaim(p) \/ Rotate(p)
      PROVE  ControlTypes'
  BY <1>0, <1>5
     DEF ExchangeCode, ReadExisting, StoreConsent, InsertCode, RedeemCode,
         CheckCredential, InsertToken, Claim, CheckClaim, ReleaseClaim, Rotate, locals
<1>6. ASSUME NEW p \in Requests,
             \/ Load(p) \/ SaveInbound(p) \/ RereadOutbound(p) \/ SaveOutbound(p)
             \/ ReadRejected(p) \/ FindToken(p) \/ RevokeToken(p)
             \/ Cancel(p) \/ Detach(p) \/ LateSave(p) \/ LateDelete(p)
      PROVE  ControlTypes'
  BY <1>0, <1>6
     DEF Load, SaveInbound, RereadOutbound, SaveOutbound, ReadRejected, FindToken,
         RevokeToken, Cancel, Detach, LateSave, LateDelete, locals
<1>7. CASE Cleanup \/ GoogleRevokes \/ Tick \/ Quiet \/ UNCHANGED vars
  BY <1>0, <1>7 DEF Cleanup, GoogleRevokes, Tick, Quiet, vars, locals
<1> QED
  BY <1>1, <1>2, <1>3, <1>4, <1>5, <1>6, <1>7 DEF Next, Step

\* A request's step moves it alone and writes its own locals alone.
LEMMA OwnLocals ==
    ASSUME TypeOK, NEW p \in Requests, NEW q \in Requests, p # q, Step(q)
    PROVE  /\ pc'[p] = pc[p] /\ uses'[p] = uses[p] /\ seen'[p] = seen[p]
           /\ tried'[p] = tried[p] /\ attempt'[p] = attempt[p]
<1> USE DEF TypeOK, Goto
<1>1. CASE \/ ExchangeCode(q) \/ ReadExisting(q) \/ StoreConsent(q) \/ InsertCode(q)
           \/ RedeemCode(q) \/ CheckCredential(q) \/ InsertToken(q)
  BY <1>1 DEF ExchangeCode, ReadExisting, StoreConsent, InsertCode, RedeemCode,
              CheckCredential, InsertToken, locals
<1>2. CASE Claim(q) \/ CheckClaim(q) \/ ReleaseClaim(q) \/ Rotate(q)
  BY <1>2 DEF Claim, CheckClaim, ReleaseClaim, Rotate, locals
<1>3. CASE ResolveLock(q) \/ Lock(q) \/ Load(q) \/ CallGoogle(q) \/ SaveInbound(q)
  BY <1>3 DEF ResolveLock, Lock, Load, CallGoogle, SaveInbound, locals
<1>4. CASE \/ RereadOutbound(q) \/ SaveOutbound(q) \/ ReadRejected(q)
           \/ InvalidateCredential(q)
  BY <1>4 DEF RereadOutbound, SaveOutbound, ReadRejected, InvalidateCredential, locals
<1>5. CASE \/ FindToken(q) \/ RevokeToken(q) \/ Cancel(q) \/ Detach(q)
           \/ LateSave(q) \/ LateDelete(q)
  BY <1>5 DEF FindToken, RevokeToken, Cancel, Detach, LateSave, LateDelete, locals
<1> QED BY <1>1, <1>2, <1>3, <1>4, <1>5 DEF Step

LEMMA HeldStep ==
    ASSUME BrokerInv, TypeOK, Held, [Next]_vars
    PROVE  Held'
<1>1. ASSUME UNCHANGED << pc, seen, attempt >> PROVE Held'
  BY <1>1 DEF Held
<1>2. ASSUME NEW q \in Requests, Step(q) PROVE Held'
  <2>1. \A p \in Requests : p # q => /\ pc'[p] = pc[p] /\ seen'[p] = seen[p]
                                     /\ attempt'[p] = attempt[p]
    BY <1>2, OwnLocals
  <2>2. SUFFICES /\ pc'[q] \in {"calling", "saving"} => seen'[q].rt # 0
                 /\ pc'[q] \in {"loading", "calling"} => attempt'[q] >= 1
    BY <2>1 DEF Held
  <2> USE DEF TypeOK, Goto, Failed
  <2>3. CASE Lock(q)
    BY <2>3 DEF Lock, RevokeAttempts
  <2>4. CASE Load(q)
    BY <2>4 DEF Load, At, Held
  <2>5. CASE CallGoogle(q)
    BY <2>5 DEF CallGoogle, At, Held
  <2>6. CASE InvalidateCredential(q)
    BY <2>6 DEF InvalidateCredential
  <2>7. CASE \/ ExchangeCode(q) \/ ReadExisting(q) \/ StoreConsent(q) \/ InsertCode(q)
             \/ RedeemCode(q) \/ CheckCredential(q) \/ InsertToken(q)
             \/ Claim(q) \/ CheckClaim(q) \/ ReleaseClaim(q) \/ Rotate(q)
    BY <2>7 DEF ExchangeCode, ReadExisting, StoreConsent, InsertCode, RedeemCode,
                CheckCredential, InsertToken, Claim, CheckClaim, ReleaseClaim, Rotate
  <2>8. CASE \/ ResolveLock(q) \/ SaveInbound(q) \/ RereadOutbound(q)
             \/ SaveOutbound(q) \/ ReadRejected(q) \/ FindToken(q) \/ RevokeToken(q)
             \/ Cancel(q) \/ Detach(q) \/ LateSave(q) \/ LateDelete(q)
    BY <2>8 DEF ResolveLock, SaveInbound, RereadOutbound, SaveOutbound, ReadRejected,
                FindToken, RevokeToken, Cancel, Detach, LateSave, LateDelete
  <2> QED BY <1>2, <2>3, <2>4, <2>5, <2>6, <2>7, <2>8 DEF Step
<1>3. CASE Cleanup \/ GoogleRevokes \/ Tick \/ Quiet \/ UNCHANGED vars
  BY <1>1, <1>3 DEF Cleanup, GoogleRevokes, Tick, Quiet, vars, locals
<1> QED BY <1>2, <1>3 DEF Next

\* The inductive invariant with its types.
BrokerTyped == BrokerInv /\ TypeOK /\ Held

LEMMA BrokerTypedInit == Init => BrokerTyped
<1> SUFFICES ASSUME Init PROVE BrokerTyped
  OBVIOUS
<1>1. BrokerInv
  BY BrokerInit
<1>2. GrantTypes
  BY BrokerAssumption DEF Init, GrantTypes, TokenRows, NoRow
<1>3. CredTypes
  BY BrokerAssumption DEF Init, CredTypes, Creds, NoCred
<1>4. ControlTypes
  BY DEF Init, ControlTypes, Keys, RevokeAttempts
<1>5. Held
  BY DEF Init, Held
<1> QED BY <1>1, <1>2, <1>3, <1>4, <1>5, TypeParts DEF BrokerTyped

LEMMA BrokerTypedStep == BrokerTyped /\ [Next]_vars => BrokerTyped'
<1> SUFFICES ASSUME BrokerTyped, [Next]_vars PROVE BrokerTyped'
  OBVIOUS
<1>1. BrokerInv /\ TypeOK /\ Held /\ GrantTypes /\ CredTypes /\ ControlTypes
  BY TypeParts DEF BrokerTyped
<1>2. BrokerInv'
  BY <1>1, BrokerNext
<1>3. GrantTypes' /\ CredTypes' /\ ControlTypes' /\ Held'
  BY <1>1, GrantTypesStep, CredTypesStep, ControlTypesStep, HeldStep
<1>4. (BrokerInv /\ GrantTypes /\ CredTypes /\ ControlTypes)' => TypeOK'
  BY TypeParts, PTL
<1> QED BY <1>2, <1>3, <1>4 DEF BrokerTyped

LEMMA BrokerTypedAlways == Spec => []BrokerTyped
BY BrokerTypedInit, BrokerTypedStep, PTL DEF Spec

\* Every variable keeps its type: a stored credential always has a refresh token and
\* a generation (authorize.rs:460-480 refuses a consent that brings none), retries
\* stay within their bound, and times within the lifetimes.
THEOREM BrokerTypes == Spec => []TypeOK
<1>1. BrokerTyped => TypeOK
  BY DEF BrokerTyped
<1> QED BY <1>1, BrokerTypedAlways, PTL

-----------------------------------------------------------------------------
\* What an inbound refresh that failed may delete

\* A refresh whose grant is still stored has seen the stored generation or an older
\* one, and of the stored generation the stored refresh token: rows are only
\* overwritten with a higher generation, and deleting the row deletes the grant.
Observed ==
    \A p \in Refreshers :
        pc[p] \in {"calling", "invalidating", "late delete"} /\ Live(uses[p])
            => /\ seen[p].gen \in Nat /\ seen[p].gen <= cred.gen
               /\ seen[p].gen = cred.gen => seen[p].rt = cred.rt

\* A rejected refresh presented the refresh token of the row it saw.
PresentedWhatSeen ==
    \A p \in Refreshers :
        pc[p] \in {"invalidating", "late delete"} => tried[p] = seen[p].rt

\* A grant that is gone stays gone: a token is inserted once, by a request that has
\* issued nothing yet, and claims are only written to a stored row.
LEMMA GoneStaysGone ==
    ASSUME BrokerTyped, [Next]_vars, NEW t \in issued \cap Tokens, Live(t)'
    PROVE  Live(t)
<1> USE Kinds DEF BrokerTyped
<1>0. tokens \in [Tokens -> Rows] /\ ~ NoRow.exp > 0
  BY DEF BrokerInv, Sorts, NoRow
<1>1. ASSUME NEW p \in Requests, InsertToken(p) PROVE Live(t)
  <2>1. t # p
    BY <1>1 DEF InsertToken, At, BrokerInv, Presented
  <2> QED BY <1>0, <1>1, <2>1 DEF InsertToken, Live
<1>2. ASSUME NEW p \in Requests, Claim(p) PROVE Live(t)
  <2>1. \/ UNCHANGED tokens
        \/ \E s \in Tokens : \E at : tokens' = [tokens EXCEPT ![s].claim = p,
                                                              ![s].claimExp = at]
    BY <1>2 DEF Claim
  <2>2. ASSUME NEW s \in Tokens, NEW at,
               tokens' = [tokens EXCEPT ![s].claim = p, ![s].claimExp = at]
        PROVE  tokens'[t].exp = tokens[t].exp
    BY <1>0, <2>2 DEF Rows
  <2> QED BY <2>1, <2>2 DEF Live
<1>3. ASSUME NEW p \in Requests, ReleaseClaim(p) PROVE Live(t)
  <2>1. \/ UNCHANGED tokens
        \/ tokens' = [tokens EXCEPT ![uses[p]].claim = None, ![uses[p]].claimExp = 0]
    BY <1>3 DEF ReleaseClaim
  <2> QED BY <1>0, <2>1 DEF Live, Rows
<1>4. ASSUME NEW p \in Requests, Rotate(p) PROVE Live(t)
  <2>1. t # p
    BY <1>4 DEF Rotate, At, BrokerInv, Presented
  <2>2. tokens'[t] \in {tokens[t], NoRow}
    BY <1>0, <1>4, <2>1 DEF Rotate
  <2> QED BY <1>0, <2>2 DEF Live
<1>5. ASSUME NEW p \in Requests, InvalidateCredential(p) \/ LateDelete(p) PROVE Live(t)
  <2>1. tokens'[t] \in {tokens[t], NoRow}
    BY <1>5 DEF InvalidateCredential, LateDelete, Invalidate, tables
  <2> QED BY <1>0, <2>1 DEF Live
<1>6. ASSUME NEW p \in Requests, RevokeToken(p) PROVE Live(t)
  <2>1. tokens'[t] \in {tokens[t], NoRow}
    BY <1>0, <1>6 DEF RevokeToken
  <2> QED BY <1>0, <2>1 DEF Live
<1>7. CASE Cleanup
  <2>1. tokens'[t] \in {tokens[t], NoRow}
    BY <1>7 DEF Cleanup
  <2> QED BY <1>0, <2>1 DEF Live
<1>8. CASE UNCHANGED tokens
  BY <1>8 DEF Live
<1>9. ASSUME NEW p \in Requests,
             \/ ExchangeCode(p) \/ ReadExisting(p) \/ StoreConsent(p) \/ InsertCode(p)
             \/ RedeemCode(p) \/ CheckCredential(p) \/ CheckClaim(p)
             \/ ResolveLock(p) \/ Lock(p) \/ Load(p) \/ CallGoogle(p) \/ SaveInbound(p)
             \/ RereadOutbound(p) \/ SaveOutbound(p) \/ ReadRejected(p) \/ FindToken(p)
             \/ Cancel(p) \/ Detach(p) \/ LateSave(p)
      PROVE  Live(t)
  BY <1>8, <1>9
     DEF ExchangeCode, ReadExisting, StoreConsent, InsertCode, RedeemCode,
         CheckCredential, CheckClaim, ResolveLock, Lock, Load, CallGoogle, SaveInbound,
         RereadOutbound, SaveOutbound, ReadRejected, FindToken, Cancel, Detach,
         LateSave, tables
<1>10. CASE GoogleRevokes \/ Tick \/ Quiet \/ UNCHANGED vars
  BY <1>8, <1>10 DEF GoogleRevokes, Tick, Quiet, vars, tables
<1> QED
  BY <1>1, <1>2, <1>3, <1>4, <1>5, <1>6, <1>7, <1>9, <1>10 DEF Next, Step

\* What a step does to the row: nothing, a higher generation, or a deletion that takes
\* every grant along.
LEMMA RowStep ==
    ASSUME BrokerTyped, [Next]_vars
    PROVE  \/ cred' = cred
           \/ cred'.gen = cred.gen + 1
           \/ cred' = NoCred /\ \A t \in Tokens : ~Live(t)'
<1>0. \A rt, scopes : Upserted(rt, scopes).gen = cred.gen + 1
  BY DEF Upserted
<1>1. ASSUME NEW p \in Requests,
             StoreConsent(p) \/ SaveInbound(p) \/ SaveOutbound(p) \/ LateSave(p)
      PROVE  cred' = cred \/ cred'.gen = cred.gen + 1
  BY <1>0, <1>1 DEF StoreConsent, SaveInbound, SaveOutbound, LateSave
<1>2. ASSUME NEW p \in Requests, Invalidate(p)
      PROVE  cred' = NoCred /\ \A t \in Tokens : ~Live(t)'
  BY <1>2 DEF Invalidate, Live, NoRow
<1>3. ASSUME NEW p \in Requests, InvalidateCredential(p) \/ LateDelete(p)
      PROVE  cred' = cred \/ Invalidate(p)
  BY <1>3 DEF InvalidateCredential, LateDelete, tables
<1>4. ASSUME NEW p \in Requests,
             \/ ExchangeCode(p) \/ ReadExisting(p) \/ InsertCode(p)
             \/ RedeemCode(p) \/ CheckCredential(p) \/ InsertToken(p)
             \/ Claim(p) \/ CheckClaim(p) \/ ReleaseClaim(p) \/ Rotate(p)
             \/ ResolveLock(p) \/ Lock(p) \/ Load(p) \/ CallGoogle(p)
             \/ RereadOutbound(p) \/ ReadRejected(p) \/ FindToken(p) \/ RevokeToken(p)
             \/ Cancel(p) \/ Detach(p)
      PROVE  cred' = cred
  BY <1>4
     DEF ExchangeCode, ReadExisting, InsertCode, RedeemCode, CheckCredential,
         InsertToken, Claim, CheckClaim, ReleaseClaim, Rotate, ResolveLock, Lock, Load,
         CallGoogle, RereadOutbound, ReadRejected, FindToken, RevokeToken, Cancel,
         Detach, tables
<1>5. CASE Cleanup \/ GoogleRevokes \/ Tick \/ Quiet \/ UNCHANGED vars
  BY <1>5 DEF Cleanup, GoogleRevokes, Tick, Quiet, vars, tables
<1> QED
  BY <1>1, <1>2, <1>3, <1>4, <1>5 DEF Next, Step

\* What a refresh knows on its way from the read of the row to its deletion.
LEMMA KnowsStep ==
    ASSUME BrokerTyped, [Next]_vars, NEW p \in Refreshers,
           pc'[p] \in {"calling", "invalidating", "late delete"}
    PROVE  /\ uses'[p] = uses[p]
           /\ \/ seen'[p] = cred /\ cred' = cred /\ pc'[p] = "calling"
              \/ /\ pc[p] \in {"calling", "invalidating", "late delete"}
                 /\ seen'[p] = seen[p]
           /\ pc'[p] \in {"invalidating", "late delete"} =>
                 \/ tried'[p] = seen'[p].rt
                 \/ /\ pc[p] \in {"invalidating", "late delete"}
                    /\ tried'[p] = tried[p]
<1> USE Kinds DEF BrokerTyped
<1>p. p \in Requests /\ p \notin Revokers /\ p \notin Outbounds /\ p \notin Consents
      /\ p \notin Clients /\ p \notin Redeemers
  BY BrokerAssumption DEF Consents, Tokens, Requests
<1>1. ASSUME UNCHANGED << pc, uses, seen, tried >>
      PROVE  /\ uses'[p] = uses[p] /\ pc'[p] = pc[p]
             /\ seen'[p] = seen[p] /\ tried'[p] = tried[p]
  BY <1>1
<1>2. ASSUME NEW q \in Requests, Step(q), q # p
      PROVE  /\ uses'[p] = uses[p] /\ pc'[p] = pc[p]
             /\ seen'[p] = seen[p] /\ tried'[p] = tried[p]
  BY <1>2, <1>p, OwnLocals
<1>3. CASE Step(p)
  <2> USE DEF Goto, Failed, At
  <2>0. /\ pc \in [Requests -> PCs] /\ seen \in [Requests -> Creds]
        /\ tried \in [Requests -> 0 .. MaxMinted]
        /\ pc[p] \notin {"merging", "resaving", "rereading"}
    BY <1>p DEF TypeOK, BrokerInv, Places, PlacesOf
  <2>1. CASE Load(p)
    BY <1>p, <2>0, <2>1 DEF Load, tables
  <2>2. CASE CallGoogle(p)
    BY <1>p, <2>0, <2>2 DEF CallGoogle
  <2>3. CASE Detach(p)
    BY <1>p, <2>0, <2>3 DEF Detach, locals
  <2>4. CASE ReadRejected(p)
    BY <1>p, <2>0, <2>4 DEF ReadRejected, BrokerInv, Places, PlacesOf
  <2>5. ASSUME
             \/ ExchangeCode(p) \/ ReadExisting(p) \/ StoreConsent(p) \/ InsertCode(p)
             \/ RedeemCode(p) \/ CheckCredential(p) \/ InsertToken(p)
             \/ Claim(p) \/ CheckClaim(p) \/ ReleaseClaim(p) \/ Rotate(p)
        PROVE FALSE
    BY <1>p, <2>0, <2>5
       DEF ExchangeCode, ReadExisting, StoreConsent, InsertCode, RedeemCode,
           CheckCredential, InsertToken, Claim, CheckClaim, ReleaseClaim, Rotate
  <2>6. ASSUME
             \/ ResolveLock(p) \/ Lock(p) \/ SaveInbound(p) \/ RereadOutbound(p)
             \/ SaveOutbound(p) \/ InvalidateCredential(p) \/ FindToken(p)
             \/ RevokeToken(p) \/ Cancel(p) \/ LateSave(p) \/ LateDelete(p)
        PROVE FALSE
    BY <1>p, <2>0, <2>6
       DEF ResolveLock, Lock, SaveInbound, RereadOutbound, SaveOutbound,
           InvalidateCredential, FindToken, RevokeToken, Cancel, LateSave, LateDelete
  <2> QED BY <1>3, <2>1, <2>2, <2>3, <2>4, <2>5, <2>6 DEF Step
<1>4. CASE Cleanup \/ GoogleRevokes \/ Tick \/ Quiet \/ UNCHANGED vars
  BY <1>1, <1>4 DEF Cleanup, GoogleRevokes, Tick, Quiet, vars, locals
<1> QED BY <1>2, <1>3, <1>4 DEF Next

BrokerKnows == BrokerTyped /\ Observed /\ PresentedWhatSeen

LEMMA BrokerKnowsStep == BrokerKnows /\ [Next]_vars => BrokerKnows'
<1> SUFFICES ASSUME BrokerKnows, [Next]_vars PROVE BrokerKnows'
  OBVIOUS
<1>0. BrokerTyped /\ Observed /\ PresentedWhatSeen
  BY DEF BrokerKnows
<1>n. cred.gen \in Nat
  BY <1>0 DEF BrokerTyped, TypeOK, Creds
<1>1. BrokerTyped'
  BY <1>0, BrokerTypedStep
<1>2. PresentedWhatSeen'
  BY <1>0, KnowsStep DEF PresentedWhatSeen
<1>3. Observed'
  <2>0. SUFFICES ASSUME NEW p \in Refreshers,
                         pc'[p] \in {"calling", "invalidating", "late delete"},
                         tokens'[uses'[p]].exp > 0
                  PROVE  /\ seen'[p].gen \in Nat /\ seen'[p].gen <= cred'.gen
                         /\ seen'[p].gen = cred'.gen => seen'[p].rt = cred'.rt
    BY DEF Observed, Live
  <2>1. uses'[p] = uses[p]
    BY <1>0, <2>0, KnowsStep
  <2>2. CASE seen'[p] = cred /\ cred' = cred
    BY <1>n, <2>2
  <2>3. CASE pc[p] \in {"calling", "invalidating", "late delete"} /\ seen'[p] = seen[p]
    <3>1. uses[p] \in issued \cap Tokens
      BY <1>0, <2>3, Kinds DEF BrokerTyped, BrokerInv, Presented
    <3>2. Live(uses[p])
      <4>1. tokens'[uses[p]].exp > 0
        BY <2>0, <2>1
      <4> QED BY <1>0, <3>1, <4>1, GoneStaysGone DEF Live
    <3>3. /\ seen[p].gen \in Nat /\ seen[p].gen <= cred.gen
          /\ seen[p].gen = cred.gen => seen[p].rt = cred.rt
      BY <1>0, <2>3, <3>2 DEF Observed
    <3>4. cred' = cred \/ cred'.gen = cred.gen + 1
      <4>1. ~ \A t \in Tokens : ~Live(t)'
        BY <2>0, <2>1, <3>1 DEF Live
      <4> QED BY <1>0, <4>1, RowStep
    <3>5. seen'[p] = seen[p]
      BY <2>3
    <3> QED BY <1>n, <3>3, <3>4, <3>5
  <2> QED BY <1>0, <2>0, <2>2, <2>3, KnowsStep
<1> QED BY <1>1, <1>2, <1>3 DEF BrokerKnows

\* Only a deletion by the request that moves empties the row.
LEMMA OnlyInvalidateDeletes ==
    ASSUME BrokerTyped, [Next]_vars, NEW p \in Refreshers,
           pc[p] \in {"invalidating", "late delete"},
           cred # NoCred, cred' = NoCred, pc'[p] # pc[p]
    PROVE  cred.gen = seen[p].gen
<1> USE Kinds DEF BrokerTyped
<1>1. PICK q \in Requests : Step(q)
  BY DEF Next, Cleanup, GoogleRevokes, Tick, Quiet, vars, tables
<1>2. q = p
  BY <1>1, OwnLocals
<1>3. Step(p)
  BY <1>1, <1>2
<1>4. InvalidateCredential(p) \/ LateDelete(p)
  BY <1>3 DEF Step, At, tables, ExchangeCode, ReadExisting, StoreConsent, InsertCode,
       RedeemCode, CheckCredential, InsertToken, Claim, CheckClaim, ReleaseClaim, Rotate,
       ResolveLock, Lock, Load, CallGoogle, SaveInbound, RereadOutbound, SaveOutbound,
       ReadRejected, FindToken, RevokeToken, Cancel, Detach, LateSave
<1> QED BY <1>4 DEF InvalidateCredential, LateDelete, Invalidate, tables

\* A refresh that Google rejected deletes no credential but the one it presented, for
\* as long as the grant it refreshes is stored (token.rs:871 and 918).
THEOREM BrokerInboundDeletesWhatFailed == Spec => InboundDeletesWhatFailed
<1>1. Init => BrokerKnows
  <2>1. Init => Observed /\ PresentedWhatSeen
    BY Kinds DEF Init, Observed, PresentedWhatSeen
  <2> QED BY <2>1, BrokerTypedInit DEF BrokerKnows
<1>2. ASSUME BrokerKnows, [Next]_vars
      PROVE  [\A p \in Refreshers :
                 (/\ At(p, "invalidating") \/ At(p, "late delete")
                  /\ cred # NoCred /\ cred' = NoCred /\ pc'[p] # pc[p]
                  /\ Live(uses[p]))
                     => cred.rt = tried[p]]_vars
  <2> SUFFICES ASSUME NEW p \in Refreshers, pc[p] \in {"invalidating", "late delete"},
                      cred # NoCred, cred' = NoCred, pc'[p] # pc[p], Live(uses[p])
               PROVE  cred.rt = tried[p]
    BY DEF At
  <2>1. cred.gen = seen[p].gen
    BY <1>2, OnlyInvalidateDeletes DEF BrokerKnows
  <2> QED BY <1>2, <2>1 DEF BrokerKnows, Observed, PresentedWhatSeen
<1>3. BrokerKnows /\ [Next]_vars => BrokerKnows'
  BY BrokerKnowsStep
<1> QED BY <1>1, <1>2, <1>3, PTL DEF Spec, InboundDeletesWhatFailed

-----------------------------------------------------------------------------
\* The broker implements GrantStore.

\* Where a redeemer has a code that it took.
HasCode == {"redeemed", "checked"}

LEMMA TakenSame ==
    ASSUME \A d \in Redeemers :
              /\ pc'[d] \in HasCode <=> pc[d] \in HasCode
              /\ pc[d] \in HasCode => uses'[d] = uses[d]
    PROVE  Taken' = Taken
BY DEF Taken, HasCode

LEMMA HeirsSame ==
    ASSUME issued' = issued, \A t \in issued \cap Tokens : uses'[t] = uses[t]
    PROVE  Heirs' = Heirs
BY DEF Heirs

LEMMA StoredSame ==
    ASSUME codes' = codes, \A t \in Tokens : tokens'[t].exp = tokens[t].exp
    PROVE  Stored' = Stored
BY DEF Stored, Live

\* A step that moves one request and leaves the grants alone: it is invisible, or
\* a redeemer gives up the code it has.
LEMMA GrantControlStep ==
    ASSUME BrokerInv, NEW p \in Requests,
           \A q \in Requests : q # p => pc'[q] = pc[q],
           pc'[p] \in HasCode => pc[p] \in HasCode,
           UNCHANGED << codes, tokens, uses, issued, revoked >>
    PROVE  [Grants!Next]_(Grants!storeVars)
<1> USE Kinds
<1>1. Redeemers \subseteq Requests
  OBVIOUS
<1>2. Heirs' = Heirs /\ Stored' = Stored
  BY HeirsSame, StoredSame
<1>3. CASE pc'[p] \in HasCode \/ pc[p] \notin HasCode
  <2>1. Taken' = Taken
    BY <1>1, <1>3, TakenSame
  <2> QED BY <1>2, <2>1 DEF Grants!storeVars
<1>4. CASE pc'[p] \notin HasCode /\ pc[p] \in HasCode
  <2>1. p \in Redeemers
    BY <1>4 DEF BrokerInv, Places, PlacesOf, HasCode
  <2>2. uses[p] \in Callbacks
    BY <1>4, <2>1 DEF BrokerInv, Presented, HasCode
  <2>3. << uses[p], p >> \in Taken
    BY <1>4, <2>1 DEF Taken, HasCode
  <2>4. Taken' = Taken \ {<< uses[p], p >>}
    BY <1>1, <1>4, <2>1 DEF Taken, HasCode
  <2>5. Grants!Abandon(uses[p], p)
    BY <1>2, <2>3, <2>4 DEF Grants!Abandon
  <2> QED BY <2>1, <2>2, <2>5 DEF Grants!Next
<1> QED BY <1>3, <1>4

\* The steps that move one request and do not touch the grants.
LEMMA GrantControlActions ==
    ASSUME BrokerInv, NEW p \in Requests,
           \/ ExchangeCode(p) \/ ReadExisting(p) \/ StoreConsent(p)
           \/ CheckCredential(p) \/ CheckClaim(p) \/ ResolveLock(p) \/ Lock(p)
           \/ Load(p) \/ CallGoogle(p) \/ SaveInbound(p) \/ RereadOutbound(p)
           \/ SaveOutbound(p) \/ ReadRejected(p) \/ Cancel(p) \/ Detach(p)
           \/ LateSave(p)
    PROVE  [Grants!Next]_(Grants!storeVars)
<1>1. UNCHANGED << codes, tokens, uses, issued, revoked >>
  BY DEF ExchangeCode, ReadExisting, StoreConsent, CheckCredential, CheckClaim,
     ResolveLock, Lock, Load, CallGoogle, SaveInbound, RereadOutbound, SaveOutbound,
     ReadRejected, Cancel, Detach, LateSave, tables, locals, history
<1>2. pc \in [Requests -> PCs]
  BY DEF BrokerInv, Places
<1>3. /\ \A q \in Requests : q # p => pc'[q] = pc[q]
      /\ pc'[p] \in HasCode => pc[p] \in HasCode
  <2>1. CASE \/ ExchangeCode(p) \/ ReadExisting(p) \/ StoreConsent(p)
             \/ CheckCredential(p) \/ CheckClaim(p) \/ ResolveLock(p) \/ Lock(p)
    BY <1>2, <2>1 DEF ExchangeCode, ReadExisting, StoreConsent, CheckCredential,
       CheckClaim, ResolveLock, Lock, At, Goto, HasCode
  <2>2. CASE \/ Load(p) \/ SaveInbound(p) \/ RereadOutbound(p) \/ SaveOutbound(p)
             \/ ReadRejected(p) \/ Cancel(p) \/ Detach(p) \/ LateSave(p)
    BY <1>2, <2>2 DEF Load, SaveInbound, RereadOutbound, SaveOutbound,
       ReadRejected, Cancel, Detach, LateSave, Goto, Failed, HasCode
  <2>3. CASE CallGoogle(p)
    BY <1>2, <2>3 DEF CallGoogle, Goto, Failed, HasCode
  <2> QED BY <2>1, <2>2, <2>3
<1> QED BY <1>1, <1>3, GrantControlStep

LEMMA GrantInsertCode ==
    ASSUME BrokerInv, NEW p \in Requests, InsertCode(p)
    PROVE  Grants!Next
<1> USE Kinds, BrokerAssumption
<1>0. Sorts /\ Places /\ Presented
  BY DEF BrokerInv
<1>1. p \in Callbacks \ issued
  BY <1>0 DEF InsertCode, At, Places, PlacesOf, Presented
<1>2. /\ UNCHANGED << tokens, uses, revoked >> /\ issued' = issued \cup {p}
      /\ codes' = [codes EXCEPT ![p] = now + CodeTTL]
      /\ pc' = [pc EXCEPT ![p] = "done"]
  BY DEF InsertCode, Goto, locals
<1>3. Stored' = Stored \cup {p}
  BY <1>0, <1>1, <1>2 DEF Stored, Live, Sorts
<1>4. Taken' = Taken
  BY <1>0, <1>1, <1>2, TakenSame DEF Places
<1>5. Heirs' = Heirs
  BY <1>1, <1>2 DEF Heirs
<1>6. Grants!Issue(p)
  BY <1>1, <1>2, <1>3, <1>4, <1>5 DEF Grants!Issue
<1> QED BY <1>1, <1>6 DEF Grants!Next

LEMMA GrantRedeemCode ==
    ASSUME BrokerInv, NEW p \in Requests, RedeemCode(p)
    PROVE  [Grants!Next]_(Grants!storeVars)
<1> USE Kinds, BrokerAssumption
<1>0. Sorts /\ Places /\ Presented
  BY DEF BrokerInv
<1>1. /\ p \in Redeemers /\ p \notin issued /\ pc[p] = "start"
      /\ UNCHANGED << tokens, issued, revoked >>
  BY <1>0 DEF RedeemCode, At, Presented, history
<1>2. PICK c \in issued \cap Callbacks, t \in ReadTimes :
          \/ /\ codes[c] > t
             /\ codes' = [codes EXCEPT ![c] = 0]
             /\ uses' = [uses EXCEPT ![p] = c]
             /\ Goto(p, "redeemed")
          \/ Goto(p, "done") /\ UNCHANGED << codes, uses >>
  BY DEF RedeemCode
<1>3. CASE Goto(p, "done") /\ UNCHANGED << codes, uses >>
  BY <1>0, <1>1, <1>3, GrantControlStep DEF Goto, HasCode, Places
<1>4. CASE /\ codes[c] > t /\ codes' = [codes EXCEPT ![c] = 0]
           /\ uses' = [uses EXCEPT ![p] = c] /\ Goto(p, "redeemed")
  <2>1. t \in Nat /\ codes[c] > 0
    BY <1>0, <1>4 DEF ReadTimes, Sorts
  <2>2. c \in Stored /\ Stored' = Stored \ {c}
    BY <1>0, <1>1, <1>4, <2>1 DEF Stored, Live, Sorts
  <2>3. /\ uses'[p] = c /\ \A q \in Requests : q # p => uses'[q] = uses[q]
        /\ pc'[p] = "redeemed" /\ \A q \in Requests : q # p => pc'[q] = pc[q]
    BY <1>0, <1>4 DEF Sorts, Places, Goto
  <2>4. Taken' = Taken \cup {<< c, p >>}
    BY <1>1, <2>3 DEF Taken
  <2>5. Heirs' = Heirs
    BY <1>1, <2>3, HeirsSame
  <2>6. Grants!Take(c, p)
    BY <1>1, <2>2, <2>4, <2>5 DEF Grants!Take
  <2> QED BY <1>1, <2>6 DEF Grants!Next
<1> QED BY <1>2, <1>3, <1>4

LEMMA GrantInsertToken ==
    ASSUME BrokerInv, NEW p \in Requests, InsertToken(p)
    PROVE  Grants!Next
<1> USE Kinds, BrokerAssumption
<1>0. Sorts /\ Places /\ Presented /\ Unspent
  BY DEF BrokerInv
<1>1. p \in Redeemers /\ p \notin issued /\ pc[p] = "checked"
  BY <1>0 DEF InsertToken, At, Places, PlacesOf, Presented
<1>2. uses[p] \in Callbacks
  BY <1>0, <1>1 DEF Presented
<1>3. /\ UNCHANGED << codes, uses, revoked >> /\ issued' = issued \cup {p}
      /\ tokens' = [tokens EXCEPT ![p] = [NoRow EXCEPT !.exp = now + TokenTTL]]
      /\ pc' = [pc EXCEPT ![p] = "done"]
  BY DEF InsertToken, Goto, locals
<1>4. Stored' = Stored \cup {p}
  <2>1. tokens'[p].exp > 0 /\ \A t \in Tokens : t # p => tokens'[t] = tokens[t]
    BY <1>0, <1>1, <1>3 DEF Sorts, NoRow
  <2> QED BY <1>1, <1>3, <2>1 DEF Stored, Live
<1>5. /\ pc'[p] = "done" /\ \A q \in Requests : q # p => pc'[q] = pc[q]
  BY <1>0, <1>3 DEF Places
<1>6. << uses[p], p >> \in Taken /\ Taken' = Taken \ {<< uses[p], p >>}
  BY <1>1, <1>3, <1>5 DEF Taken
<1>7. Heirs' = Heirs \cup {<< uses[p], p >>}
  BY <1>1, <1>3 DEF Heirs
<1>8. Grants!Exchange(uses[p], p)
  BY <1>1, <1>3, <1>4, <1>6, <1>7 DEF Grants!Exchange
<1> QED BY <1>1, <1>2, <1>8 DEF Grants!Next

\* Claims are invisible.
LEMMA GrantClaim ==
    ASSUME BrokerInv, NEW p \in Requests, Claim(p) \/ ReleaseClaim(p)
    PROVE  UNCHANGED Grants!storeVars
<1> USE Kinds, BrokerAssumption
<1>0. Sorts /\ Places /\ Presented
  BY DEF BrokerInv
<1>1. /\ p \in Refreshers /\ p \notin issued
      /\ UNCHANGED << codes, issued, revoked >>
  BY <1>0 DEF Claim, ReleaseClaim, At, Places, PlacesOf, Presented, history
<1>2. \A t \in Tokens : tokens'[t].exp = tokens[t].exp
  <2>1. \A t \in Tokens : tokens[t] \in Rows
    BY <1>0 DEF Sorts
  <2>2. CASE Claim(p)
    BY <1>0, <2>1, <2>2 DEF Claim, Sorts, Rows
  <2>3. CASE ReleaseClaim(p)
    BY <1>0, <2>1, <2>3 DEF ReleaseClaim, Sorts, Rows
  <2> QED BY <2>2, <2>3
<1>3. /\ \A q \in Requests : q # p => uses'[q] = uses[q] /\ pc'[q] = pc[q]
  BY <1>0 DEF Claim, ReleaseClaim, Goto, Sorts, Places, locals
<1>4. Stored' = Stored
  BY <1>1, <1>2, StoredSame
<1>5. Taken' = Taken
  BY <1>1, <1>3, TakenSame
<1>6. Heirs' = Heirs
  BY <1>1, <1>3, HeirsSame
<1> QED BY <1>1, <1>4, <1>5, <1>6 DEF Grants!storeVars

LEMMA GrantRotate ==
    ASSUME BrokerInv, NEW p \in Requests, Rotate(p)
    PROVE  [Grants!Next]_(Grants!storeVars)
<1> USE Kinds, BrokerAssumption
<1>0. Sorts /\ Places /\ Presented
  BY DEF BrokerInv
<1>1. /\ pc[p] = "rotating" /\ p \in Refreshers /\ p \notin issued
      /\ UNCHANGED << codes, uses, revoked >>
  BY <1>0 DEF Rotate, At, locals, Places, PlacesOf, Presented
<1>2. uses[p] \in Tokens /\ uses[p] # p
  BY <1>0, <1>1 DEF Presented
<1>3. PICK at \in ReadTimes :
          \/ /\ tokens[uses[p]].exp > at
             /\ tokens' = [tokens EXCEPT
                              ![uses[p]] = NoRow,
                              ![p] = [NoRow EXCEPT !.exp = at + TokenTTL]]
             /\ issued' = issued \cup {p}
             /\ Goto(p, "done")
          \/ /\ Goto(p, "releasing")
             /\ UNCHANGED << tokens, issued >>
  BY DEF Rotate
<1>4. CASE Goto(p, "releasing") /\ UNCHANGED << tokens, issued >>
  BY <1>0, <1>1, <1>4, GrantControlStep DEF Goto, HasCode, Places
<1>5. CASE /\ tokens[uses[p]].exp > at
           /\ tokens' = [tokens EXCEPT
                            ![uses[p]] = NoRow,
                            ![p] = [NoRow EXCEPT !.exp = at + TokenTTL]]
           /\ issued' = issued \cup {p}
           /\ Goto(p, "done")
  <2>1. at \in Nat
    BY <1>0 DEF ReadTimes, Sorts
  <2>2. uses[p] \in Stored
    BY <1>0, <1>2, <1>5, <2>1 DEF Stored, Live, Sorts, Rows
  <2>3. /\ tokens'[p].exp > 0 /\ ~ tokens'[uses[p]].exp > 0
        /\ \A t \in Tokens \ {p, uses[p]} : tokens'[t] = tokens[t]
    BY <1>0, <1>1, <1>2, <1>5, <2>1 DEF Sorts, NoRow
  <2>4. Stored' = (Stored \ {uses[p]}) \cup {p}
    BY <1>1, <1>2, <2>3 DEF Stored, Live
  <2>5. Taken' = Taken
    BY <1>0, <1>1, <1>5, TakenSame DEF Places, Goto
  <2>6. Heirs' = Heirs \cup {<< uses[p], p >>}
    BY <1>1, <1>5 DEF Heirs
  <2>7. Grants!Rotate(uses[p], p)
    BY <1>1, <1>2, <1>5, <2>2, <2>4, <2>5, <2>6 DEF Grants!Rotate
  <2> QED BY <1>1, <1>2, <2>7 DEF Grants!Next
<1> QED BY <1>3, <1>4, <1>5

LEMMA GrantInvalidate ==
    ASSUME BrokerInv, NEW p \in Requests, InvalidateCredential(p) \/ LateDelete(p)
    PROVE  [Grants!Next]_(Grants!storeVars)
<1> USE Kinds, BrokerAssumption
<1>0. Sorts /\ Places /\ Presented
  BY DEF BrokerInv
<1>1. /\ p \notin Redeemers /\ UNCHANGED << uses, issued >>
      /\ \A q \in Requests : q # p => pc'[q] = pc[q]
      /\ pc'[p] \notin HasCode
  <2>1. p \in Refreshers \cup Outbounds \cup Revokers /\ UNCHANGED << uses, issued >>
    BY <1>0 DEF InvalidateCredential, LateDelete, At, Places, PlacesOf, locals
  <2>2. pc'[p] \notin HasCode /\ \A q \in Requests : q # p => pc'[q] = pc[q]
    <3>1. pc \in [Requests -> PCs]
      BY <1>0 DEF Places
    <3> QED BY <3>1 DEF InvalidateCredential, LateDelete, Goto, Failed, HasCode
  <2> QED BY <2>1, <2>2
<1>2. CASE UNCHANGED << tables, revoked >>
  BY <1>1, <1>2, GrantControlStep DEF tables
<1>3. CASE Invalidate(p)
  <2>1. /\ \A t \in Tokens : ~ tokens'[t].exp > 0
        /\ \A c \in Callbacks : ~ codes'[c] > 0
    BY <1>3 DEF Invalidate, NoRow
  <2>2. Stored' = {}
    BY <2>1 DEF Stored, Live
  <2>3. revoked' = revoked \cup (Stored \cap Tokens)
    <3>1. Stored \cap Tokens = {t \in Tokens : Live(t)}
      BY DEF Stored
    <3> QED BY <1>3, <3>1 DEF Invalidate
  <2>4. Taken' = Taken
    BY <1>1, TakenSame
  <2>5. Heirs' = Heirs
    BY <1>1, HeirsSame
  <2>6. CASE Stored \cap Tokens = {}
    <3>1. Grants!Lapse
      BY <1>1, <2>2, <2>3, <2>4, <2>5, <2>6 DEF Grants!Lapse
    <3> QED BY <3>1 DEF Grants!Next
  <2>7. CASE Stored \cap Tokens # {}
    <3>1. Stored' = Stored \ ((Stored \cap Tokens) \cup Callbacks)
      BY <2>2 DEF Stored
    <3>2. Grants!Revoke
      BY <1>1, <2>3, <2>4, <2>5, <2>7, <3>1 DEF Grants!Revoke
    <3> QED BY <3>2 DEF Grants!Next
  <2> QED BY <2>6, <2>7
<1>4. Invalidate(p) \/ UNCHANGED << tables, revoked >>
  BY DEF InvalidateCredential, LateDelete
<1> QED BY <1>2, <1>3, <1>4

LEMMA GrantFindToken ==
    ASSUME BrokerInv, NEW p \in Requests, FindToken(p)
    PROVE  UNCHANGED Grants!storeVars
<1> USE Kinds, BrokerAssumption
<1>0. Sorts /\ Places
  BY DEF BrokerInv
<1>1. p \notin Tokens /\ UNCHANGED << codes, tokens, issued, revoked >>
  BY DEF FindToken, tables, history
<1>2. \A q \in Requests : q # p => uses'[q] = uses[q] /\ pc'[q] = pc[q]
  BY <1>0 DEF FindToken, Goto, Sorts, Places
<1>3. Stored' = Stored /\ Taken' = Taken /\ Heirs' = Heirs
  BY <1>1, <1>2, StoredSame, TakenSame, HeirsSame
<1> QED BY <1>1, <1>3 DEF Grants!storeVars

LEMMA GrantRevokeToken ==
    ASSUME BrokerInv, NEW p \in Requests, RevokeToken(p)
    PROVE  [Grants!Next]_(Grants!storeVars)
<1> USE Kinds, BrokerAssumption
<1>0. Sorts /\ Places /\ Presented
  BY DEF BrokerInv
<1>1. /\ pc[p] = "found" /\ p \in Clients
      /\ UNCHANGED << codes, uses, issued >> /\ pc' = [pc EXCEPT ![p] = "done"]
  BY <1>0 DEF RevokeToken, At, Goto, Places, PlacesOf, locals
<1>2. uses[p] \in Tokens /\ p \notin Tokens
  BY <1>0, <1>1 DEF Presented
<1>3. CASE UNCHANGED << tokens, revoked >>
  BY <1>0, <1>1, <1>3, GrantControlStep DEF HasCode, Places
<1>4. CASE /\ revoked' = revoked \cup {t \in {uses[p]} : Live(t)}
           /\ tokens' = [tokens EXCEPT ![uses[p]] = NoRow]
  <2>1. /\ ~ tokens'[uses[p]].exp > 0
        /\ \A t \in Tokens : t # uses[p] => tokens'[t] = tokens[t]
    BY <1>0, <1>2, <1>4 DEF Sorts, NoRow
  <2>2. Stored' = Stored \ {uses[p]}
    BY <1>1, <1>2, <2>1 DEF Stored, Live
  <2>3. Taken' = Taken /\ Heirs' = Heirs
    BY <1>0, <1>1, <1>2, TakenSame, HeirsSame DEF Places
  <2>4. CASE Live(uses[p])
    <3>1. uses[p] \in Stored \cap Tokens
      BY <1>2, <2>4 DEF Stored
    <3>2. revoked' = revoked \cup {uses[p]}
      BY <1>4, <2>4
    <3>3. Grants!Revoke
      BY <1>1, <2>2, <2>3, <3>1, <3>2 DEF Grants!Revoke
    <3> QED BY <3>3 DEF Grants!Next
  <2>5. CASE ~Live(uses[p])
    <3>1. Grants!Lapse
      BY <1>1, <1>4, <2>2, <2>3, <2>5 DEF Grants!Lapse
    <3> QED BY <3>1 DEF Grants!Next
  <2> QED BY <2>4, <2>5
<1> QED BY <1>3, <1>4 DEF RevokeToken

LEMMA GrantCleanup ==
    ASSUME BrokerInv, Cleanup
    PROVE  Grants!Next
<1>0. Sorts
  BY DEF BrokerInv
<1>1. UNCHANGED << pc, uses, issued, revoked >>
  BY DEF Cleanup, locals, history
<1>2. /\ \A c \in Callbacks : codes'[c] \in {codes[c], 0}
      /\ \A t \in Tokens : tokens'[t] \in {tokens[t], NoRow}
  BY DEF Cleanup
<1>3. Stored' \subseteq Stored
  BY <1>2 DEF Stored, Live, NoRow
<1>4. Taken' = Taken /\ Heirs' = Heirs
  BY <1>1, TakenSame, HeirsSame
<1>5. Grants!Lapse
  BY <1>1, <1>3, <1>4 DEF Grants!Lapse
<1> QED BY <1>5 DEF Grants!Next

LEMMA GrantStep ==
    ASSUME BrokerInv, [Next]_vars
    PROVE  [Grants!Next]_(Grants!storeVars)
<1>1. ASSUME NEW p \in Requests, Step(p) PROVE [Grants!Next]_(Grants!storeVars)
  BY <1>1, GrantControlActions, GrantInsertCode, GrantRedeemCode, GrantInsertToken,
     GrantClaim, GrantRotate, GrantInvalidate, GrantFindToken, GrantRevokeToken
     DEF Step
<1>2. CASE Cleanup
  BY <1>2, GrantCleanup
<1>3. CASE GoogleRevokes \/ Tick \/ Quiet \/ UNCHANGED vars
  <2>1. UNCHANGED << codes, tokens, pc, uses, issued, revoked >>
    BY <1>3 DEF GoogleRevokes, Tick, Quiet, vars, tables, locals, history
  <2>2. Stored' = Stored /\ Taken' = Taken /\ Heirs' = Heirs
    BY <2>1, StoredSame, TakenSame, HeirsSame
  <2> QED BY <2>1, <2>2 DEF Grants!storeVars
<1> QED BY <1>1, <1>2, <1>3 DEF Next

\* Codes and refresh tokens, which many statements of racing requests read and
\* write, behave like the grants of a store whose operations are atomic; what
\* GrantStoreProofs proves of such a store holds of them.
THEOREM BrokerImplementsGrantStore == Spec => ImplementsGrantStore
<1>1. Init => Grants!Init
  <2> SUFFICES ASSUME Init PROVE Grants!Init
    OBVIOUS
  <2>1. Stored = {}
    BY DEF Init, Stored, Live, NoRow
  <2>2. Taken = {} /\ Heirs = {}
    BY Kinds DEF Init, Taken, Heirs
  <2> QED BY <2>1, <2>2 DEF Init, Grants!Init
<1>2. BrokerInv /\ [Next]_vars => [Grants!Next]_(Grants!storeVars)
  BY GrantStep
<1> QED
  BY <1>1, <1>2, BrokerInvariant, PTL DEF Spec, ImplementsGrantStore, Grants!Spec

\* What GrantStoreProofs proves, for the grants of the broker.
Store == INSTANCE GrantStoreProofs WITH
    Codes <- Callbacks, live <- Stored, taken <- Taken, heirs <- Heirs

\* A code or refresh token that was used, revoked, invalidated or cleaned up never
\* returns to its table, whichever statements are still under way.
THEOREM BrokerGoneForGood == Spec => Grants!GoneForGood
<1>1. Grants!Init => Store!Init
  BY DEF Grants!Init, Store!Init
<1>2. Grants!Next => Store!Next
  BY DEF Grants!Next, Store!Next, Grants!Lapse, Grants!Issue, Grants!Take,
     Grants!Exchange, Grants!Abandon, Grants!Rotate, Grants!Revoke, Store!Lapse,
     Store!Issue, Store!Take, Store!Exchange, Store!Abandon, Store!Rotate,
     Store!Revoke
<1>3. [Grants!Next]_(Grants!storeVars) => [Store!Next]_(Store!storeVars)
  BY <1>2 DEF Grants!storeVars, Store!storeVars
<1>4. [\A g \in issued : g \notin Stored => g \notin Stored']_(Store!storeVars)
       => [\A g \in issued : g \notin Stored => g \notin Stored']_(Grants!storeVars)
  BY DEF Grants!storeVars, Store!storeVars
<1> QED
  BY <1>1, <1>3, <1>4, BrokerImplementsGrantStore, Store!StoreGoneForGood, PTL
     DEF ImplementsGrantStore, Grants!Spec, Store!Spec, Grants!GoneForGood,
         Store!GoneForGood

=============================================================================
