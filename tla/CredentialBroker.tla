-------------------------- MODULE CredentialBroker --------------------------
(***************************************************************************)
(* The OAuth grants Labby issues and the Google credential behind them     *)
(* (crates/labby-auth/src: token.rs, authorize.rs, sqlite.rs,              *)
(* sqlite/tokens.rs, sqlite/google_credentials.rs, google_refresh.rs,      *)
(* upstream/manager.rs and upstream/google_store.rs), for one Google       *)
(* subject: rows, grants and the lock are all keyed by the subject.        *)
(*                                                                         *)
(* A request is one HTTP request or one outbound connection.  Each SQL     *)
(* statement or transaction, each answer of Google and each lock           *)
(* acquisition is one step; other requests run between any two, and a      *)
(* request may be cancelled between any two.  A request issues at most one *)
(* code or token, which bears the request's name.                          *)
(***************************************************************************)
EXTENDS Integers, FiniteSets

CONSTANTS
    Callbacks,      \* Google callbacks of inbound logins (authorize.rs)
    Upgrades,       \* Google callbacks of upstream authorizations
    Redeemers,      \* authorization_code grants
    Refreshers,     \* refresh_token grants
    Outbounds,      \* outbound refreshes of the shared credential
    Revokers,       \* explicit revocations of the shared credential
    Clients,        \* POST /revoke of a Labby refresh token
    None,           \* no request, no code, no token
    CodeTTL, TokenTTL, Lease,
    LateWrites,     \* TRUE: a statement may outlive its cancelled request
    MaxNow,         \* bound: the clock
    MaxDelay,       \* bound: ticks between now_unix() and its statement
    MaxMinted       \* bound: refresh tokens Google issues

Consents == Callbacks \cup Upgrades
Tokens == Redeemers \cup Refreshers
Requests == Consents \cup Tokens \cup Outbounds \cup Revokers \cup Clients

ASSUME BrokerAssumption ==
    /\ None \notin Requests
    /\ Consents \cap Tokens = {} /\ Callbacks \cap Upgrades = {}
    /\ Redeemers \cap Refreshers = {} /\ Outbounds \cap Revokers = {}
    /\ (Outbounds \cup Revokers) \cap (Consents \cup Tokens) = {}
    /\ Clients \cap (Consents \cup Tokens \cup Outbounds \cup Revokers) = {}
    /\ {CodeTTL, TokenTTL, Lease, MaxNow, MaxDelay, MaxMinted} \subseteq Nat
    /\ CodeTTL > 0 /\ TokenTTL > 0 /\ Lease > 0 /\ MaxNow > 0
    /\ LateWrites \in BOOLEAN

\* 0 is "no refresh token" in a Google response, generation 0 "no row".
NoCred == [gen |-> 0, rt |-> 0, scopes |-> {}]
NoRow == [exp |-> 0, claim |-> None, claimExp |-> 0]
Keys == {"subject", "unbound"}
RevokeAttempts == 4

VARIABLES
    now,
    cred,       \* the row of google_provider_credentials
    codes,      \* authorization_codes: expiry per code, 0 if absent
    tokens,     \* refresh_tokens
    locks,      \* GOOGLE_PROVIDER_REFRESH_LOCKS: the holder of each lock
    minted,     \* refresh tokens Google has issued
    valid,      \* those Google still accepts
    pc,
    uses,       \* the code or token a request presents
    seen,       \* the credential row a request read
    tried,      \* the refresh token a request last presented to Google
    got,        \* the refresh token in Google's answer, 0 if it has none
    key,        \* the lock a request uses
    attempt,    \* retries left
    issued,     \* history: codes and tokens ever inserted
    revoked     \* history: tokens deleted by an invalidation or by /revoke

tables == << cred, codes, tokens >>
google == << minted, valid >>
locals == << uses, seen, tried, got, key, attempt >>
history == << issued, revoked >>
vars == << now, tables, locks, google, pc, locals, history >>

Init ==
    /\ now = 1
    /\ cred = NoCred
    /\ codes = [c \in Callbacks |-> 0]
    /\ tokens = [t \in Tokens |-> NoRow]
    /\ locks = [k \in Keys |-> None]
    /\ minted = 0 /\ valid = {}
    /\ pc = [p \in Requests |-> "start"]
    /\ uses = [p \in Requests |-> None]
    /\ seen = [p \in Requests |-> NoCred]
    /\ tried = [p \in Requests |-> 0]
    /\ got = [p \in Requests |-> 0]
    /\ key = [p \in Requests |-> "subject"]
    /\ attempt = [p \in Requests |-> 0]
    /\ issued = {} /\ revoked = {}

Goto(p, at) == pc' = [pc EXCEPT ![p] = at]
At(p, at) == pc[p] = at
Live(t) == tokens[t].exp > 0

\* A statement uses the time its caller read before it waited for a connection.
ReadTimes == {t \in now - MaxDelay .. now : t >= 1}

\* Dropping the guard of a request that may hold its lock.
Unlocked(p) == [k \in Keys |-> IF locks[k] = p THEN None ELSE locks[k]]

-----------------------------------------------------------------------------
\* The credential row

\* upsert_google_provider_token_bundle
Upserted(rt, scopes) == [gen |-> cred.gen + 1, rt |-> rt, scopes |-> scopes]

\* Mutants of Invalidate: the refresh tokens of the subject are forgotten; the
\* generation is not compared.
InvalidateKeepsTokens(p) ==
    /\ cred # NoCred /\ cred.gen = seen[p].gen
    /\ cred' = NoCred
    /\ codes' = [c \in Callbacks |-> 0]
    /\ UNCHANGED << tokens, revoked >>

InvalidateAnyGeneration(p) ==
    /\ cred # NoCred
    /\ cred' = NoCred
    /\ codes' = [c \in Callbacks |-> 0]
    /\ tokens' = [t \in Tokens |-> NoRow]
    /\ revoked' = revoked \cup {t \in Tokens : Live(t)}

\* invalidate_google_provider_credential of the generation p read, when that is
\* still the stored one: the row and every grant of the subject are deleted.
Invalidate(p) ==
    /\ cred # NoCred /\ cred.gen = seen[p].gen
    /\ cred' = NoCred
    /\ codes' = [c \in Callbacks |-> 0]
    /\ tokens' = [t \in Tokens |-> NoRow]
    /\ revoked' = revoked \cup {t \in Tokens : Live(t)}

StaleGeneration(p) == cred = NoCred \/ cred.gen # seen[p].gen

-----------------------------------------------------------------------------
\* Consent: the Google callback (authorize.rs) and the upstream authorization
\* callback with GoogleProviderCredentialStore::save.  Neither takes the lock.

\* exchange_code.  A consent grants the scope named after it; a later one may
\* come without a refresh token.
ExchangeCode(p) ==
    /\ At(p, "start") /\ p \in Consents
    /\ \/ /\ minted < MaxMinted
          /\ minted' = minted + 1
          /\ valid' = valid \cup {minted'}
          /\ got' = [got EXCEPT ![p] = minted']
       \/ UNCHANGED << minted, valid, got >>
    /\ Goto(p, "exchanged")
    /\ UNCHANGED << now, tables, locks, uses, seen, tried, key, attempt, history >>

\* find_google_provider_credential, credential_row
ReadExisting(p) ==
    /\ At(p, "exchanged")
    /\ seen' = [seen EXCEPT ![p] = cred]
    /\ Goto(p, "merging")
    /\ UNCHANGED << now, tables, locks, google, uses, tried, got, key, attempt,
                    history >>

\* Mutant of StoreConsent: a bundle without a refresh token is stored.
StoreConsentAccessOnly(p) ==
    /\ At(p, "merging")
    /\ cred' = Upserted(IF got[p] # 0 THEN got[p] ELSE seen[p].rt,
                        seen[p].scopes \cup {p})
    /\ Goto(p, IF p \in Callbacks THEN "stored" ELSE "done")
    /\ UNCHANGED << now, codes, tokens, locks, google, locals, history >>

\* The bundle is stored: Google's refresh token, else the one read, merged
\* scopes.  Without either the request is refused.
StoreConsent(p) ==
    /\ At(p, "merging")
    /\ LET rt == IF got[p] # 0 THEN got[p] ELSE seen[p].rt IN
       \/ /\ rt # 0
          /\ cred' = Upserted(rt, seen[p].scopes \cup {p})
          /\ Goto(p, IF p \in Callbacks THEN "stored" ELSE "done")
       \/ /\ rt = 0
          /\ Goto(p, "done")
          /\ UNCHANGED cred
    /\ UNCHANGED << now, codes, tokens, locks, google, locals, history >>

\* insert_auth_code
InsertCode(p) ==
    /\ At(p, "stored")
    /\ codes' = [codes EXCEPT ![p] = now + CodeTTL]
    /\ issued' = issued \cup {p}
    /\ Goto(p, "done")
    /\ UNCHANGED << now, cred, tokens, locks, google, locals, revoked >>

-----------------------------------------------------------------------------
\* authorization_code_grant

\* redeem_auth_code: DELETE ... RETURNING
RedeemCode(p) ==
    /\ At(p, "start") /\ p \in Redeemers
    /\ \E c \in issued \cap Callbacks, t \in ReadTimes :
          \/ /\ codes[c] > t
             /\ codes' = [codes EXCEPT ![c] = 0]
             /\ uses' = [uses EXCEPT ![p] = c]
             /\ Goto(p, "redeemed")
          \/ /\ codes[c] <= t
             /\ Goto(p, "done")
             /\ UNCHANGED << codes, uses >>
    /\ UNCHANGED << now, cred, tokens, locks, google, seen, tried, got, key,
                    attempt, history >>

\* validate_authorization_code_row, then has_google_provider_credential_for_subject
CheckCredential(p) ==
    /\ At(p, "redeemed")
    /\ \/ cred # NoCred /\ Goto(p, "checked")
       \/ Goto(p, "done")           \* another client, verifier or resource
    /\ UNCHANGED << now, tables, locks, google, locals, history >>

\* upsert_refresh_token
InsertToken(p) ==
    /\ At(p, "checked")
    /\ tokens' = [tokens EXCEPT ![p] = [NoRow EXCEPT !.exp = now + TokenTTL]]
    /\ issued' = issued \cup {p}
    /\ Goto(p, "done")
    /\ UNCHANGED << now, cred, codes, locks, google, locals, revoked >>

-----------------------------------------------------------------------------
\* refresh_token_grant

\* claim_refresh_token
Claim(p) ==
    /\ At(p, "start") /\ p \in Refreshers
    /\ \E t \in issued \cap Tokens, at \in ReadTimes :
          \/ /\ tokens[t].exp > at
             /\ tokens[t].claim = None \/ tokens[t].claimExp <= at
             /\ tokens' = [tokens EXCEPT ![t].claim = p,
                                         ![t].claimExp = at + Lease]
             /\ uses' = [uses EXCEPT ![p] = t]
             /\ Goto(p, "claimed")
          \/ /\ \/ tokens[t].exp <= at
                \/ tokens[t].claim # None /\ tokens[t].claimExp > at
             /\ Goto(p, "done")
             /\ UNCHANGED << tokens, uses >>
    /\ UNCHANGED << now, cred, codes, locks, google, seen, tried, got, key,
                    attempt, history >>

\* complete_claimed_refresh checks the client and the resource.
CheckClaim(p) ==
    /\ At(p, "claimed")
    /\ \/ Goto(p, "locking") \/ Goto(p, "releasing")
    /\ UNCHANGED << now, tables, locks, google, locals, history >>

\* Mutant of ReleaseClaim: the row is written back, not updated where it is.
ReleaseClaimUpserts(p) ==
    /\ At(p, "releasing")
    /\ tokens' = [tokens EXCEPT ![uses[p]] = [NoRow EXCEPT !.exp = now + TokenTTL]]
    /\ Goto(p, "done")
    /\ UNCHANGED << now, cred, codes, locks, google, locals, history >>

\* release_refresh_claim
ReleaseClaim(p) ==
    /\ At(p, "releasing")
    /\ tokens' = IF tokens[uses[p]].claim = p
                 THEN [tokens EXCEPT ![uses[p]].claim = None,
                                     ![uses[p]].claimExp = 0]
                 ELSE tokens
    /\ Goto(p, "done")
    /\ UNCHANGED << now, cred, codes, locks, google, locals, history >>

\* Mutant of Rotate: the count of deleted rows is not looked at.
RotateUnchecked(p) ==
    /\ At(p, "rotating")
    /\ tokens' = [tokens EXCEPT ![uses[p]] = NoRow,
                                ![p] = [NoRow EXCEPT !.exp = now + TokenTTL]]
    /\ issued' = issued \cup {p}
    /\ Goto(p, "done")
    /\ UNCHANGED << now, cred, codes, locks, google, locals, revoked >>

\* rotate_claimed_refresh_token
Rotate(p) ==
    /\ At(p, "rotating")
    /\ \E at \in ReadTimes :
          LET row == tokens[uses[p]] IN
          \/ /\ row.claim = p /\ row.claimExp > at /\ row.exp > at
             /\ tokens' = [tokens EXCEPT
                              ![uses[p]] = NoRow,
                              ![p] = [NoRow EXCEPT !.exp = at + TokenTTL]]
             /\ issued' = issued \cup {p}
             /\ Goto(p, "done")
          \/ /\ ~(row.claim = p /\ row.claimExp > at /\ row.exp > at)
             /\ Goto(p, "releasing")
             /\ UNCHANGED << tokens, issued >>
    /\ UNCHANGED << now, cred, codes, locks, google, locals, revoked >>

-----------------------------------------------------------------------------
\* Using the shared credential: inbound refresh, outbound refresh, revocation

\* Where a request goes when its use of the credential failed.
Failed(p) == IF p \in Refreshers THEN "releasing" ELSE "done"

\* acquire_refresh_lock: the lock is chosen by whether a row exists now.
ResolveLock(p) ==
    /\ At(p, "start") /\ p \in Outbounds \cup Revokers
    /\ key' = [key EXCEPT ![p] = IF cred = NoCred THEN "unbound" ELSE "subject"]
    /\ Goto(p, "locking")
    /\ UNCHANGED << now, tables, locks, google, uses, seen, tried, got, attempt,
                    history >>

Lock(p) ==
    /\ At(p, "locking")
    /\ locks[key[p]] = None
    /\ locks' = [locks EXCEPT ![key[p]] = p]
    /\ attempt' = [attempt EXCEPT ![p] =
                      IF p \in Revokers THEN RevokeAttempts ELSE 2]
    /\ Goto(p, "loading")
    /\ UNCHANGED << now, tables, google, uses, seen, tried, got, key, history >>

\* find_google_provider_credential; load of the rmcp credential store
Load(p) ==
    /\ At(p, "loading")
    /\ \/ /\ cred # NoCred
          /\ seen' = [seen EXCEPT ![p] = cred]
          /\ Goto(p, IF p \in Revokers THEN "invalidating" ELSE "calling")
          /\ UNCHANGED locks
       \/ /\ cred = NoCred
          /\ Goto(p, Failed(p))
          /\ locks' = Unlocked(p)
          /\ UNCHANGED seen
    /\ UNCHANGED << now, tables, google, uses, tried, got, key, attempt, history >>

\* Google answers a refresh: with tokens, or with a terminal rejection, or the
\* call fails for another reason.  The inbound path treats tokens of another
\* subject like a rejection that it does not retry.
CallGoogle(p) ==
    /\ At(p, "calling")
    /\ tried' = [tried EXCEPT ![p] = seen[p].rt]
    /\ \/ /\ seen[p].rt \in valid
          /\ \/ /\ minted < MaxMinted
                /\ minted' = minted + 1
                /\ valid' = valid \cup {minted'}
                /\ got' = [got EXCEPT ![p] = minted']
             \/ /\ got' = [got EXCEPT ![p] = 0]
                /\ UNCHANGED << minted, valid >>
          /\ Goto(p, IF p \in Refreshers THEN "saving" ELSE "rereading")
          /\ UNCHANGED << locks, attempt >>
       \/ /\ seen[p].rt \notin valid
          /\ attempt' = [attempt EXCEPT ![p] = @ - 1]
          /\ Goto(p, IF p \in Refreshers THEN "invalidating" ELSE "rejected")
          /\ UNCHANGED << minted, valid, got, locks >>
       \/ /\ p \in Refreshers /\ seen[p].rt \in valid
          /\ attempt' = [attempt EXCEPT ![p] = 0]
          /\ Goto(p, "invalidating")
          /\ UNCHANGED << minted, valid, got, locks >>
       \/ /\ Goto(p, Failed(p))
          /\ locks' = Unlocked(p)
          /\ UNCHANGED << minted, valid, got, attempt >>
    /\ UNCHANGED << now, tables, uses, seen, key, history >>

\* The inbound refresh stores the bundle over the row it read before the call.
\* Google's answer names no scope (the field is optional), so the scopes are
\* those of that row.
SaveInbound(p) ==
    /\ At(p, "saving")
    /\ cred' = Upserted(IF got[p] # 0 THEN got[p] ELSE seen[p].rt, seen[p].scopes)
    /\ locks' = Unlocked(p)
    /\ Goto(p, "rotating")
    /\ UNCHANGED << now, codes, tokens, google, locals, history >>

\* GoogleProviderCredentialStore::save reads the row again ...
RereadOutbound(p) ==
    /\ At(p, "rereading")
    /\ seen' = [seen EXCEPT ![p] = cred]
    /\ Goto(p, "resaving")
    /\ UNCHANGED << now, tables, locks, google, uses, tried, got, key, attempt,
                    history >>

\* ... and stores the bundle over that.
SaveOutbound(p) ==
    /\ At(p, "resaving")
    /\ LET rt == IF got[p] # 0 THEN got[p] ELSE seen[p].rt IN
       cred' = IF rt # 0 THEN Upserted(rt, seen[p].scopes) ELSE cred
    /\ locks' = Unlocked(p)
    /\ Goto(p, "done")
    /\ UNCHANGED << now, codes, tokens, google, locals, history >>

\* map_refresh_error_and_maybe_invalidate reads the row that is stored now.
ReadRejected(p) ==
    /\ At(p, "rejected")
    /\ seen' = [seen EXCEPT ![p] = cred]
    /\ Goto(p, IF cred = NoCred THEN "done" ELSE "invalidating")
    /\ locks' = IF cred = NoCred THEN Unlocked(p) ELSE locks
    /\ UNCHANGED << now, tables, google, uses, tried, got, key, attempt, history >>

\* The compare-and-delete.  When a newer generation is stored, the inbound
\* refresh tries it once and the explicit revocation reads again.
InvalidateCredential(p) ==
    /\ At(p, "invalidating")
    /\ \/ /\ Invalidate(p)
          /\ locks' = Unlocked(p)
          /\ Goto(p, Failed(p))
          /\ UNCHANGED attempt
       \/ /\ StaleGeneration(p)
          /\ p \in Refreshers \cup Revokers
          /\ attempt[p] > (IF p \in Revokers THEN 1 ELSE 0)
          /\ attempt' = [attempt EXCEPT ![p] =
                            IF p \in Revokers THEN @ - 1 ELSE @]
          /\ Goto(p, "loading")
          /\ UNCHANGED << tables, locks, revoked >>
       \/ /\ StaleGeneration(p)
          /\ p \in Outbounds \/ attempt[p] <= (IF p \in Revokers THEN 1 ELSE 0)
          /\ locks' = Unlocked(p)
          /\ Goto(p, Failed(p))
          /\ UNCHANGED << tables, attempt, revoked >>
    /\ UNCHANGED << now, google, uses, seen, tried, got, key, issued >>

-----------------------------------------------------------------------------
\* POST /revoke of a Labby refresh token

\* find_refresh_token
FindToken(p) ==
    /\ At(p, "start") /\ p \in Clients
    /\ \E t \in issued \cap Tokens, at \in ReadTimes :
          \/ /\ tokens[t].exp > at
             /\ uses' = [uses EXCEPT ![p] = t]
             /\ Goto(p, "found")
          \/ /\ tokens[t].exp <= at
             /\ Goto(p, "done")
             /\ UNCHANGED uses
    /\ UNCHANGED << now, tables, locks, google, seen, tried, got, key, attempt,
                    history >>

\* revoke_refresh_token, or the client does not authenticate
RevokeToken(p) ==
    /\ At(p, "found")
    /\ \/ /\ revoked' = revoked \cup {t \in {uses[p]} : Live(t)}
          /\ tokens' = [tokens EXCEPT ![uses[p]] = NoRow]
       \/ UNCHANGED << tokens, revoked >>
    /\ Goto(p, "done")
    /\ UNCHANGED << now, cred, codes, locks, google, locals, issued >>

-----------------------------------------------------------------------------
\* The environment

\* cleanup_expired
Cleanup ==
    /\ codes' = [c \in Callbacks |-> IF codes[c] <= now THEN 0 ELSE codes[c]]
    /\ tokens' = [t \in Tokens |-> IF tokens[t].exp <= now THEN NoRow
                                   ELSE tokens[t]]
    /\ << codes', tokens' >> # << codes, tokens >>
    /\ UNCHANGED << now, cred, locks, google, pc, locals, history >>

\* The request is cancelled, or the gateway restarts: its guard is dropped and
\* what it stored stays.
Cancel(p) ==
    /\ pc[p] \notin {"start", "done"}
    /\ locks' = Unlocked(p)
    /\ Goto(p, "done")
    /\ UNCHANGED << now, tables, google, locals, history >>

\* The request is cancelled while a statement it submitted waits for a
\* connection: with_conn runs the statement on a blocking thread that nobody
\* cancels, so it takes effect after the guard is dropped.  Elsewhere this is a
\* step of the request followed by Cancel.
Detach(p) ==
    /\ LateWrites
    /\ \/ At(p, "saving") /\ Goto(p, "late save")
       \/ At(p, "resaving") /\ Goto(p, "late save")
       \/ At(p, "invalidating") /\ Goto(p, "late delete")
    /\ locks' = Unlocked(p)
    /\ UNCHANGED << now, tables, google, locals, history >>

LateSave(p) ==
    /\ At(p, "late save")
    /\ LET rt == IF got[p] # 0 THEN got[p] ELSE seen[p].rt IN
       cred' = IF rt # 0 THEN Upserted(rt, seen[p].scopes) ELSE cred
    /\ Goto(p, "done")
    /\ UNCHANGED << now, codes, tokens, locks, google, locals, history >>

LateDelete(p) ==
    /\ At(p, "late delete")
    /\ \/ Invalidate(p)
       \/ StaleGeneration(p) /\ UNCHANGED << tables, revoked >>
    /\ Goto(p, "done")
    /\ UNCHANGED << now, locks, google, locals, issued >>

\* The user withdraws consent at Google.
GoogleRevokes ==
    /\ valid # {}
    /\ valid' = {}
    /\ UNCHANGED << now, tables, locks, minted, pc, locals, history >>

Tick ==
    /\ now < MaxNow
    /\ now' = now + 1
    /\ UNCHANGED << tables, locks, google, pc, locals, history >>

\* Nothing is in flight: requests of other users are not part of the model.
Quiet ==
    /\ \A p \in Requests : pc[p] \in {"start", "done"}
    /\ UNCHANGED vars

Step(p) ==
    \/ ExchangeCode(p) \/ ReadExisting(p) \/ StoreConsent(p) \/ InsertCode(p)
    \/ RedeemCode(p) \/ CheckCredential(p) \/ InsertToken(p)
    \/ Claim(p) \/ CheckClaim(p) \/ ReleaseClaim(p) \/ Rotate(p)
    \/ ResolveLock(p) \/ Lock(p) \/ Load(p) \/ CallGoogle(p)
    \/ SaveInbound(p) \/ RereadOutbound(p) \/ SaveOutbound(p)
    \/ ReadRejected(p) \/ InvalidateCredential(p)
    \/ FindToken(p) \/ RevokeToken(p)
    \/ Cancel(p) \/ Detach(p) \/ LateSave(p) \/ LateDelete(p)

Next ==
    \/ \E p \in Requests : Step(p)
    \/ Cleanup \/ GoogleRevokes \/ Tick \/ Quiet

Spec == Init /\ [][Next]_vars

-----------------------------------------------------------------------------
\* Properties

PCs == {"start", "exchanged", "merging", "stored", "redeemed", "checked",
        "claimed", "locking", "loading", "calling", "saving", "rereading",
        "resaving", "rejected", "invalidating", "rotating", "releasing",
        "found", "late save", "late delete", "done"}

Creds == [gen : Nat, rt : 0 .. MaxMinted, scopes : SUBSET Consents]

TypeOK ==
    /\ now \in 1 .. MaxNow
    /\ cred \in Creds /\ (cred.gen = 0 <=> cred = NoCred) /\ (cred.rt = 0 <=> cred = NoCred)
    /\ codes \in [Callbacks -> 0 .. MaxNow + CodeTTL]
    /\ tokens \in [Tokens -> [exp : 0 .. MaxNow + TokenTTL,
                              claim : Refreshers \cup {None},
                              claimExp : 0 .. MaxNow + Lease]]
    /\ locks \in [Keys -> Requests \cup {None}]
    /\ minted \in 0 .. MaxMinted /\ valid \subseteq 1 .. minted
    /\ pc \in [Requests -> PCs]
    /\ uses \in [Requests -> Callbacks \cup Tokens \cup {None}]
    /\ seen \in [Requests -> Creds]
    /\ tried \in [Requests -> 0 .. MaxMinted]
    /\ got \in [Requests -> 0 .. MaxMinted]
    /\ key \in [Requests -> Keys]
    /\ attempt \in [Requests -> 0 .. RevokeAttempts]
    /\ issued \subseteq Callbacks \cup Tokens
    /\ revoked \subseteq Tokens

\* A code or a refresh token is redeemed for at most one new refresh token,
\* whatever requests race, leases run out or answers are lost (DELETE ...
\* RETURNING of redeem_auth_code, the claim check of rotate_claimed_refresh_token).
SingleUse ==
    \A t, u \in issued \cap Tokens : uses[t] = uses[u] => t = u

\* A refresh token that was revoked, by the client or with the Google
\* credential, is gone for good: a refresh that had already claimed it issues no
\* successor, and no later statement of any request brings it back.
RevokedStaysRevoked ==
    \A t \in revoked : ~Live(t) /\ \A u \in issued \cap Tokens : uses[u] # t

\* A rotation issues a token only while the Google credential exists: if the
\* credential is invalidated between the refresh and the rotation, the claimed
\* row is gone and the rotation fails (token.rs:997-1000).
RotationBacked ==
    [][\A p \in Refreshers : p \in issued' \ issued => cred # NoCred]_vars

\* "terminal failure deletes only the exact generation it observed"
\* (docs/design/GOOGLE_CREDENTIAL_BROKER.md:801): a refresh that Google rejected
\* never deletes a credential other than the one it presented.
DeletesWhatFailed ==
    [][\A p \in Refreshers \cup Outbounds :
          (/\ At(p, "invalidating") \/ At(p, "late delete")
           /\ cred # NoCred /\ cred' = NoCred /\ pc'[p] # pc[p])
              => cred.rt = tried[p]]_vars

\* The inbound path keeps that promise for as long as the grant it refreshes is
\* still stored, whatever an outbound refresh, a consent or a late statement does
\* to the credential meanwhile (token.rs:871 and 918): a deletion of the credential
\* takes the grant with it.  Once the grant is gone, revoked or expired and cleaned
\* up, a new consent may have stored a credential under the generation observed.
InboundDeletesWhatFailed ==
    [][\A p \in Refreshers :
          (/\ At(p, "invalidating") \/ At(p, "late delete")
           /\ cred # NoCred /\ cred' = NoCred /\ pc'[p] # pc[p]
           /\ Live(uses[p]))
              => cred.rt = tried[p]]_vars

\* Codes and refresh tokens behave like the grants of a store whose operations are
\* atomic (GrantStore), although each is a row that several statements of several
\* requests read and write: a code that a request took is exchanged by that
\* request or by nobody, a token is exchanged in the step that removes it, and a
\* grant that was used, revoked, invalidated or cleaned up never comes back
\* (sqlite/tokens.rs; SingleUse follows).
Stored == {c \in Callbacks : codes[c] > 0} \cup {t \in Tokens : Live(t)}
Taken == {<< uses[d], d >> : d \in {r \in Redeemers : pc[r] \in {"redeemed", "checked"}}}
Heirs == {<< uses[t], t >> : t \in issued \cap Tokens}

Grants == INSTANCE GrantStore WITH
    Codes <- Callbacks, live <- Stored, taken <- Taken, heirs <- Heirs

ImplementsGrantStore == Grants!Spec

=============================================================================
