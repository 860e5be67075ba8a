--------------------------- MODULE GrantStoreProofs ---------------------------
(* What follows from the specification of the grant store, for every set of    *)
(* codes and tokens, and so for everything that implements it.                 *)
EXTENDS GrantStore, TLAPS

\* A grant is in the store, with one request, exchanged, or gone: never two of
\* these.
StoreInv ==
    /\ live \subseteq issued
    /\ revoked \subseteq issued \ live
    /\ taken \subseteq (issued \ live) \X Tokens
    /\ heirs \subseteq (issued \ live) \X issued
    /\ \A g \in issued : \A t, u \in Tokens \cup issued :
          /\ << g, t >> \in taken /\ << g, u >> \in taken => t = u
          /\ << g, t >> \in heirs /\ << g, u >> \in heirs => t = u
          /\ << g, t >> \in heirs => << g, u >> \notin taken
          /\ g \in revoked => << g, t >> \notin heirs /\ << g, t >> \notin taken

LEMMA StoreInvInit == Init => StoreInv
BY DEF Init, StoreInv

LEMMA StoreInvNext == StoreInv /\ [Next]_storeVars => StoreInv'
<1> SUFFICES ASSUME StoreInv, [Next]_storeVars PROVE StoreInv'
    OBVIOUS
<1> USE DEF StoreInv
<1>1. CASE UNCHANGED storeVars
    BY <1>1 DEF storeVars
<1>2. CASE Lapse
    BY <1>2 DEF Lapse
<1>3. ASSUME NEW c \in Codes, Issue(c) PROVE StoreInv'
    BY <1>3 DEF Issue
<1>4. ASSUME NEW c \in Codes, NEW t \in Tokens, Take(c, t) PROVE StoreInv'
    BY <1>4 DEF Take
<1>5. ASSUME NEW c \in Codes, NEW t \in Tokens, Exchange(c, t) PROVE StoreInv'
    BY <1>5 DEF Exchange
<1>6. ASSUME NEW c \in Codes, NEW t \in Tokens, Abandon(c, t) PROVE StoreInv'
    BY <1>6 DEF Abandon
<1>7. ASSUME NEW t \in Tokens, NEW u \in Tokens, Rotate(t, u) PROVE StoreInv'
    BY <1>7 DEF Rotate
<1>8. CASE Revoke
    BY <1>8 DEF Revoke
<1> QED
    BY <1>1, <1>2, <1>3, <1>4, <1>5, <1>6, <1>7, <1>8 DEF Next

LEMMA StoreInvariant == Spec => []StoreInv
BY StoreInvInit, StoreInvNext, PTL DEF Spec

\* In such a store a code or a token is exchanged for at most one token, and not
\* while it is in the store or another request has it.
THEOREM StoreOneHeir == Spec => []OneHeir
<1>1. StoreInv => OneHeir
    BY DEF StoreInv, OneHeir
<1> QED
    BY <1>1, StoreInvariant, PTL

\* In such a store a revoked token is never redeemed.
THEOREM StoreRevokedFinal == Spec => []RevokedFinal
<1>1. StoreInv => RevokedFinal
    BY DEF StoreInv, RevokedFinal
<1> QED
    BY <1>1, StoreInvariant, PTL

\* In such a store nothing returns that was used, revoked or lapsed.
THEOREM StoreGoneForGood == Spec => GoneForGood
<1>1. StoreInv /\ [Next]_storeVars
        => [\A g \in issued : g \notin live => g \notin live']_storeVars
    BY DEF StoreInv, Next, Lapse, Issue, Take, Exchange, Abandon, Rotate, Revoke,
           storeVars
<1> QED
    BY <1>1, StoreInvariant, PTL DEF Spec, GoneForGood
=============================================================================
