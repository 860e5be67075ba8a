----------------------------- MODULE GrantStore -----------------------------
(***************************************************************************)
(* What the store of codes and refresh tokens promises, without rows,      *)
(* claims, leases, clocks or the Google credential: a code is taken by one *)
(* request, which may exchange it for one token; a token is exchanged for  *)
(* its successor in one step; and what leaves the store never returns.     *)
(* CredentialBroker implements this.                                       *)
(***************************************************************************)
CONSTANTS
    Codes,  \* authorization codes
    Tokens  \* refresh tokens

VARIABLES
    live,    \* the codes and tokens in the store
    taken,   \* << code, token >>: a request has the code and may issue the token
    heirs,   \* << grant, token >>: the token was issued for the code or token
    issued,  \* codes and tokens ever put into the store
    revoked  \* tokens that were revoked

storeVars == << live, taken, heirs, issued, revoked >>

Init ==
    /\ live = {} /\ taken = {} /\ heirs = {}
    /\ issued = {} /\ revoked = {}

\* A login ends with a new code.
Issue(c) ==
    /\ c \in Codes \ issued
    /\ live' = live \cup {c}
    /\ issued' = issued \cup {c}
    /\ UNCHANGED << taken, heirs, revoked >>

\* A request takes the code out of the store ...
Take(c, t) ==
    /\ c \in live \cap Codes
    /\ t \in Tokens \ issued
    /\ live' = live \ {c}
    /\ taken' = taken \cup {<< c, t >>}
    /\ UNCHANGED << heirs, issued, revoked >>

\* ... and issues a token for it, or none.
Exchange(c, t) ==
    /\ << c, t >> \in taken
    /\ t \in Tokens \ issued
    /\ taken' = taken \ {<< c, t >>}
    /\ live' = live \cup {t}
    /\ issued' = issued \cup {t}
    /\ heirs' = heirs \cup {<< c, t >>}
    /\ UNCHANGED revoked

Abandon(c, t) ==
    /\ << c, t >> \in taken
    /\ taken' = taken \ {<< c, t >>}
    /\ UNCHANGED << live, heirs, issued, revoked >>

\* A token is replaced by its successor.
Rotate(t, u) ==
    /\ t \in live \cap Tokens
    /\ u \in Tokens \ issued
    /\ live' = (live \ {t}) \cup {u}
    /\ issued' = issued \cup {u}
    /\ heirs' = heirs \cup {<< t, u >>}
    /\ UNCHANGED << taken, revoked >>

\* Tokens are revoked, alone or with all codes.
Revoke ==
    /\ \E S \in SUBSET (live \cap Tokens) :
          /\ S # {}
          /\ live' \in {live \ S, live \ (S \cup Codes)}
          /\ revoked' = revoked \cup S
    /\ UNCHANGED << taken, heirs, issued >>

\* Codes and tokens leave the store, expired or with their login.
Lapse ==
    /\ live' \in SUBSET live
    /\ UNCHANGED << taken, heirs, issued, revoked >>

Next ==
    \/ Lapse
    \/ \E c \in Codes : Issue(c)
    \/ \E c \in Codes, t \in Tokens : Take(c, t) \/ Exchange(c, t) \/ Abandon(c, t)
    \/ \E t, u \in Tokens : Rotate(t, u)
    \/ Revoke

Spec == Init /\ [][Next]_storeVars

-----------------------------------------------------------------------------
\* What follows for whoever uses such a store

\* A code or a token is exchanged for at most one token, and not while it is in the
\* store or another request has it.
OneHeir ==
    \A g \in Codes \cup Tokens : \A t, u \in Tokens :
        << g, t >> \in heirs =>
            /\ << g, u >> \in heirs => t = u
            /\ g \notin live
            /\ << g, u >> \notin taken

\* A revoked token is not in the store and is exchanged for nothing.
RevokedFinal ==
    \A g \in revoked : g \notin live /\ \A t \in Tokens : << g, t >> \notin heirs

\* What has left the store never returns.
GoneForGood == [][\A g \in issued : g \notin live => g \notin live']_storeVars

=============================================================================
