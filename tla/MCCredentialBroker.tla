------------------------- MODULE MCCredentialBroker -------------------------
(* Instances of CredentialBroker for TLC. *)
EXTENDS CredentialBroker, TLC

\* Requests of one kind are interchangeable.
Symmetry == Permutations(Redeemers) \cup Permutations(Refreshers)
                \cup Permutations(Callbacks)

Started(S) == Cardinality({p \in S : pc[p] # "start"})

\* The races between grants, with the whole clock, one Google token and a revocation
\* of one of the two kinds; the races for the shared credential, with one grant of
\* each kind and two tokens; and those in which a grant expires while a refresh, a
\* revoker and a consent are under way.
GrantRaces ==
    /\ Started(Upgrades \cup Outbounds) = 0 /\ minted <= 1
    /\ Started(Revokers \cup Clients) <= 1
SharedRaces ==
    /\ Started(Redeemers) <= 1 /\ Started(Refreshers) <= 1
    /\ Started(Revokers \cup Clients) = 0
    /\ now <= 1
ExpiryRaces ==
    /\ Started(Redeemers) <= 1 /\ Started(Refreshers) <= 1
    /\ Started(Outbounds \cup Clients) = 0
    /\ \A p \in Requests : pc[p] \notin {"late save", "late delete"}
    /\ now > 1 => Started(Refreshers \cup Revokers \cup Upgrades) = 3
Races == GrantRaces \/ SharedRaces \/ ExpiryRaces
=============================================================================
