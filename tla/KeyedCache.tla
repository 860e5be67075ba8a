----------------------------- MODULE KeyedCache -----------------------------
(* What the two connection caches of the upstream pool promise, without locks *)
(* or lock maps: per key at most one connect is under way, a connect ends in a *)
(* stored connection or in none, a stored connection is never overwritten, and *)
(* each cache stays within its cap.  ConnectionCache implements this.          *)
EXTENDS Integers, FiniteSets

CONSTANTS
    SubjectKeys, \* keys of subject_connections
    RelayKeys,   \* keys of relay_connections
    Openers,     \* requests that may open a connection
    Cap          \* SUBJECT_CONN_MAX_ENTRIES

VARIABLES
    cached, \* the keys that have a connection
    opener  \* for each key, the requests that are opening a connection for it

cacheVars == << cached, opener >>

Keys == SubjectKeys \cup RelayKeys

WithinCap(S) ==
    /\ Cardinality(S \cap SubjectKeys) <= Cap
    /\ Cardinality(S \cap RelayKeys) <= Cap

Init ==
    /\ cached = {}
    /\ opener = [k \in Keys |-> {}]

\* A request that finds no usable connection begins to open one, alone.
Open(k, r) ==
    /\ opener[k] = {}
    /\ opener' = [opener EXCEPT ![k] = {r}]
    /\ cached' = cached \ {k}

\* The connection is stored, where there was none; others may make room for it.
Store(k, r) ==
    /\ opener[k] = {r}
    /\ k \notin cached
    /\ opener' = [opener EXCEPT ![k] = {}]
    /\ cached' \in {S \cup {k} : S \in SUBSET cached}
    /\ WithinCap(cached')

\* The connect fails or its request is cancelled.
GiveUp(k, r) ==
    /\ opener[k] = {r}
    /\ opener' = [opener EXCEPT ![k] = {}]
    /\ UNCHANGED cached

\* Connections leave the cache: expired, closed, evicted, failed or moved.
Forget ==
    /\ cached' \in SUBSET cached
    /\ UNCHANGED opener

Next ==
    \/ Forget
    \/ \E k \in Keys, r \in Openers : Open(k, r) \/ Store(k, r) \/ GiveUp(k, r)

Spec == Init /\ [][Next]_cacheVars

=============================================================================
