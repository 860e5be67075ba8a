-------------------------- MODULE MCUpstreamOauth ---------------------------
(* Instances of UpstreamOauth for TLC. *)
EXTENDS UpstreamOauth, FiniteSets, TLC

\* The sets of so many flows, callbacks, builds, checks and clears.
Size(run) == << Cardinality(run \cap Flows), Cardinality(run \cap Callbacks),
                Cardinality(run \cap Builders), Cardinality(run \cap Checkers),
                Cardinality(run \cap Clears) >>
Runs(sizes) == {run \in SUBSET Requests : Size(run) \in sizes}

Dynamic == [m \in Managers |-> "dynamic"]
Preregistered == [m \in Managers |-> "preregistered"]
Changing == [m \in Managers |-> IF m = 1 THEN "dynamic" ELSE "preregistered"]

\* One manager for the larger sets; two, one after the other, for the smaller.
MCCasts ==
    [run : Runs({ << 1, 2, 0, 1, 0 >>, << 1, 1, 1, 1, 0 >>, << 2, 2, 0, 0, 1 >>,
                  << 0, 0, 2, 1, 0 >>, << 2, 1, 1, 0, 0 >>, << 1, 1, 1, 0, 1 >> }),
     first : {2}, mode : {Dynamic, Preregistered}]
    \cup
    [run : Runs({ << 0, 0, 1, 1, 0 >>, << 0, 0, 2, 0, 0 >>, << 1, 2, 0, 0, 0 >>,
                  << 1, 1, 1, 0, 0 >>, << 1, 0, 1, 0, 1 >> }),
     first : {1}, mode : {Dynamic, Preregistered, Changing}]

\* Requests of one kind are interchangeable.
Symmetry == Permutations(Flows) \cup Permutations(Callbacks) \cup Permutations(Builders)
=============================================================================
