------------------------- MODULE MCConnectionCache --------------------------
(* Instances of ConnectionCache for TLC. *)
EXTENDS ConnectionCache, TLC

CONSTANTS a, b, c, s, u, w, e, f

Relay(subject, caps) ==
    [session |-> s, subject |-> subject, caps |-> caps]
Subject(subject) ==
    [session |-> None, subject |-> subject, caps |-> None]
Cast(x, y, z) == a :> x @@ b :> y @@ c :> z

\* One subject twice beside another one; one session three times, once with other
\* capabilities, or twice with a subject beside a raw request.
MCCasts == {Cast(Subject(u), Subject(u), Subject(w)),
            Cast(Relay(u, e), Relay(u, e), Relay(u, f)),
            Cast(Relay(u, e), Relay(u, e), Relay(None, e))}

\* Three calls of one session, for tasks.
TaskCasts == {Cast(Relay(None, e), Relay(None, e), Relay(None, e))}

Symmetry == Permutations({a, b})
FullSymmetry == Permutations({a, b, c})
=============================================================================
