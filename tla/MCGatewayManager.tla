-------------------------- MODULE MCGatewayManager --------------------------
(* Instances of GatewayManager for TLC. *)
EXTENDS GatewayManager, TLC

CONSTANTS t1, t2, t3, u, w, s1, s2

Job(kind, names, to, owner) ==
    [kind |-> kind, names |-> names, to |-> to, owner |-> owner]
Add(names) == Job("add", names, s1, FALSE)
AddAs(names) == Job("add", names, s1, TRUE)
Update(n, v) == Job("update", {n}, v, FALSE)
Remove(n) == Job("remove", {n}, Off, FALSE)
Plain(kind) == Job(kind, {}, Off, FALSE)
Approve(n) == Job("approve", {n}, Off, FALSE)
Authorize(n) == Job("oauth", {n}, s2, FALSE)

Cast(x, y, z) == t1 :> x @@ t2 :> y @@ t3 :> z

\* Two mutations beside a reload, a request, or each other; requests that start
\* the pool beside a reload.
MCCasts == {Cast(Add({u, w}), Update(u, s2), Plain("reload")),
            Cast(Remove(u), AddAs({w}), Plain("ensure")),
            Cast(Update(u, Off), Plain("virtual"), Plain("reload")),
            Cast(Plain("settings"), Approve(w), Plain("ensure")),
            Cast(Plain("ensure"), Plain("ensure"), Add({w})),
            Cast(Update(u, s2), Update(u, s1), Remove(u)),
            Cast(Approve(u), Remove(u), Add({w})),
            Cast(Authorize(u), Update(u, Off), Plain("reload"))}

Config(x, y, stale) ==
    [up |-> u :> x @@ w :> y, settings |-> FALSE, stale |-> stale]
MCStarts == {Config(s1, Absent, FALSE), Config(s1, Absent, TRUE)}
MCEdits == {<<u, s2>>}

RemoveCasts == {Cast(Remove(u), Plain("reload"), Plain("reload"))}
=============================================================================
