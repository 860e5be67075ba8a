---------------------------- MODULE MCUpstreamPool ---------------------------
(* Instances of UpstreamPool for TLC. *)
EXTENDS UpstreamPool, TLC

CONSTANTS a, b, c1, c2, c3, c4

Cast(x, y) == a :> x @@ b :> y

\* Connects beside a cleanup, beside tool calls (also among themselves), and
\* beside subject requests.
MCCasts == {Cast({"ensure", "reprobe"}, {"ensure", "cleanup"}),
            Cast({"ensure", "reprobe"}, {"code", "mcp"}),
            Cast({"mcp", "code"}, {"mcp", "ensure"}),
            Cast({"ensure"}, {"reprobe", "subject"})}
=============================================================================
