-------------------------- MODULE MCGatewayBudgets --------------------------
(* An organisation's daily budget, which may be replaced by a larger one,  *)
(* an hourly budget of its project "none", requests whose cache keys       *)
(* collide; two concurrent calls.                                          *)
EXTENDS GatewayBudgets, TLC

CONSTANTS c1, c2, none

acme == <<"acme">>

Def(id, scope, project, period, limit) ==
  [id |-> id, scope |-> scope, orgId |-> acme, projectId |-> project,
   enabled |-> TRUE, period |-> period, limitCents |-> limit]

MCDefs ==
  {Def("org", "org", none, "day", 50), Def("org", "org", none, "day", 150),
   Def("proj", "project", <<"none">>, "hour", 100)}

\* The first two share a key, and so do the last two.
MCRequests ==
  {[org |-> acme, project |-> none], [org |-> acme, project |-> <<"none">>],
   [org |-> acme, project |-> <<"p1", ":", "none">>],
   [org |-> <<"acme", ":", "p1">>, project |-> none]}
MCCallers == {c1, c2}

\* The clock runs in hours, two of which make the day here.
MCPeriodLength == [p \in {"hour", "day"} |-> IF p = "hour" THEN 1 ELSE 2]

MCSymmetry == Permutations(MCCallers)
=============================================================================
