--------------------------- MODULE MCHostPlugins ---------------------------
(* Two scorers, two requests with one secret, one approver in every role.  *)
EXTENDS HostPlugins

CONSTANTS k1, k2, r1, r2, key1, alice, bob, h1, g1

MCUsages ==
  LET none == [total |-> Absent, prompt |-> Absent, completion |-> Absent,
               input |-> Absent, output |-> Absent]
  IN {Absent, [none EXCEPT !.total = 0, !.input = 3], [none EXCEPT !.prompt = 0],
      [none EXCEPT !.input = 1, !.output = 2]}

Quiet == [egress |-> "allow", region |-> "none", model |-> "none", airgapped |-> FALSE,
          attempt |-> FALSE, phiBelow |-> FALSE]
Ask0 == [kind |-> "guard", user |-> alice, roles |-> {"risk"}, action |-> "approve", ev |-> Quiet]

MCAsks ==
  {Ask0, [Ask0 EXCEPT !.roles = {"org:admin"}], [Ask0 EXCEPT !.roles = {}, !.action = "read"],
   [Ask0 EXCEPT !.kind = "approval"], [Ask0 EXCEPT !.kind = "approval", !.roles = {"audit"}],
   [Ask0 EXCEPT !.kind = "policy", !.action = "evaluate"],
   [Ask0 EXCEPT !.kind = "policy", !.action = "evaluate", !.ev = [Quiet EXCEPT !.egress = "deny", !.region = "elsewhere"]]}
=============================================================================
