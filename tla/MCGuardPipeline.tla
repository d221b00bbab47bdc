--------------------------- MODULE MCGuardPipeline ---------------------------
(* Two callers with the default thresholds, and windows of three samples.   *)
(* Auth stands at each place among the listeners, the policy at each place  *)
(* in its waterfall.                                                        *)
EXTENDS GuardPipeline, TLC

CONSTANTS c1, c2, s1, t1, t2, t3, bad

MCCallers == {c1, c2}
MCSessions == {s1, "default"}
MCTpms == {t1, t2, t3, bad}
MCPhiOf == (t1 :> 50) @@ (t2 :> 12) @@ (t3 :> 50) @@ (bad :> Undefined)

MCCfg ==
  [minPhi |-> 10,
   causalEmergence |-> [minEffectiveness |-> 10, maxDegeneracy |-> 90],
   phiTrajectory |-> [window |-> 3, maxDrop |-> 15, maxSlope |-> -2,
                      viabilityWarn |-> -50, viabilityBlock |-> -80],
   mipShift |-> [window |-> 3, maxShift |-> 1],
   boundaryFrontier |-> [minBoundaryPhi |-> 15],
   effectEthos |-> [teloids |-> <<[scope |-> {"deploy"}, obligation |-> "forbid"]>>,
                    severity |-> "error"]]

MCNonIitCfg ==
  [tier |-> "local-rules", key |-> FALSE,
   maxRequestsPerMinute |-> 3, maxTokensPerMinute |-> 10,
   maxSpendPerSession |-> 3, maxTokensPerSession |-> 20,
   harmlessBlockThreshold |-> 80, harmlessWarnThreshold |-> 50,
   minHelpfulScore |-> 70, minHonestScore |-> 60,
   rules |-> {[action |-> "block", matches |-> {"drop"}], [action |-> "warn", matches |-> {"deploy"}]}]

MCScores == {40, 70, 90}

\* A call without a TPM, of a tool the norms forbid and the policy warns of.
Plain ==
  [sessionId |-> s1, phi |-> Undefined, tpm |-> Undefined, mip |-> Undefined,
   effectiveness |-> Undefined, degeneracy |-> Undefined, trajectory |-> <<>>,
   broadcast |-> Undefined, fanOut |-> Undefined, tool |-> "deploy",
   tokens |-> 1, cost |-> 2, outputs |-> TRUE, region |-> Undefined, asksPermission |-> FALSE]

\* A call with everything a guard may warn of: no effectiveness, an ignition.
Steady ==
  [Plain EXCEPT !.tpm = t1, !.phi = 50, !.mip = 0, !.effectiveness = 5, !.degeneracy = 95,
                !.broadcast = <<100, 100>>, !.fanOut = 2, !.cost = 1]

\* The organisation's data may not leave its region.
Airgapped == [egress |-> "deny", requested |-> "us", allowed |-> {"eu"}, model |-> Undefined]

MCEvents ==
  {[Plain EXCEPT !.asksPermission = TRUE], Steady,
   [Steady EXCEPT !.phi = 12, !.mip = 9],
   [Steady EXCEPT !.phi = 9],
   [Plain EXCEPT !.tpm = t2, !.tool = "drop", !.sessionId = Undefined],
   [Plain EXCEPT !.tpm = bad, !.tokens = 11, !.region = Airgapped],
   [Plain EXCEPT !.tpm = t3, !.trajectory = <<-1, 1>>]}
MCDeployments ==
  {<<<<"auth", "nonIit", "iit">>, "first">>, <<<<"iit", "auth", "nonIit">>, "last">>,
   <<<<"nonIit", "iit", "auth">>, "never">>, <<<<"iit">>, "last">>, <<<<"nonIit">>, "never">>}

MCSymmetry == Permutations(MCCallers)
=============================================================================
