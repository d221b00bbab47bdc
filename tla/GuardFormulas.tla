--------------------------- MODULE GuardFormulas ---------------------------
(***************************************************************************)
(* What each guard of guards-iit answers, and what the functions of        *)
(* iit-core it calls return.  Numbers (phi, thresholds, window samples)    *)
(* are integers, in hundredths where the code has fractions; quotients are *)
(* compared by cross-multiplication, so nothing is rounded.                *)
(***************************************************************************)
EXTENDS Integers, SequencesExt

CONSTANT Undefined  \* JavaScript's undefined, in a field or an argument

IsNumber(x) == x # Undefined

\* A comparison with undefined is false in JavaScript, whatever the other side.
Below(x, limit) == IsNumber(x) /\ IsNumber(limit) /\ x < limit
Above(x, limit) == IsNumber(x) /\ IsNumber(limit) /\ x > limit

OrElse(x, default) == IF x = Undefined THEN default ELSE x

Get(object, field) == IF field \in DOMAIN object THEN object[field] ELSE Undefined

Answer(disposition, phi) == [disposition |-> disposition, phi |-> phi]

\* A guard that raises GuardError itself instead of returning a disposition.
Throw == Answer("throw", Undefined)

SeverityDisposition(config) == IF Get(config, "severity") = "error" THEN "block" ELSE "warn"

----------------------------------------------------------------------------
(* Windows of samples. *)

Total(h) == FoldSeq(LAMBDA x, y : x + y, 0, h)
Power(h, k) == Total([i \in DOMAIN h |-> h[i]^k])
Highest(h) == CHOOSE x \in Range(h) : \A y \in Range(h) : y <= x
Lowest(h) == CHOOSE x \in Range(h) : \A y \in Range(h) : x <= y
Abs(x) == IF x < 0 THEN -x ELSE x

Push(h, x, window) ==
  LET pushed == Append(h, x) IN IF Above(Len(pushed), window) THEN Tail(pushed) ELSE pushed

\* The least-squares slope over the indices of h is 6 * Trend(h) / Span(h).
Trend(h) == 2 * Total([i \in DOMAIN h |-> (i - 1) * h[i]]) - (Len(h) - 1) * Total(h)
Span(h) == Len(h) * (Len(h)^2 - 1)

----------------------------------------------------------------------------
(* phi-trajectory: RiskGate's viability index and iit-core's alert. *)

\* viabilityIndex(h) < bound (hundredths): 1 - drop/maxDrop - |slope|/|maxSlope|,
\* clamped to [-1, 1].
ViabilityBelow(h, config, bound) ==
  LET drop == Highest(h) - h[Len(h)]
      d == IF config.maxDrop > 0 THEN config.maxDrop ELSE 1
      s == IF config.maxSlope # 0 THEN Abs(config.maxSlope) ELSE 1
      dropPart == IF config.maxDrop > 0 THEN drop * s * Span(h) ELSE 0
      slopePart == IF config.maxSlope # 0 THEN 6 * Abs(Trend(h)) * d ELSE 0
      scale == d * s * Span(h)
  IN bound > -100 /\ (bound > 100 \/ 100 * (scale - dropPart - slopePart) < bound * scale)

ViabilityDisposition(h, config) ==
  IF ViabilityBelow(h, config, OrElse(Get(config, "viabilityBlock"), -80)) THEN "block"
  ELSE IF ViabilityBelow(h, config, OrElse(Get(config, "viabilityWarn"), -50)) THEN "warn"
  ELSE "pass"

Rank(disposition) == CASE disposition = "pass" -> 0
                       [] disposition = "warn" -> 1
                       [] disposition = "block" -> 2

EscalateDisposition(base, vi) == IF Rank(vi) > Rank(base) THEN vi ELSE base

\* phi_trajectory of iit-core.  The order of its tests leaves "critical" out of
\* reach for a negative maxSlope.
TrajectoryAlert(history, config) ==
  LET h == IF Len(history) > config.window
             THEN SubSeq(history, Len(history) - config.window + 1, Len(history)) ELSE history
      n == Len(h)
      drift == n * h[n] - Total(h)          \* times n
      DriftBelow(k) == drift < -(k * Abs(config.maxDrop) * n)
      SlopeBelow(k) == 6 * Trend(h) < k * config.maxSlope * Span(h)
  IN CASE DriftBelow(1) -> "drift-warning"
       [] ~DriftBelow(1) /\ SlopeBelow(1) -> "slope-warning"
       [] ~DriftBelow(1) /\ ~SlopeBelow(1) /\ (DriftBelow(2) \/ SlopeBelow(2)) -> "critical"
       [] OTHER -> "none"

\* h is the session's window with the new sample in it.
PhiTrajectory(config, h, phi) ==
  IF ~IsNumber(phi) \/ Len(h) < 3 THEN Answer("pass", phi)
  ELSE LET vi == ViabilityDisposition(h, config) IN
       IF TrajectoryAlert(h, config) = "none" THEN Answer(vi, phi)
       ELSE Answer(EscalateDisposition(SeverityDisposition(config), vi), phi)

----------------------------------------------------------------------------
(* The other guards that need a TPM. *)

\* A square stochastic TPM has an effectiveness and a degeneracy; for any other
\* they are Undefined and the guard passes.
CausalEmergence(config, effectiveness, degeneracy) ==
  IF ~IsNumber(effectiveness) THEN Answer("pass", Undefined)
  ELSE IF Below(effectiveness, config.minEffectiveness) \/ Above(degeneracy, config.maxDegeneracy)
       THEN Answer(SeverityDisposition(config), effectiveness)
       ELSE Answer("pass", effectiveness)

PhiThreshold(config, phi) ==
  Answer(IF Below(phi, config.minPhi) THEN "block" ELSE "pass", phi)

\* |mip - mean| / std > maxShift, with the standard deviation of the window.
MipShift(config, h, mip) ==
  LET spread == Len(h) * Power(h, 2) - Total(h)^2
      shifted == /\ IsNumber(mip) /\ Len(h) >= 3 /\ spread > 0
                 /\ (Len(h) * mip - Total(h))^2 > config.maxShift^2 * spread
  IN Answer(IF shifted THEN SeverityDisposition(config) ELSE "pass", mip)

BoundaryFrontier(config, phi) ==
  IF Below(phi, config.minBoundaryPhi) THEN Throw ELSE Answer("pass", phi)

CesFingerprint(config, cesHash) ==
  IF Get(config, "expectedHash") \notin {Undefined, cesHash} THEN Throw
  ELSE Answer("pass", Undefined)

----------------------------------------------------------------------------
(* Early warnings over the trajectory an event carries. *)

\* ews_variance and its JavaScript copy: Len^2 times the variance.
EwsVariance(h) == Len(h) * Power(h, 2) - Total(h)^2

\* ews_ac1 > limit: Pearson's r of the series and its successor, r = cross/sqrt(da*db).
EwsAc1Above(h, limit) ==
  LET a == Front(h)
      b == Tail(h)
      m == Len(a)
      cross == m * Total([i \in 1..m |-> a[i] * b[i]]) - Total(a) * Total(b)
      den == EwsVariance(a) * EwsVariance(b)
  IN IF Len(h) < 2 \/ den = 0 THEN Above(0, limit)
     ELSE /\ IsNumber(limit)
          /\ \/ limit < 0 /\ (cross >= 0 \/ 10000 * cross^2 < limit^2 * den)
             \/ limit >= 0 /\ cross > 0 /\ 10000 * cross^2 > limit^2 * den

AttractorEws(config, h) ==
  LET limit == Get(config, "varianceLimit")
      varied == IsNumber(limit) /\ (IF h = <<>> THEN 0 > limit
                                    ELSE 100 * EwsVariance(h) > limit * Len(h)^2)
  IN Answer(IF varied \/ EwsAc1Above(h, Get(config, "acLimit")) THEN "warn" ELSE "pass", Undefined)

\* cuspFitJs and CuspFit::from_trajectory: the fit x^3 ~ -alpha*x - beta by normal
\* equations (by means when they are singular); alpha = fit.alpha / fit.scale, beta likewise.
CuspFit(h) ==
  LET n == Len(h)
      det == n * Power(h, 2) - Power(h, 1)^2
  IN IF det = 0 THEN [alpha |-> -Power(h, 2), beta |-> -Power(h, 3), scale |-> n]
     ELSE [alpha |-> -(n * Power(h, 4) - Power(h, 1) * Power(h, 3)),
           beta |-> -(Power(h, 2) * Power(h, 3) - Power(h, 1) * Power(h, 4)),
           scale |-> det]

\* 4 alpha^3 + 27 beta^2 < margin.
DistanceBelow(h, margin) ==
  LET fit == CuspFit(h)
      distance == 4 * fit.alpha^3 + 27 * fit.beta^2 * fit.scale
  IN IsNumber(margin) /\ (IF h = <<>> THEN 0 < margin ELSE 100 * distance < margin * fit.scale^3)

CatastropheCusp(config, h) ==
  IF DistanceBelow(h, 0) THEN Throw
  ELSE Answer(IF DistanceBelow(h, Get(config, "bifurcationMargin")) THEN "warn" ELSE "pass", Undefined)

----------------------------------------------------------------------------
(* iit-core behind wasm-bindgen.  serde_wasm_bindgen turns a struct into an *)
(* object, a serde_json map into an ES Map (none of whose entries is a      *)
(* property), and a Result into an object with the one property Ok or Err.  *)

EsMap(entries) == <<>>
ResultObject(value) == [Ok |-> value]

\* ignition_score: mean(broadcast) * fan_out, here times Len(broadcast).
IgnitionScoreWasm(broadcast, fanOut, threshold) ==
  LET score == IF broadcast = <<>> \/ fanOut = 0 THEN 0 ELSE Total(broadcast) * fanOut
  IN EsMap([score |-> score, ignited |-> score > threshold * Len(broadcast)])

WorkspaceIgnition(config, broadcast, fanOut) ==
  IF ~IsNumber(broadcast) \/ ~IsNumber(fanOut) THEN Answer("pass", Undefined)
  ELSE LET res == IgnitionScoreWasm(broadcast, fanOut, OrElse(Get(config, "threshold"), 100))
       IN Answer(IF Get(res, "ignited") = TRUE THEN "block" ELSE "pass", Get(res, "score"))

\* evaluate_teloids: an obligation ends as "allow", only a prohibition as "deny",
\* and of the norms that apply to the tool the last one that says either counts.
EvaluateTeloids(teloids, tool) ==
  LET Step(norm, disposition) ==
        CASE tool \in norm.scope /\ norm.obligation = "forbid" -> "deny"
          [] tool \in norm.scope /\ norm.obligation = "must" -> "oblige"
          [] OTHER -> disposition
      last == FoldLeft(LAMBDA d, norm : Step(norm, d), "allow", teloids)
  IN [disposition |-> IF last = "deny" THEN "deny" ELSE "allow"]

\* The compiled norms are a Map too, so teloids_evaluate_wasm is given none.
TeloidsCompileWasm(teloids) == EsMap([teloids |-> teloids])

TeloidsEvaluateWasm(teloids, tool) == ResultObject(EvaluateTeloids(OrElse(teloids, <<>>), tool))

EffectEthos(config, tool) ==
  IF config.teloids = <<>> THEN Answer("pass", Undefined)
  ELSE LET compiled == TeloidsCompileWasm(config.teloids)
           res == TeloidsEvaluateWasm(Get(compiled, "teloids"), tool)
           disposition == Get(res, "disposition")
       IN Answer(CASE disposition = "deny" -> "block"
                   [] disposition = "oblige" /\ config.severity = "error" -> "warn"
                   [] OTHER -> "pass", 0)
=============================================================================
