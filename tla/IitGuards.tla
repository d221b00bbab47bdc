----------------------------- MODULE IitGuards -----------------------------
(***************************************************************************)
(* The guard runner of guards-iit: the waterfall every tool call goes      *)
(* through, the windows of samples the guards keep for all calls, and the  *)
(* LRU cache behind calculatePhi.  Calls interleave at their awaits.       *)
(***************************************************************************)
EXTENDS GuardFormulas, TLC

CONSTANTS
  Callers,   \* concurrent tool calls
  Tpms,      \* transition matrices, each with the state the event pairs it with
  PhiOf,     \* what calculate_phi_js makes of one; Undefined: it throws
  Cfg,       \* the plugin's parsed Config
  CacheMax,  \* CACHE_MAX_SIZE
  Sessions   \* session ids, the "default" of events without one among them

VARIABLES
  event,      \* event[c]: the payload of c's tool call
  iit,        \* iit[c]: what runGuards has come to: at the guard GUARDS[at], with
              \* calculatePhi's answer to it; and, once refused, by which guard
  cache,      \* CesCache: keys in the Map's order, the least recently used first
  phiHistory, \* session -> the phi-trajectory guard's window
  mipHistory, \* session -> the mip-shift guard's window
  observed,   \* session -> samples the free-energy guard keeps
  policyAt,   \* when dsh-policy-engine's listener to policy/evaluate is asked: "first",
              \* before the runner's own, "last", after it, or "never", when a listener
              \* that does not call next comes before it
  decisions,  \* decisions[c]: iit-guard.decision events that are not a pass
  evaluations \* evaluations[c]: policy/evaluate events, in the order emitted

iitVars == <<iit, cache, phiHistory, mipHistory, observed, decisions>>

GUARDS == <<"causal-emergence", "phi-threshold", "phi-trajectory", "mip-shift",
            "boundary-frontier", "ces-fingerprint", "attractor-ews", "catastrophe-cusp",
            "workspace-ignition", "effect-ethos", "free-energy">>

TPM_DEPENDENT == Range(GUARDS) \ {"effect-ethos"}

NoAnswer == [status |-> "none", phi |-> Undefined, mip |-> Undefined]
Computing == [NoAnswer EXCEPT !.status = "computing"]
\* A hit returns no mip; the mip calculate_phi_js returns is an object, no number.
PhiAnswer(phi) == [NoAnswer EXCEPT !.status = "ready", !.phi = phi]

Fresh(status, at) == [status |-> status, at |-> at, answer |-> NoAnswer, by |-> "none"]

IitInit ==
  /\ iit = [c \in Callers |-> Fresh("idle", 0)]
  /\ cache = <<>>
  /\ phiHistory = [s \in Sessions |-> <<>>]
  /\ mipHistory = [s \in Sessions |-> <<>>]
  /\ observed = [s \in Sessions |-> 0]
  /\ decisions = [c \in Callers |-> <<>>]

----------------------------------------------------------------------------
(* What the runner hands to each guard, and where the guard keeps samples. *)

\* Mutant: nothing is handed on to boundary-frontier.
FrontierWithoutConfig(guard) ==
  CASE guard = "causal-emergence" -> Cfg.causalEmergence
    [] guard = "phi-threshold" -> [minPhi |-> Cfg.minPhi]
    [] guard = "phi-trajectory" -> Cfg.phiTrajectory
    [] guard = "mip-shift" -> Cfg.mipShift
    [] guard = "boundary-frontier" -> [minBoundaryPhi |-> Undefined]
    [] guard = "effect-ethos" -> Cfg.effectEthos
    [] OTHER -> <<>>

getGuardConfig(guard) ==
  CASE guard = "causal-emergence" -> Cfg.causalEmergence
    [] guard = "phi-threshold" -> [minPhi |-> Cfg.minPhi]
    [] guard = "phi-trajectory" -> Cfg.phiTrajectory
    [] guard = "mip-shift" -> Cfg.mipShift
    [] guard = "boundary-frontier" -> Cfg.boundaryFrontier
    [] guard = "effect-ethos" -> Cfg.effectEthos
    [] OTHER -> <<>>

Guard(c) == GUARDS[iit[c].at]
SessionOf(c) == OrElse(event[c].sessionId, "default")

PhiSample(c) == OrElse(event[c].phi, iit[c].answer.phi)
MipSample(c) == OrElse(event[c].mip, iit[c].answer.mip)

\* The guards that await calculatePhi for this event.
NeedsPhi(c) ==
  \/ Guard(c) \in {"phi-threshold", "boundary-frontier", "ces-fingerprint"}
  \/ Guard(c) = "phi-trajectory" /\ event[c].phi = Undefined
  \/ Guard(c) = "mip-shift" /\ event[c].mip = Undefined

PhiWindow(c) ==
  IF ~IsNumber(PhiSample(c)) THEN phiHistory[SessionOf(c)]
  ELSE Push(phiHistory[SessionOf(c)], PhiSample(c), Cfg.phiTrajectory.window)

MipWindow(c) ==
  IF ~IsNumber(MipSample(c)) THEN mipHistory[SessionOf(c)]
  ELSE Push(mipHistory[SessionOf(c)], MipSample(c), Cfg.mipShift.window)

\* free-energy compares with the thresholds it is given, and keeps every sample
\* of an event that carries a phi: its window is one of the settings it is not given.
FreeEnergy(config, phi) == Answer("pass", phi)
Keeps(c) == IsNumber(event[c].phi) /\ ~Below(event[c].phi, Get(getGuardConfig("free-energy"), "minPhi"))
Observed(c) ==
  IF ~Keeps(c) THEN observed[SessionOf(c)]
  ELSE LET n == observed[SessionOf(c)] + 1
       IN IF n >= 3 /\ Above(n, Get(getGuardConfig("free-energy"), "window")) THEN n - 1 ELSE n

Result(c) ==
  LET g == Guard(c)
      ev == event[c]
      config == getGuardConfig(g)
      phi == iit[c].answer.phi
  IN CASE g = "causal-emergence" -> CausalEmergence(config, ev.effectiveness, ev.degeneracy)
       [] g = "phi-threshold" -> PhiThreshold(config, phi)
       [] g = "phi-trajectory" -> PhiTrajectory(config, PhiWindow(c), PhiSample(c))
       [] g = "mip-shift" -> MipShift(config, MipWindow(c), MipSample(c))
       [] g = "boundary-frontier" -> BoundaryFrontier(config, phi)
       [] g = "ces-fingerprint" -> CesFingerprint(config, phi)
       [] g = "attractor-ews" -> AttractorEws(config, ev.trajectory)
       [] g = "catastrophe-cusp" -> CatastropheCusp(config, ev.trajectory)
       [] g = "workspace-ignition" -> WorkspaceIgnition(config, ev.broadcast, ev.fanOut)
       [] g = "effect-ethos" -> EffectEthos(config, ev.tool)
       [] g = "free-energy" -> FreeEnergy(config, ev.phi)

----------------------------------------------------------------------------
(* CesCache. *)

Hit(key) == key \in Range(cache)

\* get: delete and set again, which makes the key the most recently used.
Touched(key) == Append(RemoveFirst(cache, key), key)

\* Mutant: a full Map gives up its first key even for a key it already holds.
EvictAlways(key) ==
  IF Len(cache) >= CacheMax THEN Append(RemoveFirst(Tail(cache), key), key) ELSE Touched(key)

\* Mutant: the size of the Map is not looked at.
NeverEvict(key) == Touched(key)

\* set: a key already there is replaced; only a new one evicts the first.
CacheSet(key) ==
  IF Hit(key) THEN Touched(key)
  ELSE IF Len(cache) >= CacheMax THEN Append(Tail(cache), key)
  ELSE Append(cache, key)

----------------------------------------------------------------------------
(* runGuards. *)

\* The first guard from position i on that is not skipped for want of a TPM.
FirstGuard(ev, i) ==
  LET runs == {j \in i..Len(GUARDS) : ev.tpm # Undefined \/ GUARDS[j] \notin TPM_DEPENDENT}
  IN IF runs = {} THEN Len(GUARDS) + 1 ELSE CHOOSE j \in runs : \A k \in runs : j <= k

Refused(c, by) == [iit EXCEPT ![c] = [Fresh("refused", 0) EXCEPT !.by = by]]

\* Mutant: the event is left out.
SilentGuardDecision(c, guard, disposition) == UNCHANGED decisions

\* emitGuardDecision: an emit that fails does not reach the runner.
emitGuardDecision(c, guard, disposition) ==
  decisions' = IF disposition = "pass" THEN decisions
               ELSE [decisions EXCEPT ![c] = Append(@, <<guard, disposition>>)]

PolicyEvaluate(c, guard, disposition) ==
  evaluations' = [evaluations EXCEPT ![c] = Append(@, <<guard, disposition>>)]

\* evaluatePolicy, of the fields that runGuards hands on.
EgressDenied(region) ==
  /\ region # Undefined /\ region.egress = "deny"
  /\ \/ /\ region.requested # Undefined /\ region.allowed # Undefined
        /\ region.requested \notin region.allowed
     \/ region.model \notin {Undefined, "local"}

\* dsh-policy-engine's listener throws, and no event tells of it.
PolicyRefuses(c) ==
  LET low == Below(event[c].phi, Cfg.minPhi) IN
  \/ policyAt = "first" /\ (low \/ EgressDenied(event[c].region))
  \/ policyAt = "last" /\ ~low /\ EgressDenied(event[c].region)

\* The policy/evaluate waterfall and, for a phi below the minimum, the runner's
\* listener or the test behind the waterfall, which emit a block decision and
\* throw.  The awaits in between touch nothing but the call.
IitEnter(c) ==
  /\ iit[c].status = "idle"
  /\ \/ /\ PolicyRefuses(c)
        /\ iit' = Refused(c, "policy-engine") /\ UNCHANGED decisions
     \/ /\ ~PolicyRefuses(c) /\ Below(event[c].phi, Cfg.minPhi)
        /\ iit' = Refused(c, "phi-threshold") /\ emitGuardDecision(c, "phi-threshold", "block")
     \/ /\ ~PolicyRefuses(c) /\ ~Below(event[c].phi, Cfg.minPhi)
        /\ iit' = [iit EXCEPT ![c] = Fresh("judging", FirstGuard(event[c], 1))]
        /\ UNCHANGED decisions
  /\ UNCHANGED <<cache, phiHistory, mipHistory, observed, evaluations>>

AtGuard(c) == iit[c].status = "judging" /\ iit[c].at <= Len(GUARDS)

\* calculatePhi up to its import: a hit is answered from the cache.
Probe(c) ==
  /\ AtGuard(c) /\ NeedsPhi(c) /\ iit[c].answer = NoAnswer
  /\ LET key == event[c].tpm IN
     IF Hit(key)
       THEN /\ cache' = Touched(key)
            /\ iit' = [iit EXCEPT ![c].answer = PhiAnswer(PhiOf[key])]
       ELSE /\ iit' = [iit EXCEPT ![c].answer = Computing]
            /\ UNCHANGED cache
  /\ UNCHANGED <<phiHistory, mipHistory, observed, decisions, evaluations>>

\* The rest of it.  When calculate_phi_js throws the call is refused, without an
\* event: phi-threshold asks first, and does not catch.
Compute(c) ==
  /\ AtGuard(c) /\ iit[c].answer = Computing
  /\ LET key == event[c].tpm IN
     IF PhiOf[key] = Undefined
       THEN iit' = Refused(c, "calculatePhi") /\ UNCHANGED cache
       ELSE /\ cache' = CacheSet(key)
            /\ iit' = [iit EXCEPT ![c].answer = PhiAnswer(PhiOf[key])]
  /\ UNCHANGED <<phiHistory, mipHistory, observed, decisions, evaluations>>

\* A guard answers; a block is recorded, emitted and thrown, a guard's own throw
\* goes straight to the caller.
Judge(c) ==
  /\ AtGuard(c) /\ (NeedsPhi(c) => iit[c].answer.status = "ready")
  /\ phiHistory' = IF Guard(c) # "phi-trajectory" THEN phiHistory
                   ELSE [phiHistory EXCEPT ![SessionOf(c)] = PhiWindow(c)]
  /\ mipHistory' = IF Guard(c) # "mip-shift" THEN mipHistory
                   ELSE [mipHistory EXCEPT ![SessionOf(c)] = MipWindow(c)]
  /\ observed' = IF Guard(c) # "free-energy" THEN observed
                 ELSE [observed EXCEPT ![SessionOf(c)] = Observed(c)]
  /\ LET disposition == Result(c).disposition IN
     /\ iit' = IF disposition \in {"block", "throw"} THEN Refused(c, Guard(c))
               ELSE [iit EXCEPT ![c] = Fresh("judging", FirstGuard(event[c], @.at + 1))]
     /\ IF disposition = "throw" THEN UNCHANGED decisions
        ELSE emitGuardDecision(c, Guard(c), disposition)
     /\ IF disposition = "block" THEN PolicyEvaluate(c, Guard(c), "block")
        ELSE UNCHANGED evaluations
  /\ UNCHANGED cache

\* policy/evaluate with finalDisposition pass, then next.
IitPass(c) ==
  /\ iit[c].status = "judging" /\ iit[c].at > Len(GUARDS)
  /\ iit' = [iit EXCEPT ![c] = Fresh("passed", 0)]
  /\ PolicyEvaluate(c, "guards-iit", "pass")
  /\ UNCHANGED <<cache, phiHistory, mipHistory, observed, decisions>>

IitStep(c) == Probe(c) \/ Compute(c) \/ Judge(c) \/ IitPass(c)
=============================================================================
