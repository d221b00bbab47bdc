---------------------------- MODULE GuardPipeline ----------------------------
(***************************************************************************)
(* A tool call in the shipped enterprise configuration: guards-iit,        *)
(* guards-non-iit and auth around it, and dsh-policy-engine listening to   *)
(* guards-iit's waterfall.                                                 *)
(*                                                                         *)
(* Each of the three wraps the call in one of two ways.  Where the host's  *)
(* tools service has no guard function it listens to tools/guard, and the  *)
(* listeners run in the order the plugins were applied, which depends on   *)
(* when the services each injects are there.  Where there is one it puts a *)
(* function of its own in its place that judges and then calls next, but   *)
(* never the function it replaced: only the plugin applied last judges.    *)
(* A plugin whose services are not there is not applied at all.            *)
(***************************************************************************)
EXTENDS GuardFormulas, FiniteSets

CONSTANTS Callers, Sessions, Tpms, PhiOf, Cfg, CacheMax, NonIitCfg, Scores,
          Events,      \* payloads of tool calls
          Deployments, \* bound: wirings of the plugins, each with when the policy is asked
          MaxCalls     \* bound: tool calls made

ASSUME CacheMaxAssumption == CacheMax \in Nat \ {0}

\* undefined is no number, not true, and none of the strings it is compared with.
ASSUME UndefinedAssumption ==
  Undefined \notin Int /\ Undefined # TRUE /\ Undefined \notin {"error", "deny", "oblige"}

\* What a payload's type says of the fields that index a map or are added up.
ASSUME EventsAssumption ==
  /\ "default" \in Sessions
  /\ Tpms \subseteq DOMAIN PhiOf /\ Undefined \notin Tpms \cup Sessions
  /\ \A ev \in Events : /\ ev.sessionId \in Sessions \cup {Undefined}
                        /\ ev.tpm \in Tpms \cup {Undefined}
                        /\ ev.cost \in Nat \cup {Undefined}
                        /\ ev.tokens \in Nat \cup {Undefined}

\* The fields of the schema: causalEmergence and mipShift have no severity.
ASSUME CfgAssumption ==
  /\ DOMAIN Cfg.causalEmergence = {"minEffectiveness", "maxDegeneracy"}
  /\ DOMAIN Cfg.mipShift = {"window", "maxShift"}
  /\ Cfg.phiTrajectory.window \in Nat /\ Cfg.mipShift.window \in Nat

\* A limit of 0 refuses every call too, but not even no calls are fewer than that.
ASSUME NonIitCfgAssumption ==
  /\ NonIitCfg.maxRequestsPerMinute \in Nat \ {0}
  /\ NonIitCfg.maxSpendPerSession \in Nat
  /\ NonIitCfg.harmlessBlockThreshold \in Int

Plugins == {"iit", "nonIit", "auth"}

\* Listeners in any order; or the one function that replaced the others.
Wirings == UNION {Injection(1..n, Plugins) : n \in 1..3}

PolicyPlaces == {"first", "last", "never"}

ASSUME DeploymentsAssumption == Deployments \subseteq Wirings \X PolicyPlaces

ASSUME MaxCallsAssumption == MaxCalls \in Nat

VARIABLES event, iit, cache, phiHistory, mipHistory, observed, decisions, evaluations,
          nonIit, rate, budget,
          auth,     \* auth[c]: what auth has come to: "idle", "passed" or "refused"
          policyAt, \* when dsh-policy-engine is asked
          wired,    \* the plugins that judge a call, in order
          calls,    \* history: tool calls made
          admitted, \* history: session -> calls past the quotas in the current minute
          charged   \* history: session -> cost of the calls that ran

Iit == INSTANCE IitGuards
NonIit == INSTANCE NonIitGuards

iitVars == <<iit, cache, phiHistory, mipHistory, observed, decisions>>
setup == <<wired, policyAt>>
vars == <<event, iitVars, nonIit, rate, budget, auth, evaluations, setup, calls, admitted, charged>>

NoEvent == [none |-> Undefined]

Init ==
  /\ event = [c \in Callers |-> NoEvent]
  /\ evaluations = [c \in Callers |-> <<>>]
  /\ Iit!IitInit /\ NonIit!NonIitInit
  /\ auth = [c \in Callers |-> "idle"]
  /\ \E d \in Deployments : wired = d[1] /\ policyAt = d[2]
  /\ calls = 0
  /\ admitted = [s \in Sessions |-> 0]
  /\ charged = [s \in Sessions |-> 0]

StatusOf(c, plugin) ==
  [iit |-> iit[c].status, nonIit |-> nonIit[c].status, auth |-> auth[c]][plugin]
Passed(c) == \A i \in DOMAIN wired : StatusOf(c, wired[i]) = "passed"
IsRefused(c) == \E i \in DOMAIN wired : StatusOf(c, wired[i]) = "refused"
Settled(c) == event[c] # NoEvent /\ (Passed(c) \/ IsRefused(c))

\* The plugin whose turn it is with c's call: the first that has not passed it.
Turn(c, plugin) ==
  /\ event[c] # NoEvent /\ ~IsRefused(c)
  /\ \E i \in DOMAIN wired : /\ wired[i] = plugin /\ StatusOf(c, plugin) # "passed"
                             /\ \A j \in 1..(i - 1) : StatusOf(c, wired[j]) = "passed"

\* A caller whose last call has come to an end makes another.
Call(c, ev) ==
  /\ event[c] = NoEvent \/ Settled(c)
  /\ calls < MaxCalls
  /\ calls' = calls + 1
  /\ event' = [event EXCEPT ![c] = ev]
  /\ iit' = [iit EXCEPT ![c] = Iit!Fresh("idle", 0)]
  /\ nonIit' = [nonIit EXCEPT ![c] = NonIit!At("idle", 0, "none")]
  /\ auth' = [auth EXCEPT ![c] = "idle"]
  /\ decisions' = [decisions EXCEPT ![c] = <<>>]
  /\ evaluations' = [evaluations EXCEPT ![c] = <<>>]
  /\ UNCHANGED <<cache, phiHistory, mipHistory, observed, rate, budget, admitted, charged,
                 setup>>

Charge(c) ==
  LET s == event[c].sessionId
  IN charged' = IF s = Undefined \/ ~Passed(c)' THEN charged
                ELSE [charged EXCEPT ![s] = @ + OrElse(event[c].cost, 0)]

IitGuard(c) ==
  /\ Turn(c, "iit")
  /\ Iit!IitEnter(c) \/ Iit!IitStep(c)
  /\ UNCHANGED <<event, nonIit, rate, budget, auth, setup, calls, admitted>>
  /\ Charge(c)

NonIitGuard(c) ==
  /\ Turn(c, "nonIit")
  /\ NonIit!NonIitEnter(c) \/ NonIit!NonIitStep(c)
  /\ admitted' = IF event[c].sessionId = Undefined \/ nonIit[c].status # "idle" THEN admitted
                 ELSE [admitted EXCEPT ![event[c].sessionId] =
                         (IF rate[event[c].sessionId].expired THEN 0 ELSE @)
                         + (IF nonIit'[c].by = "rate-limit" THEN 0 ELSE 1)]
  /\ UNCHANGED <<event, iitVars, auth, setup, calls>>
  /\ Charge(c)

\* A call that names an action, a resource and a principal is refused when a
\* listener to auth/permission-check throws or checkPermission says no.
AuthGuard(c) ==
  /\ Turn(c, "auth")
  /\ \/ auth' = [auth EXCEPT ![c] = "passed"]
     \/ event[c].asksPermission /\ auth' = [auth EXCEPT ![c] = "refused"]
  /\ UNCHANGED <<event, iitVars, nonIit, rate, budget, evaluations, setup, calls, admitted>>
  /\ Charge(c)

Minute(s) ==
  /\ NonIit!MinuteEnds(s)
  /\ UNCHANGED <<event, iitVars, auth, setup, calls, admitted, charged>>

Next ==
  \/ \E c \in Callers, ev \in Events : Call(c, ev)
  \/ \E c \in Callers : IitGuard(c) \/ NonIitGuard(c) \/ AuthGuard(c)
  \/ \E s \in Sessions : Minute(s)

Spec == Init /\ [][Next]_vars

----------------------------------------------------------------------------
(* Types. *)

TypeOK ==
  /\ event \in [Callers -> Events \cup {NoEvent}]
  /\ \A c \in Callers :
       /\ iit[c].status \in {"idle", "judging", "passed", "refused"}
       /\ iit[c].at \in 0..(Len(Iit!GUARDS) + 1)
       /\ iit[c].answer.status \in {"none", "computing", "ready"}
       /\ nonIit[c].status \in {"idle", "judging", "passed", "refused"}
       /\ nonIit[c].at \in 0..(Len(NonIit!NonIitGUARDS) + 1)
       /\ auth[c] \in {"idle", "passed", "refused"}
       /\ decisions[c] \in Seq(Range(Iit!GUARDS) \X {"warn", "block"})
  /\ cache \in Seq(Tpms) /\ Len(cache) <= CacheMax
  /\ \A s \in Sessions : /\ Len(phiHistory[s]) <= Cfg.phiTrajectory.window
                         /\ Len(mipHistory[s]) <= Cfg.mipShift.window
                         /\ observed[s] \in 0..MaxCalls
                         /\ rate[s].count \in 0..MaxCalls
                         /\ budget[s].spent \in Nat
  /\ setup \in Deployments /\ calls \in 0..MaxCalls

----------------------------------------------------------------------------
(* Refusals. *)

RefusedBy(c) ==
  ({iit[c].by, nonIit[c].by} \ {"none"}) \cup (IF auth[c] = "refused" THEN {"auth"} ELSE {})

\* The ways to refuse a call that no decision or evaluation tells of: the quotas
\* and a failing calculatePhi, the guards that raise GuardError themselves, and
\* the two plugins that are not guards.
Silent == {"rate-limit", "budget-exhausted", "calculatePhi",
           "boundary-frontier", "ces-fingerprint", "catastrophe-cusp",
           "policy-engine", "auth"}

Blocks(records) == {i \in DOMAIN records : records[i][2] = "block"}

\* The guard plugins wired: each tells of a call it passes.
Guards == Range(wired) \ {"auth"}

\* What the iit-guard.decision and policy/evaluate events say of a call agrees with
\* what became of it: a call that runs is told as one pass by each guard plugin
\* wired and has no block; a block is the last that is told of a call, and the
\* call is refused; and of the refused calls exactly those that one of the silent
\* ways refused have no block told of them.
RecordsMatchOutcomes ==
  \A c \in Callers :
    /\ Passed(c) => /\ Blocks(decisions[c]) = {} /\ Blocks(evaluations[c]) = {}
                    /\ Len(evaluations[c]) = Cardinality(Guards)
    /\ Blocks(evaluations[c]) \subseteq {Len(evaluations[c])}
    /\ Blocks(decisions[c]) \subseteq {Len(decisions[c])}
    /\ IsRefused(c) =>
         /\ Cardinality(RefusedBy(c)) = 1
         /\ (Blocks(decisions[c]) \cup Blocks(evaluations[c]) = {}) <=> RefusedBy(c) \subseteq Silent

\* phi-threshold and boundary-frontier fail closed: whatever the other calls, the
\* cache and the policy do, a call that guards-iit has passed has a phi of its own
\* that is not below the minimum, if it has one, and a TPM whose phi could be
\* computed and is below neither limit, if it has one.
PhiFailsClosed ==
  \A c \in Callers : iit[c].status = "passed" =>
    /\ ~Below(event[c].phi, Cfg.minPhi)
    /\ event[c].tpm # Undefined =>
         /\ PhiOf[event[c].tpm] # Undefined
         /\ ~Below(PhiOf[event[c].tpm], Cfg.minPhi)
         /\ ~Below(PhiOf[event[c].tpm], Cfg.boundaryFrontier.minBoundaryPhi)

\* In one minute fewer calls of a session pass its rate limit than the limit says,
\* and the calls that run never cost more than its budget, whatever the
\* interleaving of the calls and whatever becomes of those that were charged.
QuotasHold ==
  \A s \in Sessions :
    /\ admitted[s] < NonIitCfg.maxRequestsPerMinute
    /\ (\E i \in DOMAIN wired : wired[i] = "nonIit") => charged[s] <= NonIitCfg.maxSpendPerSession

\* Nothing is evicted but the key used least recently, and only to make room for
\* a key that is not there: two calls that both miss one key and both compute it
\* cost the cache one entry, not two.
EvictsOnlyWhenFull ==
  [][Range(cache) \ Range(cache') # {} =>
       /\ Len(cache) = CacheMax
       /\ Range(cache) \ Range(cache') = {Head(cache)}
       /\ Range(cache') \ Range(cache) # {}]_cache

----------------------------------------------------------------------------
(* What the documentation says, and the code does not do. *)

\* docs/guards-iit-internals.md:11: causal-emergence "blocks below
\* `minEffectiveness` or above `maxDegeneracy`".  Without the severity that
\* getGuardConfig does not hand on, the guard only warns.
EmergenceBlocks ==
  \A c \in Callers : iit[c].status = "passed" /\ event[c].tpm # Undefined =>
    ~ \/ Below(event[c].effectiveness, Cfg.causalEmergence.minEffectiveness)
      \/ Above(event[c].degeneracy, Cfg.causalEmergence.maxDegeneracy)
=============================================================================
