--------------------------- MODULE GatewayPlugins ---------------------------
(***************************************************************************)
(* The gateway/request waterfall: dsh-cost-tracker, around dsh-sla-monitor,*)
(* around dsh-secrets, around the request itself.  Requests run            *)
(* concurrently; each hook runs without interruption up to its next await. *)
(***************************************************************************)
EXTENDS Integers, Sequences, FiniteSets

CONSTANTS
  Requests,    \* concurrent gateway/request events
  Keys,        \* names of secrets
  Usages,      \* the usage a request's event or result carries
  Absent,      \* undefined: a variable, a field of a usage
  WindowMax,   \* latencies the monitor keeps
  MaxRequests, \* bound: requests made
  MaxVaultOps  \* bound: changes of the vault and the monitor

ASSUME GatewayAssumption ==
  IsFiniteSet(Requests) /\ WindowMax \in Nat \ {0} /\ MaxRequests \in Nat

VARIABLES
  env,       \* process.env: key -> "own" value, "secret" or Absent
  env0,      \* history: process.env as the operator set it
  vault,     \* keys the provider holds
  injected,  \* SecretsService.injectedKeys
  request,   \* request[r]: stage, usage, and the snapshot secrets took of env
  latencies, \* SlaMonitor.latencies
  alerts,    \* SlaMonitor.alerts, the p99 of each
  rows,      \* CostTracker.rows, the tokens of each
  stored,    \* rows PostgreSQL accepted
  lost,      \* rows it refused: the rejection is swallowed
  made, vaultOps,
  answered,  \* history: requests that were answered with something to charge
  observed,  \* history: requests that came to an end
  overlapped \* history: a request began during another, or clear took something in use

gatewayVars == <<env, env0, vault, injected, request, latencies, alerts, rows, stored, lost,
                 made, vaultOps, answered, observed, overlapped>>

Idle == [stage |-> "idle", usage |-> Absent, snap |-> <<>>]

GatewayInit ==
  /\ env0 \in [Keys -> {"own", Absent}] /\ env = env0
  /\ vault = {} /\ injected = {}
  /\ request = [r \in Requests |-> Idle]
  /\ latencies = <<>> /\ alerts = <<>>
  /\ rows = <<>> /\ stored = 0 /\ lost = 0
  /\ made = 0 /\ vaultOps = 0 /\ answered = 0 /\ observed = 0
  /\ overlapped = FALSE

Running == {r \in Requests : request[r].stage = "running"}

----------------------------------------------------------------------------
(* Tokens: total ?? (prompt + completion), or else input + output. *)

OrZero(x) == IF x = Absent THEN 0 ELSE x

Tokens(u) ==
  LET total == IF u.total # Absent THEN u.total ELSE OrZero(u.prompt) + OrZero(u.completion)
  IN IF total # 0 THEN total ELSE OrZero(u.input) + OrZero(u.output)

\* A usage without a total is charged even when it comes to nothing; one whose
\* total is 0 is not, whatever its other fields say.
IsMetered(u) == u # Absent /\ u.total # 0

----------------------------------------------------------------------------
(* p99 of the window: the sample at ceil(0.99 n) - 1 of the sorted ones. *)

Slow == 2001
Fast == 5
P99(window) ==
  LET n == Len(window)
      rank == (99 * n + 99) \div 100
  IN CHOOSE x \in {window[i] : i \in 1..n} :
       /\ Cardinality({i \in 1..n : window[i] < x}) < rank
       /\ Cardinality({i \in 1..n : window[i] <= x}) >= rank

\* Mutant: no sample is ever shifted out.
WholeWindow(ms) == Append(latencies, ms)

Window(ms) ==
  LET pushed == Append(latencies, ms)
  IN IF Len(pushed) > WindowMax THEN Tail(pushed) ELSE pushed

Check(p99) == IF p99 > 2000 THEN Append(alerts, p99) ELSE alerts

ObserveLatency(ms) ==
  /\ latencies' = Window(ms)
  /\ alerts' = Check(P99(Window(ms)))

----------------------------------------------------------------------------
(* A request. *)

\* The hooks up to next: the secrets are injected into process.env.
Begin(r, usage) ==
  /\ request[r].stage = "idle" /\ made < MaxRequests
  /\ made' = made + 1
  /\ injected' = injected \cup vault
  /\ request' = [request EXCEPT ![r] =
       [stage |-> "running", usage |-> usage, snap |-> [k \in vault |-> env[k]]]]
  /\ env' = [k \in Keys |-> IF k \in vault THEN "secret" ELSE env[k]]
  /\ overlapped' = (overlapped \/ Running # {})
  /\ UNCHANGED <<env0, vault, latencies, alerts, rows, stored, lost, vaultOps, answered, observed>>

\* Mutant: process.env is only restored when the request was answered.
RestoreOnSuccess(r, ok) ==
  IF ~ok THEN env
  ELSE [k \in Keys |-> IF k \in DOMAIN request[r].snap THEN request[r].snap[k] ELSE env[k]]

\* The finally block, which runs either way.
Restore(r, ok) ==
  [k \in Keys |-> IF k \in DOMAIN request[r].snap THEN request[r].snap[k] ELSE env[k]]

\* Mutant: the spend is recorded whether or not the request was answered.
AlwaysRecord(r, ok) ==
  IF IsMetered(request[r].usage)
    THEN /\ rows' = Append(rows, Tokens(request[r].usage))
         /\ request' = [request EXCEPT ![r] = [Idle EXCEPT !.stage = "recording"]]
    ELSE UNCHANGED rows /\ request' = [request EXCEPT ![r] = Idle]

\* The cost tracker after next: a row is pushed, and its insert awaited.
Record(r, ok) ==
  IF ok /\ IsMetered(request[r].usage)
    THEN /\ rows' = Append(rows, Tokens(request[r].usage))
         /\ request' = [request EXCEPT ![r] = [Idle EXCEPT !.stage = "recording"]]
    ELSE UNCHANGED rows /\ request' = [request EXCEPT ![r] = Idle]

\* The request is answered, or throws, after ms; the three hooks conclude.
End(r, ok, ms) ==
  /\ request[r].stage = "running"
  /\ env' = Restore(r, ok)
  /\ ObserveLatency(ms)
  /\ Record(r, ok)
  /\ answered' = answered + (IF ok /\ IsMetered(request[r].usage) THEN 1 ELSE 0)
  /\ observed' = observed + 1
  /\ UNCHANGED <<env0, vault, injected, stored, lost, made, vaultOps, overlapped>>

\* The insert settles; a rejection is swallowed, and the answer goes out.
InsertSettles(r, ok) ==
  /\ request[r].stage = "recording"
  /\ request' = [request EXCEPT ![r] = Idle]
  /\ stored' = stored + (IF ok THEN 1 ELSE 0)
  /\ lost' = lost + (IF ok THEN 0 ELSE 1)
  /\ UNCHANGED <<env, env0, vault, injected, latencies, alerts, rows, made, vaultOps, answered,
                 observed, overlapped>>

----------------------------------------------------------------------------
(* The services behind the hooks. *)

SetOrDelete(k) ==
  /\ vaultOps < MaxVaultOps /\ vaultOps' = vaultOps + 1
  /\ vault' = IF k \in vault THEN vault \ {k} ELSE vault \cup {k}
  /\ UNCHANGED <<env, env0, injected, request, latencies, alerts, rows, stored, lost, made,
                 answered, observed, overlapped>>

\* clear: every key that was ever injected is deleted from process.env, the
\* operator's own value of it too.
ClearSecrets ==
  /\ vaultOps < MaxVaultOps /\ vaultOps' = vaultOps + 1
  /\ env' = [k \in Keys |-> IF k \in injected THEN Absent ELSE env[k]]
  /\ injected' = {} /\ vault' = {}
  /\ overlapped' = (overlapped \/ Running # {} \/ \E k \in injected : env0[k] # Absent)
  /\ UNCHANGED <<env0, request, latencies, alerts, rows, stored, lost, made, answered, observed>>

ClearMonitor ==
  /\ vaultOps < MaxVaultOps /\ vaultOps' = vaultOps + 1
  /\ latencies' = <<>> /\ alerts' = <<>>
  /\ UNCHANGED <<env, env0, vault, injected, request, rows, stored, lost, made, answered,
                 observed, overlapped>>

GatewayStep ==
  \/ \E r \in Requests :
       \/ \E u \in Usages : Begin(r, u)
       \/ \E ok \in BOOLEAN : (\E ms \in {Fast, Slow} : End(r, ok, ms)) \/ InsertSettles(r, ok)
  \/ \E k \in Keys : SetOrDelete(k)
  \/ ClearSecrets \/ ClearMonitor

----------------------------------------------------------------------------
GatewayTypeOK ==
  /\ env \in [Keys -> {"own", "secret", Absent}]
  /\ vault \subseteq Keys /\ injected \subseteq Keys
  /\ \A r \in Requests : request[r].stage \in {"idle", "running", "recording"}
  /\ Len(latencies) <= WindowMax /\ Len(alerts) <= observed
  /\ Len(rows) <= MaxRequests

\* When no two requests overlap and clear deletes nothing of the operator's own,
\* every secret is in process.env while a request runs, and nothing of them is
\* left when none does, failed requests included.
SerialRequestsLeaveNoTrace ==
  ~overlapped => /\ Running = {} => env = env0
                 /\ \A r \in Running : \A k \in DOMAIN request[r].snap : env[k] = "secret"

\* Every answered request with something to charge has one row and every row an
\* insert that settled or is awaited; a failed request has none.  While the window
\* holds less than a hundred samples, a slow one has raised an alert.
EveryRequestIsAccountedFor ==
  /\ Len(rows) = answered
  /\ stored + lost + Cardinality({r \in Requests : request[r].stage = "recording"}) = Len(rows)
  /\ Len(latencies) < 100 /\ (\E i \in DOMAIN latencies : latencies[i] = Slow) => alerts # <<>>
=============================================================================
