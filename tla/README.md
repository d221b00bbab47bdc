# A TLA+ verification of dsh-enterprise

This directory holds TLA+ models of the parts of the repository whose
correctness depends on interleavings, failures and stale reads, the TLC
configurations that check them on small instances, and proofs that TLAPS checks
for every instance. `PROJECT.json` maps every definition to the source lines it
stands for, lists the hazards of the code with the properties that cover them,
and gives for every property a plausible bug that the property detects.

To check a model: `tlc -workers 2 -config MCx.cfg MCmodule.tla`. To check a proof:
`tlapm XProofs.tla`.

## 1. The system

The repository is a TypeScript monorepo of plugins for an agent harness. A
plugin registers services (`ctx.effect`), listens to events (`ctx.on`) and emits
them (`ctx.emit`, `ctx.waterfall`); all plugins of a process share one event loop,
so two pieces of code interleave exactly at an `await`. Several processes share
PostgreSQL and Redis.

| component (packages/...) | state it keeps | operations | talks to |
|---|---|---|---|
| `watchtower` plugin | Map of open sessions, the tip of the in-memory chain | collect a decision, seal at session end, on SIGTERM, on request | listens to `policy/evaluate` and `session/end`; calls `insertReceipt` and `setGenesisHash`; emits `watchtower/receipt` |
| `watchtower` receipts | none | seal a receipt, verify a list | |
| `watchtower` job | none between runs | join runs with GitHub, chain and insert receipts, approve | database, GitHub |
| `gateway` | budget definitions, their cache, spend counters, envelopes | register, clear, look up, check, reserve | wraps `ctx.llm.generate` |
| `session-persistence-postgres` | sessions, session_events, receipts, the genesis row; a revision per loaded session | create, delete, load, append, repair; NOTIFY forwarding; receipts and migrations | PostgreSQL, the coordinator of every node |
| `session-collaboration` | collaborator rows, presence keys and set, one cursor connection per session | session created, join, leave, handoff, presence, watch | PostgreSQL, Redis, Yjs |
| `guards-iit`, `guards-non-iit` | LRU cache of phi results; rate and budget counters | run the guards around a tool call | emit `policy/evaluate` and `iit-guard.decision` |
| `aar-bridge` | buffer of decisions per session | buffer, score with a sidecar or locally | listens to `iit-guard.decision` |
| `sandbox-runner` | phase recorder of a run | measure nine phases, redact | `ctx.audit.emit` |
| `dsh-secrets` | injected keys, `process.env` | put secrets into the environment for one request | wraps `gateway/request` |
| `dsh-audit-log` | hash-chained entries | append, verify, mirror events | listens to events |
| `dsh-sla-monitor` | sliding windows, alerts | record, evaluate | listens to events |
| `sovereignty`, `dsh-policy-engine`, `dsh-permissions`, `auth`, `identity/auth` | rules, roles, approvals | decide one request | hooks |
| `chains`, `session-protocol` | none | validate one event | |
| `kb-rag`, `dsh-mneme`, `dsh-library`, `model-registry`, `dsh-model-router`, `dsh-local-llm` | in-memory maps | store and look up | |
| `dsh-git-worktree`, `dsh-pr-agent`, `dsh-release` | none | subprocesses and GitHub | |
| `dsh-cost-tracker`, `dsh-otel`, `compliance-erasure`, `resilience`, `sbom` | accumulators | record, export | |
| `sdk`, `mcp`, `cli` | none | front ends | |
| `iit-core` (Rust) | none | floating-point kernels | |

What is hard, and which property makes the component correct:

* **Receipts.** A session's receipt names the tip as it was when the session was opened or
  whatever hash the caller of a flush passes, an awaited flush seals a receipt whose array
  of dispositions others still write, and the two database calls of the synchronous path
  are not awaited. Correct means: what is sealed is what was decided, once, and the
  receipts are chained.
* **Budgets.** The check and the reservation are separated by an await. Correct
  means: nothing reserved is lost, and a limit is exceeded by a bounded amount.
* **Session store.** The revision that is checked is a transaction id of a row
  version; repairs check nothing; seqs are computed from a maximum read earlier.
  Correct means: the log is append-only in its numbering, and an append whose
  session object is out of date is rejected.
* **Collaboration.** Three stores are written one statement at a time without a
  transaction. Correct means: one owner, and stores that agree when nothing is
  under way.
* **Hourly job.** The scheduler does not wait for the last job; the tip is read once
  and then advanced in memory; an insert may be refused by a trigger or stored
  without an answer. Correct means: one receipt per run, in one chain.
* **Guards.** A call is judged in pieces between awaits, against windows, counters and a
  cache that all calls share, by guards that get a configuration rebuilt by name, next to
  an auth plugin and a policy listener that refuse calls too. Correct means: what is
  recorded of a call agrees with what became of it, a call passes only with a phi above
  the limits, quotas hold for any interleaving, and the cache gives up nothing it need
  not.
* **AAR bridge.** The buffer a score answers for is deleted after an await, while the
  listener goes on writing to it. Correct means: each decision is scored once, and a
  silent sidecar holds nobody up.
* **Sandbox runner.** Reporting a phase may fail in every way an audit service allows.
  Correct means: it never decides what becomes of the run.
* **Hooks of `gateway/request`.** Requests snapshot and restore one `process.env`; rows are
  inserted by promises nobody awaits. Correct means: no secret stays behind, and every
  answered request is charged once.
* **Permissions, policy and audit log.** A resource may change hands between two checks of
  one call; entries hold references and are hashed by value. Correct means: nobody
  approves what is one's own, and the log verifies while what it refers to is unchanged.
* **Session feed.** Every notification starts a query of its own, on connections that may
  be lost, for subscribers that may leave meanwhile. Correct means: a handler is told
  only of committed events, each once per connection, in order unless queries cross.

## 2. The modules

A caller, a request or a node is an element of a constant set; the data is cut
down to what the properties tell apart. An action is the code between two awaits
(or one SQL or Redis statement), so TLC interleaves exactly what the event loop,
the database and the other processes can interleave.

| module | models | checked by | proved in |
|---|---|---|---|
| `ReceiptChain` | `receipts.ts`: seal, verify | with the collector and the job | |
| `ReceiptCollector` | `watchtower/src/plugin.ts` | `MCReceiptCollector` | `ReceiptCollectorProofs` |
| `WatchtowerJob` | `watchtower/src/job.ts`, the receipts table of `backend.ts`, migration 003 | `MCWatchtowerJob` | `WatchtowerJobProofs` |
| `GatewayBudgets` | `gateway/src/budgets.ts` and `plugin.ts` | `MCGatewayBudgets` | `GatewayBudgetsProofs` |
| `SessionStore` | `backend.ts` and `coordinator.ts` of the PostgreSQL store | `MCSessionStore` | `SessionStoreProofs` |
| `EventLog` | the abstract specification `SessionStore` implements | `MCSessionStore` | `SessionStoreProofs` |
| `Collaboration` | `service.ts`, `presence.ts`, `cursors.ts` | `MCCollaboration` | `CollaborationProofs` |
| `GuardFormulas` | the verdict of each guard, and of the `iit-core` function behind it | with the pipeline | `GuardPipelineProofs` |
| `IitGuards` | `guards-iit`: `guard-runner.ts`, `cache.ts`, `session-events.ts` | with the pipeline | `GuardPipelineProofs` |
| `NonIitGuards` | `guards-non-iit`: `guard-runner.ts`, `rate-limit.ts`, the providers, policy | with the pipeline | `GuardPipelineProofs` |
| `GuardPipeline` | a tool call through both runners and `auth`, with `dsh-policy-engine` in the waterfall of `guards-iit` | `MCGuardPipeline` | `GuardPipelineProofs` |
| `AarBridge` | `aar-bridge/src/plugin.ts` | with the host | `HostPluginsProofs` |
| `SandboxRun` | `sandbox-runner/src/phases.ts` and `plugin.ts` | with the host | `HostPluginsProofs` |
| `GatewayPlugins` | `dsh-secrets`, `dsh-sla-monitor`, `dsh-cost-tracker` | with the host | `HostPluginsProofs` |
| `Governance` | `auth`, `dsh-permissions`, `dsh-policy-engine`, `dsh-audit-log` | with the host | `HostPluginsProofs` |
| `SessionFeed` | start, migrations, NOTIFY, subscriptions and end of the PostgreSQL store | with the host | `SessionFeedProofs`, `HostPluginsProofs` |
| `HostPlugins` | these five side by side | `MCHostPlugins` | `HostPluginsProofs` |

Operators whose comment begins with "Mutant:" model a plausible bug. They are not
part of any specification; each stands before the definition it would replace.

### ReceiptCollector

`states` is the heap of `SessionReceiptState` objects and `collector` the Map that
refers to them, because a receipt keeps a reference to its object's
`guardDispositions`: `Current(r)` is what a holder of the receipt reads now.
`OnPolicyEvaluate` is the whole handler (`upsertSession` included). `SessionEnd` and
`Sigterm` are the synchronous path, whose unawaited calls wait in `writes` and may
complete or be rejected in any order. `FlushInMemory` is the awaited path without
a backend, one step since it awaits nothing; with one it is `FlushBegin`,
`FlushInsert` and `FlushEnd`, with `FlushFails` for a rejected await. Each takes the
public `prevHashOverride`: absent, the empty string or any hash of `Overrides`, sealed
as it comes. An empty one sends the call to the backend for its last receipt first
(`FlushAsksLast`, `FlushLast`), which may be one that another writer, the hourly job or
an earlier process, has stored (`StoredByOthers`); without a backend it is sealed as it
is, since `??=` replaces only an absent value. `how` remembers where a receipt's
prevHash came from. Nothing in the repository passes an override, but
the service offers it to every plugin. A digest is an
injective constructor. The phi snapshot, the agent and the cost of a receipt are
payload and left out. What the database makes of an insert (the trigger of
migration 003 among others) is left open: it may store the row or reject.

### WatchtowerJob

A job is a row of `jobs` with its next await: `JobFind` (the runs), `JobTip`
(`listReceipts`), `JobJoin` (GitHub), `JobInsert`, `JobRefused` or `JobFails` (the
insert), `JobPost` (the check run). The two GitHub requests are one step, because the
job neither reads nor writes anything of ours between them. `TriggerAdmits` is the
function of migration 003, evaluated as the AFTER trigger evaluates it: on the table
that already holds the new row. `Latest` keeps the choice ORDER BY leaves between
rows with the same built_at. Nothing in the repository writes the outcome of a run
back, so `joined` is open; `Migrate` may come at any time. A row is what was sealed:
the two columns the table lacks are a hazard of their own. `approveNeedsHuman`
stores nothing and posts for an empty commit, so it has no action.
`lapses` is bookkeeping for the properties and no action reads it.

### GatewayBudgets

`ApplicableBudgets` runs to the first await of `generate`, `Refuse` or `Admit` after it,
`Settle` when the model answers or throws. `calls[c].states` is what the call read. The
registry operations are actions of their own, as other plugins may run them between any
two awaits. An organisation's or project's id is a sequence of pieces, one of which may be
a colon, so that `CacheKey` joins them as the code does and different requests may have
one key: no project and the project "none", or a colon that moves from one id to the
other. `SharesKey` are the requests of one key. The clock counts hours, and the code's 30
s TTL is one unit of it: only whether an entry has expired matters to the properties.
`clearSpendCounters`, `adjustBudgetReservations` and `addBudgetSpend` are exported but
nothing outside the tests calls them, so no action does.

### SessionStore

One session, with coordinators on several nodes. `row`, `events` and `lastXid` are the
database; `lock` and `shares` the row locks that matter (FOR UPDATE, and the KEY SHARE
an inserted event takes on its session through its foreign key); `local` is what a
node's session object says. Each SQL statement is one action at READ COMMITTED.
`int8AsText` is the driver's choice for `MAX(seq)`: by default `pg` returns bigint as
text, and `'5' + 1` is `'51'`. The cast of `xmin` to bigint is taken to work. The
identity check `currentRevision !== expectedRevision` is modelled on equal types.

`EventLog` is what the callers rely on: a log that is created once, grows at its end by
batches whose numbers never go back, and is deleted as a whole; and nobody is told of a
batch that is not in it. Locks, revisions and transactions do not appear there. The
refinement maps `exists` to the row's existence, `log` to `events` and `told` to the
views of the nodes' session objects; a commit is `AppendBatch`, the return of a call or
the end of a load is `Tell`, and every other step stutters.

### Collaboration

A call is a sequence of statements, `call[p].at` its next one. A statement may be
rejected (`Rejected`: the exception leaves the call), the process may stop (`Crash`),
a presence key may expire (`Expire`). Watchers, subscriptions, `refreshPresence` and
the content of presence and cursors are left out. `history` is bookkeeping for the
properties and no action reads it.

### GuardPipeline

`GuardPipeline` instantiates the two runners over one event per caller, next to `auth`,
which the enterprise configuration enables too. `wired` is which of the three plugins
judge a call and in which order: where the host's tools service has a guard function,
the plugin applied last replaces the others' function and is alone; otherwise those that
are applied listen, in the order in which the services they inject arrived. `AuthGuard`
refuses a call that names a principal, an action and a resource when
`checkPermission` says no or a listener to its event throws; `Governance` has the rules.
`IitEnter` is the `policy/evaluate` waterfall that `runGuards` awaits first. The
policy engine listens to it (`PolicyRefuses`: a phi below the minimum, a region that
forbids egress) and `policyAt` says when: before the runner's own listener, after it, or
never, which happens when `watchtower`'s listener comes before it, since that one does
not call `next`. `Deployments` is the set of these arrangements that a run looks at.
Within a runner an action reaches to the
next await: in `IitGuards` the probe of the cache, the computation of phi and each guard
that awaits, in `NonIitGuards` each question to the evaluation provider, whose failure is
an answer too. `GuardFormulas` holds the verdicts. Numbers are integers in hundredths and
quotients are compared by cross-multiplication, so that thresholds are exact and only the
code's rounding is left out. What `iit-core` computes is a value of the payload or of
`PhiOf`; what the WASM boundary does to it (a JavaScript `Map` where the caller reads a
property, an object where it expects a number) is part of the formulas.

### HostPlugins

The five modules share no variable, so a behaviour of the host is five behaviours that
do not see each other; `scene` picks the one to follow. That keeps one run and one proof
for the host without multiplying the state spaces.

* `AarBridge`: the listener, `scoreSession` up to its `fetch`, the response, its end, the
  abort timer, `scoreSessionSync`. Payloads of `guards-iit` carry no session id, so there
  is one buffer; a decision is counted by its disposition.
* `SandboxRun`: `measure`, `start`, `finish` and `fail` of each phase, over an
  `audit.emit` that returns a promise, returns nothing or is missing, as it is in the
  audit service `dsh-audit-log` itself provides.
* `GatewayPlugins`: one action from the start of a request to its await, one from its
  settling to the end of the three hooks, one for the insert of the cost row. The window
  and the rank of the percentile are the code's; a latency is fast or slow.
* `Governance`: a call is asked, then refused, trusted or judged again; the resource's
  owner may change in between. A hash is everything the entry says, by value.
* `SessionFeed`: `initialize`, which `index.ts` calls twice, migrations that may have
  been applied by hand, two LISTEN connections that may be lost, one query per
  notification, the handlers, and the generator of `getRealtimeEvents` with its timer. A
  commit is atomic here; `SessionStore` has what precedes it.

## 3. What the runs show

Bounds are chosen so that two actors can be between any two of their steps, and
so that what needs a third step (a session opened after a receipt, a fourth call
after three) still fits. Symmetry is used on interchangeable callers and nodes
only, and never in a run that checks liveness; *ImplementsEventLog* is a safety
property that treats all nodes alike. Deadlock is not checked: the bounds stop every
model, and the code itself may stop being called.

One run checks liveness, `host_plugins`, under the fairness `Timers`: weak fairness of
`TimesOut`, the abort timer of a request to the sidecar, and of `Poll`, the timer that
looks into a stream's queue. The event loop runs the callback of a timer that is due, so
that is what the platform promises. Nothing is assumed of the sidecar, of `fetch`, of the
database or of those who call. The other runs check safety and assume no fairness.

| run | instance | distinct states | property: what it says |
|---|---|---|---|
| `receipts` | 2 sessions, 1 guard that passes or blocks, 2 awaiting callers that override nothing, with the empty string or with a stored hash; 3 state objects and receipts and 2 clock values without a backend, 2 and 1 with one (all rows then are the last by built_at) | 0.8 million | below |
| `hourly_job` | 2 jobs that may overlap and recur without bound, 2 runs (one with a builtAt of its own), 2 clock values, 2 rows | 1.1 million | below |
| `budgets` | 2 concurrent calls, 4 requests of which two pairs share a key; an organisation budget that may be replaced, a project budget; cache of one entry; 2 windows | 0.5 million | below |
| `session_store` | 2 nodes, 2 calls, 2 batches of 2 events, 3 transactions | 1.4 million | below |
| `collaboration` | 2 users, 2 calls in flight, 4 in all | 1.7 million | below |
| `guard_pipeline` | 2 callers, 3 calls, 7 payloads, 4 matrices of which one cannot be computed, cache of 2, windows of 3, 3 requests a minute; 5 deployments, in which auth and the policy engine stand at every place and each guard plugin also judges alone | 0.5 million | below |
| `host_plugins` | 2 scorers, 4 decisions, 2 scores; 2 concurrent requests, 3 in all, one secret, a window of 2; 7 calls of 3 kinds, 2 users, 2 log entries; 1 handler or the stream, 2 events, 2 connections | 0.3 million | below |

`receipts`
: *SequentialSessionsChain*: without a backend and without overlapping sessions, each
  receipt has the content that was hashed and follows the one before it unless its caller
  overrode prevHash; where nobody did, `verifyChain` accepts the list.
  *PrevHashIsMintedBefore*: with overlap, and whatever other callers override, a prevHash
  not given by the caller is genesis, a receipt minted before, or one of another
  writer's that the backend answered, so such receipts form a tree. Of a receipt whose
  caller chose the hash nothing can be said, and nothing is.
  *SealedReceiptsIntact* and *EveryDecisionAttestedOnce*:
  for every session nobody flushed with an awaiting call, content and hash agree and
  each decision is attested once. The condition is necessary: TLC finds both broken
  for a session that an awaiting caller flushes while decisions arrive.
  *AwaitedTipIsStored*: the genesis row points to a stored receipt or to one of the
  synchronous path.

`hourly_job`
: *NoDanglingPrevHash*: whatever overlaps or fails, a stored receipt chains on one
  stored before it. *SerialJobsChain*: the table verifies unless two jobs overlapped,
  a failed query made a job start from genesis, or a run came with a builtAt not
  after those stored. TLC finds a broken chain when either of the first two
  conditions is dropped; the third takes a third row, and with one job, three rows
  and no such condition TLC finds it too. The proof needs no bound.
  *RunsAttestedOnce*: where a receipt decides its run, jobs that do not overlap
  attest no run twice, also after a COMMIT whose answer was lost.
  *BlockedIsStored*: a commit is blocked only by a stored receipt. Two rows are
  enough for a chain within one job or over two, a fork and a double attestation.

`budgets`
: *OvershootBounded*: a counter exceeds its limit by at most one estimate per
  concurrent call. *NoLostReservation*: a counter is the number of admitted calls
  times the estimate. *CacheIsFresh*: what the cache answers is what filtering the registry
  gives for the request or, where another request has the same key, for that one.
  *AdmittedOnlyUnderLimit*: a call that reached the model found no exceeded budget among
  those of its request or of one that shares its key, so a collision may ask the wrong
  budgets but never skips the question.

`session_store`
: *ImplementsEventLog*: with calls that fail, lose their answer or meet a deletion, and
  although `commitRepair` numbers its events under no lock, the store implements
  `EventLog`; the primary key stops a number that was taken meanwhile.
  *AppendExcludesOthers*: from its revision check to its commit an append has the log to
  itself, because a commit needs the row and the row is locked.
  *LoadedRevisionDetectsWrites*: the two snapshots of `loadStored` are harmless for a
  session object that was just loaded. Two nodes and three transactions are what it
  takes for one call to write between two steps of another and for a third to meet the
  result.

`collaboration`
: *OwnerFlagBacked*, *SerialHandoffsKeepOneOwner*, *SerialCallsKeepTheOwner*: what
  remains true of the ownership without transactions, and under which conditions.
  *TidyUsersAgree*: the stores agree on every user whose calls neither overlapped nor
  were cut short, and no cursor connection speaks for a user who left.

`guard_pipeline`
: *RecordsMatchOutcomes*: a call that runs is told as one pass by each guard plugin that
  judged it, a block is the last thing told of a call that is then refused, and the
  refusals nobody tells of are exactly those of the quotas, of a failing phi computation,
  of the guards that raise `GuardError` themselves, of the policy engine and of auth.
  *PhiFailsClosed*: whatever the cache gives up, whoever computes and in which order the
  listeners stand, a call that `guards-iit` passes has no phi of its own below the minimum
  and no TPM whose phi cannot be computed or is below a limit. Most other guards are
  disarmed by the settings lost between runner and guards and by the answers lost at the
  WASM boundary (`emergence_blocks` below). *QuotasHold*: in a minute fewer calls pass
  than the limit says, since the counter is incremented before it is compared, and what
  runs never costs more than the budget. *EvictsOnlyWhenFull*: two calls that miss one key
  and both compute it cost the cache one entry.

`host_plugins`
: *SerialScoringLosesNothing*: every decision is scored, given up or buffered as long as
  none comes while the sidecar is at work; TLC finds the lost ones without the condition.
  *ScoreRequestsTimeOut*: a request that gets no response is aborted; one whose response
  has begun may hang, since the timer is cleared before the body is read.
  *ReportingIsBestEffort*: with a promise from `emit` no lost report decides a run; without
  one no run gets past its first phase. *SerialRequestsLeaveNoTrace*: the environment is
  restored after requests that did not overlap. *EveryRequestIsAccountedFor*: answered
  requests, rows and inserts agree; a slow sample has raised an alert as long as the
  window holds less than a hundred. *OwnersDoNotApprove*: in both wirings, whoever changed
  hands with whom. *TrailIsTrue*: the log verifies exactly while the owners it refers to
  are what they were. *FeedTellsTheLog*: what a handler is told next
  was committed while its connection listened, is new to it, and comes in commit order
  unless two queries were under way at once. *StreamIsServed*: a queued event reaches the
  consumer, and one that left is unsubscribed when an event comes.

Five runs end with a violation and document a disagreement of the code with what
the repository says of it:

| run | what TLC shows | what the repository says |
|---|---|---|
| `receipt_trigger` | the first receipt of an empty table is refused, because the trigger finds the row that is being inserted; with the trigger in place the table stays empty | `003_receipt_chain_integrity.sql:26`: "allow if table is empty" |
| `session_locking` | `SET revision = xmin` stores the replaced version's xmin, the caller is told the new one; an append then passes the check with an outdated session object | `backend.ts:293`: "Append a batch of events with optimistic locking" |
| `collaboration_owners` | two overlapping handoffs leave two owners | `service.ts:182`: "Verify fromUserId is current owner", and the header's single `ownerId` |
| `emergence_blocks` | a TPM whose effectiveness is below the minimum passes with a warning, because `causalEmergence` has no severity to hand on | `docs/guards-iit-internals.md:11`: "blocks below `minEffectiveness` or above `maxDegeneracy`" |
| `migrations` | a start with `runMigrations` on a new database fails and leaves nothing applied: 002 and 003 record themselves, so the runner's own INSERT meets the primary key and everything is rolled back | `types.ts:27`: "Run migrations on startup"; `backend.ts:131`: "Run pending migrations" |

Other statements of the repository that the code does not keep, read off the models and not
given a run of their own:

* `watchtower/src/invariant.ts:16`, "receipts chain is append-only with prevHash ===
  prev.hash": sessions open at the same time are sealed with one prevHash, which is why
  *SequentialSessionsChain* needs its condition and *PrevHashIsMintedBefore* promises a
  tree; and a caller of `flushSessionReceipt` may seal any prevHash.
* `budgets.ts:130`, "hard block when spent+estimated > limit": `generate` passes no
  estimate, so a budget blocks only once it has been exceeded; *OvershootBounded* says by
  how much.
* `budgets.ts:106`: ids are joined without escaping, so requests of different
  organisations or projects may share a cache entry and be asked each other's budgets.
* `docs/guards-iit-internals.md:100-101`, a severity of its own for each guard: of what
  `getGuardConfig` rebuilds only the settings of `effect-ethos` have one. The tests
  `integration.spec.ts:53` ("workspace-ignition blocks when ignited") and `:77`
  ("effect-ethos denies forbidden tool"): the real WASM module's answers are not of the
  shape these two guards read, so neither blocks outside a mock.
* `docs/guards-iit-internals.md:36`, a block emits `policy/evaluate` and throws: a call
  refused by the listener to the waterfall, by `GuardError` or by the policy engine emits
  none.

## 4. What is proved

All proofs are for every value of the constants under the named assumptions of the
modules, each evaluated by TLC in the runs: finite sets of callers where calls are
counted, natural bounds, payload records with their fields. Those that could be doubted:
`NoCallAssumption` (the marker of no call and no row is neither a call nor a kind of one);
`UndefinedAssumption` and `EventsAssumption` (JavaScript's `undefined` is no number, no
disposition, no session id and no TPM, the fields the runners index or add up have the
types the payload declares, and sessions without an id count as "default");
`CfgAssumption` and `NonIitCfgAssumption` (which fields the `Config` schemas have and that
windows and limits are natural numbers); and `DeploymentsAssumption` (the wirings are
those of three plugins, in any order and number, each with the policy asked first, last or
never), of which the run looks at five and the proofs at all. No assumption excludes a
collision of cache keys or a value of prevHashOverride. `maxRequestsPerMinute` is
positive, since with 0 the strict *QuotasHold* fails before the first call although every
call is refused.

Every safety and action property of the passing runs has its theorem; their two
liveness properties have none.

* `ReceiptCollectorProofs`: all six properties of the run. For *PrevHashIsMintedBefore*,
  *SealedReceiptsIntact* and *SequentialSessionsChain*, which are not inductive alone, the
  strengthening adds that every state object was opened with a prevHash already
  minted, that a receipt remembers where its prevHash came from, that an object out of the
  collector and never flushed with an await has
  no writer left, that unawaited writes and suspended flushes refer to minted
  receipts, and, without overlap, that the last minted receipt's hash is the tip
  and that the one live object was opened on it: an override breaks the link of its own
  receipt only, since the tip then is that receipt's hash. *SequentialReceiptsVerify* draws
  the conclusion for `verifyChain` itself. A second invariant on top of it gives
  the types, *EveryDecisionAttestedOnce* and *AwaitedTipIsStored*: unawaited writes come
  from the synchronous path, and a caller that is about to move the tip holds the receipt
  of a session that counts as raced, whose row is already there.
* `WatchtowerJobProofs`: all five properties of the run. *NoDanglingPrevHash* needs that
  what a job holds as prevHash is genesis or stored, and that a receipt it posts for
  is stored. *RunsAttestedOnce* needs that until jobs overlap only one is under way,
  that its list has no duplicates, and that what it has left is not attested.
  *SerialJobsChain* needs that the rows are strictly ordered by built_at, so the last
  by built_at is the last inserted, and that the job under way carries its hash.
* `GatewayBudgetsProofs`: type correctness, *OvershootBounded*, *NoLostReservation*,
  *CacheIsFresh*, *AdmittedOnlyUnderLimit*, for ids of any form, colliding ones included:
  an entry is the registry filtered for one of the requests of its key. The argument for
  the overshoot counts, for each counter, the calls that have read it at or below the
  limit and not yet reserved: the counter plus one estimate for each of them stays under
  the bound. It rests on the cardinality of finite sets.
* `CollaborationProofs`: all five properties of the run. For
  *SerialHandoffsKeepOneOwner* the strengthening says where an ownership is while
  a handoff is under way: after the demotion nobody is the owner, and only the one
  handoff can promote. For *SerialCallsKeepTheOwner* it adds that only one call is in
  flight, that whoever joins or leaves is not the owner, and that a handoff past its
  checks promotes a row that is still there. For *TidyUsersAgree* it says of a tidy user
  with one call in flight what each store already holds before each of its statements.
* `SessionStoreProofs`: type correctness, *AppendExcludesOthers*,
  *LoadedRevisionDetectsWrites* and the refinement, *ImplementsEventLog*. The
  strengthening has six parts and three threads. The lock: between its check and its
  commit an append owns the row, and every commit needs the row. The revision: it grows
  with each commit, so that an equal revision means nothing was committed since it was
  read. The numbers: a call that has read `MAX(seq)` has the next number still, or that
  of a batch committed since, and then the primary key stops it.
* `SessionFeedProofs`, `HostPluginsProofs`: all safety properties
  of `host_plugins`, *FeedTellsTheLog* included. Each of the five modules has an invariant
  of its own with four lemmas: it holds initially, every step of the module keeps it, so
  does a step that leaves the module's variables alone, and it implies the properties. The
  host's invariant is their conjunction. The bridge: while nothing overtakes, at most one
  scorer is served, and the sidecar was sent what is in the buffer. The runner: what is
  reported is in phase order up to the phase under way. The requests: the sets of those
  under way and of the awaited inserts change by one member at a time; only one snapshot
  exists at a time unless requests overlapped; and among less than a hundred samples the
  99th percentile is the largest. The audit log: an entry's hash is what it said when it
  was appended. The feed: on one connection, what was told precedes what is being fetched
  and that precedes what waits, and all of it is in the log.

* `GuardPipelineProofs`: all five properties of the run, from one invariant. A step of a
  runner is first reduced to what it may do to its call: go on, pass it, or refuse it by a
  guard that can. Which guards can is a lemma about the formulas alone (*Verdicts*), for
  every window and setting. *RecordsMatchOutcomes*: the blocks told of a call are a
  function of what became of it, so that a plugin that finds a call neither passed nor
  refused finds no block; a wiring is reduced to which plugins are in it, and a step of
  auth changes no record. *PhiFailsClosed* needs what a call under way has come to: once
  past the waterfall its own phi is not below the minimum, past phi-threshold its matrix
  could be computed and is not either, past boundary-frontier it reaches the limit there,
  and an answer that is ready, from the cache or computed, is that matrix's own.
  *EvictsOnlyWhenFull* needs that no key is in the cache twice: then a hit removes one key
  and puts it back. The bounds on the counters need that a counter and the calls that may
  still raise it are together at most the calls made. *QuotasHold*: what a session
  admitted in the current minute is at most what its counter counts, and a counter that
  lets a call pass is below the limit; for the budget, a call past the quotas owes its
  cost until it runs or is refused, and what was charged and what is owed are together at
  most what `budgetCounters` holds. The sum of what is owed is the cardinality of a set of
  pairs, one for each unit of cost, so that it needs no induction.

Model-checked only: *ScoreRequestsTimeOut* and *StreamIsServed*, which are liveness under
fairness and, with ENABLED, out of TLAPS's reach; and what the folds of `GuardFormulas`
compute (induction over data): the proofs use only which dispositions a formula can have,
not for which numbers. No module declares a RECURSIVE operator.

## 5. What is not modelled

`PROJECT.json` lists every component with the reason. Left out:

* **Numeric kernels.** Phi, effective information and the other floating-point functions
  of `iit-core` enter as values; rounding, and the prices of metering and cost rows, are
  out of TLC's reach.
* **Decisions without state.** RBAC tables, sovereignty, chains, session-protocol,
  `identity/auth`: one synchronous answer to one question, with nothing to interleave.
* **Maps and front ends.** `kb-rag`, `dsh-mneme`, `dsh-library`, model registry, router and
  local LLM, `sdk`, `mcp`, `cli`; subprocess and GitHub plugins; exporters and stubs.
* **Of modelled components.** Snapshots, listing and `updateSession` of the session store;
  the columns the receipts table lacks; watchers and subscriptions of the collaboration
  service and the content of presence and cursors; the budget functions nothing calls;
  the redaction of the sandbox runner, whose result the code drops.

Met while modelling, and part of the models rather than violations of a documented claim:

* a guard plugin that wraps an existing guard function never calls the one it replaced;
* a later `must` cancels a `forbid` on the same scope;
* the samples of `free-energy` are never trimmed;
* `clear` of the secrets deletes the operator's own variable of the same name, and the
  critical SLA alert is behind a test that always succeeds first;
* the waterfall of a permission check is advisory where `ctx.waterfall` is missing;
  approvals leave no entry in the audit log; the duplicate test of four eyes cannot fail;
* the second start of the backend leaks the first LISTEN
  client and doubles every notification; a lost LISTEN connection is not replaced.

## 6. Plan

Modelled first were the receipts, then the budgets, the session store, the collaboration
service and the job, then the guards, the small plugins and the feed. What is left, in
the order of importance:

1. Theorems beyond the properties of the runs: when a guard of `GuardFormulas` may
   block, as lemmas on its window and thresholds where no induction is needed.
2. The collector on the receipts table of the job: one module in which both writers chain
   on one table through the trigger of migration 003.
3. The watchers and subscriptions of the collaboration service, next to the feed.
