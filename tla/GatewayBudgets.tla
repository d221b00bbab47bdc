--------------------------- MODULE GatewayBudgets ---------------------------
(***************************************************************************)
(* The gateway plugin's decoration of ctx.llm.generate: read the budgets   *)
(* that apply to the caller's key, refuse when one is exceeded, reserve a  *)
(* flat estimate on each, call the model.  Every await lets other calls    *)
(* run, so what was read before the first one is stale when it is used.    *)
(*                                                                         *)
(* An organisation's or a project's id is a string, modelled as the        *)
(* sequence of its pieces; the piece ":" is the colon, which an id may     *)
(* contain and which the cache's key is joined with.                       *)
(*                                                                         *)
(* Time is counted in units in which the definition cache's TTL and the    *)
(* lengths of the periods are whole numbers.                               *)
(***************************************************************************)
EXTENDS Integers, Sequences, FiniteSets

CONSTANTS
  Defs,         \* budget definitions that may be registered
  Requests,     \* budget keys of requests: [org, project], ids
  NoProject,    \* the project of a request without one
  Callers,      \* concurrent calls of generate
  PeriodLength, \* period -> its length
  TTL,          \* BUDGET_TTL_MS
  CacheMax,     \* BUDGET_DEF_CACHE_MAX
  MaxNow,       \* bound: the clock
  MaxPaid       \* bound: calls admitted on one budget in one window

ASSUME DefsAssumption ==
  \A d \in Defs : d.limitCents \in Nat /\ d.period \in DOMAIN PeriodLength

ASSUME BoundsAssumption ==
  /\ IsFiniteSet(Callers) /\ TTL \in Nat \ {0} /\ CacheMax \in Nat \ {0}
  /\ MaxNow \in Nat /\ MaxPaid \in Nat
  /\ \A p \in DOMAIN PeriodLength : PeriodLength[p] \in Nat \ {0}

\* `${orgId}:${projectId ?? 'none'}`.  Different requests may have one key: no
\* project and the project "none", or a colon that belongs to the organisation
\* of one and to the project of the other.
CacheKey(r) ==
  r.org \o <<":">> \o (IF r.project = NoProject THEN <<"none">> ELSE r.project)

SharesKey(r) == {q \in Requests : CacheKey(q) = CacheKey(r)}

VARIABLES
  defs,       \* budgetDefs
  cache,      \* budgetDefCache: expiresAt 0 when there is no entry
  counters,   \* spendCounters: Absent when there is no entry
  now,        \* Date.now()
  calls,      \* caller -> the call it makes: where it waits, what it has read
  registered, \* history: every definition ever registered
  paid        \* history: calls admitted, by counter key

store == <<defs, cache>>
history == <<registered, paid>>
vars == <<defs, cache, counters, now, calls, registered, paid>>

Absent == -1
Estimate == 100

WindowStart(period, t) == <<period, t \div PeriodLength[period]>>

Windows == {WindowStart(p, t) : p \in DOMAIN PeriodLength, t \in 0 .. MaxNow}
CounterKeys == {d.id : d \in Defs} \X Windows
CacheKeys == {CacheKey(r) : r \in Requests}

NoEntry == [expiresAt |-> 0, defs |-> {}]
Idle == [pc |-> "idle", states |-> {}, open |-> TRUE]

Init ==
  /\ defs = {}
  /\ cache = [k \in CacheKeys |-> NoEntry]
  /\ counters = [k \in CounterKeys |-> Absent]
  /\ now = 0
  /\ calls = [c \in Callers |-> Idle]
  /\ registered = {}
  /\ paid = [k \in CounterKeys |-> 0]

Tick == now < MaxNow /\ now' = now + 1 /\ UNCHANGED <<store, counters, calls, history>>

-----------------------------------------------------------------------------
\* Definitions and their cache

NoCache == [k \in CacheKeys |-> NoEntry]

\* Mutant: the cache is left to expire by itself.
RegisterBudgetDefNoClear(d) ==
  /\ defs' = {e \in defs : e.id # d.id} \cup {d}
  /\ registered' = registered \cup {d}
  /\ UNCHANGED <<cache, counters, now, calls, paid>>

RegisterBudgetDef(d) ==
  /\ defs' = {e \in defs : e.id # d.id} \cup {d}
  /\ cache' = NoCache
  /\ registered' = registered \cup {d}
  /\ UNCHANGED <<counters, now, calls, paid>>

ClearBudgetDefs ==
  /\ defs' = {} /\ cache' = NoCache
  /\ UNCHANGED <<counters, now, calls, history>>

ClearBudgetCache ==
  /\ cache' = NoCache
  /\ UNCHANGED <<defs, counters, now, calls, history>>

Applies(d, r) ==
  /\ d.enabled /\ d.orgId = r.org
  /\ d.scope = "org" \/ (d.scope = "project" /\ d.projectId = r.project)

ApplicableDefs(r) == {d \in defs : Applies(d, r)}

Entries(ca) == {k \in CacheKeys : ca[k].expiresAt # 0}

\* Mutant: only the expired entries are dropped.
CacheBudgetDefsKeeps(ck, entry) ==
  LET unexpired == [k \in CacheKeys |-> IF cache[k].expiresAt <= now THEN NoEntry ELSE cache[k]]
      room == IF Cardinality(Entries(cache)) < CacheMax THEN cache ELSE unexpired
  IN  [room EXCEPT ![ck] = entry]

\* A full cache drops its expired entries, then everything if that was not enough.
CacheBudgetDefs(ck, entry) ==
  LET unexpired == [k \in CacheKeys |-> IF cache[k].expiresAt <= now THEN NoEntry ELSE cache[k]]
      room == IF Cardinality(Entries(cache)) < CacheMax THEN cache
              ELSE IF Cardinality(Entries(unexpired)) < CacheMax THEN unexpired
              ELSE NoCache
  IN  [room EXCEPT ![ck] = entry]

-----------------------------------------------------------------------------
\* One call of the decorated generate

CounterKey(d, window) == <<d.id, window>>
Spent(k) == IF counters[k] = Absent THEN 0 ELSE counters[k]

\* The state of budget d that a call starting now reads.
BudgetState(d) ==
  LET w == WindowStart(d.period, now)
  IN  [def |-> d, window |-> w, spentCents |-> Spent(CounterKey(d, w))]

Breached(s) == s.spentCents > s.def.limitCents

\* Up to the first await: the budgets of the request's key are looked up in
\* the cache or filtered anew, and their counters read.
ApplicableBudgets(c, r) ==
  LET ck    == CacheKey(r)
      hit   == cache[ck].expiresAt > now
      entry == IF hit THEN cache[ck]
               ELSE [expiresAt |-> now + TTL, defs |-> ApplicableDefs(r)]
  IN  /\ calls[c].pc = "idle"
      /\ cache' = IF hit THEN cache ELSE CacheBudgetDefs(ck, entry)
      /\ calls' = [calls EXCEPT ![c] =
           [pc |-> "read", states |-> {BudgetState(d) : d \in entry.defs},
            open |-> \E q \in SharesKey(r) :
                       \A d \in ApplicableDefs(q) : ~Breached(BudgetState(d))]]
      /\ UNCHANGED <<defs, counters, now, history>>

\* Mutant: refuse only when every budget is exceeded.
HardBudgetBlockAll(states) == states # {} /\ \A s \in states : Breached(s)

\* The plugin passes no estimate: a budget blocks once it is exceeded.
HardBudgetBlock(states) == \E s \in states : Breached(s)

Touches(states, k) == \E s \in states : CounterKey(s.def, s.window) = k

\* Mutant: the value read before the await is written back.
ReserveHardBudgetsStale(states) ==
  [k \in CounterKeys |->
    IF Touches(states, k)
    THEN (CHOOSE s \in states : CounterKey(s.def, s.window) = k).spentCents + Estimate
    ELSE counters[k]]

\* Every budget read is charged, on the counter as it is now; a counter that
\* has no entry starts from what the call had read.
ReserveHardBudgets(states) ==
  [k \in CounterKeys |->
    IF Touches(states, k)
    THEN (IF counters[k] # Absent THEN counters[k]
          ELSE (CHOOSE s \in states : CounterKey(s.def, s.window) = k).spentCents) + Estimate
    ELSE counters[k]]

\* After the await: refuse (the call throws), or reserve and go on to the model.
Refuse(c) ==
  /\ calls[c].pc = "read" /\ HardBudgetBlock(calls[c].states)
  /\ calls' = [calls EXCEPT ![c] = Idle]
  /\ UNCHANGED <<store, counters, now, history>>

Admit(c) ==
  LET states == calls[c].states IN
  /\ calls[c].pc = "read" /\ ~HardBudgetBlock(states)
  /\ \A k \in CounterKeys : Touches(states, k) => paid[k] < MaxPaid
  /\ counters' = ReserveHardBudgets(states)
  /\ paid' = [k \in CounterKeys |-> IF Touches(states, k) THEN paid[k] + 1 ELSE paid[k]]
  /\ calls' = [calls EXCEPT ![c] = [pc |-> "llm", states |-> states, open |-> calls[c].open]]
  /\ UNCHANGED <<store, now, registered>>

\* The model answers or throws; either way the reservation stays.
Settle(c) ==
  /\ calls[c].pc = "llm"
  /\ calls' = [calls EXCEPT ![c] = Idle]
  /\ UNCHANGED <<store, counters, now, history>>

-----------------------------------------------------------------------------
Next ==
  \/ Tick
  \/ \E d \in Defs : RegisterBudgetDef(d)
  \/ ClearBudgetDefs
  \/ ClearBudgetCache
  \/ \E c \in Callers, r \in Requests : ApplicableBudgets(c, r)
  \/ \E c \in Callers : Refuse(c)
  \/ \E c \in Callers : Admit(c)
  \/ \E c \in Callers : Settle(c)

Spec == Init /\ [][Next]_vars
-----------------------------------------------------------------------------
\* Definition ids are unique, the cache never outgrows its limit.
TypeOK ==
  /\ defs \subseteq Defs /\ registered \subseteq Defs /\ defs \subseteq registered
  /\ \A d, e \in defs : d.id = e.id => d = e
  /\ Cardinality(Entries(cache)) <= CacheMax
  /\ \A k \in CacheKeys : cache[k].expiresAt \in 0 .. MaxNow + TTL /\ cache[k].defs \subseteq Defs
  /\ DOMAIN counters = CounterKeys /\ \A k \in CounterKeys : counters[k] \in Nat \cup {Absent}
  /\ now \in 0 .. MaxNow
  /\ \A c \in Callers : calls[c].pc \in {"idle", "read", "llm"}

\* A counter exceeds the largest limit its budget was registered with by at
\* most one estimate per concurrent call: between a call's check and its
\* reservation the others may reserve too, but each of them only once.
OvershootBounded ==
  \A k \in CounterKeys : counters[k] # Absent =>
    \E d \in registered :
      d.id = k[1] /\ counters[k] <= d.limitCents + Estimate * Cardinality(Callers)

\* Although a call reserves after an await, no reservation is lost: a counter
\* is one estimate for every call admitted on it, none for a refused one.
NoLostReservation ==
  \A k \in CounterKeys : Spent(k) = Estimate * paid[k]

\* What the cache answers, within the TTL or beyond it, is what filtering the
\* definitions registered now gives for a request with that key: the request's
\* own budgets, unless another request shares its key, and then possibly the
\* other's (budgets.ts:106 joins the ids without escaping them).
CacheIsFresh ==
  \A r \in Requests : cache[CacheKey(r)].expiresAt # 0 =>
    \E q \in SharesKey(r) : cache[CacheKey(r)].defs = ApplicableDefs(q)

\* A call that reached the model found, when it started, none of the
\* registered budgets exceeded that apply to it or, if other requests share
\* its cache key, to one of those: the wrong budgets may be asked, never none.
AdmittedOnlyUnderLimit ==
  \A c \in Callers : calls[c].pc = "llm" => calls[c].open
=============================================================================
