-------------------------- MODULE ReceiptCollector --------------------------
(***************************************************************************)
(* The watchtower plugin: policy/evaluate events are collected per session *)
(* and sealed into a receipt when the session ends, when SIGTERM arrives,  *)
(* or when a caller awaits flushSessionReceipt, which takes an optional    *)
(* prevHashOverride and seals whatever hash its caller passes.             *)
(*                                                                         *)
(* A SessionReceiptState is an object that the collector Map and a receipt *)
(* in the making both refer to: `states` is the heap of these objects in   *)
(* the order they were opened (which is the Map's insertion order) and the *)
(* collector maps a session to one of them.  A receipt's guardDispositions *)
(* is the array of its state object, not a copy.                           *)
(***************************************************************************)
EXTENDS ReceiptChain, FiniteSets, TLC

CONSTANTS
  Sessions,    \* session ids, the 'default' of events without one among them
  Events,      \* policy/evaluate payloads: [guards, final]
  Callers,     \* concurrent awaits of flushSessionReceipt
  Overrides,   \* prevHashOverride arguments: absent, the empty string, hashes
  StoredByOthers, \* hashes of receipts the hourly job or an earlier process stored
  MaxStates,   \* bound: state objects opened, without and with a backend
  MaxReceipts, \* bound: receipts minted, without and with a backend
  MaxNow       \* bound: the millisecond clock, without and with a backend

ASSUME BoundsAssumption ==
  MaxStates \in [BOOLEAN -> Nat] /\ MaxReceipts \in [BOOLEAN -> Nat] /\ MaxNow \in [BOOLEAN -> Nat]

ASSUME SessionsAssumption == IsFiniteSet(Sessions)

ASSUME EventsAssumption ==
  \A ev \in Events : "guards" \in DOMAIN ev /\ "final" \in DOMAIN ev

VARIABLES
  states,      \* heap of SessionReceiptState objects
  collector,   \* session -> index into states, 0 when absent
  genesisHash, \* module variable: tip of the in-memory chain
  now,         \* Date.now()
  backend,     \* is there a postgresPersistenceBackend?
  minted,      \* history: receipts in the order generateReceipt returned them
  flushing,    \* caller -> the await it is suspended in
  writes,      \* database calls nobody awaits
  table,       \* rows of the receipts table, in insertion order
  tip,         \* receipt_genesis.value
  overlapped,  \* history: two sessions were collected at the same time
  raced        \* history: sessions flushed by an awaiting caller

memory == <<states, collector, genesisHash>>
database == <<writes, table, tip>>
history == <<overlapped, raced>>
vars == <<states, collector, genesisHash, now, backend, minted, flushing,
          writes, table, tip, overlapped, raced>>

Live == {s \in Sessions : collector[s] # 0}

Outcomes == {"accepted", "rejected"}

\* Mutant: the disposition is stored untranslated.
OutcomeUntranslated(final) == final

\* Everything that is not 'pass', an absent finalDisposition too, is rejected.
OutcomeFromDisposition(final) == IF final = "pass" THEN "accepted" ELSE "rejected"

NoOverride == <<"absent">>

EmptyHash == <<"empty string">>

\* The fields of a receipt's body, read off its state object; the run was put
\* together at time t.
Body(st, prev, t) ==
  [session |-> st.session, run |-> st.run, guards |-> st.guards,
   outcome |-> st.outcome, prevHash |-> prev, builtAt |-> t]

\* A minted receipt remembers the object whose guardDispositions it shares and
\* how it came by its prevHash: "sync" and "await" sealed the object's own,
\* "override" the caller's, "last" the one the backend answered.
MintOn(o, prev, t, how) ==
  LET r == GenerateReceipt(Body(states[o], prev, t))
  IN  [body |-> r.body, hash |-> r.hash, obj |-> o, how |-> how]

Mint(o, how) == MintOn(o, states[o].prevHash, now, how)

\* prevHashOverride ?? state.prevHash
MintFor(o, override) ==
  IF override = NoOverride THEN Mint(o, "await") ELSE MintOn(o, override, now, "override")

\* What a holder of receipt r reads now: the shared array is the object's.
Current(r) ==
  [body |-> [session |-> r.body.session, run |-> r.body.run, guards |-> states[r.obj].guards,
             outcome |-> r.body.outcome, prevHash |-> r.body.prevHash, builtAt |-> r.body.builtAt],
   hash |-> r.hash]

Idle == [pc |-> "idle", receipt |-> <<>>]

Init ==
  /\ states = <<>>
  /\ collector = [s \in Sessions |-> 0]
  /\ genesisHash = Genesis
  /\ now = 0
  /\ backend \in BOOLEAN
  /\ minted = <<>>
  /\ flushing = [c \in Callers |-> Idle]
  /\ writes = {}
  /\ table = <<>>
  /\ tip = Genesis
  /\ overlapped = FALSE
  /\ raced = {}

Tick ==
  /\ now < MaxNow[backend]
  /\ now' = now + 1
  /\ UNCHANGED <<memory, backend, minted, flushing, database, history>>

-----------------------------------------------------------------------------
\* policy/evaluate

\* A state object as upsertSession creates it: no guards yet, and prevHash is
\* the tip of the chain as it is NOW, not as it will be at the flush.
FreshState(s, ev) ==
  [session |-> s, run |-> <<s, now>>, guards |-> <<>>,
   outcome |-> OutcomeFromDisposition(ev.final), prevHash |-> genesisHash]

\* onPolicyEvaluate's assignments: a later disposition of a guard replaces the
\* earlier one and the outcome is the last event's.  The phi snapshot, replaced
\* likewise by a numeric phi, is payload to every property and left out.
Recorded(st, ev) ==
  [st EXCEPT !.guards = ev.guards @@ st.guards,
             !.outcome = OutcomeFromDisposition(ev.final)]

\* Mutant: upsertSession does not look for an existing entry.
OnPolicyEvaluateNoLookup(s, ev) ==
  /\ Len(states) < MaxStates[backend]
  /\ states' = Append(states, Recorded(FreshState(s, ev), ev))
  /\ collector' = [collector EXCEPT ![s] = Len(states) + 1]
  /\ overlapped' = (overlapped \/ Live \ {s} # {})
  /\ UNCHANGED <<genesisHash, now, backend, minted, flushing, database, raced>>

OnPolicyEvaluate(s, ev) ==
  /\ IF collector[s] # 0
     THEN /\ states' = [states EXCEPT ![collector[s]] = Recorded(@, ev)]
          /\ UNCHANGED collector
     ELSE /\ Len(states) < MaxStates[backend]
          /\ states' = Append(states, Recorded(FreshState(s, ev), ev))
          /\ collector' = [collector EXCEPT ![s] = Len(states) + 1]
  /\ overlapped' = (overlapped \/ Live \ {s} # {})
  /\ UNCHANGED <<genesisHash, now, backend, minted, flushing, database, raced>>

-----------------------------------------------------------------------------
\* flushSessionReceiptSync: session/end and SIGTERM

\* The two calls the synchronous path starts and does not wait for.
Unawaited(r) == {[op |-> "insert", receipt |-> r], [op |-> "setGenesis", receipt |-> r]}

Sealed(os) == [i \in 1 .. Len(os) |-> Mint(os[i], "sync")]

\* Mutant: the collector entry is not deleted.
FlushSyncKeepsEntry(os) ==
  LET fresh == Sealed(os)
  IN  /\ Len(minted) + Len(os) <= MaxReceipts[backend]
      /\ minted' = minted \o fresh
      /\ IF backend
         THEN /\ writes' = writes \cup UNION {Unawaited(fresh[i]) : i \in 1 .. Len(os)}
              /\ UNCHANGED genesisHash
         ELSE /\ genesisHash' = fresh[Len(os)].hash
              /\ UNCHANGED writes
      /\ UNCHANGED <<states, collector, now, backend, flushing, table, tip, history>>

\* Seal and drop the state objects `os` (indices in Map order, ascending).
FlushSync(os) ==
  LET fresh == Sealed(os)
      gone  == {states[os[i]].session : i \in 1 .. Len(os)}
  IN  /\ Len(minted) + Len(os) <= MaxReceipts[backend]
      /\ minted' = minted \o fresh
      /\ IF backend
         THEN /\ writes' = writes \cup UNION {Unawaited(fresh[i]) : i \in 1 .. Len(os)}
              /\ UNCHANGED genesisHash
         ELSE /\ genesisHash' = fresh[Len(os)].hash
              /\ UNCHANGED writes
      /\ collector' = [s \in Sessions |-> IF s \in gone THEN 0 ELSE collector[s]]
      /\ UNCHANGED <<states, now, backend, flushing, table, tip, history>>

SessionEnd(s) == collector[s] # 0 /\ FlushSync(<<collector[s]>>)

\* os lists the live objects in the order the Map iterates over them.
InMapOrder(os) ==
  /\ {os[i] : i \in 1 .. Len(os)} = {collector[s] : s \in Live}
  /\ \A i, j \in 1 .. Len(os) : i < j => os[i] < os[j]

Sigterm ==
  /\ Live # {}
  /\ \E os \in [1 .. Cardinality(Live) -> 1 .. Len(states)] : InMapOrder(os) /\ FlushSync(os)

\* An unawaited call completes or is swallowed by .catch(() => {}).  The array
\* of a synchronously flushed object has no writer left, so the row is what
\* was sealed.  hash is UNIQUE.
UnawaitedInsert(w) ==
  /\ w \in writes /\ w.op = "insert"
  /\ writes' = writes \ {w}
  /\ \/ /\ \A i \in 1 .. Len(table) : table[i].hash # w.receipt.hash
        /\ table' = Append(table, Current(w.receipt))
     \/ UNCHANGED table
  /\ UNCHANGED <<memory, now, backend, minted, flushing, tip, history>>

UnawaitedSetGenesis(w) ==
  /\ w \in writes /\ w.op = "setGenesis"
  /\ writes' = writes \ {w}
  /\ tip' \in {w.receipt.hash, tip}
  /\ UNCHANGED <<memory, now, backend, minted, flushing, table, history>>

-----------------------------------------------------------------------------
\* flushSessionReceipt: the awaited path, public, with its prevHashOverride.

\* Mutant: the module tip is not advanced.
FlushInMemoryKeepsTip(s, override) ==
  /\ collector[s] # 0 /\ ~backend
  /\ Len(minted) < MaxReceipts[backend]
  /\ minted' = Append(minted, MintFor(collector[s], override))
  /\ collector' = [collector EXCEPT ![s] = 0]
  /\ UNCHANGED <<states, genesisHash, now, backend, flushing, database, history>>

\* Mutant: the tip is hashed again, from a receipt without its dispositions.
FlushInMemoryLogHash(s, override) ==
  /\ collector[s] # 0 /\ ~backend
  /\ Len(minted) < MaxReceipts[backend]
  /\ LET r == MintFor(collector[s], override)
     IN  minted' = Append(minted, r) /\ genesisHash' = Digest([r.body EXCEPT !.guards = <<>>])
  /\ collector' = [collector EXCEPT ![s] = 0]
  /\ UNCHANGED <<states, now, backend, flushing, database, history>>

\* Without a backend nothing is awaited and the whole call is one step.  An
\* empty override is sealed as it is: ??= replaces only an absent hash.
FlushInMemory(s, override) ==
  /\ collector[s] # 0 /\ ~backend
  /\ Len(minted) < MaxReceipts[backend]
  /\ LET r == MintFor(collector[s], override)
     IN  minted' = Append(minted, r) /\ genesisHash' = r.hash
  /\ collector' = [collector EXCEPT ![s] = 0]
  /\ UNCHANGED <<states, now, backend, flushing, database, history>>

\* With one, the receipt is sealed and insertReceipt awaits a connection.
FlushBegin(c, s, override) ==
  /\ collector[s] # 0 /\ backend /\ override # EmptyHash
  /\ flushing[c].pc = "idle"
  /\ Len(minted) < MaxReceipts[backend]
  /\ LET r == MintFor(collector[s], override)
     IN  /\ minted' = Append(minted, r)
         /\ flushing' = [flushing EXCEPT ![c] = [pc |-> "insert", receipt |-> r]]
  /\ raced' = raced \cup {s}
  /\ UNCHANGED <<memory, now, backend, database, overlapped>>

\* The empty override asks the backend for its last receipt first: the run, and
\* with it builtAt, is fixed before that await.
FlushAsksLast(c, s, override) ==
  /\ collector[s] # 0 /\ backend /\ override = EmptyHash
  /\ flushing[c].pc = "idle"
  /\ flushing' = [flushing EXCEPT ![c] = [pc |-> "last", obj |-> collector[s], builtAt |-> now]]
  /\ raced' = raced \cup {s}
  /\ UNCHANGED <<memory, now, backend, minted, database, overlapped>>

\* getLastReceiptHash: a row with the greatest built_at, which may be another
\* writer's, and receipt_genesis when there is no row.
LastReceiptHashes ==
  StoredByOthers \cup
    IF table = <<>> THEN {tip}
    ELSE {table[i].hash : i \in {j \in 1 .. Len(table) :
            \A k \in 1 .. Len(table) : table[k].body.builtAt <= table[j].body.builtAt}}

\* It answers: the object is sealed as it is by now, collected or not.
FlushLast(c) ==
  /\ flushing[c].pc = "last"
  /\ Len(minted) < MaxReceipts[backend]
  /\ \E h \in LastReceiptHashes :
       LET r == MintOn(flushing[c].obj, h, flushing[c].builtAt, "last")
       IN  /\ minted' = Append(minted, r)
           /\ flushing' = [flushing EXCEPT ![c] = [pc |-> "insert", receipt |-> r]]
  /\ UNCHANGED <<memory, now, backend, database, history>>

\* The row holds the array as it is when the query is sent.  insertReceipt has
\* no column for the agent and the phi snapshot, which no body here has.
FlushInsert(c) ==
  LET r == flushing[c].receipt IN
  /\ flushing[c].pc = "insert"
  /\ \A i \in 1 .. Len(table) : table[i].hash # r.hash
  /\ table' = Append(table, Current(r))
  /\ flushing' = [flushing EXCEPT ![c] = [pc |-> "setGenesis", receipt |-> r]]
  /\ UNCHANGED <<memory, now, backend, minted, writes, tip, history>>

\* Any await may reject: the call throws and the session stays collected.
FlushFails(c) ==
  /\ flushing[c].pc # "idle"
  /\ flushing' = [flushing EXCEPT ![c] = Idle]
  /\ UNCHANGED <<memory, now, backend, minted, database, history>>

\* Mutant: setGenesisHash is not held back until insertReceipt resolves.
FlushEndEarly(c) ==
  LET r == flushing[c].receipt IN
  /\ flushing[c].pc \in {"insert", "setGenesis"}
  /\ tip' = r.hash
  /\ collector' = [collector EXCEPT ![r.body.session] = 0]
  /\ flushing' = [flushing EXCEPT ![c] = Idle]
  /\ UNCHANGED <<states, genesisHash, now, backend, minted, writes, table, history>>

\* The last await resolves: whatever the session now maps to is deleted.
FlushEnd(c) ==
  LET r == flushing[c].receipt IN
  /\ flushing[c].pc = "setGenesis"
  /\ tip' = r.hash
  /\ collector' = [collector EXCEPT ![r.body.session] = 0]
  /\ flushing' = [flushing EXCEPT ![c] = Idle]
  /\ UNCHANGED <<states, genesisHash, now, backend, minted, writes, table, history>>

-----------------------------------------------------------------------------
Next ==
  \/ Tick
  \/ \E s \in Sessions, ev \in Events : OnPolicyEvaluate(s, ev)
  \/ \E s \in Sessions : SessionEnd(s)
  \/ Sigterm
  \/ \E w \in writes : UnawaitedInsert(w)
  \/ \E w \in writes : UnawaitedSetGenesis(w)
  \/ \E s \in Sessions, o \in Overrides : FlushInMemory(s, o)
  \/ \E c \in Callers, s \in Sessions, o \in Overrides : FlushBegin(c, s, o)
  \/ \E c \in Callers, s \in Sessions, o \in Overrides : FlushAsksLast(c, s, o)
  \/ \E c \in Callers : FlushLast(c)
  \/ \E c \in Callers : FlushInsert(c)
  \/ \E c \in Callers : FlushFails(c)
  \/ \E c \in Callers : FlushEnd(c)

Spec == Init /\ [][Next]_vars
-----------------------------------------------------------------------------
Entries == {states[o] : o \in 1 .. Len(states)}
TableHashes == {table[i].hash : i \in 1 .. Len(table)}

\* The shape of the state: Map and heap agree, clocks and lists stay in bounds.
TypeOK ==
  /\ collector \in [Sessions -> 0 .. Len(states)]
  /\ \A s \in Live : states[collector[s]].session = s
  /\ \A st \in Entries : st.session \in Sessions /\ st.outcome \in Outcomes
  /\ Len(states) <= MaxStates[backend] /\ Len(minted) <= MaxReceipts[backend] /\ now \in 0 .. MaxNow[backend]
  /\ backend \in BOOLEAN /\ overlapped \in BOOLEAN /\ raced \subseteq Sessions
  /\ \A i \in 1 .. Len(minted) : minted[i].obj \in 1 .. Len(states)
  /\ flushing \in [Callers -> {Idle} \cup
        {[pc |-> p, receipt |-> minted[i]] : p \in {"insert", "setGenesis"}, i \in 1 .. Len(minted)}
        \cup {[pc |-> "last", obj |-> o, builtAt |-> t] : o \in 1 .. Len(states), t \in 0 .. MaxNow[backend]}]

\* In memory, sessions that never overlap leave receipts that hold the content
\* they were hashed with, and each of them follows the one before it unless its
\* caller overrode prevHash: where nobody did, verifyChain accepts the list as
\* its holders read it (the receipt chain of the README).
SequentialSessionsChain ==
  ~backend /\ ~overlapped =>
    /\ \A i \in 1 .. Len(minted) : ContentHashHolds(Current(minted[i]))
    /\ \A i \in 2 .. Len(minted) :
         minted[i].how # "override" => minted[i].body.prevHash = minted[i - 1].hash

\* What the backend may answer beyond the receipts of this process.
FromOthers(how) == IF how = "last" THEN StoredByOthers ELSE {}

\* Whatever overlaps, and whatever other callers override, the prevHash a
\* receipt was not given by its caller is the genesis value, the hash of a
\* receipt minted before it, or the one another writer has stored: such
\* receipts form a tree and never a cycle.
PrevHashIsMintedBefore ==
  \A i \in 1 .. Len(minted) :
    minted[i].how # "override" =>
      minted[i].body.prevHash \in
        {Genesis} \cup {minted[j].hash : j \in 1 .. i - 1} \cup FromOthers(minted[i].how)

\* A session nobody flushed with an awaiting call: its receipts still have the
\* content that was hashed, in memory and in the columns of the row that was
\* stored, although both share the session's array of dispositions.
SealedReceiptsIntact ==
  /\ \A i \in 1 .. Len(minted) :
       minted[i].body.session \notin raced => ContentHashHolds(Current(minted[i]))
  /\ \A i \in 1 .. Len(table) :
       table[i].body.session \notin raced => ContentHashHolds(table[i])

\* Such a session also loses no decision: every state object that left the
\* collector is attested by exactly one receipt, with all its dispositions.
EveryDecisionAttestedOnce ==
  \A o \in 1 .. Len(states) :
    states[o].session \notin raced /\ collector[states[o].session] # o =>
      \E i \in 1 .. Len(minted) :
        /\ minted[i].obj = o /\ minted[i].body.guards = states[o].guards
        /\ minted[i].body.outcome = states[o].outcome
        /\ \A j \in 1 .. Len(minted) : minted[j].obj = o => j = i

\* The awaited path moves receipt_genesis only to a receipt that is stored; a
\* tip without a row can only come from the calls session/end does not await.
AwaitedTipIsStored ==
  tip \in {Genesis} \cup TableHashes
        \cup {minted[i].hash : i \in {j \in 1 .. Len(minted) : minted[j].how = "sync"}}
=============================================================================
