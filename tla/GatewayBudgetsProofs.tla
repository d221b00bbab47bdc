------------------------ MODULE GatewayBudgetsProofs ------------------------
(***************************************************************************)
(* Proofs about the gateway, for any definitions, requests, callers and    *)
(* periods: its types, how far a budget can be overshot, that no           *)
(* reservation is lost, that the definition cache is never stale (though   *)
(* it may answer for another request with the same key), and that a call   *)
(* reaches the model only under budgets that were not exceeded when it     *)
(* started.                                                                *)
(***************************************************************************)
EXTENDS GatewayBudgets, FiniteSetTheorems, TLAPS

KeyOf(s) == CounterKey(s.def, s.window)

\* The callers that may still reserve on counter k.
Pending(k) ==
  {c \in Callers : calls[c].pc = "read" /\ \E s \in calls[c].states : KeyOf(s) = k /\ ~Breached(s)}

\* Everything refers to registered definitions, counters and clock are numbers.
Shape ==
  /\ registered \subseteq Defs /\ defs \subseteq registered
  /\ now \in 0 .. MaxNow
  /\ counters \in [CounterKeys -> Int] /\ paid \in [CounterKeys -> Nat]
  /\ \A k \in CounterKeys : counters[k] # Absent => counters[k] \in Nat
  /\ cache = [k \in CacheKeys |-> cache[k]]
  /\ calls = [c \in Callers |-> calls[c]]

\* What a waiting call has read: registered budgets at counters there are.
Reads ==
  \A c \in Callers : calls[c].pc = "read" =>
    \A s \in calls[c].states :
      /\ s.def \in registered /\ KeyOf(s) \in CounterKeys /\ s.spentCents \in Nat
      /\ counters[KeyOf(s)] = Absent => s.spentCents = 0

\* The invariant behind OvershootBounded: every caller that may still reserve
\* on a counter keeps one estimate of its headroom free.
Headroom ==
  \A k \in CounterKeys : counters[k] # Absent =>
    \E d \in registered :
      /\ d.id = k[1]
      /\ counters[k] + Estimate * Cardinality(Pending(k))
           <= d.limitCents + Estimate * Cardinality(Callers)

\* A call that is about to be admitted found nothing exceeded at its start.
Opened ==
  \A c \in Callers :
    /\ calls[c].pc = "read" /\ ~HardBudgetBlock(calls[c].states) => calls[c].open
    /\ calls[c].pc = "llm" => calls[c].open

IInv == Shape /\ Reads /\ Headroom /\ NoLostReservation /\ CacheIsFresh /\ Opened

\* At most all callers are pending on a counter.
LEMMA PendingFinite ==
  ASSUME NEW k
  PROVE  /\ IsFiniteSet(Pending(k)) /\ Cardinality(Pending(k)) \in Nat
         /\ Cardinality(Callers) \in Nat /\ Cardinality(Pending(k)) <= Cardinality(Callers)
<1>1. Pending(k) \subseteq Callers BY DEF Pending
<1>2. IsFiniteSet(Callers) BY BoundsAssumption
<1> QED BY <1>1, <1>2, FS_Subset, FS_CardinalityType

\* A request has its own key.
LEMMA OwnKey ==
  ASSUME NEW r \in Requests
  PROVE  r \in SharesKey(r) /\ CacheKey(r) \in CacheKeys
BY DEF SharesKey, CacheKeys

\* Definitions and cache as they were: the cache is as fresh as it was.
LEMMA SameCacheIsFresh ==
  ASSUME CacheIsFresh, UNCHANGED <<defs, cache>>
  PROVE  CacheIsFresh'
<1>1. \A q \in Requests : ApplicableDefs(q)' = ApplicableDefs(q)
  BY DEF ApplicableDefs, Applies
<1>2. \A r \in Requests : SharesKey(r)' = SharesKey(r) /\ SharesKey(r) \subseteq Requests
  BY DEF SharesKey, CacheKey
<1> SUFFICES ASSUME NEW r \in Requests, cache[CacheKey(r)].expiresAt # 0
             PROVE  \E q \in SharesKey(r) : cache[CacheKey(r)].defs = ApplicableDefs(q)'
  BY <1>2 DEF CacheIsFresh, CacheKey
<1> QED BY <1>1, <1>2 DEF CacheIsFresh

\* No definition, no reservation and an empty cache satisfy the invariant.
THEOREM InitIInv == Init => IInv
<1> SUFFICES ASSUME Init PROVE IInv
  OBVIOUS
<1>1. Shape BY BoundsAssumption DEF Init, Shape, Absent
<1>2. Reads /\ Headroom /\ Opened BY DEF Init, Reads, Headroom, Opened, Idle
<1>3. NoLostReservation BY DEF Init, NoLostReservation, Spent, Estimate
<1>4. CacheIsFresh
  <2>1. \A r \in Requests : cache[CacheKey(r)] = NoEntry BY OwnKey DEF Init
  <2> QED BY <2>1 DEF CacheIsFresh, NoEntry
<1> QED BY <1>1, <1>2, <1>3, <1>4 DEF IInv

\* Registering, clearing and the clock: what the calls and counters rest on
\* only grows.
LEMMA DefsStep ==
  ASSUME IInv, UNCHANGED <<counters, calls, paid>>,
         Shape', registered \subseteq registered', CacheIsFresh'
  PROVE  IInv'
<1>1. \A k : Pending(k)' = Pending(k) BY DEF Pending, Breached, KeyOf, CounterKey
<1>2. Reads' BY DEF IInv, Reads, KeyOf, CounterKey
<1>3. Headroom' BY <1>1 DEF IInv, Headroom
<1>4. NoLostReservation' BY DEF IInv, NoLostReservation, Spent
<1>5. Opened' BY DEF IInv, Opened, HardBudgetBlock, Breached
<1> QED BY <1>2, <1>3, <1>4, <1>5 DEF IInv

LEMMA NoCacheIsFresh == cache' = NoCache => CacheIsFresh'
<1> SUFFICES ASSUME cache' = NoCache, NEW r \in Requests
             PROVE  cache'[CacheKey(r)].expiresAt = 0
  BY DEF CacheIsFresh, CacheKey
<1> QED BY OwnKey DEF NoCache, NoEntry

\* A caller that leaves what it was waiting for keeps everything.
LEMMA LeaveStep ==
  ASSUME IInv, NEW c \in Callers, calls' = [calls EXCEPT ![c] = Idle],
         UNCHANGED <<defs, cache, counters, now, registered, paid>>
  PROVE  IInv'
<1>1. Shape' BY DEF IInv, Shape
<1>2. \A d \in Callers : calls'[d].pc # "idle" => calls'[d] = calls[d]
  BY DEF IInv, Shape, Idle
<1>3. Reads' BY <1>2 DEF IInv, Reads, KeyOf, CounterKey
<1>4. \A k : Pending(k)' \subseteq Pending(k)
  BY <1>2 DEF Pending, Breached, KeyOf, CounterKey
<1>5. Headroom'
  <2> SUFFICES ASSUME NEW k \in CounterKeys, counters[k] # Absent
               PROVE  \E d \in registered : d.id = k[1] /\
                        counters[k] + Estimate * Cardinality(Pending(k)')
                          <= d.limitCents + Estimate * Cardinality(Callers)
    BY DEF Headroom
  <2>1. Cardinality(Pending(k)') \in Nat /\ Cardinality(Pending(k)') <= Cardinality(Pending(k))
    BY <1>4, PendingFinite, FS_Subset, FS_CardinalityType
  <2>2. PICK d \in registered : d.id = k[1] /\
          counters[k] + Estimate * Cardinality(Pending(k))
            <= d.limitCents + Estimate * Cardinality(Callers)
    BY DEF IInv, Headroom
  <2>3. d.limitCents \in Nat /\ counters[k] \in Nat
    BY DefsAssumption DEF IInv, Shape
  <2> QED BY <2>1, <2>2, <2>3, PendingFinite DEF Estimate
<1>6. NoLostReservation' /\ CacheIsFresh'
  BY SameCacheIsFresh DEF IInv, NoLostReservation, Spent
<1>7. Opened' BY <1>2 DEF IInv, Opened, HardBudgetBlock, Breached
<1> QED BY <1>1, <1>3, <1>5, <1>6, <1>7 DEF IInv

\* The entry a call finds or makes is what filtering gives for a request with
\* its key.
LEMMA ReadStep ==
  ASSUME IInv, NEW c \in Callers, NEW r \in Requests, ApplicableBudgets(c, r)
  PROVE  IInv'
<1> DEFINE ck  == CacheKey(r)
           hit == cache[ck].expiresAt > now
           entry == IF hit THEN cache[ck]
                    ELSE [expiresAt |-> now + TTL, defs |-> ApplicableDefs(r)]
           open == \E q \in SharesKey(r) : \A d \in ApplicableDefs(q) : ~Breached(BudgetState(d))
<1>1. /\ cache' = IF hit THEN cache ELSE CacheBudgetDefs(ck, entry)
      /\ UNCHANGED <<defs, counters, now, registered, paid>>
  BY DEF ApplicableBudgets, history
<1>2. ck \in CacheKeys /\ r \in SharesKey(r) BY OwnKey
<1>3. PICK q \in SharesKey(r) : entry.defs = ApplicableDefs(q)
  <2>1. CASE hit
    <3>1. cache[ck].expiresAt # 0 BY <2>1 DEF IInv, Shape
    <3> QED BY <2>1, <3>1 DEF IInv, CacheIsFresh
  <2> QED BY <2>1, <1>2
<1>4. CacheIsFresh'
  <2>1. CASE hit BY <2>1, <1>1, SameCacheIsFresh DEF IInv
  <2>2. CASE ~hit
    <3>1. /\ cache' = [k \in CacheKeys |-> cache'[k]] /\ cache'[ck] = entry
          /\ \A k \in CacheKeys \ {ck} : cache'[k] \in {cache[k], NoEntry}
      BY <2>2, <1>1, <1>2 DEF CacheBudgetDefs, NoCache, IInv, Shape
    <3>2. \A p \in Requests : ApplicableDefs(p)' = ApplicableDefs(p)
      BY <1>1 DEF ApplicableDefs, Applies
    <3>3. SUFFICES ASSUME NEW p \in Requests, cache'[CacheKey(p)].expiresAt # 0
                   PROVE  \E o \in SharesKey(p) : cache'[CacheKey(p)].defs = ApplicableDefs(o)
      BY <3>2 DEF CacheIsFresh, CacheKey, SharesKey
    <3>4. CASE CacheKey(p) = ck
      <4>1. q \in SharesKey(p) BY <3>4 DEF SharesKey
      <4> HIDE DEF ck, entry
      <4> QED BY <4>1, <3>4, <3>1, <1>3
    <3>5. CASE CacheKey(p) # ck
      <4>1. CacheKey(p) \in CacheKeys \ {ck} BY <3>5, OwnKey
      <4> HIDE DEF ck
      <4>2. cache'[CacheKey(p)] = cache[CacheKey(p)]
        BY <4>1, <3>1, <3>3 DEF NoEntry
      <4> QED BY <4>2, <3>3 DEF IInv, CacheIsFresh
    <3> QED BY <3>4, <3>5
  <2> QED BY <2>1, <2>2
<1>5. cache' = [k \in CacheKeys |-> cache'[k]]
  BY <1>1 DEF CacheBudgetDefs, NoCache, IInv, Shape
<1>6. calls' = [calls EXCEPT ![c] =
        [pc |-> "read", states |-> {BudgetState(d) : d \in ApplicableDefs(q)}, open |-> open]]
  BY <1>3 DEF ApplicableBudgets
<1> HIDE DEF ck, hit, entry
<1> DEFINE new == {BudgetState(d) : d \in ApplicableDefs(q)}
<1>7. Shape' BY <1>1, <1>5, <1>6 DEF IInv, Shape
<1>8. \A s \in new : /\ s.def \in registered /\ KeyOf(s) \in CounterKeys
                     /\ s.spentCents = Spent(KeyOf(s))
  <2> SUFFICES ASSUME NEW d \in ApplicableDefs(q)
               PROVE  LET s == BudgetState(d) IN
                      /\ s.def \in registered /\ KeyOf(s) \in CounterKeys
                      /\ s.spentCents = Spent(KeyOf(s))
    OBVIOUS
  <2>1. d \in registered /\ d \in Defs BY DEF ApplicableDefs, IInv, Shape
  <2>2. WindowStart(d.period, now) \in Windows
    BY <2>1, DefsAssumption DEF Windows, IInv, Shape
  <2> QED BY <2>1, <2>2 DEF BudgetState, KeyOf, CounterKey, CounterKeys
<1>9. /\ calls'[c].pc = "read" /\ calls'[c].states = new
      /\ \A d \in Callers \ {c} : calls'[d] = calls[d]
  BY <1>6 DEF IInv, Shape
<1>10. Reads'
  <2> SUFFICES ASSUME NEW d \in Callers, calls'[d].pc = "read", NEW s \in calls'[d].states
               PROVE  /\ s.def \in registered /\ KeyOf(s) \in CounterKeys /\ s.spentCents \in Nat
                      /\ counters[KeyOf(s)] = Absent => s.spentCents = 0
    BY <1>1 DEF Reads, KeyOf, CounterKey
  <2>1. CASE d = c
    <3>1. s \in new BY <2>1, <1>9
    <3> QED BY <3>1, <1>8 DEF Spent, IInv, Shape
  <2>2. CASE d # c BY <2>2, <1>9 DEF IInv, Reads
  <2> QED BY <2>1, <2>2
<1>11. Headroom'
  <2> SUFFICES ASSUME NEW k \in CounterKeys, counters[k] # Absent
               PROVE  \E d \in registered : d.id = k[1] /\
                        counters[k] + Estimate * Cardinality(Pending(k)')
                          <= d.limitCents + Estimate * Cardinality(Callers)
    BY <1>1 DEF Headroom
  <2>0. counters[k] \in Nat BY DEF IInv, Shape
  <2>1. CASE c \in Pending(k)'
    <3>1. PICK s \in new : KeyOf(s) = k /\ ~Breached(s)
      BY <2>1, <1>9 DEF Pending, KeyOf, CounterKey, Breached
    <3>2. s.spentCents = counters[k] /\ s.def \in registered /\ s.def.id = k[1]
      BY <3>1, <1>8 DEF Spent, KeyOf, CounterKey
    <3>3. s.def.limitCents \in Nat BY <3>2, DefsAssumption DEF IInv, Shape
    <3>4. counters[k] <= s.def.limitCents BY <3>1, <3>2, <3>3, <2>0 DEF Breached
    <3>5. /\ Cardinality(Pending(k)') \in Nat /\ Cardinality(Callers) \in Nat
          /\ Cardinality(Pending(k)') <= Cardinality(Callers)
      <4>1. Pending(k)' \subseteq Callers BY DEF Pending
      <4> QED BY <4>1, BoundsAssumption, FS_Subset, FS_CardinalityType
    <3> QED BY <3>2, <3>3, <3>4, <3>5, <2>0 DEF Estimate
  <2>2. CASE c \notin Pending(k)'
    <3>1. Pending(k)' \subseteq Pending(k)
      BY <2>2, <1>9 DEF Pending, KeyOf, CounterKey, Breached
    <3>2. Cardinality(Pending(k)') \in Nat /\ Cardinality(Pending(k)') <= Cardinality(Pending(k))
      BY <3>1, PendingFinite, FS_Subset, FS_CardinalityType
    <3>3. PICK d \in registered : d.id = k[1] /\
            counters[k] + Estimate * Cardinality(Pending(k))
              <= d.limitCents + Estimate * Cardinality(Callers)
      BY DEF IInv, Headroom
    <3>4. d.limitCents \in Nat BY <3>3, DefsAssumption DEF IInv, Shape
    <3> QED BY <2>0, <3>2, <3>3, <3>4, PendingFinite DEF Estimate
  <2> QED BY <2>1, <2>2
<1>12. NoLostReservation' BY <1>1 DEF IInv, NoLostReservation, Spent
<1>13. Opened'
  <2> SUFFICES ASSUME NEW d \in Callers
               PROVE  /\ calls'[d].pc = "read" /\ ~HardBudgetBlock(calls'[d].states) => calls'[d].open
                      /\ calls'[d].pc = "llm" => calls'[d].open
    BY DEF Opened, HardBudgetBlock, Breached
  <2>1. CASE d = c
    <3>1. calls'[c] = [pc |-> "read", states |-> new, open |-> open]
      BY <1>6 DEF IInv, Shape
    <3>2. ~HardBudgetBlock(new) => \A e \in ApplicableDefs(q) : ~Breached(BudgetState(e))
      BY DEF HardBudgetBlock
    <3>3. ~HardBudgetBlock(new) => open BY <3>2
    <3> HIDE DEF new, open
    <3> QED BY <2>1, <3>1, <3>3
  <2>2. CASE d # c BY <2>2, <1>9 DEF IInv, Opened
  <2> QED BY <2>1, <2>2
<1> QED BY <1>4, <1>7, <1>10, <1>11, <1>12, <1>13 DEF IInv

\* The reservation uses up the estimate that was kept free for the caller.
LEMMA AdmitStep ==
  ASSUME IInv, NEW c \in Callers, Admit(c)
  PROVE  IInv'
<1> DEFINE states == calls[c].states
<1>1. /\ calls[c].pc = "read" /\ ~HardBudgetBlock(states)
      /\ counters' = ReserveHardBudgets(states)
      /\ paid' = [k \in CounterKeys |-> IF Touches(states, k) THEN paid[k] + 1 ELSE paid[k]]
      /\ calls' = [calls EXCEPT ![c] = [pc |-> "llm", states |-> states, open |-> calls[c].open]]
      /\ UNCHANGED <<defs, cache, now, registered>>
  BY DEF Admit, store
<1>2. \A k \in CounterKeys : Touches(states, k) =>
        \E s \in states : /\ KeyOf(s) = k /\ s.def \in registered /\ s.spentCents \in Nat
                          /\ s.spentCents <= s.def.limitCents /\ s.def.limitCents \in Nat
                          /\ counters[k] = Absent => s.spentCents = 0
                          /\ counters'[k] = (IF counters[k] # Absent THEN counters[k]
                                             ELSE s.spentCents) + Estimate
  <2> SUFFICES ASSUME NEW k \in CounterKeys, Touches(states, k)
               PROVE  \E s \in states :
                          /\ KeyOf(s) = k /\ s.def \in registered /\ s.spentCents \in Nat
                          /\ s.spentCents <= s.def.limitCents /\ s.def.limitCents \in Nat
                          /\ counters[k] = Absent => s.spentCents = 0
                          /\ counters'[k] = (IF counters[k] # Absent THEN counters[k]
                                             ELSE s.spentCents) + Estimate
    OBVIOUS
  <2> DEFINE s == CHOOSE t \in states : CounterKey(t.def, t.window) = k
  <2>1. s \in states /\ KeyOf(s) = k BY DEF Touches, KeyOf
  <2>2. counters'[k] = (IF counters[k] # Absent THEN counters[k] ELSE s.spentCents) + Estimate
    BY <1>1 DEF ReserveHardBudgets
  <2> HIDE DEF s
  <2>3. /\ s.def \in registered /\ s.spentCents \in Nat
        /\ counters[k] = Absent => s.spentCents = 0
    BY <1>1, <2>1 DEF IInv, Reads
  <2>4. s.def.limitCents \in Nat BY <2>3, DefsAssumption DEF IInv, Shape
  <2>5. s.spentCents <= s.def.limitCents BY <1>1, <2>1, <2>3, <2>4 DEF HardBudgetBlock, Breached
  <2> QED BY <2>1, <2>2, <2>3, <2>4, <2>5
<1>3. /\ counters' = [k \in CounterKeys |-> counters'[k]]
      /\ \A k \in CounterKeys : ~Touches(states, k) => counters'[k] = counters[k]
  BY <1>1 DEF ReserveHardBudgets
<1>4. \A k \in CounterKeys : /\ counters'[k] \in Int
                             /\ counters'[k] # Absent => counters'[k] \in Nat
                             /\ counters'[k] = Absent => counters[k] = Absent
  BY <1>2, <1>3 DEF IInv, Shape, Estimate, Absent
<1> HIDE DEF states
<1>5. Shape' BY <1>1, <1>3, <1>4, SMTT(20) DEF IInv, Shape
<1>6. /\ calls'[c].pc = "llm" /\ calls'[c].open = calls[c].open
      /\ \A d \in Callers \ {c} : calls'[d] = calls[d]
  BY <1>1 DEF IInv, Shape
<1>7. Reads'
  <2> SUFFICES ASSUME NEW d \in Callers, calls'[d].pc = "read", NEW s \in calls'[d].states
               PROVE  /\ s.def \in registered /\ KeyOf(s) \in CounterKeys /\ s.spentCents \in Nat
                      /\ counters'[KeyOf(s)] = Absent => s.spentCents = 0
    BY <1>1 DEF Reads, KeyOf, CounterKey
  <2>1. calls'[d] = calls[d] BY <1>6
  <2> QED BY <2>1, <1>4 DEF IInv, Reads
<1>8. Headroom'
  <2> SUFFICES ASSUME NEW k \in CounterKeys, counters'[k] # Absent
               PROVE  \E d \in registered : d.id = k[1] /\
                        counters'[k] + Estimate * Cardinality(Pending(k)')
                          <= d.limitCents + Estimate * Cardinality(Callers)
    BY <1>1 DEF Headroom
  <2>1. Pending(k)' \subseteq Pending(k) \ {c}
    BY <1>6 DEF Pending, KeyOf, CounterKey, Breached
  <2>2. /\ Cardinality(Pending(k)') \in Nat
        /\ Cardinality(Pending(k)') <= Cardinality(Pending(k) \ {c})
        /\ IsFiniteSet(Pending(k)) /\ Cardinality(Pending(k) \ {c}) \in Nat
    <3>1. IsFiniteSet(Pending(k) \ {c}) BY PendingFinite, FS_Subset
    <3> QED BY <2>1, <3>1, PendingFinite, FS_Subset, FS_CardinalityType
  <2>3. CASE Touches(states, k)
    <3>1. PICK s \in states :
            /\ KeyOf(s) = k /\ s.def \in registered /\ s.spentCents \in Nat
            /\ s.spentCents <= s.def.limitCents /\ s.def.limitCents \in Nat
            /\ counters'[k] = (IF counters[k] # Absent THEN counters[k]
                               ELSE s.spentCents) + Estimate
      BY <2>3, <1>2
    <3>2. c \in Pending(k) BY <3>1, <1>1 DEF states, Pending, Breached
    <3>3. Cardinality(Pending(k) \ {c}) = Cardinality(Pending(k)) - 1
      BY <3>2, <2>2, FS_RemoveElement
    <3>4. CASE counters[k] # Absent
      <4>1. PICK d \in registered : d.id = k[1] /\
              counters[k] + Estimate * Cardinality(Pending(k))
                <= d.limitCents + Estimate * Cardinality(Callers)
        BY <3>4 DEF IInv, Headroom
      <4>2. d.limitCents \in Nat /\ counters[k] \in Nat BY <3>4, <4>1, DefsAssumption DEF IInv, Shape
      <4>3. counters'[k] = counters[k] + Estimate BY <3>1, <3>4
      <4> QED BY <4>1, <4>2, <4>3, <3>3, <2>2, PendingFinite DEF Estimate
    <3>5. CASE counters[k] = Absent
      <4>1. s.def.id = k[1] BY <3>1 DEF KeyOf, CounterKey
      <4>2. counters'[k] = s.spentCents + Estimate BY <3>1, <3>5
      <4> QED BY <4>1, <4>2, <3>1, <3>3, <2>2, PendingFinite DEF Estimate
    <3> QED BY <3>4, <3>5
  <2>4. CASE ~Touches(states, k)
    <3>1. counters'[k] = counters[k] BY <2>4, <1>3
    <3>2. PICK d \in registered : d.id = k[1] /\
            counters[k] + Estimate * Cardinality(Pending(k))
              <= d.limitCents + Estimate * Cardinality(Callers)
      BY <3>1 DEF IInv, Headroom
    <3>3. d.limitCents \in Nat /\ counters[k] \in Nat BY <3>1, <3>2, DefsAssumption DEF IInv, Shape
    <3>4. Cardinality(Pending(k)') <= Cardinality(Pending(k))
      BY <2>1, PendingFinite, FS_Subset
    <3> QED BY <3>1, <3>2, <3>3, <3>4, <2>2, PendingFinite DEF Estimate
  <2> QED BY <2>3, <2>4
<1>9. NoLostReservation'
  <2> SUFFICES ASSUME NEW k \in CounterKeys PROVE Spent(k)' = Estimate * paid'[k]
    BY DEF NoLostReservation
  <2>1. Spent(k) = Estimate * paid[k] /\ paid[k] \in Nat
    BY DEF IInv, NoLostReservation, Shape
  <2>2. CASE Touches(states, k)
    <3>1. counters'[k] = Spent(k) + Estimate /\ paid'[k] = paid[k] + 1
      BY <2>2, <1>1, <1>2 DEF Spent
    <3>2. counters'[k] # Absent BY <3>1, <2>1 DEF Estimate, Absent
    <3> QED BY <3>1, <3>2, <2>1 DEF Spent, Estimate
  <2>3. CASE ~Touches(states, k) BY <2>3, <2>1, <1>1, <1>3 DEF Spent
  <2> QED BY <2>2, <2>3
<1>10. CacheIsFresh' BY <1>1, SameCacheIsFresh DEF IInv
<1>11. Opened'
  <2> SUFFICES ASSUME NEW d \in Callers
               PROVE  /\ calls'[d].pc = "read" /\ ~HardBudgetBlock(calls'[d].states) => calls'[d].open
                      /\ calls'[d].pc = "llm" => calls'[d].open
    BY DEF Opened, HardBudgetBlock, Breached
  <2>1. calls[c].open BY <1>1 DEF states, IInv, Opened
  <2> QED BY <2>1, <1>6 DEF IInv, Opened
<1> QED BY <1>5, <1>7, <1>8, <1>9, <1>10, <1>11 DEF IInv

\* No step of the gateway, and no stutter, leaves the inductive invariant.
THEOREM StepIInv == IInv /\ [Next]_vars => IInv'
<1> SUFFICES ASSUME IInv, [Next]_vars PROVE IInv'
  OBVIOUS
<1>1. CASE Tick
  <2>1. UNCHANGED <<defs, cache, counters, calls, registered, paid>> /\ now' \in 0 .. MaxNow
    BY <1>1, BoundsAssumption DEF Tick, store, history, IInv, Shape
  <2>2. Shape' /\ CacheIsFresh' BY <2>1, SameCacheIsFresh DEF IInv, Shape
  <2> QED BY <2>1, <2>2, DefsStep
<1>2. ASSUME NEW d \in Defs, RegisterBudgetDef(d) PROVE IInv'
  <2>1. /\ UNCHANGED <<counters, calls, paid, now>> /\ cache' = NoCache
        /\ registered' = registered \cup {d} /\ defs' \subseteq defs \cup {d}
    BY <1>2 DEF RegisterBudgetDef
  <2>2. Shape' BY <2>1 DEF IInv, Shape, NoCache
  <2> QED BY <2>1, <2>2, DefsStep, NoCacheIsFresh
<1>3. CASE ClearBudgetDefs
  <2>1. /\ UNCHANGED <<counters, calls, paid, now, registered>> /\ cache' = NoCache /\ defs' = {}
    BY <1>3 DEF ClearBudgetDefs, history
  <2>2. Shape' BY <2>1 DEF IInv, Shape, NoCache
  <2> QED BY <2>1, <2>2, DefsStep, NoCacheIsFresh
<1>4. CASE ClearBudgetCache
  <2>1. UNCHANGED <<counters, calls, paid, now, registered, defs>> /\ cache' = NoCache
    BY <1>4 DEF ClearBudgetCache, history
  <2>2. Shape' BY <2>1 DEF IInv, Shape, NoCache
  <2> QED BY <2>1, <2>2, DefsStep, NoCacheIsFresh
<1>5. CASE \E c \in Callers, r \in Requests : ApplicableBudgets(c, r) BY <1>5, ReadStep
<1>6. CASE \E c \in Callers : Refuse(c) \/ Settle(c)
  BY <1>6, LeaveStep DEF Refuse, Settle, store, history
<1>7. CASE \E c \in Callers : Admit(c) BY <1>7, AdmitStep
<1>8. CASE UNCHANGED vars
  <2>1. UNCHANGED <<defs, cache, counters, now, calls, registered, paid>> BY <1>8 DEF vars
  <2>2. Shape' /\ CacheIsFresh' BY <2>1, SameCacheIsFresh DEF IInv, Shape
  <2> QED BY <2>1, <2>2, DefsStep
<1> QED BY <1>1, <1>2, <1>3, <1>4, <1>5, <1>6, <1>7, <1>8 DEF Next

\* The inductive invariant holds in every reachable state.
THEOREM Inductive == Spec => []IInv
BY InitIInv, StepIInv, PTL DEF Spec

\* A budget is overshot by at most one estimate per concurrent call, whatever
\* the interleaving of checks and reservations.
THEOREM OvershootBoundedHolds == Spec => []OvershootBounded
<1>1. IInv => OvershootBounded
  <2> SUFFICES ASSUME IInv, NEW k \in CounterKeys, counters[k] # Absent
               PROVE  \E d \in registered :
                 d.id = k[1] /\ counters[k] <= d.limitCents + Estimate * Cardinality(Callers)
    BY DEF OvershootBounded
  <2>1. PICK d \in registered : d.id = k[1] /\
          counters[k] + Estimate * Cardinality(Pending(k))
            <= d.limitCents + Estimate * Cardinality(Callers)
    BY DEF IInv, Headroom
  <2>2. d.limitCents \in Nat /\ counters[k] \in Nat BY <2>1, DefsAssumption DEF IInv, Shape
  <2> QED BY <2>1, <2>2, PendingFinite DEF Estimate
<1> QED BY <1>1, Inductive, PTL

\* Reservations made after an await on values read before it are never lost,
\* and a refused call leaves none.
THEOREM NoLostReservationHolds == Spec => []NoLostReservation
<1>1. IInv => NoLostReservation BY DEF IInv
<1> QED BY <1>1, Inductive, PTL

\* The definition cache answers what filtering the definitions anew would give
\* for some request with the key, because every change of them clears it.
THEOREM CacheIsFreshHolds == Spec => []CacheIsFresh
<1>1. IInv => CacheIsFresh BY DEF IInv
<1> QED BY <1>1, Inductive, PTL

\* No call reaches the model unless, when it started, every budget was open that
\* applies to one of the requests with its cache key.
THEOREM AdmittedOnlyUnderLimitHolds == Spec => []AdmittedOnlyUnderLimit
<1>1. IInv => AdmittedOnlyUnderLimit BY DEF IInv, Opened, AdmittedOnlyUnderLimit
<1> QED BY <1>1, Inductive, PTL

-----------------------------------------------------------------------------
\* The type invariant.  That the cache keeps its limit is inductive once its
\* entries are known to be finitely many.

Typed == TypeOK /\ IsFiniteSet(Entries(cache))

\* Making room for an entry and storing it: the entries stay within the limit,
\* and every one of them is an old one or the new one.
LEMMA CacheBudgetDefsBound ==
  ASSUME IInv, Typed, NEW ck \in CacheKeys, NEW entry
  PROVE  LET new == CacheBudgetDefs(ck, entry) IN
         /\ IsFiniteSet(Entries(new)) /\ Cardinality(Entries(new)) <= CacheMax
         /\ \A k \in CacheKeys : new[k] \in {cache[k], entry, NoEntry}
<1> DEFINE unexpired == [k \in CacheKeys |-> IF cache[k].expiresAt <= now THEN NoEntry ELSE cache[k]]
           room == IF Cardinality(Entries(cache)) < CacheMax THEN cache
                   ELSE IF Cardinality(Entries(unexpired)) < CacheMax THEN unexpired
                   ELSE NoCache
           new == [room EXCEPT ![ck] = entry]
<1>1. /\ room = [k \in CacheKeys |-> room[k]]
      /\ \A k \in CacheKeys : room[k] \in {cache[k], NoEntry}
  <2>1. cache = [k \in CacheKeys |-> cache[k]] BY DEF IInv, Shape
  <2>2. \A k \in CacheKeys : unexpired[k] \in {cache[k], NoEntry} OBVIOUS
  <2>3. \A k \in CacheKeys : NoCache[k] = NoEntry BY DEF NoCache
  <2>4. unexpired = [k \in CacheKeys |-> unexpired[k]] /\ NoCache = [k \in CacheKeys |-> NoCache[k]]
    BY DEF NoCache
  <2> HIDE DEF unexpired
  <2> QED BY <2>1, <2>2, <2>3, <2>4
<1>2. \/ Cardinality(Entries(room)) < CacheMax
      \/ room = NoCache
  OBVIOUS
<1> HIDE DEF room
<1>3. /\ IsFiniteSet(Entries(room)) /\ Cardinality(Entries(room)) \in Nat
      /\ Cardinality(Entries(room)) < CacheMax
  <2>1. Entries(room) \subseteq Entries(cache) BY <1>1 DEF Entries, NoEntry
  <2>2. IsFiniteSet(Entries(room)) BY <2>1, FS_Subset DEF Typed
  <2>3. CASE room = NoCache
    <3>1. Entries(NoCache) = {} BY DEF Entries, NoCache, NoEntry
    <3> QED BY <2>3, <3>1, FS_EmptySet, BoundsAssumption
  <2> QED BY <1>2, <2>2, <2>3, FS_CardinalityType
<1>4. \A k \in CacheKeys : new[k] = IF k = ck THEN entry ELSE room[k] BY <1>1
<1>5. Entries(new) \subseteq Entries(room) \cup {ck} BY <1>4 DEF Entries
<1>6. /\ IsFiniteSet(Entries(room) \cup {ck})
      /\ Cardinality(Entries(room) \cup {ck}) <= Cardinality(Entries(room)) + 1
  <2>1. /\ IsFiniteSet(Entries(room) \cup {ck})
        /\ Cardinality(Entries(room) \cup {ck}) =
             IF ck \in Entries(room) THEN Cardinality(Entries(room)) ELSE Cardinality(Entries(room)) + 1
    BY <1>3, FS_AddElement, Zenon
  <2> QED BY <1>3, <2>1
<1>7. /\ IsFiniteSet(Entries(new)) /\ Cardinality(Entries(new)) \in Nat
      /\ Cardinality(Entries(new)) <= Cardinality(Entries(room) \cup {ck})
      /\ Cardinality(Entries(room) \cup {ck}) \in Nat
  BY <1>5, <1>6, FS_Subset, FS_CardinalityType
<1>8. Cardinality(Entries(new)) <= CacheMax BY <1>3, <1>6, <1>7, BoundsAssumption
<1>9. new = CacheBudgetDefs(ck, entry) BY DEF CacheBudgetDefs, room
<1> QED BY <1>1, <1>4, <1>7, <1>8, <1>9

LEMMA InitTyped == Init => Typed
<1> SUFFICES ASSUME Init PROVE Typed
  OBVIOUS
<1>1. Entries(cache) = {} BY DEF Init, Entries, NoEntry
<1>2. Cardinality(Entries(cache)) <= CacheMax BY <1>1, FS_EmptySet, BoundsAssumption
<1>3. \A k \in CacheKeys : cache[k].expiresAt \in 0 .. MaxNow + TTL /\ cache[k].defs \subseteq Defs
  BY BoundsAssumption DEF Init, NoEntry
<1> QED BY <1>1, <1>2, <1>3, FS_EmptySet, BoundsAssumption, SMTT(20)
        DEF Init, Typed, TypeOK, Absent, Idle

\* A step that leaves the cache alone or clears it.
LEMMA CacheOfAStep ==
  ASSUME Typed, cache' = cache \/ cache' = NoCache
  PROVE  /\ IsFiniteSet(Entries(cache')) /\ Cardinality(Entries(cache')) <= CacheMax
         /\ \A k \in CacheKeys : cache'[k].expiresAt \in 0 .. MaxNow + TTL /\ cache'[k].defs \subseteq Defs
<1>1. CASE cache' = cache BY <1>1 DEF Typed, TypeOK
<1>2. CASE cache' = NoCache
  <2>1. Entries(cache') = {} BY <1>2 DEF Entries, NoCache, NoEntry
  <2>2. \A k \in CacheKeys : cache'[k] = NoEntry BY <1>2 DEF NoCache
  <2> QED BY <2>1, <2>2, FS_EmptySet, BoundsAssumption DEF NoEntry
<1> QED BY <1>1, <1>2

LEMMA TypedStep == IInv /\ IInv' /\ Typed /\ [Next]_vars => Typed'
<1> SUFFICES ASSUME IInv, IInv', Typed, [Next]_vars PROVE Typed'
  OBVIOUS
<1>1. /\ now' \in 0 .. MaxNow /\ registered' \subseteq Defs /\ defs' \subseteq registered'
      /\ DOMAIN counters' = CounterKeys
      /\ \A k \in CounterKeys : counters'[k] \in Nat \cup {Absent}
  BY DEF IInv, Shape
<1>2. \A d, e \in defs' : d.id = e.id => d = e
  <2>1. \/ defs' = defs \/ defs' = {}
        \/ \E d \in Defs : defs' = {e \in defs : e.id # d.id} \cup {d}
    BY DEF Next, vars, Tick, RegisterBudgetDef, ClearBudgetDefs, ClearBudgetCache,
           ApplicableBudgets, Refuse, Admit, Settle, store, history
  <2> QED BY <2>1 DEF Typed, TypeOK
<1>3. \A c \in Callers : calls'[c].pc \in {"idle", "read", "llm"}
  <2>1. CASE calls' = calls BY <2>1 DEF Typed, TypeOK
  <2>2. CASE \E c \in Callers, r \in Requests : ApplicableBudgets(c, r)
    BY <2>2 DEF ApplicableBudgets, Typed, TypeOK, IInv, Shape
  <2>3. CASE \E c \in Callers : Refuse(c) \/ Admit(c) \/ Settle(c)
    BY <2>3 DEF Refuse, Admit, Settle, Idle, Typed, TypeOK, IInv, Shape
  <2> QED BY <2>1, <2>2, <2>3 DEF Next, vars, Tick, RegisterBudgetDef, ClearBudgetDefs,
                                  ClearBudgetCache
<1>4. /\ IsFiniteSet(Entries(cache')) /\ Cardinality(Entries(cache')) <= CacheMax
      /\ \A k \in CacheKeys : cache'[k].expiresAt \in 0 .. MaxNow + TTL /\ cache'[k].defs \subseteq Defs
  <2>1. CASE cache' = cache \/ cache' = NoCache BY <2>1, CacheOfAStep
  <2>2. ASSUME NEW c \in Callers, NEW r \in Requests, ApplicableBudgets(c, r),
               cache' # cache
        PROVE  <1>4
    <3> DEFINE ck == CacheKey(r)
               entry == [expiresAt |-> now + TTL, defs |-> ApplicableDefs(r)]
    <3>1. cache' = CacheBudgetDefs(ck, entry) BY <2>2 DEF ApplicableBudgets
    <3>2. ck \in CacheKeys BY OwnKey
    <3>3. entry.expiresAt \in 0 .. MaxNow + TTL /\ entry.defs \subseteq Defs
      BY BoundsAssumption DEF Typed, TypeOK, ApplicableDefs
    <3>4. NoEntry.expiresAt \in 0 .. MaxNow + TTL /\ NoEntry.defs \subseteq Defs
      BY BoundsAssumption DEF NoEntry
    <3>5. \A k \in CacheKeys : cache[k].expiresAt \in 0 .. MaxNow + TTL /\ cache[k].defs \subseteq Defs
      BY DEF Typed, TypeOK
    <3> HIDE DEF ck, entry
    <3>6. /\ IsFiniteSet(Entries(cache')) /\ Cardinality(Entries(cache')) <= CacheMax
          /\ \A k \in CacheKeys : cache'[k] \in {cache[k], entry, NoEntry}
      BY <3>1, <3>2, CacheBudgetDefsBound
    <3> QED BY <3>3, <3>4, <3>5, <3>6
  <2> QED BY <2>1, <2>2 DEF Next, vars, Tick, RegisterBudgetDef, ClearBudgetDefs,
                            ClearBudgetCache, Refuse, Admit, Settle, store
<1> QED BY <1>1, <1>2, <1>3, <1>4 DEF Typed, TypeOK

\* Budget ids stay unique among the definitions, the definition cache never
\* outgrows BUDGET_DEF_CACHE_MAX, and everything keeps its range.
THEOREM TypeCorrect == Spec => []TypeOK
<1>1. Typed => TypeOK BY DEF Typed
<1>2. Spec => []Typed
  <2>1. Spec => []IInv BY Inductive
  <2> QED BY <2>1, InitTyped, TypedStep, PTL DEF Spec
<1> QED BY <1>1, <1>2, PTL
=============================================================================
