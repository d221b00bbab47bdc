------------------------ MODULE GuardPipelineProofs -------------------------
(***************************************************************************)
(* Proofs about a tool call through the plugins, for any callers,          *)
(* sessions, payloads, settings and samples, in each wiring and wherever   *)
(* the policy engine listens.                                              *)
(*                                                                         *)
(* The invariant has eight parts, and a step of a runner is first reduced  *)
(* to what it may do to its call: go on, pass it, or refuse it by a guard  *)
(* that can.  Which guards can is a matter of the formulas alone.  The     *)
(* records: what has been told of a call is a function of what has become  *)
(* of it, so that a plugin that finds a call neither passed nor refused    *)
(* finds no block.  The cache: no key is in it twice, so that a hit moves  *)
(* its key and evicts none.  The counters: a counter and the calls that    *)
(* may still raise it are together at most the calls made.  The rate       *)
(* limit: a session admits at most what its counter counts.  The budget:   *)
(* a call past the quotas owes its cost until it runs or is refused, and   *)
(* what was charged and what is owed are together at most what the counter *)
(* holds.  The sum of what is owed is the cardinality of a set of pairs.   *)
(***************************************************************************)
EXTENDS GuardPipeline, SequenceTheorems, FiniteSetTheorems, TLAPS

(* The invariant. *)

\* Who refuses a call, as the settings reach them.
IitRefusers == {"phi-threshold", "phi-trajectory", "boundary-frontier", "catastrophe-cusp",
                "calculatePhi", "policy-engine"}
NonIitRefusers ==
  {"rate-limit", "budget-exhausted", "policy-allowed"}
  \cup (IF NonIitCfg.tier = "local-rules" /\ NonIitCfg.harmlessBlockThreshold <= 80
        THEN {} ELSE {"hhh-harmless"})

PhiAnswers ==
  {Iit!NoAnswer, Iit!Computing} \cup {Iit!PhiAnswer(PhiOf[t]) : t \in Tpms}

Statuses == {"idle", "judging", "passed", "refused"}

IitRecords ==
  [status : Statuses, at : 0..12, answer : PhiAnswers, by : IitRefusers \cup {"none"}]
NonIitRecords == [status : Statuses, at : 0..5, by : NonIitRefusers \cup {"none"}]

\* Where a call is with guards-iit: at a guard that needs a TPM only with one.
IitPlaces ==
  /\ iit \in [Callers -> IitRecords]
  /\ \A c \in Callers :
       /\ iit[c].by = "none" <=> iit[c].status # "refused"
       /\ iit[c].status = "idle" => iit[c].at = 0
       /\ iit[c].answer # Iit!NoAnswer => event[c].tpm # Undefined
       /\ iit[c].status = "judging" =>
            /\ iit[c].at >= 1
            /\ iit[c].at < 12 => iit[c].at = 10 \/ event[c].tpm # Undefined

NonIitPlaces ==
  /\ nonIit \in [Callers -> NonIitRecords]
  /\ \A c \in Callers : /\ nonIit[c].by = "none" <=> nonIit[c].status # "refused"
                        /\ nonIit[c].status = "judging" => nonIit[c].at >= 1

Distinct(s) == \A i, j \in DOMAIN s : s[i] = s[j] => i = j

\* A Map holds a key once.
CacheInv == cache \in Seq(Tpms) /\ Len(cache) <= CacheMax /\ Distinct(cache)

Samples == {ev.phi : ev \in Events} \cup {ev.mip : ev \in Events} \cup {PhiOf[t] : t \in Tpms}
           \cup {Undefined}

Windows ==
  /\ phiHistory \in [Sessions -> Seq(Samples)] /\ mipHistory \in [Sessions -> Seq(Samples)]
  /\ \A s \in Sessions : /\ Len(phiHistory[s]) <= Cfg.phiTrajectory.window
                         /\ Len(mipHistory[s]) <= Cfg.mipShift.window

\* A call gives the free-energy guard one sample at most, and is counted once at
\* most: what it may still give is among the calls made.
Sampling == {c \in Callers : /\ event[c] # NoEvent /\ iit[c].status \in {"idle", "judging"}
                             /\ iit[c].at <= 11}
Entering == {c \in Callers : event[c] # NoEvent /\ nonIit[c].status = "idle"}

Counted ==
  /\ calls \in 0..MaxCalls
  /\ observed \in [Sessions -> Nat]
  /\ rate \in [Sessions -> [count : Nat, expired : BOOLEAN]]
  /\ IsFiniteSet(Sampling) /\ IsFiniteSet(Entering)
  /\ \A s \in Sessions : /\ observed[s] + Cardinality(Sampling) <= calls
                         /\ rate[s].count + Cardinality(Entering) <= calls

\* The records of a call, by what has become of it.
Wired(plugin) == \E i \in DOMAIN wired : wired[i] = plugin
One(condition) == IF condition THEN 1 ELSE 0
Tellers ==
  Range(Iit!GUARDS) \cup Range(NonIit!NonIitGUARDS) \cup {"guards-iit", "guards-non-iit"}
DecisionEvents == Range(Iit!GUARDS) \X {"warn", "block"}
EvaluateEvents == Tellers \X {"pass", "block"}
AtEnd(records) == {Len(records)} \ {0}

Told(c) ==
  /\ ~Wired("iit") => iit[c].status = "idle"
  /\ ~Wired("nonIit") => nonIit[c].status = "idle"
  /\ ~Wired("auth") => auth[c] = "idle"
  /\ ~(iit[c].status = "refused" /\ nonIit[c].status = "refused")
  /\ auth[c] = "refused" => iit[c].status # "refused" /\ nonIit[c].status # "refused"
  /\ decisions[c] \in Seq(DecisionEvents)
  /\ evaluations[c] \in Seq(EvaluateEvents)
  /\ Blocks(decisions[c]) =
       IF iit[c].status = "refused" /\ iit[c].by \notin Silent THEN AtEnd(decisions[c]) ELSE {}
  /\ iit[c].status = "refused" /\ iit[c].by \notin Silent => decisions[c] # <<>>
  /\ iit[c].status # "refused" /\ nonIit[c].status # "refused" =>
       /\ Blocks(evaluations[c]) = {}
       /\ Len(evaluations[c]) = One(iit[c].status = "passed") + One(nonIit[c].status = "passed")
  /\ nonIit[c].status = "refused" /\ nonIit[c].by \in Silent => Blocks(evaluations[c]) = {}
  /\ nonIit[c].status = "refused" /\ nonIit[c].by \notin Silent =>
       evaluations[c] # <<>> /\ Blocks(evaluations[c]) = AtEnd(evaluations[c])
  /\ iit[c].status = "refused" /\ iit[c].by \in Silent => Blocks(evaluations[c]) = {}
  /\ iit[c].status = "refused" /\ iit[c].by \notin Silent =>
       Blocks(evaluations[c]) \subseteq AtEnd(evaluations[c])

Records ==
  /\ decisions = [c \in Callers |-> decisions[c]]
  /\ evaluations = [c \in Callers |-> evaluations[c]]
  /\ \A c \in Callers : Told(c)

\* A call past the quotas owes its cost until it runs or is refused: as a set, as
\* many pairs of the call and a number as the cost says.
Cost(c) == OrElse(event[c].cost, 0)
Owing(s) == {c \in Callers : /\ event[c] # NoEvent /\ event[c].sessionId = s
                             /\ nonIit[c].status \in {"judging", "passed"}
                             /\ ~Passed(c) /\ ~IsRefused(c)}
Owed(s) == UNION {{c} \X (1..Cost(c)) : c \in Owing(s)}

Quotas ==
  /\ admitted \in [Sessions -> Nat] /\ charged \in [Sessions -> Nat]
  /\ budget \in [Sessions -> [spent : Nat, tokens : Nat]]
  /\ \A s \in Sessions :
       /\ admitted[s] < NonIitCfg.maxRequestsPerMinute
       /\ ~rate[s].expired => admitted[s] <= rate[s].count
       /\ Wired("nonIit") =>
            /\ IsFiniteSet(Owed(s))
            /\ charged[s] + Cardinality(Owed(s)) <= budget[s].spent
            /\ charged[s] + Cardinality(Owed(s)) <= NonIitCfg.maxSpendPerSession

Base ==
  /\ setup \in Deployments /\ wired \in Wirings
  /\ event \in [Callers -> Events \cup {NoEvent}]
  /\ auth \in [Callers -> {"idle", "passed", "refused"}]

PipelineInv ==
  /\ Base /\ IitPlaces /\ NonIitPlaces /\ CacheInv /\ Windows /\ Counted /\ Records /\ Quotas

----------------------------------------------------------------------------
(* The cache. *)

\* Removing a key that is there leaves the other keys, once each.
LEMMA RemoveFirstFacts ==
  ASSUME NEW T, NEW s \in Seq(T), NEW key,
         Distinct(s),
         key \in Range(s)
  PROVE  \E r \in Seq(T) : /\ r = Iit!RemoveFirst(s, key)
                           /\ Len(r) = Len(s) - 1
                           /\ Distinct(r)
                           /\ Range(r) = Range(s) \ {key}
<1>1. PICK n \in 1..Len(s) : s[n] = key
  BY DEF Range
<1> n \in 1..Len(s) /\ Len(s) \in Nat
  BY <1>1
<1>2. {i \in 1..Len(s) : s[i] = key} = {n}
  BY <1>1 DEF Distinct
<1>3. Iit!SelectInSeq(s, LAMBDA v : v = key) = n
  BY <1>2 DEF Iit!SelectInSeq, Iit!Min
<1>4. Iit!RemoveFirst(s, key) = SubSeq(s, 1, n - 1) \o SubSeq(s, n + 1, Len(s))
  BY <1>1, <1>3 DEF Iit!RemoveFirst, Iit!RemoveAt
<1> DEFINE a == SubSeq(s, 1, n - 1)
           b == SubSeq(s, n + 1, Len(s))
           r == a \o b
<1>5. a \in Seq(T) /\ Len(a) = n - 1 /\ \A i \in 1..(n - 1) : a[i] = s[i]
  OBVIOUS
<1>6. b \in Seq(T) /\ Len(b) = Len(s) - n /\ \A i \in 1..(Len(s) - n) : b[i] = s[n + i]
  OBVIOUS
<1> HIDE DEF a, b
<1>7. r \in Seq(T) /\ Len(r) = Len(s) - 1 /\ DOMAIN r = 1..(Len(s) - 1)
  <2>1. r \in Seq(T) /\ Len(r) = Len(a) + Len(b)
    BY <1>5, <1>6, ConcatProperties
  <2> QED BY <2>1, <1>5, <1>6
<1>8. /\ \A i \in 1..(n - 1) : r[i] = s[i]
      /\ \A i \in n..(Len(s) - 1) : r[i] = s[i + 1]
  <2>1. \A i \in 1..(n - 1) : r[i] = s[i]
    BY <1>5, <1>6
  <2>2. \A i \in n..(Len(s) - 1) : r[i] = b[i - (n - 1)]
    BY <1>5, <1>6
  <2>3. \A i \in n..(Len(s) - 1) : i - (n - 1) \in 1..(Len(s) - n) /\ n + (i - (n - 1)) = i + 1
    OBVIOUS
  <2>4. \A i \in n..(Len(s) - 1) : b[i - (n - 1)] = s[i + 1]
    BY <1>6, <2>3
  <2> QED BY <2>1, <2>2, <2>4
<1> HIDE DEF r
<1>9. \A k \in 1..(Len(s) - 1) : \/ k < n /\ r[k] = s[k] /\ k \in DOMAIN s
                                 \/ k >= n /\ r[k] = s[k + 1] /\ k + 1 \in DOMAIN s
  BY <1>8
<1>10. Distinct(r)
  <2> SUFFICES ASSUME NEW i \in 1..(Len(s) - 1), NEW j \in 1..(Len(s) - 1), r[i] = r[j] PROVE i = j
    BY <1>7 DEF Distinct
  <2> QED BY <1>9 DEF Distinct
<1>11. Range(r) = Range(s) \ {key}
  <2>1. \A i \in DOMAIN r : \E k \in DOMAIN s : k # n /\ r[i] = s[k]
    BY <1>7, <1>9, SMTT(20)
  <2>2. \A k \in DOMAIN s : k # n => s[k] \in Range(s) \ {key}
    BY <1>1 DEF Range, Distinct
  <2>3. \A k \in DOMAIN s : k # n => \E i \in DOMAIN r : r[i] = s[k]
    <3> SUFFICES ASSUME NEW k \in 1..Len(s), k # n PROVE \E i \in DOMAIN r : r[i] = s[k]
      OBVIOUS
    <3>1. CASE k < n
      <4>1. k \in 1..(n - 1) /\ k \in 1..(Len(s) - 1) BY <3>1
      <4> QED BY <4>1, <1>7, <1>8
    <3>2. CASE k > n
      <4>1. k - 1 \in n..(Len(s) - 1) /\ (k - 1) + 1 = k /\ k - 1 \in 1..(Len(s) - 1) BY <3>2
      <4>2. r[k - 1] = s[k] BY <4>1, <1>8
      <4> DEFINE i == k - 1
      <4>3. i \in DOMAIN r /\ r[i] = s[k] BY <4>1, <4>2, <1>7
      <4> HIDE DEF i
      <4> QED BY <4>3, Zenon
    <3> QED BY <3>1, <3>2
  <2>4. Range(r) \subseteq Range(s) \ {key}
    <3> SUFFICES ASSUME NEW i \in DOMAIN r PROVE r[i] \in Range(s) \ {key}
      BY DEF Range
    <3>1. PICK k \in DOMAIN s : k # n /\ r[i] = s[k] BY <2>1
    <3> QED BY <2>2, <3>1
  <2>5. Range(s) \ {key} \subseteq Range(r)
    <3> SUFFICES ASSUME NEW k \in DOMAIN s, s[k] # key PROVE s[k] \in Range(r)
      BY DEF Range
    <3>1. PICK i \in DOMAIN r : r[i] = s[k] BY <2>3, <1>1
    <3> QED BY <3>1 DEF Range
  <2> QED BY <2>4, <2>5
<1> QED BY <1>4, <1>7, <1>10, <1>11 DEF r, a, b

LEMMA AppendFacts ==
  ASSUME NEW T, NEW s \in Seq(T), NEW key \in T, Distinct(s), key \notin Range(s)
  PROVE  /\ Append(s, key) \in Seq(T) /\ Len(Append(s, key)) = Len(s) + 1
         /\ Distinct(Append(s, key)) /\ Range(Append(s, key)) = Range(s) \cup {key}
<1> DEFINE r == Append(s, key)
<1>1. r \in Seq(T) /\ Len(r) = Len(s) + 1 /\ DOMAIN r = 1..(Len(s) + 1)
  OBVIOUS
<1>2. (\A i \in 1..Len(s) : r[i] = s[i]) /\ r[Len(s) + 1] = key
  OBVIOUS
<1> HIDE DEF r
<1>3. \A i \in 1..(Len(s) + 1) : i \in 1..Len(s) \/ i = Len(s) + 1
  OBVIOUS
<1>4. \A i \in 1..Len(s) : s[i] # key
  BY DEF Range
<1>5. Distinct(r)
  BY <1>1, <1>2, <1>3, <1>4 DEF Distinct
<1>6. Range(r) = Range(s) \cup {key}
  <2>1. Len(s) + 1 \in DOMAIN r /\ \A i \in 1..Len(s) : i \in DOMAIN r
    BY <1>1
  <2> QED BY <1>1, <1>2, <1>3, <2>1 DEF Range
<1> QED BY <1>1, <1>5, <1>6 DEF r

LEMMA TailFacts ==
  ASSUME NEW T, NEW s \in Seq(T), Distinct(s), s # <<>>
  PROVE  /\ Tail(s) \in Seq(T) /\ Len(Tail(s)) = Len(s) - 1
         /\ Distinct(Tail(s)) /\ Range(Tail(s)) = Range(s) \ {Head(s)}
<1> DEFINE r == Tail(s)
<1>1. r \in Seq(T) /\ Len(r) = Len(s) - 1 /\ DOMAIN r = 1..(Len(s) - 1)
  OBVIOUS
<1>2. (\A i \in 1..(Len(s) - 1) : r[i] = s[i + 1]) /\ Head(s) = s[1]
  OBVIOUS
<1> HIDE DEF r
<1>3. \A i \in 1..(Len(s) - 1) : i + 1 \in DOMAIN s /\ i + 1 # 1
  OBVIOUS
<1>4. \A i \in DOMAIN s : i = 1 \/ (i - 1 \in 1..(Len(s) - 1) /\ (i - 1) + 1 = i)
  OBVIOUS
<1>5. 1 \in DOMAIN s
  OBVIOUS
<1>6. Distinct(r)
  <2> SUFFICES ASSUME NEW i \in 1..(Len(s) - 1), NEW j \in 1..(Len(s) - 1), r[i] = r[j]
               PROVE  i = j
    BY <1>1 DEF Distinct
  <2>1. i + 1 = j + 1
    BY <1>2, <1>3 DEF Distinct
  <2> QED BY <2>1
<1>7. Range(r) = Range(s) \ {Head(s)}
  <2>1. \A i \in DOMAIN r : r[i] \in Range(s) /\ r[i] # s[1]
    BY <1>1, <1>2, <1>3, <1>5 DEF Range, Distinct
  <2>2. \A i \in DOMAIN s : i # 1 => s[i] \in Range(r)
    <3> SUFFICES ASSUME NEW i \in DOMAIN s, i # 1 PROVE s[i] \in Range(r)
      OBVIOUS
    <3>1. i - 1 \in DOMAIN r /\ r[i - 1] = s[i]
      BY <1>1, <1>2, <1>4
    <3> QED BY <3>1 DEF Range
  <2> QED BY <1>2, <2>1, <2>2 DEF Range
<1> QED BY <1>1, <1>6, <1>7 DEF r

\* What becomes of the keys when one is looked up or set.
CacheMoves ==
  /\ CacheInv'
  /\ Range(cache) \ Range(cache') # {} =>
       /\ Len(cache) = CacheMax
       /\ Range(cache) \ Range(cache') = {Head(cache)}
       /\ Range(cache') \ Range(cache) # {}

LEMMA Touches ==
  ASSUME CacheInv, NEW key \in Tpms, Iit!Hit(key), cache' = Iit!Touched(key)
  PROVE  CacheMoves /\ Range(cache') = Range(cache)
<1>1. key \in Range(cache)
  BY DEF Iit!Hit, Iit!Range, Range
<1>2. PICK r \in Seq(Tpms) : /\ r = Iit!RemoveFirst(cache, key) /\ Len(r) = Len(cache) - 1
                            /\ Distinct(r) /\ Range(r) = Range(cache) \ {key}
  BY <1>1, RemoveFirstFacts DEF CacheInv
<1>3. cache' = Append(r, key)
  BY <1>2 DEF Iit!Touched
<1>4. /\ cache' \in Seq(Tpms) /\ Len(cache') = Len(r) + 1
      /\ Distinct(cache') /\ Range(cache') = Range(r) \cup {key}
  BY <1>2, <1>3, AppendFacts
<1>5. Len(cache') = Len(cache) /\ Range(cache') = Range(cache)
  BY <1>1, <1>2, <1>4 DEF CacheInv
<1> QED BY <1>4, <1>5 DEF CacheMoves, CacheInv, Distinct

LEMMA Sets ==
  ASSUME CacheInv, NEW key \in Tpms, cache' = Iit!CacheSet(key)
  PROVE  CacheMoves /\ Range(cache') \subseteq Range(cache) \cup {key}
<1>1. CASE Iit!Hit(key)
  BY <1>1, Touches DEF Iit!CacheSet
<1>2. CASE ~Iit!Hit(key)
  <2>1. key \notin Range(cache)
    BY <1>2 DEF Iit!Hit, Iit!Range, Range
  <2>2. CASE Len(cache) >= CacheMax
    <3>1. cache # <<>> /\ cache \in Seq(Tpms) /\ Distinct(cache) /\ Len(cache) = CacheMax
      BY <2>2, CacheMaxAssumption DEF CacheInv
    <3>2. cache' = Append(Tail(cache), key)
      BY <1>2, <2>2 DEF Iit!CacheSet
    <3>3. /\ Tail(cache) \in Seq(Tpms) /\ Len(Tail(cache)) = Len(cache) - 1
          /\ Distinct(Tail(cache)) /\ Range(Tail(cache)) = Range(cache) \ {Head(cache)}
      BY <3>1, TailFacts
    <3>4. /\ cache' \in Seq(Tpms) /\ Len(cache') = Len(Tail(cache)) + 1
          /\ Distinct(cache') /\ Range(cache') = Range(Tail(cache)) \cup {key}
      <4> DEFINE t == Tail(cache)
      <4>1. t \in Seq(Tpms) /\ Distinct(t) /\ key \notin Range(t) /\ cache' = Append(t, key)
        BY <2>1, <3>2, <3>3
      <4> HIDE DEF t
      <4>2. /\ cache' \in Seq(Tpms) /\ Len(cache') = Len(t) + 1
            /\ Distinct(cache') /\ Range(cache') = Range(t) \cup {key}
        BY <4>1, AppendFacts
      <4> QED BY <4>2 DEF t
    <3>5. Head(cache) \in Range(cache)
      BY <3>1 DEF Range
    <3>6. CacheInv'
      BY <3>1, <3>3, <3>4, CacheMaxAssumption DEF CacheInv, Distinct
    <3> QED BY <2>1, <3>1, <3>3, <3>4, <3>5, <3>6 DEF CacheMoves
  <2>3. CASE ~(Len(cache) >= CacheMax)
    <3>1. cache' = Append(cache, key)
      BY <1>2, <2>3 DEF Iit!CacheSet
    <3>2. /\ cache' \in Seq(Tpms) /\ Len(cache') = Len(cache) + 1
          /\ Distinct(cache') /\ Range(cache') = Range(cache) \cup {key}
      BY <2>1, <3>1, AppendFacts DEF CacheInv
    <3>3. CacheInv'
      BY <2>3, <3>2, CacheMaxAssumption DEF CacheInv, Distinct
    <3> QED BY <3>2, <3>3 DEF CacheMoves
  <2> QED BY <2>2, <2>3
<1> QED BY <1>1, <1>2

----------------------------------------------------------------------------
(* What the guards may answer. *)

Dispositions == {"pass", "warn", "block", "throw"}

\* Only two guards block and only two throw, with the settings they are given.
Verdict(guard, disposition) ==
  /\ disposition \in Dispositions
  /\ disposition = "throw" => guard \in {"boundary-frontier", "catastrophe-cusp"}
  /\ disposition = "block" => guard \in {"phi-threshold", "phi-trajectory"}

LEMMA Names ==
  /\ Len(Iit!GUARDS) = 11 /\ DOMAIN Iit!GUARDS = 1..11
  /\ \A i \in 1..11 : Iit!GUARDS[i] \in Range(Iit!GUARDS)
  /\ \A i \in 1..11 : Iit!GUARDS[i] = "effect-ethos" <=> i = 10
  /\ \A i \in 1..11 : Iit!GUARDS[i] = "free-energy" <=> i = 11
  /\ Range(Iit!GUARDS) = {"causal-emergence", "phi-threshold", "phi-trajectory", "mip-shift",
                          "boundary-frontier", "ces-fingerprint", "attractor-ews",
                          "catastrophe-cusp", "workspace-ignition", "effect-ethos",
                          "free-energy"}
<1>1. Len(Iit!GUARDS) = 11 /\ DOMAIN Iit!GUARDS = 1..11
  BY DEF Iit!GUARDS
<1>2. /\ Iit!GUARDS[1] = "causal-emergence" /\ Iit!GUARDS[2] = "phi-threshold"
      /\ Iit!GUARDS[3] = "phi-trajectory" /\ Iit!GUARDS[4] = "mip-shift"
      /\ Iit!GUARDS[5] = "boundary-frontier" /\ Iit!GUARDS[6] = "ces-fingerprint"
      /\ Iit!GUARDS[7] = "attractor-ews" /\ Iit!GUARDS[8] = "catastrophe-cusp"
      /\ Iit!GUARDS[9] = "workspace-ignition" /\ Iit!GUARDS[10] = "effect-ethos"
      /\ Iit!GUARDS[11] = "free-energy"
  BY DEF Iit!GUARDS
<1>3. 1..11 = {1, 2, 3, 4, 5, 6, 7, 8, 9, 10, 11}
  OBVIOUS
<1> QED BY <1>1, <1>2, <1>3 DEF Range

\* A disposition with the severity of a configuration that has none is a warning.
LEMMA NoSeverity ==
  ASSUME NEW config, "severity" \notin DOMAIN config
  PROVE  Iit!SeverityDisposition(config) = "warn"
BY UndefinedAssumption DEF Iit!SeverityDisposition, Iit!Get

LEMMA TrajectoryVerdict ==
  ASSUME NEW config, NEW h, NEW phi
  PROVE  Iit!PhiTrajectory(config, h, phi).disposition \in {"pass", "warn", "block"}
<1>1. Iit!ViabilityDisposition(h, config) \in {"pass", "warn", "block"}
  BY DEF Iit!ViabilityDisposition
<1>2. Iit!SeverityDisposition(config) \in {"warn", "block"}
  BY DEF Iit!SeverityDisposition
<1>3. Iit!EscalateDisposition(Iit!SeverityDisposition(config), Iit!ViabilityDisposition(h, config))
        \in {"pass", "warn", "block"}
  BY <1>1, <1>2 DEF Iit!EscalateDisposition
<1> QED BY <1>1, <1>3 DEF Iit!PhiTrajectory, Iit!Answer

LEMMA Verdicts ==
  ASSUME NEW c, Iit!Guard(c) \in Range(Iit!GUARDS)
  PROVE  Verdict(Iit!Guard(c), Iit!Result(c).disposition)
<1> DEFINE g == Iit!Guard(c)
           d == Iit!Result(c).disposition
<1>1. CASE g = "causal-emergence"
  <2>1. Iit!SeverityDisposition(Cfg.causalEmergence) = "warn"
    BY NoSeverity, CfgAssumption
  <2>2. d \in {"pass", "warn"}
    BY <1>1, <2>1 DEF Iit!Result, Iit!getGuardConfig, Iit!CausalEmergence, Iit!Answer
  <2> QED BY <1>1, <2>2 DEF Verdict, Dispositions
<1>2. CASE g = "phi-threshold"
  BY <1>2 DEF Iit!Result, Iit!getGuardConfig, Iit!PhiThreshold, Iit!Answer, Verdict, Dispositions
<1>3. CASE g = "phi-trajectory"
  <2>1. d \in {"pass", "warn", "block"}
    BY <1>3, TrajectoryVerdict DEF Iit!Result
  <2> QED BY <1>3, <2>1 DEF Verdict, Dispositions
<1>4. CASE g = "mip-shift"
  <2>1. Iit!SeverityDisposition(Cfg.mipShift) = "warn"
    BY NoSeverity, CfgAssumption
  <2>2. d \in {"pass", "warn"}
    BY <1>4, <2>1 DEF Iit!Result, Iit!getGuardConfig, Iit!MipShift, Iit!Answer
  <2> QED BY <1>4, <2>2 DEF Verdict, Dispositions
<1>5. CASE g = "boundary-frontier"
  BY <1>5 DEF Iit!Result, Iit!BoundaryFrontier, Iit!Answer, Iit!Throw, Verdict, Dispositions
<1>6. CASE g = "ces-fingerprint"
  <2>1. Iit!getGuardConfig(g) = <<>>
    BY <1>6 DEF Iit!getGuardConfig
  <2>2. d = "pass"
    BY <1>6, <2>1 DEF Iit!Result, Iit!CesFingerprint, Iit!Get, Iit!Answer
  <2> QED BY <1>6, <2>2 DEF Verdict, Dispositions
<1>7. CASE g = "attractor-ews"
  BY <1>7 DEF Iit!Result, Iit!AttractorEws, Iit!Answer, Verdict, Dispositions
<1>8. CASE g = "catastrophe-cusp"
  BY <1>8 DEF Iit!Result, Iit!CatastropheCusp, Iit!Answer, Iit!Throw, Verdict, Dispositions
<1>9. CASE g = "workspace-ignition"
  <2>1. Iit!Get(<<>>, "ignited") # TRUE
    <3>1. "ignited" \notin DOMAIN <<>>
      OBVIOUS
    <3> QED BY <3>1, UndefinedAssumption DEF Iit!Get
  <2>2. d = "pass"
    BY <1>9, <2>1 DEF Iit!Result, Iit!WorkspaceIgnition, Iit!IgnitionScoreWasm, Iit!EsMap, Iit!Answer
  <2> QED BY <1>9, <2>2 DEF Verdict, Dispositions
<1>10. CASE g = "effect-ethos"
  <2>1. \A v : Iit!Get(Iit!ResultObject(v), "disposition") \notin {"deny", "oblige"}
    BY UndefinedAssumption DEF Iit!Get, Iit!ResultObject
  <2>2. d = "pass"
    BY <1>10, <2>1 DEF Iit!Result, Iit!EffectEthos, Iit!TeloidsEvaluateWasm, Iit!Answer
  <2> QED BY <1>10, <2>2 DEF Verdict, Dispositions
<1>11. CASE g = "free-energy"
  BY <1>11 DEF Iit!Result, Iit!FreeEnergy, Iit!Answer, Verdict, Dispositions
<1> QED BY <1>1, <1>2, <1>3, <1>4, <1>5, <1>6, <1>7, <1>8, <1>9, <1>10, <1>11, Names

----------------------------------------------------------------------------
(* What a step of guards-iit does to its call. *)

\* It stays at its guard or goes to the next, perhaps with a warning.
IitGoesOn(c) ==
  /\ \E r \in IitRecords :
       /\ r.status = "judging" /\ r.by = "none" /\ r.at >= 1
       /\ r.at < 12 => r.at = 10 \/ event[c].tpm # Undefined
       /\ r.answer # Iit!NoAnswer => event[c].tpm # Undefined
       /\ iit' = [iit EXCEPT ![c] = r]
  /\ \/ decisions' = decisions
     \/ \E g \in Range(Iit!GUARDS) :
          decisions' = [decisions EXCEPT ![c] = Append(@, <<g, "warn">>)]
  /\ evaluations' = evaluations

IitPasses(c) ==
  /\ iit' = [iit EXCEPT ![c] = Iit!Fresh("passed", 0)]
  /\ decisions' = decisions
  /\ evaluations' = [evaluations EXCEPT ![c] = Append(@, <<"guards-iit", "pass">>)]

IitRefuses(c) ==
  \E g \in IitRefusers :
    /\ iit' = Iit!Refused(c, g)
    /\ IF g \in Silent THEN decisions' = decisions /\ evaluations' = evaluations
       ELSE /\ g \in Range(Iit!GUARDS)
            /\ decisions' = [decisions EXCEPT ![c] = Append(@, <<g, "block">>)]
            /\ \/ evaluations' = evaluations
               \/ evaluations' = [evaluations EXCEPT ![c] = Append(@, <<g, "block">>)]

IitMoves(c) == IitGoesOn(c) \/ IitPasses(c) \/ IitRefuses(c)

LEMMA FirstGuards ==
  ASSUME NEW ev, NEW i \in 1..12
  PROVE  /\ Iit!FirstGuard(ev, i) \in 1..12
         /\ Iit!FirstGuard(ev, i) < 12 => Iit!FirstGuard(ev, i) = 10 \/ ev.tpm # Undefined
         /\ ev.tpm # Undefined => Iit!FirstGuard(ev, i) = i
<1> DEFINE runs == {j \in i..11 : ev.tpm # Undefined \/ Iit!GUARDS[j] \notin Iit!TPM_DEPENDENT}
<1>1. Iit!FirstGuard(ev, i) = IF runs = {} THEN 12 ELSE CHOOSE j \in runs : \A k \in runs : j <= k
  BY Names DEF Iit!FirstGuard
<1>2. \A j \in 1..11 : Iit!GUARDS[j] \notin Iit!TPM_DEPENDENT <=> j = 10
  BY Names DEF Iit!TPM_DEPENDENT, Iit!Range, Range
<1>3. CASE ev.tpm # Undefined /\ i <= 11
  <2>1. runs = i..11
    BY <1>3
  <2> HIDE DEF runs
  <2>2. i \in runs /\ (\A k \in runs : i <= k) /\ runs \subseteq 1..12
    BY <2>1, <1>3
  <2>3. \A j \in runs : (\A k \in runs : j <= k) => j = i
    BY <2>2
  <2>4. (CHOOSE j \in runs : \A k \in runs : j <= k) = i
    BY <2>2, <2>3
  <2>5. Iit!FirstGuard(ev, i) = i
    BY <1>1, <2>2, <2>4
  <2> QED BY <1>3, <2>5
<1>4. CASE ev.tpm = Undefined /\ i <= 10
  <2>1. runs = {10}
    BY <1>2, <1>4
  <2> QED BY <1>1, <2>1
<1>5. CASE (ev.tpm = Undefined /\ i > 10) \/ i = 12
  <2>1. runs = {}
    BY <1>2, <1>5
  <2> QED BY <1>1, <2>1
<1> QED BY <1>3, <1>4, <1>5

LEMMA FreshRecords ==
  /\ \A at \in 0..12 : Iit!Fresh("judging", at) \in IitRecords
  /\ Iit!Fresh("passed", 0) \in IitRecords /\ Iit!Fresh("idle", 0) \in IitRecords
  /\ \A g \in IitRefusers : [Iit!Fresh("refused", 0) EXCEPT !.by = g] \in IitRecords
  /\ \A g : /\ [Iit!Fresh("refused", 0) EXCEPT !.by = g].by = g
            /\ [Iit!Fresh("refused", 0) EXCEPT !.by = g].status = "refused"
            /\ [Iit!Fresh("refused", 0) EXCEPT !.by = g].at = 0
BY DEF Iit!Fresh, IitRecords, Statuses, PhiAnswers

\* An answer comes for a key of the event: a guard that asks needs a TPM.
LEMMA Asks ==
  ASSUME Base, IitPlaces, NEW c \in Callers, event[c] # NoEvent, Iit!AtGuard(c), Iit!NeedsPhi(c)
  PROVE  event[c].tpm \in Tpms
<1>1. iit[c].at \in 1..11 /\ iit[c].status = "judging"
  BY Names DEF IitPlaces, IitRecords, Iit!AtGuard
<1>2. Iit!Guard(c) # "effect-ethos"
  BY DEF Iit!NeedsPhi
<1>3. event[c].tpm # Undefined
  BY <1>1, <1>2, Names DEF IitPlaces, Iit!Guard
<1> QED BY <1>3, EventsAssumption DEF Base

LEMMA IitEnters ==
  ASSUME Base, IitPlaces, NEW c \in Callers, event[c] # NoEvent, Iit!IitEnter(c)
  PROVE  IitMoves(c)
<1>1. CASE Iit!PolicyRefuses(c)
  <2>1. "policy-engine" \in IitRefusers /\ "policy-engine" \in Silent
    BY DEF IitRefusers, Silent
  <2>2. iit' = Iit!Refused(c, "policy-engine") /\ decisions' = decisions /\ evaluations' = evaluations
    BY <1>1 DEF Iit!IitEnter
  <2> QED BY <2>1, <2>2 DEF IitMoves, IitRefuses
<1>2. CASE ~Iit!PolicyRefuses(c) /\ Iit!Below(event[c].phi, Cfg.minPhi)
  <2>1. "phi-threshold" \in IitRefusers /\ "phi-threshold" \notin Silent
    BY DEF IitRefusers, Silent
  <2>2. /\ iit' = Iit!Refused(c, "phi-threshold") /\ evaluations' = evaluations
        /\ decisions' = [decisions EXCEPT ![c] = Append(@, <<"phi-threshold", "block">>)]
    BY <1>2 DEF Iit!IitEnter, Iit!emitGuardDecision
  <2> QED BY <2>1, <2>2, Names DEF IitMoves, IitRefuses
<1>3. CASE ~Iit!PolicyRefuses(c) /\ ~Iit!Below(event[c].phi, Cfg.minPhi)
  <2> DEFINE r == Iit!Fresh("judging", Iit!FirstGuard(event[c], 1))
  <2>1. r \in IitRecords /\ r.status = "judging" /\ r.by = "none" /\ r.answer = Iit!NoAnswer
        /\ r.at = Iit!FirstGuard(event[c], 1)
    BY FirstGuards, FreshRecords DEF Iit!Fresh
  <2>2. r.at >= 1 /\ (r.at < 12 => r.at = 10 \/ event[c].tpm # Undefined)
    BY <2>1, FirstGuards
  <2>3. iit' = [iit EXCEPT ![c] = r] /\ decisions' = decisions /\ evaluations' = evaluations
    BY <1>3 DEF Iit!IitEnter
  <2> HIDE DEF r
  <2> QED BY <2>1, <2>2, <2>3 DEF IitMoves, IitGoesOn
<1> QED BY <1>1, <1>2, <1>3

\* An answer of calculatePhi leaves the call at its guard.
LEMMA AnswerKeeps ==
  ASSUME IitPlaces, NEW c \in Callers, Iit!AtGuard(c), NEW answer \in PhiAnswers,
         event[c].tpm # Undefined,
         iit' = [iit EXCEPT ![c].answer = answer], decisions' = decisions,
         evaluations' = evaluations
  PROVE  IitMoves(c)
<1> DEFINE r == [iit[c] EXCEPT !.answer = answer]
<1>1. iit[c] \in IitRecords /\ iit[c].status = "judging" /\ iit[c].by = "none"
  BY DEF IitPlaces, Iit!AtGuard
<1>2. r \in IitRecords /\ r.status = "judging" /\ r.by = "none" /\ r.at = iit[c].at
  BY <1>1 DEF IitRecords
<1>3. r.at >= 1 /\ (r.at < 12 => r.at = 10 \/ event[c].tpm # Undefined)
  BY <1>1, <1>2 DEF IitPlaces
<1>4. iit' = [iit EXCEPT ![c] = r]
  BY DEF IitPlaces
<1> HIDE DEF r
<1> QED BY <1>2, <1>3, <1>4 DEF IitMoves, IitGoesOn

LEMMA Answers ==
  /\ Iit!Computing \in PhiAnswers /\ Iit!NoAnswer \in PhiAnswers
  /\ \A t \in Tpms : Iit!PhiAnswer(PhiOf[t]) \in PhiAnswers
BY DEF PhiAnswers

LEMMA Probes ==
  ASSUME Base, IitPlaces, NEW c \in Callers, event[c] # NoEvent, Iit!Probe(c)
  PROVE  IitMoves(c)
<1>1. Iit!AtGuard(c) /\ decisions' = decisions /\ evaluations' = evaluations
  BY DEF Iit!Probe
<1>2. event[c].tpm \in Tpms
  BY Asks DEF Iit!Probe
<1> event[c].tpm # Undefined
  BY <1>2, EventsAssumption
<1>3. \/ iit' = [iit EXCEPT ![c].answer = Iit!PhiAnswer(PhiOf[event[c].tpm])]
      \/ iit' = [iit EXCEPT ![c].answer = Iit!Computing]
  BY DEF Iit!Probe
<1> QED BY <1>1, <1>2, <1>3, AnswerKeeps, Answers

\* Only for an event with a TPM is phi being computed.
LEMMA Computing ==
  ASSUME Base, IitPlaces, NEW c \in Callers, event[c] # NoEvent, Iit!Compute(c)
  PROVE  event[c].tpm \in Tpms
<1>1. iit[c].answer # Iit!NoAnswer
  BY DEF Iit!Compute, Iit!Computing, Iit!NoAnswer
<1>2. event[c].tpm # Undefined
  BY <1>1 DEF IitPlaces
<1> QED BY <1>2, EventsAssumption DEF Base

LEMMA Computes ==
  ASSUME Base, IitPlaces, NEW c \in Callers, event[c] # NoEvent, Iit!Compute(c)
  PROVE  IitMoves(c)
<1> event[c].tpm # Undefined
  BY Computing, EventsAssumption
<1>1. CASE PhiOf[event[c].tpm] = Undefined
  <2>1. "calculatePhi" \in IitRefusers /\ "calculatePhi" \in Silent
    BY DEF IitRefusers, Silent
  <2> QED BY <1>1, <2>1 DEF Iit!Compute, IitMoves, IitRefuses
<1>2. CASE PhiOf[event[c].tpm] # Undefined
  <2>1. /\ Iit!AtGuard(c) /\ decisions' = decisions /\ evaluations' = evaluations
        /\ iit' = [iit EXCEPT ![c].answer = Iit!PhiAnswer(PhiOf[event[c].tpm])]
    BY <1>2 DEF Iit!Compute
  <2> QED BY <2>1, AnswerKeeps, Answers, Computing
<1> QED BY <1>1, <1>2

LEMMA Judges ==
  ASSUME Base, IitPlaces, NEW c \in Callers, event[c] # NoEvent, Iit!Judge(c)
  PROVE  IitMoves(c)
<1> DEFINE g == Iit!Guard(c)
           d == Iit!Result(c).disposition
           r == Iit!Fresh("judging", Iit!FirstGuard(event[c], iit[c].at + 1))
<1>1. iit[c].status = "judging" /\ iit[c].at \in 1..11 /\ iit[c] \in IitRecords
  BY Names DEF Iit!Judge, Iit!AtGuard, IitPlaces, IitRecords
<1>2. g \in Range(Iit!GUARDS)
  BY <1>1, Names DEF Iit!Guard
<1>3. Verdict(g, d)
  BY <1>2, Verdicts
<1>4. /\ iit' = IF d \in {"block", "throw"} THEN Iit!Refused(c, g)
                ELSE [iit EXCEPT ![c] = r]
      /\ IF d = "throw" THEN decisions' = decisions ELSE Iit!emitGuardDecision(c, g, d)
      /\ IF d = "block" THEN Iit!PolicyEvaluate(c, g, "block") ELSE evaluations' = evaluations
  BY DEF Iit!Judge, IitPlaces
<1> HIDE DEF g, d
<1>5. CASE d = "block"
  <2>1. g \in IitRefusers /\ g \notin Silent
    BY <1>3, <1>5 DEF Verdict, IitRefusers, Silent
  <2> QED BY <1>2, <1>4, <1>5, <2>1
          DEF Iit!emitGuardDecision, Iit!PolicyEvaluate, IitMoves, IitRefuses
<1>6. CASE d = "throw"
  <2>1. g \in IitRefusers /\ g \in Silent
    BY <1>3, <1>6 DEF Verdict, IitRefusers, Silent
  <2> QED BY <1>4, <1>6, <2>1 DEF IitMoves, IitRefuses
<1>7. CASE d \in {"pass", "warn"}
  <2>1. r \in IitRecords /\ r.status = "judging" /\ r.by = "none" /\ r.answer = Iit!NoAnswer
        /\ r.at = Iit!FirstGuard(event[c], iit[c].at + 1)
    BY <1>1, FirstGuards, FreshRecords DEF Iit!Fresh
  <2>2. r.at >= 1 /\ (r.at < 12 => r.at = 10 \/ event[c].tpm # Undefined)
    BY <1>1, <2>1, FirstGuards
  <2>3. iit' = [iit EXCEPT ![c] = r] /\ evaluations' = evaluations
    BY <1>4, <1>7
  <2>4. \/ decisions' = decisions
        \/ decisions' = [decisions EXCEPT ![c] = Append(@, <<g, "warn">>)]
    BY <1>4, <1>7 DEF Iit!emitGuardDecision
  <2> HIDE DEF r
  <2> QED BY <1>2, <2>1, <2>2, <2>3, <2>4 DEF IitMoves, IitGoesOn
<1> QED BY <1>3, <1>5, <1>6, <1>7 DEF Verdict, Dispositions

LEMMA IitSteps ==
  ASSUME Base, IitPlaces, NEW c \in Callers, event[c] # NoEvent,
         Iit!IitEnter(c) \/ Iit!IitStep(c)
  PROVE  IitMoves(c)
<1>1. ASSUME Iit!IitPass(c) PROVE IitMoves(c)
  BY <1>1 DEF Iit!IitPass, Iit!PolicyEvaluate, IitMoves, IitPasses
<1> QED BY <1>1, IitEnters, Probes, Computes, Judges DEF Iit!IitStep

LEMMA IitCache ==
  ASSUME Base, IitPlaces, CacheInv, NEW c \in Callers, event[c] # NoEvent,
         Iit!IitEnter(c) \/ Iit!IitStep(c)
  PROVE  CacheMoves
<1>1. ASSUME cache' = cache PROVE CacheMoves
  BY <1>1 DEF CacheMoves, CacheInv, Distinct
<1>2. ASSUME Iit!Probe(c) PROVE CacheMoves
  <2>1. event[c].tpm \in Tpms
    BY <1>2, Asks DEF Iit!Probe
  <2>2. cache' = cache \/ (Iit!Hit(event[c].tpm) /\ cache' = Iit!Touched(event[c].tpm))
    BY <1>2 DEF Iit!Probe
  <2> QED BY <2>1, <2>2, <1>1, Touches
<1>3. ASSUME Iit!Compute(c) PROVE CacheMoves
  <2>1. event[c].tpm \in Tpms
    BY <1>3, Computing
  <2>2. cache' = cache \/ cache' = Iit!CacheSet(event[c].tpm)
    BY <1>3 DEF Iit!Compute
  <2> QED BY <2>1, <2>2, <1>1, Sets
<1>4. Iit!IitEnter(c) \/ Iit!Judge(c) \/ Iit!IitPass(c) => cache' = cache
  BY DEF Iit!IitEnter, Iit!Judge, Iit!IitPass
<1> QED BY <1>1, <1>2, <1>3, <1>4 DEF Iit!IitStep

----------------------------------------------------------------------------
(* The windows of samples. *)

LEMMA Pushes ==
  ASSUME NEW h \in Seq(Samples), NEW x \in Samples, NEW w \in Nat, Len(h) <= w
  PROVE  Iit!Push(h, x, w) \in Seq(Samples) /\ Len(Iit!Push(h, x, w)) <= w
<1> DEFINE p == Append(h, x)
<1>1. p \in Seq(Samples) /\ Len(p) = Len(h) + 1 /\ p # <<>>
  OBVIOUS
<1>2. Iit!Above(Len(p), w) <=> Len(p) > w
  BY <1>1, UndefinedAssumption DEF Iit!Above, Iit!IsNumber
<1> HIDE DEF p
<1>3. Tail(p) \in Seq(Samples) /\ Len(Tail(p)) = Len(h)
  BY <1>1
<1>4. Iit!Push(h, x, w) = IF Len(p) > w THEN Tail(p) ELSE p
  BY <1>2 DEF Iit!Push, p
<1> QED BY <1>1, <1>3, <1>4

LEMMA SessionsOf ==
  ASSUME Base, NEW c \in Callers, event[c] # NoEvent
  PROVE  Iit!SessionOf(c) \in Sessions /\ event[c] \in Events
BY EventsAssumption DEF Base, Iit!SessionOf, Iit!OrElse

LEMMA IitWindows ==
  ASSUME Base, IitPlaces, Windows, NEW c \in Callers, event[c] # NoEvent,
         Iit!IitEnter(c) \/ Iit!IitStep(c)
  PROVE  Windows'
<1>1. ASSUME phiHistory' = phiHistory, mipHistory' = mipHistory PROVE Windows'
  BY <1>1 DEF Windows
<1>2. ASSUME Iit!Judge(c) PROVE Windows'
  <2> DEFINE s == Iit!SessionOf(c)
  <2>1. s \in Sessions /\ event[c] \in Events
    BY SessionsOf
  <2>2. /\ Iit!PhiSample(c) \in Samples /\ Iit!MipSample(c) \in Samples
    <3>1. iit[c].answer \in PhiAnswers
      BY DEF IitPlaces, IitRecords
    <3>2. iit[c].answer.phi \in Samples /\ iit[c].answer.mip \in Samples
      <4>1. /\ Iit!NoAnswer.phi = Undefined /\ Iit!NoAnswer.mip = Undefined
            /\ Iit!Computing.phi = Undefined /\ Iit!Computing.mip = Undefined
        BY DEF Iit!NoAnswer, Iit!Computing
      <4>2. \A x : Iit!PhiAnswer(x).phi = x /\ Iit!PhiAnswer(x).mip = Undefined
        BY DEF Iit!NoAnswer, Iit!PhiAnswer
      <4> QED BY <3>1, <4>1, <4>2 DEF PhiAnswers, Samples
    <3> QED BY <2>1, <3>2 DEF Samples, Iit!PhiSample, Iit!MipSample, Iit!OrElse
  <2>3. Iit!PhiWindow(c) \in Seq(Samples) /\ Len(Iit!PhiWindow(c)) <= Cfg.phiTrajectory.window
    <3>1. phiHistory[s] \in Seq(Samples) /\ Len(phiHistory[s]) <= Cfg.phiTrajectory.window
      BY <2>1 DEF Windows
    <3> QED BY <2>2, <3>1, Pushes, CfgAssumption DEF Iit!PhiWindow
  <2>4. Iit!MipWindow(c) \in Seq(Samples) /\ Len(Iit!MipWindow(c)) <= Cfg.mipShift.window
    <3>1. mipHistory[s] \in Seq(Samples) /\ Len(mipHistory[s]) <= Cfg.mipShift.window
      BY <2>1 DEF Windows
    <3> QED BY <2>2, <3>1, Pushes, CfgAssumption DEF Iit!MipWindow
  <2>5. /\ phiHistory' = phiHistory \/ phiHistory' = [phiHistory EXCEPT ![s] = Iit!PhiWindow(c)]
        /\ mipHistory' = mipHistory \/ mipHistory' = [mipHistory EXCEPT ![s] = Iit!MipWindow(c)]
    BY <1>2 DEF Iit!Judge
  <2> HIDE DEF s
  <2> QED BY <2>1, <2>3, <2>4, <2>5 DEF Windows
<1>3. Iit!IitEnter(c) \/ Iit!Probe(c) \/ Iit!Compute(c) \/ Iit!IitPass(c)
        => phiHistory' = phiHistory /\ mipHistory' = mipHistory
  BY DEF Iit!IitEnter, Iit!Probe, Iit!Compute, Iit!IitPass
<1> QED BY <1>1, <1>2, <1>3 DEF Iit!IitStep

----------------------------------------------------------------------------
(* The counters of samples and of calls. *)

\* Only the last guard keeps a sample, and it sees a call once.
SamplesOnce(c) ==
  \/ observed' = observed
  \/ /\ iit[c].status = "judging" /\ iit[c].at = 11
     /\ iit'[c].status = "refused" \/ iit'[c].at = 12
     /\ \E s \in Sessions, n \in Nat :
          n <= observed[s] + 1 /\ observed' = [observed EXCEPT ![s] = n]

LEMMA IitSamples ==
  ASSUME Base, IitPlaces, Counted, NEW c \in Callers, event[c] # NoEvent,
         Iit!IitEnter(c) \/ Iit!IitStep(c)
  PROVE  SamplesOnce(c)
<1>1. ASSUME Iit!Judge(c) PROVE SamplesOnce(c)
  <2> DEFINE s == Iit!SessionOf(c)
  <2>1. iit[c].status = "judging" /\ iit[c].at \in 1..11 /\ iit[c] \in IitRecords
    BY <1>1, Names DEF Iit!Judge, Iit!AtGuard, IitPlaces, IitRecords
  <2>2. CASE iit[c].at # 11
    BY <1>1, <2>1, <2>2, Names DEF Iit!Judge, Iit!Guard, SamplesOnce
  <2>3. CASE iit[c].at = 11
    <3>1. s \in Sessions
      BY SessionsOf
    <3>2. Iit!Observed(c) \in Nat /\ Iit!Observed(c) <= observed[s] + 1
      <4>1. observed[s] \in Nat
        BY <3>1 DEF Counted
      <4> QED BY <4>1 DEF Iit!Observed
    <3>3. observed' = [observed EXCEPT ![s] = Iit!Observed(c)]
      BY <1>1, <2>3, Names DEF Iit!Judge, Iit!Guard
    <3>4. iit'[c].status = "refused" \/ iit'[c].at = 12
      <4>1. Iit!FirstGuard(event[c], 12) = 12
        BY Names DEF Iit!FirstGuard
      <4>2. \/ iit' = Iit!Refused(c, Iit!Guard(c))
            \/ iit' = [iit EXCEPT ![c] = Iit!Fresh("judging", Iit!FirstGuard(event[c], @.at + 1))]
        BY <1>1 DEF Iit!Judge
      <4> QED BY <2>3, <4>1, <4>2, FreshRecords DEF Iit!Refused, Iit!Fresh, IitPlaces
    <3> HIDE DEF s
    <3> QED BY <2>1, <2>3, <3>1, <3>2, <3>3, <3>4 DEF SamplesOnce
  <2> QED BY <2>2, <2>3
<1>2. Iit!IitEnter(c) \/ Iit!Probe(c) \/ Iit!Compute(c) \/ Iit!IitPass(c) => observed' = observed
  BY DEF Iit!IitEnter, Iit!Probe, Iit!Compute, Iit!IitPass
<1> QED BY <1>1, <1>2 DEF Iit!IitStep, SamplesOnce

\* Behind the last guard the call is passed on.
LEMMA IitEnds ==
  ASSUME IitPlaces, NEW c \in Callers, Iit!IitEnter(c) \/ Iit!IitStep(c), iit[c].at > 11
  PROVE  iit'[c].status = "passed"
<1>1. iit[c].status # "idle"
  BY DEF IitPlaces
<1>2. ~Iit!AtGuard(c)
  BY Names DEF Iit!AtGuard, IitPlaces, IitRecords
<1>3. Iit!IitPass(c)
  BY <1>1, <1>2 DEF Iit!IitEnter, Iit!IitStep, Iit!Probe, Iit!Compute, Iit!Judge
<1> QED BY <1>3 DEF Iit!IitPass, Iit!Fresh, IitPlaces

----------------------------------------------------------------------------
(* What a step of guards-non-iit does to its call. *)

NonIitGoesOn(c) ==
  /\ \E r \in NonIitRecords : /\ r.status = "judging" /\ r.by = "none" /\ r.at >= 1
                              /\ nonIit' = [nonIit EXCEPT ![c] = r]
  /\ evaluations' = evaluations

NonIitPasses(c) ==
  /\ nonIit' = [nonIit EXCEPT ![c] = NonIit!At("passed", 0, "none")]
  /\ evaluations' = [evaluations EXCEPT ![c] = Append(@, <<"guards-non-iit", "pass">>)]

NonIitRefuses(c) ==
  \E g \in NonIitRefusers :
    /\ nonIit' = NonIit!NonIitRefused(c, g)
    /\ IF g \in Silent THEN evaluations' = evaluations
       ELSE /\ g \in Range(NonIit!NonIitGUARDS)
            /\ evaluations' = [evaluations EXCEPT ![c] = Append(@, <<g, "block">>)]

NonIitMoves(c) == NonIitGoesOn(c) \/ NonIitPasses(c) \/ NonIitRefuses(c)

LEMMA NonIitNames ==
  /\ Len(NonIit!NonIitGUARDS) = 4
  /\ \A i \in 1..4 : NonIit!NonIitGUARDS[i] \in Range(NonIit!NonIitGUARDS)
  /\ NonIit!NonIitGUARDS[1] = "hhh-harmless" /\ NonIit!NonIitGUARDS[2] = "hhh-helpful"
  /\ NonIit!NonIitGUARDS[3] = "hhh-honest" /\ NonIit!NonIitGUARDS[4] = "policy-allowed"
BY DEF NonIit!NonIitGUARDS, Range

\* Of the HHH guards only the harmless one blocks, and it needs a score below the
\* default of 0.8 or a threshold above it.
LEMMA HhhVerdict ==
  ASSUME NEW i \in 1..3, NEW answer \in NonIit!Answers,
         NonIit!Hhh(NonIit!NonIitGUARDS[i], answer) = "block"
  PROVE  i = 1 /\ "hhh-harmless" \in NonIitRefusers
<1>1. i = 1
  BY NonIitNames DEF NonIit!Hhh
<1>2. NonIit!OrElse(answer.score, 80) < NonIitCfg.harmlessBlockThreshold
  BY <1>1, NonIitNames DEF NonIit!Hhh
<1>3. ASSUME NonIitCfg.tier = "local-rules", NonIitCfg.harmlessBlockThreshold <= 80
      PROVE  FALSE
  <2>1. answer.score = Undefined
    BY <1>3 DEF NonIit!Answers
  <2>2. 80 < NonIitCfg.harmlessBlockThreshold
    BY <1>2, <2>1 DEF NonIit!OrElse
  <2> QED BY <1>3, <2>2, NonIitCfgAssumption
<1> QED BY <1>1, <1>3 DEF NonIitRefusers

LEMMA NonIitAnswers ==
  ASSUME NonIitPlaces, NEW c \in Callers, nonIit[c].status = "judging", nonIit[c].at <= 4,
         NEW disposition, NonIit!NonIitAnswer(c, disposition),
         disposition = "block" =>
           \/ nonIit[c].at = 1 /\ "hhh-harmless" \in NonIitRefusers
           \/ nonIit[c].at = 4
  PROVE  NonIitMoves(c)
<1> DEFINE g == NonIit!NonIitGUARDS[nonIit[c].at]
<1>1. nonIit[c] \in NonIitRecords /\ nonIit[c].at \in 1..4 /\ nonIit[c].by = "none"
  BY DEF NonIitPlaces, NonIitRecords
<1>2. CASE disposition = "block"
  <2>1. g \in NonIitRefusers /\ g \notin Silent /\ g \in Range(NonIit!NonIitGUARDS)
    <3>1. (g = "hhh-harmless" /\ g \in NonIitRefusers) \/ g = "policy-allowed"
      BY <1>2, NonIitNames
    <3>2. "policy-allowed" \in NonIitRefusers
      BY DEF NonIitRefusers
    <3> QED BY <1>1, <3>1, <3>2, NonIitNames DEF Silent
  <2>2. /\ nonIit' = NonIit!NonIitRefused(c, g)
        /\ evaluations' = [evaluations EXCEPT ![c] = Append(@, <<g, "block">>)]
    BY <1>2 DEF NonIit!NonIitAnswer
  <2> HIDE DEF g
  <2> QED BY <2>1, <2>2 DEF NonIitMoves, NonIitRefuses
<1>3. CASE disposition # "block"
  <2> DEFINE r == [nonIit[c] EXCEPT !.at = @ + 1]
  <2>1. r \in NonIitRecords /\ r.status = "judging" /\ r.by = "none" /\ r.at >= 1
    BY <1>1 DEF NonIitRecords
  <2>2. nonIit' = [nonIit EXCEPT ![c] = r] /\ evaluations' = evaluations
    BY <1>3 DEF NonIit!NonIitAnswer, NonIitPlaces
  <2> HIDE DEF r
  <2> QED BY <2>1, <2>2 DEF NonIitMoves, NonIitGoesOn
<1> QED BY <1>2, <1>3

LEMMA NonIitSteps ==
  ASSUME NonIitPlaces, NEW c \in Callers, NonIit!NonIitEnter(c) \/ NonIit!NonIitStep(c)
  PROVE  NonIitMoves(c)
<1>1. ASSUME NonIit!NonIitEnter(c) PROVE NonIitMoves(c)
  <2>1. NonIit!At("judging", 1, "none") \in NonIitRecords
    BY DEF NonIit!At, NonIitRecords, Statuses
  <2>2. /\ {"rate-limit", "budget-exhausted"} \subseteq NonIitRefusers
        /\ {"rate-limit", "budget-exhausted"} \subseteq Silent
    BY DEF NonIitRefusers, Silent
  <2>3. /\ \/ nonIit' = [nonIit EXCEPT ![c] = NonIit!At("judging", 1, "none")]
           \/ \E g \in {"rate-limit", "budget-exhausted"} : nonIit' = NonIit!NonIitRefused(c, g)
        /\ evaluations' = evaluations
    BY <1>1 DEF NonIit!NonIitEnter, NonIit!Judging
  <2>4. /\ NonIit!At("judging", 1, "none").status = "judging"
        /\ NonIit!At("judging", 1, "none").by = "none"
        /\ NonIit!At("judging", 1, "none").at = 1
    BY DEF NonIit!At
  <2> QED BY <2>1, <2>2, <2>3, <2>4 DEF NonIitMoves, NonIitGoesOn, NonIitRefuses
<1>2. ASSUME NonIit!JudgeHhh(c) PROVE NonIitMoves(c)
  <2>1. nonIit[c].status = "judging" /\ nonIit[c].at \in 1..3
    BY <1>2 DEF NonIit!JudgeHhh, NonIitPlaces, NonIitRecords
  <2>2. \/ NonIit!NonIitAnswer(c, "pass")
        \/ \E answer \in NonIit!Answers :
             NonIit!NonIitAnswer(c, NonIit!Hhh(NonIit!NonIitGUARDS[nonIit[c].at], answer))
    BY <1>2 DEF NonIit!JudgeHhh
  <2> QED BY <2>1, <2>2, HhhVerdict, NonIitAnswers
<1>3. ASSUME NonIit!JudgePolicy(c) PROVE NonIitMoves(c)
  BY <1>3, NonIitAnswers DEF NonIit!JudgePolicy
<1>4. ASSUME NonIit!NonIitPass(c) PROVE NonIitMoves(c)
  BY <1>4 DEF NonIit!NonIitPass, NonIitMoves, NonIitPasses
<1> QED BY <1>1, <1>2, <1>3, <1>4 DEF NonIit!NonIitStep

----------------------------------------------------------------------------
(* A call in each wiring. *)

\* What the quantifiers over `wired` come to, for three plugins.
Reads(c) ==
  /\ Passed(c) <=> /\ Wired("iit") => iit[c].status = "passed"
                   /\ Wired("nonIit") => nonIit[c].status = "passed"
                   /\ Wired("auth") => auth[c] = "passed"
  /\ IsRefused(c) <=> \/ Wired("iit") /\ iit[c].status = "refused"
                      \/ Wired("nonIit") /\ nonIit[c].status = "refused"
                      \/ Wired("auth") /\ auth[c] = "refused"

LEMMA ReadWiring ==
  ASSUME NEW w \in Wirings, NEW a, NEW b, NEW d, NEW v
  PROVE  /\ (\A i \in DOMAIN w : [iit |-> a, nonIit |-> b, auth |-> d][w[i]] = v) <=>
              /\ (\E i \in DOMAIN w : w[i] = "iit") => a = v
              /\ (\E i \in DOMAIN w : w[i] = "nonIit") => b = v
              /\ (\E i \in DOMAIN w : w[i] = "auth") => d = v
         /\ (\E i \in DOMAIN w : [iit |-> a, nonIit |-> b, auth |-> d][w[i]] = v) <=>
              \/ (\E i \in DOMAIN w : w[i] = "iit") /\ a = v
              \/ (\E i \in DOMAIN w : w[i] = "nonIit") /\ b = v
              \/ (\E i \in DOMAIN w : w[i] = "auth") /\ d = v
<1> DEFINE st == [iit |-> a, nonIit |-> b, auth |-> d]
<1>1. \A i \in DOMAIN w : w[i] = "iit" \/ w[i] = "nonIit" \/ w[i] = "auth"
  BY DEF Wirings, Injection, Plugins
<1>2. st["iit"] = a /\ st["nonIit"] = b /\ st["auth"] = d
  OBVIOUS
<1> HIDE DEF st
<1>3. \A i \in DOMAIN w : /\ w[i] = "iit" => st[w[i]] = a
                          /\ w[i] = "nonIit" => st[w[i]] = b
                          /\ w[i] = "auth" => st[w[i]] = d
  BY <1>2
<1>4. /\ (\A i \in DOMAIN w : st[w[i]] = v) <=>
           /\ (\E i \in DOMAIN w : w[i] = "iit") => a = v
           /\ (\E i \in DOMAIN w : w[i] = "nonIit") => b = v
           /\ (\E i \in DOMAIN w : w[i] = "auth") => d = v
      /\ (\E i \in DOMAIN w : st[w[i]] = v) <=>
           \/ (\E i \in DOMAIN w : w[i] = "iit") /\ a = v
           \/ (\E i \in DOMAIN w : w[i] = "nonIit") /\ b = v
           \/ (\E i \in DOMAIN w : w[i] = "auth") /\ d = v
  BY <1>1, <1>3
<1> QED BY <1>4 DEF st

LEMMA Readings == ASSUME wired \in Wirings, NEW c PROVE Reads(c)
BY ReadWiring DEF Reads, Wired, Passed, IsRefused, StatusOf

LEMMA ReadingsAfter == ASSUME wired' \in Wirings, NEW c PROVE Reads(c)'
BY ReadWiring DEF Reads, Wired, Passed, IsRefused, StatusOf

\* The guard plugins wired, as a number.
LEMMA GuardCount ==
  ASSUME wired \in Wirings
  PROVE  Cardinality(Guards) = One(Wired("iit")) + One(Wired("nonIit"))
<1>1. Guards = {g \in {"iit", "nonIit"} : Wired(g)}
  BY DEF Guards, Range, Wired, Wirings, Injection, Plugins
<1>2. CASE Wired("iit") /\ Wired("nonIit")
  <2>1. Guards = {"iit"} \cup {"nonIit"}
    BY <1>1, <1>2
  <2>2. IsFiniteSet({"iit"}) /\ Cardinality({"iit"}) = 1 /\ "nonIit" \notin {"iit"}
    BY FS_Singleton
  <2>3. Cardinality({"iit"} \cup {"nonIit"}) = 1 + 1
    BY <2>2, FS_AddElement
  <2> QED BY <1>2, <2>1, <2>3 DEF One
<1>3. CASE Wired("iit") /\ ~Wired("nonIit")
  <2>1. Guards = {"iit"} /\ Cardinality({"iit"}) = 1
    BY <1>1, <1>3, FS_Singleton
  <2> QED BY <1>3, <2>1 DEF One
<1>4. CASE ~Wired("iit") /\ Wired("nonIit")
  <2>1. Guards = {"nonIit"} /\ Cardinality({"nonIit"}) = 1
    BY <1>1, <1>4, FS_Singleton
  <2> QED BY <1>4, <2>1 DEF One
<1>5. CASE ~Wired("iit") /\ ~Wired("nonIit")
  <2>1. Guards = {}
    BY <1>1, <1>5
  <2> QED BY <1>5, <2>1, FS_EmptySet DEF One
<1> QED BY <1>2, <1>3, <1>4, <1>5

LEMMA Turns ==
  ASSUME NEW c, NEW plugin, Turn(c, plugin)
  PROVE  /\ Wired(plugin) /\ event[c] # NoEvent /\ ~IsRefused(c)
         /\ plugin = "iit" => iit[c].status # "passed"
         /\ plugin = "nonIit" => nonIit[c].status # "passed"
         /\ plugin = "auth" => auth[c] # "passed"
<1>1. Wired(plugin) /\ event[c] # NoEvent /\ ~IsRefused(c) /\ StatusOf(c, plugin) # "passed"
  BY DEF Turn, Wired
<1>2. /\ StatusOf(c, "iit") = iit[c].status /\ StatusOf(c, "nonIit") = nonIit[c].status
      /\ StatusOf(c, "auth") = auth[c]
  BY DEF StatusOf
<1> QED BY <1>1, <1>2

----------------------------------------------------------------------------
(* What a plugin's step keeps. *)

\* A step of guards-iit for a call, with what it does to the variables.
IitStepOf(c) ==
  /\ event[c] # NoEvent /\ Wired("iit") /\ iit[c].status \notin {"passed", "refused"}
  /\ Wired("nonIit") => nonIit[c].status # "refused"
  /\ Wired("auth") => auth[c] # "refused"
  /\ IitMoves(c) /\ CacheMoves /\ Windows' /\ SamplesOnce(c) /\ Charge(c)
  /\ iit[c].at > 11 => iit'[c].status = "passed"
  /\ UNCHANGED <<event, nonIit, rate, budget, auth, wired, policyAt, calls, admitted>>

NonIitStepOf(c) ==
  /\ event[c] # NoEvent /\ Wired("nonIit") /\ nonIit[c].status \notin {"passed", "refused"}
  /\ Wired("iit") => iit[c].status # "refused"
  /\ Wired("auth") => auth[c] # "refused"
  /\ NonIitMoves(c) /\ Charge(c)
  /\ UNCHANGED <<event, iitVars, auth, wired, policyAt, calls>>

AuthStepOf(c) ==
  /\ event[c] # NoEvent /\ Wired("auth") /\ auth[c] \notin {"passed", "refused"}
  /\ Wired("iit") => iit[c].status # "refused"
  /\ Wired("nonIit") => nonIit[c].status # "refused"
  /\ \E v \in {"passed", "refused"} : auth' = [auth EXCEPT ![c] = v]
  /\ Charge(c)
  /\ UNCHANGED <<event, iitVars, nonIit, rate, budget, evaluations, wired, policyAt, calls,
                 admitted>>

LEMMA IitTurn ==
  ASSUME PipelineInv, NEW c \in Callers, IitGuard(c)
  PROVE  IitStepOf(c)
<1>1. /\ Turn(c, "iit") /\ Charge(c)
      /\ Iit!IitEnter(c) \/ Iit!IitStep(c)
      /\ UNCHANGED <<event, nonIit, rate, budget, auth, wired, policyAt, calls, admitted>>
  BY DEF IitGuard, setup
<1>2. /\ Wired("iit") /\ event[c] # NoEvent /\ ~IsRefused(c) /\ iit[c].status # "passed"
  BY <1>1, Turns
<1>3. /\ iit[c].status # "refused" /\ (Wired("nonIit") => nonIit[c].status # "refused")
      /\ Wired("auth") => auth[c] # "refused"
  BY <1>2, Readings DEF Reads, PipelineInv, Base
<1>4. /\ IitMoves(c) /\ CacheMoves /\ Windows' /\ SamplesOnce(c)
      /\ iit[c].at > 11 => iit'[c].status = "passed"
  BY <1>1, <1>2, IitSteps, IitCache, IitWindows, IitSamples, IitEnds DEF PipelineInv
<1> QED BY <1>1, <1>2, <1>3, <1>4 DEF IitStepOf

LEMMA NonIitTurn ==
  ASSUME PipelineInv, NEW c \in Callers, NonIitGuard(c)
  PROVE  NonIitStepOf(c)
<1>1. /\ Turn(c, "nonIit") /\ Charge(c)
      /\ NonIit!NonIitEnter(c) \/ NonIit!NonIitStep(c)
      /\ UNCHANGED <<event, iitVars, auth, wired, policyAt, calls>>
  BY DEF NonIitGuard, setup
<1>2. /\ Wired("nonIit") /\ event[c] # NoEvent /\ ~IsRefused(c) /\ nonIit[c].status # "passed"
  BY <1>1, Turns
<1>3. /\ nonIit[c].status # "refused" /\ (Wired("iit") => iit[c].status # "refused")
      /\ Wired("auth") => auth[c] # "refused"
  BY <1>2, Readings DEF Reads, PipelineInv, Base
<1>4. NonIitMoves(c)
  BY <1>1, NonIitSteps DEF PipelineInv
<1> QED BY <1>1, <1>2, <1>3, <1>4 DEF NonIitStepOf

LEMMA AuthTurn ==
  ASSUME PipelineInv, NEW c \in Callers, AuthGuard(c)
  PROVE  AuthStepOf(c)
<1>1. /\ Turn(c, "auth") /\ Charge(c)
      /\ \E v \in {"passed", "refused"} : auth' = [auth EXCEPT ![c] = v]
      /\ UNCHANGED <<event, iitVars, nonIit, rate, budget, evaluations, wired, policyAt, calls,
                     admitted>>
  BY DEF AuthGuard, setup
<1>2. /\ Wired("auth") /\ event[c] # NoEvent /\ ~IsRefused(c) /\ auth[c] # "passed"
  BY <1>1, Turns
<1>3. /\ auth[c] # "refused" /\ (Wired("iit") => iit[c].status # "refused")
      /\ Wired("nonIit") => nonIit[c].status # "refused"
  BY <1>2, Readings DEF Reads, PipelineInv, Base
<1> QED BY <1>1, <1>2, <1>3 DEF AuthStepOf

----------------------------------------------------------------------------
(* The records of a call. *)

LEMMA BlocksAppended ==
  ASSUME NEW S, NEW s \in Seq(S), NEW e \in S
  PROVE  /\ Append(s, e) \in Seq(S)
         /\ Len(Append(s, e)) = Len(s) + 1 /\ Append(s, e) # <<>>
         /\ Blocks(Append(s, e)) = IF e[2] = "block" THEN Blocks(s) \cup {Len(s) + 1}
                                   ELSE Blocks(s)
<1> DEFINE r == Append(s, e)
<1>1. /\ r \in Seq(S) /\ Len(r) = Len(s) + 1 /\ r # <<>> /\ DOMAIN r = 1..(Len(s) + 1)
      /\ (\A i \in 1..Len(s) : r[i] = s[i]) /\ r[Len(s) + 1] = e
  OBVIOUS
<1>2. DOMAIN s = 1..Len(s) /\ 1..(Len(s) + 1) = 1..Len(s) \cup {Len(s) + 1}
  OBVIOUS
<1> HIDE DEF r
<1>3. Blocks(r) = IF e[2] = "block" THEN Blocks(s) \cup {Len(s) + 1} ELSE Blocks(s)
  BY <1>1, <1>2 DEF Blocks
<1> QED BY <1>1, <1>3 DEF r

LEMMA Decided ==
  ASSUME NEW s \in Seq(DecisionEvents), NEW g \in Range(Iit!GUARDS)
  PROVE  /\ Append(s, <<g, "warn">>) \in Seq(DecisionEvents)
         /\ Blocks(Append(s, <<g, "warn">>)) = Blocks(s)
         /\ Append(s, <<g, "block">>) \in Seq(DecisionEvents)
         /\ Len(Append(s, <<g, "block">>)) = Len(s) + 1 /\ Append(s, <<g, "block">>) # <<>>
         /\ Blocks(Append(s, <<g, "block">>)) = Blocks(s) \cup {Len(s) + 1}
<1> DEFINE w == <<g, "warn">>
           b == <<g, "block">>
<1>1. w \in DecisionEvents /\ b \in DecisionEvents /\ w[2] = "warn" /\ b[2] = "block"
  BY DEF DecisionEvents
<1> HIDE DEF w, b
<1>2. Append(s, w) \in Seq(DecisionEvents) /\ Blocks(Append(s, w)) = Blocks(s)
  BY <1>1, BlocksAppended
<1>3. /\ Append(s, b) \in Seq(DecisionEvents) /\ Len(Append(s, b)) = Len(s) + 1
      /\ Append(s, b) # <<>> /\ Blocks(Append(s, b)) = Blocks(s) \cup {Len(s) + 1}
  BY <1>1, BlocksAppended
<1> QED BY <1>2, <1>3 DEF w, b

LEMMA Evaluated ==
  ASSUME NEW s \in Seq(EvaluateEvents), NEW g \in Tellers
  PROVE  /\ Append(s, <<g, "pass">>) \in Seq(EvaluateEvents)
         /\ Len(Append(s, <<g, "pass">>)) = Len(s) + 1
         /\ Blocks(Append(s, <<g, "pass">>)) = Blocks(s)
         /\ Append(s, <<g, "block">>) \in Seq(EvaluateEvents)
         /\ Len(Append(s, <<g, "block">>)) = Len(s) + 1 /\ Append(s, <<g, "block">>) # <<>>
         /\ Blocks(Append(s, <<g, "block">>)) = Blocks(s) \cup {Len(s) + 1}
<1> DEFINE p == <<g, "pass">>
           b == <<g, "block">>
<1>1. p \in EvaluateEvents /\ b \in EvaluateEvents /\ p[2] = "pass" /\ b[2] = "block"
  BY DEF EvaluateEvents
<1> HIDE DEF p, b
<1>2. /\ Append(s, p) \in Seq(EvaluateEvents) /\ Len(Append(s, p)) = Len(s) + 1
      /\ Blocks(Append(s, p)) = Blocks(s)
  BY <1>1, BlocksAppended
<1>3. /\ Append(s, b) \in Seq(EvaluateEvents) /\ Len(Append(s, b)) = Len(s) + 1
      /\ Append(s, b) # <<>> /\ Blocks(Append(s, b)) = Blocks(s) \cup {Len(s) + 1}
  BY <1>1, BlocksAppended
<1> QED BY <1>2, <1>3 DEF p, b

\* The same for a passing evaluation under another name.
LEMMA PassEvaluated ==
  ASSUME NEW s \in Seq(EvaluateEvents), NEW g \in Tellers, NEW t, t = Append(s, <<g, "pass">>)
  PROVE  t \in Seq(EvaluateEvents) /\ Len(t) = Len(s) + 1 /\ Blocks(t) = Blocks(s)
<1>1. /\ Append(s, <<g, "pass">>) \in Seq(EvaluateEvents)
      /\ Len(Append(s, <<g, "pass">>)) = Len(s) + 1
      /\ Blocks(Append(s, <<g, "pass">>)) = Blocks(s)
  BY Evaluated
<1> QED BY <1>1, Zenon

LEMMA ToldAgain ==
  ASSUME NEW c, Told(c), wired' = wired, iit'[c] = iit[c], nonIit'[c] = nonIit[c],
         auth'[c] = auth[c], decisions'[c] = decisions[c], evaluations'[c] = evaluations[c]
  PROVE  Told(c)'
BY DEF Told, Wired, AtEnd, Blocks

\* A step of one call leaves the records of the others.
LEMMA ToldOthers ==
  ASSUME Records, NEW c \in Callers, Told(c)', wired' = wired,
         \A d \in Callers \ {c} : /\ iit'[d] = iit[d] /\ nonIit'[d] = nonIit[d]
                                  /\ auth'[d] = auth[d],
         decisions' = decisions \/ \E v : decisions' = [decisions EXCEPT ![c] = v],
         evaluations' = evaluations \/ \E v : evaluations' = [evaluations EXCEPT ![c] = v]
  PROVE  Records'
<1>1. /\ decisions' = [d \in Callers |-> decisions'[d]]
      /\ evaluations' = [d \in Callers |-> evaluations'[d]]
  BY DEF Records
<1>2. ASSUME NEW d \in Callers, d # c PROVE Told(d)'
  <2>1. DOMAIN decisions = Callers /\ DOMAIN evaluations = Callers
    BY DEF Records
  <2>2. decisions'[d] = decisions[d]
    <3>1. CASE decisions' = decisions
      BY <3>1
    <3>2. ASSUME NEW v, decisions' = [decisions EXCEPT ![c] = v] PROVE decisions'[d] = decisions[d]
      BY <1>2, <2>1, <3>2
    <3> QED BY <3>1, <3>2
  <2>3. evaluations'[d] = evaluations[d]
    <3>1. CASE evaluations' = evaluations
      BY <3>1
    <3>2. ASSUME NEW v, evaluations' = [evaluations EXCEPT ![c] = v]
          PROVE  evaluations'[d] = evaluations[d]
      BY <1>2, <2>1, <3>2
    <3> QED BY <3>1, <3>2
  <2>4. decisions'[d] = decisions[d] /\ evaluations'[d] = evaluations[d]
    BY <2>2, <2>3
  <2>5. Told(d) /\ iit'[d] = iit[d] /\ nonIit'[d] = nonIit[d] /\ auth'[d] = auth[d]
    BY <1>2 DEF Records
  <2> QED BY <2>4, <2>5, ToldAgain
<1> QED BY <1>1, <1>2 DEF Records

\* The names the records use.
LEMMA TellerNames ==
  /\ \A g \in Range(Iit!GUARDS) : g \in Tellers
  /\ \A g \in Range(NonIit!NonIitGUARDS) : g \in Tellers
  /\ "guards-iit" \in Tellers /\ "guards-non-iit" \in Tellers
BY DEF Tellers

LEMMA IitTells ==
  ASSUME IitPlaces, NEW c \in Callers, Records, IitStepOf(c)
  PROVE  Records'
<1>1. /\ wired' = wired /\ nonIit' = nonIit /\ auth' = auth /\ auth[c] # "refused"
      /\ Told(c) /\ DOMAIN decisions = Callers
      /\ DOMAIN evaluations = Callers /\ DOMAIN iit = Callers /\ Wired("iit")
      /\ iit[c].status \notin {"passed", "refused"} /\ nonIit[c].status # "refused"
  BY DEF Records, IitStepOf, IitPlaces, Told
<1>2. /\ decisions[c] \in Seq(DecisionEvents)
      /\ evaluations[c] \in Seq(EvaluateEvents)
      /\ Blocks(decisions[c]) = {} /\ Blocks(evaluations[c]) = {}
      /\ Len(evaluations[c]) = One(nonIit[c].status = "passed")
      /\ ~Wired("nonIit") => nonIit[c].status = "idle"
  <2>1. One(iit[c].status = "passed") = 0 /\ One(nonIit[c].status = "passed") \in Nat
    BY <1>1 DEF One
  <2>2. Len(evaluations[c]) = One(nonIit[c].status = "passed")
    BY <1>1, <2>1 DEF Told
  <2> QED BY <1>1, <2>2 DEF Told
<1>3. ASSUME NEW r, iit' = [iit EXCEPT ![c] = r], Told(c)',
             decisions' = decisions \/ \E v : decisions' = [decisions EXCEPT ![c] = v],
             evaluations' = evaluations \/ \E v : evaluations' = [evaluations EXCEPT ![c] = v]
      PROVE  Records'
  BY <1>1, <1>3, ToldOthers
<1>4. CASE IitGoesOn(c)
  <2>1. PICK r \in IitRecords : iit' = [iit EXCEPT ![c] = r] /\ r.status = "judging"
    BY <1>4 DEF IitGoesOn
  <2>2. iit'[c].status = "judging" /\ evaluations'[c] = evaluations[c] /\ evaluations' = evaluations
    BY <1>1, <1>4, <2>1 DEF IitGoesOn
  <2>3. /\ decisions'[c] \in Seq(DecisionEvents)
        /\ Blocks(decisions'[c]) = {}
    <3>1. CASE decisions' = decisions
      BY <1>2, <3>1
    <3>2. CASE \E g \in Range(Iit!GUARDS) :
                 decisions' = [decisions EXCEPT ![c] = Append(@, <<g, "warn">>)]
      <4>1. PICK g \in Range(Iit!GUARDS) : decisions'[c] = Append(decisions[c], <<g, "warn">>)
        BY <1>1, <3>2
      <4> QED BY <1>2, <4>1, Decided
    <3> QED BY <1>4, <3>1, <3>2 DEF IitGoesOn
  <2>4. Told(c)'
    BY <1>1, <1>2, <2>2, <2>3 DEF Told, Wired, One
  <2> QED BY <1>3, <1>4, <2>1, <2>4 DEF IitGoesOn
<1>5. CASE IitPasses(c)
  <2>1. iit'[c].status = "passed" /\ decisions'[c] = decisions[c]
    BY <1>1, <1>5 DEF IitPasses, Iit!Fresh
  <2>2. PICK g \in Tellers : evaluations'[c] = Append(evaluations[c], <<g, "pass">>)
    BY <1>1, <1>5, TellerNames DEF IitPasses
  <2>3. /\ evaluations'[c] \in Seq(EvaluateEvents)
        /\ Len(evaluations'[c]) = Len(evaluations[c]) + 1 /\ Blocks(evaluations'[c]) = {}
    <3> DEFINE s == evaluations[c]
               t == evaluations'[c]
    <3>1. s \in Seq(EvaluateEvents) /\ Blocks(s) = {} BY <1>2
    <3>2. t = Append(s, <<g, "pass">>) BY <2>2
    <3> HIDE DEF s, t
    <3>3. t \in Seq(EvaluateEvents) /\ Len(t) = Len(s) + 1 /\ Blocks(t) = Blocks(s)
      BY <3>1, <3>2, PassEvaluated, Zenon
    <3> QED BY <3>1, <3>3, Zenon DEF s, t
  <2>4. Told(c)'
    BY <1>1, <1>2, <2>1, <2>3 DEF Told, Wired, One
  <2> QED BY <1>3, <1>5, <2>4 DEF IitPasses
<1>6. CASE IitRefuses(c)
  <2>1. PICK g \in IitRefusers :
          /\ iit' = Iit!Refused(c, g)
          /\ IF g \in Silent THEN decisions' = decisions /\ evaluations' = evaluations
             ELSE /\ g \in Range(Iit!GUARDS)
                  /\ decisions' = [decisions EXCEPT ![c] = Append(@, <<g, "block">>)]
                  /\ \/ evaluations' = evaluations
                     \/ evaluations' = [evaluations EXCEPT ![c] = Append(@, <<g, "block">>)]
    BY <1>6 DEF IitRefuses
  <2>2. iit'[c].status = "refused" /\ iit'[c].by = g
    BY <1>1, <2>1, FreshRecords DEF Iit!Refused
  <2>3. ASSUME g \in Silent PROVE Told(c)'
    <3>1. decisions'[c] = decisions[c] /\ evaluations'[c] = evaluations[c]
      BY <2>1, <2>3
    <3> QED BY <1>1, <1>2, <2>2, <2>3, <3>1 DEF Told, Wired
  <2>4. ASSUME g \notin Silent PROVE Told(c)'
    <3>1. /\ decisions'[c] \in Seq(DecisionEvents)
          /\ decisions'[c] # <<>> /\ Blocks(decisions'[c]) = AtEnd(decisions'[c])
      <4>1. g \in Range(Iit!GUARDS) /\ decisions'[c] = Append(decisions[c], <<g, "block">>)
        BY <1>1, <2>1, <2>4
      <4>2. /\ decisions'[c] \in Seq(DecisionEvents)
            /\ decisions'[c] # <<>> /\ Len(decisions'[c]) = Len(decisions[c]) + 1
            /\ Blocks(decisions'[c]) = {Len(decisions[c]) + 1}
        BY <1>2, <4>1, Decided
      <4>3. Len(decisions[c]) + 1 # 0
        BY <1>2
      <4> QED BY <4>2, <4>3 DEF AtEnd
    <3>2. /\ evaluations'[c] \in Seq(EvaluateEvents)
          /\ Blocks(evaluations'[c]) \subseteq AtEnd(evaluations'[c])
      <4>1. CASE evaluations' = evaluations
        BY <1>2, <4>1
      <4>2. CASE evaluations' = [evaluations EXCEPT ![c] = Append(@, <<g, "block">>)]
        <5>1. g \in Tellers /\ evaluations'[c] = Append(evaluations[c], <<g, "block">>)
          BY <1>1, <2>1, <2>4, <4>2, TellerNames
        <5>2. /\ evaluations'[c] \in Seq(EvaluateEvents)
              /\ Len(evaluations'[c]) = Len(evaluations[c]) + 1
              /\ Blocks(evaluations'[c]) = {Len(evaluations[c]) + 1}
          BY <1>2, <5>1, Evaluated
        <5>3. Len(evaluations[c]) + 1 # 0
          BY <1>2
        <5> QED BY <5>2, <5>3 DEF AtEnd
      <4> QED BY <2>1, <2>4, <4>1, <4>2
    <3> QED BY <1>1, <1>2, <2>2, <2>4, <3>1, <3>2 DEF Told, Wired
  <2>5. Told(c)'
    BY <2>3, <2>4
  <2>6. iit' = [iit EXCEPT ![c] = [Iit!Fresh("refused", 0) EXCEPT !.by = g]]
    BY <2>1 DEF Iit!Refused
  <2>7. decisions' = decisions \/ \E v : decisions' = [decisions EXCEPT ![c] = v]
    BY <2>1
  <2>8. evaluations' = evaluations \/ \E v : evaluations' = [evaluations EXCEPT ![c] = v]
    BY <2>1
  <2> QED BY <1>3, <2>5, <2>6, <2>7, <2>8
<1> QED BY <1>4, <1>5, <1>6 DEF IitStepOf, IitMoves

LEMMA NonIitTells ==
  ASSUME NonIitPlaces, NEW c \in Callers, Records, NonIitStepOf(c)
  PROVE  Records'
<1>1. /\ wired' = wired /\ iit' = iit /\ decisions' = decisions
      /\ auth' = auth /\ auth[c] # "refused" /\ Told(c) /\ DOMAIN evaluations = Callers /\ DOMAIN nonIit = Callers /\ Wired("nonIit")
      /\ nonIit[c].status \notin {"passed", "refused"} /\ iit[c].status # "refused"
  BY DEF Records, NonIitStepOf, NonIitPlaces, Told, iitVars
<1>2. /\ decisions[c] \in Seq(DecisionEvents) /\ evaluations[c] \in Seq(EvaluateEvents)
      /\ Blocks(decisions[c]) = {} /\ Blocks(evaluations[c]) = {}
      /\ Len(evaluations[c]) = One(iit[c].status = "passed")
      /\ ~Wired("iit") => iit[c].status = "idle"
  <2>1. One(nonIit[c].status = "passed") = 0 /\ One(iit[c].status = "passed") \in Nat
    BY <1>1 DEF One
  <2>2. Len(evaluations[c]) = One(iit[c].status = "passed")
    BY <1>1, <2>1 DEF Told
  <2> QED BY <1>1, <2>2 DEF Told
<1>3. ASSUME NEW r, nonIit' = [nonIit EXCEPT ![c] = r], Told(c)',
             evaluations' = evaluations \/ \E v : evaluations' = [evaluations EXCEPT ![c] = v]
      PROVE  Records'
  BY <1>1, <1>3, ToldOthers
<1>4. CASE NonIitGoesOn(c)
  <2>1. PICK r \in NonIitRecords : nonIit' = [nonIit EXCEPT ![c] = r] /\ r.status = "judging"
    BY <1>4 DEF NonIitGoesOn
  <2>2. nonIit'[c].status = "judging" /\ evaluations' = evaluations
    BY <1>1, <1>4, <2>1 DEF NonIitGoesOn
  <2>3. Told(c)'
    BY <1>1, <1>2, <2>2 DEF Told, Wired, One
  <2> QED BY <1>3, <2>1, <2>2, <2>3
<1>5. CASE NonIitPasses(c)
  <2>1. nonIit'[c].status = "passed"
    BY <1>1, <1>5 DEF NonIitPasses, NonIit!At
  <2>2. PICK g \in Tellers : evaluations'[c] = Append(evaluations[c], <<g, "pass">>)
    BY <1>1, <1>5, TellerNames DEF NonIitPasses
  <2>3. /\ evaluations'[c] \in Seq(EvaluateEvents)
        /\ Len(evaluations'[c]) = Len(evaluations[c]) + 1 /\ Blocks(evaluations'[c]) = {}
    <3> DEFINE s == evaluations[c]
               t == evaluations'[c]
    <3>1. s \in Seq(EvaluateEvents) /\ Blocks(s) = {} BY <1>2
    <3>2. t = Append(s, <<g, "pass">>) BY <2>2
    <3> HIDE DEF s, t
    <3>3. t \in Seq(EvaluateEvents) /\ Len(t) = Len(s) + 1 /\ Blocks(t) = Blocks(s)
      BY <3>1, <3>2, PassEvaluated, Zenon
    <3> QED BY <3>1, <3>3, Zenon DEF s, t
  <2>4. Told(c)'
    BY <1>1, <1>2, <2>1, <2>3 DEF Told, Wired, One
  <2> QED BY <1>3, <1>5, <2>4 DEF NonIitPasses
<1>6. CASE NonIitRefuses(c)
  <2>1. PICK g \in NonIitRefusers :
          /\ nonIit' = NonIit!NonIitRefused(c, g)
          /\ IF g \in Silent THEN evaluations' = evaluations
             ELSE /\ g \in Range(NonIit!NonIitGUARDS)
                  /\ evaluations' = [evaluations EXCEPT ![c] = Append(@, <<g, "block">>)]
    BY <1>6 DEF NonIitRefuses
  <2>2. nonIit'[c].status = "refused" /\ nonIit'[c].by = g
    BY <1>1, <2>1 DEF NonIit!NonIitRefused, NonIit!At
  <2>3. ASSUME g \in Silent PROVE Told(c)'
    BY <1>1, <1>2, <2>1, <2>2, <2>3 DEF Told, Wired
  <2>4. ASSUME g \notin Silent PROVE Told(c)'
    <3>1. g \in Tellers /\ evaluations'[c] = Append(evaluations[c], <<g, "block">>)
      BY <1>1, <2>1, <2>4, TellerNames
    <3>2. /\ evaluations'[c] \in Seq(EvaluateEvents) /\ evaluations'[c] # <<>>
          /\ Len(evaluations'[c]) = Len(evaluations[c]) + 1
          /\ Blocks(evaluations'[c]) = {Len(evaluations[c]) + 1}
      BY <1>2, <3>1, Evaluated
    <3>3. Len(evaluations[c]) + 1 # 0
      BY <1>2
    <3>4. Blocks(evaluations'[c]) = AtEnd(evaluations'[c])
      BY <3>2, <3>3 DEF AtEnd
    <3> QED BY <1>1, <1>2, <2>2, <2>4, <3>2, <3>4 DEF Told, Wired
  <2>5. nonIit' = [nonIit EXCEPT ![c] = NonIit!At("refused", 0, g)]
    BY <2>1 DEF NonIit!NonIitRefused
  <2>6. evaluations' = evaluations \/ \E v : evaluations' = [evaluations EXCEPT ![c] = v]
    BY <2>1
  <2> QED BY <1>3, <2>3, <2>4, <2>5, <2>6
<1> QED BY <1>4, <1>5, <1>6 DEF NonIitStepOf, NonIitMoves

\* Auth says nothing of a call, and refuses none that another plugin refused.
LEMMA AuthTells ==
  ASSUME Base, NEW c \in Callers, Records, AuthStepOf(c)
  PROVE  Records'
<1>1. /\ wired' = wired /\ iit' = iit /\ nonIit' = nonIit /\ decisions' = decisions
      /\ evaluations' = evaluations /\ Told(c) /\ Wired("auth")
      /\ iit[c].status # "refused" /\ nonIit[c].status # "refused"
  BY DEF Records, AuthStepOf, Told, iitVars
<1>2. Told(c)'
  BY <1>1 DEF Told, Wired, AtEnd, Blocks
<1>3. \A d \in Callers \ {c} : auth'[d] = auth[d]
  BY DEF AuthStepOf, Base
<1> QED BY <1>1, <1>2, <1>3, ToldOthers

LEMMA NewCallTells ==
  ASSUME Base, IitPlaces, NonIitPlaces, Records, NEW c \in Callers, NEW ev, Call(c, ev)
  PROVE  Records'
<1>1. /\ iit' = [iit EXCEPT ![c] = Iit!Fresh("idle", 0)]
      /\ nonIit' = [nonIit EXCEPT ![c] = NonIit!At("idle", 0, "none")]
      /\ decisions' = [decisions EXCEPT ![c] = <<>>]
      /\ evaluations' = [evaluations EXCEPT ![c] = <<>>] /\ wired' = wired
      /\ auth' = [auth EXCEPT ![c] = "idle"]
  BY DEF Call, setup
<1>2. /\ iit'[c].status = "idle" /\ nonIit'[c].status = "idle" /\ auth'[c] = "idle"
      /\ decisions'[c] = <<>> /\ evaluations'[c] = <<>>
  BY <1>1 DEF Base, IitPlaces, NonIitPlaces, Records, Iit!Fresh, NonIit!At
<1>3. Blocks(<<>>) = {} /\ One(FALSE) = 0
  BY DEF Blocks, One
<1>4. Told(c)'
  BY <1>2, <1>3 DEF Told, One
<1>5. \A d \in Callers \ {c} : /\ iit'[d] = iit[d] /\ nonIit'[d] = nonIit[d]
                               /\ auth'[d] = auth[d]
  BY <1>1 DEF Base, IitPlaces, NonIitPlaces
<1> QED BY <1>1, <1>4, <1>5, ToldOthers

LEMMA RecordsAgain ==
  ASSUME Records, UNCHANGED <<wired, iit, nonIit, auth, decisions, evaluations>>
  PROVE  Records'
BY ToldAgain DEF Records

LEMMA RecordsTell ==
  ASSUME Base, IitPlaces, NonIitPlaces, Records
  PROVE  RecordsMatchOutcomes
<1> SUFFICES ASSUME NEW c \in Callers
             PROVE  /\ Passed(c) => /\ Blocks(decisions[c]) = {} /\ Blocks(evaluations[c]) = {}
                                    /\ Len(evaluations[c]) = Cardinality(Guards)
                    /\ Blocks(evaluations[c]) \subseteq {Len(evaluations[c])}
                    /\ Blocks(decisions[c]) \subseteq {Len(decisions[c])}
                    /\ IsRefused(c) =>
                         /\ Cardinality(RefusedBy(c)) = 1
                         /\ (Blocks(decisions[c]) \cup Blocks(evaluations[c]) = {})
                              <=> RefusedBy(c) \subseteq Silent
  BY DEF RecordsMatchOutcomes
<1>1. Told(c) /\ Reads(c)
  BY Readings DEF Records, Base
<1>2. /\ iit[c].by = "none" <=> iit[c].status # "refused"
      /\ nonIit[c].by = "none" <=> nonIit[c].status # "refused"
  BY DEF IitPlaces, NonIitPlaces
<1>3. Passed(c) => /\ Blocks(decisions[c]) = {} /\ Blocks(evaluations[c]) = {}
                   /\ Len(evaluations[c]) = Cardinality(Guards)
  BY <1>1, GuardCount DEF Base, Told, Reads, One
<1>4. Blocks(evaluations[c]) \subseteq {Len(evaluations[c])}
  BY <1>1 DEF Told, AtEnd
<1>5. Blocks(decisions[c]) \subseteq {Len(decisions[c])}
  BY <1>1 DEF Told, AtEnd
<1>6. ASSUME IsRefused(c)
      PROVE  /\ Cardinality(RefusedBy(c)) = 1
             /\ (Blocks(decisions[c]) \cup Blocks(evaluations[c]) = {})
                  <=> RefusedBy(c) \subseteq Silent
  <2>1. CASE iit[c].status = "refused"
    <3>1. RefusedBy(c) = {iit[c].by}
      BY <1>1, <1>2, <2>1 DEF RefusedBy, Told
    <3>2. (Blocks(decisions[c]) \cup Blocks(evaluations[c]) = {}) <=> iit[c].by \in Silent
      <4>1. CASE iit[c].by \in Silent
        BY <1>1, <2>1, <4>1 DEF Told
      <4>2. CASE iit[c].by \notin Silent
        <5>1. Len(decisions[c]) \in Blocks(decisions[c])
          BY <1>1, <2>1, <4>2 DEF Told, AtEnd
        <5> QED BY <4>2, <5>1
      <4> QED BY <4>1, <4>2
    <3> QED BY <3>1, <3>2, FS_Singleton
  <2>2. CASE nonIit[c].status = "refused"
    <3>1. RefusedBy(c) = {nonIit[c].by} /\ Blocks(decisions[c]) = {}
      BY <1>1, <1>2, <2>2 DEF RefusedBy, Told
    <3>2. (Blocks(evaluations[c]) = {}) <=> nonIit[c].by \in Silent
      <4>1. CASE nonIit[c].by \in Silent
        BY <1>1, <2>2, <4>1 DEF Told
      <4>2. CASE nonIit[c].by \notin Silent
        <5>1. Len(evaluations[c]) \in Blocks(evaluations[c])
          BY <1>1, <2>2, <4>2 DEF Told, AtEnd
        <5> QED BY <4>2, <5>1
      <4> QED BY <4>1, <4>2
    <3> QED BY <3>1, <3>2, FS_Singleton
  <2>3. CASE auth[c] = "refused"
    <3>1. /\ RefusedBy(c) = {"auth"} /\ "auth" \in Silent
          /\ Blocks(decisions[c]) = {} /\ Blocks(evaluations[c]) = {}
      BY <1>1, <1>2, <2>3 DEF RefusedBy, Told, Silent
    <3> QED BY <3>1, FS_Singleton
  <2> QED BY <1>1, <1>6, <2>1, <2>2, <2>3 DEF Reads
<1> QED BY <1>3, <1>4, <1>5, <1>6

----------------------------------------------------------------------------
(* Where the calls are. *)

LEMMA IitKeepsPlaces ==
  ASSUME Base, IitPlaces, NEW c \in Callers, IitStepOf(c)
  PROVE  IitPlaces'
<1>1. event' = event /\ iit \in [Callers -> IitRecords]
  BY DEF IitStepOf, IitPlaces
<1>2. ASSUME NEW r \in IitRecords, iit' = [iit EXCEPT ![c] = r],
             r.by = "none" <=> r.status # "refused",
             r.status # "idle",
             r.answer # Iit!NoAnswer => event[c].tpm # Undefined,
             r.status = "judging" => /\ r.at >= 1
                                     /\ r.at < 12 => r.at = 10 \/ event[c].tpm # Undefined
      PROVE  IitPlaces'
  BY <1>1, <1>2 DEF IitPlaces, Iit!NoAnswer
<1>3. CASE IitGoesOn(c)
  <2>1. PICK r \in IitRecords :
          /\ r.status = "judging" /\ r.by = "none" /\ r.at >= 1
          /\ r.at < 12 => r.at = 10 \/ event[c].tpm # Undefined
          /\ r.answer # Iit!NoAnswer => event[c].tpm # Undefined
          /\ iit' = [iit EXCEPT ![c] = r]
    BY <1>3 DEF IitGoesOn
  <2> QED BY <1>2, <2>1
<1>4. CASE IitPasses(c)
  <2> DEFINE r == Iit!Fresh("passed", 0)
  <2>1. /\ r \in IitRecords /\ r.status = "passed" /\ r.by = "none" /\ r.answer = Iit!NoAnswer
        /\ iit' = [iit EXCEPT ![c] = r]
    BY <1>4, FreshRecords DEF IitPasses, Iit!Fresh
  <2> HIDE DEF r
  <2> QED BY <1>2, <2>1
<1>5. CASE IitRefuses(c)
  <2>1. PICK g \in IitRefusers : iit' = Iit!Refused(c, g)
    BY <1>5 DEF IitRefuses
  <2> DEFINE r == [Iit!Fresh("refused", 0) EXCEPT !.by = g]
  <2>2. /\ r \in IitRecords /\ r.status = "refused" /\ r.by = g /\ r.answer = Iit!NoAnswer
        /\ iit' = [iit EXCEPT ![c] = r] /\ g # "none"
    BY <2>1, FreshRecords DEF Iit!Refused, Iit!Fresh, IitRefusers
  <2> HIDE DEF r
  <2> QED BY <1>2, <2>2
<1> QED BY <1>3, <1>4, <1>5 DEF IitStepOf, IitMoves

LEMMA NonIitKeepsPlaces ==
  ASSUME NonIitPlaces, NEW c \in Callers, NonIitStepOf(c)
  PROVE  NonIitPlaces'
<1>1. nonIit \in [Callers -> NonIitRecords]
  BY DEF NonIitPlaces
<1>2. ASSUME NEW r \in NonIitRecords, nonIit' = [nonIit EXCEPT ![c] = r],
             r.by = "none" <=> r.status # "refused",
             r.status = "judging" => r.at >= 1
      PROVE  NonIitPlaces'
  BY <1>1, <1>2 DEF NonIitPlaces
<1>3. CASE NonIitGoesOn(c)
  BY <1>2, <1>3 DEF NonIitGoesOn
<1>4. CASE NonIitPasses(c)
  <2> DEFINE r == NonIit!At("passed", 0, "none")
  <2>1. /\ r \in NonIitRecords /\ r.status = "passed" /\ r.by = "none"
        /\ nonIit' = [nonIit EXCEPT ![c] = r]
    BY <1>4 DEF NonIitPasses, NonIit!At, NonIitRecords, Statuses
  <2> HIDE DEF r
  <2> QED BY <1>2, <2>1
<1>5. CASE NonIitRefuses(c)
  <2>1. PICK g \in NonIitRefusers : nonIit' = NonIit!NonIitRefused(c, g)
    BY <1>5 DEF NonIitRefuses
  <2> DEFINE r == NonIit!At("refused", 0, g)
  <2>2. /\ r \in NonIitRecords /\ r.status = "refused" /\ r.by = g /\ g # "none"
        /\ nonIit' = [nonIit EXCEPT ![c] = r]
    BY <2>1 DEF NonIit!NonIitRefused, NonIit!At, NonIitRecords, Statuses, NonIitRefusers
  <2> HIDE DEF r
  <2> QED BY <1>2, <2>2
<1> QED BY <1>3, <1>4, <1>5 DEF NonIitStepOf, NonIitMoves

LEMMA NewCallPlaces ==
  ASSUME Base, IitPlaces, NonIitPlaces, NEW c \in Callers, NEW ev \in Events, Call(c, ev)
  PROVE  Base' /\ IitPlaces' /\ NonIitPlaces'
<1> DEFINE r == Iit!Fresh("idle", 0)
           n == NonIit!At("idle", 0, "none")
<1>1. /\ r \in IitRecords /\ r.status = "idle" /\ r.by = "none" /\ r.at = 0
      /\ r.answer = Iit!NoAnswer
  BY FreshRecords DEF Iit!Fresh
<1>2. n \in NonIitRecords /\ n.status = "idle" /\ n.by = "none" /\ n.at = 0
  BY DEF NonIit!At, NonIitRecords, Statuses
<1>3. /\ iit' = [iit EXCEPT ![c] = r] /\ nonIit' = [nonIit EXCEPT ![c] = n]
      /\ event' = [event EXCEPT ![c] = ev] /\ setup' = setup /\ wired' = wired
      /\ auth' = [auth EXCEPT ![c] = "idle"]
  BY DEF Call, setup
<1> HIDE DEF r, n
<1>4. Base'
  BY <1>3 DEF Base
<1>5. NonIitPlaces'
  BY <1>2, <1>3 DEF NonIitPlaces
<1>6. IitPlaces'
  <2>1. iit' \in [Callers -> IitRecords]
    BY <1>1, <1>3 DEF IitPlaces
  <2>2. iit'[c] = r /\ \A d \in Callers \ {c} : iit'[d] = iit[d] /\ event'[d] = event[d]
    BY <1>3 DEF IitPlaces, Base
  <2> QED BY <1>1, <2>1, <2>2 DEF IitPlaces, Iit!NoAnswer
<1> QED BY <1>4, <1>5, <1>6

----------------------------------------------------------------------------
(* Counting. *)

LEMMA Fewer ==
  ASSUME NEW S, IsFiniteSet(S), NEW T, T \subseteq S
  PROVE  /\ IsFiniteSet(T) /\ Cardinality(T) \in Nat /\ Cardinality(S) \in Nat
         /\ Cardinality(T) <= Cardinality(S)
         /\ \A x \in S \ T : Cardinality(T) + 1 <= Cardinality(S)
<1>1. /\ IsFiniteSet(T) /\ Cardinality(T) <= Cardinality(S)
      /\ Cardinality(S) = Cardinality(T) => S = T
  BY FS_Subset
<1>2. Cardinality(T) \in Nat /\ Cardinality(S) \in Nat
  BY <1>1, FS_CardinalityType
<1> QED BY <1>1, <1>2

LEMMA OneMore ==
  ASSUME NEW S, NEW x, IsFiniteSet(S), NEW T, T \subseteq S \cup {x}
  PROVE  /\ IsFiniteSet(T) /\ Cardinality(T) \in Nat /\ Cardinality(S) \in Nat
         /\ Cardinality(T) <= Cardinality(S) + 1
<1> DEFINE u == S \cup {x}
<1>1. Cardinality(S) \in Nat
  BY FS_CardinalityType
<1>2. IsFiniteSet(u) /\ Cardinality(u) = IF x \in S THEN Cardinality(S) ELSE Cardinality(S) + 1
  BY FS_AddElement
<1> HIDE DEF u
<1>3. T \subseteq u
  BY DEF u
<1>4. IsFiniteSet(T) /\ Cardinality(T) \in Nat /\ Cardinality(T) <= Cardinality(u)
  BY <1>2, <1>3, Fewer
<1> QED BY <1>1, <1>2, <1>4

\* The n pairs of a caller.
LEMMA Units ==
  ASSUME NEW c, NEW n \in Nat
  PROVE  IsFiniteSet({c} \X (1..n)) /\ Cardinality({c} \X (1..n)) = n
<1>1. IsFiniteSet(1..n) /\ Cardinality(1..n) = n
  BY FS_Interval
<1>2. IsFiniteSet({c}) /\ Cardinality({c}) = 1
  BY FS_Singleton
<1>3. /\ IsFiniteSet({c} \X (1..n))
      /\ Cardinality({c} \X (1..n)) = Cardinality({c}) * Cardinality(1..n)
  BY <1>1, <1>2, FS_Product
<1> QED BY <1>1, <1>2, <1>3

LEMMA MoreUnits ==
  ASSUME NEW S, IsFiniteSet(S), NEW c, NEW n \in Nat, NEW T, T \subseteq S \cup ({c} \X (1..n))
  PROVE  IsFiniteSet(T) /\ Cardinality(T) <= Cardinality(S) + n
<1> DEFINE u == {c} \X (1..n)
<1>1. IsFiniteSet(u) /\ Cardinality(u) = n
  BY Units
<1> HIDE DEF u
<1>2. /\ IsFiniteSet(S \cup u) /\ IsFiniteSet(S \cap u)
      /\ Cardinality(S \cup u) = Cardinality(S) + n - Cardinality(S \cap u)
  BY <1>1, FS_Union, FS_Intersection
<1>3. T \subseteq S \cup u
  BY DEF u
<1>4. IsFiniteSet(T) /\ Cardinality(T) <= Cardinality(S \cup u)
  BY <1>2, <1>3, FS_Subset
<1>5. /\ Cardinality(S \cap u) \in Nat /\ Cardinality(S) \in Nat /\ Cardinality(T) \in Nat
      /\ Cardinality(S \cup u) \in Nat
  BY <1>2, <1>4, FS_CardinalityType
<1> QED BY <1>2, <1>4, <1>5

LEMMA FewerUnits ==
  ASSUME NEW S, IsFiniteSet(S), NEW c, NEW n \in Nat, {c} \X (1..n) \subseteq S,
         NEW T, T \subseteq S \ ({c} \X (1..n))
  PROVE  IsFiniteSet(T) /\ Cardinality(T) + n <= Cardinality(S)
<1> DEFINE u == {c} \X (1..n)
<1>1. IsFiniteSet(u) /\ Cardinality(u) = n
  BY Units
<1>2. S \cap u = u /\ T \subseteq S \ u
  OBVIOUS
<1> HIDE DEF u
<1>3. IsFiniteSet(S \ u) /\ Cardinality(S \ u) = Cardinality(S) - n
  BY <1>1, <1>2, FS_Difference
<1>4. IsFiniteSet(T) /\ Cardinality(T) <= Cardinality(S \ u)
  BY <1>2, <1>3, FS_Subset
<1>5. Cardinality(T) \in Nat /\ Cardinality(S) \in Nat
  BY <1>4, FS_CardinalityType
<1> QED BY <1>3, <1>4, <1>5

----------------------------------------------------------------------------
(* The counters of samples and of calls, through the steps. *)

LEMMA NewCallCounts ==
  ASSUME IitPlaces, NonIitPlaces, Base, Counted, NEW c \in Callers, NEW ev \in Events, Call(c, ev)
  PROVE  Counted'
<1>1. /\ calls' = calls + 1 /\ calls < MaxCalls /\ observed' = observed /\ rate' = rate
      /\ event' = [event EXCEPT ![c] = ev]
      /\ iit' = [iit EXCEPT ![c] = Iit!Fresh("idle", 0)]
      /\ nonIit' = [nonIit EXCEPT ![c] = NonIit!At("idle", 0, "none")]
  BY DEF Call
<1>2. \A d \in Callers \ {c} : /\ event'[d] = event[d] /\ iit'[d] = iit[d]
                               /\ nonIit'[d] = nonIit[d]
  BY <1>1 DEF IitPlaces, NonIitPlaces, Base
<1>3. Sampling' \subseteq Sampling \cup {c} /\ Entering' \subseteq Entering \cup {c}
  BY <1>2 DEF Sampling, Entering
<1>4. /\ IsFiniteSet(Sampling') /\ Cardinality(Sampling') \in Nat
      /\ Cardinality(Sampling) \in Nat /\ Cardinality(Sampling') <= Cardinality(Sampling) + 1
      /\ IsFiniteSet(Entering') /\ Cardinality(Entering') \in Nat
      /\ Cardinality(Entering) \in Nat /\ Cardinality(Entering') <= Cardinality(Entering) + 1
  <2>1. IsFiniteSet(Sampling) /\ IsFiniteSet(Entering)
    BY DEF Counted
  <2>2. /\ IsFiniteSet(Sampling') /\ Cardinality(Sampling') \in Nat
        /\ Cardinality(Sampling) \in Nat /\ Cardinality(Sampling') <= Cardinality(Sampling) + 1
    BY <1>3, <2>1, OneMore
  <2>3. /\ IsFiniteSet(Entering') /\ Cardinality(Entering') \in Nat
        /\ Cardinality(Entering) \in Nat /\ Cardinality(Entering') <= Cardinality(Entering) + 1
    BY <1>3, <2>1, OneMore
  <2> QED BY <2>2, <2>3
<1>5. calls' \in 0..MaxCalls
  BY <1>1, MaxCallsAssumption DEF Counted
<1>6. ASSUME NEW s \in Sessions
      PROVE  /\ observed'[s] + Cardinality(Sampling') <= calls'
             /\ rate'[s].count + Cardinality(Entering') <= calls'
  <2>1. observed[s] \in Nat /\ rate[s].count \in Nat /\ calls \in Nat
    BY DEF Counted
  <2>2. /\ observed[s] + Cardinality(Sampling) <= calls
        /\ rate[s].count + Cardinality(Entering) <= calls
    BY DEF Counted
  <2> QED BY <1>1, <1>4, <2>1, <2>2
<1> QED BY <1>1, <1>4, <1>5, <1>6 DEF Counted

LEMMA IitCounts ==
  ASSUME IitPlaces, Base, Counted, NEW c \in Callers, IitStepOf(c)
  PROVE  Counted'
<1>1. /\ event' = event /\ nonIit' = nonIit /\ rate' = rate /\ calls' = calls
      /\ event[c] # NoEvent /\ iit[c].status \notin {"passed", "refused"} /\ SamplesOnce(c)
      /\ iit[c].at > 11 => iit'[c].status = "passed"
  BY DEF IitStepOf
<1>2. iit[c] \in IitRecords /\ iit[c].status \in {"idle", "judging"} /\ iit[c].at \in Int
  BY <1>1 DEF IitPlaces, IitRecords, Statuses
<1>3. \A d \in Callers \ {c} : iit'[d] = iit[d]
  BY DEF IitStepOf, IitMoves, IitGoesOn, IitPasses, IitRefuses, Iit!Refused, IitPlaces
<1>4. Sampling' \subseteq Sampling
  BY <1>1, <1>2, <1>3 DEF Sampling
<1>5. Entering' = Entering
  BY <1>1 DEF Entering
<1>6. /\ IsFiniteSet(Sampling') /\ Cardinality(Sampling') \in Nat /\ Cardinality(Sampling) \in Nat
      /\ Cardinality(Sampling') <= Cardinality(Sampling)
      /\ \A x \in Sampling \ Sampling' : Cardinality(Sampling') + 1 <= Cardinality(Sampling)
  BY <1>4, Fewer DEF Counted
<1>7. /\ observed' \in [Sessions -> Nat]
      /\ \A s \in Sessions : observed'[s] + Cardinality(Sampling') <= calls
  <2>1. CASE observed' = observed
    BY <1>6, <2>1 DEF Counted
  <2>2. CASE observed' # observed
    <3>1. /\ iit[c].status = "judging" /\ iit[c].at = 11
          /\ iit'[c].status = "refused" \/ iit'[c].at = 12
      BY <1>1, <2>2 DEF SamplesOnce
    <3>2. PICK s \in Sessions, n \in Nat : /\ n <= observed[s] + 1
                                          /\ observed' = [observed EXCEPT ![s] = n]
      BY <1>1, <2>2 DEF SamplesOnce
    <3>3. c \in Sampling \ Sampling'
      BY <1>1, <3>1 DEF Sampling
    <3>4. Cardinality(Sampling') + 1 <= Cardinality(Sampling)
      BY <1>6, <3>3
    <3>5. ASSUME NEW z \in Sessions PROVE observed'[z] + Cardinality(Sampling') <= calls
      <4>1. /\ observed[z] \in Nat /\ observed[z] + Cardinality(Sampling) <= calls
            /\ calls \in Nat /\ observed \in [Sessions -> Nat]
        BY DEF Counted
      <4>2. observed'[z] \in Nat /\ observed'[z] <= observed[z] + 1
        BY <3>2, <4>1
      <4> QED BY <1>6, <3>4, <4>1, <4>2
    <3> QED BY <3>2, <3>5 DEF Counted
  <2> QED BY <2>1, <2>2
<1> QED BY <1>1, <1>5, <1>6, <1>7 DEF Counted

----------------------------------------------------------------------------
(* The quotas of a call that enters guards-non-iit. *)

Count(s) == (IF rate[s].expired THEN 0 ELSE rate[s].count) + 1
Admits(s) == IF rate[s].expired THEN 0 ELSE admitted[s]

QuotaSteps(c) ==
  LET s == event[c].sessionId IN
  \/ /\ UNCHANGED <<rate, budget, admitted>>
     /\ nonIit[c].status = "judging" \/ s \notin Sessions
  \/ /\ s \in Sessions /\ nonIit[c].status = "idle"
     /\ rate' = [rate EXCEPT ![s] = [count |-> Count(s), expired |-> FALSE]]
     /\ \/ /\ nonIit'[c].status = "refused"
           /\ admitted' = [admitted EXCEPT ![s] = Admits(s)] /\ budget' = budget
        \/ /\ Count(s) < NonIitCfg.maxRequestsPerMinute
           /\ admitted' = [admitted EXCEPT ![s] = Admits(s) + 1]
           /\ \E t \in Nat :
                budget' = [budget EXCEPT ![s] = [spent |-> @.spent + Cost(c), tokens |-> t]]
           /\ \/ nonIit'[c].status = "refused"
              \/ /\ nonIit'[c].status = "judging"
                 /\ budget[s].spent + Cost(c) <= NonIitCfg.maxSpendPerSession

LEMMA Limits ==
  ASSUME NEW s, NEW tokens
  PROVE  /\ NonIit!RateLimit(s, tokens).entry = [count |-> Count(s), expired |-> FALSE]
         /\ ~NonIit!RateLimit(s, tokens).blocks =>
              ~(Count(s) >= NonIitCfg.maxRequestsPerMinute)
BY DEF NonIit!RateLimit, Count

LEMMA Costs ==
  ASSUME NEW s, NEW cost, NEW tokens
  PROVE  /\ NonIit!BudgetExhausted(s, cost, tokens).entry =
              [spent |-> budget[s].spent + cost, tokens |-> budget[s].tokens + tokens]
         /\ ~NonIit!BudgetExhausted(s, cost, tokens).blocks =>
              ~(budget[s].spent + cost > NonIitCfg.maxSpendPerSession)
BY DEF NonIit!BudgetExhausted

\* What a call costs and uses is a number.
LEMMA Amounts ==
  ASSUME Base, NEW c \in Callers, event[c] # NoEvent
  PROVE  /\ Cost(c) \in Nat /\ NonIit!OrElse(event[c].cost, 0) = Cost(c)
         /\ NonIit!OrElse(event[c].tokens, 0) \in Nat
<1>1. event[c] \in Events
  BY DEF Base
<1> QED BY <1>1, EventsAssumption DEF Cost, OrElse, NonIit!OrElse

LEMMA QuotaTurn ==
  ASSUME Base, NonIitPlaces, Counted, Quotas, NEW c \in Callers, event[c] # NoEvent,
         NonIitGuard(c)
  PROVE  QuotaSteps(c)
<1> DEFINE s == event[c].sessionId
           tokens == NonIit!OrElse(event[c].tokens, 0)
           limit == NonIit!RateLimit(s, tokens)
           quota == NonIit!BudgetExhausted(s, Cost(c), tokens)
<1>1. s \in Sessions <=> s # Undefined
  BY EventsAssumption DEF Base
<1>2. admitted' = IF s = Undefined \/ nonIit[c].status # "idle" THEN admitted
                  ELSE [admitted EXCEPT ![s] =
                          Admits(s) + (IF nonIit'[c].by = "rate-limit" THEN 0 ELSE 1)]
  BY <1>1 DEF NonIitGuard, Admits, Quotas
<1>3. CASE NonIit!NonIitStep(c)
  <2>1. nonIit[c].status = "judging" /\ rate' = rate /\ budget' = budget
    BY <1>3 DEF NonIit!NonIitStep, NonIit!JudgeHhh, NonIit!JudgePolicy, NonIit!NonIitPass,
                NonIit!NonIitAnswer
  <2> QED BY <1>2, <2>1 DEF QuotaSteps
<1>4. CASE NonIit!NonIitEnter(c)
  <2>1. CASE s = Undefined
    <3>1. rate' = rate /\ budget' = budget /\ admitted' = admitted
      BY <1>2, <1>4, <2>1 DEF NonIit!NonIitEnter
    <3> QED BY <1>1, <2>1, <3>1 DEF QuotaSteps
  <2>2. CASE s # Undefined
    <3>1. /\ nonIit[c].status = "idle" /\ rate' = [rate EXCEPT ![s] = limit.entry]
          /\ IF limit.blocks THEN nonIit' = NonIit!NonIitRefused(c, "rate-limit") /\ budget' = budget
             ELSE /\ budget' = [budget EXCEPT ![s] = quota.entry]
                  /\ nonIit' = IF quota.blocks THEN NonIit!NonIitRefused(c, "budget-exhausted")
                               ELSE NonIit!Judging(c)
      BY <1>4, <2>2, Amounts DEF NonIit!NonIitEnter
    <3>2. /\ limit.entry = [count |-> Count(s), expired |-> FALSE]
          /\ ~limit.blocks => ~(Count(s) >= NonIitCfg.maxRequestsPerMinute)
      BY Limits
    <3>3. /\ quota.entry = [spent |-> budget[s].spent + Cost(c),
                            tokens |-> budget[s].tokens + tokens]
          /\ ~quota.blocks => ~(budget[s].spent + Cost(c) > NonIitCfg.maxSpendPerSession)
      BY Costs
    <3>4. /\ s \in Sessions /\ rate[s] \in [count : Nat, expired : BOOLEAN]
          /\ budget[s] \in [spent : Nat, tokens : Nat] /\ Cost(c) \in Nat /\ tokens \in Nat
          /\ budget \in [Sessions -> [spent : Nat, tokens : Nat]]
      BY <1>1, <2>2, Amounts DEF Counted, Quotas
    <3>5. /\ \A g : /\ NonIit!NonIitRefused(c, g)[c].status = "refused"
                    /\ NonIit!NonIitRefused(c, g)[c].by = g
          /\ NonIit!Judging(c)[c].status = "judging" /\ NonIit!Judging(c)[c].by = "none"
      BY DEF NonIit!NonIitRefused, NonIit!Judging, NonIit!At, NonIitPlaces
    <3>6. Count(s) \in Nat
      BY <3>4 DEF Count
    <3> HIDE DEF limit, quota, tokens, s
    <3>7. CASE limit.blocks
      <4>1. nonIit'[c].status = "refused" /\ nonIit'[c].by = "rate-limit" /\ budget' = budget
        BY <3>1, <3>5, <3>7
      <4>2. admitted' = [admitted EXCEPT ![s] = Admits(s) + 0] /\ Admits(s) + 0 = Admits(s)
        BY <1>2, <2>2, <3>1, <3>4, <4>1 DEF Admits, Quotas
      <4> QED BY <3>1, <3>2, <3>4, <4>1, <4>2 DEF QuotaSteps, s
    <3>8. CASE ~limit.blocks
      <4>1. Count(s) < NonIitCfg.maxRequestsPerMinute
        BY <3>2, <3>6, <3>8, NonIitCfgAssumption
      <4>2. \E t \in Nat : budget' = [budget EXCEPT ![s] = [spent |-> @.spent + Cost(c), tokens |-> t]]
        <5>1. budget' = [budget EXCEPT ![s] = [spent |-> budget[s].spent + Cost(c),
                                              tokens |-> budget[s].tokens + tokens]]
          BY <3>1, <3>3, <3>8
        <5>2. budget[s].tokens + tokens \in Nat
          BY <3>4
        <5> QED BY <5>1, <5>2, <3>4
      <4>3. \/ /\ nonIit'[c].status = "refused" /\ nonIit'[c].by = "budget-exhausted"
            \/ /\ nonIit'[c].status = "judging" /\ nonIit'[c].by = "none"
               /\ budget[s].spent + Cost(c) <= NonIitCfg.maxSpendPerSession
        <5>1. budget[s].spent + Cost(c) \in Nat
          BY <3>4
        <5>2. ~quota.blocks => budget[s].spent + Cost(c) <= NonIitCfg.maxSpendPerSession
          BY <3>3, <5>1, NonIitCfgAssumption
        <5> QED BY <3>1, <3>5, <3>8, <5>2
      <4>4. admitted' = [admitted EXCEPT ![s] = Admits(s) + 1]
        BY <1>2, <2>2, <3>1, <4>3
      <4> QED BY <3>1, <3>2, <3>4, <4>1, <4>2, <4>3, <4>4 DEF QuotaSteps, s
    <3> QED BY <3>7, <3>8
  <2> QED BY <2>1, <2>2
<1> QED BY <1>3, <1>4 DEF NonIitGuard

\* A step of a plugin leaves the places of the other calls.
LEMMA IitOthers ==
  ASSUME IitPlaces, NEW c \in Callers, IitStepOf(c)
  PROVE  \A d \in Callers \ {c} : iit'[d] = iit[d]
BY DEF IitStepOf, IitMoves, IitGoesOn, IitPasses, IitRefuses, Iit!Refused, IitPlaces

LEMMA NonIitOthers ==
  ASSUME NonIitPlaces, NEW c \in Callers, NonIitStepOf(c)
  PROVE  /\ \A d \in Callers \ {c} : nonIit'[d] = nonIit[d]
         /\ nonIit'[c].status \in {"judging", "passed", "refused"}
<1>1. NonIitMoves(c) /\ nonIit \in [Callers -> NonIitRecords]
  BY DEF NonIitStepOf, NonIitPlaces
<1>2. CASE NonIitGoesOn(c)
  BY <1>1, <1>2 DEF NonIitGoesOn
<1>3. CASE NonIitPasses(c)
  BY <1>1, <1>3 DEF NonIitPasses, NonIit!At
<1>4. CASE NonIitRefuses(c)
  BY <1>1, <1>4 DEF NonIitRefuses, NonIit!NonIitRefused, NonIit!At
<1> QED BY <1>1, <1>2, <1>3, <1>4 DEF NonIitMoves

LEMMA NonIitCounts ==
  ASSUME NonIitPlaces, Counted, NEW c \in Callers, NonIitStepOf(c), QuotaSteps(c)
  PROVE  Counted'
<1>1. /\ event' = event /\ iit' = iit /\ observed' = observed /\ calls' = calls
      /\ event[c] # NoEvent
  BY DEF NonIitStepOf, iitVars
<1>2. Sampling' = Sampling
  BY <1>1 DEF Sampling
<1>3. Entering' \subseteq Entering /\ c \notin Entering'
  BY <1>1, NonIitOthers DEF Entering
<1>4. /\ IsFiniteSet(Entering') /\ Cardinality(Entering') \in Nat /\ Cardinality(Entering) \in Nat
      /\ Cardinality(Entering') <= Cardinality(Entering)
      /\ \A x \in Entering \ Entering' : Cardinality(Entering') + 1 <= Cardinality(Entering)
  BY <1>3, Fewer DEF Counted
<1>5. rate \in [Sessions -> [count : Nat, expired : BOOLEAN]] /\ calls \in Nat
  BY DEF Counted
<1>6. CASE rate' = rate
  <2>1. ASSUME NEW z \in Sessions PROVE rate'[z].count + Cardinality(Entering') <= calls
    <3>1. rate[z].count \in Nat /\ rate[z].count + Cardinality(Entering) <= calls
      BY DEF Counted
    <3> QED BY <1>4, <1>5, <1>6, <3>1
  <2> QED BY <1>1, <1>2, <1>4, <1>6, <2>1 DEF Counted
<1>7. CASE rate' # rate
  <2> DEFINE s == event[c].sessionId
  <2>1. /\ s \in Sessions /\ nonIit[c].status = "idle"
        /\ rate' = [rate EXCEPT ![s] = [count |-> Count(s), expired |-> FALSE]]
    BY <1>7 DEF QuotaSteps
  <2>2. Cardinality(Entering') + 1 <= Cardinality(Entering)
    <3>1. c \in Entering \ Entering'
      BY <1>1, <1>3, <2>1 DEF Entering
    <3> QED BY <1>4, <3>1
  <2> HIDE DEF s
  <2>3. Count(s) \in Nat /\ Count(s) <= rate[s].count + 1
    BY <1>5, <2>1 DEF Count
  <2>4. rate' \in [Sessions -> [count : Nat, expired : BOOLEAN]]
    BY <1>5, <2>1, <2>3
  <2>5. ASSUME NEW z \in Sessions PROVE rate'[z].count + Cardinality(Entering') <= calls
    <3>1. rate[z].count \in Nat /\ rate[z].count + Cardinality(Entering) <= calls
      BY DEF Counted
    <3>2. rate'[z].count \in Nat /\ rate'[z].count <= rate[z].count + 1
      BY <1>5, <2>1, <2>3, <3>1
    <3> QED BY <1>4, <1>5, <2>2, <3>1, <3>2
  <2> QED BY <1>1, <1>2, <1>4, <2>4, <2>5 DEF Counted
<1> QED BY <1>6, <1>7

LEMMA MinuteCounts ==
  ASSUME Counted, NEW s \in Sessions, Minute(s)
  PROVE  Counted'
<1>1. /\ rate' = [rate EXCEPT ![s].expired = TRUE]
      /\ event' = event /\ iit' = iit /\ nonIit' = nonIit /\ observed' = observed
      /\ calls' = calls
  BY DEF Minute, NonIit!MinuteEnds, iitVars
<1>2. Sampling' = Sampling /\ Entering' = Entering
  BY <1>1 DEF Sampling, Entering
<1>3. /\ rate' \in [Sessions -> [count : Nat, expired : BOOLEAN]]
      /\ \A z \in Sessions : rate'[z].count = rate[z].count
  BY <1>1 DEF Counted
<1> QED BY <1>1, <1>2, <1>3 DEF Counted

----------------------------------------------------------------------------
(* What the calls past the quotas owe. *)

LEMMA SameStanding ==
  ASSUME wired \in Wirings, wired' = wired, NEW d, event'[d] = event[d], iit'[d] = iit[d],
         nonIit'[d] = nonIit[d], auth'[d] = auth[d]
  PROVE  /\ Cost(d)' = Cost(d)
         /\ \A s : d \in Owing(s)' <=> d \in Owing(s)
<1>1. Reads(d) /\ Reads(d)'
  BY Readings, ReadingsAfter
<1>2. (Passed(d)' <=> Passed(d)) /\ (IsRefused(d)' <=> IsRefused(d))
  BY <1>1 DEF Reads, Wired
<1> QED BY <1>2 DEF Cost, Owing

LEMMA OwedFewer ==
  ASSUME Base, Quotas, Wired("nonIit"), NEW c \in Callers, event[c] # NoEvent,
         event' = event,
         \A d \in Callers \ {c}, s \in Sessions : d \in Owing(s)' <=> d \in Owing(s),
         \A s \in Sessions : c \in Owing(s)' => c \in Owing(s),
         \A s \in Sessions : Passed(c)' => c \notin Owing(s)',
         \/ ~Passed(c)' /\ charged' = charged
         \/ event[c].sessionId \notin Sessions /\ charged' = charged
         \/ /\ event[c].sessionId \in Sessions /\ Passed(c)' /\ c \in Owing(event[c].sessionId)
            /\ charged' = [charged EXCEPT ![event[c].sessionId] = @ + Cost(c)]
  PROVE  /\ charged' \in [Sessions -> Nat]
         /\ \A s \in Sessions : /\ IsFiniteSet(Owed(s)')
                                /\ charged'[s] + Cardinality(Owed(s)') <= charged[s] + Cardinality(Owed(s))
<1>1. \A d : Cost(d)' = Cost(d)
  BY DEF Cost
<1>2. ASSUME NEW s \in Sessions PROVE Owing(s)' \subseteq Owing(s)
  BY DEF Owing
<1>3. ASSUME NEW s \in Sessions
      PROVE  /\ IsFiniteSet(Owed(s)') /\ Cardinality(Owed(s)') \in Nat
             /\ Cardinality(Owed(s)) \in Nat /\ Cardinality(Owed(s)') <= Cardinality(Owed(s))
  <2>1. Owed(s)' \subseteq Owed(s)
    BY <1>1, <1>2 DEF Owed
  <2> QED BY <2>1, Fewer DEF Quotas
<1>4. Cost(c) \in Nat /\ charged \in [Sessions -> Nat]
  BY Amounts DEF Quotas
<1>5. CASE charged' = charged
  BY <1>3, <1>4, <1>5
<1>6. CASE /\ event[c].sessionId \in Sessions /\ Passed(c)' /\ c \in Owing(event[c].sessionId)
           /\ charged' = [charged EXCEPT ![event[c].sessionId] = @ + Cost(c)]
  <2>0. PICK z \in Sessions : z = event[c].sessionId
    BY <1>6
  <2>1. c \in Owing(z) /\ c \notin Owing(z)'
    BY <1>6, <2>0
  <2>2. charged' = [charged EXCEPT ![z] = @ + Cost(c)]
    BY <1>6, <2>0
  <2>3. {c} \X (1..Cost(c)) \subseteq Owed(z)
    BY <2>1 DEF Owed
  <2>4. Owed(z)' \subseteq Owed(z) \ ({c} \X (1..Cost(c)))
    <3> SUFFICES ASSUME NEW p \in Owed(z)' PROVE p \in Owed(z) /\ p \notin {c} \X (1..Cost(c))
      OBVIOUS
    <3>1. PICK d \in Owing(z)' : p \in {d} \X (1..Cost(d)')
      BY DEF Owed
    <3>2. d \in Owing(z) /\ d # c /\ p[1] = d
      BY <1>2, <2>1, <3>1
    <3> QED BY <1>1, <3>1, <3>2 DEF Owed
  <2>5. IsFiniteSet(Owed(z)') /\ Cardinality(Owed(z)') + Cost(c) <= Cardinality(Owed(z))
    BY <1>4, <2>1, <2>3, <2>4, FewerUnits DEF Quotas
  <2>6. charged' \in [Sessions -> Nat]
    BY <1>4, <2>1, <2>2
  <2>7. ASSUME NEW s \in Sessions
        PROVE  charged'[s] + Cardinality(Owed(s)') <= charged[s] + Cardinality(Owed(s))
    <3>1. CASE s = z
      <4>1. charged'[s] = charged[s] + Cost(c) /\ charged[s] \in Nat
        BY <1>4, <2>2, <3>1
      <4> QED BY <1>3, <1>4, <2>5, <3>1, <4>1
    <3>2. CASE s # z
      <4>1. charged'[s] = charged[s] /\ charged[s] \in Nat
        BY <1>4, <2>2, <3>2
      <4> QED BY <1>3, <4>1
    <3> QED BY <3>1, <3>2
  <2> QED BY <1>3, <2>6, <2>7
<1> QED BY <1>5, <1>6

LEMMA Charges ==
  ASSUME Base, Quotas, NEW c \in Callers, event[c] # NoEvent, Charge(c)
  PROVE  /\ charged' \in [Sessions -> Nat]
         /\ \/ ~Passed(c)' /\ charged' = charged
            \/ event[c].sessionId \notin Sessions /\ charged' = charged
            \/ /\ event[c].sessionId \in Sessions /\ Passed(c)'
               /\ charged' = [charged EXCEPT ![event[c].sessionId] = @ + Cost(c)]
<1> DEFINE s == event[c].sessionId
<1>1. s \in Sessions <=> s # Undefined
  BY EventsAssumption DEF Base
<1>2. charged' = IF s = Undefined \/ ~Passed(c)' THEN charged
                 ELSE [charged EXCEPT ![s] = @ + Cost(c)]
  BY DEF Charge, Cost
<1>3. Cost(c) \in Nat /\ charged \in [Sessions -> Nat]
  BY Amounts DEF Quotas
<1> HIDE DEF s
<1>4. charged' \in [Sessions -> Nat]
  BY <1>1, <1>2, <1>3
<1> QED BY <1>1, <1>2, <1>4 DEF s

\* A step of a plugin for a call that is past the quotas, or has none, or goes by
\* without guards-non-iit: the call pays what it owes, if it runs.
LEMMA PluginPays ==
  ASSUME Base, Quotas, NEW c \in Callers, event[c] # NoEvent, Charge(c),
         UNCHANGED <<event, rate, budget, admitted, wired>>, ~Passed(c), ~IsRefused(c),
         \A d \in Callers \ {c} : /\ iit'[d] = iit[d] /\ nonIit'[d] = nonIit[d]
                                  /\ auth'[d] = auth[d],
         event[c].sessionId \in Sessions /\ nonIit'[c].status \in {"judging", "passed"} =>
           nonIit[c].status \in {"judging", "passed"}
  PROVE  Quotas'
<1>1. wired \in Wirings /\ wired' = wired /\ event' = event
  BY DEF Base
<1>2. charged' \in [Sessions -> Nat] /\ (Wired("nonIit")' <=> Wired("nonIit"))
  BY Charges DEF Wired
<1>3. ASSUME Wired("nonIit")
      PROVE  \A s \in Sessions :
               /\ IsFiniteSet(Owed(s)')
               /\ charged'[s] + Cardinality(Owed(s)') <= charged[s] + Cardinality(Owed(s))
  <2>1. \A d \in Callers \ {c}, s \in Sessions : d \in Owing(s)' <=> d \in Owing(s)
    BY <1>1, SameStanding
  <2>2. \A s \in Sessions : c \in Owing(s)' => c \in Owing(s)
    BY <1>1 DEF Owing
  <2>3. \A s \in Sessions : Passed(c)' => c \notin Owing(s)'
    BY DEF Owing
  <2>4. event[c].sessionId \in Sessions /\ Passed(c)' => c \in Owing(event[c].sessionId)
    <3>1. Passed(c)' => nonIit'[c].status = "passed"
      BY <1>1, <1>2, <1>3, ReadingsAfter DEF Reads
    <3> QED BY <3>1 DEF Owing
  <2> QED BY <1>1, <1>3, <2>1, <2>2, <2>3, <2>4, Charges, OwedFewer
<1>4. ASSUME NEW s \in Sessions, Wired("nonIit")
      PROVE  /\ IsFiniteSet(Owed(s)')
             /\ charged'[s] + Cardinality(Owed(s)') <= budget[s].spent
             /\ charged'[s] + Cardinality(Owed(s)') <= NonIitCfg.maxSpendPerSession
  <2>1. /\ IsFiniteSet(Owed(s)) /\ IsFiniteSet(Owed(s)') /\ charged[s] \in Nat /\ charged'[s] \in Nat
        /\ charged'[s] + Cardinality(Owed(s)') <= charged[s] + Cardinality(Owed(s))
        /\ charged[s] + Cardinality(Owed(s)) <= budget[s].spent
        /\ charged[s] + Cardinality(Owed(s)) <= NonIitCfg.maxSpendPerSession
        /\ budget[s].spent \in Nat
    BY <1>2, <1>3, <1>4 DEF Quotas
  <2>2. Cardinality(Owed(s)) \in Nat /\ Cardinality(Owed(s)') \in Nat
    BY <2>1, FS_CardinalityType
  <2> QED BY <2>1, <2>2, NonIitCfgAssumption
<1> QED BY <1>2, <1>4 DEF Quotas

LEMMA IitQuotas ==
  ASSUME Base, IitPlaces, Quotas, NEW c \in Callers, IitStepOf(c)
  PROVE  Quotas'
<1>1. /\ UNCHANGED <<event, nonIit, rate, budget, auth, admitted, wired>> /\ event[c] # NoEvent
      /\ Charge(c) /\ Wired("iit") /\ iit[c].status \notin {"passed", "refused"}
      /\ Wired("nonIit") => nonIit[c].status # "refused"
      /\ Wired("auth") => auth[c] # "refused"
  BY DEF IitStepOf
<1>2. ~Passed(c) /\ ~IsRefused(c)
  BY <1>1, Readings DEF Reads, Base
<1> QED BY <1>1, <1>2, IitOthers, PluginPays

LEMMA AuthQuotas ==
  ASSUME Base, Quotas, NEW c \in Callers, AuthStepOf(c)
  PROVE  Quotas'
<1>1. /\ UNCHANGED <<event, iit, nonIit, rate, budget, admitted, wired>> /\ event[c] # NoEvent
      /\ Charge(c) /\ Wired("auth") /\ auth[c] \notin {"passed", "refused"}
      /\ Wired("iit") => iit[c].status # "refused"
      /\ Wired("nonIit") => nonIit[c].status # "refused"
      /\ \A d \in Callers \ {c} : auth'[d] = auth[d]
  BY DEF AuthStepOf, iitVars, Base
<1>2. ~Passed(c) /\ ~IsRefused(c)
  BY <1>1, Readings DEF Reads, Base
<1> QED BY <1>1, <1>2, PluginPays

\* A call that guards-non-iit judges, or that has no session, pays what it owes.
LEMMA NonIitPays ==
  ASSUME Base, NonIitPlaces, Quotas, NEW c \in Callers, NonIitStepOf(c),
         UNCHANGED <<rate, budget, admitted>>,
         nonIit[c].status = "judging" \/ event[c].sessionId \notin Sessions
  PROVE  Quotas'
<1>1. /\ UNCHANGED <<event, iit, auth, wired>> /\ event[c] # NoEvent
      /\ Charge(c) /\ Wired("nonIit") /\ nonIit[c].status \notin {"passed", "refused"}
      /\ Wired("iit") => iit[c].status # "refused"
      /\ Wired("auth") => auth[c] # "refused"
  BY DEF NonIitStepOf, iitVars
<1>2. ~Passed(c) /\ ~IsRefused(c)
  BY <1>1, Readings DEF Reads, Base
<1> QED BY <1>1, <1>2, NonIitOthers, PluginPays

\* A call that enters with a session is counted and charged, or is refused.
LEMMA NonIitEnters ==
  ASSUME Base, NonIitPlaces, Counted, Quotas, NEW c \in Callers, NonIitStepOf(c), QuotaSteps(c),
         event[c].sessionId \in Sessions, nonIit[c].status = "idle"
  PROVE  Quotas'
<1> DEFINE z == event[c].sessionId
<1>1. /\ event' = event /\ iit' = iit /\ auth' = auth /\ wired' = wired /\ wired \in Wirings
      /\ event[c] # NoEvent /\ Charge(c) /\ Wired("nonIit") /\ z \in Sessions
  BY DEF NonIitStepOf, iitVars, Base
<1>2. /\ rate' = [rate EXCEPT ![z] = [count |-> Count(z), expired |-> FALSE]]
      /\ \/ /\ nonIit'[c].status = "refused"
            /\ admitted' = [admitted EXCEPT ![z] = Admits(z)] /\ budget' = budget
         \/ /\ Count(z) < NonIitCfg.maxRequestsPerMinute
            /\ admitted' = [admitted EXCEPT ![z] = Admits(z) + 1]
            /\ \E t \in Nat :
                 budget' = [budget EXCEPT ![z] = [spent |-> @.spent + Cost(c), tokens |-> t]]
            /\ \/ nonIit'[c].status = "refused"
               \/ /\ nonIit'[c].status = "judging"
                  /\ budget[z].spent + Cost(c) <= NonIitCfg.maxSpendPerSession
  BY DEF QuotaSteps
<1>3. \A d : Cost(d)' = Cost(d)
  BY <1>1 DEF Cost
<1>4. Cost(c) \in Nat
  BY <1>1, Amounts
<1>5. \A d \in Callers \ {c}, s \in Sessions : d \in Owing(s)' <=> d \in Owing(s)
  BY <1>1, NonIitOthers, SameStanding
<1>6. Reads(c)' /\ Wired("nonIit")'
  BY <1>1, ReadingsAfter DEF Wired
<1>7. nonIit'[c].status \in {"refused", "judging"} /\ ~Passed(c)' /\ charged' = charged
  <2>1. nonIit'[c].status \in {"refused", "judging"}
    BY <1>2
  <2>2. ~Passed(c)'
    BY <1>6, <2>1 DEF Reads
  <2> QED BY <1>1, <2>1, <2>2, Charges
<1>8. nonIit'[c].status = "refused" => \A s \in Sessions : c \notin Owing(s)'
  BY DEF Owing
<1>9. \A s \in Sessions : s # z => c \notin Owing(s)'
  BY <1>1 DEF Owing
<1> HIDE DEF z
<1>10. /\ rate \in [Sessions -> [count : Nat, expired : BOOLEAN]]
       /\ admitted \in [Sessions -> Nat] /\ charged \in [Sessions -> Nat]
       /\ budget \in [Sessions -> [spent : Nat, tokens : Nat]]
  BY DEF Counted, Quotas
\* The rate limit.
<1>11. /\ admitted' \in [Sessions -> Nat]
       /\ \A s \in Sessions : /\ admitted'[s] < NonIitCfg.maxRequestsPerMinute
                              /\ ~rate'[s].expired => admitted'[s] <= rate'[s].count
  <2>1. /\ admitted[z] < NonIitCfg.maxRequestsPerMinute
        /\ ~rate[z].expired => admitted[z] <= rate[z].count
    BY <1>1 DEF Quotas
  <2>2. /\ Admits(z) \in Nat /\ Count(z) \in Nat /\ Admits(z) + 1 <= Count(z)
        /\ Admits(z) < NonIitCfg.maxRequestsPerMinute
    BY <1>1, <1>10, <2>1, NonIitCfgAssumption DEF Admits, Count
  <2>3. PICK n \in Nat : /\ n <= Count(z) /\ n < NonIitCfg.maxRequestsPerMinute
                         /\ admitted' = [admitted EXCEPT ![z] = n]
    <3>1. CASE admitted' = [admitted EXCEPT ![z] = Admits(z)]
      <4>1. Admits(z) \in Nat /\ Admits(z) <= Count(z) /\ Admits(z) < NonIitCfg.maxRequestsPerMinute
        BY <2>2
      <4> QED BY <3>1, <4>1
    <3>2. CASE /\ Count(z) < NonIitCfg.maxRequestsPerMinute
               /\ admitted' = [admitted EXCEPT ![z] = Admits(z) + 1]
      <4>1. Admits(z) + 1 \in Nat /\ Admits(z) + 1 < NonIitCfg.maxRequestsPerMinute
        BY <2>2, <3>2, NonIitCfgAssumption
      <4> QED BY <2>2, <3>2, <4>1
    <3> QED BY <1>2, <3>1, <3>2
  <2>4. admitted' \in [Sessions -> Nat]
    BY <1>10, <2>3
  <2>5. ASSUME NEW s \in Sessions
        PROVE  /\ admitted'[s] < NonIitCfg.maxRequestsPerMinute
               /\ ~rate'[s].expired => admitted'[s] <= rate'[s].count
    <3>1. CASE s = z
      BY <1>1, <1>2, <1>10, <2>3, <3>1
    <3>2. CASE s # z
      <4>1. admitted'[s] = admitted[s] /\ rate'[s] = rate[s]
        BY <1>2, <1>10, <2>3, <3>2
      <4> QED BY <4>1 DEF Quotas
    <3> QED BY <3>1, <3>2
  <2> QED BY <2>4, <2>5
\* The budget.
<1>12. /\ budget' \in [Sessions -> [spent : Nat, tokens : Nat]]
       /\ \A s \in Sessions : budget'[s].spent >= budget[s].spent
  <2>1. CASE budget' = budget
    BY <1>10, <2>1
  <2>2. CASE \E t \in Nat :
               budget' = [budget EXCEPT ![z] = [spent |-> @.spent + Cost(c), tokens |-> t]]
    <3>1. PICK t \in Nat :
            budget' = [budget EXCEPT ![z] = [spent |-> @.spent + Cost(c), tokens |-> t]]
      BY <2>2
    <3>2. budget[z].spent + Cost(c) \in Nat
      BY <1>1, <1>4, <1>10
    <3> QED BY <1>1, <1>4, <1>10, <3>1, <3>2
  <2> QED BY <1>2, <2>1, <2>2
<1>13. ASSUME NEW s \in Sessions
       PROVE  /\ IsFiniteSet(Owed(s)')
              /\ charged'[s] + Cardinality(Owed(s)') <= budget'[s].spent
              /\ charged'[s] + Cardinality(Owed(s)') <= NonIitCfg.maxSpendPerSession
  <2>1. /\ IsFiniteSet(Owed(s)) /\ charged[s] + Cardinality(Owed(s)) <= budget[s].spent
        /\ charged[s] + Cardinality(Owed(s)) <= NonIitCfg.maxSpendPerSession
        /\ charged[s] \in Nat /\ budget[s].spent \in Nat /\ budget'[s].spent \in Nat
        /\ Cardinality(Owed(s)) \in Nat /\ charged'[s] = charged[s]
    <3>1. IsFiniteSet(Owed(s))
      BY <1>1 DEF Quotas
    <3> QED BY <1>1, <1>7, <1>12, <3>1, FS_CardinalityType DEF Quotas
  <2>2. CASE s # z \/ nonIit'[c].status = "refused"
    <3>1. Owing(s)' \subseteq Owing(s)
      <4>1. c \notin Owing(s)'
        BY <1>8, <1>9, <2>2
      <4> QED BY <1>5, <4>1 DEF Owing
    <3>2. Owed(s)' \subseteq Owed(s)
      BY <1>3, <3>1 DEF Owed
    <3>3. /\ IsFiniteSet(Owed(s)') /\ Cardinality(Owed(s)') \in Nat
          /\ Cardinality(Owed(s)') <= Cardinality(Owed(s))
      BY <2>1, <3>2, Fewer
    <3>4. budget'[s].spent >= budget[s].spent
      BY <1>12
    <3> QED BY <2>1, <3>3, <3>4, NonIitCfgAssumption
  <2>3. CASE s = z /\ nonIit'[c].status # "refused"
    <3>1. /\ budget'[s].spent = budget[s].spent + Cost(c)
          /\ budget[s].spent + Cost(c) <= NonIitCfg.maxSpendPerSession
      BY <1>1, <1>2, <1>10, <2>3
    <3>2. Owing(s)' \subseteq Owing(s) \cup {c}
      BY <1>5 DEF Owing
    <3>3. Owed(s)' \subseteq Owed(s) \cup ({c} \X (1..Cost(c)))
      BY <1>3, <3>2 DEF Owed
    <3>4. IsFiniteSet(Owed(s)') /\ Cardinality(Owed(s)') <= Cardinality(Owed(s)) + Cost(c)
      BY <1>4, <2>1, <3>3, MoreUnits
    <3>5. Cardinality(Owed(s)') \in Nat
      BY <3>4, FS_CardinalityType
    <3> QED BY <1>4, <2>1, <3>1, <3>4, <3>5, NonIitCfgAssumption
  <2> QED BY <2>2, <2>3
<1>14. charged' \in [Sessions -> Nat]
  BY <1>7, <1>10
<1> QED BY <1>6, <1>11, <1>12, <1>13, <1>14 DEF Quotas

LEMMA NewCallQuotas ==
  ASSUME Base, IitPlaces, NonIitPlaces, Quotas, NEW c \in Callers, NEW ev \in Events, Call(c, ev)
  PROVE  Quotas'
<1>1. /\ event' = [event EXCEPT ![c] = ev]
      /\ iit' = [iit EXCEPT ![c] = Iit!Fresh("idle", 0)]
      /\ nonIit' = [nonIit EXCEPT ![c] = NonIit!At("idle", 0, "none")]
      /\ rate' = rate /\ budget' = budget /\ admitted' = admitted /\ charged' = charged
      /\ auth' = [auth EXCEPT ![c] = "idle"]
      /\ wired' = wired /\ wired \in Wirings /\ (event[c] = NoEvent \/ Settled(c))
  BY DEF Call, Base, setup
<1>2. \A d \in Callers \ {c} : /\ event'[d] = event[d] /\ iit'[d] = iit[d]
                               /\ nonIit'[d] = nonIit[d] /\ auth'[d] = auth[d]
  BY <1>1 DEF Base, IitPlaces, NonIitPlaces
<1>3. \A d \in Callers \ {c} : Cost(d)' = Cost(d) /\ \A s : d \in Owing(s)' <=> d \in Owing(s)
  BY <1>1, <1>2, SameStanding
<1>4. \A s : c \notin Owing(s) /\ c \notin Owing(s)'
  <2>1. \A s : c \notin Owing(s)
    BY <1>1 DEF Owing, Settled
  <2>2. nonIit'[c].status = "idle"
    BY <1>1 DEF NonIitPlaces, NonIit!At
  <2> QED BY <2>1, <2>2 DEF Owing
<1>5. \A s : Owed(s)' = Owed(s)
  <2> SUFFICES ASSUME NEW s PROVE Owed(s)' = Owed(s)
    OBVIOUS
  <2>1. Owing(s)' = Owing(s)
    BY <1>3, <1>4 DEF Owing
  <2>2. \A d \in Owing(s) : Cost(d)' = Cost(d)
    BY <1>3, <1>4 DEF Owing
  <2> QED BY <2>1, <2>2 DEF Owed
<1> QED BY <1>1, <1>5 DEF Quotas, Wired

LEMMA MinuteQuotas ==
  ASSUME Base, Counted, Quotas, NEW z \in Sessions, Minute(z)
  PROVE  Quotas'
<1>1. /\ rate' = [rate EXCEPT ![z].expired = TRUE] /\ rate \in [Sessions -> [count : Nat, expired : BOOLEAN]]
      /\ event' = event /\ iit' = iit /\ nonIit' = nonIit /\ auth' = auth /\ wired' = wired
      /\ budget' = budget /\ admitted' = admitted /\ charged' = charged
  BY DEF Minute, NonIit!MinuteEnds, iitVars, setup, Counted
<1>2. \A s : Owed(s)' = Owed(s)
  BY <1>1 DEF Owed, Owing, Cost, Passed, IsRefused, StatusOf
<1>3. \A s \in Sessions : ~rate'[s].expired => ~rate[s].expired /\ rate'[s] = rate[s]
  BY <1>1
<1> QED BY <1>1, <1>2, <1>3 DEF Quotas, Wired

----------------------------------------------------------------------------
(* The invariant is inductive. *)

LEMMA Initially == ASSUME Init PROVE PipelineInv
<1>1. /\ event = [c \in Callers |-> NoEvent] /\ evaluations = [c \in Callers |-> <<>>]
      /\ iit = [c \in Callers |-> Iit!Fresh("idle", 0)] /\ cache = <<>>
      /\ phiHistory = [s \in Sessions |-> <<>>] /\ mipHistory = [s \in Sessions |-> <<>>]
      /\ observed = [s \in Sessions |-> 0] /\ decisions = [c \in Callers |-> <<>>]
      /\ nonIit = [c \in Callers |-> NonIit!At("idle", 0, "none")]
      /\ rate = [s \in Sessions |-> [count |-> 0, expired |-> TRUE]]
      /\ budget = [s \in Sessions |-> [spent |-> 0, tokens |-> 0]]
      /\ auth = [c \in Callers |-> "idle"] /\ calls = 0
      /\ admitted = [s \in Sessions |-> 0] /\ charged = [s \in Sessions |-> 0]
  BY DEF Init, Iit!IitInit, NonIit!NonIitInit
<1>2. Base
  <2>1. PICK d \in Deployments : wired = d[1] /\ policyAt = d[2]
    BY DEF Init
  <2>2. setup = d /\ wired \in Wirings
    BY <2>1, DeploymentsAssumption DEF setup
  <2> QED BY <1>1, <2>1, <2>2 DEF Base
<1>3. IitPlaces
  <2>1. /\ Iit!Fresh("idle", 0) \in IitRecords /\ Iit!Fresh("idle", 0).status = "idle"
        /\ Iit!Fresh("idle", 0).by = "none" /\ Iit!Fresh("idle", 0).at = 0
        /\ Iit!Fresh("idle", 0).answer = Iit!NoAnswer
    BY FreshRecords DEF Iit!Fresh
  <2> QED BY <1>1, <2>1 DEF IitPlaces
<1>4. NonIitPlaces
  BY <1>1 DEF NonIitPlaces, NonIit!At, NonIitRecords, Statuses
<1>5. CacheInv
  BY <1>1, CacheMaxAssumption DEF CacheInv, Distinct
<1>6. Windows
  BY <1>1, CfgAssumption DEF Windows
<1>7. Counted
  <2>1. Sampling = {} /\ Entering = {}
    BY <1>1 DEF Sampling, Entering
  <2> QED BY <1>1, <2>1, FS_EmptySet, MaxCallsAssumption DEF Counted
<1>8. Records
  <2>1. ASSUME NEW c \in Callers PROVE Told(c)
    <3>1. /\ iit[c].status = "idle" /\ nonIit[c].status = "idle" /\ auth[c] = "idle"
          /\ decisions[c] = <<>> /\ evaluations[c] = <<>>
      BY <1>1 DEF Iit!Fresh, NonIit!At
    <3>2. Blocks(<<>>) = {} /\ One(FALSE) = 0
      BY DEF Blocks, One
    <3> QED BY <3>1, <3>2 DEF Told, One
  <2> QED BY <1>1, <2>1 DEF Records
<1>9. Quotas
  <2>1. \A s : IsFiniteSet(Owed(s)) /\ Cardinality(Owed(s)) = 0
    <3>1. \A s : Owed(s) = {}
      BY <1>1 DEF Owed, Owing
    <3> QED BY <3>1, FS_EmptySet
  <2>2. /\ admitted \in [Sessions -> Nat] /\ charged \in [Sessions -> Nat]
        /\ budget \in [Sessions -> [spent : Nat, tokens : Nat]]
    BY <1>1
  <2>3. ASSUME NEW s \in Sessions
        PROVE  admitted[s] = 0 /\ charged[s] = 0 /\ budget[s].spent = 0 /\ rate[s].expired
    BY <1>1
  <2> QED BY <2>1, <2>2, <2>3, NonIitCfgAssumption DEF Quotas
<1> QED BY <1>2, <1>3, <1>4, <1>5, <1>6, <1>7, <1>8, <1>9 DEF PipelineInv

LEMMA CallKeeps ==
  ASSUME PipelineInv, NEW c \in Callers, NEW ev \in Events, Call(c, ev)
  PROVE  PipelineInv' /\ cache' = cache
<1>1. /\ Base /\ IitPlaces /\ NonIitPlaces /\ CacheInv /\ Windows /\ Counted /\ Records /\ Quotas
      /\ cache' = cache /\ phiHistory' = phiHistory /\ mipHistory' = mipHistory
  BY DEF PipelineInv, Call
<1>2. CacheInv' /\ Windows'
  BY <1>1 DEF CacheInv, Distinct, Windows
<1> QED BY <1>1, <1>2, NewCallPlaces, NewCallCounts, NewCallTells, NewCallQuotas DEF PipelineInv

LEMMA IitKeeps ==
  ASSUME PipelineInv, NEW c \in Callers, IitGuard(c)
  PROVE  PipelineInv' /\ CacheMoves
<1>1. Base /\ IitPlaces /\ NonIitPlaces /\ CacheInv /\ Windows /\ Counted /\ Records /\ Quotas
  BY DEF PipelineInv
<1>2. IitStepOf(c)
  BY IitTurn
<1>3. Base' /\ NonIitPlaces' /\ CacheInv' /\ Windows' /\ CacheMoves
  BY <1>1, <1>2 DEF IitStepOf, Base, setup, NonIitPlaces, CacheMoves
<1> QED BY <1>1, <1>2, <1>3, IitKeepsPlaces, IitCounts, IitTells, IitQuotas DEF PipelineInv

LEMMA NonIitKeeps ==
  ASSUME PipelineInv, NEW c \in Callers, NonIitGuard(c)
  PROVE  PipelineInv' /\ cache' = cache
<1>1. Base /\ IitPlaces /\ NonIitPlaces /\ CacheInv /\ Windows /\ Counted /\ Records /\ Quotas
  BY DEF PipelineInv
<1>2. NonIitStepOf(c)
  BY NonIitTurn
<1>3. /\ event' = event /\ setup' = setup /\ wired' = wired /\ auth' = auth
      /\ iit' = iit /\ cache' = cache
      /\ phiHistory' = phiHistory /\ mipHistory' = mipHistory /\ event[c] # NoEvent
  BY <1>2 DEF NonIitStepOf, iitVars, setup
<1>4. Base' /\ IitPlaces' /\ CacheInv' /\ Windows'
  BY <1>1, <1>3 DEF Base, IitPlaces, CacheInv, Distinct, Windows, Iit!NoAnswer
<1>5. QuotaSteps(c)
  BY <1>1, <1>3, QuotaTurn
<1>6. Quotas'
  <2>1. CASE event[c].sessionId \in Sessions /\ nonIit[c].status = "idle"
    BY <1>1, <1>2, <1>5, <2>1, NonIitEnters
  <2>2. CASE ~(event[c].sessionId \in Sessions /\ nonIit[c].status = "idle")
    BY <1>1, <1>2, <1>5, <2>2, NonIitPays DEF QuotaSteps
  <2> QED BY <2>1, <2>2
<1> QED BY <1>1, <1>2, <1>3, <1>4, <1>5, <1>6, NonIitKeepsPlaces, NonIitCounts, NonIitTells
        DEF PipelineInv

LEMMA AuthKeeps ==
  ASSUME PipelineInv, NEW c \in Callers, AuthGuard(c)
  PROVE  PipelineInv' /\ cache' = cache
<1>1. Base /\ IitPlaces /\ NonIitPlaces /\ CacheInv /\ Windows /\ Counted /\ Records /\ Quotas
  BY DEF PipelineInv
<1>2. AuthStepOf(c)
  BY AuthTurn
<1>3. /\ event' = event /\ setup' = setup /\ wired' = wired /\ iit' = iit /\ nonIit' = nonIit
      /\ cache' = cache /\ phiHistory' = phiHistory /\ mipHistory' = mipHistory
      /\ observed' = observed /\ rate' = rate /\ calls' = calls
      /\ auth' \in [Callers -> {"idle", "passed", "refused"}]
  BY <1>1, <1>2 DEF AuthStepOf, iitVars, setup, Base
<1>4. Base' /\ IitPlaces' /\ NonIitPlaces' /\ CacheInv' /\ Windows'
  BY <1>1, <1>3 DEF Base, IitPlaces, NonIitPlaces, CacheInv, Distinct, Windows, Iit!NoAnswer
<1>5. Counted'
  BY <1>1, <1>3 DEF Counted, Sampling, Entering
<1> QED BY <1>1, <1>2, <1>3, <1>4, <1>5, AuthTells, AuthQuotas DEF PipelineInv

LEMMA MinuteKeeps ==
  ASSUME PipelineInv, NEW s \in Sessions, Minute(s)
  PROVE  PipelineInv' /\ cache' = cache
<1>1. Base /\ IitPlaces /\ NonIitPlaces /\ CacheInv /\ Windows /\ Counted /\ Records /\ Quotas
  BY DEF PipelineInv
<1>2. /\ event' = event /\ setup' = setup /\ wired' = wired /\ auth' = auth
      /\ iit' = iit /\ nonIit' = nonIit /\ cache' = cache
      /\ phiHistory' = phiHistory /\ mipHistory' = mipHistory
      /\ decisions' = decisions /\ evaluations' = evaluations
  BY DEF Minute, NonIit!MinuteEnds, iitVars, setup
<1>3. Base' /\ IitPlaces' /\ NonIitPlaces' /\ CacheInv' /\ Windows'
  BY <1>1, <1>2 DEF Base, IitPlaces, NonIitPlaces, CacheInv, Distinct, Windows, Iit!NoAnswer
<1>4. Records'
  BY <1>1, <1>2, RecordsAgain
<1> QED BY <1>1, <1>2, <1>3, <1>4, MinuteCounts, MinuteQuotas DEF PipelineInv

LEMMA StutterKeeps ==
  ASSUME PipelineInv, UNCHANGED vars
  PROVE  PipelineInv'
<1>1. UNCHANGED <<event, iit, cache, phiHistory, mipHistory, observed, decisions, nonIit, rate,
                  budget, auth, evaluations, setup, wired, calls, admitted, charged>>
  BY DEF vars, iitVars, setup
<1>2. Base' /\ IitPlaces' /\ NonIitPlaces' /\ CacheInv' /\ Windows'
  BY <1>1 DEF PipelineInv, Base, IitPlaces, NonIitPlaces, CacheInv, Distinct, Windows, Iit!NoAnswer
<1>3. Records'
  BY <1>1, RecordsAgain DEF PipelineInv
<1>4. Counted'
  BY <1>1 DEF PipelineInv, Counted, Sampling, Entering
<1>5. Quotas'
  <2>1. \A s : Owed(s)' = Owed(s)
    BY <1>1 DEF Owed, Owing, Cost, Passed, IsRefused, StatusOf
  <2> QED BY <1>1, <2>1 DEF PipelineInv, Quotas, Wired
<1> QED BY <1>2, <1>3, <1>4, <1>5 DEF PipelineInv

\* The invariant holds at first and through every step, and only a step of
\* guards-iit moves the cache.
LEMMA Inductive ==
  ASSUME PipelineInv, [Next]_vars
  PROVE  PipelineInv' /\ (cache' = cache \/ CacheMoves)
<1>1. ASSUME NEW c \in Callers, NEW ev \in Events, Call(c, ev)
      PROVE  PipelineInv' /\ (cache' = cache \/ CacheMoves)
  BY <1>1, CallKeeps
<1>2. ASSUME NEW c \in Callers, IitGuard(c)
      PROVE  PipelineInv' /\ (cache' = cache \/ CacheMoves)
  BY <1>2, IitKeeps
<1>3. ASSUME NEW c \in Callers, NonIitGuard(c)
      PROVE  PipelineInv' /\ (cache' = cache \/ CacheMoves)
  BY <1>3, NonIitKeeps
<1>4. ASSUME NEW s \in Sessions, Minute(s)
      PROVE  PipelineInv' /\ (cache' = cache \/ CacheMoves)
  BY <1>4, MinuteKeeps
<1>5. ASSUME NEW c \in Callers, AuthGuard(c)
      PROVE  PipelineInv' /\ (cache' = cache \/ CacheMoves)
  BY <1>5, AuthKeeps
<1>6. ASSUME UNCHANGED vars
      PROVE  PipelineInv' /\ (cache' = cache \/ CacheMoves)
  BY <1>6, StutterKeeps DEF vars, iitVars
<1> QED BY <1>1, <1>2, <1>3, <1>4, <1>5, <1>6 DEF Next

\* Whatever calls are made, and however their awaits interleave, the invariant
\* behind the properties below holds.
THEOREM PipelineInvariant == Spec => []PipelineInv
<1>1. Init => PipelineInv
  BY Initially
<1>2. PipelineInv /\ [Next]_vars => PipelineInv'
  BY Inductive
<1> QED BY <1>1, <1>2, PTL DEF Spec

----------------------------------------------------------------------------
(* What the invariant says. *)

LEMMA Typed == ASSUME PipelineInv PROVE TypeOK
<1>1. Base /\ IitPlaces /\ NonIitPlaces /\ CacheInv /\ Windows /\ Counted /\ Records /\ Quotas
  BY DEF PipelineInv
<1>2. ASSUME NEW c \in Callers
      PROVE  /\ iit[c].status \in {"idle", "judging", "passed", "refused"}
             /\ iit[c].at \in 0..(Len(Iit!GUARDS) + 1)
             /\ iit[c].answer.status \in {"none", "computing", "ready"}
             /\ nonIit[c].status \in {"idle", "judging", "passed", "refused"}
             /\ nonIit[c].at \in 0..(Len(NonIit!NonIitGUARDS) + 1)
             /\ auth[c] \in {"idle", "passed", "refused"}
             /\ decisions[c] \in Seq(Range(Iit!GUARDS) \X {"warn", "block"})
  <2>1. /\ iit[c] \in IitRecords /\ nonIit[c] \in NonIitRecords
        /\ auth[c] \in {"idle", "passed", "refused"}
    BY <1>1 DEF Base, IitPlaces, NonIitPlaces
  <2>2. iit[c].answer.status \in {"none", "computing", "ready"}
    <3>1. iit[c].answer \in PhiAnswers
      BY <2>1 DEF IitRecords
    <3>2. /\ Iit!NoAnswer.status = "none" /\ Iit!Computing.status = "computing"
          /\ \A x : Iit!PhiAnswer(x).status = "ready"
      BY DEF Iit!NoAnswer, Iit!Computing, Iit!PhiAnswer
    <3> QED BY <3>1, <3>2 DEF PhiAnswers
  <2>3. decisions[c] \in Seq(DecisionEvents)
    BY <1>1 DEF Records, Told
  <2>4. Len(Iit!GUARDS) + 1 = 12 /\ Len(NonIit!NonIitGUARDS) + 1 = 5
    BY Names, NonIitNames
  <2> QED BY <2>1, <2>2, <2>3, <2>4 DEF IitRecords, NonIitRecords, Statuses, DecisionEvents
<1>3. ASSUME NEW s \in Sessions
      PROVE  /\ observed[s] \in 0..MaxCalls /\ rate[s].count \in 0..MaxCalls
             /\ budget[s].spent \in Nat
  <2>1. /\ observed[s] \in Nat /\ rate[s].count \in Nat /\ calls \in 0..MaxCalls
        /\ observed[s] + Cardinality(Sampling) <= calls
        /\ rate[s].count + Cardinality(Entering) <= calls
        /\ IsFiniteSet(Sampling) /\ IsFiniteSet(Entering) /\ budget[s].spent \in Nat
    BY <1>1 DEF Counted, Quotas
  <2>2. Cardinality(Sampling) \in Nat /\ Cardinality(Entering) \in Nat
    BY <2>1, FS_CardinalityType
  <2> QED BY <2>1, <2>2, MaxCallsAssumption
<1> QED BY <1>1, <1>2, <1>3 DEF TypeOK, Base, CacheInv, Windows, Counted

\* What guards-iit knows of the phi of a call that it judges or has passed; the
\* second guard looks at the minimum, the fifth at the boundary.
Found(c) ==
  LET computed == PhiOf[event[c].tpm] IN
  /\ iit[c].status \in {"judging", "passed"} => ~Below(event[c].phi, Cfg.minPhi)
  /\ event[c].tpm # Undefined /\ (iit[c].status = "passed" \/ iit[c].at > 2) =>
       computed # Undefined /\ ~Below(computed, Cfg.minPhi)
  /\ event[c].tpm # Undefined /\ (iit[c].status = "passed" \/ iit[c].at > 5) =>
       ~Below(computed, Cfg.boundaryFrontier.minBoundaryPhi)
  /\ iit[c].answer.status = "ready" => iit[c].answer.phi = computed /\ computed # Undefined

\* Only what could be computed is cached.
Closed ==
  /\ \A key \in Range(cache) : PhiOf[key] # Undefined
  /\ \A c \in Callers : Found(c)

LEMMA FoundAgain ==
  ASSUME NEW c, Found(c), event'[c] = event[c], iit'[c] = iit[c]
  PROVE  Found(c)'
BY DEF Found

\* A guard that asks for phi and lets the call go on has seen what it demands.
LEMMA Demands ==
  ASSUME NEW c, Iit!Guard(c) \in Range(Iit!GUARDS),
         Iit!Result(c).disposition \notin {"block", "throw"}
  PROVE  /\ Iit!Guard(c) = "phi-threshold" => ~Below(iit[c].answer.phi, Cfg.minPhi)
         /\ Iit!Guard(c) = "boundary-frontier" =>
              ~Below(iit[c].answer.phi, Cfg.boundaryFrontier.minBoundaryPhi)
<1>1. CASE Iit!Guard(c) = "phi-threshold"
  BY <1>1 DEF Iit!Result, Iit!getGuardConfig, Iit!PhiThreshold, Iit!Answer, Iit!Below, Below,
              Iit!IsNumber, IsNumber
<1>2. CASE Iit!Guard(c) = "boundary-frontier"
  BY <1>2 DEF Iit!Result, Iit!getGuardConfig, Iit!BoundaryFrontier, Iit!Throw, Iit!Answer,
              Iit!Below, Below, Iit!IsNumber, IsNumber
<1> QED BY <1>1, <1>2

LEMMA JudgeCloses ==
  ASSUME Base, IitPlaces, NEW c \in Callers, event[c] # NoEvent, event' = event, Found(c),
         Iit!Judge(c)
  PROVE  Found(c)'
<1>1. /\ iit[c].status = "judging" /\ iit[c].at \in 1..11 /\ DOMAIN iit = Callers
      /\ Iit!NeedsPhi(c) => iit[c].answer.status = "ready"
  BY Names DEF Iit!Judge, Iit!AtGuard, IitPlaces, IitRecords
<1>2. CASE Iit!Result(c).disposition \in {"block", "throw"}
  <2>1. iit'[c] = [Iit!Fresh("refused", 0) EXCEPT !.by = Iit!Guard(c)]
    BY <1>1, <1>2 DEF Iit!Judge, Iit!Refused
  <2>2. iit'[c].status = "refused" /\ iit'[c].at = 0 /\ iit'[c].answer.status = "none"
    BY <2>1 DEF Iit!Fresh, Iit!NoAnswer
  <2> QED BY <2>2 DEF Found
<1>3. CASE Iit!Result(c).disposition \notin {"block", "throw"}
  <2>1. /\ iit'[c] = Iit!Fresh("judging", Iit!FirstGuard(event[c], iit[c].at + 1))
        /\ iit'[c].answer.status = "none"
    BY <1>1, <1>3 DEF Iit!Judge, Iit!Fresh, Iit!NoAnswer
  <2>2. iit'[c].status = "judging" /\ (event[c].tpm # Undefined => iit'[c].at = iit[c].at + 1)
    BY <1>1, <2>1, FirstGuards DEF Iit!Fresh
  <2>3. /\ iit[c].at = 2 => Iit!Guard(c) = "phi-threshold"
        /\ iit[c].at = 5 => Iit!Guard(c) = "boundary-frontier"
        /\ Iit!Guard(c) \in Range(Iit!GUARDS)
    BY <1>1, Names DEF Iit!Guard, Iit!GUARDS
  <2>4. ASSUME iit[c].at \in {2, 5}
        PROVE  iit[c].answer.phi = PhiOf[event[c].tpm] /\ PhiOf[event[c].tpm] # Undefined
    <3>1. Iit!NeedsPhi(c)
      BY <2>3, <2>4 DEF Iit!NeedsPhi
    <3> QED BY <1>1, <3>1 DEF Found
  <2>5. ASSUME event[c].tpm # Undefined, iit'[c].at > 2
        PROVE  PhiOf[event[c].tpm] # Undefined /\ ~Below(PhiOf[event[c].tpm], Cfg.minPhi)
    <3>1. CASE iit[c].at = 2
      BY <1>3, <2>3, <2>4, <3>1, Demands
    <3>2. CASE iit[c].at > 2
      BY <2>5, <3>2 DEF Found
    <3> QED BY <1>1, <2>2, <2>5, <3>1, <3>2
  <2>6. ASSUME event[c].tpm # Undefined, iit'[c].at > 5
        PROVE  ~Below(PhiOf[event[c].tpm], Cfg.boundaryFrontier.minBoundaryPhi)
    <3>1. CASE iit[c].at = 5
      BY <1>3, <2>3, <2>4, <3>1, Demands
    <3>2. CASE iit[c].at > 5
      BY <2>6, <3>2 DEF Found
    <3> QED BY <1>1, <2>2, <2>6, <3>1, <3>2
  <2>7. ~Below(event[c].phi, Cfg.minPhi)
    BY <1>1 DEF Found
  <2> QED BY <2>1, <2>2, <2>5, <2>6, <2>7 DEF Found
<1> QED BY <1>2, <1>3

\* An answer of calculatePhi is that of the call's own TPM, cached or not.
LEMMA AnswerCloses ==
  ASSUME Base, IitPlaces, CacheInv, Closed, NEW c \in Callers, event[c] # NoEvent,
         event' = event, Iit!Probe(c) \/ Iit!Compute(c)
  PROVE  Found(c)' /\ \A key \in Range(cache') : PhiOf[key] # Undefined
<1> DEFINE key == event[c].tpm
<1>1. key \in Tpms /\ DOMAIN iit = Callers /\ Found(c) /\ iit[c] \in IitRecords
  BY Asks, Computing DEF Iit!Probe, IitPlaces, Closed
<1>2. CASE PhiOf[key] = Undefined /\ iit' = Iit!Refused(c, "calculatePhi") /\ cache' = cache
  <2>1. iit'[c].status = "refused" /\ iit'[c].at = 0 /\ iit'[c].answer.status = "none"
    BY <1>1, <1>2 DEF Iit!Refused, Iit!Fresh, Iit!NoAnswer
  <2> QED BY <1>2, <2>1 DEF Found, Closed
<1>3. CASE iit' = [iit EXCEPT ![c].answer = Iit!Computing] /\ cache' = cache
  <2>1. /\ iit'[c].status = iit[c].status /\ iit'[c].at = iit[c].at
        /\ iit'[c].answer.status = "computing"
    BY <1>1, <1>3 DEF IitRecords, Iit!Computing, Iit!NoAnswer
  <2> QED BY <1>1, <1>3, <2>1 DEF Found, Closed
<1>4. CASE /\ iit' = [iit EXCEPT ![c].answer = Iit!PhiAnswer(PhiOf[key])]
           /\ PhiOf[key] # Undefined /\ Range(cache') \subseteq Range(cache) \cup {key}
  <2>1. /\ iit'[c].status = iit[c].status /\ iit'[c].at = iit[c].at
        /\ iit'[c].answer.phi = PhiOf[key]
    BY <1>1, <1>4 DEF IitRecords, Iit!PhiAnswer, Iit!NoAnswer
  <2>2. \A k \in Range(cache') : PhiOf[k] # Undefined
    BY <1>4 DEF Closed
  <2> QED BY <1>1, <1>4, <2>1, <2>2 DEF Found
<1>5. CASE Iit!Probe(c)
  <2>1. CASE Iit!Hit(key)
    <3>1. key \in Range(cache) /\ PhiOf[key] # Undefined
      BY <2>1 DEF Iit!Hit, Iit!Range, Range, Closed
    <3>2. /\ iit' = [iit EXCEPT ![c].answer = Iit!PhiAnswer(PhiOf[key])]
          /\ cache' = Iit!Touched(key)
      BY <1>5, <2>1 DEF Iit!Probe
    <3>3. Range(cache') = Range(cache)
      BY <1>1, <2>1, <3>2, Touches
    <3> QED BY <1>4, <3>1, <3>2, <3>3
  <2>2. CASE ~Iit!Hit(key)
    BY <1>3, <1>5, <2>2 DEF Iit!Probe
  <2> QED BY <2>1, <2>2
<1>6. CASE Iit!Compute(c)
  <2>1. CASE PhiOf[key] = Undefined
    BY <1>2, <1>6, <2>1 DEF Iit!Compute
  <2>2. CASE PhiOf[key] # Undefined
    <3>1. /\ iit' = [iit EXCEPT ![c].answer = Iit!PhiAnswer(PhiOf[key])]
          /\ cache' = Iit!CacheSet(key)
      BY <1>6, <2>2 DEF Iit!Compute
    <3>2. Range(cache') \subseteq Range(cache) \cup {key}
      BY <1>1, <3>1, Sets
    <3> QED BY <1>4, <2>2, <3>1, <3>2
  <2> QED BY <2>1, <2>2
<1> QED BY <1>5, <1>6

LEMMA EnterCloses ==
  ASSUME Base, IitPlaces, NEW c \in Callers, event' = event, Iit!IitEnter(c)
  PROVE  Found(c)'
<1>1. DOMAIN iit = Callers
  BY DEF IitPlaces
<1>2. ASSUME NEW g, iit' = Iit!Refused(c, g) PROVE Found(c)'
  <2>1. iit'[c].status = "refused" /\ iit'[c].at = 0 /\ iit'[c].answer.status = "none"
    BY <1>1, <1>2 DEF Iit!Refused, Iit!Fresh, Iit!NoAnswer
  <2> QED BY <2>1 DEF Found
<1>3. ASSUME ~Iit!Below(event[c].phi, Cfg.minPhi),
             iit' = [iit EXCEPT ![c] = Iit!Fresh("judging", Iit!FirstGuard(event[c], 1))]
      PROVE  Found(c)'
  <2>1. /\ iit'[c].status = "judging" /\ iit'[c].answer.status = "none"
        /\ event[c].tpm # Undefined => iit'[c].at = 1
    BY <1>1, <1>3, FirstGuards DEF Iit!Fresh, Iit!NoAnswer
  <2>2. ~Below(event[c].phi, Cfg.minPhi)
    BY <1>3 DEF Iit!Below, Below, Iit!IsNumber, IsNumber
  <2> QED BY <2>1, <2>2 DEF Found
<1> QED BY <1>2, <1>3 DEF Iit!IitEnter

\* Behind the last guard all of it has been found.
LEMMA PassCloses ==
  ASSUME Base, IitPlaces, NEW c \in Callers, event' = event, Found(c), Iit!IitPass(c)
  PROVE  Found(c)'
<1>1. iit[c].status = "judging" /\ iit[c].at = 12 /\ DOMAIN iit = Callers
  BY Names DEF Iit!IitPass, IitPlaces, IitRecords
<1>2. iit'[c].status = "passed" /\ iit'[c].answer.status = "none"
  BY <1>1 DEF Iit!IitPass, Iit!Fresh, Iit!NoAnswer
<1> QED BY <1>1, <1>2 DEF Found

LEMMA StepCloses ==
  ASSUME PipelineInv, Closed, [Next]_vars
  PROVE  Closed'
<1>1. Base /\ IitPlaces /\ CacheInv
  BY DEF PipelineInv
<1>2. ASSUME event' = event, iit' = iit, cache' = cache PROVE Closed'
  BY <1>2, FoundAgain DEF Closed
<1>3. ASSUME NEW c \in Callers, NEW ev \in Events, Call(c, ev) PROVE Closed'
  <2>1. /\ event' = [event EXCEPT ![c] = ev] /\ iit' = [iit EXCEPT ![c] = Iit!Fresh("idle", 0)]
        /\ cache' = cache
    BY <1>3 DEF Call
  <2>2. iit'[c].status = "idle" /\ iit'[c].at = 0 /\ iit'[c].answer.status = "none"
    BY <1>1, <2>1 DEF IitPlaces, Iit!Fresh, Iit!NoAnswer
  <2>3. \A d \in Callers \ {c} : event'[d] = event[d] /\ iit'[d] = iit[d]
    BY <1>1, <2>1 DEF Base, IitPlaces
  <2>4. Found(c)'
    BY <2>2 DEF Found
  <2> QED BY <2>1, <2>3, <2>4, FoundAgain DEF Closed
<1>4. ASSUME NEW c \in Callers, IitGuard(c) PROVE Closed'
  <2>1. /\ IitStepOf(c) /\ event' = event /\ event[c] # NoEvent /\ Found(c)
        /\ Iit!IitEnter(c) \/ Iit!IitStep(c)
    BY <1>4, IitTurn DEF IitStepOf, IitGuard, Closed
  <2>2. \A d \in Callers \ {c} : Found(d)'
    BY <1>1, <2>1, IitOthers, FoundAgain DEF Closed
  <2>3. CASE Iit!Probe(c) \/ Iit!Compute(c)
    BY <1>1, <2>1, <2>2, <2>3, AnswerCloses DEF Closed
  <2>4. CASE Iit!IitEnter(c) \/ Iit!Judge(c) \/ Iit!IitPass(c)
    <3>1. cache' = cache
      BY <2>4 DEF Iit!IitEnter, Iit!Judge, Iit!IitPass
    <3>2. Found(c)'
      BY <1>1, <2>1, <2>4, EnterCloses, JudgeCloses, PassCloses
    <3> QED BY <2>2, <3>1, <3>2 DEF Closed
  <2> QED BY <2>1, <2>3, <2>4 DEF Iit!IitStep
<1>5. ASSUME NEW c \in Callers, NonIitGuard(c) \/ AuthGuard(c) PROVE Closed'
  BY <1>2, <1>5 DEF NonIitGuard, AuthGuard, iitVars
<1>6. ASSUME NEW s \in Sessions, Minute(s) PROVE Closed'
  BY <1>2, <1>6 DEF Minute, iitVars
<1>7. ASSUME UNCHANGED vars PROVE Closed'
  BY <1>2, <1>7 DEF vars, iitVars
<1> QED BY <1>3, <1>4, <1>5, <1>6, <1>7 DEF Next

LEMMA Held == ASSUME PipelineInv PROVE QuotasHold
<1>1. Quotas
  BY DEF PipelineInv
<1>2. ASSUME NEW s \in Sessions, Wired("nonIit")
      PROVE  charged[s] <= NonIitCfg.maxSpendPerSession
  <2>1. /\ IsFiniteSet(Owed(s)) /\ charged[s] \in Nat
        /\ charged[s] + Cardinality(Owed(s)) <= NonIitCfg.maxSpendPerSession
    BY <1>1, <1>2 DEF Quotas
  <2>2. Cardinality(Owed(s)) \in Nat
    BY <2>1, FS_CardinalityType
  <2> QED BY <2>1, <2>2, NonIitCfgAssumption
<1> QED BY <1>1, <1>2 DEF Quotas, QuotasHold, Wired

\* Every call is at a guard of its runner, with an answer of calculatePhi that the
\* runner gives; the cache and the windows stay within their limits, and no
\* counter of samples or calls passes the number of calls made.
THEOREM TypeCorrect == Spec => []TypeOK
BY PipelineInvariant, Typed, PTL

\* What the iit-guard.decision and policy/evaluate events of a call say agrees
\* with what became of it, in whatever order or number the plugins are wired and
\* wherever the policy engine listens.
THEOREM RecordsMatchOutcomesHolds == Spec => []RecordsMatchOutcomes
<1>1. PipelineInv => RecordsMatchOutcomes
  BY RecordsTell DEF PipelineInv
<1> QED BY <1>1, PipelineInvariant, PTL

\* Whatever the settings, the phi of a TPM, the calls that share the cache and the
\* place of the policy engine, no call passes guards-iit with a phi below the
\* minimum, or with a TPM whose phi fails to be computed or is below a limit.
THEOREM PhiFailsClosedHolds == Spec => []PhiFailsClosed
<1>1. Init => Closed
  <2>1. ASSUME Init
        PROVE  /\ Range(cache) = {}
               /\ \A c \in Callers : /\ iit[c].status = "idle" /\ iit[c].at = 0
                                     /\ iit[c].answer.status = "none"
    BY <2>1 DEF Init, Iit!IitInit, Iit!Fresh, Iit!NoAnswer, Range
  <2> QED BY <2>1 DEF Closed, Found
<1>2. PipelineInv /\ Closed /\ [Next]_vars => Closed'
  BY StepCloses
<1>3. Closed => PhiFailsClosed
  BY DEF Closed, Found, PhiFailsClosed
<1> QED BY <1>1, <1>2, <1>3, PipelineInvariant, PTL DEF Spec

\* For any number of callers, the calls of a session that pass the quotas in one
\* minute are fewer than its limit, and those that run cost no more than its
\* budget: what a call past the quotas still owes is already in the counter.
THEOREM QuotasHoldHolds == Spec => []QuotasHold
BY PipelineInvariant, Held, PTL

\* CesCache gives up a key only when it is full, only the first of its Map, and
\* only for a key it does not hold, for every capacity and every order of calls.
THEOREM EvictsOnlyWhenFullHolds == Spec => EvictsOnlyWhenFull
<1>1. PipelineInv /\ [Next]_vars =>
        [Range(cache) \ Range(cache') # {} =>
           /\ Len(cache) = CacheMax
           /\ Range(cache) \ Range(cache') = {Head(cache)}
           /\ Range(cache') \ Range(cache) # {}]_cache
  BY Inductive DEF CacheMoves
<1> QED BY <1>1, PipelineInvariant, PTL DEF Spec, EvictsOnlyWhenFull
=============================================================================
