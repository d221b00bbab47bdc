----------------------- MODULE ReceiptCollectorProofs -----------------------
(***************************************************************************)
(* Proofs about the watchtower plugin, for any sets of sessions, events    *)
(* and callers and any bounds: its types, where prevHash may point, that   *)
(* receipts of sessions nobody awaited keep the content they were hashed   *)
(* with, that sessions which do not overlap leave a chain verifyChain      *)
(* accepts, that no decision is attested twice or lost while its session   *)
(* lasts, and that the tip an awaited flush left is stored.                *)
(***************************************************************************)
EXTENDS ReceiptCollector, SequenceTheorems, FiniteSetTheorems, TLAPS

\* A sequence, over whatever set its elements are in.
IsSeq(q) == \E S : q \in Seq(S)

LEMMA AppendSeq ==
  ASSUME NEW q, NEW e, IsSeq(q)
  PROVE  /\ IsSeq(Append(q, e)) /\ Len(q) \in Nat /\ Len(Append(q, e)) = Len(q) + 1
         /\ \A i \in 1 .. Len(q) : Append(q, e)[i] = q[i]
         /\ Append(q, e)[Len(q) + 1] = e
<1>1. PICK S : q \in Seq(S) BY DEF IsSeq
<1>2. q \in Seq(S \cup {e}) BY <1>1, SeqMonotonic
<1> QED BY <1>2, AppendProperties DEF IsSeq

LEMMA ConcatSeq ==
  ASSUME NEW q, NEW p, IsSeq(q), IsSeq(p)
  PROVE  /\ IsSeq(q \o p) /\ Len(q) \in Nat /\ Len(p) \in Nat
         /\ Len(q \o p) = Len(q) + Len(p)
         /\ \A i \in 1 .. Len(q) : (q \o p)[i] = q[i]
         /\ \A i \in 1 .. Len(p) : (q \o p)[Len(q) + i] = p[i]
<1>1. PICK S, T : q \in Seq(S) /\ p \in Seq(T) BY DEF IsSeq
<1>2. q \in Seq(S \cup T) /\ p \in Seq(S \cup T) BY <1>1, SeqMonotonic
<1>3. Len(q) \in Nat /\ Len(p) \in Nat BY <1>1, LenProperties
<1> QED BY <1>2, <1>3, ConcatProperties DEF IsSeq
-----------------------------------------------------------------------------
\* The inductive invariant, in named parts.

\* The Map and the heap agree.
Shape ==
  /\ IsSeq(states) /\ IsSeq(minted)
  /\ flushing = [c \in Callers |-> flushing[c]]
  /\ collector \in [Sessions -> 0 .. Len(states)]
  /\ \A s \in Sessions : collector[s] # 0 => states[collector[s]].session = s
  /\ \A o \in 1 .. Len(states) : states[o].session \in Sessions

\* What a receipt shares with the object it was minted from.
Receipt(r) ==
  /\ r.obj \in 1 .. Len(states)
  /\ r.body.session = states[r.obj].session
  /\ r.hash = HashReceiptWithoutHash(r.body)

\* No live session can still change the dispositions r was hashed with.
Settled(r) ==
  r.body.session \notin raced =>
    /\ collector[r.body.session] # r.obj
    /\ Current(r).body = r.body

Receipts == \A i \in 1 .. Len(minted) : Receipt(minted[i]) /\ Settled(minted[i])

\* Receipts on their way to the database were minted before; an object that
\* waits for the last hash is one of a session that counts as raced.
InFlight ==
  /\ \A w \in writes : \E i \in 1 .. Len(minted) : w.receipt = minted[i]
  /\ \A c \in Callers : flushing[c].pc \in {"insert", "setGenesis"} =>
       \E i \in 1 .. Len(minted) : flushing[c].receipt = minted[i]
  /\ \A c \in Callers : flushing[c].pc = "last" =>
       flushing[c].obj \in 1 .. Len(states) /\ states[flushing[c].obj].session \in raced

\* Stored rows of sessions nobody awaited are intact.
Rows ==
  /\ IsSeq(table)
  /\ \A i \in 1 .. Len(table) :
       table[i].body.session \notin raced => ContentHashHolds(table[i])

MintedHashes(n) == {Genesis} \cup {minted[j].hash : j \in 1 .. n}

Chained(i) ==
  minted[i].how # "override" =>
    minted[i].body.prevHash \in MintedHashes(i - 1) \cup FromOthers(minted[i].how)

\* Every hash the plugin may chain on by itself, its own or one the backend
\* answers, is the seed or was minted before.
Ancestry ==
  /\ \A i \in 1 .. Len(minted) : Chained(i)
  /\ \A o \in 1 .. Len(states) : states[o].prevHash \in MintedHashes(Len(minted))
  /\ genesisHash \in MintedHashes(Len(minted))
  /\ tip \in MintedHashes(Len(minted))
  /\ \A i \in 1 .. Len(table) : table[i].hash \in MintedHashes(Len(minted))

\* Receipt i follows receipt i - 1 unless its caller overrode prevHash.
Followed ==
  \A i \in 2 .. Len(minted) :
    minted[i].how # "override" => minted[i].body.prevHash = minted[i - 1].hash

\* In memory and without overlap the one live session holds the tip.
OneTip ==
  /\ ~backend => raced = {}
  /\ ~backend /\ ~overlapped =>
       /\ \A s, t \in Live : s = t
       /\ \A s \in Live : states[collector[s]].prevHash = genesisHash
       /\ Followed
       /\ Len(minted) # 0 => genesisHash = minted[Len(minted)].hash

IInv == Shape /\ Receipts /\ InFlight /\ Rows /\ Ancestry /\ OneTip

\* The plugin starts with no session, no receipt and the genesis hash.
THEOREM InitIInv == Init => IInv
<1> SUFFICES ASSUME Init PROVE IInv
  OBVIOUS
<1> USE DEF Init
<1>1. IsSeq(<<>>)
  <2>1. <<>> \in Seq({}) OBVIOUS
  <2> QED BY <2>1 DEF IsSeq
<1>2. Len(<<>>) = 0 OBVIOUS
<1>3. Shape BY <1>1, <1>2 DEF Shape
<1>4. Receipts /\ InFlight /\ Rows BY <1>1, <1>2 DEF Receipts, InFlight, Rows, Idle
<1>5. Ancestry BY <1>2 DEF Ancestry, MintedHashes
<1>6. OneTip BY <1>2 DEF OneTip, Live, Followed
<1> QED BY <1>3, <1>4, <1>5, <1>6 DEF IInv

-----------------------------------------------------------------------------
\* The objects a flush seals: live ones, in ascending order.
LiveObjects(os) ==
  /\ os \in Seq(1 .. Len(states)) /\ Len(os) # 0
  /\ \A i \in 1 .. Len(os) : collector[states[os[i]].session] = os[i]
  /\ \A i, j \in 1 .. Len(os) : i < j => os[i] < os[j]

\* A receipt keeps its bond with its object while the heap only grows or
\* changes in dispositions, run, outcome or prevHash.
LEMMA ReceiptStable ==
  ASSUME NEW r, Receipt(r), Len(states) \in Nat, Len(states)' \in Nat,
         Len(states) <= Len(states)', states[r.obj].session = states'[r.obj].session
  PROVE  Receipt(r)'
BY DEF Receipt

\* What a synchronous flush of the n objects os appends to the m receipts there
\* were, what it writes, and what it drops from the collector.
Mints(os, n, m) ==
  /\ \A i \in 1 .. n : os[i] \in 1 .. Len(states)
  /\ IsSeq(minted') /\ Len(minted)' = m + n /\ m + n <= MaxReceipts[backend]
  /\ \A i \in 1 .. m : minted'[i] = minted[i]
  /\ \A i \in 1 .. n : minted'[m + i] = Mint(os[i], "sync")
  /\ \A w \in writes' : w \in writes \/ \E i \in 1 .. n : w \in Unawaited(Mint(os[i], "sync"))
  /\ genesisHash' = genesisHash \/ genesisHash' = minted'[m + n].hash
  /\ ~backend => genesisHash' = minted'[m + n].hash
  /\ collector' = [s \in Sessions |->
        IF s \in {states[os[i]].session : i \in 1 .. n} THEN 0 ELSE collector[s]]
  /\ UNCHANGED <<states, now, backend, flushing, table, tip, overlapped, raced>>

LEMMA FlushSyncMints ==
  ASSUME NEW os, LiveObjects(os), IInv, FlushSync(os),
         NEW n \in Nat, n = Len(os), NEW m \in Nat, m = Len(minted)
  PROVE  n # 0 /\ Mints(os, n, m)
<1> DEFINE fresh == Sealed(os)
<1>1. n # 0 /\ \A i \in 1 .. n : os[i] \in 1 .. Len(states) BY DEF LiveObjects
<1>2. /\ IsSeq(fresh) /\ Len(fresh) = n
      /\ \A i \in 1 .. n : fresh[i] = Mint(os[i], "sync")
  <2> DEFINE T == {Mint(os[i], "sync") : i \in 1 .. n}
  <2>1. fresh = [i \in 1 .. n |-> Mint(os[i], "sync")] BY DEF Sealed
  <2> HIDE DEF fresh
  <2>2. fresh \in [1 .. n -> T] BY <2>1
  <2> HIDE DEF T
  <2>3. fresh \in Seq(T) /\ Len(fresh) = n BY <1>1, <2>2
  <2> QED BY <2>1, <2>3 DEF IsSeq
<1>3. /\ minted' = minted \o fresh /\ m + n <= MaxReceipts[backend]
      /\ \A w \in writes' : w \in writes \/ \E i \in 1 .. n : w \in Unawaited(fresh[i])
      /\ genesisHash' = genesisHash \/ genesisHash' = fresh[n].hash
      /\ ~backend => genesisHash' = fresh[n].hash
  BY DEF FlushSync
<1> HIDE DEF fresh
<1>4. /\ IsSeq(minted') /\ Len(minted)' = m + n
      /\ \A i \in 1 .. m : minted'[i] = minted[i]
      /\ \A i \in 1 .. n : minted'[m + i] = fresh[i]
  <2>1. IsSeq(minted) BY DEF IInv, Shape
  <2>2. /\ IsSeq(minted \o fresh) /\ Len(minted \o fresh) = m + n
        /\ \A i \in 1 .. m : (minted \o fresh)[i] = minted[i]
        /\ \A i \in 1 .. n : (minted \o fresh)[m + i] = fresh[i]
    BY <2>1, <1>2, <1>1, ConcatSeq, SMTT(20)
  <2> QED BY <2>2, <1>3
<1>5. \A w \in writes' : w \in writes \/ \E i \in 1 .. n : w \in Unawaited(Mint(os[i], "sync"))
  BY <1>2, <1>3
<1>6. /\ collector' = [s \in Sessions |->
            IF s \in {states[os[i]].session : i \in 1 .. n} THEN 0 ELSE collector[s]]
      /\ UNCHANGED <<states, now, backend, flushing, table, tip, overlapped, raced>>
  BY DEF FlushSync, history
<1> QED BY <1>1, <1>2, <1>3, <1>4, <1>5, <1>6 DEF Mints

LEMMA FlushSyncPreserves ==
  ASSUME NEW os, LiveObjects(os), IInv, FlushSync(os)
  PROVE  IInv'
<1>0. PICK n \in Nat, m \in Nat : n = Len(os) /\ m = Len(minted)
  <2>1. Len(os) \in Nat BY DEF LiveObjects
  <2>2. Len(minted) \in Nat BY AppendSeq DEF IInv, Shape
  <2> QED BY <2>1, <2>2
<1>a. n # 0 /\ Mints(os, n, m) BY <1>0, FlushSyncMints
<1>n. n = Len(os) /\ m = Len(minted) /\ n # 0 /\ \A i \in 1 .. n : os[i] \in 1 .. Len(states)
  BY <1>0, <1>a DEF Mints
<1>e. /\ \A w \in writes' : w \in writes \/ \E i \in 1 .. n : w \in Unawaited(Mint(os[i], "sync"))
      /\ genesisHash' = genesisHash \/ genesisHash' = minted'[m + n].hash
      /\ ~backend => genesisHash' = minted'[m + n].hash
  BY <1>a DEF Mints
<1>m. /\ IsSeq(minted') /\ m \in Nat /\ Len(minted)' = m + n
      /\ \A i \in 1 .. m : minted'[i] = minted[i]
      /\ \A i \in 1 .. n : minted'[m + i] = Mint(os[i], "sync")
  BY <1>a DEF Mints
<1>u. UNCHANGED <<states, now, backend, flushing, table, tip, overlapped, raced>>
  BY <1>a DEF Mints
<1>c. /\ collector' \in [Sessions -> 0 .. Len(states)]
      /\ \A s \in Sessions : collector'[s] = 0 \/ collector'[s] = collector[s]
      /\ \A i \in 1 .. n : collector'[states[os[i]].session] = 0
  BY <1>a, <1>n DEF Mints, IInv, Shape
<1>1. Shape'
  BY <1>m, <1>u, <1>c DEF IInv, Shape
<1>x. \A i \in 1 .. n : LET r == Mint(os[i], "sync") IN
        /\ r.obj = os[i] /\ r.how = "sync" /\ r.body.session = states[os[i]].session
        /\ r.hash = HashReceiptWithoutHash(r.body)
        /\ r.body.prevHash = states[os[i]].prevHash
        /\ Current(r).body = r.body
  BY DEF Mint, MintOn, GenerateReceipt, Body, Current
<1>2. Receipts'
  <2> SUFFICES ASSUME NEW k \in 1 .. m + n
               PROVE  Receipt(minted[k])' /\ Settled(minted[k])'
    BY <1>m DEF Receipts
  <2>1. CASE k \in 1 .. m
    <3>1. Receipt(minted[k]) /\ Settled(minted[k]) BY <2>1, <1>n DEF IInv, Receipts
    <3>2. minted[k].body.session \in Sessions BY <3>1 DEF Receipt, IInv, Shape
    <3> QED BY <2>1, <3>1, <3>2, <1>m, <1>u, <1>c, SMTT(20) DEF Receipt, Settled, Current
  <2>2. CASE k \notin 1 .. m
    <3>1. PICK i \in 1 .. n : k = m + i
      <4>1. k - m \in 1 .. n /\ k = m + (k - m) BY <2>2
      <4> QED BY <4>1
    <3>2. minted'[k] = Mint(os[i], "sync") BY <3>1, <1>m
    <3>3. Receipt(minted[k])' BY <3>2, <1>x, <1>u, <1>n DEF Receipt
    <3>4. Settled(minted[k])' BY <3>2, <1>x, <1>u, <1>n, <1>c, SMTT(20) DEF Settled, Current
    <3> QED BY <3>3, <3>4
  <2> QED BY <2>1, <2>2
<1>3. InFlight'
  <2>1. \A w \in writes' : \E i \in 1 .. m + n : w.receipt = minted'[i]
    <3> SUFFICES ASSUME NEW w \in writes' PROVE \E i \in 1 .. m + n : w.receipt = minted'[i]
      OBVIOUS
    <3>1. CASE w \in writes BY <3>1, <1>m, <1>n DEF IInv, InFlight
    <3>2. CASE w \notin writes
      <4>1. PICK i \in 1 .. n : w \in Unawaited(Mint(os[i], "sync"))
        BY <3>2, <1>e
      <4>2. w.receipt = minted'[m + i] BY <4>1, <1>m DEF Unawaited
      <4> QED BY <4>2, <1>m, <1>n
    <3> QED BY <3>1, <3>2
  <2>2. \A c \in Callers : flushing[c].pc \in {"insert", "setGenesis"} =>
          \E i \in 1 .. m + n : flushing[c].receipt = minted'[i]
    BY <1>m, <1>n DEF IInv, InFlight
  <2> QED BY <2>1, <2>2, <1>m, <1>u DEF InFlight, IInv
<1>4. Rows' BY <1>u DEF IInv, Rows
<1>h. \A i \in 1 .. m : MintedHashes(i - 1) \subseteq MintedHashes(i - 1)'
  BY <1>m DEF MintedHashes
<1>5. Ancestry'
  <2>1. MintedHashes(m) \subseteq MintedHashes(m + n)'
    BY <1>m, <1>n DEF MintedHashes
  <2>2. \A k \in 1 .. m + n : Chained(k)'
    <3> SUFFICES ASSUME NEW k \in 1 .. m + n PROVE Chained(k)'
      OBVIOUS
    <3>1. CASE k \in 1 .. m
      <4>1. Chained(k) BY <3>1, <1>n DEF IInv, Ancestry
      <4> QED BY <4>1, <3>1, <1>m, <1>h DEF Chained
    <3>2. CASE k \notin 1 .. m
      <4>1. PICK i \in 1 .. n : k = m + i
        <5>1. k - m \in 1 .. n /\ k = m + (k - m) BY <3>2
        <5> QED BY <5>1
      <4>2. minted'[k].body.prevHash = states[os[i]].prevHash BY <4>1, <1>m, <1>x
      <4>3. states[os[i]].prevHash \in MintedHashes(m) BY <1>n DEF IInv, Ancestry
      <4>4. MintedHashes(m) \subseteq MintedHashes(k - 1)'
        <5>1. \A j \in 1 .. m : j \in 1 .. k - 1 BY <4>1, <1>m, <1>n
        <5> QED BY <5>1, <1>m DEF MintedHashes
      <4> QED BY <4>2, <4>3, <4>4 DEF Chained
    <3> QED BY <3>1, <3>2
  <2>3. genesisHash' \in MintedHashes(m + n)'
    <3>1. genesisHash' = genesisHash \/ genesisHash' = minted'[m + n].hash
      BY <1>e
    <3>2. CASE genesisHash' = genesisHash BY <3>2, <2>1, <1>n DEF IInv, Ancestry
    <3>3. CASE genesisHash' = minted'[m + n].hash
      <4>1. m + n \in 1 .. m + n BY <1>n
      <4> QED BY <3>3, <4>1 DEF MintedHashes
    <3> QED BY <3>1, <3>2, <3>3
  <2>4. \A o \in 1 .. Len(states) : states[o].prevHash \in MintedHashes(m + n)'
    BY <2>1, <1>n DEF IInv, Ancestry
  <2>5. /\ tip \in MintedHashes(m + n)'
        /\ \A i \in 1 .. Len(table) : table[i].hash \in MintedHashes(m + n)'
    BY <2>1, <1>n DEF IInv, Ancestry
  <2> QED BY <2>2, <2>3, <2>4, <2>5, <1>m, <1>u DEF Ancestry
<1>6. OneTip'
  <2> SUFFICES ASSUME ~backend, ~overlapped
               PROVE  /\ Live' = {}
                      /\ Followed'
                      /\ genesisHash' = minted[Len(minted)]'.hash
    BY <1>u, <1>m DEF IInv, OneTip
  <2> DEFINE s == states[os[1]].session
  <2>1. /\ s = states[os[1]].session /\ 1 \in 1 .. n
        /\ s \in Live /\ collector[s] = os[1] /\ \A u \in Live : u = s
    BY <1>n DEF LiveObjects, IInv, OneTip, Shape, Live
  <2> HIDE DEF s
  <2>2. n = 1
    <3> SUFFICES ASSUME n # 1 PROVE FALSE OBVIOUS
    <3>1. 1 \in 1 .. n /\ 2 \in 1 .. n BY <1>n
    <3>2. os[1] < os[2] BY <3>1, <1>n DEF LiveObjects
    <3>3. states[os[2]].session \in Live BY <3>1, <1>n, SMTT(20) DEF LiveObjects, Live, IInv, Shape
    <3>4. states[os[2]].session = s BY <3>3, <2>1
    <3> QED BY <3>1, <3>2, <3>4, <2>1, <1>n DEF LiveObjects
  <2>3. Live' = {} BY <2>1, <1>c, <2>2 DEF Live
  <2>4. minted'[m + 1].body.prevHash = states[os[1]].prevHash BY <2>2, <1>m, <1>x
  <2>5. states[os[1]].prevHash = genesisHash BY <2>1 DEF IInv, OneTip
  <2>6. Followed'
    <3> SUFFICES ASSUME NEW k \in 2 .. m + 1, minted'[k].how # "override"
                 PROVE  minted'[k].body.prevHash = minted'[k - 1].hash
      BY <2>2, <1>m DEF Followed
    <3>1. CASE k = m + 1
      <4>1. genesisHash = minted[m].hash BY <3>1, <1>n DEF IInv, OneTip
      <4> QED BY <3>1, <4>1, <2>4, <2>5, <1>m
    <3>2. CASE k # m + 1
      <4>1. k \in 2 .. m /\ k \in 1 .. m /\ k - 1 \in 1 .. m BY <3>2, <1>n, SMTT(20)
      <4>2. minted'[k] = minted[k] /\ minted'[k - 1] = minted[k - 1] BY <4>1, <1>m
      <4>3. minted[k].body.prevHash = minted[k - 1].hash
        BY <4>1, <4>2, <1>n DEF IInv, OneTip, Followed
      <4> QED BY <4>2, <4>3
    <3> QED BY <3>1, <3>2
  <2>7. genesisHash' = minted[Len(minted)]'.hash
    BY <1>e, <1>m
  <2> QED BY <2>3, <2>6, <2>7
<1> QED BY <1>1, <1>2, <1>3, <1>4, <1>5, <1>6 DEF IInv

\* A hash a receipt may be sealed on: its caller's, or one there is already.
KnownHash(prev, how) ==
  how # "override" => prev \in MintedHashes(Len(minted)) \cup FromOthers(how)

\* Minting one receipt: what is appended, and that it chains on a known hash.
LEMMA MintOne ==
  ASSUME IInv, NEW o \in 1 .. Len(states), NEW prev, NEW t, NEW how, KnownHash(prev, how),
         NEW r, r = MintOn(o, prev, t, how),
         minted' = Append(minted, r), UNCHANGED <<states, table, tip>>,
         genesisHash' = genesisHash \/ genesisHash' = r.hash
  PROVE  /\ IsSeq(minted)' /\ Len(minted) \in Nat /\ Len(minted)' = Len(minted) + 1
         /\ \A i \in 1 .. Len(minted) : minted'[i] = minted[i]
         /\ minted'[Len(minted) + 1] = r
         /\ Receipt(r) /\ r.obj = o /\ r.how = how
         /\ r.body.session = states[o].session /\ r.body.prevHash = prev
         /\ r.body.guards = states[o].guards /\ r.body.outcome = states[o].outcome
         /\ Current(r).body = r.body
         /\ Ancestry'
<1>0. PICK m \in Nat : m = Len(minted) BY AppendSeq DEF IInv, Shape
<1>1. /\ IsSeq(minted)' /\ Len(minted)' = m + 1
      /\ \A i \in 1 .. m : minted'[i] = minted[i]
      /\ minted'[m + 1] = r
  BY <1>0, AppendSeq DEF IInv, Shape
<1>2. /\ Receipt(r) /\ r.obj = o /\ r.how = how
      /\ r.body.session = states[o].session /\ r.body.prevHash = prev
      /\ r.body.guards = states[o].guards /\ r.body.outcome = states[o].outcome
      /\ Current(r).body = r.body
  BY DEF MintOn, GenerateReceipt, Body, Current, Receipt
<1>3. \A j \in 0 .. m : MintedHashes(j) \subseteq MintedHashes(j)'
  BY <1>1 DEF MintedHashes
<1>s. MintedHashes(m)' \subseteq MintedHashes(m + 1)' BY <1>1 DEF MintedHashes
<1>4. \A k \in 1 .. m + 1 : Chained(k)'
  <2> SUFFICES ASSUME NEW k \in 1 .. m + 1 PROVE Chained(k)'
    OBVIOUS
  <2>1. CASE k \in 1 .. m
    <3>1. Chained(k) BY <2>1, <1>0 DEF IInv, Ancestry
    <3>2. k - 1 \in 0 .. m /\ minted'[k] = minted[k] BY <2>1, <1>1
    <3> QED BY <3>1, <3>2, <1>3 DEF Chained
  <2>2. CASE k = m + 1
    <3>1. k - 1 = m /\ m \in 0 .. m BY <2>2
    <3>2. how # "override" => prev \in MintedHashes(m)' \cup FromOthers(how)
      BY <3>1, <1>0, <1>3 DEF KnownHash
    <3> QED BY <2>2, <3>1, <3>2, <1>1, <1>2 DEF Chained
  <2> QED BY <2>1, <2>2
<1>5. genesisHash' \in MintedHashes(m + 1)'
  <2>1. CASE genesisHash' = genesisHash BY <2>1, <1>3, <1>s, <1>0 DEF IInv, Ancestry
  <2>2. CASE genesisHash' = minted'[m + 1].hash
    <3>1. m + 1 \in 1 .. m + 1 OBVIOUS
    <3> QED BY <2>2, <3>1 DEF MintedHashes
  <2> QED BY <2>1, <2>2, <1>1
<1>6. /\ \A q \in 1 .. Len(states) : states[q].prevHash \in MintedHashes(m + 1)'
      /\ tip \in MintedHashes(m + 1)'
      /\ \A q \in 1 .. Len(table) : table[q].hash \in MintedHashes(m + 1)'
  BY <1>3, <1>s, <1>0 DEF IInv, Ancestry
<1>7. Ancestry' BY <1>1, <1>4, <1>5, <1>6 DEF Ancestry
<1> QED BY <1>0, <1>1, <1>2, <1>7

\* A flush seals the object's own prevHash or its caller's.
LEMMA MintForMints ==
  ASSUME IInv, NEW o \in 1 .. Len(states), NEW override
  PROVE  \E prev, how : /\ MintFor(o, override) = MintOn(o, prev, now, how)
                        /\ KnownHash(prev, how) /\ how \in {"await", "override"}
                        /\ how = "await" => prev = states[o].prevHash
<1>1. CASE override = NoOverride
  <2>1. MintFor(o, override) = MintOn(o, states[o].prevHash, now, "await")
    BY <1>1 DEF MintFor, Mint
  <2>2. KnownHash(states[o].prevHash, "await") BY DEF KnownHash, IInv, Ancestry
  <2> QED BY <2>1, <2>2
<1>2. CASE override # NoOverride
  <2>1. MintFor(o, override) = MintOn(o, override, now, "override") BY <1>2 DEF MintFor
  <2>2. KnownHash(override, "override") BY DEF KnownHash
  <2> QED BY <2>1, <2>2
<1> QED BY <1>1, <1>2

LEMMA FlushInMemoryPreserves ==
  ASSUME NEW s \in Sessions, NEW override, IInv, FlushInMemory(s, override)
  PROVE  IInv'
<1> DEFINE o == collector[s]
           r == MintFor(o, override)
<1>0. PICK m \in Nat : m = Len(minted) BY AppendSeq DEF IInv, Shape
<1>1. /\ o \in 1 .. Len(states) /\ states[o].session = s /\ s \in Live /\ ~backend
      /\ minted' = Append(minted, r) /\ genesisHash' = r.hash
      /\ collector' = [collector EXCEPT ![s] = 0]
      /\ UNCHANGED <<states, now, backend, flushing, writes, table, tip, overlapped, raced>>
  BY DEF FlushInMemory, IInv, Shape, Live, database, history
<1>a. PICK prev, how : /\ r = MintOn(o, prev, now, how)
                       /\ KnownHash(prev, how) /\ how \in {"await", "override"}
                       /\ how = "await" => prev = states[o].prevHash
  BY <1>1, MintForMints
<1> HIDE DEF r
<1>2. /\ IsSeq(minted)' /\ Len(minted)' = m + 1
      /\ \A i \in 1 .. m : minted'[i] = minted[i]
      /\ minted'[m + 1] = r
      /\ Receipt(r) /\ r.obj = o /\ r.body.session = s /\ r.how = how
      /\ r.body.prevHash = prev /\ Current(r).body = r.body
      /\ Ancestry'
  BY <1>0, <1>1, <1>a, MintOne
<1>3. Shape' BY <1>1, <1>2 DEF IInv, Shape
<1>4. Receipts'
  <2> SUFFICES ASSUME NEW k \in 1 .. m + 1
               PROVE  Receipt(minted[k])' /\ Settled(minted[k])'
    BY <1>2 DEF Receipts
  <2>1. CASE k = m + 1
    <3>1. Receipt(minted[k])' BY <2>1, <1>1, <1>2 DEF Receipt
    <3>2. Settled(minted[k])' BY <2>1, <1>1, <1>2, <3>1 DEF Settled, Current, IInv, Shape
    <3> QED BY <3>1, <3>2
  <2>2. CASE k \in 1 .. m
    <3>1. Receipt(minted[k]) /\ Settled(minted[k]) BY <2>2, <1>0 DEF IInv, Receipts
    <3>2. minted[k].body.session \in Sessions BY <3>1 DEF Receipt, IInv, Shape
    <3>3. collector'[minted[k].body.session] \in {0, collector[minted[k].body.session]}
      BY <1>1, <3>2 DEF IInv, Shape
    <3>4. Receipt(minted[k])' BY <3>1, <2>2, <1>1, <1>2 DEF Receipt
    <3>5. Settled(minted[k])'
      BY <3>1, <3>3, <2>2, <1>1, <1>2 DEF Settled, Current, Receipt
    <3> QED BY <3>4, <3>5
  <2> QED BY <2>1, <2>2
<1>5. InFlight' BY <1>0, <1>1, <1>2 DEF IInv, InFlight
<1>6. Rows' BY <1>1 DEF IInv, Rows
<1>7. OneTip'
  <2> SUFFICES ASSUME ~overlapped
               PROVE  Live' = {} /\ Followed' /\ genesisHash' = minted'[m + 1].hash
    BY <1>1, <1>2 DEF IInv, OneTip
  <2>1. \A u \in Live : u = s BY <1>1 DEF IInv, OneTip
  <2>2. Live' = {} BY <2>1, <1>1 DEF Live, IInv, Shape
  <2>3. r.how # "override" => r.body.prevHash = genesisHash
    BY <1>1, <1>2, <1>a DEF IInv, OneTip
  <2>4. Followed'
    <3> SUFFICES ASSUME NEW k \in 2 .. m + 1, minted'[k].how # "override"
                 PROVE  minted'[k].body.prevHash = minted'[k - 1].hash
      BY <1>2 DEF Followed
    <3>1. CASE k = m + 1
      <4>1. m \in 1 .. m /\ m \in Nat /\ k - 1 = m BY <3>1, <1>0
      <4>2. genesisHash = minted[m].hash BY <4>1, <1>0, <1>1 DEF IInv, OneTip
      <4> QED BY <3>1, <4>1, <4>2, <2>3, <1>2
    <3>2. CASE k # m + 1
      <4>1. k \in 2 .. m /\ k \in 1 .. m /\ k - 1 \in 1 .. m BY <3>2, <1>0
      <4>2. Followed BY <1>1 DEF IInv, OneTip
      <4>3. minted[k].body.prevHash = minted[k - 1].hash BY <4>1, <4>2, <1>0, <1>2 DEF Followed
      <4> QED BY <4>1, <4>3, <1>2
    <3> QED BY <3>1, <3>2
  <2> QED BY <2>2, <2>4, <1>1, <1>2
<1> QED BY <1>2, <1>3, <1>4, <1>5, <1>6, <1>7 DEF IInv

\* A receipt sealed while its session counts as raced, on its way to be inserted.
LEMMA AwaitedMintPreserves ==
  ASSUME NEW c \in Callers, IInv, backend, NEW o \in 1 .. Len(states),
         NEW prev, NEW t, NEW how, KnownHash(prev, how), NEW r, r = MintOn(o, prev, t, how),
         minted' = Append(minted, r), states[o].session \in raced', raced \subseteq raced',
         flushing' = [flushing EXCEPT ![c] = [pc |-> "insert", receipt |-> r]],
         UNCHANGED <<states, collector, genesisHash, now, backend, writes, table, tip, overlapped>>
  PROVE  IInv'
<1>0. PICK m \in Nat : m = Len(minted) BY AppendSeq DEF IInv, Shape
<1>2. /\ IsSeq(minted)' /\ Len(minted)' = m + 1
      /\ \A i \in 1 .. m : minted'[i] = minted[i]
      /\ minted'[m + 1] = r /\ Receipt(r) /\ r.body.session = states[o].session /\ Ancestry'
  BY <1>0, MintOne
<1>3. Shape' BY <1>2 DEF IInv, Shape
<1>4. Receipts'
  <2> SUFFICES ASSUME NEW k \in 1 .. m + 1
               PROVE  Receipt(minted[k])' /\ Settled(minted[k])'
    BY <1>2 DEF Receipts
  <2>1. CASE k = m + 1 BY <2>1, <1>2 DEF Receipt, Settled
  <2>2. CASE k \in 1 .. m
    <3>1. Receipt(minted[k]) /\ Settled(minted[k]) BY <2>2, <1>0 DEF IInv, Receipts
    <3>2. minted'[k] = minted[k] BY <2>2, <1>2
    <3>3. Receipt(minted[k])' BY <3>1, <3>2 DEF Receipt
    <3>4. Settled(minted[k])' BY <3>1, <3>2 DEF Settled, Current
    <3> QED BY <3>3, <3>4
  <2>3. k = m + 1 \/ k \in 1 .. m OBVIOUS
  <2> QED BY <2>1, <2>2, <2>3, Zenon
<1>5. InFlight'
  <2>1. \A w \in writes' : \E i \in 1 .. m + 1 : w.receipt = minted'[i]
    BY <1>0, <1>2 DEF IInv, InFlight
  <2>d. \A d \in Callers : flushing'[d] = [pc |-> "insert", receipt |-> r] \/ flushing'[d] = flushing[d]
    BY DEF IInv, Shape
  <2>2. ASSUME NEW d \in Callers, flushing'[d].pc \in {"insert", "setGenesis"}
        PROVE  \E i \in 1 .. m + 1 : flushing'[d].receipt = minted'[i]
    <3>1. CASE flushing'[d] = [pc |-> "insert", receipt |-> r]
      <4>1. flushing'[d].receipt = minted'[m + 1] BY <3>1, <1>2
      <4>2. m + 1 \in 1 .. m + 1 OBVIOUS
      <4> QED BY <4>1, <4>2, Zenon
    <3>2. CASE flushing'[d] = flushing[d]
      <4>1. PICK i \in 1 .. m : flushing[d].receipt = minted[i]
        BY <2>2, <3>2, <1>0 DEF IInv, InFlight
      <4>2. i \in 1 .. m + 1 /\ minted'[i] = minted[i] BY <1>2
      <4> QED BY <3>2, <4>1, <4>2
    <3> QED BY <3>1, <3>2, <2>d
  <2>3. ASSUME NEW d \in Callers, flushing'[d].pc = "last"
        PROVE  flushing'[d].obj \in 1 .. Len(states) /\ states[flushing'[d].obj].session \in raced'
    <3>1. flushing'[d] = flushing[d] BY <2>3, <2>d
    <3> QED BY <3>1, <2>3 DEF IInv, InFlight
  <2> QED BY <2>1, <2>2, <2>3, <1>2 DEF InFlight
<1>6. Rows' BY DEF IInv, Rows
<1>7. OneTip' BY DEF IInv, OneTip
<1> QED BY <1>2, <1>3, <1>4, <1>5, <1>6, <1>7 DEF IInv

LEMMA FlushBeginPreserves ==
  ASSUME NEW c \in Callers, NEW s \in Sessions, NEW override, IInv, FlushBegin(c, s, override)
  PROVE  IInv'
<1> DEFINE o == collector[s]
           r == MintFor(o, override)
<1>1. /\ o \in 1 .. Len(states) /\ states[o].session = s /\ backend
      /\ minted' = Append(minted, r) /\ raced' = raced \cup {s}
      /\ flushing' = [flushing EXCEPT ![c] = [pc |-> "insert", receipt |-> r]]
      /\ UNCHANGED <<states, collector, genesisHash, now, backend, writes, table, tip, overlapped>>
  BY DEF FlushBegin, IInv, Shape, Live, memory, database
<1>2. PICK prev, how : r = MintOn(o, prev, now, how) /\ KnownHash(prev, how)
  BY <1>1, MintForMints
<1> HIDE DEF r
<1> QED BY <1>1, <1>2, AwaitedMintPreserves

\* A caller that asks for the last hash makes its session count as raced.
LEMMA FlushAsksLastPreserves ==
  ASSUME NEW c \in Callers, NEW s \in Sessions, NEW override, IInv,
         FlushAsksLast(c, s, override)
  PROVE  IInv'
<1> DEFINE o == collector[s]
           ask == [pc |-> "last", obj |-> o, builtAt |-> now]
<1>1. /\ o \in 1 .. Len(states) /\ states[o].session = s /\ backend
      /\ raced' = raced \cup {s} /\ flushing' = [flushing EXCEPT ![c] = ask]
      /\ UNCHANGED <<states, collector, genesisHash, backend, minted, writes, table, tip, overlapped>>
  BY DEF FlushAsksLast, IInv, Shape, Live, memory, database
<1>2. \A d \in Callers : flushing'[d] = ask \/ flushing'[d] = flushing[d]
  BY <1>1 DEF IInv, Shape
<1>3. Shape' BY <1>1 DEF IInv, Shape
<1>4. Receipts' /\ Rows' /\ Ancestry' /\ OneTip'
  BY <1>1 DEF IInv, Receipts, Receipt, Settled, Current, Rows, Ancestry, Chained, MintedHashes, OneTip
<1>5. InFlight'
  <2>1. \A d \in Callers : flushing'[d].pc \in {"insert", "setGenesis"} => flushing'[d] = flushing[d]
    BY <1>2
  <2>2. ASSUME NEW d \in Callers, flushing'[d].pc = "last"
        PROVE  flushing'[d].obj \in 1 .. Len(states) /\ states[flushing'[d].obj].session \in raced'
    BY <2>2, <1>1, <1>2 DEF IInv, InFlight
  <2> QED BY <2>1, <2>2, <1>1 DEF IInv, InFlight
<1> QED BY <1>3, <1>4, <1>5 DEF IInv

\* What the backend answers is known: its rows and its tip are.
LEMMA LastHashIsKnown ==
  ASSUME IInv, NEW h \in LastReceiptHashes
  PROVE  KnownHash(h, "last")
BY DEF LastReceiptHashes, KnownHash, FromOthers, IInv, Ancestry

LEMMA FlushLastPreserves ==
  ASSUME NEW c \in Callers, IInv, FlushLast(c)
  PROVE  IInv'
<1> DEFINE o == flushing[c].obj
<1>1. /\ o \in 1 .. Len(states) /\ states[o].session \in raced /\ backend
      /\ UNCHANGED <<states, collector, genesisHash, now, backend, writes, table, tip, overlapped, raced>>
  BY DEF FlushLast, IInv, InFlight, OneTip, memory, database, history
<1>2. PICK h \in LastReceiptHashes :
        LET r == MintOn(o, h, flushing[c].builtAt, "last")
        IN  /\ minted' = Append(minted, r)
            /\ flushing' = [flushing EXCEPT ![c] = [pc |-> "insert", receipt |-> r]]
  BY DEF FlushLast
<1>3. KnownHash(h, "last") BY LastHashIsKnown
<1> QED BY <1>1, <1>2, <1>3, AwaitedMintPreserves

\* What an event of session s leaves of the n objects there were: one object of
\* the session, opened on the tip if there was none, and the others untouched.
Collected(s, n) ==
  /\ IsSeq(states)' /\ Len(states)' \in Nat /\ n <= Len(states)'
  /\ collector' \in [Sessions -> 0 .. Len(states)']
  /\ \A u \in Sessions \ {s} : collector'[u] = collector[u]
  /\ collector[s] # 0 => collector'[s] = collector[s]
  /\ collector[s] = 0 => collector'[s] = n + 1
  /\ collector'[s] # 0 /\ states'[collector'[s]].session = s
  /\ \A o \in 1 .. n : o # collector[s] => states'[o] = states[o]
  /\ \A o \in 1 .. n : /\ states'[o].session = states[o].session
                     /\ states'[o].prevHash = states[o].prevHash
  /\ \A o \in 1 .. Len(states)' : o \notin 1 .. n =>
       o = collector'[s] /\ states'[o].session = s /\ states'[o].prevHash = genesisHash
  /\ states'[collector'[s]].outcome \in Outcomes
  /\ Len(states)' = n \/ (Len(states)' = n + 1 /\ n < MaxStates[backend])

LEMMA PolicyCollects ==
  ASSUME NEW s \in Sessions, NEW ev \in Events, IInv, OnPolicyEvaluate(s, ev),
         NEW n \in Nat, n = Len(states)
  PROVE  Collected(s, n)
<1>1. CASE collector[s] # 0
  <2> DEFINE x == collector[s]
  <2>1. x \in 1 .. n /\ states[x].session = s BY <1>1 DEF IInv, Shape
  <2>2. states' = [states EXCEPT ![x] = Recorded(states[x], ev)] /\ collector' = collector
    BY <1>1 DEF OnPolicyEvaluate
  <2>3. /\ Recorded(states[x], ev).session = states[x].session
        /\ Recorded(states[x], ev).prevHash = states[x].prevHash
        /\ Recorded(states[x], ev).outcome \in Outcomes
    BY DEF Recorded, OutcomeFromDisposition, Outcomes
  <2>4. PICK S : states \in Seq(S) BY DEF IInv, Shape, IsSeq
  <2>5. states \in Seq(S \cup {Recorded(states[x], ev)}) BY <2>4, SeqMonotonic
  <2>6. states' \in Seq(S \cup {Recorded(states[x], ev)}) /\ Len(states') = n
    BY <2>1, <2>2, <2>5, ExceptSeq
  <2>7. \A o \in 1 .. n : states'[o] = IF o = x THEN Recorded(states[x], ev) ELSE states[o]
    BY <2>1, <2>2, <2>5, ExceptSeq
  <2> QED BY <2>1, <2>2, <2>3, <2>6, <2>7, <1>1 DEF Collected, IsSeq, IInv, Shape
<1>2. CASE collector[s] = 0
  <2> DEFINE st == Recorded(FreshState(s, ev), ev)
  <2>1. states' = Append(states, st) /\ collector' = [collector EXCEPT ![s] = n + 1]
        /\ n < MaxStates[backend]
    BY <1>2 DEF OnPolicyEvaluate
  <2>2. st.session = s /\ st.prevHash = genesisHash /\ st.outcome \in Outcomes
    BY DEF Recorded, FreshState, OutcomeFromDisposition, Outcomes
  <2> HIDE DEF st
  <2>3. /\ IsSeq(states') /\ Len(states') = n + 1 /\ states'[n + 1] = st
        /\ \A o \in 1 .. n : states'[o] = states[o]
    BY <2>1, AppendSeq DEF IInv, Shape
  <2> QED BY <2>1, <2>2, <2>3, <1>2 DEF Collected, IInv, Shape
<1> QED BY <1>1, <1>2

\* An event touches the dispositions of its session's live object only, or
\* opens an object whose prevHash is the tip.
LEMMA PolicyPreserves ==
  ASSUME NEW s \in Sessions, NEW ev \in Events, IInv, OnPolicyEvaluate(s, ev)
  PROVE  IInv'
<1>0. PICK n \in Nat : n = Len(states) BY AppendSeq DEF IInv, Shape
<1>1. /\ UNCHANGED <<genesisHash, now, backend, minted, flushing, writes, table, tip, raced>>
      /\ overlapped' = (overlapped \/ Live \ {s} # {})
  BY DEF OnPolicyEvaluate, database
<1>2. Collected(s, n) BY <1>0, PolicyCollects
<1> USE DEF Collected
<1>3. Shape'
  <2>1. \A u \in Sessions : collector'[u] # 0 => states'[collector'[u]].session = u
    <3> SUFFICES ASSUME NEW u \in Sessions \ {s}, collector[u] # 0
                 PROVE  states'[collector[u]].session = u
      BY <1>2
    <3>1. collector[u] \in 1 .. n /\ states[collector[u]].session = u
      BY <1>0 DEF IInv, Shape
    <3> QED BY <3>1, <1>2
  <2>2. \A o \in 1 .. Len(states)' : states'[o].session \in Sessions
    BY <1>2, <1>0 DEF IInv, Shape
  <2> QED BY <2>1, <2>2, <1>1, <1>2 DEF IInv, Shape
<1>4. Receipts'
  <2> SUFFICES ASSUME NEW k \in 1 .. Len(minted)
               PROVE  Receipt(minted[k])' /\ Settled(minted[k])'
    BY <1>1 DEF Receipts
  <2> DEFINE r == minted[k]
  <2>1. Receipt(r) /\ Settled(r) BY DEF IInv, Receipts
  <2>2. r.obj \in 1 .. n /\ r.body.session \in Sessions
    BY <2>1, <1>0 DEF Receipt, IInv, Shape
  <2>3. Receipt(r)' BY <2>1, <2>2, <1>0, <1>1, <1>2 DEF Receipt
  <2>4. ASSUME r.body.session \notin raced PROVE r.obj # collector[s]
    BY <2>1, <2>4, <1>0, <2>2 DEF Receipt, Settled, IInv, Shape
  <2>5. Settled(r)'
    BY <2>1, <2>2, <2>4, <1>0, <1>1, <1>2, SMTT(20) DEF Settled, Current, Receipt
  <2> QED BY <2>3, <2>5
<1>5. Rows' BY <1>1 DEF IInv, Rows
<1>i. InFlight'
  <2>1. ASSUME NEW c \in Callers, flushing[c].pc = "last"
        PROVE  flushing[c].obj \in 1 .. Len(states)' /\ states'[flushing[c].obj].session \in raced
    <3>1. flushing[c].obj \in 1 .. n /\ states[flushing[c].obj].session \in raced
      BY <2>1, <1>0 DEF IInv, InFlight
    <3> QED BY <3>1, <1>2
  <2> QED BY <2>1, <1>1 DEF IInv, InFlight
<1>6. Ancestry'
  <2>1. \A j : MintedHashes(j)' = MintedHashes(j) /\ Chained(j)' = Chained(j)
    BY <1>1 DEF MintedHashes, Chained
  <2>2. \A o \in 1 .. Len(states)' : states'[o].prevHash \in MintedHashes(Len(minted))
    BY <1>0, <1>2 DEF IInv, Ancestry
  <2> QED BY <2>1, <2>2, <1>1 DEF IInv, Ancestry, MintedHashes
<1>7. OneTip'
  <2> SUFFICES ASSUME ~backend, ~overlapped, Live \ {s} = {}
               PROVE  /\ \A u, v \in Live' : u = v
                      /\ \A u \in Live' : states'[collector'[u]].prevHash = genesisHash
    BY <1>1 DEF IInv, OneTip, Followed, Live
  <2>1. \A u \in Live' : u = s BY <1>2 DEF Live
  <2>2. states'[collector'[s]].prevHash = genesisHash
    BY <1>0, <1>2 DEF IInv, OneTip, Live, Shape
  <2> QED BY <2>1, <2>2
<1> QED BY <1>3, <1>4, <1>5, <1>i, <1>6, <1>7 DEF IInv

\* Appending an intact row keeps the table intact.
LEMMA StoredRowIntact ==
  ASSUME IsSeq(table), NEW r, r.body.session \notin raced => ContentHashHolds(r),
         \A i \in 1 .. Len(table) : table[i].body.session \notin raced => ContentHashHolds(table[i])
  PROVE  /\ IsSeq(Append(table, r))
         /\ \A i \in 1 .. Len(Append(table, r)) :
              Append(table, r)[i].body.session \notin raced => ContentHashHolds(Append(table, r)[i])
<1> DEFINE q == Append(table, r)
<1>1. PICK n \in Nat : n = Len(table) BY AppendSeq
<1>2. IsSeq(q) /\ Len(q) = n + 1 /\ q[n + 1] = r /\ \A i \in 1 .. n : q[i] = table[i]
  BY <1>1, AppendSeq
<1> HIDE DEF q
<1>3. \A i \in 1 .. Len(q) : q[i].body.session \notin raced => ContentHashHolds(q[i])
  BY <1>1, <1>2
<1> QED BY <1>2, <1>3 DEF q

\* Storing a minted receipt, and moving the tip to one, keeps the ancestry.
LEMMA DatabaseKeepsAncestry ==
  ASSUME IInv, UNCHANGED <<states, minted, genesisHash>>, NEW i \in 1 .. Len(minted),
         tip' = tip \/ tip' = minted[i].hash,
         table' = table \/ table' = Append(table, Current(minted[i]))
  PROVE  Ancestry'
<1>1. \A j : MintedHashes(j)' = MintedHashes(j) /\ Chained(j)' = Chained(j)
  BY DEF MintedHashes, Chained
<1>2. minted[i].hash \in MintedHashes(Len(minted)) BY DEF MintedHashes
<1>3. \A k \in 1 .. Len(table') : table'[k].hash \in MintedHashes(Len(minted))
  <2>1. CASE table' = table BY <2>1 DEF IInv, Ancestry
  <2>2. CASE table' = Append(table, Current(minted[i]))
    <3>1. PICK n \in Nat : n = Len(table) BY AppendSeq DEF IInv, Rows
    <3>2. /\ Len(table') = n + 1 /\ table'[n + 1] = Current(minted[i])
          /\ \A k \in 1 .. n : table'[k] = table[k]
      BY <2>2, <3>1, AppendSeq DEF IInv, Rows
    <3>3. Current(minted[i]).hash = minted[i].hash BY DEF Current
    <3>4. \A k \in 1 .. n + 1 : k \in 1 .. n \/ k = n + 1 OBVIOUS
    <3> QED BY <3>1, <3>2, <3>3, <3>4, <1>2 DEF IInv, Ancestry
  <2> QED BY <2>1, <2>2
<1> QED BY <1>1, <1>2, <1>3 DEF IInv, Ancestry

\* An unawaited insert stores a receipt whose session had been flushed.
LEMMA UnawaitedInsertPreserves ==
  ASSUME NEW w \in writes, IInv, UnawaitedInsert(w)
  PROVE  IInv'
<1>1. /\ writes' = writes \ {w}
      /\ table' = Append(table, Current(w.receipt)) \/ table' = table
      /\ UNCHANGED <<states, collector, genesisHash, now, backend, minted, flushing, tip,
                     overlapped, raced>>
  BY DEF UnawaitedInsert, memory, history
<1>2. PICK i \in 1 .. Len(minted) : w.receipt = minted[i] BY DEF IInv, InFlight
<1>3. w.receipt.body.session \notin raced => ContentHashHolds(Current(w.receipt))
  BY <1>2 DEF IInv, Receipts, Receipt, Settled, ContentHashHolds, Current
<1>4. Current(w.receipt).body.session = w.receipt.body.session BY DEF Current
<1>5. Rows' BY <1>1, <1>3, <1>4, StoredRowIntact DEF IInv, Rows
<1>6. Shape' /\ InFlight'
  BY <1>1 DEF IInv, Shape, InFlight
<1>7. Receipts'
  BY <1>1, Zenon DEF IInv, Receipts, Receipt, Settled, Current
<1>8. Ancestry' /\ OneTip'
  <2>1. Ancestry' BY <1>1, <1>2, DatabaseKeepsAncestry
  <2> QED BY <2>1, <1>1 DEF IInv, OneTip, Followed, Live
<1> QED BY <1>5, <1>6, <1>7, <1>8 DEF IInv

LEMMA UnawaitedSetGenesisPreserves ==
  ASSUME NEW w \in writes, IInv, UnawaitedSetGenesis(w)
  PROVE  IInv'
<1>1. /\ writes' = writes \ {w}
      /\ tip' = tip \/ tip' = w.receipt.hash
      /\ UNCHANGED <<states, collector, genesisHash, now, backend, minted, flushing, table,
                     overlapped, raced>>
  BY DEF UnawaitedSetGenesis, memory, history
<1>2. PICK i \in 1 .. Len(minted) : w.receipt = minted[i] BY DEF IInv, InFlight
<1>3. Ancestry' BY <1>1, <1>2, DatabaseKeepsAncestry
<1> QED
  BY <1>1, <1>3 DEF IInv, Shape, Receipts, Receipt, Settled, Current, InFlight, Rows,
                    OneTip, Followed, Live

\* The awaited insert stores a receipt of a session that counts as raced.
LEMMA FlushInsertPreserves ==
  ASSUME NEW c \in Callers, IInv, FlushInsert(c)
  PROVE  IInv'
<1> DEFINE r == flushing[c].receipt
<1>1. /\ flushing[c].pc = "insert"
      /\ table' = Append(table, Current(r))
      /\ flushing' = [flushing EXCEPT ![c] = [pc |-> "setGenesis", receipt |-> r]]
      /\ UNCHANGED <<states, collector, genesisHash, now, backend, minted, writes, tip,
                     overlapped, raced>>
  BY DEF FlushInsert, memory, history
<1>2. PICK i \in 1 .. Len(minted) : r = minted[i] BY <1>1 DEF IInv, InFlight
<1>3. r.body.session \notin raced => ContentHashHolds(Current(r))
  BY <1>2 DEF IInv, Receipts, Receipt, Settled, ContentHashHolds, Current
<1>4. Current(r).body.session = r.body.session BY DEF Current
<1>d. r = flushing[c].receipt OBVIOUS
<1> HIDE DEF r
<1>5. Rows' BY <1>1, <1>3, <1>4, StoredRowIntact DEF IInv, Rows
<1>s. Shape' BY <1>1 DEF IInv, Shape
<1>6. Receipts' /\ OneTip'
  BY <1>1 DEF IInv, Receipts, Receipt, Settled, Current, OneTip, Followed, Live
<1>a. Ancestry' BY <1>1, <1>2, DatabaseKeepsAncestry
<1>7. \A d \in Callers :
        /\ flushing'[d].pc \in {"insert", "setGenesis"} =>
             /\ flushing'[d].receipt = flushing[d].receipt
             /\ flushing[d].pc \in {"insert", "setGenesis"}
        /\ flushing'[d].pc = "last" => flushing'[d] = flushing[d]
  BY <1>1, <1>d DEF IInv, Shape
<1>8. InFlight' BY <1>1, <1>7 DEF IInv, InFlight
<1> QED BY <1>5, <1>s, <1>6, <1>a, <1>8 DEF IInv

LEMMA FlushFailsPreserves ==
  ASSUME NEW c \in Callers, IInv, FlushFails(c)
  PROVE  IInv'
<1>1. /\ flushing' = [flushing EXCEPT ![c] = Idle]
      /\ UNCHANGED <<states, collector, genesisHash, now, backend, minted, writes, table, tip,
                     overlapped, raced>>
  BY DEF FlushFails, memory, database, history
<1>2. Shape' BY <1>1 DEF IInv, Shape
<1>3. Receipts' /\ Ancestry' /\ OneTip' /\ Rows'
  BY <1>1 DEF IInv, Receipts, Receipt, Settled, Current, Ancestry, Chained, MintedHashes,
              OneTip, Followed, Live, Rows
<1>4. \A d \in Callers : flushing'[d].pc # "idle" => flushing'[d] = flushing[d]
  BY <1>1 DEF IInv, Shape, Idle
<1>5. InFlight' BY <1>1, <1>4 DEF IInv, InFlight
<1> QED BY <1>2, <1>3, <1>5 DEF IInv

LEMMA FlushEndPreserves ==
  ASSUME NEW c \in Callers, IInv, FlushEnd(c)
  PROVE  IInv'
<1> DEFINE s == flushing[c].receipt.body.session
<1>1. /\ flushing[c].pc = "setGenesis" /\ tip' = flushing[c].receipt.hash
      /\ collector' = [collector EXCEPT ![s] = 0]
      /\ flushing' = [flushing EXCEPT ![c] = Idle]
      /\ UNCHANGED <<states, genesisHash, now, backend, minted, writes, table, overlapped, raced>>
  BY DEF FlushEnd, history
<1>i. PICK i \in 1 .. Len(minted) : flushing[c].receipt = minted[i]
  BY <1>1 DEF IInv, InFlight
<1>2. s \in Sessions BY <1>i DEF IInv, Receipts, Receipt, Shape
<1> HIDE DEF s
<1>3. \A u \in Sessions : collector'[u] = 0 \/ collector'[u] = collector[u]
  BY <1>1, <1>2 DEF IInv, Shape
<1>n. Len(states) \in Nat BY AppendSeq DEF IInv, Shape
<1>4. Shape'
  <2>1. collector' \in [Sessions -> 0 .. Len(states)]
    BY <1>n, <1>1, <1>2 DEF IInv, Shape
  <2>2. \A u \in Sessions : collector'[u] # 0 => states[collector'[u]].session = u
    BY <1>3 DEF IInv, Shape
  <2>3. flushing' = [d \in Callers |-> flushing'[d]] BY <1>1 DEF IInv, Shape
  <2> QED BY <1>1, <2>1, <2>2, <2>3 DEF IInv, Shape
<1>5. Receipts'
  <2> SUFFICES ASSUME NEW k \in 1 .. Len(minted)
               PROVE  Receipt(minted[k])' /\ Settled(minted[k])'
    BY <1>1 DEF Receipts
  <2>1. Receipt(minted[k]) /\ Settled(minted[k]) BY DEF IInv, Receipts
  <2>2. minted[k].body.session \in Sessions BY <2>1 DEF Receipt, IInv, Shape
  <2>3. Receipt(minted[k])' BY <2>1, <1>1 DEF Receipt
  <2>4. minted[k].obj # 0 BY <2>1, <1>n DEF Receipt
  <2>5. Settled(minted[k])'
    BY <2>1, <2>2, <2>4, <1>1, <1>3 DEF Settled, Current
  <2> QED BY <2>3, <2>5
<1>6. \A d \in Callers : flushing'[d].pc # "idle" => flushing'[d] = flushing[d]
  BY <1>1 DEF IInv, Shape, Idle
<1>7. InFlight' BY <1>1, <1>6 DEF IInv, InFlight
<1>8. Rows' /\ Ancestry'
  <2>1. Ancestry' BY <1>1, <1>i, DatabaseKeepsAncestry
  <2> QED BY <2>1, <1>1 DEF IInv, Rows
<1>9. OneTip'
  <2>1. Live' \subseteq Live /\ \A u \in Live' : collector'[u] = collector[u]
    BY <1>3 DEF Live
  <2> QED BY <2>1, <1>1 DEF IInv, OneTip, Followed
<1> QED BY <1>4, <1>5, <1>7, <1>8, <1>9 DEF IInv

LEMMA SessionEndLive ==
  ASSUME NEW s \in Sessions, IInv, SessionEnd(s)
  PROVE  \E os : LiveObjects(os) /\ FlushSync(os)
<1> DEFINE os == <<collector[s]>>
<1>n. Len(states) \in Nat BY AppendSeq DEF IInv, Shape
<1>1. collector[s] \in 1 .. Len(states) /\ states[collector[s]].session = s /\ FlushSync(os)
  BY <1>n DEF SessionEnd, IInv, Shape
<1>2. os \in Seq(1 .. Len(states)) /\ Len(os) = 1 /\ os[1] = collector[s] BY <1>1
<1> HIDE DEF os
<1>3. LiveObjects(os) BY <1>1, <1>2 DEF LiveObjects
<1> QED BY <1>1, <1>3

LEMMA SigtermLive ==
  ASSUME IInv, Sigterm
  PROVE  \E os : LiveObjects(os) /\ FlushSync(os)
<1>1. PICK os \in [1 .. Cardinality(Live) -> 1 .. Len(states)] : InMapOrder(os) /\ FlushSync(os)
  BY DEF Sigterm
<1>2. IsFiniteSet(Live) BY SessionsAssumption, FS_Subset DEF Live
<1>3. Cardinality(Live) \in Nat BY <1>2, FS_CardinalityType
<1>4. Cardinality(Live) # 0 BY <1>2, FS_EmptySet DEF Sigterm
<1>5. os \in Seq(1 .. Len(states)) /\ Len(os) # 0 BY <1>1, <1>3, <1>4
<1>6. \A i \in 1 .. Len(os) : \E s \in Live : os[i] = collector[s] BY <1>1 DEF InMapOrder
<1>7. \A i \in 1 .. Len(os) : collector[states[os[i]].session] = os[i]
  BY <1>6 DEF IInv, Shape, Live
<1>8. LiveObjects(os) BY <1>1, <1>5, <1>7 DEF LiveObjects, InMapOrder
<1> QED BY <1>1, <1>8

\* No step of the plugin, and no stutter, leaves the inductive invariant.
THEOREM StepIInv == IInv /\ [Next]_vars => IInv'
<1> SUFFICES ASSUME IInv, [Next]_vars PROVE IInv'
  OBVIOUS
<1>1. CASE Tick
  <2>1. UNCHANGED <<states, collector, genesisHash, backend, minted, flushing, writes, table,
                    tip, overlapped, raced>>
    BY <1>1 DEF Tick, memory, database, history
  <2> QED
    BY <2>1 DEF IInv, Shape, Receipts, Receipt, Settled, Current, InFlight, Rows, Ancestry,
                Chained, MintedHashes, OneTip, Followed, Live
<1>2. CASE \E s \in Sessions, ev \in Events : OnPolicyEvaluate(s, ev)
  BY <1>2, PolicyPreserves
<1>3. CASE \E s \in Sessions : SessionEnd(s) BY <1>3, SessionEndLive, FlushSyncPreserves
<1>4. CASE Sigterm BY <1>4, SigtermLive, FlushSyncPreserves
<1>5. CASE \E w \in writes : UnawaitedInsert(w) BY <1>5, UnawaitedInsertPreserves
<1>6. CASE \E w \in writes : UnawaitedSetGenesis(w) BY <1>6, UnawaitedSetGenesisPreserves
<1>7. CASE \E s \in Sessions, o \in Overrides : FlushInMemory(s, o)
  BY <1>7, FlushInMemoryPreserves
<1>8. CASE \E c \in Callers, s \in Sessions, o \in Overrides : FlushBegin(c, s, o)
  BY <1>8, FlushBeginPreserves
<1>9. CASE \E c \in Callers : FlushInsert(c) BY <1>9, FlushInsertPreserves
<1>10. CASE \E c \in Callers : FlushFails(c) BY <1>10, FlushFailsPreserves
<1>11. CASE \E c \in Callers : FlushEnd(c) BY <1>11, FlushEndPreserves
<1>12. CASE UNCHANGED vars
  BY <1>12 DEF vars, IInv, Shape, Receipts, Receipt, Settled, Current, InFlight, Rows,
               Ancestry, Chained, MintedHashes, OneTip, Followed, Live
<1>13. CASE \E c \in Callers, s \in Sessions, o \in Overrides : FlushAsksLast(c, s, o)
  BY <1>13, FlushAsksLastPreserves
<1>14. CASE \E c \in Callers : FlushLast(c) BY <1>14, FlushLastPreserves
<1> QED
  BY <1>1, <1>2, <1>3, <1>4, <1>5, <1>6, <1>7, <1>8, <1>9, <1>10, <1>11, <1>12, <1>13, <1>14
     DEF Next

\* The inductive invariant holds in every reachable state.
THEOREM Inductive == Spec => []IInv
BY InitIInv, StepIInv, PTL DEF Spec

\* Unless its caller chose it, a receipt's prevHash is the genesis value, the
\* hash of a receipt minted before it, or one the backend answered: the events
\* read genesisHash, the flushes set it and the tip to nothing but minted
\* hashes, and every row holds one.
THEOREM PrevHashIsMintedBeforeHolds == Spec => []PrevHashIsMintedBefore
<1>1. IInv => PrevHashIsMintedBefore
  BY DEF IInv, Ancestry, Chained, MintedHashes, PrevHashIsMintedBefore
<1> QED BY <1>1, Inductive, PTL

\* Receipts of sessions that only session/end and SIGTERM flush hold, in memory
\* and in the stored row, the content they were hashed with: the array they
\* share with the session has no writer left once the session is flushed.
THEOREM SealedReceiptsIntactHolds == Spec => []SealedReceiptsIntact
<1>1. IInv => SealedReceiptsIntact
  <2> SUFFICES ASSUME IInv PROVE SealedReceiptsIntact
    OBVIOUS
  <2>1. ASSUME NEW i \in 1 .. Len(minted), minted[i].body.session \notin raced
        PROVE  ContentHashHolds(Current(minted[i]))
    BY <2>1 DEF IInv, Receipts, Receipt, Settled, ContentHashHolds, Current
  <2> QED BY <2>1 DEF SealedReceiptsIntact, IInv, Rows
<1> QED BY <1>1, Inductive, PTL

\* Without a backend, sessions that never overlap leave receipts whose holders
\* read what was hashed, each on its predecessor unless its caller overrode it.
THEOREM SequentialSessionsChainHolds == Spec => []SequentialSessionsChain
<1>1. IInv => SequentialSessionsChain
  <2> SUFFICES ASSUME IInv, ~backend, ~overlapped
               PROVE  Followed /\ \A i \in 1 .. Len(minted) : ContentHashHolds(Current(minted[i]))
    BY DEF SequentialSessionsChain, Followed
  <2> QED BY DEF IInv, OneTip, Receipts, Receipt, Settled, Current, ContentHashHolds
<1> QED BY <1>1, Inductive, PTL

\* Where no caller overrode prevHash, verifyChain accepts that list of receipts.
THEOREM SequentialReceiptsVerify ==
  ASSUME IInv, ~backend, ~overlapped, \A i \in 1 .. Len(minted) : minted[i].how # "override"
  PROVE  VerifyChain([i \in 1 .. Len(minted) |-> Current(minted[i])])
<1>0. PICK m \in Nat : m = Len(minted) BY AppendSeq DEF IInv, Shape
<1> DEFINE rs == [i \in 1 .. m |-> Current(minted[i])]
<1>1. Len(rs) = m BY <1>0
<1>2. \A i \in 1 .. m : /\ rs[i].hash = minted[i].hash /\ rs[i].body = minted[i].body
                       /\ rs[i].hash = HashReceiptWithoutHash(rs[i].body)
  BY <1>0 DEF IInv, OneTip, Receipts, Receipt, Settled, Current
<1>3. Followed BY DEF IInv, OneTip
<1> HIDE DEF rs
<1>4. Linked(rs)
  <2> SUFFICES ASSUME NEW i \in 2 .. m PROVE rs[i].body.prevHash = rs[i - 1].hash
    BY <1>1 DEF Linked
  <2>1. i \in 1 .. m /\ i - 1 \in 1 .. m BY <1>0
  <2>2. minted[i].body.prevHash = minted[i - 1].hash BY <2>1, <1>0, <1>3 DEF Followed
  <2> QED BY <2>1, <2>2, <1>2
<1>5. \A i \in 1 .. Len(rs) : ContentHashHolds(rs[i]) BY <1>1, <1>2 DEF ContentHashHolds
<1>6. VerifyChain(rs) BY <1>4, <1>5 DEF VerifyChain
<1> QED BY <1>0, <1>6 DEF rs
-----------------------------------------------------------------------------
\* What the database and the awaiting callers know of the receipts, and that
\* no decision is lost: a second invariant, relative to the first.

Bounds ==
  /\ backend \in BOOLEAN /\ overlapped \in BOOLEAN /\ raced \subseteq Sessions
  /\ Len(states) <= MaxStates[backend] /\ Len(minted) <= MaxReceipts[backend]
  /\ now \in 0 .. MaxNow[backend]
  /\ \A o \in 1 .. Len(states) : states[o].outcome \in Outcomes

\* A caller waits with a receipt of a session that counts as raced, and moves
\* the tip only after its row is in the table; or for the last hash, with a
\* live time.
Awaits(c, p, i) ==
  /\ flushing[c] = [pc |-> p, receipt |-> minted[i]]
  /\ minted[i].body.session \in raced
  /\ p = "setGenesis" => minted[i].hash \in TableHashes

AwaitOrIdle(c) ==
  \/ flushing[c] = Idle
  \/ \E o \in 1 .. Len(states), t \in 0 .. MaxNow[backend] :
       flushing[c] = [pc |-> "last", obj |-> o, builtAt |-> t]
  \/ \E p \in {"insert", "setGenesis"}, i \in 1 .. Len(minted) : Awaits(c, p, i)

\* A caller past the sealing waits with a minted receipt.
LEMMA WaitsForInsert ==
  ASSUME NEW c \in Callers, AwaitOrIdle(c), flushing[c].pc \in {"insert", "setGenesis"}
  PROVE  \E p \in {"insert", "setGenesis"}, i \in 1 .. Len(minted) : Awaits(c, p, i)
<1>1. flushing[c] # Idle BY DEF Idle
<1>2. ASSUME NEW o, NEW t PROVE flushing[c] # [pc |-> "last", obj |-> o, builtAt |-> t]
  OBVIOUS
<1> QED BY <1>1, <1>2 DEF AwaitOrIdle

SyncWrites == \A w \in writes : w.receipt.how = "sync"

JInv ==
  /\ Bounds /\ SyncWrites /\ \A c \in Callers : AwaitOrIdle(c)
  /\ EveryDecisionAttestedOnce /\ AwaitedTipIsStored

LEMMA InitJInv == Init => JInv
<1> SUFFICES ASSUME Init PROVE JInv
  OBVIOUS
<1>1. Len(<<>>) = 0 OBVIOUS
<1>2. MaxStates[backend] \in Nat /\ MaxReceipts[backend] \in Nat BY BoundsAssumption DEF Init
<1>3. Bounds
  <2>1. backend \in BOOLEAN /\ overlapped \in BOOLEAN /\ raced \subseteq Sessions BY DEF Init
  <2>2. Len(states) <= MaxStates[backend] /\ Len(minted) <= MaxReceipts[backend]
    BY <1>1, <1>2 DEF Init
  <2>3. now \in 0 .. MaxNow[backend] /\ \A o \in 1 .. Len(states) : states[o].outcome \in Outcomes
    BY <1>1, BoundsAssumption DEF Init
  <2> QED BY <2>1, <2>2, <2>3 DEF Bounds
<1> QED
  BY <1>1, <1>3 DEF Init, JInv, SyncWrites, AwaitOrIdle, EveryDecisionAttestedOnce, AwaitedTipIsStored

\* The list of receipts and the set of raced sessions only grow, so do the
\* rows: a caller that does not move waits for the same, and a tip stays good.
Grown ==
  /\ Len(minted) \in Nat /\ Len(minted)' \in Nat /\ Len(minted) <= Len(minted)'
  /\ \A i \in 1 .. Len(minted) : minted'[i] = minted[i]
  /\ Len(states) \in Nat /\ Len(states)' \in Nat /\ Len(states) <= Len(states)'
  /\ backend' = backend
  /\ raced \subseteq raced' /\ TableHashes \subseteq TableHashes'

LEMMA GrownKeepsCaller ==
  ASSUME Grown, NEW c \in Callers, AwaitOrIdle(c), flushing'[c] = flushing[c]
  PROVE  AwaitOrIdle(c)'
<1>1. CASE flushing[c] = Idle BY <1>1 DEF AwaitOrIdle, Idle
<1>2. ASSUME NEW p \in {"insert", "setGenesis"}, NEW i \in 1 .. Len(minted), Awaits(c, p, i)
      PROVE  AwaitOrIdle(c)'
  <2>1. i \in 1 .. Len(minted)' /\ minted'[i] = minted[i] BY DEF Grown
  <2>2. Awaits(c, p, i)' BY <1>2, <2>1 DEF Grown, Awaits
  <2> QED BY <2>1, <2>2 DEF AwaitOrIdle
<1>3. ASSUME NEW o \in 1 .. Len(states), NEW t \in 0 .. MaxNow[backend],
             flushing[c] = [pc |-> "last", obj |-> o, builtAt |-> t]
      PROVE  AwaitOrIdle(c)'
  <2>1. o \in 1 .. Len(states)' /\ t \in 0 .. MaxNow[backend]' BY DEF Grown
  <2>2. flushing'[c] = [pc |-> "last", obj |-> o, builtAt |-> t] BY <1>3
  <2> QED BY <2>1, <2>2 DEF AwaitOrIdle
<1> QED BY <1>1, <1>2, <1>3 DEF AwaitOrIdle

LEMMA GrownKeepsTip ==
  ASSUME Grown, AwaitedTipIsStored, tip' = tip
  PROVE  AwaitedTipIsStored'
<1>1. CASE tip \in {Genesis} \cup TableHashes BY <1>1 DEF Grown, AwaitedTipIsStored
<1>2. CASE \E i \in 1 .. Len(minted) : minted[i].how = "sync" /\ minted[i].hash = tip
  <2>1. PICK i \in 1 .. Len(minted) : minted[i].how = "sync" /\ minted[i].hash = tip BY <1>2
  <2>2. i \in 1 .. Len(minted)' /\ minted'[i] = minted[i] BY DEF Grown
  <2> QED BY <2>1, <2>2 DEF AwaitedTipIsStored
<1> QED BY <1>1, <1>2 DEF AwaitedTipIsStored

LEMMA GrownByNothing ==
  ASSUME IInv, UNCHANGED <<minted, raced, table, backend>>,
         Len(states)' \in Nat, Len(states) <= Len(states)'
  PROVE  Grown
BY AppendSeq DEF Grown, TableHashes, IInv, Shape

LEMMA MintedCount == ASSUME IInv PROVE Len(minted) \in Nat /\ Len(states) \in Nat
BY AppendSeq DEF IInv, Shape

\* The outcome and the dispositions an object left the collector with are
\* those of its one receipt.
Attested(o, i) ==
  /\ minted[i].obj = o /\ minted[i].body.guards = states[o].guards
  /\ minted[i].body.outcome = states[o].outcome
  /\ \A j \in 1 .. Len(minted) : minted[j].obj = o => j = i

Departed(o) == states[o].session \notin raced /\ collector[states[o].session] # o

LEMMA AttestedMeans ==
  EveryDecisionAttestedOnce <=>
    \A o \in 1 .. Len(states) : Departed(o) => \E i \in 1 .. Len(minted) : Attested(o, i)
BY DEF EveryDecisionAttestedOnce, Departed, Attested

\* A live object of a session that is not raced has no receipt yet.
LEMMA LiveHasNone ==
  ASSUME IInv, NEW o \in 1 .. Len(states), states[o].session \notin raced,
         collector[states[o].session] = o, NEW i \in 1 .. Len(minted)
  PROVE  minted[i].obj # o
BY DEF IInv, Receipts, Receipt, Settled

\* Synchronous flushes: each departed object gets its receipt.
LEMMA FlushSyncJ ==
  ASSUME NEW os, LiveObjects(os), IInv, JInv, FlushSync(os)
  PROVE  JInv'
<1>0. PICK n \in Nat, m \in Nat : n = Len(os) /\ m = Len(minted)
  <2>1. Len(os) \in Nat BY DEF LiveObjects
  <2> QED BY <2>1, MintedCount
<1>a. n # 0 /\ Mints(os, n, m) BY <1>0, FlushSyncMints
<1>u. UNCHANGED <<states, now, backend, flushing, table, tip, overlapped, raced>>
  BY <1>a DEF Mints
<1>m. /\ m + n <= MaxReceipts[backend] /\ Len(minted)' = m + n
      /\ \A i \in 1 .. m : minted'[i] = minted[i]
      /\ \A i \in 1 .. n : minted'[m + i] = Mint(os[i], "sync")
  BY <1>a DEF Mints
<1>1. Bounds' BY <1>m, <1>u DEF JInv, Bounds
<1>2. SyncWrites'
  <2> SUFFICES ASSUME NEW w \in writes', w \notin writes PROVE w.receipt.how = "sync"
    BY DEF JInv, SyncWrites
  <2>1. PICK i \in 1 .. n : w \in Unawaited(Mint(os[i], "sync")) BY <1>a DEF Mints
  <2> QED BY <2>1 DEF Unawaited, Mint, MintOn
<1>3. Grown BY <1>0, <1>m, <1>u, MintedCount DEF Grown, TableHashes
<1>4. \A c \in Callers : AwaitOrIdle(c)' BY <1>3, <1>u, GrownKeepsCaller DEF JInv
<1>5. AwaitedTipIsStored' BY <1>3, <1>u, GrownKeepsTip DEF JInv
<1>6. ASSUME NEW o \in 1 .. Len(states), Departed(o)'
      PROVE  \E i \in 1 .. m + n : Attested(o, i)'
  <2>1. states[o].session \notin raced BY <1>6, <1>u DEF Departed
  <2>2. \A i \in 1 .. n : minted'[m + i].obj = os[i]
    <3>1. \A k : Mint(k, "sync").obj = k BY DEF Mint, MintOn
    <3> QED BY <3>1, <1>m
  <2>3. \A k \in 1 .. m + n : k \notin 1 .. m => k - m \in 1 .. n /\ k = m + (k - m) OBVIOUS
  <2>4. CASE collector[states[o].session] # o
    <3>1. PICK i \in 1 .. m : Attested(o, i)
      BY <2>1, <2>4, <1>0, AttestedMeans DEF JInv, Departed
    <3>2. \A k \in 1 .. n : os[k] # o BY <2>4, <1>0 DEF LiveObjects
    <3>3. ASSUME NEW j \in 1 .. m + n, minted'[j].obj = o PROVE j = i
      <4>1. CASE j \in 1 .. m BY <4>1, <3>1, <3>3, <1>0, <1>m DEF Attested
      <4>2. CASE j \notin 1 .. m BY <4>2, <2>2, <2>3, <3>2, <3>3
      <4> QED BY <4>1, <4>2
    <3>4. Attested(o, i)' BY <3>1, <3>3, <1>m, <1>u DEF Attested
    <3> QED BY <3>4
  <2>5. CASE collector[states[o].session] = o
    <3>1. PICK k \in 1 .. n : states[o].session = states[os[k]].session
      <4>1. states[o].session \in Sessions /\ collector'[states[o].session] # o
        BY <1>6, <1>u DEF Departed, IInv, Shape
      <4> QED BY <4>1, <2>5, <1>a DEF Mints
    <3>2. os[k] = o BY <3>1, <2>5, <1>0 DEF LiveObjects
    <3>3. ASSUME NEW j \in 1 .. m + n, minted'[j].obj = o PROVE j = m + k
      <4>1. CASE j \in 1 .. m BY <4>1, <3>3, <2>1, <2>5, <1>0, <1>m, LiveHasNone
      <4>2. CASE j \notin 1 .. m
        <5>1. j - m \in 1 .. n /\ j = m + (j - m) BY <4>2, <2>3
        <5>2. os[j - m] = os[k] BY <5>1, <2>2, <3>2, <3>3
        <5>3. os[j - m] \in Nat /\ os[k] \in Nat BY <5>1, <1>a, MintedCount, SMTT(20) DEF Mints
        <5>4. (j - m < k => os[j - m] < os[k]) /\ (k < j - m => os[k] < os[j - m])
          BY <5>1, <1>0 DEF LiveObjects
        <5>5. j - m = k BY <5>1, <5>2, <5>3, <5>4
        <5> QED BY <5>1, <5>5
      <4> QED BY <4>1, <4>2
    <3>4. minted'[m + k] = Mint(o, "sync") BY <3>2, <1>m
    <3>5. Attested(o, m + k)'
      BY <3>3, <3>4, <1>m, <1>u DEF Attested, Mint, MintOn, GenerateReceipt, Body
    <3> QED BY <3>5
  <2> QED BY <2>4, <2>5
<1>7. EveryDecisionAttestedOnce'
  BY <1>6, <1>m, <1>u, SMTT(20) DEF EveryDecisionAttestedOnce, Departed, Attested
<1> QED BY <1>1, <1>2, <1>4, <1>5, <1>7 DEF JInv

LEMMA FlushInMemoryJ ==
  ASSUME NEW s \in Sessions, NEW override, IInv, JInv, FlushInMemory(s, override)
  PROVE  JInv'
<1> DEFINE o == collector[s]
           r == MintFor(o, override)
<1>0. PICK m \in Nat : m = Len(minted) BY MintedCount
<1>1. /\ o \in 1 .. Len(states) /\ states[o].session = s /\ ~backend
      /\ minted' = Append(minted, r) /\ genesisHash' = r.hash
      /\ collector' = [collector EXCEPT ![s] = 0] /\ m < MaxReceipts[backend]
      /\ UNCHANGED <<states, now, backend, flushing, writes, table, tip, overlapped, raced>>
  BY <1>0, MintedCount DEF FlushInMemory, IInv, Shape, database, history
<1>a. PICK prev, how : r = MintOn(o, prev, now, how) /\ KnownHash(prev, how)
  BY <1>1, MintForMints
<1> HIDE DEF r
<1>2. /\ Len(minted)' = m + 1 /\ minted'[m + 1] = r
      /\ \A i \in 1 .. m : minted'[i] = minted[i]
      /\ r.obj = o /\ r.body.guards = states[o].guards /\ r.body.outcome = states[o].outcome
  BY <1>0, <1>1, <1>a, MintOne
<1>3. /\ r.obj = o /\ r.body.guards = states[o].guards /\ r.body.outcome = states[o].outcome
  BY <1>2
<1>4. MaxReceipts[backend] \in Nat BY BoundsAssumption DEF JInv, Bounds
<1>5. Bounds' /\ SyncWrites' BY <1>1, <1>2, <1>4 DEF JInv, Bounds, SyncWrites
<1>6. Grown BY <1>0, <1>1, <1>2, MintedCount DEF Grown, TableHashes
<1>7. \A c \in Callers : AwaitOrIdle(c)' BY <1>6, <1>1, GrownKeepsCaller DEF JInv
<1>8. AwaitedTipIsStored' BY <1>6, <1>1, GrownKeepsTip DEF JInv
<1>9. ASSUME NEW q \in 1 .. Len(states), Departed(q)'
      PROVE  \E i \in 1 .. m + 1 : Attested(q, i)'
  <2>1. states[q].session \notin raced /\ states[q].session \in Sessions
    BY <1>9, <1>1 DEF Departed, IInv, Shape
  <2>2. CASE q = o
    <3>1. \A j \in 1 .. m : minted[j].obj # o BY <2>1, <2>2, <1>0, <1>1, LiveHasNone
    <3>2. \A j \in 1 .. m + 1 : minted'[j].obj = o => j = m + 1 BY <3>1, <1>2
    <3>3. Attested(q, m + 1)' BY <2>2, <3>2, <1>1, <1>2, <1>3 DEF Attested
    <3> QED BY <3>3
  <2>3. CASE q # o
    <3>1. Departed(q) BY <1>9, <2>1, <2>3, <1>1 DEF Departed, IInv, Shape
    <3>2. PICK i \in 1 .. m : Attested(q, i) BY <3>1, <1>0, AttestedMeans DEF JInv
    <3>3. \A j \in 1 .. m + 1 : minted'[j].obj = q => j = i
      <4>1. minted'[m + 1].obj # q BY <2>3, <1>2, <1>3
      <4>2. \A j \in 1 .. m : minted'[j].obj = q => j = i BY <3>2, <1>0, <1>2 DEF Attested
      <4> QED BY <4>1, <4>2
    <3>4. Attested(q, i)' BY <3>2, <3>3, <1>1, <1>2, <1>0 DEF Attested
    <3> QED BY <3>4
  <2> QED BY <2>2, <2>3
<1>10. EveryDecisionAttestedOnce'
  BY <1>9, <1>1, <1>2, SMTT(20) DEF EveryDecisionAttestedOnce, Departed, Attested
<1> QED BY <1>5, <1>7, <1>8, <1>10 DEF JInv

\* A receipt of a raced session is no session's that must lose nothing; its
\* caller waits with the receipt it minted.
LEMMA AwaitedMintJ ==
  ASSUME NEW c \in Callers, IInv, JInv, NEW o \in 1 .. Len(states),
         NEW prev, NEW t, NEW how, KnownHash(prev, how), NEW r, r = MintOn(o, prev, t, how),
         Len(minted) < MaxReceipts[backend], minted' = Append(minted, r),
         states[o].session \in raced', raced \subseteq raced', raced' \subseteq Sessions,
         flushing' = [flushing EXCEPT ![c] = [pc |-> "insert", receipt |-> r]],
         UNCHANGED <<states, collector, genesisHash, now, backend, writes, table, tip, overlapped>>
  PROVE  JInv'
<1>0. PICK m \in Nat : m = Len(minted) BY MintedCount
<1>2. /\ Len(minted)' = m + 1 /\ minted'[m + 1] = r
      /\ \A i \in 1 .. m : minted'[i] = minted[i]
      /\ r.body.session = states[o].session /\ r.obj = o
  BY <1>0, MintOne
<1>4. MaxReceipts[backend] \in Nat BY BoundsAssumption DEF JInv, Bounds
<1>5. Bounds' /\ SyncWrites' BY <1>0, <1>2, <1>4 DEF JInv, Bounds, SyncWrites
<1>6. Grown BY <1>0, <1>2, MintedCount DEF Grown, TableHashes
<1>7. ASSUME NEW d \in Callers PROVE AwaitOrIdle(d)'
  <2>1. CASE d = c
    <3>1. m + 1 \in 1 .. Len(minted)' BY <1>2
    <3>2. Awaits(c, "insert", m + 1)' BY <1>2 DEF Awaits, IInv, Shape
    <3> QED BY <2>1, <3>1, <3>2 DEF AwaitOrIdle
  <2>2. CASE d # c
    <3>1. flushing'[d] = flushing[d] BY <2>2 DEF IInv, Shape
    <3> QED BY <3>1, <1>6, GrownKeepsCaller DEF JInv
  <2> QED BY <2>1, <2>2
<1>8. AwaitedTipIsStored' BY <1>6, GrownKeepsTip DEF JInv
<1>9. ASSUME NEW q \in 1 .. Len(states), Departed(q)'
      PROVE  \E i \in 1 .. m + 1 : Attested(q, i)'
  <2>1. Departed(q) /\ q # o BY <1>9 DEF Departed
  <2>2. PICK i \in 1 .. m : Attested(q, i) BY <2>1, <1>0, AttestedMeans DEF JInv
  <2>3. \A j \in 1 .. m + 1 : j \in 1 .. m \/ j = m + 1 OBVIOUS
  <2>4. \A j \in 1 .. m + 1 : minted'[j].obj = q => j = i
    BY <2>1, <2>2, <2>3, <1>0, <1>2, Zenon DEF Attested
  <2>5. minted'[i] = minted[i] BY <1>2
  <2>6. Attested(q, i)' BY <2>2, <2>4, <2>5, <1>2 DEF Attested
  <2> QED BY <2>6
<1>10. EveryDecisionAttestedOnce'
  BY <1>9, <1>2 DEF EveryDecisionAttestedOnce, Departed, Attested
<1> QED BY <1>5, <1>7, <1>8, <1>10 DEF JInv

\* An awaited flush makes its session count as raced before anything can be lost.
LEMMA FlushBeginJ ==
  ASSUME NEW c \in Callers, NEW s \in Sessions, NEW override, IInv, JInv,
         FlushBegin(c, s, override)
  PROVE  JInv'
<1> DEFINE o == collector[s]
           r == MintFor(o, override)
<1>1. /\ o \in 1 .. Len(states) /\ states[o].session = s /\ Len(minted) < MaxReceipts[backend]
      /\ minted' = Append(minted, r) /\ raced' = raced \cup {s}
      /\ flushing' = [flushing EXCEPT ![c] = [pc |-> "insert", receipt |-> r]]
      /\ UNCHANGED <<states, collector, genesisHash, now, backend, writes, table, tip, overlapped>>
  <2>1. o \in 1 .. Len(states) /\ states[o].session = s
    BY MintedCount DEF FlushBegin, IInv, Shape
  <2> QED BY <2>1 DEF FlushBegin, memory, database
<1>2. PICK prev, how : r = MintOn(o, prev, now, how) /\ KnownHash(prev, how)
  BY <1>1, MintForMints
<1>3. raced' \subseteq Sessions BY <1>1 DEF JInv, Bounds
<1> HIDE DEF r
<1> QED BY <1>1, <1>2, <1>3, AwaitedMintJ

LEMMA FlushLastJ ==
  ASSUME NEW c \in Callers, IInv, JInv, FlushLast(c)
  PROVE  JInv'
<1> DEFINE o == flushing[c].obj
<1>1. /\ o \in 1 .. Len(states) /\ states[o].session \in raced /\ Len(minted) < MaxReceipts[backend]
      /\ UNCHANGED <<states, collector, genesisHash, now, backend, writes, table, tip, overlapped, raced>>
  BY DEF FlushLast, IInv, InFlight, memory, database, history
<1>2. PICK h \in LastReceiptHashes :
        LET r == MintOn(o, h, flushing[c].builtAt, "last")
        IN  /\ minted' = Append(minted, r)
            /\ flushing' = [flushing EXCEPT ![c] = [pc |-> "insert", receipt |-> r]]
  BY DEF FlushLast
<1>3. KnownHash(h, "last") /\ raced \subseteq Sessions BY LastHashIsKnown DEF JInv, Bounds
<1> QED BY <1>1, <1>2, <1>3, AwaitedMintJ

\* An event touches only the object its session has in the collector.
LEMMA PolicyJ ==
  ASSUME NEW s \in Sessions, NEW ev \in Events, IInv, JInv, OnPolicyEvaluate(s, ev)
  PROVE  JInv'
<1>0. PICK n \in Nat : n = Len(states) BY MintedCount
<1>1. /\ UNCHANGED <<genesisHash, now, backend, minted, flushing, writes, table, tip, raced>>
      /\ overlapped' = (overlapped \/ Live \ {s} # {})
  BY DEF OnPolicyEvaluate, database
<1>2. Collected(s, n) BY <1>0, PolicyCollects
<1>3. Grown BY <1>0, <1>1, <1>2, GrownByNothing DEF Collected
<1>4. MaxStates[backend] \in Nat BY BoundsAssumption DEF JInv, Bounds
<1>5. \A o \in 1 .. Len(states)' : states'[o].outcome \in Outcomes
  BY <1>0, <1>2 DEF Collected, JInv, Bounds
<1>6. Bounds' BY <1>0, <1>1, <1>2, <1>4, <1>5 DEF Collected, JInv, Bounds
<1>7. \A c \in Callers : AwaitOrIdle(c)' BY <1>1, <1>3, GrownKeepsCaller DEF JInv
<1>8. AwaitedTipIsStored' BY <1>1, <1>3, GrownKeepsTip DEF JInv
<1>9. ASSUME NEW o \in 1 .. Len(states)', Departed(o)'
      PROVE  \E i \in 1 .. Len(minted) : Attested(o, i)'
  <2>1. o \in 1 .. n BY <1>9, <1>2 DEF Departed, Collected
  <2>2. states[o].session = states'[o].session /\ states[o].session \in Sessions
    BY <2>1, <1>0, <1>2 DEF Collected, IInv, Shape
  <2>3. o # collector[s]
    <3>1. CASE collector[s] = 0 BY <3>1, <2>1
    <3>2. CASE collector[s] # 0
      <4>1. collector'[s] = collector[s] /\ states[collector[s]].session = s
        BY <3>2, <1>2 DEF Collected, IInv, Shape
      <4> QED BY <4>1, <2>2, <1>9, <1>1 DEF Departed
    <3> QED BY <3>1, <3>2
  <2>4. states'[o] = states[o] BY <2>1, <2>3, <1>2 DEF Collected
  <2>5. Departed(o) BY <2>1, <2>2, <2>3, <1>1, <1>2, <1>9 DEF Departed, Collected
  <2>6. PICK i \in 1 .. Len(minted) : Attested(o, i) BY <2>1, <2>5, <1>0, AttestedMeans DEF JInv
  <2>7. Attested(o, i)' BY <2>4, <2>6, <1>1 DEF Attested
  <2> QED BY <2>7
<1>10. EveryDecisionAttestedOnce'
  BY <1>9, <1>1 DEF EveryDecisionAttestedOnce, Departed, Attested
<1> QED BY <1>1, <1>6, <1>7, <1>8, <1>10 DEF JInv, SyncWrites

\* Storing a row adds its hash to the table's and removes none.
LEMMA StoredHashes ==
  ASSUME IInv, NEW r, table' = Append(table, r)
  PROVE  r.hash \in TableHashes' /\ TableHashes \subseteq TableHashes'
<1>1. PICK n \in Nat : n = Len(table) BY AppendSeq DEF IInv, Rows
<1>2. Len(table') = n + 1 /\ table'[n + 1] = r /\ \A i \in 1 .. n : table'[i] = table[i]
  BY <1>1, AppendSeq DEF IInv, Rows
<1>3. n + 1 \in 1 .. n + 1 OBVIOUS
<1> QED BY <1>1, <1>2, <1>3 DEF TableHashes

\* The steps between the awaits, of the database and of the clock: they leave
\* objects and receipts alone, and a session they drop is raced.
LEMMA OthersJ ==
  ASSUME IInv, JInv, UNCHANGED <<states, minted, backend, overlapped, raced>>,
         now' \in 0 .. MaxNow[backend], writes' \subseteq writes,
         \A s \in Sessions : s \in raced \/ collector'[s] = collector[s],
         AwaitedTipIsStored', \A c \in Callers : AwaitOrIdle(c)'
  PROVE  JInv'
<1>1. Bounds' /\ SyncWrites' BY DEF JInv, Bounds, SyncWrites
<1>2. EveryDecisionAttestedOnce'
  <2>1. \A o \in 1 .. Len(states) : states[o].session \in Sessions BY DEF IInv, Shape
  <2> QED BY <2>1 DEF JInv, EveryDecisionAttestedOnce
<1> QED BY <1>1, <1>2 DEF JInv

\* Asking for the last hash: nothing is minted, and the session is raced.
LEMMA FlushAsksLastJ ==
  ASSUME NEW c \in Callers, NEW s \in Sessions, NEW override, IInv, JInv,
         FlushAsksLast(c, s, override)
  PROVE  JInv'
<1> DEFINE ask == [pc |-> "last", obj |-> collector[s], builtAt |-> now]
<1>0. now \in 0 .. MaxNow[backend] BY DEF JInv, Bounds
<1>1. /\ collector[s] \in 1 .. Len(states)
      /\ raced' = raced \cup {s} /\ flushing' = [flushing EXCEPT ![c] = ask]
      /\ UNCHANGED <<states, collector, genesisHash, now, backend, minted, writes, table, tip, overlapped>>
  <2>1. collector[s] # 0 /\ collector[s] \in 0 .. Len(states) BY DEF FlushAsksLast, IInv, Shape
  <2>2. collector[s] \in 1 .. Len(states) BY <2>1, MintedCount
  <2> QED BY <2>2 DEF FlushAsksLast, memory, database
<1>2. Bounds' /\ SyncWrites' BY <1>1 DEF JInv, Bounds, SyncWrites
<1>3. Grown BY <1>1, MintedCount DEF Grown, TableHashes
<1>4. AwaitedTipIsStored' BY <1>1, <1>3, GrownKeepsTip DEF JInv
<1>5. ASSUME NEW d \in Callers PROVE AwaitOrIdle(d)'
  <2>1. CASE d = c
    <3>1. flushing'[c] = ask BY <1>1 DEF IInv, Shape
    <3> QED BY <2>1, <3>1, <1>0, <1>1 DEF AwaitOrIdle
  <2>2. CASE d # c
    <3>1. flushing'[d] = flushing[d] BY <2>2, <1>1 DEF IInv, Shape
    <3> QED BY <3>1, <1>3, GrownKeepsCaller DEF JInv
  <2> QED BY <2>1, <2>2
<1>6. EveryDecisionAttestedOnce' BY <1>1 DEF JInv, EveryDecisionAttestedOnce
<1> QED BY <1>2, <1>4, <1>5, <1>6 DEF JInv

\* No step of the plugin, and no stutter, leaves the second invariant either.
LEMMA StepJInv == IInv /\ JInv /\ [Next]_vars => JInv'
<1> SUFFICES ASSUME IInv, JInv, [Next]_vars PROVE JInv'
  OBVIOUS
<1> USE DEF memory, database, history
<1>0. now \in 0 .. MaxNow[backend] BY DEF JInv, Bounds
<1>1. CASE Tick \/ UNCHANGED vars
  <2>1. /\ UNCHANGED <<states, collector, backend, minted, flushing, writes, table, tip,
                       overlapped, raced>>
        /\ now' \in 0 .. MaxNow[backend]
    <3>1. MaxNow[backend] \in Nat BY BoundsAssumption DEF JInv, Bounds
    <3> QED BY <3>1, <1>0, <1>1 DEF Tick, vars
  <2>2. Grown BY <2>1, GrownByNothing, MintedCount
  <2>3. (\A c \in Callers : AwaitOrIdle(c)') /\ AwaitedTipIsStored'
    BY <2>1, <2>2, GrownKeepsCaller, GrownKeepsTip DEF JInv
  <2> QED BY <2>1, <2>3, OthersJ
<1>2. CASE \E s \in Sessions, ev \in Events : OnPolicyEvaluate(s, ev) BY <1>2, PolicyJ
<1>3. CASE \E s \in Sessions : SessionEnd(s) BY <1>3, SessionEndLive, FlushSyncJ
<1>4. CASE Sigterm BY <1>4, SigtermLive, FlushSyncJ
<1>5. ASSUME NEW w \in writes, UnawaitedInsert(w) PROVE JInv'
  <2>1. /\ writes' \subseteq writes
        /\ table' = table \/ table' = Append(table, Current(w.receipt))
        /\ UNCHANGED <<states, collector, now, backend, minted, flushing, tip, overlapped, raced>>
    BY <1>5 DEF UnawaitedInsert
  <2>2. Grown
    <3>1. TableHashes \subseteq TableHashes' BY <2>1, StoredHashes DEF TableHashes
    <3> QED BY <2>1, <3>1, MintedCount DEF Grown
  <2>3. (\A c \in Callers : AwaitOrIdle(c)') /\ AwaitedTipIsStored'
    BY <2>1, <2>2, GrownKeepsCaller, GrownKeepsTip DEF JInv
  <2> QED BY <2>1, <2>3, <1>0, OthersJ
<1>6. ASSUME NEW w \in writes, UnawaitedSetGenesis(w) PROVE JInv'
  <2>1. /\ writes' \subseteq writes
        /\ tip' = tip \/ tip' = w.receipt.hash
        /\ UNCHANGED <<states, collector, now, backend, minted, flushing, table, overlapped, raced>>
    BY <1>6 DEF UnawaitedSetGenesis
  <2>2. Grown BY <2>1, GrownByNothing, MintedCount
  <2>3. AwaitedTipIsStored'
    <3>1. CASE tip' = tip BY <3>1, <2>2, GrownKeepsTip DEF JInv
    <3>2. CASE tip' = w.receipt.hash
      <4>1. PICK i \in 1 .. Len(minted) : w.receipt = minted[i] BY DEF IInv, InFlight
      <4>2. minted[i].how = "sync" BY <4>1 DEF JInv, SyncWrites
      <4> QED BY <3>2, <4>1, <4>2, <2>1 DEF AwaitedTipIsStored
    <3> QED BY <2>1, <3>1, <3>2
  <2>4. \A c \in Callers : AwaitOrIdle(c)' BY <2>1, <2>2, GrownKeepsCaller DEF JInv
  <2> QED BY <2>1, <2>3, <2>4, <1>0, OthersJ
<1>7. CASE \E s \in Sessions, o \in Overrides : FlushInMemory(s, o) BY <1>7, FlushInMemoryJ
<1>8. CASE \E c \in Callers, s \in Sessions, o \in Overrides : FlushBegin(c, s, o)
  BY <1>8, FlushBeginJ
<1>12. CASE \E c \in Callers, s \in Sessions, o \in Overrides : FlushAsksLast(c, s, o)
  BY <1>12, FlushAsksLastJ
<1>13. CASE \E c \in Callers : FlushLast(c) BY <1>13, FlushLastJ
<1>9. ASSUME NEW c \in Callers, FlushInsert(c) PROVE JInv'
  <2>1. PICK p \in {"insert", "setGenesis"}, i \in 1 .. Len(minted) : Awaits(c, p, i)
    <3>1. flushing[c].pc = "insert" /\ AwaitOrIdle(c) BY <1>9 DEF FlushInsert, JInv
    <3> QED BY <3>1, WaitsForInsert
  <2>2. /\ table' = Append(table, Current(minted[i]))
        /\ flushing' = [flushing EXCEPT ![c] = [pc |-> "setGenesis", receipt |-> minted[i]]]
        /\ UNCHANGED <<states, collector, now, backend, minted, writes, tip, overlapped, raced>>
    BY <1>9, <2>1 DEF FlushInsert, Awaits
  <2>3. minted[i].hash \in TableHashes' /\ TableHashes \subseteq TableHashes'
    BY <2>2, StoredHashes DEF Current
  <2>4. Grown BY <2>2, <2>3, MintedCount DEF Grown
  <2>5. ASSUME NEW d \in Callers PROVE AwaitOrIdle(d)'
    <3>1. CASE d = c
      <4>1. Awaits(c, "setGenesis", i)' BY <2>1, <2>2, <2>3 DEF Awaits, IInv, Shape
      <4> QED BY <3>1, <4>1, <2>2 DEF AwaitOrIdle
    <3>2. CASE d # c
      <4>1. flushing'[d] = flushing[d] BY <3>2, <2>2 DEF IInv, Shape
      <4> QED BY <4>1, <2>4, GrownKeepsCaller DEF JInv
    <3> QED BY <3>1, <3>2
  <2> QED BY <2>2, <2>4, <2>5, <1>0, GrownKeepsTip, OthersJ DEF JInv
<1>10. ASSUME NEW c \in Callers, FlushFails(c) PROVE JInv'
  <2>1. /\ flushing' = [flushing EXCEPT ![c] = Idle]
        /\ UNCHANGED <<states, collector, now, backend, minted, writes, table, tip, overlapped, raced>>
    BY <1>10 DEF FlushFails
  <2>2. Grown BY <2>1, GrownByNothing, MintedCount
  <2>3. \A d \in Callers : AwaitOrIdle(d)'
    <3>1. \A d \in Callers : flushing'[d] = flushing[d] \/ flushing'[d] = Idle
      BY <2>1 DEF IInv, Shape
    <3> QED BY <3>1, <2>2, GrownKeepsCaller DEF JInv, AwaitOrIdle, Idle
  <2> QED BY <2>1, <2>2, <2>3, <1>0, GrownKeepsTip, OthersJ DEF JInv
<1>11. ASSUME NEW c \in Callers, FlushEnd(c) PROVE JInv'
  <2>1. PICK i \in 1 .. Len(minted) : Awaits(c, "setGenesis", i)
    <3>1. PICK p \in {"insert", "setGenesis"}, i \in 1 .. Len(minted) : Awaits(c, p, i)
      <4>1. flushing[c].pc = "setGenesis" /\ AwaitOrIdle(c) BY <1>11 DEF FlushEnd, JInv
      <4> QED BY <4>1, WaitsForInsert
    <3>2. p = "setGenesis" BY <1>11, <3>1 DEF FlushEnd, Awaits
    <3> QED BY <3>1, <3>2
  <2> DEFINE s == minted[i].body.session
  <2>2. /\ tip' = minted[i].hash
        /\ collector' = [collector EXCEPT ![s] = 0]
        /\ flushing' = [flushing EXCEPT ![c] = Idle]
        /\ UNCHANGED <<states, now, backend, minted, writes, table, overlapped, raced>>
    BY <1>11, <2>1 DEF FlushEnd, Awaits
  <2>3. s \in raced /\ tip' \in TableHashes BY <2>1, <2>2 DEF Awaits
  <2> HIDE DEF s
  <2>4. Grown BY <2>2, GrownByNothing, MintedCount
  <2>5. \A d \in Callers : AwaitOrIdle(d)'
    <3>1. \A d \in Callers : flushing'[d] = flushing[d] \/ flushing'[d] = Idle
      BY <2>2 DEF IInv, Shape
    <3> QED BY <3>1, <2>4, GrownKeepsCaller DEF JInv, AwaitOrIdle, Idle
  <2>6. AwaitedTipIsStored' BY <2>2, <2>3 DEF AwaitedTipIsStored, TableHashes
  <2>7. \A u \in Sessions : u \in raced \/ collector'[u] = collector[u]
    BY <2>2, <2>3 DEF IInv, Shape
  <2> QED BY <2>2, <2>5, <2>6, <2>7, <1>0, OthersJ
<1> QED
  BY <1>1, <1>2, <1>3, <1>4, <1>5, <1>6, <1>7, <1>8, <1>9, <1>10, <1>11, <1>12, <1>13 DEF Next

\* The second invariant holds in every reachable state.
THEOREM InductiveJ == Spec => []JInv
<1>1. Spec => []IInv BY Inductive
<1> QED BY <1>1, InitJInv, StepJInv, PTL DEF Spec

\* Map and heap agree, lists and clock keep their bounds, and an awaiting caller
\* holds a receipt that was minted.
THEOREM TypeCorrect == Spec => []TypeOK
<1>1. IInv /\ JInv => TypeOK
  <2> SUFFICES ASSUME IInv, JInv PROVE TypeOK
    OBVIOUS
  <2>1. /\ collector \in [Sessions -> 0 .. Len(states)]
        /\ \A s \in Live : states[collector[s]].session = s
        /\ \A st \in Entries : st.session \in Sessions /\ st.outcome \in Outcomes
    BY DEF IInv, Shape, JInv, Bounds, Live, Entries
  <2>2. \A i \in 1 .. Len(minted) : minted[i].obj \in 1 .. Len(states)
    BY DEF IInv, Receipts, Receipt
  <2> DEFINE waits == {[pc |-> p, receipt |-> minted[i]] :
                         p \in {"insert", "setGenesis"}, i \in 1 .. Len(minted)}
            asks == {[pc |-> "last", obj |-> o, builtAt |-> t] :
                         o \in 1 .. Len(states), t \in 0 .. MaxNow[backend]}
  <2>3. ASSUME NEW c \in Callers PROVE flushing[c] \in {Idle} \cup waits \cup asks
    <3>1. CASE flushing[c] = Idle BY <3>1
    <3>2. ASSUME NEW p \in {"insert", "setGenesis"}, NEW i \in 1 .. Len(minted), Awaits(c, p, i)
          PROVE  flushing[c] \in waits
      BY <3>2 DEF Awaits
    <3>3. ASSUME NEW o \in 1 .. Len(states), NEW t \in 0 .. MaxNow[backend],
                 flushing[c] = [pc |-> "last", obj |-> o, builtAt |-> t]
          PROVE  flushing[c] \in asks
      BY <3>3
    <3> HIDE DEF waits, asks
    <3> QED BY <3>1, <3>2, <3>3 DEF JInv, AwaitOrIdle
  <2> HIDE DEF waits, asks
  <2>4. flushing \in [Callers -> {Idle} \cup waits \cup asks] BY <2>3 DEF IInv, Shape
  <2> QED BY <2>1, <2>2, <2>4 DEF TypeOK, JInv, Bounds, waits, asks
<1> QED BY <1>1, Inductive, InductiveJ, PTL

\* Of a session that no awaiting caller flushed, every state object that left
\* the collector is attested by exactly one receipt with all its dispositions:
\* session/end and SIGTERM seal and delete in one step.
THEOREM EveryDecisionAttestedOnceHolds == Spec => []EveryDecisionAttestedOnce
<1>1. JInv => EveryDecisionAttestedOnce BY DEF JInv
<1> QED BY <1>1, InductiveJ, PTL

\* The awaited path moves receipt_genesis only to a stored receipt: insertReceipt
\* resolves before setGenesisHash is called, and rows are never removed.
THEOREM AwaitedTipIsStoredHolds == Spec => []AwaitedTipIsStored
<1>1. JInv => AwaitedTipIsStored BY DEF JInv
<1> QED BY <1>1, InductiveJ, PTL

=============================================================================
