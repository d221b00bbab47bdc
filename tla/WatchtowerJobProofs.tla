------------------------- MODULE WatchtowerJobProofs -------------------------
(***************************************************************************)
(* Proofs about the hourly job, for any finite set of runs, any number of  *)
(* overlapping jobs and any bounds.                                        *)
(***************************************************************************)
EXTENDS WatchtowerJob, SequenceTheorems, FiniteSetTheorems, TLAPS

\* A sequence, over whatever set its elements are in.
IsSeq(q) == \E S : q \in Seq(S)

LEMMA AppendSeq ==
  ASSUME NEW q, NEW e, IsSeq(q)
  PROVE  /\ IsSeq(Append(q, e)) /\ Len(q) \in Nat /\ Len(Append(q, e)) = Len(q) + 1
         /\ \A i \in 1 .. Len(q) : Append(q, e)[i] = q[i]
         /\ Append(q, e)[Len(q) + 1] = e
<1>1. PICK S : q \in Seq(S) BY DEF IsSeq
<1>2. q \in Seq(S \cup {e}) BY <1>1, SeqMonotonic
<1> QED BY <1>2, AppendProperties DEF IsSeq

\* What a job is given to do: distinct runs, none of them decided.
LEMMA TodoList ==
  ASSUME NEW todo \in SetToSeqs(Runs \ Decided)
  PROVE  /\ todo \in Seq(Runs)
         /\ \A i \in 1 .. Len(todo) : todo[i] \notin Decided
         /\ \A i, k \in 1 .. Len(todo) : todo[i] = todo[k] => i = k
<1> DEFINE S == Runs \ Decided
<1>1. Cardinality(S) \in Nat
  BY RunsAssumption, FS_Subset, FS_CardinalityType
<1>2. /\ todo \in [1 .. Cardinality(S) -> S]
      /\ \A i, k \in 1 .. Cardinality(S) : i # k => todo[i] # todo[k]
  BY DEF SetToSeqs
<1> HIDE DEF S
<1>3. todo \in Seq(S) /\ Len(todo) = Cardinality(S)
  BY <1>1, <1>2
<1>4. todo \in Seq(Runs) BY <1>3, SeqMonotonic DEF S
<1> QED BY <1>1, <1>2, <1>3, <1>4 DEF S

\* Where a job goes when it is done with the head of its list.
LEMMA ContinueCases ==
  ASSUME NEW j, NEW h, jobs[j].todo \in Seq(Runs), jobs[j].todo # <<>>
  PROVE  \/ Continue(j, h) = Idle
         \/ /\ Continue(j, h).pc = "join" /\ Continue(j, h).prevHash = h
            /\ Continue(j, h).todo \in Seq(Runs) /\ Continue(j, h).todo # <<>>
            /\ Len(Continue(j, h).todo) = Len(jobs[j].todo) - 1
            /\ \A i \in 1 .. Len(Continue(j, h).todo) : Continue(j, h).todo[i] = jobs[j].todo[i + 1]
<1> DEFINE rest == Tail(jobs[j].todo)
<1>1. /\ rest \in Seq(Runs) /\ Len(rest) = Len(jobs[j].todo) - 1
      /\ \A i \in 1 .. Len(rest) : rest[i] = jobs[j].todo[i + 1]
  BY HeadTailProperties
<1> HIDE DEF rest
<1>2. Continue(j, h) = IF rest = <<>> THEN Idle ELSE [pc |-> "join", todo |-> rest, prevHash |-> h]
  BY DEF Continue, rest
<1> QED BY <1>1, <1>2

-----------------------------------------------------------------------------
Shape == IsSeq(rows) /\ TypeOK

LEMMA JobsMove ==
  ASSUME NEW j \in Jobs, NEW e, DOMAIN jobs = Jobs, jobs' = [jobs EXCEPT ![j] = e]
  PROVE  DOMAIN jobs' = Jobs /\ jobs'[j] = e /\ \A k \in Jobs : k # j => jobs'[k] = jobs[k]
OBVIOUS

\* The receipt a job has just sealed.
LEMMA SealedIsReceipt ==
  ASSUME NEW run \in Runs, NEW pr, NEW ci, NEW h, Shape
  PROVE  LET r == GenerateReceipt([run |-> run, outcome |-> DeriveOutcome(pr, ci), prevHash |-> h,
                    builtAt |-> IF BuiltAt[run] = NoTime THEN now ELSE BuiltAt[run]])
         IN  IsReceipt(r) /\ r.body.run = run /\ r.body.prevHash = h
<1>1. DeriveOutcome(pr, ci) \in Outcomes BY DEF DeriveOutcome, Outcomes
<1>2. (IF BuiltAt[run] = NoTime THEN now ELSE BuiltAt[run]) \in Nat
  BY RunsAssumption DEF Shape, TypeOK
<1> QED BY <1>1, <1>2 DEF GenerateReceipt, IsReceipt, ContentHashHolds

THEOREM InitShape == Init => Shape
<1> SUFFICES ASSUME Init PROVE Shape
  OBVIOUS
<1>1. IsSeq(rows) /\ Len(rows) = 0
  <2>1. <<>> \in Seq({}) OBVIOUS
  <2> QED BY <2>1 DEF IsSeq, Init
<1>2. TypeOK
  BY <1>1 DEF Init, TypeOK, JobOK
<1> QED BY <1>1, <1>2 DEF Shape

THEOREM NextShape == Shape /\ [Next]_vars => Shape'
<1> SUFFICES ASSUME Shape, [Next]_vars PROVE Shape'
  OBVIOUS
<1> USE DEF Shape
<1>j. ASSUME NEW j \in Jobs, NEW e, JobOK(e), jobs' = [jobs EXCEPT ![j] = e]
      PROVE  DOMAIN jobs' = Jobs /\ \A k \in Jobs : JobOK(jobs'[k])
  BY <1>j, JobsMove DEF TypeOK
<1>i. JobOK(Idle) BY DEF JobOK
<1>l. lapses \cup {x \in {"overlap"} : TRUE} \subseteq {"overlap", "unread", "backdated", "firstRefused"}
  BY DEF TypeOK
<1>1. CASE Tick BY <1>1 DEF Tick, setting, TypeOK, JobOK
<1>2. CASE Migrate BY <1>2 DEF Migrate, TypeOK
<1>3. ASSUME NEW j \in Jobs, JobFind(j) PROVE Shape'
  <2>1. PICK todo \in SetToSeqs(Runs \ Decided) : jobs' = [jobs EXCEPT ![j] = [pc |-> "list", todo |-> todo]]
    BY <1>3 DEF JobFind
  <2>2. JobOK([pc |-> "list", todo |-> todo]) BY TodoList DEF JobOK
  <2>3. DOMAIN jobs' = Jobs /\ \A k \in Jobs : JobOK(jobs'[k]) BY <2>1, <2>2, <1>j
  <2>4. lapses' \subseteq {"overlap", "unread", "backdated", "firstRefused"}
    BY <1>3 DEF JobFind, TypeOK
  <2> QED BY <2>3, <2>4, <1>3 DEF JobFind, setting, TypeOK
<1>4. ASSUME NEW j \in Jobs, JobTip(j) PROVE Shape'
  <2>1. PICK tip : jobs' = [jobs EXCEPT ![j] = IF jobs[j].todo = <<>> THEN Idle
                     ELSE [pc |-> "join", todo |-> jobs[j].todo, prevHash |-> tip]]
    BY <1>4 DEF JobTip
  <2>2. jobs[j].todo \in Seq(Runs) BY <1>4 DEF JobTip, Waiting, TypeOK, JobOK, Idle
  <2>3. JobOK(IF jobs[j].todo = <<>> THEN Idle ELSE [pc |-> "join", todo |-> jobs[j].todo, prevHash |-> tip])
    BY <2>2 DEF JobOK
  <2>4. DOMAIN jobs' = Jobs /\ \A k \in Jobs : JobOK(jobs'[k]) BY <2>1, <2>3, <1>j
  <2>5. lapses' \subseteq {"overlap", "unread", "backdated", "firstRefused"}
    BY <1>4 DEF JobTip, TypeOK
  <2> QED BY <2>4, <2>5, <1>4 DEF JobTip, setting, TypeOK
<1>5. ASSUME NEW j \in Jobs, JobJoin(j) PROVE Shape'
  <2> DEFINE run == Head(jobs[j].todo)
  <2>1. jobs[j].todo \in Seq(Runs) /\ jobs[j].todo # <<>> /\ run \in Runs
    <3>1. jobs[j].todo \in Seq(Runs) /\ jobs[j].todo # <<>>
      BY <1>5 DEF JobJoin, Waiting, TypeOK, JobOK, Idle
    <3> QED BY <3>1, HeadTailProperties
  <2>2. PICK pr, ci : jobs' = [jobs EXCEPT ![j] =
          [pc |-> "insert", todo |-> jobs[j].todo,
           receipt |-> GenerateReceipt(
             [run |-> run, outcome |-> DeriveOutcome(pr, ci), prevHash |-> jobs[j].prevHash,
              builtAt |-> IF BuiltAt[run] = NoTime THEN now ELSE BuiltAt[run]])]]
    BY <1>5 DEF JobJoin
  <2> HIDE DEF run
  <2> DEFINE r == GenerateReceipt(
             [run |-> run, outcome |-> DeriveOutcome(pr, ci), prevHash |-> jobs[j].prevHash,
              builtAt |-> IF BuiltAt[run] = NoTime THEN now ELSE BuiltAt[run]])
  <2>3. IsReceipt(r) /\ r.body.run = run BY <2>1, SealedIsReceipt
  <2> HIDE DEF r
  <2>4. JobOK([pc |-> "insert", todo |-> jobs[j].todo, receipt |-> r])
    BY <2>1, <2>3 DEF JobOK, run
  <2>5. DOMAIN jobs' = Jobs /\ \A k \in Jobs : JobOK(jobs'[k]) BY <2>2, <2>4, <1>j DEF r
  <2> QED BY <2>5, <1>5 DEF JobJoin, setting, TypeOK
<1>6. ASSUME NEW j \in Jobs, NEW answered \in BOOLEAN, JobInsert(j, answered) PROVE Shape'
  <2> DEFINE r == jobs[j].receipt
  <2>1. /\ jobs[j].todo \in Seq(Runs) /\ jobs[j].todo # <<>>
        /\ IsReceipt(r) /\ r.body.run = Head(jobs[j].todo)
    BY <1>6 DEF JobInsert, Waiting, TypeOK, JobOK, Idle
  <2>2. IsSeq(rows') /\ \A i \in 1 .. Len(rows') : IsReceipt(rows'[i])
    <3>1. rows' = Append(rows, r) BY <1>6 DEF JobInsert
    <3>2. /\ IsSeq(rows') /\ Len(rows) \in Nat /\ Len(rows') = Len(rows) + 1
          /\ \A i \in 1 .. Len(rows) : rows'[i] = rows[i]
          /\ rows'[Len(rows) + 1] = r
      BY <3>1, AppendSeq
    <3> HIDE DEF r
    <3> QED BY <3>2, <2>1 DEF TypeOK
  <2>3. JobOK(Continue(j, r.hash)) BY <2>1, ContinueCases, <1>i DEF JobOK
  <2>4. JobOK([pc |-> "post", todo |-> jobs[j].todo, receipt |-> r]) BY <2>1 DEF JobOK
  <2>5. DOMAIN jobs' = Jobs /\ \A k \in Jobs : JobOK(jobs'[k])
    <3>1. PICK e : JobOK(e) /\ jobs' = [jobs EXCEPT ![j] = e]
      <4>1. jobs' = [jobs EXCEPT ![j] = IF ~answered THEN Idle
              ELSE IF r.body.outcome = "needs-human" THEN [pc |-> "post", todo |-> jobs[j].todo, receipt |-> r]
              ELSE Continue(j, r.hash)]
        BY <1>6 DEF JobInsert
      <4> QED BY <4>1, <2>3, <2>4, <1>i
    <3> QED BY <3>1, <1>j
  <2>6. lapses' \subseteq {"overlap", "unread", "backdated", "firstRefused"}
    BY <1>6 DEF JobInsert, TypeOK
  <2> QED BY <2>2, <2>5, <2>6, <1>6 DEF JobInsert, setting, TypeOK
<1>7. ASSUME NEW j \in Jobs, JobRefused(j) PROVE Shape'
  <2>1. DOMAIN jobs' = Jobs /\ \A k \in Jobs : JobOK(jobs'[k]) BY <1>7, <1>i, <1>j DEF JobRefused
  <2>2. lapses' \subseteq {"overlap", "unread", "backdated", "firstRefused"}
    BY <1>7 DEF JobRefused, TypeOK
  <2> QED BY <2>1, <2>2, <1>7 DEF JobRefused, setting, TypeOK
<1>8. ASSUME NEW j \in Jobs, JobPost(j) PROVE Shape'
  <2>1. jobs[j].todo \in Seq(Runs) /\ jobs[j].todo # <<>> /\ IsReceipt(jobs[j].receipt)
    BY <1>8 DEF JobPost, Waiting, TypeOK, JobOK, Idle
  <2>2. JobOK(Continue(j, jobs[j].receipt.hash)) BY <2>1, ContinueCases, <1>i DEF JobOK
  <2>3. DOMAIN jobs' = Jobs /\ \A k \in Jobs : JobOK(jobs'[k]) BY <1>8, <2>2, <1>j DEF JobPost
  <2>4. checks' \in [Runs -> {"none", "action_required"}]
    BY <1>8, <2>1 DEF JobPost, TypeOK, IsReceipt
  <2> QED BY <2>3, <2>4, <1>8 DEF JobPost, setting, TypeOK
<1>9. ASSUME NEW j \in Jobs, JobFails(j) PROVE Shape'
  <2>1. DOMAIN jobs' = Jobs /\ \A k \in Jobs : JobOK(jobs'[k]) BY <1>9, <1>i, <1>j DEF JobFails
  <2> QED BY <2>1, <1>9 DEF JobFails, setting, TypeOK
<1>10. CASE UNCHANGED vars BY <1>10 DEF vars, TypeOK, JobOK
<1> QED BY <1>1, <1>2, <1>3, <1>4, <1>5, <1>6, <1>7, <1>8, <1>9, <1>10 DEF Next

-----------------------------------------------------------------------------
\* Actions that leave the table alone.
Quiet(j) == JobFind(j) \/ JobTip(j) \/ JobJoin(j) \/ JobRefused(j) \/ JobPost(j) \/ JobFails(j)

LEMMA QuietKeepsRows ==
  ASSUME NEW j \in Jobs, Quiet(j)
  PROVE  rows' = rows /\ joined' = joined
BY DEF Quiet, JobFind, JobTip, JobJoin, JobRefused, JobPost, JobFails, setting

LEMMA InsertAppends ==
  ASSUME NEW j \in Jobs, NEW answered \in BOOLEAN, Shape, JobInsert(j, answered)
  PROVE  /\ Len(rows) \in Nat /\ Len(rows') = Len(rows) + 1
         /\ \A i \in 1 .. Len(rows) : rows'[i] = rows[i]
         /\ rows'[Len(rows) + 1] = jobs[j].receipt
         /\ IsReceipt(jobs[j].receipt) /\ jobs[j].receipt.body.run = Head(jobs[j].todo)
<1>1. rows' = Append(rows, jobs[j].receipt) BY DEF JobInsert
<1>2. IsReceipt(jobs[j].receipt) /\ jobs[j].receipt.body.run = Head(jobs[j].todo)
  BY DEF JobInsert, Waiting, Shape, TypeOK, JobOK, Idle
<1> QED BY <1>1, <1>2, AppendSeq DEF Shape

\* Where a step takes the job that takes it, and that it takes no other.
LEMMA Moves ==
  ASSUME NEW j \in Jobs, Shape, Quiet(j) \/ \E answered \in BOOLEAN : JobInsert(j, answered)
  PROVE  /\ \A k \in Jobs : k # j => jobs'[k] = jobs[k]
         /\ \/ jobs'[j] = Idle
            \/ /\ JobFind(j) /\ jobs'[j].pc = "list" /\ jobs'[j].todo \in SetToSeqs(Runs \ Decided)
            \/ /\ JobTip(j) /\ jobs'[j].pc = "join" /\ jobs'[j].todo = jobs[j].todo
               /\ \/ jobs'[j].prevHash = Genesis /\ (rows # <<>> => "unread" \in lapses')
                  \/ \E i \in Latest(rows) : jobs'[j].prevHash = rows[i].hash
            \/ /\ JobJoin(j) /\ jobs'[j].pc = "insert" /\ jobs'[j].todo = jobs[j].todo
               /\ jobs'[j].receipt.body.prevHash = jobs[j].prevHash
            \/ /\ \E answered \in BOOLEAN : JobInsert(j, answered)
               /\ jobs'[j].pc = "post" /\ jobs'[j].todo = jobs[j].todo
               /\ jobs'[j].receipt = jobs[j].receipt /\ jobs[j].receipt.body.outcome = "needs-human"
            \/ /\ JobPost(j) \/ \E answered \in BOOLEAN : JobInsert(j, answered)
               /\ jobs'[j].pc = "join" /\ jobs'[j].prevHash = jobs[j].receipt.hash
               /\ jobs[j].todo \in Seq(Runs) /\ Len(jobs'[j].todo) = Len(jobs[j].todo) - 1
               /\ \A i \in 1 .. Len(jobs'[j].todo) : jobs'[j].todo[i] = jobs[j].todo[i + 1]
<1> DEFINE Others == \A k \in Jobs : k # j => jobs'[k] = jobs[k]
<1>d. DOMAIN jobs = Jobs BY DEF Shape, TypeOK
<1>1. CASE JobFind(j)
  <2>1. PICK todo \in SetToSeqs(Runs \ Decided) : jobs' = [jobs EXCEPT ![j] = [pc |-> "list", todo |-> todo]]
    BY <1>1 DEF JobFind
  <2> QED BY <1>1, <2>1, <1>d
<1>2. CASE JobTip(j)
  <2>1. PICK tip \in {Genesis} \cup {rows[i].hash : i \in Latest(rows)} :
          /\ jobs' = [jobs EXCEPT ![j] = IF jobs[j].todo = <<>> THEN Idle
                        ELSE [pc |-> "join", todo |-> jobs[j].todo, prevHash |-> tip]]
          /\ lapses' = lapses \cup {x \in {"unread"} : tip = Genesis /\ rows # <<>>}
    BY <1>2 DEF JobTip
  <2>2. tip = Genesis /\ rows # <<>> => "unread" \in lapses' BY <2>1
  <2> QED BY <1>2, <2>1, <2>2, <1>d
<1>3. CASE JobJoin(j)
  <2> DEFINE run == Head(jobs[j].todo)
  <2>1. PICK pr, ci : jobs' = [jobs EXCEPT ![j] =
          [pc |-> "insert", todo |-> jobs[j].todo,
           receipt |-> GenerateReceipt(
             [run |-> run, outcome |-> DeriveOutcome(pr, ci), prevHash |-> jobs[j].prevHash,
              builtAt |-> IF BuiltAt[run] = NoTime THEN now ELSE BuiltAt[run]])]]
    BY <1>3 DEF JobJoin
  <2> QED BY <1>3, <2>1, <1>d DEF GenerateReceipt
<1>4. ASSUME NEW answered \in BOOLEAN, JobInsert(j, answered)
      PROVE  \/ jobs'[j] = Idle
             \/ jobs[j].receipt.body.outcome = "needs-human"
                /\ jobs'[j] = [pc |-> "post", todo |-> jobs[j].todo, receipt |-> jobs[j].receipt]
             \/ jobs'[j] = Continue(j, jobs[j].receipt.hash)
  BY <1>4, <1>d DEF JobInsert
<1>5. ASSUME NEW answered \in BOOLEAN, JobInsert(j, answered)
      PROVE  Others /\ jobs[j].todo \in Seq(Runs) /\ jobs[j].todo # <<>>
  <2>1. Others BY <1>5, <1>d DEF JobInsert
  <2>2. jobs[j].todo \in Seq(Runs) /\ jobs[j].todo # <<>>
    BY <1>5 DEF JobInsert, Waiting, Shape, TypeOK, JobOK, Idle
  <2> QED BY <2>1, <2>2
<1>6. CASE \E answered \in BOOLEAN : JobInsert(j, answered)
  BY <1>4, <1>5, <1>6, ContinueCases
<1>7. CASE JobRefused(j) BY <1>7, <1>d DEF JobRefused
<1>8. CASE JobPost(j)
  <2>1. jobs[j].todo \in Seq(Runs) /\ jobs[j].todo # <<>>
    BY <1>8 DEF JobPost, Waiting, Shape, TypeOK, JobOK, Idle
  <2>2. Others /\ jobs'[j] = Continue(j, jobs[j].receipt.hash) BY <1>8, <1>d DEF JobPost
  <2> QED BY <1>8, <2>1, <2>2, ContinueCases
<1>9. CASE JobFails(j) BY <1>9, <1>d DEF JobFails
<1> QED BY <1>1, <1>2, <1>3, <1>6, <1>7, <1>8, <1>9 DEF Quiet

-----------------------------------------------------------------------------
\* A prevHash on its way to the table is known there already.
Known == {Genesis} \cup Stored

Chained ==
  /\ NoDanglingPrevHash
  /\ \A j \in Jobs :
       /\ jobs[j].pc = "join" => jobs[j].prevHash \in Known
       /\ jobs[j].pc = "insert" => jobs[j].receipt.body.prevHash \in Known
       /\ jobs[j].pc = "post" => \E i \in 1 .. Len(rows) : rows[i] = jobs[j].receipt

THEOREM InitChained == Init => Chained
<1> SUFFICES ASSUME Init PROVE Chained
  OBVIOUS
<1>1. Len(rows) = 0 BY DEF Init
<1> QED BY <1>1 DEF Init, Chained, NoDanglingPrevHash, Idle

LEMMA QuietChained ==
  ASSUME NEW j \in Jobs, Shape, Chained, Quiet(j)
  PROVE  Chained'
<1>1. rows' = rows /\ Known' = Known BY QuietKeepsRows DEF Known, Stored
<1>2. NoDanglingPrevHash' BY <1>1 DEF Chained, NoDanglingPrevHash
<1>3. ASSUME NEW k \in Jobs
      PROVE  /\ jobs'[k].pc = "join" => jobs'[k].prevHash \in Known
             /\ jobs'[k].pc = "insert" => jobs'[k].receipt.body.prevHash \in Known
             /\ jobs'[k].pc = "post" => \E i \in 1 .. Len(rows) : rows[i] = jobs'[k].receipt
  <2>1. CASE k # j BY <2>1, Moves DEF Chained
  <2>2. CASE jobs'[j] = Idle /\ k = j BY <2>2 DEF Idle
  <2>3. CASE jobs'[j].pc = "list" /\ k = j BY <2>3
  <2>4. CASE /\ jobs'[j].pc = "join" /\ k = j
             /\ jobs'[j].prevHash = Genesis \/ \E i \in Latest(rows) : jobs'[j].prevHash = rows[i].hash
    BY <2>4 DEF Known, Stored, Latest
  <2>5. CASE /\ JobJoin(j) /\ jobs'[j].pc = "insert" /\ k = j
             /\ jobs'[j].receipt.body.prevHash = jobs[j].prevHash
    BY <2>5 DEF Chained, JobJoin, Waiting
  <2>6. CASE /\ JobPost(j) /\ jobs'[j].pc = "join" /\ k = j
             /\ jobs'[j].prevHash = jobs[j].receipt.hash
    BY <2>6 DEF Chained, JobPost, Waiting, Known, Stored
  <2>7. ~ \E answered \in BOOLEAN : JobInsert(j, answered)
    BY <1>1, AppendSeq DEF JobInsert, Shape
  <2> QED BY <2>1, <2>2, <2>3, <2>4, <2>5, <2>6, <2>7, Moves
<1> QED BY <1>1, <1>2, <1>3 DEF Chained

LEMMA InsertChained ==
  ASSUME NEW j \in Jobs, NEW answered \in BOOLEAN, Shape, Chained, JobInsert(j, answered)
  PROVE  Chained'
<1> DEFINE r == jobs[j].receipt
<1>0. PICK n \in Nat : n = Len(rows) BY InsertAppends
<1>1. /\ Len(rows') = n + 1 /\ rows'[n + 1] = r
      /\ \A i \in 1 .. n : rows'[i] = rows[i]
  BY <1>0, InsertAppends
<1>2. r.body.prevHash \in Known BY DEF Chained, JobInsert, Waiting
<1>3. \A h \in Known : h = Genesis \/ \E k \in 1 .. n : rows[k].hash = h
  BY <1>0 DEF Known, Stored
<1>4. Known \subseteq Known' /\ r.hash \in Known'
  <2>1. Stored' = {rows'[i].hash : i \in 1 .. n + 1} BY <1>1 DEF Stored
  <2>2. n + 1 \in 1 .. n + 1 /\ 1 .. n \subseteq 1 .. n + 1 OBVIOUS
  <2> QED BY <2>1, <2>2, <1>0, <1>1 DEF Known, Stored
<1>5. NoDanglingPrevHash'
  <2> SUFFICES ASSUME NEW i \in 1 .. n + 1, rows'[i].body.prevHash # Genesis
               PROVE  \E k \in 1 .. (i - 1) : rows'[k].hash = rows'[i].body.prevHash
    BY <1>1 DEF NoDanglingPrevHash
  <2>1. CASE i = n + 1
    <3>1. PICK k \in 1 .. n : rows[k].hash = r.body.prevHash BY <2>1, <1>1, <1>2, <1>3
    <3> QED BY <3>1, <2>1, <1>1
  <2>2. CASE i # n + 1
    <3>1. i \in 1 .. n /\ rows'[i] = rows[i] BY <2>2, <1>1
    <3>2. PICK k \in 1 .. (i - 1) : rows[k].hash = rows[i].body.prevHash
      BY <3>1, <1>0 DEF Chained, NoDanglingPrevHash
    <3>3. k \in 1 .. n BY <3>1
    <3> QED BY <3>1, <3>2, <3>3, <1>1
  <2> QED BY <2>1, <2>2
<1>6. ASSUME NEW k \in Jobs
      PROVE  /\ jobs'[k].pc = "join" => jobs'[k].prevHash \in Known'
             /\ jobs'[k].pc = "insert" => jobs'[k].receipt.body.prevHash \in Known'
             /\ jobs'[k].pc = "post" => \E i \in 1 .. n + 1 : rows'[i] = jobs'[k].receipt
  <2>1. CASE k # j
    <3>1. jobs'[k] = jobs[k] BY <2>1, Moves
    <3>2. jobs[k].pc = "post" => \E i \in 1 .. n : rows[i] = jobs[k].receipt
      BY <1>0 DEF Chained
    <3>3. jobs[k].pc = "post" => \E i \in 1 .. n + 1 : rows'[i] = jobs[k].receipt
      BY <3>2, <1>1
    <3> QED BY <3>1, <3>3, <1>4 DEF Chained
  <2>2. CASE jobs'[j] = Idle /\ k = j BY <2>2 DEF Idle
  <2>3. CASE jobs'[j].pc = "post" /\ jobs'[j].receipt = r /\ k = j BY <2>3, <1>1
  <2>4. CASE jobs'[j].pc = "join" /\ jobs'[j].prevHash = r.hash /\ k = j BY <2>4, <1>4
  <2>5. ~JobFind(j) /\ ~JobTip(j) /\ ~JobJoin(j) BY DEF JobInsert, JobFind, JobTip, JobJoin, Waiting
  <2> QED BY <2>1, <2>2, <2>3, <2>4, <2>5, Moves
<1>7. \A k \in Jobs : jobs'[k].pc = "post" => \E i \in 1 .. Len(rows') : rows'[i] = jobs'[k].receipt
  BY <1>1, <1>6
<1> QED BY <1>5, <1>6, <1>7 DEF Chained

THEOREM NextChained == Shape /\ Chained /\ [Next]_vars => Chained'
<1> SUFFICES ASSUME Shape, Chained, [Next]_vars PROVE Chained'
  OBVIOUS
<1>1. CASE Tick \/ Migrate \/ UNCHANGED vars
  <2>1. rows' = rows /\ jobs' = jobs BY <1>1 DEF Tick, Migrate, vars
  <2> QED BY <2>1 DEF Chained, NoDanglingPrevHash, Known, Stored
<1> QED BY <1>1, QuietChained, InsertChained DEF Next, Quiet

\* Every stored receipt chains on genesis or on one stored before it, however
\* the jobs overlap, fail or are refused.
THEOREM PrevHashNeverDangles == Spec => []NoDanglingPrevHash
<1> DEFINE I == Shape /\ Chained
<1>1. Init => I BY InitShape, InitChained
<1>2. I /\ [Next]_vars => I' BY NextShape, NextChained
<1>3. I => NoDanglingPrevHash BY DEF Chained
<1> HIDE DEF I
<1> QED BY <1>1, <1>2, <1>3, PTL DEF Spec

-----------------------------------------------------------------------------
\* A job posts for a receipt that asks for review.
Blocked ==
  /\ BlockedIsStored
  /\ \A j \in Jobs : jobs[j].pc = "post" => jobs[j].receipt.body.outcome = "needs-human"

THEOREM NextBlocked == Shape /\ Chained /\ Blocked /\ [Next]_vars => Blocked'
<1> SUFFICES ASSUME Shape, Chained, Blocked, [Next]_vars PROVE Blocked'
  OBVIOUS
<1>1. CASE Tick \/ Migrate \/ UNCHANGED vars
  <2>1. rows' = rows /\ jobs' = jobs /\ checks' = checks BY <1>1 DEF Tick, Migrate, vars
  <2> QED BY <2>1 DEF Blocked, BlockedIsStored
<1>2. ASSUME NEW j \in Jobs, Quiet(j) \/ \E answered \in BOOLEAN : JobInsert(j, answered)
      PROVE  \A k \in Jobs : jobs'[k].pc = "post" => jobs'[k].receipt.body.outcome = "needs-human"
  BY <1>2, Moves DEF Blocked, Idle
<1>3. ASSUME NEW j \in Jobs, NEW answered \in BOOLEAN, JobInsert(j, answered) PROVE BlockedIsStored'
  <2>1. PICK n \in Nat : n = Len(rows) BY <1>3, InsertAppends
  <2>2. Len(rows') = n + 1 /\ \A i \in 1 .. n : rows'[i] = rows[i] BY <1>3, <2>1, InsertAppends
  <2>3. checks' = checks BY <1>3 DEF JobInsert
  <2>4. 1 .. n \subseteq 1 .. n + 1 OBVIOUS
  <2> QED BY <2>1, <2>2, <2>3, <2>4 DEF Blocked, BlockedIsStored
<1>4. ASSUME NEW j \in Jobs, JobPost(j) PROVE BlockedIsStored'
  <2>1. rows' = rows BY <1>4 DEF JobPost
  <2>2. \E i \in 1 .. Len(rows) : rows[i] = jobs[j].receipt BY <1>4 DEF JobPost, Waiting, Chained
  <2>3. jobs[j].receipt.body.outcome = "needs-human" BY <1>4 DEF JobPost, Waiting, Blocked
  <2>4. \A r \in Runs : checks'[r] = checks[r] \/ r = jobs[j].receipt.body.run
    BY <1>4 DEF JobPost, Shape, TypeOK
  <2> QED BY <2>1, <2>2, <2>3, <2>4 DEF Blocked, BlockedIsStored
<1>5. ASSUME NEW j \in Jobs, Quiet(j), ~JobPost(j) PROVE BlockedIsStored'
  <2>1. checks' = checks
    BY <1>5 DEF Quiet, JobFind, JobTip, JobJoin, JobRefused, JobFails
  <2> QED BY <1>5, <2>1, QuietKeepsRows DEF Blocked, BlockedIsStored
<1>6. ASSUME NEW j \in Jobs, Quiet(j) \/ \E answered \in BOOLEAN : JobInsert(j, answered) PROVE Blocked'
  BY <1>6, <1>2, <1>3, <1>4, <1>5 DEF Blocked
<1> QED BY <1>1, <1>6 DEF Next, Quiet

\* A commit is blocked for review only when the receipt that says so is stored.
THEOREM BlockedOnlyWhenStored == Spec => []BlockedIsStored
<1> DEFINE I == Shape /\ Chained /\ Blocked
<1>1. Init => I
  <2>1. Init => Blocked BY DEF Init, Blocked, BlockedIsStored, Idle
  <2> QED BY <2>1, InitShape, InitChained
<1>2. I /\ [Next]_vars => I' BY NextShape, NextChained, NextBlocked
<1>3. I => BlockedIsStored BY DEF Blocked
<1> HIDE DEF I
<1> QED BY <1>1, <1>2, <1>3, PTL DEF Spec

-----------------------------------------------------------------------------
\* Until jobs overlap, one of them is under way at a time.
Alone ==
  "overlap" \notin lapses =>
    \A j, k \in Jobs : jobs[j].pc # "idle" /\ jobs[k].pc # "idle" => j = k

\* Every step but JobFind is one of a job that is under way.
LEMMA UnderWay ==
  ASSUME NEW j \in Jobs, Quiet(j) \/ \E answered \in BOOLEAN : JobInsert(j, answered)
  PROVE  /\ lapses \subseteq lapses'
         /\ JobFind(j) /\ "overlap" \notin lapses' => \A k \in Jobs : k # j => jobs[k].pc = "idle"
         /\ ~JobFind(j) => jobs[j].pc # "idle"
<1>1. lapses \subseteq lapses'
  BY DEF Quiet, JobFind, JobTip, JobJoin, JobRefused, JobPost, JobFails, JobInsert
<1>2. JobFind(j) /\ "overlap" \notin lapses' => \A k \in Jobs : k # j => jobs[k].pc = "idle"
  BY DEF JobFind, Waiting
<1>3. ~JobFind(j) => jobs[j].pc # "idle"
  BY DEF Quiet, JobTip, JobJoin, JobRefused, JobPost, JobFails, JobInsert, Waiting
<1> QED BY <1>1, <1>2, <1>3

THEOREM NextAlone == Shape /\ Alone /\ [Next]_vars => Alone'
<1> SUFFICES ASSUME Shape, Alone, [Next]_vars PROVE Alone'
  OBVIOUS
<1>1. CASE Tick \/ Migrate \/ UNCHANGED vars
  BY <1>1 DEF Tick, Migrate, vars, Alone
<1>2. ASSUME NEW j \in Jobs, Quiet(j) \/ \E answered \in BOOLEAN : JobInsert(j, answered) PROVE Alone'
  <2>1. \A k \in Jobs : k # j => jobs'[k] = jobs[k] BY <1>2, Moves
  <2> QED BY <1>2, <2>1, UnderWay DEF Alone
<1> QED BY <1>1, <1>2 DEF Next, Quiet

\* The part of a job's list that is not stored.
Ahead(job) == (IF job.pc = "post" THEN 2 ELSE 1) .. Len(job.todo)

\* What a job still has before it is decided by no receipt.
Once ==
  joined /\ "overlap" \notin lapses =>
    /\ RunsAttestedOnce
    /\ \A j \in Jobs : jobs[j].pc # "idle" =>
         /\ \A i, k \in 1 .. Len(jobs[j].todo) : jobs[j].todo[i] = jobs[j].todo[k] => i = k
         /\ \A i \in Ahead(jobs[j]) : jobs[j].todo[i] \notin Attested

LEMMA QuietOnce ==
  ASSUME NEW j \in Jobs, Shape, Once, Quiet(j)
  PROVE  Once'
<1> SUFFICES ASSUME joined', "overlap" \notin lapses'
             PROVE  /\ RunsAttestedOnce'
                    /\ \A k \in Jobs : jobs'[k].pc # "idle" =>
                         /\ \A i, m \in 1 .. Len(jobs'[k].todo) : jobs'[k].todo[i] = jobs'[k].todo[m] => i = m
                         /\ \A i \in Ahead(jobs'[k]) : jobs'[k].todo[i] \notin Attested'
  BY DEF Once
<1>1. rows' = rows /\ joined /\ "overlap" \notin lapses /\ Attested' = Attested
  BY QuietKeepsRows, UnderWay DEF Attested
<1>2. RunsAttestedOnce' BY <1>1 DEF Once, RunsAttestedOnce
<1>3. ASSUME NEW k \in Jobs, jobs'[k].pc # "idle"
      PROVE  /\ \A i, m \in 1 .. Len(jobs'[k].todo) : jobs'[k].todo[i] = jobs'[k].todo[m] => i = m
             /\ \A i \in Ahead(jobs'[k]) : jobs'[k].todo[i] \notin Attested
  <2>1. CASE k # j BY <2>1, <1>1, <1>3, Moves DEF Once
  <2>2. CASE jobs'[j] = Idle /\ k = j BY <2>2, <1>3 DEF Idle
  <2>3. CASE jobs'[j].pc = "list" /\ jobs'[j].todo \in SetToSeqs(Runs \ Decided) /\ k = j
    BY <2>3, <1>1, TodoList DEF Ahead, Decided
  <2>4. CASE (JobTip(j) \/ JobJoin(j)) /\ jobs'[j].pc # "post" /\ jobs'[j].todo = jobs[j].todo /\ k = j
    <3>1. jobs[j].pc # "idle" /\ jobs[j].pc # "post" BY <2>4 DEF JobTip, JobJoin, Waiting
    <3> QED BY <2>4, <3>1, <1>1 DEF Once, Ahead
  <2>5. CASE /\ JobPost(j) /\ jobs'[j].pc = "join" /\ k = j
             /\ jobs[j].todo \in Seq(Runs) /\ Len(jobs'[j].todo) = Len(jobs[j].todo) - 1
             /\ \A i \in 1 .. Len(jobs'[j].todo) : jobs'[j].todo[i] = jobs[j].todo[i + 1]
    <3>1. PICK n \in Nat : n = Len(jobs[j].todo) BY <2>5, LenProperties
    <3>2. jobs[j].pc = "post" BY <2>5 DEF JobPost, Waiting
    <3>3. /\ \A i, m \in 1 .. n : jobs[j].todo[i] = jobs[j].todo[m] => i = m
          /\ \A i \in 2 .. n : jobs[j].todo[i] \notin Attested
      BY <3>1, <3>2, <1>1 DEF Once, Ahead
    <3>4. \A i \in 1 .. n - 1 : i + 1 \in 2 .. n /\ i + 1 \in 1 .. n OBVIOUS
    <3>5. \A i \in 1 .. n - 1 : jobs'[j].todo[i] = jobs[j].todo[i + 1] BY <2>5, <3>1
    <3>6. \A i, m \in 1 .. n - 1 : jobs'[j].todo[i] = jobs'[j].todo[m] => i = m
      <4> SUFFICES ASSUME NEW i \in 1 .. n - 1, NEW m \in 1 .. n - 1, jobs'[j].todo[i] = jobs'[j].todo[m]
                   PROVE  i = m
        OBVIOUS
      <4>1. i + 1 = m + 1 BY <3>3, <3>4, <3>5
      <4> QED BY <4>1
    <3>7. \A i \in 1 .. n - 1 : jobs'[j].todo[i] \notin Attested BY <3>3, <3>4, <3>5
    <3> QED BY <2>5, <3>1, <3>6, <3>7 DEF Ahead
  <2>6. ~ \E answered \in BOOLEAN : JobInsert(j, answered)
    BY <1>1, AppendSeq DEF JobInsert, Shape
  <2> QED BY <2>1, <2>2, <2>3, <2>4, <2>5, <2>6, Moves
<1> QED BY <1>1, <1>2, <1>3

LEMMA InsertOnce ==
  ASSUME NEW j \in Jobs, NEW answered \in BOOLEAN, Shape, Alone, Once, JobInsert(j, answered)
  PROVE  Once'
<1> SUFFICES ASSUME joined', "overlap" \notin lapses'
             PROVE  /\ RunsAttestedOnce'
                    /\ \A k \in Jobs : jobs'[k].pc # "idle" =>
                         /\ \A i, m \in 1 .. Len(jobs'[k].todo) : jobs'[k].todo[i] = jobs'[k].todo[m] => i = m
                         /\ \A i \in Ahead(jobs'[k]) : jobs'[k].todo[i] \notin Attested'
  BY DEF Once
<1> DEFINE r == jobs[j].receipt
           todo == jobs[j].todo
<1>1. joined /\ "overlap" \notin lapses BY UnderWay DEF JobInsert, setting
<1>2. jobs[j].pc = "insert" /\ todo \in Seq(Runs) /\ todo # <<>>
  BY DEF JobInsert, Waiting, Shape, TypeOK, JobOK, Idle
<1>3. PICK n \in Nat, m \in Nat : n = Len(rows) /\ m = Len(todo) /\ m # 0
  <2>1. Len(rows) \in Nat BY InsertAppends
  <2>2. Len(todo) \in Nat /\ Len(todo) # 0 BY <1>2, EmptySeq
  <2> QED BY <2>1, <2>2
<1>4. /\ Len(rows') = n + 1 /\ rows'[n + 1] = r /\ \A i \in 1 .. n : rows'[i] = rows[i]
      /\ r.body.run = todo[1]
  <2>1. r.body.run = Head(todo) BY InsertAppends
  <2>2. Head(todo) = todo[1] BY <1>2
  <2> QED BY <2>1, <2>2, <1>3, InsertAppends
<1>5. /\ \A i, k \in 1 .. m : todo[i] = todo[k] => i = k
      /\ \A i \in 1 .. m : todo[i] \notin Attested
  BY <1>1, <1>2, <1>3 DEF Once, Ahead
<1>6. Attested' = Attested \cup {todo[1]}
  <2>1. Attested' = {rows'[i].body.run : i \in 1 .. n + 1} BY <1>4 DEF Attested
  <2>2. Attested = {rows[i].body.run : i \in 1 .. n} BY <1>3 DEF Attested
  <2>3. 1 .. n + 1 = 1 .. n \cup {n + 1} OBVIOUS
  <2> QED BY <2>1, <2>2, <2>3, <1>4
<1>7. RunsAttestedOnce'
  <2> SUFFICES ASSUME NEW i \in 1 .. n + 1, NEW k \in 1 .. n + 1, rows'[i].body.run = rows'[k].body.run
               PROVE  i = k
    BY <1>4 DEF RunsAttestedOnce
  <2>1. \A x \in 1 .. n : rows'[x].body.run \in Attested BY <1>3, <1>4 DEF Attested
  <2>2. todo[1] \notin Attested BY <1>3, <1>5
  <2>3. CASE i \in 1 .. n /\ k \in 1 .. n BY <2>3, <1>1, <1>3, <1>4 DEF Once, RunsAttestedOnce
  <2>4. CASE i = n + 1 /\ k \in 1 .. n BY <2>1, <2>2, <2>4, <1>4
  <2>5. CASE i \in 1 .. n /\ k = n + 1 BY <2>1, <2>2, <2>5, <1>4
  <2> QED BY <2>3, <2>4, <2>5
<1>8. ASSUME NEW k \in Jobs, jobs'[k].pc # "idle"
      PROVE  /\ \A i, x \in 1 .. Len(jobs'[k].todo) : jobs'[k].todo[i] = jobs'[k].todo[x] => i = x
             /\ \A i \in Ahead(jobs'[k]) : jobs'[k].todo[i] \notin Attested'
  <2>1. k = j
    <3>1. k # j => jobs'[k] = jobs[k] BY Moves
    <3> QED BY <3>1, <1>1, <1>2, <1>8 DEF Alone
  <2>2. CASE jobs'[j] = Idle BY <2>1, <2>2, <1>8 DEF Idle
  <2>3. CASE jobs'[j].pc = "post" /\ jobs'[j].todo = todo
    <3>1. \A i \in 2 .. m : todo[i] # todo[1] /\ i \in 1 .. m
      <4> SUFFICES ASSUME NEW i \in 2 .. m PROVE todo[i] # todo[1] /\ i \in 1 .. m
        OBVIOUS
      <4>1. i \in 1 .. m /\ 1 \in 1 .. m /\ i # 1 OBVIOUS
      <4> QED BY <4>1, <1>5
    <3> QED BY <2>1, <2>3, <3>1, <1>3, <1>5, <1>6 DEF Ahead
  <2>4. CASE /\ jobs'[j].pc = "join" /\ Len(jobs'[j].todo) = Len(todo) - 1
             /\ \A i \in 1 .. Len(jobs'[j].todo) : jobs'[j].todo[i] = todo[i + 1]
    <3>1. \A i \in 1 .. m - 1 : i + 1 \in 1 .. m /\ i + 1 # 1 OBVIOUS
    <3>2. \A i \in 1 .. m - 1 : jobs'[j].todo[i] = todo[i + 1] BY <2>4, <1>3
    <3>3. ASSUME NEW i \in 1 .. m - 1, NEW x \in 1 .. m - 1, jobs'[j].todo[i] = jobs'[j].todo[x]
          PROVE  i = x
      <4>1. i + 1 = x + 1 BY <3>1, <3>2, <3>3, <1>5
      <4> QED BY <4>1
    <3>4. ASSUME NEW i \in 1 .. m - 1 PROVE jobs'[j].todo[i] \notin Attested'
      <4>1. 1 \in 1 .. m BY <1>3
      <4>2. todo[i + 1] # todo[1] BY <3>1, <4>1, <1>5
      <4> QED BY <4>2, <3>1, <3>2, <1>5, <1>6
    <3> QED BY <2>1, <2>4, <3>3, <3>4, <1>3 DEF Ahead
  <2>5. ~JobFind(j) /\ ~JobTip(j) /\ ~JobJoin(j) BY DEF JobInsert, JobFind, JobTip, JobJoin, Waiting
  <2> QED BY <2>2, <2>3, <2>4, <2>5, Moves
<1> QED BY <1>7, <1>8

THEOREM NextOnce == Shape /\ Alone /\ Once /\ [Next]_vars => Once'
<1> SUFFICES ASSUME Shape, Alone, Once, [Next]_vars PROVE Once'
  OBVIOUS
<1>1. CASE Tick \/ Migrate \/ UNCHANGED vars
  <2>1. rows' = rows /\ jobs' = jobs /\ joined' = joined /\ lapses' = lapses
    BY <1>1 DEF Tick, Migrate, vars, setting
  <2> QED BY <2>1 DEF Once, RunsAttestedOnce, Attested
<1> QED BY <1>1, QuietOnce, InsertOnce DEF Next, Quiet

\* Where a stored receipt decides its run, jobs that do not overlap attest no
\* run twice, whatever fails and whenever the process stops.
THEOREM SerialJobsAttestOnce == Spec => []RunsAttestedOnce
<1> DEFINE I == Shape /\ Alone /\ Once
<1>1. Init => I
  <2>1. Init => Alone /\ Once BY DEF Init, Alone, Once, RunsAttestedOnce, Idle
  <2> QED BY <2>1, InitShape
<1>2. I /\ [Next]_vars => I' BY NextShape, NextAlone, NextOnce
<1>3. I => RunsAttestedOnce BY DEF Once, RunsAttestedOnce
<1> HIDE DEF I
<1> QED BY <1>1, <1>2, <1>3, PTL DEF Spec

-----------------------------------------------------------------------------
Lapsed == lapses \cap {"overlap", "unread", "backdated"} # {}

Tip == rows[Len(rows)]

\* Without a lapse the table is in chain order and built_at order at once, and
\* the one job under way carries the tip.
Serial ==
  ~Lapsed =>
    /\ \A i, k \in 1 .. Len(rows) : i < k => rows[i].body.builtAt < rows[k].body.builtAt
    /\ Linked(rows)
    /\ \A j \in Jobs :
         /\ jobs[j].pc = "join" /\ Len(rows) # 0 => jobs[j].prevHash = Tip.hash
         /\ jobs[j].pc = "insert" /\ Len(rows) # 0 => jobs[j].receipt.body.prevHash = Tip.hash
         /\ jobs[j].pc = "post" => Len(rows) # 0 /\ jobs[j].receipt = Tip

LEMMA QuietSerial ==
  ASSUME NEW j \in Jobs, Shape, Serial, Quiet(j)
  PROVE  Serial'
<1> SUFFICES ASSUME ~Lapsed' PROVE Serial'
  BY DEF Serial
<1>1. rows' = rows /\ ~Lapsed BY QuietKeepsRows, UnderWay DEF Lapsed
<1>2. PICK n \in Nat : n = Len(rows) BY AppendSeq DEF Shape
<1>3. ASSUME NEW k \in Jobs
      PROVE  /\ jobs'[k].pc = "join" /\ n # 0 => jobs'[k].prevHash = rows[n].hash
             /\ jobs'[k].pc = "insert" /\ n # 0 => jobs'[k].receipt.body.prevHash = rows[n].hash
             /\ jobs'[k].pc = "post" => n # 0 /\ jobs'[k].receipt = rows[n]
  <2>1. CASE k # j BY <2>1, <1>1, <1>2, Moves DEF Serial, Tip
  <2>2. CASE (jobs'[j] = Idle \/ jobs'[j].pc = "list") /\ k = j BY <2>2 DEF Idle
  <2>3. CASE jobs'[j].pc = "join" /\ k = j /\ \E i \in Latest(rows) : jobs'[j].prevHash = rows[i].hash
    <3>1. PICK i \in Latest(rows) : jobs'[j].prevHash = rows[i].hash BY <2>3
    <3>2. i \in 1 .. n /\ \A x \in 1 .. n : rows[x].body.builtAt <= rows[i].body.builtAt
      BY <1>2, <3>1 DEF Latest
    <3>3. n \in 1 .. n /\ rows[n].body.builtAt \in Nat /\ rows[i].body.builtAt \in Nat
      BY <1>2, <3>2 DEF Shape, TypeOK, IsReceipt
    <3>4. i < n => rows[i].body.builtAt < rows[n].body.builtAt BY <1>1, <1>2, <3>2, <3>3 DEF Serial
    <3>5. i = n BY <3>2, <3>3, <3>4
    <3> QED BY <2>3, <3>1, <3>5
  <2>4. CASE jobs'[j].pc = "join" /\ k = j /\ (rows # <<>> => "unread" \in lapses')
    <3>1. rows = <<>> BY <2>4 DEF Lapsed
    <3>2. n = 0 BY <3>1, <1>2
    <3> QED BY <2>4, <3>2
  <2>5. CASE JobJoin(j) /\ jobs'[j].pc = "insert" /\ k = j /\ jobs'[j].receipt.body.prevHash = jobs[j].prevHash
    BY <2>5, <1>1, <1>2 DEF Serial, Tip, JobJoin, Waiting
  <2>6. CASE JobPost(j) /\ jobs'[j].pc = "join" /\ k = j /\ jobs'[j].prevHash = jobs[j].receipt.hash
    BY <2>6, <1>1, <1>2 DEF Serial, Tip, JobPost, Waiting
  <2>7. ~ \E answered \in BOOLEAN : JobInsert(j, answered)
    BY <1>1, AppendSeq DEF JobInsert, Shape
  <2> QED BY <2>1, <2>2, <2>3, <2>4, <2>5, <2>6, <2>7, Moves
<1> QED BY <1>1, <1>2, <1>3 DEF Serial, Linked, Tip

LEMMA InsertSerial ==
  ASSUME NEW j \in Jobs, NEW answered \in BOOLEAN, Shape, Alone, Serial, JobInsert(j, answered)
  PROVE  Serial'
<1> SUFFICES ASSUME ~Lapsed' PROVE Serial'
  BY DEF Serial
<1> DEFINE r == jobs[j].receipt
<1>1. ~Lapsed /\ "overlap" \notin lapses BY UnderWay DEF Lapsed
<1>2. PICK n \in Nat : n = Len(rows) BY InsertAppends
<1>3. Len(rows') = n + 1 /\ rows'[n + 1] = r /\ \A i \in 1 .. n : rows'[i] = rows[i]
  BY <1>2, InsertAppends
<1>4. jobs[j].pc = "insert" BY DEF JobInsert, Waiting
<1>5. \A i \in 1 .. n : rows[i].body.builtAt < r.body.builtAt
  <2>1. ~Backdated(r) BY DEF JobInsert, Lapsed
  <2>2. r.body.builtAt \in Nat /\ \A i \in 1 .. n : rows[i].body.builtAt \in Nat
    BY <1>2, InsertAppends DEF Shape, TypeOK, IsReceipt
  <2> QED BY <2>1, <2>2, <1>2 DEF Backdated
<1>6. \A i, k \in 1 .. n + 1 : i < k => rows'[i].body.builtAt < rows'[k].body.builtAt
  <2> SUFFICES ASSUME NEW i \in 1 .. n + 1, NEW k \in 1 .. n + 1, i < k
               PROVE  rows'[i].body.builtAt < rows'[k].body.builtAt
    OBVIOUS
  <2>1. i \in 1 .. n BY <1>2
  <2>2. CASE k \in 1 .. n BY <2>1, <2>2, <1>1, <1>2, <1>3 DEF Serial
  <2>3. CASE k = n + 1 BY <2>1, <2>3, <1>3, <1>5
  <2> QED BY <2>2, <2>3
<1>7. Linked(rows')
  <2> SUFFICES ASSUME NEW i \in 2 .. n + 1 PROVE rows'[i].body.prevHash = rows'[i - 1].hash
    BY <1>3 DEF Linked
  <2>1. CASE i \in 2 .. n
    <3>1. i \in 1 .. n /\ i - 1 \in 1 .. n BY <2>1
    <3> QED BY <2>1, <3>1, <1>1, <1>2, <1>3 DEF Serial, Linked
  <2>2. CASE i = n + 1
    <3>1. n # 0 /\ n \in 1 .. n BY <2>2
    <3>2. r.body.prevHash = rows[n].hash BY <3>1, <1>1, <1>2, <1>4 DEF Serial, Tip
    <3> QED BY <2>2, <3>1, <3>2, <1>3
  <2> QED BY <2>1, <2>2
<1>8. ASSUME NEW k \in Jobs
      PROVE  /\ jobs'[k].pc = "join" => jobs'[k].prevHash = r.hash
             /\ jobs'[k].pc # "insert"
             /\ jobs'[k].pc = "post" => jobs'[k].receipt = r
  <2>1. CASE k # j
    <3>1. jobs'[k] = jobs[k] BY <2>1, Moves
    <3>2. jobs[k].pc = "idle" BY <2>1, <1>1, <1>4 DEF Alone
    <3> QED BY <3>1, <3>2
  <2>2. CASE jobs'[j] = Idle /\ k = j BY <2>2 DEF Idle
  <2>3. CASE jobs'[j].pc = "post" /\ jobs'[j].receipt = r /\ k = j BY <2>3
  <2>4. CASE jobs'[j].pc = "join" /\ jobs'[j].prevHash = r.hash /\ k = j BY <2>4
  <2>5. ~JobFind(j) /\ ~JobTip(j) /\ ~JobJoin(j) BY DEF JobInsert, JobFind, JobTip, JobJoin, Waiting
  <2> QED BY <2>1, <2>2, <2>3, <2>4, <2>5, Moves
<1>9. Tip' = r /\ Len(rows') # 0 BY <1>2, <1>3 DEF Tip
<1>10. \A i, k \in 1 .. Len(rows') : i < k => rows'[i].body.builtAt < rows'[k].body.builtAt
  BY <1>3, <1>6
<1> QED BY <1>7, <1>8, <1>9, <1>10 DEF Serial

THEOREM NextSerial == Shape /\ Alone /\ Serial /\ [Next]_vars => Serial'
<1> SUFFICES ASSUME Shape, Alone, Serial, [Next]_vars PROVE Serial'
  OBVIOUS
<1>1. CASE Tick \/ Migrate \/ UNCHANGED vars
  <2>1. rows' = rows /\ jobs' = jobs /\ lapses' = lapses BY <1>1 DEF Tick, Migrate, vars
  <2> QED BY <2>1 DEF Serial, Linked, Lapsed, Tip
<1> QED BY <1>1, QuietSerial, InsertSerial DEF Next, Quiet

\* The table verifies as long as jobs do not overlap, the tip is read when there
\* is one and no run is sealed with a builtAt of the past.
THEOREM SerialJobsVerify == Spec => []SerialJobsChain
<1> DEFINE I == Shape /\ Alone /\ Serial
<1>1. Init => I
  <2>1. ASSUME Init PROVE Serial
    <3>1. Len(rows) = 0 BY <2>1 DEF Init
    <3> QED BY <2>1, <3>1 DEF Init, Serial, Linked, Idle
  <2>2. Init => Alone BY DEF Init, Alone, Idle
  <2> QED BY <2>1, <2>2, InitShape
<1>2. I /\ [Next]_vars => I' BY NextShape, NextAlone, NextSerial
<1>3. I => SerialJobsChain
  BY DEF Serial, Lapsed, SerialJobsChain, VerifyChain, Shape, TypeOK, IsReceipt
<1> HIDE DEF I
<1> QED BY <1>1, <1>2, <1>3, PTL DEF Spec

\* Types, for every instance: the job never waits without a run in hand.
THEOREM TypeCorrect == Spec => []TypeOK
<1>1. Shape => TypeOK BY DEF Shape
<1> QED BY <1>1, InitShape, NextShape, PTL DEF Spec
=============================================================================
