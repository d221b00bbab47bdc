---------------------------- MODULE WatchtowerJob ----------------------------
(***************************************************************************)
(* The watchtower's hourly job on the receipts table of PostgreSQL: for    *)
(* every run without an outcome it asks GitHub for the pull request and    *)
(* the checks, seals a receipt that chains on the one before and inserts   *)
(* it.  The scheduler starts a job whether or not the last one has ended;  *)
(* each await may reject, and the process may stop.                        *)
(*                                                                         *)
(* What the repository leaves open is open here: whether a stored receipt  *)
(* counts as the outcome of its run, and when migration 003, with its      *)
(* trigger, is applied.  A row is what the job sealed; the columns that    *)
(* the table does not have are not modelled.  approveNeedsHuman changes    *)
(* none of this: it stores nothing, and its check run is for an empty      *)
(* commit since no receipt carries one.                                    *)
(***************************************************************************)
EXTENDS ReceiptChain, FiniteSets, SequencesExt

CONSTANTS
  Runs,        \* completed runs
  Jobs,        \* executions of the job that may overlap
  BuiltAt,     \* run -> its own builtAt, or NoTime
  NoTime,      \* a run without builtAt is sealed at Date.now()
  MaxNow,      \* bound: the millisecond clock
  MaxRows      \* bound: receipts stored

ASSUME RunsAssumption ==
  /\ IsFiniteSet(Runs)
  /\ NoTime \notin Nat /\ BuiltAt \in [Runs -> Nat \cup {NoTime}]

ASSUME BoundsAssumption == MaxNow \in Nat /\ MaxRows \in Nat

VARIABLES
  rows,     \* the receipts table, in insertion order
  trigger,  \* is enforce_receipt_chain there?
  joined,   \* does a stored receipt give its run an outcome?
  checks,   \* run -> the check run last posted on its commit
  jobs,     \* job -> where it waits and what it holds
  now,      \* Date.now()
  lapses    \* history: what may have broken the chain

setting == <<trigger, joined>>
vars == <<rows, trigger, joined, checks, jobs, now, lapses>>

Idle == [pc |-> "idle"]

Stored == {rows[i].hash : i \in 1 .. Len(rows)}
Attested == {rows[i].body.run : i \in 1 .. Len(rows)}

\* Mutant: the job does not skip runs with an outcome.
DecidedIgnored == {}

\* Runs whose outcome is not null.
Decided == IF joined THEN Attested ELSE {}

Init ==
  /\ rows = <<>>
  /\ trigger \in BOOLEAN /\ joined \in BOOLEAN
  /\ checks = [r \in Runs |-> "none"]
  /\ jobs = [j \in Jobs |-> Idle]
  /\ now = 0
  /\ lapses = {}

\* Migration 003 is applied to the table as it is.
Migrate == ~trigger /\ trigger' = TRUE /\ UNCHANGED <<rows, joined, checks, jobs, now, lapses>>

Tick == now < MaxNow /\ now' = now + 1 /\ UNCHANGED <<rows, setting, checks, jobs, lapses>>

-----------------------------------------------------------------------------
DeriveOutcome(pr, ci) ==
  IF pr.merged /\ ci THEN "accepted" ELSE IF pr.closed THEN "rejected" ELSE "needs-human"

-----------------------------------------------------------------------------
\* The receipts table

\* Rows that ORDER BY built_at DESC may deliver first.
Latest(rs) == {i \in 1 .. Len(rs) : \A k \in 1 .. Len(rs) : rs[k].body.builtAt <= rs[i].body.builtAt}

\* enforce_receipt_chain runs AFTER the insert: the table it queries holds the
\* new row.  The job never moves receipt_genesis.
TriggerAdmits(r) ==
  LET after == Append(rows, r)
  IN  IF r.body.prevHash = Genesis
      THEN \E i \in 1 .. Len(after) : after[i].hash = Genesis
      ELSE \E i \in Latest(after) : after[i].hash = r.body.prevHash

-----------------------------------------------------------------------------
\* runWatchtowerJob

Waiting(j, pc) == jobs[j].pc = pc

\* Mutant: prevHash is not advanced.
ContinueStale(j, prevHash) ==
  LET rest == Tail(jobs[j].todo)
  IN  IF rest = <<>> THEN Idle
      ELSE [pc |-> "join", todo |-> rest, prevHash |-> jobs[j].receipt.body.prevHash]

\* Mutant: the loop does not end.
ContinueEmpty(j, prevHash) == [pc |-> "join", todo |-> Tail(jobs[j].todo), prevHash |-> prevHash]

\* The runs still to be joined once the head of todo is done with.
Continue(j, prevHash) ==
  LET rest == Tail(jobs[j].todo)
  IN  IF rest = <<>> THEN Idle ELSE [pc |-> "join", todo |-> rest, prevHash |-> prevHash]

\* findRunsWithoutOutcome; a run that has one is skipped.
JobFind(j) ==
  /\ Waiting(j, "idle")
  /\ \E todo \in SetToSeqs(Runs \ Decided) :
       jobs' = [jobs EXCEPT ![j] = [pc |-> "list", todo |-> todo]]
  /\ lapses' = lapses \cup {x \in {"overlap"} : \E k \in Jobs \ {j} : ~Waiting(k, "idle")}
  /\ UNCHANGED <<rows, setting, checks, now>>

\* listReceipts ORDER BY built_at: the last one is the tip.  A database without
\* the method, and a rejected query, leave it at genesis.
JobTip(j) ==
  /\ Waiting(j, "list")
  /\ \E tip \in {Genesis} \cup {rows[i].hash : i \in Latest(rows)} :
       /\ jobs' = [jobs EXCEPT ![j] =
            IF @.todo = <<>> THEN Idle ELSE [pc |-> "join", todo |-> @.todo, prevHash |-> tip]]
       /\ lapses' = lapses \cup {x \in {"unread"} : tip = Genesis /\ rows # <<>>}
  /\ UNCHANGED <<rows, setting, checks, now>>

\* getPR and getChecks, one after the other: the job reads nothing of ours in
\* between and seals the receipt when both are known.  A request that fails
\* counts as an open pull request, or as checks that are not green.
JobJoin(j) ==
  LET run == Head(jobs[j].todo) IN
  /\ Waiting(j, "join")
  /\ \E pr \in [merged : BOOLEAN, closed : BOOLEAN], ci \in BOOLEAN :
       jobs' = [jobs EXCEPT ![j] =
         [pc |-> "insert", todo |-> @.todo,
          receipt |-> GenerateReceipt(
            [run |-> run, outcome |-> DeriveOutcome(pr, ci), prevHash |-> @.prevHash,
             builtAt |-> IF BuiltAt[run] = NoTime THEN now ELSE BuiltAt[run]])]]
  /\ UNCHANGED <<rows, setting, checks, now, lapses>>

Backdated(r) == \E i \in 1 .. Len(rows) : r.body.builtAt <= rows[i].body.builtAt

\* insertReceipt: hash is the primary key.  The answer to COMMIT may be lost:
\* the job then ends although the row is stored.
JobInsert(j, answered) ==
  LET r == jobs[j].receipt IN
  /\ Waiting(j, "insert")
  /\ Len(rows) < MaxRows
  /\ r.hash \notin Stored /\ (trigger => TriggerAdmits(r))
  /\ rows' = Append(rows, r)
  /\ jobs' = [jobs EXCEPT ![j] =
       IF ~answered THEN Idle
       ELSE IF r.body.outcome = "needs-human" THEN [pc |-> "post", todo |-> @.todo, receipt |-> r]
       ELSE Continue(j, r.hash)]
  /\ lapses' = lapses \cup {x \in {"backdated"} : Backdated(r)}
  /\ UNCHANGED <<setting, checks, now>>

\* The trigger raises an exception, which ends the job.
JobRefused(j) ==
  LET r == jobs[j].receipt IN
  /\ Waiting(j, "insert") /\ trigger /\ ~TriggerAdmits(r)
  /\ jobs' = [jobs EXCEPT ![j] = Idle]
  /\ lapses' = lapses \cup {x \in {"firstRefused"} : rows = <<>> /\ r.body.prevHash = Genesis}
  /\ UNCHANGED <<rows, setting, checks, now>>

\* postCheckRun, whose failure is swallowed.
JobPost(j) ==
  LET r == jobs[j].receipt IN
  /\ Waiting(j, "post")
  /\ \E c \in {"action_required", checks[r.body.run]} : checks' = [checks EXCEPT ![r.body.run] = c]
  /\ jobs' = [jobs EXCEPT ![j] = Continue(j, r.hash)]
  /\ UNCHANGED <<rows, setting, now, lapses>>

\* Mutant: a rejected insert is swallowed and the loop goes on.
JobFailsOn(j) ==
  /\ ~Waiting(j, "idle")
  /\ jobs' = [jobs EXCEPT ![j] =
       IF ~Waiting(j, "insert") THEN Idle
       ELSE IF @.receipt.body.outcome = "needs-human"
            THEN [pc |-> "post", todo |-> @.todo, receipt |-> @.receipt]
       ELSE Continue(j, @.receipt.hash)]
  /\ UNCHANGED <<rows, setting, checks, now, lapses>>

\* insertReceipt rejects, or the process stops.
JobFails(j) ==
  /\ ~Waiting(j, "idle")
  /\ jobs' = [jobs EXCEPT ![j] = Idle]
  /\ UNCHANGED <<rows, setting, checks, now, lapses>>

-----------------------------------------------------------------------------
Next ==
  \/ Tick
  \/ Migrate
  \/ \E j \in Jobs : JobFind(j)
  \/ \E j \in Jobs : JobTip(j)
  \/ \E j \in Jobs : JobJoin(j)
  \/ \E j \in Jobs, answered \in BOOLEAN : JobInsert(j, answered)
  \/ \E j \in Jobs : JobRefused(j)
  \/ \E j \in Jobs : JobPost(j)
  \/ \E j \in Jobs : JobFails(j)

Spec == Init /\ [][Next]_vars

-----------------------------------------------------------------------------
Outcomes == {"accepted", "rejected", "needs-human"}

\* A sealed receipt, and what a job that has sealed it holds.
IsReceipt(r) ==
  /\ DOMAIN r = {"body", "hash"} /\ ContentHashHolds(r)
  /\ DOMAIN r.body = {"run", "outcome", "prevHash", "builtAt"}
  /\ r.body.run \in Runs /\ r.body.outcome \in Outcomes /\ r.body.builtAt \in Nat

JobOK(job) ==
  \/ job = Idle
  \/ /\ job.pc \in {"list", "join", "insert", "post"}
     /\ job.todo \in Seq(Runs)
     /\ job.pc \in {"join", "insert", "post"} => job.todo # <<>>
     /\ job.pc \in {"insert", "post"} => IsReceipt(job.receipt) /\ job.receipt.body.run = Head(job.todo)

\* Types; a job past its query always has a run in hand, and the receipt it
\* waits to store is that run's.
TypeOK ==
  /\ \A i \in 1 .. Len(rows) : IsReceipt(rows[i])
  /\ trigger \in BOOLEAN /\ joined \in BOOLEAN
  /\ checks \in [Runs -> {"none", "action_required"}]
  /\ DOMAIN jobs = Jobs /\ \A j \in Jobs : JobOK(jobs[j])
  /\ now \in Nat
  /\ lapses \subseteq {"overlap", "unread", "backdated", "firstRefused"}

\* Whatever overlaps, fails or is refused: a stored receipt chains on a receipt
\* that is stored before it, or on genesis.  The job advances prevHash in memory
\* and relies on a failed insert ending it.
NoDanglingPrevHash ==
  \A i \in 1 .. Len(rows) :
    rows[i].body.prevHash # Genesis => \E k \in 1 .. (i - 1) : rows[k].hash = rows[i].body.prevHash

\* If no two jobs overlap, no job takes the tip for genesis because its query
\* failed and no run is sealed with a builtAt of the past, the table verifies:
\* the in-memory prevHash of one job and the ORDER BY of the next agree.
SerialJobsChain == lapses \cap {"overlap", "unread", "backdated"} = {} => VerifyChain(rows)

\* Where a stored receipt gives its run an outcome, jobs one after the other
\* attest no run twice, although a job whose COMMIT went unanswered starts over.
RunsAttestedOnce ==
  joined /\ "overlap" \notin lapses =>
    \A i, k \in 1 .. Len(rows) : rows[i].body.run = rows[k].body.run => i = k

\* A commit is blocked for review only when the receipt that says so is stored.
BlockedIsStored ==
  \A r \in Runs : checks[r] = "action_required" =>
    \E i \in 1 .. Len(rows) : rows[i].body.run = r /\ rows[i].body.outcome = "needs-human"

\* "this is a first receipt (after genesis) - allow if table is empty": the
\* trigger never refuses a first receipt (migration 003).
FirstReceiptAdmitted == "firstRefused" \notin lapses
=============================================================================
