---------------------------- MODULE SessionStore ----------------------------
(***************************************************************************)
(* The PostgreSQL session store: coordinators on several nodes append to   *)
(* and repair the event log of one session through appendBatch (optimistic *)
(* lock on sessions.revision) and commitRepair (no lock of its own).       *)
(*                                                                         *)
(* The database is modelled at READ COMMITTED by what these transactions   *)
(* meet: FOR UPDATE excludes the KEY SHARE lock that an inserted row takes *)
(* on the session it refers to; an index entry of an unfinished transaction*)
(* makes an equal key wait, a committed one makes it fail; xmin is the     *)
(* transaction that wrote the row version.  The int8 driver is left open:  *)
(* MAX(seq) arrives as a number or, pg's default, as text.                 *)
(***************************************************************************)
EXTENDS Integers, Sequences, FiniteSets

CONSTANTS
  Nodes,      \* processes, each with a coordinator
  Calls,      \* concurrent calls of appendBatch and commitRepair
  Sizes,      \* lengths of the batches
  MaxBatches, \* bound: committed batches
  MaxXid      \* bound: writing transactions

ASSUME SizesAssumption == Sizes \subseteq Nat /\ MaxBatches \in Nat /\ MaxXid \in Nat
ASSUME CallsAssumption == "free" \notin Calls

VARIABLES
  row,        \* the row of the session: revision, xmin, and whether it exists
  events,     \* committed batches in commit order: [first, last, xid]
  lastXid,    \* transaction ids given out
  int8AsText, \* does the driver return MAX(seq) as text?
  lock,       \* call that holds FOR UPDATE on the row
  shares,     \* calls that hold KEY SHARE on the row
  calls,      \* call -> where its transaction is
  local,      \* node -> its session object: revision, and what it was told
  loads       \* node -> loadStored between its two SELECTs

locks == <<lock, shares>>
stored == <<row, events, lastXid>>
vars == <<row, events, lastXid, int8AsText, lock, shares, calls, local, loads>>

Free == "free"
NoCall == [pc |-> "idle"]
NoLoad == [pc |-> "idle"]

Max0(S) == IF S = {} THEN 0 ELSE CHOOSE x \in S : \A y \in S : y <= x
Xids == {events[i].xid : i \in 1 .. Len(events)}

\* An empty batch has no rows.
Batches == {i \in 1 .. Len(events) : events[i].first <= events[i].last}
MaxSeq == Max0({events[i].last : i \in Batches})

\* max_seq + 1: on text, '5' + 1 is '51', and the first ++ makes it a number.
NextSeq(max) == IF int8AsText THEN 10 * max + 1 ELSE max + 1

Overlap(b, c) == b.first <= b.last /\ c.first <= c.last /\ b.first <= c.last /\ c.first <= b.last

\* view: the transactions whose events the node's session object holds;
\* from: where its revision comes from.
Session(revision, view, from) ==
  [known |-> TRUE, revision |-> revision, view |-> view, from |-> from]

NoSession == [known |-> FALSE, revision |-> 0, view |-> {}, from |-> "none"]

Init ==
  /\ row = [exists |-> FALSE, revision |-> 0, xmin |-> 0]
  /\ events = <<>>
  /\ lastXid = 0
  /\ int8AsText \in BOOLEAN
  /\ lock = Free /\ shares = {}
  /\ calls = [c \in Calls |-> NoCall]
  /\ local = [n \in Nodes |-> NoSession]
  /\ loads = [n \in Nodes |-> NoLoad]

NewXid == lastXid < MaxXid /\ lastXid' = lastXid + 1

\* createSession: the column default of revision is 0.  An id is used once.
CreateSession ==
  /\ ~row.exists /\ lastXid = 0 /\ NewXid
  /\ row' = [exists |-> TRUE, revision |-> 0, xmin |-> lastXid']
  /\ UNCHANGED <<events, int8AsText, locks, calls, local, loads>>

\* deleteSession waits for every lock on the row; the events go with it.
DeleteSession ==
  /\ row.exists /\ lock = Free /\ shares = {}
  /\ row' = [row EXCEPT !.exists = FALSE]
  /\ events' = <<>>
  /\ UNCHANGED <<lastXid, int8AsText, locks, calls, local, loads>>

\* loadStored: the row, and then, in another snapshot, the events.
LoadRow(n) ==
  /\ loads[n].pc = "idle" /\ row.exists
  /\ loads' = [loads EXCEPT ![n] = [pc |-> "row", revision |-> row.revision]]
  /\ UNCHANGED <<stored, int8AsText, locks, calls, local>>

LoadEvents(n) ==
  /\ loads[n].pc = "row"
  /\ local' = [local EXCEPT ![n] = Session(loads[n].revision, Xids, "load")]
  /\ loads' = [loads EXCEPT ![n] = NoLoad]
  /\ UNCHANGED <<stored, int8AsText, locks, calls>>

-----------------------------------------------------------------------------
\* appendBatch

Goto(c, pc) == calls' = [calls EXCEPT ![c].pc = pc]

\* The coordinator reads session.revision when it is called.
AppendBegin(c, n, size) ==
  /\ calls[c].pc = "idle" /\ local[n].known
  /\ calls' = [calls EXCEPT ![c] =
       [pc |-> "begun", op |-> "append", node |-> n, size |-> size, first |-> 0, last |-> -1,
        session |-> local[n], base |-> 0]]
  /\ UNCHANGED <<stored, int8AsText, locks, local, loads>>

\* Mutant: the revision is read without FOR UPDATE.
AppendCheckUnlocked(c) ==
  /\ calls[c].pc = "begun" /\ calls[c].op = "append"
  /\ row.exists /\ row.revision = calls[c].session.revision
  /\ calls' = [calls EXCEPT ![c] = [@ EXCEPT !.pc = "checked", !.base = Len(events)]]
  /\ UNCHANGED <<stored, int8AsText, locks, local, loads>>

\* SELECT revision ... FOR UPDATE, compared with the expected one.  A missing
\* row or a mismatch throws: Fails.
AppendCheck(c) ==
  /\ calls[c].pc = "begun" /\ calls[c].op = "append"
  /\ lock = Free /\ shares = {}
  /\ row.exists /\ row.revision = calls[c].session.revision
  /\ lock' = c
  /\ calls' = [calls EXCEPT ![c] = [@ EXCEPT !.pc = "checked", !.base = Len(events)]]
  /\ UNCHANGED <<stored, int8AsText, shares, local, loads>>

-----------------------------------------------------------------------------
\* commitRepair: neither a lock nor a revision

RepairBegin(c, n, size) ==
  /\ calls[c].pc = "idle"
  /\ calls' = [calls EXCEPT ![c] =
       [pc |-> "checked", op |-> "repair", node |-> n, size |-> size, first |-> 0, last |-> -1,
        session |-> NoSession, base |-> 0]]
  /\ UNCHANGED <<stored, int8AsText, locks, local, loads>>

-----------------------------------------------------------------------------
\* What both have in common from SELECT MAX(seq) on

ReadMax(c) ==
  LET first == NextSeq(MaxSeq) IN
  /\ calls[c].pc = "checked"
  /\ calls' = [calls EXCEPT ![c] = [@ EXCEPT !.pc = "numbered", !.first = first,
                                            !.last = first + calls[c].size - 1]]
  /\ UNCHANGED <<stored, int8AsText, locks, local, loads>>

\* Mutant: session_events has no primary key.
InsertRowsNoKey(c) ==
  /\ calls[c].pc = "numbered"
  /\ Goto(c, IF calls[c].size = 0 THEN "inserted" ELSE "placed")
  /\ UNCHANGED <<stored, int8AsText, locks, local, loads>>

\* The rows enter the index; equal keys of unfinished transactions block,
\* equal keys of committed ones are an error (Fails).  An empty batch inserts
\* nothing and takes no lock.
InsertRows(c) ==
  /\ calls[c].pc = "numbered"
  /\ \A d \in Calls \ {c} : calls[d].pc \in {"placed", "inserted"} => ~Overlap(calls[c], calls[d])
  /\ \A i \in 1 .. Len(events) : ~Overlap(calls[c], events[i])
  /\ Goto(c, IF calls[c].size = 0 THEN "inserted" ELSE "placed")
  /\ UNCHANGED <<stored, int8AsText, locks, local, loads>>

\* The foreign key check locks the session against FOR UPDATE and DELETE.
CheckForeignKey(c) ==
  /\ calls[c].pc = "placed"
  /\ row.exists /\ lock \in {Free, c}
  /\ shares' = shares \cup {c}
  /\ Goto(c, "inserted")
  /\ UNCHANGED <<stored, int8AsText, lock, local, loads>>

Batch(c, xid) == [first |-> calls[c].first, last |-> calls[c].last, xid |-> xid]

\* The transaction is over; the coordinator has still to resume.
Committed(c, xid) == [pc |-> "committed", op |-> calls[c].op, node |-> calls[c].node, xid |-> xid]

Unlocked(c) == lock' = (IF lock = c THEN Free ELSE lock) /\ shares' = shares \ {c}

\* Mutant: commitRepair leaves the revision alone.
UpdateAndCommitRepairSilent(c, answered) ==
  /\ calls[c].pc = "inserted" /\ row.exists /\ lock \in {Free, c}
  /\ Len(events) < MaxBatches /\ NewXid
  /\ row' = IF calls[c].op = "repair" THEN row
            ELSE [exists |-> TRUE, revision |-> row.xmin, xmin |-> lastXid']
  /\ events' = Append(events, Batch(c, lastXid'))
  /\ Unlocked(c)
  /\ calls' = [calls EXCEPT ![c] =
       IF answered THEN Committed(c, lastXid') ELSE NoCall]
  /\ UNCHANGED <<int8AsText, local, loads>>

\* UPDATE ... SET revision = xmin RETURNING xmin, and COMMIT.  The right-hand
\* side is the version being replaced, RETURNING is the new one.  The answer
\* to COMMIT may be lost: the call then throws although it took effect.
UpdateAndCommit(c, answered) ==
  /\ calls[c].pc = "inserted" /\ row.exists /\ lock \in {Free, c}
  /\ Len(events) < MaxBatches /\ NewXid
  /\ row' = [exists |-> TRUE, revision |-> row.xmin, xmin |-> lastXid']
  /\ events' = Append(events, Batch(c, lastXid'))
  /\ Unlocked(c)
  /\ calls' = [calls EXCEPT ![c] =
       IF answered THEN Committed(c, lastXid') ELSE NoCall]
  /\ UNCHANGED <<int8AsText, local, loads>>

\* Any query may fail, and a deadlock victim does: ROLLBACK.
Fails(c) ==
  /\ calls[c].pc \in {"begun", "checked", "numbered", "placed", "inserted"}
  /\ calls' = [calls EXCEPT ![c] = NoCall]
  /\ Unlocked(c)
  /\ UNCHANGED <<stored, int8AsText, local, loads>>

\* The coordinator resumes and stores the returned revision in its session.
Returns(c) ==
  LET n == calls[c].node IN
  /\ calls[c].pc = "committed"
  /\ local' = IF local[n].known
              THEN [local EXCEPT ![n] = Session(calls[c].xid, @.view \cup {calls[c].xid}, calls[c].op)]
              ELSE local
  /\ calls' = [calls EXCEPT ![c] = NoCall]
  /\ UNCHANGED <<stored, int8AsText, locks, loads>>

-----------------------------------------------------------------------------
Next ==
  \/ CreateSession
  \/ DeleteSession
  \/ \E n \in Nodes : LoadRow(n)
  \/ \E n \in Nodes : LoadEvents(n)
  \/ \E c \in Calls, n \in Nodes, size \in Sizes : AppendBegin(c, n, size)
  \/ \E c \in Calls : AppendCheck(c)
  \/ \E c \in Calls, n \in Nodes, size \in Sizes : RepairBegin(c, n, size)
  \/ \E c \in Calls : ReadMax(c)
  \/ \E c \in Calls : InsertRows(c)
  \/ \E c \in Calls : CheckForeignKey(c)
  \/ \E c \in Calls, answered \in BOOLEAN : UpdateAndCommit(c, answered)
  \/ \E c \in Calls : Fails(c)
  \/ \E c \in Calls : Returns(c)

Spec == Init /\ [][Next]_vars
-----------------------------------------------------------------------------
Working(c) == calls[c].pc \in {"checked", "numbered", "placed", "inserted"}
Appending(c) == Working(c) /\ calls[c].op = "append"

\* Locks are held by the calls that took them and by nobody else.
TypeOK ==
  /\ row.xmin \in 0 .. lastXid /\ row.revision \in 0 .. lastXid /\ lastXid \in 0 .. MaxXid
  /\ Xids \subseteq 1 .. lastXid
  /\ Len(events) <= MaxBatches /\ int8AsText \in BOOLEAN
  /\ lock \in Calls \cup {Free} /\ shares \subseteq Calls
  /\ \A c \in Calls : lock = c <=> Appending(c)
  /\ \A c \in shares : calls[c].pc = "inserted"
  /\ \A n \in Nodes : local[n].known => local[n].revision \in 0 .. lastXid

\* From its revision check to its commit an appendBatch has the log to itself,
\* against commitRepair too.
AppendExcludesOthers == \A c \in Calls : Appending(c) => calls[c].base = Len(events)

\* A session object that was just loaded passes the revision check only while
\* it holds every committed event, although loadStored reads the revision and
\* the events in two snapshots.
LoadedRevisionDetectsWrites ==
  \A c \in Calls : Appending(c) /\ calls[c].session.from = "load" => calls[c].session.view = Xids

Log == INSTANCE EventLog WITH exists <- row.exists, log <- events,
                              told <- [n \in Nodes |-> local[n].view]

\* The store implements the abstract log: although commitRepair numbers its events
\* under no lock, whichever way the driver returns MAX(seq), and with calls that
\* fail, lose their answer or meet a deletion, batches follow each other in the
\* order of their commits, and a node is told of none that is not stored.
ImplementsEventLog == Log!Spec

\* packages/session/session-persistence-postgres/src/backend.ts: "Append a batch
\* of events with optimistic locking".
OptimisticLocking == \A c \in Calls : Appending(c) => calls[c].session.view = Xids
=============================================================================
