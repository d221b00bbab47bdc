------------------------------ MODULE EventLog ------------------------------
(***************************************************************************)
(* What the session store promises its callers of one session: a log that  *)
(* is created once, grows at its end only, a batch at a time, with numbers *)
(* that never go back, and is deleted as a whole; and that whoever is told *)
(* of a batch, by a load or by the call that wrote it, is told of one that *)
(* is in the log.  Neither locks nor revisions nor transactions appear.    *)
(***************************************************************************)
EXTENDS Integers, Sequences

CONSTANT Nodes  \* those who are told

VARIABLES
  exists,  \* the session has been created and not deleted
  log,     \* its batches in commit order, each of the numbers from first to last
  told     \* node -> batches it was told of, by their transaction

logVars == <<exists, log, told>>

Batches == {log[i].xid : i \in 1 .. Len(log)}

\* The numbers of batch b come after those of every batch in the log.
Follows(b) ==
  \A i \in 1 .. Len(log) : b.first <= b.last /\ log[i].first <= log[i].last => log[i].last < b.first

Init == exists = FALSE /\ log = <<>> /\ told = [n \in Nodes |-> {}]

Create == ~exists /\ exists' /\ log = <<>> /\ UNCHANGED <<log, told>>

AppendBatch ==
  /\ exists
  /\ Len(log') = Len(log) + 1 /\ SubSeq(log', 1, Len(log)) = log
  /\ Follows(log'[Len(log')]) /\ log'[Len(log')].xid \notin Batches
  /\ UNCHANGED <<exists, told>>

Delete == exists /\ ~exists' /\ log' = <<>> /\ UNCHANGED told

\* Of a session that was deleted nothing is promised.
Tell(n) ==
  /\ told' = [told EXCEPT ![n] = told'[n]]
  /\ exists => told'[n] \subseteq Batches
  /\ UNCHANGED <<exists, log>>

Next == Create \/ AppendBatch \/ Delete \/ \E n \in Nodes : Tell(n)

Spec == Init /\ [][Next]_logVars
=============================================================================
