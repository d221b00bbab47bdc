------------------------- MODULE SessionStoreProofs -------------------------
(***************************************************************************)
(* Proofs about the PostgreSQL session store, for any nodes, calls, batch  *)
(* sizes and bounds: its type invariant, the exclusion that the row lock   *)
(* gives an append, the staleness check of a loaded revision, and that the *)
(* store implements the abstract log of module EventLog.                   *)
(*                                                                         *)
(* The argument has three threads.  The lock: between its check and its    *)
(* commit an append owns the row, and every commit needs the row.  The     *)
(* revision: it grows with each commit, so an equal revision means that    *)
(* nothing was committed since it was read.  The numbers: a call that has  *)
(* read MAX(seq) either still has the next number or the number of a batch *)
(* committed since, and then the primary key stops it.                     *)
(***************************************************************************)
EXTENDS SessionStore, SequenceTheorems, TLAPS

Busy == {"begun", "checked", "numbered", "placed", "inserted"}

BatchType == [first : Nat, last : Int, xid : Nat]

SessionType ==
  [known : BOOLEAN, revision : Nat, view : SUBSET Nat, from : {"none", "load", "append", "repair"}]

CommittedType == [pc : {"committed"}, op : {"append", "repair"}, node : Nodes, xid : Nat]

BusyType ==
  [pc : Busy, op : {"append", "repair"}, node : Nodes, size : Nat, first : Nat, last : Int,
   session : SessionType, base : Nat]

LoadType == {NoLoad} \cup [pc : {"row"}, revision : Nat]

TypeInv ==
  /\ row \in [exists : BOOLEAN, revision : Nat, xmin : Nat]
  /\ events \in Seq(BatchType)
  /\ lastXid \in Nat /\ int8AsText \in BOOLEAN
  /\ lock \in Calls \cup {Free} /\ shares \subseteq Calls
  /\ calls \in [Calls -> {NoCall} \cup CommittedType \cup BusyType]
  /\ local \in [Nodes -> SessionType]
  /\ loads \in [Nodes -> LoadType]

\* Transaction ids are given out in order, and nothing bears a later one.
XidInv ==
  /\ row.revision <= row.xmin /\ row.xmin <= lastXid /\ lastXid <= MaxXid
  /\ row.exists => row.revision < row.xmin
  /\ ~row.exists => events = <<>>
  /\ Len(events) <= MaxBatches
  /\ Xids \subseteq 1 .. lastXid
  /\ \A n \in Nodes : local[n].revision <= lastXid
  /\ \A n \in Nodes : loads[n].pc = "row" => loads[n].revision <= lastXid
  /\ \A c \in Calls : calls[c].pc = "committed" => calls[c].xid \in 1 .. lastXid

\* The row lock is the append's, and with it the log.
LockInv ==
  /\ \A c \in Calls : lock = c <=> Appending(c)
  /\ \A c \in shares : calls[c].pc = "inserted"
  /\ \A c \in Calls : Appending(c) =>
       /\ calls[c].base = Len(events)
       /\ calls[c].session.from = "load" => calls[c].session.view = Xids

\* The session has not been deleted.
Alive == row.exists \/ lastXid = 0

\* A loaded revision that is still the stored one came with every event.
Fresh(s) ==
  s.from = "load" => /\ s.revision <= row.revision
                     /\ s.revision = row.revision => s.view = Xids

LoadInv ==
  Alive =>
    /\ \A n \in Nodes : Fresh(local[n])
    /\ \A n \in Nodes : loads[n].pc = "row" => loads[n].revision <= row.revision
    /\ \A c \in Calls : calls[c].pc \in Busy => Fresh(calls[c].session)

\* Nobody is told of what is not stored.
ToldInv ==
  Alive =>
    /\ \A n \in Nodes : local[n].view \subseteq Xids
    /\ \A c \in Calls : calls[c].pc = "committed" => calls[c].xid \in Xids

Lasts == {events[i].last : i \in Batches}
Numbered(c) == calls[c].pc \in {"numbered", "placed", "inserted"}
Placed(c) == calls[c].pc \in {"placed", "inserted"}

\* The next number, or that of a batch committed since MAX(seq) was read.
NumberFits(f) == f = NextSeq(MaxSeq) \/ \E i \in Batches : events[i].first = f

NumberInv ==
  Alive =>
    /\ Lasts # {} => \E x \in Lasts : \A y \in Lasts : y <= x
    /\ \A i \in Batches : events[i].first > 0
    /\ \A c \in Calls : Numbered(c) =>
         calls[c].first > 0 /\ NumberFits(calls[c].first)
    /\ \A c \in Calls : Placed(c) => \A i \in 1 .. Len(events) : ~Overlap(calls[c], events[i])
    /\ \A c, d \in Calls : Placed(c) /\ Placed(d) /\ c # d => ~Overlap(calls[c], calls[d])

IInv == TypeInv /\ XidInv /\ LockInv /\ LoadInv /\ ToldInv /\ NumberInv
-----------------------------------------------------------------------------
\* A call whose transaction is open has the record of one.
LEMMA BusyRecord ==
  ASSUME TypeInv, NEW c \in Calls, calls[c].pc \in Busy
  PROVE  calls[c] \in BusyType
BY DEF TypeInv, Busy, BusyType, CommittedType, NoCall

\* So has one that was answered.
LEMMA CommittedRecord ==
  ASSUME TypeInv, NEW c \in Calls, calls[c].pc = "committed"
  PROVE  calls[c] \in CommittedType
BY DEF TypeInv, Busy, BusyType, CommittedType, NoCall

\* The initial state satisfies the invariant.
LEMMA Starts == Init => IInv
<1> SUFFICES ASSUME Init PROVE IInv
    OBVIOUS
<1> USE DEF Init
<1>1. TypeInv
  <2>1. local \in [Nodes -> SessionType]
    BY DEF SessionType, NoSession
  <2>2. events \in Seq(BatchType)
    OBVIOUS
  <2> QED BY <2>1, <2>2 DEF TypeInv, LoadType, NoLoad, NoCall, Free
<1>2. Xids = {} /\ Batches = {} /\ Len(events) = 0
    BY DEF Xids, Batches
<1>3. \A c \in Calls : calls[c].pc = "idle"
    BY DEF NoCall
<1>4. XidInv
    BY <1>2, <1>3, SizesAssumption DEF XidInv, NoSession, NoLoad
<1>5. LockInv
    BY <1>3, CallsAssumption DEF LockInv, Appending, Working, Free
<1>6. LoadInv
    BY <1>3 DEF LoadInv, Fresh, NoSession, NoLoad, Busy
<1>7. ToldInv
    BY <1>3 DEF ToldInv, NoSession
<1>8. NumberInv
    BY <1>2, <1>3 DEF NumberInv, Lasts, Numbered, Placed
<1> QED BY <1>1, <1>4, <1>5, <1>6, <1>7, <1>8 DEF IInv
-----------------------------------------------------------------------------
\* Creating the session: revision 0, and nothing was read or written yet.
LEMMA CreateSessionKeeps == ASSUME IInv, CreateSession PROVE IInv'
<1> USE DEF IInv, CreateSession, NewXid, stored, locks
<1>1. /\ lastXid = 0 /\ lastXid' = 1 /\ lastXid < MaxXid
      /\ row' = [exists |-> TRUE, revision |-> 0, xmin |-> 1] /\ events' = events
      /\ calls' = calls /\ local' = local /\ loads' = loads
      /\ lock' = lock /\ shares' = shares /\ int8AsText' = int8AsText
    BY DEF TypeInv
<1>2. Xids' = Xids /\ Batches' = Batches /\ MaxSeq' = MaxSeq /\ Lasts' = Lasts
    BY <1>1 DEF Xids, Batches, MaxSeq, Lasts
<1>3. Alive /\ events = <<>> /\ row.revision = 0 /\ Xids = {}
    BY <1>1 DEF Alive, XidInv, TypeInv, Xids
<1>4. TypeInv'
    BY <1>1 DEF TypeInv
<1>5. XidInv'
  <2>1. \A n \in Nodes : local[n].revision \in Nat
    BY DEF TypeInv, SessionType
  <2>2. \A n \in Nodes : loads[n].pc = "row" => loads[n].revision \in Nat
    BY DEF TypeInv, LoadType, NoLoad
  <2>3. \A c \in Calls : calls[c].pc # "committed"
    BY <1>1 DEF XidInv
  <2> QED BY <1>1, <1>2, <1>3, <2>1, <2>2, <2>3, SizesAssumption DEF XidInv
<1>6. LockInv'
    BY <1>1, <1>2 DEF LockInv, Appending, Working
<1>7. LoadInv'
    BY <1>1, <1>2, <1>3 DEF LoadInv, Fresh
<1>8. ToldInv'
    BY <1>1, <1>2, <1>3 DEF ToldInv
<1>9. NumberInv'
    BY <1>1, <1>2, <1>3 DEF NumberInv, Numbered, Placed, NumberFits, NextSeq, Overlap
<1> QED BY <1>4, <1>5, <1>6, <1>7, <1>8, <1>9

\* What is read off the store stays as it is while the store does.
LEMMA StoredFrame ==
  ASSUME UNCHANGED stored, UNCHANGED int8AsText
  PROVE  /\ row' = row /\ events' = events /\ lastXid' = lastXid
         /\ Xids' = Xids /\ Batches' = Batches /\ MaxSeq' = MaxSeq /\ Lasts' = Lasts
         /\ Alive' = Alive /\ NextSeq(MaxSeq)' = NextSeq(MaxSeq)
BY DEF stored, Xids, Batches, MaxSeq, Lasts, Alive, NextSeq

\* Deleting the session: what was promised of it ends.
LEMMA DeleteSessionKeeps == ASSUME IInv, DeleteSession PROVE IInv'
<1> USE DEF IInv, DeleteSession, locks
<1>1. /\ row.exists /\ row' = [row EXCEPT !.exists = FALSE] /\ events' = <<>>
      /\ lastXid' = lastXid /\ calls' = calls /\ local' = local /\ loads' = loads
      /\ lock' = lock /\ shares' = shares /\ int8AsText' = int8AsText
      /\ lock = Free /\ shares = {}
    OBVIOUS
<1>2. /\ row'.exists = FALSE /\ row'.revision = row.revision /\ row'.xmin = row.xmin
      /\ row' \in [exists : BOOLEAN, revision : Nat, xmin : Nat]
    BY <1>1 DEF TypeInv
<1>3. Xids' = {} /\ Len(events') = 0
    BY <1>1 DEF Xids
<1>4. ~Alive'
  <2>1. lastXid # 0
    BY <1>1 DEF XidInv, TypeInv
  <2> QED BY <2>1, <1>1, <1>2 DEF Alive
<1>5. TypeInv'
  <2>1. events' \in Seq(BatchType)
    BY <1>1
  <2> QED BY <2>1, <1>1, <1>2 DEF TypeInv
<1>6. XidInv'
    BY <1>1, <1>2, <1>3, SizesAssumption DEF XidInv
<1>7. LockInv'
    BY <1>1, CallsAssumption DEF LockInv, Appending, Working, Free
<1>8. LoadInv' /\ ToldInv' /\ NumberInv'
    BY <1>4 DEF LoadInv, ToldInv, NumberInv
<1> QED BY <1>5, <1>6, <1>7, <1>8

\* The first SELECT of loadStored.
LEMMA LoadRowKeeps == ASSUME IInv, NEW n \in Nodes, LoadRow(n) PROVE IInv'
<1> USE DEF IInv, LoadRow, locks
<1>1. /\ UNCHANGED stored /\ calls' = calls /\ local' = local
      /\ lock' = lock /\ shares' = shares /\ int8AsText' = int8AsText
      /\ loads' = [loads EXCEPT ![n] = [pc |-> "row", revision |-> row.revision]]
    OBVIOUS
<1> USE StoredFrame
<1>2. loads' \in [Nodes -> LoadType]
    BY DEF TypeInv, LoadType
<1>3. /\ loads'[n].revision = row.revision /\ \A m \in Nodes \ {n} : loads'[m] = loads[m]
    BY <1>1 DEF TypeInv
<1>4. TypeInv'
    BY <1>1, <1>2 DEF TypeInv
<1>5. XidInv'
  <2>1. row.revision <= lastXid
    BY DEF XidInv, TypeInv
  <2>2. \A m \in Nodes : loads'[m].pc = "row" => loads'[m].revision <= lastXid
    BY <1>3, <2>1 DEF XidInv
  <2> QED BY <2>2, <1>1 DEF XidInv
<1>6. LockInv'
    BY <1>1 DEF LockInv, Appending, Working
<1>7. LoadInv'
  <2> SUFFICES ASSUME Alive PROVE LoadInv'
    BY <1>1 DEF LoadInv
  <2>1. row.revision <= row.revision
    BY DEF TypeInv
  <2>2. \A m \in Nodes : loads'[m].pc = "row" => loads'[m].revision <= row.revision
    BY <1>3, <2>1 DEF LoadInv
  <2> QED BY <2>2, <1>1 DEF LoadInv, Fresh
<1>8. ToldInv'
    BY <1>1 DEF ToldInv
<1>9. NumberInv'
    BY <1>1 DEF NumberInv, Numbered, Placed, NumberFits, Overlap
<1> QED BY <1>4, <1>5, <1>6, <1>7, <1>8, <1>9

\* The second: every event that is stored by now is in the session object, and
\* if some were stored since the first, its revision is behind.
LEMMA LoadEventsKeeps == ASSUME IInv, NEW n \in Nodes, LoadEvents(n) PROVE IInv'
<1> USE DEF IInv, LoadEvents, locks
<1>1. /\ UNCHANGED stored /\ calls' = calls /\ loads[n].pc = "row"
      /\ lock' = lock /\ shares' = shares /\ int8AsText' = int8AsText
      /\ loads' = [loads EXCEPT ![n] = NoLoad]
      /\ local' = [local EXCEPT ![n] = Session(loads[n].revision, Xids, "load")]
    OBVIOUS
<1> USE StoredFrame
<1>2. loads[n].revision \in Nat
    BY <1>1 DEF TypeInv, LoadType, NoLoad
<1>3. Xids \subseteq Nat
    BY DEF XidInv
<1>4. Session(loads[n].revision, Xids, "load") \in SessionType
    BY <1>2, <1>3 DEF Session, SessionType
<1>5. /\ local'[n].revision = loads[n].revision /\ local'[n].view = Xids
      /\ loads'[n].pc = "idle"
      /\ \A m \in Nodes \ {n} : loads'[m] = loads[m] /\ local'[m] = local[m]
    BY <1>1 DEF TypeInv, Session, NoLoad
<1>6. TypeInv'
    BY <1>1, <1>4 DEF TypeInv, LoadType
<1>7. XidInv'
  <2>1. \A m \in Nodes : local'[m].revision <= lastXid
    BY <1>1, <1>5 DEF XidInv
  <2>2. \A m \in Nodes : loads'[m].pc = "row" => loads'[m].revision <= lastXid
    BY <1>5 DEF XidInv
  <2> QED BY <2>1, <2>2, <1>1 DEF XidInv
<1>8. LockInv'
    BY <1>1 DEF LockInv, Appending, Working
<1>9. LoadInv'
  <2> SUFFICES ASSUME Alive PROVE LoadInv'
    BY <1>1 DEF LoadInv
  <2>1. \A m \in Nodes : Fresh(local[m])'
    BY <1>1, <1>5 DEF LoadInv, Fresh
  <2>2. \A m \in Nodes : loads'[m].pc = "row" => loads'[m].revision <= row.revision
    BY <1>5 DEF LoadInv
  <2>3. \A c \in Calls : calls'[c].pc \in Busy => Fresh(calls[c].session)'
    BY <1>1 DEF LoadInv, Fresh
  <2> QED BY <2>1, <2>2, <2>3, <1>1 DEF LoadInv
<1>10. ToldInv'
    BY <1>1, <1>5 DEF ToldInv
<1>11. NumberInv'
    BY <1>1 DEF NumberInv, Numbered, Placed, NumberFits, Overlap
<1> QED BY <1>6, <1>7, <1>8, <1>9, <1>10, <1>11
-----------------------------------------------------------------------------
\* A call moves to record r and the store stays as it is: what r must satisfy
\* for the invariant, except for the locks.
LEMMA CallMoves ==
  ASSUME IInv, NEW c \in Calls, NEW r \in {NoCall} \cup BusyType,
         calls' = [calls EXCEPT ![c] = r],
         UNCHANGED stored, UNCHANGED int8AsText, local' = local, loads' = loads,
         lock' \in Calls \cup {Free}, shares' \subseteq Calls,
         r.pc \in Busy /\ Alive => Fresh(r.session),
         r.pc \in {"numbered", "placed", "inserted"} /\ Alive => r.first > 0 /\ NumberFits(r.first),
         r.pc \in {"placed", "inserted"} /\ Alive =>
           /\ \A i \in 1 .. Len(events) : ~Overlap(r, events[i])
           /\ \A d \in Calls \ {c} : Placed(d) => ~Overlap(r, calls[d]) /\ ~Overlap(calls[d], r)
  PROVE  TypeInv' /\ XidInv' /\ LoadInv' /\ ToldInv' /\ NumberInv'
<1> USE DEF IInv
<1>0. /\ row' = row /\ events' = events /\ lastXid' = lastXid /\ int8AsText' = int8AsText
      /\ Xids' = Xids /\ Batches' = Batches /\ MaxSeq' = MaxSeq /\ Lasts' = Lasts
      /\ Alive' = Alive /\ NextSeq(MaxSeq)' = NextSeq(MaxSeq)
    BY StoredFrame
<1>1. calls'[c] = r /\ \A d \in Calls \ {c} : calls'[d] = calls[d]
    BY DEF TypeInv
<1>2. r.pc # "committed"
    BY DEF BusyType, Busy, NoCall
<1>3. TypeInv'
    BY <1>0 DEF TypeInv
<1>4. XidInv'
  <2>1. \A d \in Calls : calls'[d].pc = "committed" => calls'[d].xid \in 1 .. lastXid
    BY <1>1, <1>2 DEF XidInv
  <2> QED BY <2>1, <1>0 DEF XidInv
<1>5. LoadInv'
  <2> SUFFICES ASSUME Alive PROVE LoadInv'
    BY <1>0 DEF LoadInv
  <2>1. \A d \in Calls : calls'[d].pc \in Busy => Fresh(calls[d].session)'
    BY <1>0, <1>1 DEF LoadInv, Fresh
  <2> QED BY <2>1, <1>0 DEF LoadInv, Fresh
<1>6. ToldInv'
    BY <1>0, <1>1, <1>2 DEF ToldInv
<1>7. NumberInv'
  <2> SUFFICES ASSUME Alive PROVE NumberInv'
    BY <1>0 DEF NumberInv
  <2>1. \A f : NumberFits(f)' <=> NumberFits(f)
    BY <1>0 DEF NumberFits
  <2>2. \A d \in Calls : Numbered(d)' => calls'[d].first > 0 /\ NumberFits(calls'[d].first)
    BY <1>1 DEF NumberInv, Numbered
  <2>3. \A d \in Calls : Placed(d)' => \A i \in 1 .. Len(events) : ~Overlap(calls'[d], events[i])
    BY <1>1 DEF NumberInv, Placed
  <2>4. \A d, e \in Calls : Placed(d)' /\ Placed(e)' /\ d # e => ~Overlap(calls'[d], calls'[e])
    BY <1>1 DEF NumberInv, Placed
  <2>5. \A d \in Calls : Numbered(d)' => calls'[d].first > 0 /\ NumberFits(calls[d].first)'
    BY <2>2, <1>0 DEF NumberFits
  <2>6. \A d \in Calls : Placed(d)' => \A i \in 1 .. Len(events) : ~Overlap(calls[d], events[i])'
    BY <2>3, <1>0 DEF Overlap
  <2>7. \A d, e \in Calls : Placed(d)' /\ Placed(e)' /\ d # e => ~Overlap(calls[d], calls[e])'
    BY <2>4 DEF Overlap
  <2> QED BY <2>5, <2>6, <2>7, <1>0 DEF NumberInv
<1> QED BY <1>3, <1>4, <1>5, <1>6, <1>7

\* The locks still belong to their holders after a call has moved to r.
LEMMA LocksMove ==
  ASSUME IInv, NEW c \in Calls, NEW r \in {NoCall} \cup BusyType,
         calls' = [calls EXCEPT ![c] = r], UNCHANGED stored, UNCHANGED int8AsText,
         lock' = c <=> (r.pc \in {"checked", "numbered", "placed", "inserted"} /\ r.op = "append"),
         lock' \in {c, lock} \/ (lock = c /\ lock' = Free),
         lock' # lock => lock \in {c, Free},
         shares' \subseteq shares \cup {c}, c \in shares' => r.pc = "inserted",
         lock' = c => /\ r.base = Len(events)
                      /\ r.session.from = "load" => r.session.view = Xids
  PROVE  LockInv'
<1> USE DEF IInv
<1>0. events' = events /\ Xids' = Xids
    BY StoredFrame
<1>1. calls'[c] = r /\ \A d \in Calls \ {c} : calls'[d] = calls[d]
    BY DEF TypeInv
<1>2. \A d \in Calls \ {c} : lock' = d <=> lock = d
    BY CallsAssumption DEF Free
<1>3. Appending(c)' <=> lock' = c
    BY <1>1 DEF Appending, Working
<1>4. \A d \in Calls \ {c} : Appending(d)' <=> Appending(d)
    BY <1>1 DEF Appending, Working
<1>5. \A d \in Calls : lock' = d <=> Appending(d)'
    BY <1>2, <1>3, <1>4 DEF LockInv
<1>6. \A d \in shares' : calls'[d].pc = "inserted"
    BY <1>1 DEF LockInv, TypeInv
<1>7. \A d \in Calls : Appending(d)' =>
        /\ calls'[d].base = Len(events)
        /\ calls'[d].session.from = "load" => calls'[d].session.view = Xids
    BY <1>1, <1>3, <1>4 DEF LockInv
<1> QED BY <1>0, <1>5, <1>6, <1>7 DEF LockInv

\* An appendBatch starts with the session object of its node.
LEMMA AppendBeginKeeps ==
  ASSUME IInv, NEW c \in Calls, NEW n \in Nodes, NEW size \in Sizes, AppendBegin(c, n, size)
  PROVE  IInv'
<1> DEFINE r == [pc |-> "begun", op |-> "append", node |-> n, size |-> size, first |-> 0,
                 last |-> -1, session |-> local[n], base |-> 0]
<1>1. /\ calls' = [calls EXCEPT ![c] = r] /\ UNCHANGED stored /\ UNCHANGED int8AsText
      /\ local' = local /\ loads' = loads /\ lock' = lock /\ shares' = shares
      /\ calls[c].pc = "idle"
    BY DEF AppendBegin, locks
<1>2. r \in BusyType
    BY SizesAssumption DEF IInv, TypeInv, BusyType, Busy
<1>3. /\ r.pc = "begun" /\ r.session = local[n]
      /\ r.pc \notin {"checked", "numbered", "placed", "inserted"}
    OBVIOUS
<1>4. Alive => Fresh(r.session)
    BY <1>3 DEF IInv, LoadInv
<1>5. lock # c /\ c \notin shares
    BY <1>1 DEF IInv, LockInv, Appending, Working
<1>6. lock \in Calls \cup {Free} /\ shares \subseteq Calls
    BY DEF IInv, TypeInv
<1> HIDE DEF r
<1>7. TypeInv' /\ XidInv' /\ LoadInv' /\ ToldInv' /\ NumberInv'
    BY <1>1, <1>2, <1>3, <1>4, <1>6, CallMoves
<1>8. LockInv'
    BY <1>1, <1>2, <1>3, <1>5, LocksMove
<1> QED BY <1>7, <1>8 DEF IInv

\* A commitRepair starts with nothing.
LEMMA RepairBeginKeeps ==
  ASSUME IInv, NEW c \in Calls, NEW n \in Nodes, NEW size \in Sizes, RepairBegin(c, n, size)
  PROVE  IInv'
<1> DEFINE r == [pc |-> "checked", op |-> "repair", node |-> n, size |-> size, first |-> 0,
                 last |-> -1, session |-> NoSession, base |-> 0]
<1>1. /\ calls' = [calls EXCEPT ![c] = r] /\ UNCHANGED stored /\ UNCHANGED int8AsText
      /\ local' = local /\ loads' = loads /\ lock' = lock /\ shares' = shares
      /\ calls[c].pc = "idle"
    BY DEF RepairBegin, locks
<1>2. r \in BusyType
    BY SizesAssumption DEF BusyType, Busy, SessionType, NoSession
<1>3. r.pc = "checked" /\ r.op = "repair" /\ r.session = NoSession
    OBVIOUS
<1>4. Fresh(r.session)
    BY <1>3 DEF Fresh, NoSession
<1>5. lock # c /\ c \notin shares
    BY <1>1 DEF IInv, LockInv, Appending, Working
<1>6. lock \in Calls \cup {Free} /\ shares \subseteq Calls
    BY DEF IInv, TypeInv
<1> HIDE DEF r
<1>7. TypeInv' /\ XidInv' /\ LoadInv' /\ ToldInv' /\ NumberInv'
    BY <1>1, <1>2, <1>3, <1>4, <1>6, CallMoves
<1>8. LockInv'
    BY <1>1, <1>2, <1>3, <1>5, LocksMove
<1> QED BY <1>7, <1>8 DEF IInv

\* The revision check: nothing was committed since the revision was loaded, and
\* with the lock nothing will be.
LEMMA AppendCheckKeeps == ASSUME IInv, NEW c \in Calls, AppendCheck(c) PROVE IInv'
<1>1. /\ UNCHANGED stored /\ UNCHANGED int8AsText
      /\ local' = local /\ loads' = loads /\ lock' = c /\ shares' = shares
      /\ calls[c].pc = "begun" /\ calls[c].op = "append"
      /\ lock = Free /\ shares = {} /\ row.exists
      /\ row.revision = calls[c].session.revision
    BY DEF AppendCheck
<1>2. PICK q \in BusyType : q = calls[c]
    BY <1>1, BusyRecord DEF IInv, Busy
<1> DEFINE r == [q EXCEPT !.pc = "checked", !.base = Len(events)]
<1>3. calls' = [calls EXCEPT ![c] = r] /\ Len(events) \in Nat
    BY <1>2 DEF AppendCheck, IInv, TypeInv
<1>4. /\ r \in BusyType /\ r.pc = "checked" /\ r.op = "append"
      /\ r.session = calls[c].session /\ r.base = Len(events)
    BY <1>1, <1>2, <1>3 DEF BusyType, Busy
<1> HIDE DEF r
<1>5. Fresh(calls[c].session)
    BY <1>1 DEF IInv, LoadInv, Alive, Busy
<1>6. r.session.from = "load" => r.session.view = Xids
    BY <1>1, <1>4, <1>5 DEF Fresh
<1>7. TypeInv' /\ XidInv' /\ LoadInv' /\ ToldInv' /\ NumberInv'
    BY <1>1, <1>3, <1>4, <1>5, CallMoves
<1>8. LockInv'
    BY <1>1, <1>3, <1>4, <1>6, LocksMove
<1> QED BY <1>7, <1>8 DEF IInv

\* MAX(seq) is a natural number and no stored number exceeds it.
LEMMA MaxSeqBounds ==
  ASSUME IInv
  PROVE  /\ MaxSeq \in Nat /\ NextSeq(MaxSeq) \in Nat /\ NextSeq(MaxSeq) > MaxSeq
         /\ \A i \in Batches : events[i].last <= MaxSeq
<1>1. MaxSeq = Max0(Lasts)
    BY DEF MaxSeq, Lasts
<1>2. Lasts # {} => \E x \in Lasts : \A y \in Lasts : y <= x
  <2>1. CASE Alive
    BY <2>1 DEF IInv, NumberInv
  <2>2. CASE ~Alive
    BY <2>2 DEF IInv, XidInv, Alive, Lasts, Batches
  <2> QED BY <2>1, <2>2
<1>3. \A i \in Batches : events[i] \in BatchType /\ events[i].first <= events[i].last
    BY DEF Batches, IInv, TypeInv
<1>4. \A y \in Lasts : y \in Nat
  <2>1. \A i \in Batches : events[i].last \in Nat
    BY <1>3 DEF BatchType
  <2> QED BY <2>1 DEF Lasts
<1>5. MaxSeq \in Nat /\ \A y \in Lasts : y <= MaxSeq
  <2>1. CASE Lasts = {}
    BY <2>1, <1>1 DEF Max0
  <2>2. CASE Lasts # {}
    BY <2>2, <1>1, <1>2, <1>4 DEF Max0
  <2> QED BY <2>1, <2>2
<1>6. NextSeq(MaxSeq) \in Nat /\ NextSeq(MaxSeq) > MaxSeq
    BY <1>5 DEF NextSeq
<1> QED BY <1>5, <1>6 DEF Lasts

\* MAX(seq) gives the next number.
LEMMA ReadMaxKeeps == ASSUME IInv, NEW c \in Calls, ReadMax(c) PROVE IInv'
<1>1. /\ UNCHANGED stored /\ UNCHANGED int8AsText
      /\ local' = local /\ loads' = loads /\ lock' = lock /\ shares' = shares
      /\ calls[c].pc = "checked"
    BY DEF ReadMax, locks
<1>2. PICK q \in BusyType : q = calls[c]
    BY <1>1, BusyRecord DEF IInv, Busy
<1>3. PICK f \in Nat : f = NextSeq(MaxSeq) /\ f > 0
    BY MaxSeqBounds
<1>a. PICK l \in Int : l = f + q.size - 1
    BY DEF BusyType
<1> DEFINE r == [q EXCEPT !.pc = "numbered", !.first = f, !.last = l]
<1>4. calls' = [calls EXCEPT ![c] = r]
    BY <1>2, <1>3, <1>a DEF ReadMax
<1>5. /\ r \in BusyType /\ r.pc = "numbered" /\ r.op = q.op /\ r.base = q.base
      /\ r.session = q.session /\ r.first = f
    BY <1>2, <1>3 DEF BusyType, Busy
<1> HIDE DEF r
<1>6. Alive => Fresh(r.session)
    BY <1>1, <1>2, <1>5 DEF IInv, LoadInv, Busy
<1>7. r.first > 0 /\ NumberFits(r.first)
    BY <1>3, <1>5 DEF NumberFits
<1>8. lock \in Calls \cup {Free} /\ shares \subseteq Calls
    BY DEF IInv, TypeInv
<1>9. /\ lock = c <=> q.op = "append"
      /\ c \notin shares
      /\ lock = c => q.base = Len(events) /\ (q.session.from = "load" => q.session.view = Xids)
    BY <1>1, <1>2 DEF IInv, LockInv, Appending, Working
<1>10. TypeInv' /\ XidInv' /\ LoadInv' /\ ToldInv' /\ NumberInv'
    BY <1>1, <1>4, <1>5, <1>6, <1>7, <1>8, CallMoves
<1>11. LockInv'
    BY <1>1, <1>4, <1>5, <1>9, LocksMove
<1> QED BY <1>10, <1>11 DEF IInv

\* The primary key lets rows in that meet no others, committed or not.
LEMMA InsertRowsKeeps == ASSUME IInv, NEW c \in Calls, InsertRows(c) PROVE IInv'
<1>1. /\ UNCHANGED stored /\ UNCHANGED int8AsText
      /\ local' = local /\ loads' = loads /\ lock' = lock /\ shares' = shares
      /\ calls[c].pc = "numbered"
      /\ \A d \in Calls \ {c} : Placed(d) => ~Overlap(calls[c], calls[d])
      /\ \A i \in 1 .. Len(events) : ~Overlap(calls[c], events[i])
    BY DEF InsertRows, locks, Placed, Goto
<1>2. PICK q \in BusyType : q = calls[c]
    BY <1>1, BusyRecord DEF IInv, Busy
<1>3. PICK p \in {"placed", "inserted"} : p = IF q.size = 0 THEN "inserted" ELSE "placed"
    OBVIOUS
<1> DEFINE r == [q EXCEPT !.pc = p]
<1>4. calls' = [calls EXCEPT ![c] = r]
    BY <1>2, <1>3 DEF InsertRows, Goto
<1>5. /\ r \in BusyType /\ r.pc = p /\ r.op = q.op /\ r.base = q.base
      /\ r.session = q.session /\ r.first = q.first /\ r.last = q.last
    BY <1>2, <1>3 DEF BusyType, Busy
<1> HIDE DEF r
<1>6. Alive => Fresh(r.session) /\ r.first > 0 /\ NumberFits(r.first)
    BY <1>1, <1>2, <1>5 DEF IInv, LoadInv, NumberInv, Numbered, Busy
<1>7. /\ \A i \in 1 .. Len(events) : ~Overlap(r, events[i])
      /\ \A d \in Calls \ {c} : Placed(d) => ~Overlap(r, calls[d]) /\ ~Overlap(calls[d], r)
    BY <1>1, <1>2, <1>5 DEF Overlap
<1>8. lock \in Calls \cup {Free} /\ shares \subseteq Calls
    BY DEF IInv, TypeInv
<1>9. /\ lock = c <=> q.op = "append"
      /\ c \notin shares
      /\ lock = c => q.base = Len(events) /\ (q.session.from = "load" => q.session.view = Xids)
    BY <1>1, <1>2 DEF IInv, LockInv, Appending, Working
<1>10. TypeInv' /\ XidInv' /\ LoadInv' /\ ToldInv' /\ NumberInv'
    BY <1>1, <1>4, <1>5, <1>6, <1>7, <1>8, CallMoves
<1>11. LockInv'
    BY <1>1, <1>3, <1>4, <1>5, <1>9, LocksMove
<1> QED BY <1>10, <1>11 DEF IInv

\* The foreign key's lock keeps the row; a size of 0 has come past it.
LEMMA CheckForeignKeyKeeps == ASSUME IInv, NEW c \in Calls, CheckForeignKey(c) PROVE IInv'
<1>1. /\ UNCHANGED stored /\ UNCHANGED int8AsText
      /\ local' = local /\ loads' = loads /\ lock' = lock /\ shares' = shares \cup {c}
      /\ calls[c].pc = "placed"
    BY DEF CheckForeignKey
<1>2. PICK q \in BusyType : q = calls[c]
    BY <1>1, BusyRecord DEF IInv, Busy
<1> DEFINE r == [q EXCEPT !.pc = "inserted"]
<1>3. calls' = [calls EXCEPT ![c] = r]
    BY <1>2 DEF CheckForeignKey, Goto
<1>4. /\ r \in BusyType /\ r.pc = "inserted" /\ r.op = q.op /\ r.base = q.base
      /\ r.session = q.session /\ r.first = q.first /\ r.last = q.last
    BY <1>2 DEF BusyType, Busy
<1> HIDE DEF r
<1>5. Alive => Fresh(r.session) /\ r.first > 0 /\ NumberFits(r.first)
    BY <1>1, <1>2, <1>4 DEF IInv, LoadInv, NumberInv, Numbered, Busy
<1>6. Alive =>
        /\ \A i \in 1 .. Len(events) : ~Overlap(r, events[i])
        /\ \A d \in Calls \ {c} : Placed(d) => ~Overlap(r, calls[d]) /\ ~Overlap(calls[d], r)
  <2>1. Placed(c)
    BY <1>1 DEF Placed
  <2>2. Alive =>
          /\ \A i \in 1 .. Len(events) : ~Overlap(q, events[i])
          /\ \A d \in Calls \ {c} : Placed(d) => ~Overlap(q, calls[d]) /\ ~Overlap(calls[d], q)
    BY <2>1, <1>2 DEF IInv, NumberInv
  <2> QED BY <2>2, <1>4 DEF Overlap
<1>7. lock' \in Calls \cup {Free} /\ shares' \subseteq Calls
    BY <1>1 DEF IInv, TypeInv
<1>8. /\ lock = c <=> q.op = "append"
      /\ lock = c => q.base = Len(events) /\ (q.session.from = "load" => q.session.view = Xids)
    BY <1>1, <1>2 DEF IInv, LockInv, Appending, Working
<1>9. TypeInv' /\ XidInv' /\ LoadInv' /\ ToldInv' /\ NumberInv'
    BY <1>1, <1>3, <1>4, <1>5, <1>6, <1>7, CallMoves
<1>10. LockInv'
    BY <1>1, <1>3, <1>4, <1>8, LocksMove
<1> QED BY <1>9, <1>10 DEF IInv

\* ROLLBACK: the call is gone, and its locks.
LEMMA FailsKeeps == ASSUME IInv, NEW c \in Calls, Fails(c) PROVE IInv'
<1>1. /\ UNCHANGED stored /\ UNCHANGED int8AsText /\ local' = local /\ loads' = loads
      /\ lock' = (IF lock = c THEN Free ELSE lock) /\ shares' = shares \ {c}
      /\ calls' = [calls EXCEPT ![c] = NoCall]
    BY DEF Fails, Unlocked
<1>2. lock' \in Calls \cup {Free} /\ shares' \subseteq Calls /\ lock' # c
    BY <1>1, CallsAssumption DEF IInv, TypeInv, Free
<1>3. NoCall.pc = "idle"
    BY DEF NoCall
<1>4. TypeInv' /\ XidInv' /\ LoadInv' /\ ToldInv' /\ NumberInv'
    BY <1>1, <1>2, <1>3, CallMoves DEF Busy
<1>5. LockInv'
    BY <1>1, <1>2, <1>3, LocksMove
<1> QED BY <1>4, <1>5 DEF IInv

\* The coordinator resumes: its session object gains the batch it wrote.
LEMMA ReturnsKeeps == ASSUME IInv, NEW c \in Calls, Returns(c) PROVE IInv'
<1> USE DEF IInv
<1>1. /\ UNCHANGED stored /\ UNCHANGED int8AsText /\ loads' = loads
      /\ lock' = lock /\ shares' = shares /\ calls[c].pc = "committed"
      /\ calls' = [calls EXCEPT ![c] = NoCall]
    BY DEF Returns, locks
<1>2. PICK q \in CommittedType : q = calls[c]
    BY <1>1, CommittedRecord
<1>3. q.xid \in 1 .. lastXid /\ q.node \in Nodes /\ q.op \in {"append", "repair"} /\ q.xid \in Nat
    BY <1>1, <1>2 DEF XidInv, CommittedType
<1>4. Alive => q.xid \in Xids
    BY <1>1, <1>2 DEF ToldInv
<1> DEFINE s == Session(q.xid, local[q.node].view \cup {q.xid}, q.op)
<1>5. local' = local \/ local' = [local EXCEPT ![q.node] = s]
    BY <1>2 DEF Returns
<1>6. local[q.node] \in SessionType
    BY <1>3 DEF TypeInv
<1>7. /\ s \in SessionType /\ s.revision = q.xid /\ s.from # "load"
      /\ s.view = local[q.node].view \cup {q.xid}
    BY <1>3, <1>6 DEF Session, SessionType
<1> HIDE DEF s
<1>8. \A n \in Nodes : local'[n] = local[n] \/ (n = q.node /\ local'[n] = s)
    BY <1>5 DEF TypeInv
<1>9. local' \in [Nodes -> SessionType]
    BY <1>5, <1>7 DEF TypeInv
<1>10. calls'[c] = NoCall /\ NoCall.pc = "idle" /\ \A d \in Calls \ {c} : calls'[d] = calls[d]
    BY <1>1 DEF TypeInv, NoCall
<1>11. /\ row' = row /\ events' = events /\ lastXid' = lastXid /\ int8AsText' = int8AsText
       /\ Xids' = Xids /\ Batches' = Batches /\ MaxSeq' = MaxSeq /\ Lasts' = Lasts
       /\ Alive' = Alive /\ NextSeq(MaxSeq)' = NextSeq(MaxSeq)
    BY <1>1, StoredFrame
<1>12. TypeInv'
    BY <1>1, <1>9, <1>11 DEF TypeInv
<1>13. XidInv'
  <2>1. \A n \in Nodes : local'[n].revision <= lastXid
    BY <1>3, <1>7, <1>8 DEF XidInv, TypeInv
  <2>2. \A d \in Calls : calls'[d].pc = "committed" => calls'[d].xid \in 1 .. lastXid
    BY <1>10 DEF XidInv
  <2> QED BY <2>1, <2>2, <1>1, <1>11 DEF XidInv
<1>14. LockInv'
  <2>1. \A d \in Calls : Appending(d)' <=> Appending(d)
    BY <1>1, <1>10 DEF Appending, Working
  <2>2. \A d \in shares : calls'[d].pc = "inserted"
    BY <1>1, <1>10 DEF LockInv, TypeInv
  <2>3. \A d \in Calls : Appending(d) => calls'[d] = calls[d]
    BY <1>1, <1>10 DEF Appending, Working
  <2> QED BY <2>1, <2>2, <2>3, <1>1, <1>11 DEF LockInv
<1>15. LoadInv'
  <2> SUFFICES ASSUME Alive PROVE LoadInv'
    BY <1>11 DEF LoadInv
  <2>1. \A n \in Nodes : Fresh(local[n])'
    BY <1>7, <1>8, <1>11 DEF LoadInv, Fresh
  <2>2. \A d \in Calls : calls'[d].pc \in Busy => Fresh(calls[d].session)'
    BY <1>10, <1>11 DEF LoadInv, Fresh, Busy
  <2> QED BY <2>1, <2>2, <1>1, <1>11 DEF LoadInv
<1>16. ToldInv'
  <2> SUFFICES ASSUME Alive PROVE ToldInv'
    BY <1>11 DEF ToldInv
  <2>1. \A n \in Nodes : local'[n].view \subseteq Xids
    BY <1>3, <1>4, <1>7, <1>8 DEF ToldInv
  <2>2. \A d \in Calls : calls'[d].pc = "committed" => calls'[d].xid \in Xids
    BY <1>10 DEF ToldInv
  <2> QED BY <2>1, <2>2, <1>11 DEF ToldInv
<1>17. NumberInv'
  <2>1. \A d \in Calls : Numbered(d)' => calls'[d] = calls[d] /\ Numbered(d)
    BY <1>10 DEF Numbered
  <2>2. \A d \in Calls : Placed(d)' => calls'[d] = calls[d] /\ Placed(d)
    BY <1>10 DEF Placed
  <2> QED BY <2>1, <2>2, <1>11 DEF NumberInv, NumberFits, Overlap
<1> QED BY <1>12, <1>13, <1>14, <1>15, <1>16, <1>17
-----------------------------------------------------------------------------
\* What a call may commit: rows that come after every stored one, because its
\* number is still the next, or would meet the batch that took it.
LEMMA CommitFollows ==
  ASSUME IInv, NEW c \in Calls, calls[c].pc = "inserted", row.exists,
         calls[c].first <= calls[c].last
  PROVE  /\ calls[c].first = NextSeq(MaxSeq)
         /\ \A i \in Batches : events[i].last < calls[c].first
<1>1. Placed(c) /\ Numbered(c) /\ Alive
    BY DEF Placed, Numbered, Alive
<1>2. PICK q \in BusyType : q = calls[c]
    BY BusyRecord DEF IInv, Busy
<1>3. q.first \in Nat /\ q.last \in Int /\ q.first <= q.last
    BY <1>2 DEF BusyType
<1>4. \A i \in Batches : i \in 1 .. Len(events) /\ events[i] \in BatchType
                         /\ events[i].first <= events[i].last
    BY DEF Batches, IInv, TypeInv
<1>5. ASSUME NEW i \in Batches PROVE events[i].first # q.first
  <2>1. ~Overlap(q, events[i])
    BY <1>1, <1>2, <1>4 DEF IInv, NumberInv
  <2>2. events[i].first \in Nat /\ events[i].last \in Int
    BY <1>4 DEF BatchType
  <2> QED BY <2>1, <2>2, <1>3, <1>4 DEF Overlap
<1>6. q.first = NextSeq(MaxSeq)
    BY <1>1, <1>2, <1>5 DEF IInv, NumberInv, NumberFits
<1>7. \A i \in Batches : events[i].last \in Int
    BY <1>4 DEF BatchType
<1> QED BY <1>2, <1>6, <1>7, MaxSeqBounds

\* The batch that is appended, and the log it makes.
LEMMA CommitAppends ==
  ASSUME IInv, NEW c \in Calls, NEW answered \in BOOLEAN, UpdateAndCommit(c, answered)
  PROVE  /\ events' \in Seq(BatchType) /\ Len(events') = Len(events) + 1
         /\ \A i \in 1 .. Len(events) : events'[i] = events[i]
         /\ events'[Len(events) + 1] = Batch(c, lastXid + 1)
         /\ SubSeq(events', 1, Len(events)) = events
         /\ Xids' = Xids \cup {lastXid + 1}
<1> DEFINE b == Batch(c, lastXid + 1)
<1>1. events' = Append(events, b) /\ calls[c].pc = "inserted"
    BY DEF UpdateAndCommit, NewXid
<1>2. events \in Seq(BatchType) /\ lastXid \in Nat
    BY DEF IInv, TypeInv
<1>3. PICK q \in BusyType : q = calls[c]
    BY <1>1, BusyRecord DEF IInv, Busy
<1>4. b \in BatchType /\ b.xid = lastXid + 1
    BY <1>2, <1>3 DEF BatchType, BusyType, Batch
<1> HIDE DEF b
<1>5. /\ events' \in Seq(BatchType) /\ Len(events') = Len(events) + 1
      /\ \A i \in 1 .. Len(events) : events'[i] = events[i]
      /\ events'[Len(events) + 1] = b
    BY <1>1, <1>2, <1>4, AppendProperties
<1>6. PICK n \in Nat : n = Len(events)
    BY <1>2
<1>7. SubSeq(events', 1, n) = events
  <2>1. Len(SubSeq(events', 1, n)) = n
    BY <1>5, <1>6
  <2>2. \A i \in 1 .. n : SubSeq(events', 1, n)[i] = events[i]
    BY <1>5, <1>6
  <2>3. SubSeq(events', 1, n) \in Seq(BatchType)
    BY <1>5, <1>6
  <2> QED BY <2>1, <2>2, <2>3, <1>2, <1>6, SeqEqual
<1>8. Xids' = Xids \cup {b.xid}
    BY <1>5, <1>6 DEF Xids
<1> QED BY <1>4, <1>5, <1>6, <1>7, <1>8 DEF b

\* The commit.
LEMMA UpdateAndCommitKeeps ==
  ASSUME IInv, NEW c \in Calls, NEW answered \in BOOLEAN, UpdateAndCommit(c, answered)
  PROVE  IInv'
<1>1. /\ calls[c].pc = "inserted" /\ row.exists /\ lock \in {Free, c}
      /\ Len(events) < MaxBatches /\ lastXid < MaxXid /\ lastXid' = lastXid + 1
      /\ row' = [exists |-> TRUE, revision |-> row.xmin, xmin |-> lastXid + 1]
      /\ lock' = Free /\ shares' = shares \ {c}
      /\ int8AsText' = int8AsText /\ local' = local /\ loads' = loads
    BY DEF UpdateAndCommit, NewXid, Unlocked
<1>2. PICK q \in BusyType : q = calls[c]
    BY <1>1, BusyRecord DEF IInv, Busy
<1>3. PICK x \in Nat : x = lastXid + 1 /\ x > lastXid
    BY DEF IInv, TypeInv
<1>4. PICK n \in Nat : n = Len(events)
    BY DEF IInv, TypeInv
<1>5. /\ events' \in Seq(BatchType) /\ Len(events') = n + 1
      /\ \A i \in 1 .. n : events'[i] = events[i]
      /\ events'[n + 1] = Batch(c, x)
      /\ Xids' = Xids \cup {x}
    BY <1>3, <1>4, CommitAppends
<1>6. PICK r \in {NoCall} \cup CommittedType :
        /\ calls' = [calls EXCEPT ![c] = r] /\ r.pc \notin Busy
        /\ r.pc = "committed" => r.xid = x
  <2>1. Committed(c, x) \in CommittedType /\ Committed(c, x).pc = "committed"
        /\ Committed(c, x).xid = x
    BY <1>2, <1>3 DEF Committed, CommittedType, BusyType
  <2>2. NoCall.pc = "idle"
    BY DEF NoCall
  <2>3. calls' = [calls EXCEPT ![c] = Committed(c, x)] \/ calls' = [calls EXCEPT ![c] = NoCall]
    BY <1>1, <1>3 DEF UpdateAndCommit
  <2> QED BY <2>1, <2>2, <2>3 DEF Busy
<1>7. calls'[c] = r /\ \A d \in Calls \ {c} : calls'[d] = calls[d]
    BY <1>6 DEF IInv, TypeInv
<1>8. row'.exists = TRUE /\ row'.revision = row.xmin /\ row'.xmin = x
    BY <1>1, <1>3
<1>9. Alive /\ Alive'
    BY <1>1, <1>8 DEF Alive
<1>10. TypeInv'
  <2>1. row' \in [exists : BOOLEAN, revision : Nat, xmin : Nat]
    BY <1>1, <1>3 DEF IInv, TypeInv
  <2>2. calls' \in [Calls -> {NoCall} \cup CommittedType \cup BusyType]
    BY <1>6 DEF IInv, TypeInv
  <2> QED BY <2>1, <2>2, <1>1, <1>3, <1>5 DEF IInv, TypeInv
<1>11. XidInv'
  <2>1. /\ row'.revision <= row'.xmin /\ row'.xmin <= lastXid' /\ lastXid' <= MaxXid
        /\ row'.revision < row'.xmin
    BY <1>1, <1>3, <1>8, SizesAssumption DEF IInv, XidInv, TypeInv
  <2>2. Len(events') <= MaxBatches
    BY <1>1, <1>4, <1>5, SizesAssumption
  <2>3. Xids' \subseteq 1 .. lastXid'
    BY <1>1, <1>3, <1>5 DEF IInv, XidInv, TypeInv
  <2>4. \A m \in Nodes : local'[m].revision <= lastXid'
    BY <1>1, <1>3 DEF IInv, XidInv, TypeInv, SessionType
  <2>5. \A m \in Nodes : loads'[m].pc = "row" => loads'[m].revision <= lastXid'
    BY <1>1, <1>3 DEF IInv, XidInv, TypeInv, LoadType, NoLoad
  <2>6. \A d \in Calls : calls'[d].pc = "committed" => calls'[d].xid \in 1 .. lastXid'
    BY <1>1, <1>3, <1>6, <1>7 DEF IInv, XidInv, TypeInv
  <2> QED BY <2>1, <2>2, <2>3, <2>4, <2>5, <2>6, <1>8 DEF XidInv
<1>12. LockInv'
  <2>1. \A d \in Calls \ {c} : ~Appending(d)
    BY <1>1, CallsAssumption DEF IInv, LockInv, Free
  <2>2. ~Appending(c)'
    BY <1>6, <1>7 DEF Appending, Working, Busy
  <2>3. \A d \in Calls : ~Appending(d)'
    BY <2>1, <2>2, <1>7 DEF Appending, Working
  <2>4. \A d \in Calls : lock' # d
    BY <1>1, CallsAssumption DEF Free
  <2>5. \A d \in shares' : calls'[d].pc = "inserted"
    BY <1>1, <1>7 DEF IInv, LockInv, TypeInv
  <2> QED BY <2>3, <2>4, <2>5 DEF LockInv
<1>13. LoadInv'
  <2>1. row.revision < row'.revision /\ row.revision \in Nat /\ row'.revision \in Nat
    BY <1>1, <1>8 DEF IInv, XidInv, TypeInv
  <2>2. ASSUME NEW s \in SessionType, Fresh(s)
        PROVE  s.from = "load" => s.revision < row'.revision
    BY <2>1, <2>2 DEF Fresh, SessionType
  <2>3. \A m \in Nodes : Fresh(local[m])'
    <3>1. \A m \in Nodes : local[m] \in SessionType /\ Fresh(local[m])
      BY <1>9 DEF IInv, TypeInv, LoadInv
    <3>2. \A m \in Nodes : local[m].from = "load" => local[m].revision < row'.revision
      BY <2>2, <3>1
    <3> QED BY <3>1, <3>2, <2>1, <1>1 DEF Fresh, SessionType
  <2>4. \A m \in Nodes : loads'[m].pc = "row" => loads'[m].revision <= row'.revision
    BY <2>1, <1>1, <1>9 DEF IInv, LoadInv, TypeInv, LoadType, NoLoad
  <2>5. \A d \in Calls : calls'[d].pc \in Busy => Fresh(calls[d].session)'
    <3> SUFFICES ASSUME NEW d \in Calls, calls'[d].pc \in Busy
                 PROVE  Fresh(calls[d].session)'
      OBVIOUS
    <3>1. d # c /\ calls'[d] = calls[d]
      BY <1>6, <1>7
    <3>2. calls[d].session \in SessionType /\ Fresh(calls[d].session)
      BY <3>1, <1>9, BusyRecord DEF IInv, LoadInv, BusyType
    <3>3. calls[d].session.from = "load" => calls[d].session.revision < row'.revision
      BY <2>2, <3>2
    <3> QED BY <3>1, <3>2, <3>3, <2>1 DEF Fresh, SessionType
  <2> QED BY <2>3, <2>4, <2>5 DEF LoadInv
<1>14. ToldInv'
  <2>1. \A m \in Nodes : local'[m].view \subseteq Xids'
    BY <1>1, <1>5, <1>9 DEF IInv, ToldInv
  <2>2. \A d \in Calls : calls'[d].pc = "committed" => calls'[d].xid \in Xids'
    BY <1>5, <1>6, <1>7, <1>9 DEF IInv, ToldInv
  <2> QED BY <2>1, <2>2 DEF ToldInv
<1> DEFINE b == Batch(c, x)
<1>15. /\ b.first = q.first /\ b.last = q.last /\ q.first \in Nat /\ q.last \in Int
       /\ q.first > 0
  <2>1. q.first > 0
    BY <1>1, <1>2, <1>9 DEF IInv, NumberInv, Numbered
  <2> QED BY <2>1, <1>2 DEF Batch, BusyType
<1> HIDE DEF b
<1>16. events'[n + 1] = b
    BY <1>5 DEF b
<1>17. /\ Batches' = IF b.first <= b.last THEN Batches \cup {n + 1} ELSE Batches
       /\ Batches \subseteq 1 .. n
       /\ \A i \in Batches : events'[i] = events[i]
  <2>1. \A i \in 1 .. n + 1 : i \in 1 .. n \/ i = n + 1
    OBVIOUS
  <2> QED BY <2>1, <1>4, <1>5, <1>16 DEF Batches
<1>18. NumberInv'
  <2>1. (Lasts # {} => \E y \in Lasts : \A z \in Lasts : z <= y)'
    <3>1. CASE b.first <= b.last
      <4>1. Lasts' = Lasts \cup {b.last}
        BY <3>1, <1>16, <1>17 DEF Lasts
      <4>2. \A i \in Batches : events[i].last < q.first
        BY <3>1, <1>1, <1>2, <1>15, CommitFollows
      <4>3. \A i \in Batches : events[i].last \in Int
        <5>1. \A i \in Batches : events[i] \in BatchType
          BY <1>4, <1>17 DEF IInv, TypeInv
        <5> QED BY <5>1 DEF BatchType
      <4>4. \A z \in Lasts' : z <= b.last
        BY <3>1, <4>1, <4>2, <4>3, <1>15 DEF Lasts
      <4> QED BY <4>1, <4>4
    <3>2. CASE ~(b.first <= b.last)
      <4>1. Lasts' = Lasts
        BY <3>2, <1>17 DEF Lasts
      <4> QED BY <4>1, <1>9 DEF IInv, NumberInv
    <3> QED BY <3>1, <3>2
  <2>2. \A i \in Batches' : events'[i].first > 0
    BY <1>9, <1>15, <1>16, <1>17 DEF IInv, NumberInv
  <2>3. ASSUME NEW f, NumberFits(f) PROVE NumberFits(f)'
    <3>1. CASE \E i \in Batches : events[i].first = f
      BY <3>1, <1>17 DEF NumberFits
    <3>2. CASE f = NextSeq(MaxSeq) /\ b.first <= b.last
      BY <3>2, <1>1, <1>2, <1>15, <1>16, <1>17, CommitFollows DEF NumberFits
    <3>3. CASE f = NextSeq(MaxSeq) /\ ~(b.first <= b.last)
      <4>1. MaxSeq' = MaxSeq
        BY <3>3, <1>17 DEF MaxSeq
      <4> QED BY <3>3, <4>1, <1>1 DEF NumberFits, NextSeq
    <3> QED BY <2>3, <3>1, <3>2, <3>3 DEF NumberFits
  <2>4. \A d \in Calls : Numbered(d)' => d # c /\ calls'[d] = calls[d] /\ Numbered(d)
    BY <1>6, <1>7 DEF Numbered, Busy
  <2>5. \A d \in Calls : Placed(d)' => d # c /\ calls'[d] = calls[d] /\ Placed(d)
    BY <1>6, <1>7 DEF Placed, Busy
  <2>6. \A d \in Calls : Numbered(d)' => calls'[d].first > 0 /\ NumberFits(calls[d].first)'
    <3> SUFFICES ASSUME NEW d \in Calls, Numbered(d)'
                 PROVE  calls'[d].first > 0 /\ NumberFits(calls[d].first)'
      OBVIOUS
    <3>1. calls'[d] = calls[d] /\ calls[d].first > 0 /\ NumberFits(calls[d].first)
      BY <2>4, <1>9 DEF IInv, NumberInv
    <3>2. NumberFits(calls[d].first)'
      BY <2>3, <3>1 DEF NumberFits
    <3> QED BY <3>1, <3>2
  <2>7. \A d \in Calls : Placed(d)' => \A i \in 1 .. Len(events') : ~Overlap(calls[d], events[i])'
    <3> SUFFICES ASSUME NEW d \in Calls, Placed(d)', NEW i \in 1 .. n + 1
                 PROVE  ~Overlap(calls'[d], events'[i])
      BY <1>5 DEF Overlap
    <3>1. d # c /\ calls'[d] = calls[d] /\ Placed(d) /\ Placed(c)
      BY <2>5, <1>1 DEF Placed
    <3>2. CASE i \in 1 .. n
      BY <3>1, <3>2, <1>4, <1>5, <1>9 DEF IInv, NumberInv
    <3>3. CASE i = n + 1
      <4>1. ~Overlap(calls[d], calls[c])
        BY <3>1, <1>9 DEF IInv, NumberInv
      <4> QED BY <3>1, <3>3, <4>1, <1>2, <1>15, <1>16 DEF Overlap
    <3> QED BY <3>2, <3>3
  <2>8. \A d, e \in Calls : Placed(d)' /\ Placed(e)' /\ d # e => ~Overlap(calls[d], calls[e])'
    BY <2>5, <1>9 DEF IInv, NumberInv, Overlap
  <2> QED BY <2>1, <2>2, <2>6, <2>7, <2>8 DEF NumberInv
<1> QED BY <1>10, <1>11, <1>12, <1>13, <1>14, <1>18 DEF IInv
-----------------------------------------------------------------------------
\* Every step keeps the invariant, so every reachable state has it.
THEOREM Inductive == Spec => []IInv
<1>1. IInv /\ [Next]_vars => IInv'
  <2> SUFFICES ASSUME IInv, [Next]_vars PROVE IInv'
    OBVIOUS
  <2>1. CASE CreateSession
    BY <2>1, CreateSessionKeeps
  <2>2. CASE DeleteSession
    BY <2>2, DeleteSessionKeeps
  <2>3. CASE \E n \in Nodes : LoadRow(n)
    BY <2>3, LoadRowKeeps
  <2>4. CASE \E n \in Nodes : LoadEvents(n)
    BY <2>4, LoadEventsKeeps
  <2>5. CASE \E c \in Calls, n \in Nodes, size \in Sizes : AppendBegin(c, n, size)
    BY <2>5, AppendBeginKeeps
  <2>6. CASE \E c \in Calls : AppendCheck(c)
    BY <2>6, AppendCheckKeeps
  <2>7. CASE \E c \in Calls, n \in Nodes, size \in Sizes : RepairBegin(c, n, size)
    BY <2>7, RepairBeginKeeps
  <2>8. CASE \E c \in Calls : ReadMax(c)
    BY <2>8, ReadMaxKeeps
  <2>9. CASE \E c \in Calls : InsertRows(c)
    BY <2>9, InsertRowsKeeps
  <2>10. CASE \E c \in Calls : CheckForeignKey(c)
    BY <2>10, CheckForeignKeyKeeps
  <2>11. CASE \E c \in Calls, answered \in BOOLEAN : UpdateAndCommit(c, answered)
    BY <2>11, UpdateAndCommitKeeps
  <2>12. CASE \E c \in Calls : Fails(c)
    BY <2>12, FailsKeeps
  <2>13. CASE \E c \in Calls : Returns(c)
    BY <2>13, ReturnsKeeps
  <2>14. CASE UNCHANGED vars
    <3>1. /\ UNCHANGED stored /\ UNCHANGED int8AsText /\ calls' = calls /\ local' = local
          /\ loads' = loads /\ lock' = lock /\ shares' = shares
      BY <2>14 DEF vars, stored
    <3>2. /\ row' = row /\ events' = events /\ lastXid' = lastXid /\ int8AsText' = int8AsText
          /\ Xids' = Xids /\ Batches' = Batches /\ MaxSeq' = MaxSeq /\ Lasts' = Lasts
          /\ Alive' = Alive /\ NextSeq(MaxSeq)' = NextSeq(MaxSeq)
      BY <3>1, StoredFrame
    <3>3. TypeInv' /\ XidInv'
      BY <3>1, <3>2 DEF IInv, TypeInv, XidInv
    <3>4. LockInv'
      BY <3>1, <3>2 DEF IInv, LockInv, Appending, Working
    <3>5. LoadInv' /\ ToldInv'
      BY <3>1, <3>2 DEF IInv, LoadInv, ToldInv, Fresh
    <3>6. NumberInv'
      BY <3>1, <3>2 DEF IInv, NumberInv, Numbered, Placed, NumberFits, Overlap
    <3> QED BY <3>3, <3>4, <3>5, <3>6 DEF IInv
  <2> QED
    BY <2>1, <2>2, <2>3, <2>4, <2>5, <2>6, <2>7, <2>8, <2>9, <2>10, <2>11, <2>12, <2>13, <2>14
    DEF Next
<1> QED BY Starts, <1>1, PTL DEF Spec

\* The types, and that a lock is held by the call that took it and no other.
THEOREM TypeOKHolds == Spec => []TypeOK
<1>1. IInv => TypeOK
  <2> SUFFICES ASSUME IInv PROVE TypeOK
    OBVIOUS
  <2>1. row.xmin \in 0 .. lastXid /\ row.revision \in 0 .. lastXid /\ lastXid \in 0 .. MaxXid
    BY SizesAssumption DEF IInv, TypeInv, XidInv
  <2>2. \A n \in Nodes : local[n].revision \in 0 .. lastXid
    BY DEF IInv, TypeInv, XidInv, SessionType
  <2> QED BY <2>1, <2>2 DEF TypeOK, IInv, TypeInv, XidInv, LockInv
<1> QED BY <1>1, Inductive, PTL

\* From its check to its commit an appendBatch has the log to itself.
THEOREM AppendExcludesOthersHolds == Spec => []AppendExcludesOthers
<1>1. IInv => AppendExcludesOthers
    BY DEF IInv, LockInv, AppendExcludesOthers
<1> QED BY <1>1, Inductive, PTL

\* A loaded session passes the check only while it holds every committed event.
THEOREM LoadedRevisionDetectsWritesHolds == Spec => []LoadedRevisionDetectsWrites
<1>1. IInv => LoadedRevisionDetectsWrites
    BY DEF IInv, LockInv, LoadedRevisionDetectsWrites
<1> QED BY <1>1, Inductive, PTL
-----------------------------------------------------------------------------
\* The store implements the abstract log: a commit appends a batch that follows
\* every other, deletion ends the log, a load and the answer to a call tell its
\* node of stored batches, and every other step is invisible.
THEOREM Implements == Spec => ImplementsEventLog
<1> DEFINE told == [n \in Nodes |-> local[n].view]
<1>1. Init => Log!Init
    BY DEF Init, Log!Init, NoSession
<1>2. IInv /\ IInv' /\ [Next]_vars => [Log!Next]_(Log!logVars)
  <2> SUFFICES ASSUME IInv, IInv', [Next]_vars PROVE Log!Next \/ UNCHANGED Log!logVars
    OBVIOUS
  <2>a. ASSUME UNCHANGED <<row, events, local>> PROVE UNCHANGED Log!logVars
    BY <2>a DEF Log!logVars
  <2>1. CASE CreateSession
    <3>1. ~row.exists /\ row'.exists /\ events = <<>> /\ events' = events /\ local' = local
      BY <2>1 DEF CreateSession, IInv, XidInv
    <3> QED BY <3>1 DEF Log!Next, Log!Create
  <2>2. CASE DeleteSession
    <3>1. row.exists /\ ~row'.exists /\ events' = <<>> /\ local' = local
      BY <2>2 DEF DeleteSession, IInv, TypeInv
    <3> QED BY <3>1 DEF Log!Next, Log!Delete
  <2>3. CASE \E n \in Nodes : LoadRow(n)
    BY <2>3, <2>a DEF LoadRow, stored
  <2>4. ASSUME NEW n \in Nodes, LoadEvents(n) \/ \E c \in Calls : Returns(c) /\ calls[c].node = n
        PROVE  Log!Next
    <3>1. row' = row /\ events' = events
      BY <2>4 DEF LoadEvents, Returns, stored
    <3>2. \A m \in Nodes \ {n} : local'[m] = local[m]
      BY <2>4 DEF LoadEvents, Returns, IInv, TypeInv
    <3>3. told' = [told EXCEPT ![n] = told'[n]]
      BY <3>2
    <3>4. row'.exists => local'[n].view \subseteq Xids'
      BY DEF IInv, ToldInv, Alive
    <3>5. row.exists => told'[n] \subseteq Xids
      BY <3>1, <3>4 DEF Xids
    <3>6. Log!Tell(n)
      BY <3>1, <3>3, <3>5 DEF Log!Tell, Log!Batches, Xids
    <3> QED BY <3>6 DEF Log!Next
  <2>5. CASE \E c \in Calls, n \in Nodes, size \in Sizes : AppendBegin(c, n, size)
    BY <2>5, <2>a DEF AppendBegin, stored
  <2>6. CASE \E c \in Calls : AppendCheck(c)
    BY <2>6, <2>a DEF AppendCheck, stored
  <2>7. CASE \E c \in Calls, n \in Nodes, size \in Sizes : RepairBegin(c, n, size)
    BY <2>7, <2>a DEF RepairBegin, stored
  <2>8. CASE \E c \in Calls : ReadMax(c)
    BY <2>8, <2>a DEF ReadMax, stored
  <2>9. CASE \E c \in Calls : InsertRows(c)
    BY <2>9, <2>a DEF InsertRows, stored
  <2>10. CASE \E c \in Calls : CheckForeignKey(c)
    BY <2>10, <2>a DEF CheckForeignKey, stored
  <2>11. ASSUME NEW c \in Calls, NEW answered \in BOOLEAN, UpdateAndCommit(c, answered)
         PROVE  Log!Next
    <3>1. /\ calls[c].pc = "inserted" /\ row.exists /\ row'.exists /\ local' = local
      BY <2>11 DEF UpdateAndCommit
    <3>2. PICK n \in Nat : n = Len(events)
      BY DEF IInv, TypeInv
    <3>3. /\ Len(events') = n + 1 /\ SubSeq(events', 1, n) = events
          /\ events'[n + 1] = Batch(c, lastXid + 1)
      BY <2>11, <3>2, CommitAppends
    <3>4. Log!Follows(Batch(c, lastXid + 1))
      BY <3>1, CommitFollows DEF Log!Follows, Batch, Batches
    <3>5. lastXid + 1 \notin Xids
      BY DEF IInv, TypeInv, XidInv
    <3>6. Batch(c, lastXid + 1).xid \notin Log!Batches
      BY <3>5 DEF Batch, Log!Batches, Xids
    <3>7. Log!AppendBatch
      BY <3>1, <3>2, <3>3, <3>4, <3>6 DEF Log!AppendBatch
    <3> QED BY <3>7 DEF Log!Next
  <2>12. CASE \E c \in Calls : Fails(c)
    BY <2>12, <2>a DEF Fails, stored
  <2>13. ASSUME NEW c \in Calls, Returns(c) PROVE Log!Next
    <3>1. calls[c].node \in Nodes
      BY <2>13, CommittedRecord DEF Returns, IInv, CommittedType
    <3> QED BY <2>4, <2>13, <3>1
  <2>14. CASE UNCHANGED vars
    BY <2>14, <2>a DEF vars
  <2> QED
    BY <2>1, <2>2, <2>3, <2>4, <2>5, <2>6, <2>7, <2>8, <2>9, <2>10, <2>11, <2>12, <2>13, <2>14
    DEF Next
<1> QED BY <1>1, <1>2, Inductive, PTL DEF Spec, ImplementsEventLog, Log!Spec
=============================================================================
