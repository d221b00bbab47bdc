------------------------- MODULE SessionFeedProofs --------------------------
(***************************************************************************)
(* Proofs about the session feed, for any handlers and any number of       *)
(* events and subscriptions: what a handler is told next was committed     *)
(* while its connection listened and is new to it.                         *)
(*                                                                         *)
(* The argument follows an event on its way over one connection. What      *)
(* waits in the inbox is in commit order; what is being fetched precedes   *)
(* it; what a handler was told precedes the inbox, is not being fetched    *)
(* any more, and, while at most one fetch at a time was under way,         *)
(* precedes what is being fetched too.                                     *)
(***************************************************************************)
EXTENDS SessionFeed, SequenceTheorems, TLAPS

Tellings == [seq : Nat, conn : Connections]
Fetches == [seq : Nat, conn : Connections, group : Nat]
Services == {"new", "once", "ready", "failed", "disposed"}

StreamPlaces == {"none", "waiting", "yielded", "ended"}

FeedTypes ==
  /\ applied \subseteq Versions
  /\ service \in Services /\ listening \subseteq Connections
  /\ inbox \in [Connections -> Seq(Nat)] /\ log \in Seq(SUBSET Connections)
  /\ subs \subseteq Subscribers /\ group \in 0 .. MaxGroups
  /\ fetches \subseteq Fetches
  /\ told \in [Handlers -> Seq(Tellings)]
  /\ stream.at \in StreamPlaces /\ DOMAIN stream = {"at", "queue", "left"}
  /\ crossed \in BOOLEAN

FeedService ==
  /\ subs # {} => group < MaxGroups
  /\ \A s \in subs : s \in wants \/ service = "disposed"

\* What is on its way on a connection is in commit order, and was committed while
\* it listened.
FeedInbox ==
  \A c \in Connections :
    /\ \A i \in 1 .. Len(inbox[c]) : inbox[c][i] \in 1 .. Len(log) /\ c \in log[inbox[c][i]]
    /\ \A i, j \in 1 .. Len(inbox[c]) : i < j => inbox[c][i] < inbox[c][j]

\* What is being fetched comes before what is on its way on the same connection.
FeedFetches ==
  /\ \A f \in fetches :
       /\ f.seq \in 1 .. Len(log) /\ f.conn \in log[f.seq] /\ f.group <= group
       /\ \A i \in 1 .. Len(inbox[f.conn]) : f.seq < inbox[f.conn][i]
  /\ \A f, g \in fetches : f.seq = g.seq /\ f.conn = g.conn => f = g
  /\ ~crossed => \A f, g \in fetches : f = g

\* And what a handler was told, before both.
FeedTold ==
  \A s \in Handlers : \A n \in 1 .. Len(told[s]) :
    LET t == told[s][n] IN
    /\ t.seq <= Len(log)
    /\ \A i \in 1 .. Len(inbox[t.conn]) : t.seq < inbox[t.conn][i]
    /\ \A f \in fetches : f.conn = t.conn => f.seq # t.seq /\ (~crossed => t.seq < f.seq)

FeedInv == FeedTypes /\ FeedService /\ FeedInbox /\ FeedFetches /\ FeedTold

LEMMA FeedStart == ASSUME FeedInit PROVE FeedInv
<1>1. /\ \A c \in Connections : inbox[c] = <<>>
      /\ \A s \in Handlers : told[s] = <<>>
      /\ log = <<>> /\ fetches = {}
  BY DEF FeedInit
<1>2. \A S : <<>> \in Seq(S) /\ Len(<<>>) = 0
  BY EmptySeq
<1>3. FeedTypes
  <2>1. inbox \in [Connections -> Seq(Nat)] /\ told \in [Handlers -> Seq(Tellings)]
        /\ log \in Seq(SUBSET Connections)
    BY <1>2 DEF FeedInit
  <2>2. stream.at = "none" /\ DOMAIN stream = {"at", "queue", "left"}
    BY DEF FeedInit
  <2>3. group \in 0 .. MaxGroups /\ service \in Services /\ listening \subseteq Connections
    BY FeedAssumption DEF FeedInit, Services
  <2>4. applied \subseteq Versions
    BY DEF FeedInit, Versions
  <2>5. subs = {} /\ fetches = {} /\ crossed = FALSE
    BY DEF FeedInit
  <2> QED BY <2>1, <2>2, <2>3, <2>4, <2>5 DEF FeedTypes, StreamPlaces
<1>4. FeedService
  BY DEF FeedInit, FeedService
<1>5. FeedInbox /\ FeedFetches /\ FeedTold
  BY <1>1, <1>2 DEF FeedInbox, FeedFetches, FeedTold
<1> QED BY <1>3, <1>4, <1>5 DEF FeedInv

\* The elements of the queues.
LEMMA FeedElements ==
  ASSUME FeedTypes
  PROVE  /\ Len(log) \in Nat /\ DOMAIN log = 1 .. Len(log)
         /\ \A c \in Connections :
              /\ inbox[c] \in Seq(Nat) /\ Len(inbox[c]) \in Nat
              /\ \A i \in 1 .. Len(inbox[c]) : inbox[c][i] \in Nat
         /\ \A s \in Handlers :
              /\ told[s] \in Seq(Tellings) /\ Len(told[s]) \in Nat /\ DOMAIN told[s] = 1 .. Len(told[s])
              /\ \A n \in 1 .. Len(told[s]) : told[s][n].seq \in Nat /\ told[s][n].conn \in Connections
<1>1. Len(log) \in Nat /\ DOMAIN log = 1 .. Len(log)
  BY LenProperties DEF FeedTypes
<1>2. ASSUME NEW c \in Connections
      PROVE  /\ inbox[c] \in Seq(Nat) /\ Len(inbox[c]) \in Nat
             /\ \A i \in 1 .. Len(inbox[c]) : inbox[c][i] \in Nat
  <2>1. inbox[c] \in Seq(Nat)
    BY DEF FeedTypes
  <2> QED BY <2>1, LenProperties, ElementOfSeq
<1>3. ASSUME NEW s \in Handlers
      PROVE  /\ told[s] \in Seq(Tellings) /\ Len(told[s]) \in Nat /\ DOMAIN told[s] = 1 .. Len(told[s])
             /\ \A n \in 1 .. Len(told[s]) : told[s][n].seq \in Nat /\ told[s][n].conn \in Connections
  <2>1. told[s] \in Seq(Tellings)
    BY DEF FeedTypes
  <2>2. Len(told[s]) \in Nat /\ DOMAIN told[s] = 1 .. Len(told[s])
    BY <2>1, LenProperties
  <2>3. \A n \in 1 .. Len(told[s]) : told[s][n] \in Tellings
    BY <2>1, ElementOfSeq
  <2> QED BY <2>1, <2>2, <2>3 DEF Tellings
<1> QED BY <1>1, <1>2, <1>3

\* Steps that leave the way of the events alone.
LEMMA FlowUnchanged ==
  ASSUME FeedInv, UNCHANGED <<inbox, log, fetches, told, crossed>>, group' \in Nat, group <= group'
  PROVE  FeedInbox' /\ FeedFetches' /\ FeedTold'
<1>1. FeedInbox'
  BY DEF FeedInv, FeedInbox
<1>2. FeedFetches'
  BY DEF FeedInv, FeedTypes, FeedFetches, Fetches
<1>3. FeedTold'
  BY DEF FeedInv, FeedTold
<1> QED BY <1>1, <1>2, <1>3

LEMMA FeedUnchanged == ASSUME FeedInv, UNCHANGED feedVars PROVE FeedInv'
<1>1. FeedTypes' /\ FeedService'
  BY DEF feedVars, FeedInv, FeedTypes, FeedService
<1>2. UNCHANGED <<inbox, log, fetches, told, crossed>> /\ group' \in Nat /\ group <= group'
  BY DEF feedVars, FeedInv, FeedTypes
<1> QED BY <1>1, <1>2, FlowUnchanged DEF FeedInv

LEMMA InitializeKeeps == ASSUME FeedInv, Initialize PROVE FeedInv'
<1>1. /\ service \in {"new", "once"} /\ service' \in {"once", "ready", "failed"}
      /\ listening' \subseteq Connections
      /\ applied' \in {Versions, applied}
      /\ UNCHANGED <<config, inbox, log, subs, group, wants, fetches, told, stream, crossed>>
  BY DEF Initialize, FeedInv, FeedTypes, Connections
<1>2. FeedTypes'
  BY <1>1 DEF FeedInv, FeedTypes, Services
<1>3. FeedService'
  BY <1>1 DEF FeedInv, FeedService
<1> QED BY <1>1, <1>2, <1>3, FlowUnchanged DEF FeedInv, FeedTypes

\* Notifications may be lost at any time.
LEMMA Drops ==
  ASSUME FeedInv, NEW C, inbox' = [c \in Connections |-> IF c \in C THEN <<>> ELSE inbox[c]],
         UNCHANGED <<log, fetches, told, crossed, group>>
  PROVE  /\ inbox' \in [Connections -> Seq(Nat)]
         /\ FeedInbox' /\ FeedFetches' /\ FeedTold'
<1>1. /\ <<>> \in Seq(Nat) /\ Len(<<>>) = 0
  BY EmptySeq
<1>2. inbox' \in [Connections -> Seq(Nat)]
  BY <1>1 DEF FeedInv, FeedTypes
<1>3. \A c \in Connections : inbox'[c] = inbox[c] \/ inbox'[c] = <<>>
  OBVIOUS
<1>4. FeedInbox'
  BY <1>1, <1>3 DEF FeedInv, FeedInbox
<1>5. FeedFetches'
  BY <1>1, <1>3 DEF FeedInv, FeedTypes, FeedFetches, Fetches
<1>6. FeedTold'
  <2>a. ASSUME NEW s \in Handlers, NEW n \in 1 .. Len(told[s])
        PROVE  LET t == told[s][n] IN
               /\ t.seq <= Len(log)
               /\ \A f \in fetches : f.conn = t.conn => f.seq # t.seq /\ (~crossed => t.seq < f.seq)
    BY DEF FeedInv, FeedTold
  <2> SUFFICES ASSUME NEW s \in Handlers, NEW n \in 1 .. Len(told[s])
               PROVE  \A i \in 1 .. Len(inbox'[told[s][n].conn]) : told[s][n].seq < inbox'[told[s][n].conn][i]
    BY <2>a DEF FeedTold
  <2>1. told[s][n].conn \in Connections
    BY FeedElements DEF FeedInv
  <2>2. \A i \in 1 .. Len(inbox[told[s][n].conn]) : told[s][n].seq < inbox[told[s][n].conn][i]
    BY DEF FeedInv, FeedTold
  <2> DEFINE c == told[s][n].conn
  <2>3. inbox'[c] = inbox[c] \/ (Len(inbox'[c]) = 0 /\ 1 .. Len(inbox'[c]) = {})
    BY <1>1, <1>3, <2>1
  <2> QED BY <2>2, <2>3
<1> QED BY <1>2, <1>4, <1>5, <1>6

LEMMA DisposeKeeps == ASSUME FeedInv, Dispose PROVE FeedInv'
<1>1. /\ service' = "disposed" /\ listening' \subseteq Connections
      /\ inbox' = [c \in Connections |-> IF c \in Connections THEN <<>> ELSE inbox[c]]
      /\ UNCHANGED <<config, applied, log, subs, group, wants, fetches, told, stream, crossed>>
  BY DEF Dispose, FeedInv, FeedTypes
<1>2. inbox' \in [Connections -> Seq(Nat)] /\ FeedInbox' /\ FeedFetches' /\ FeedTold'
  BY <1>1, Drops
<1>3. FeedTypes' /\ FeedService'
  BY <1>1, <1>2 DEF FeedInv, FeedTypes, FeedService, Services
<1> QED BY <1>2, <1>3 DEF FeedInv

LEMMA ConnectionLostKeeps ==
  ASSUME FeedInv, NEW c \in Connections, ConnectionLost(c) PROVE FeedInv'
<1>1. /\ listening' \subseteq Connections
      /\ inbox' = [d \in Connections |-> IF d \in {c} THEN <<>> ELSE inbox[d]]
      /\ UNCHANGED <<config, applied, service, log, subs, group, wants, fetches, told, stream,
                     crossed>>
  BY DEF ConnectionLost, FeedInv, FeedTypes
<1>2. inbox' \in [Connections -> Seq(Nat)] /\ FeedInbox' /\ FeedFetches' /\ FeedTold'
  BY <1>1, Drops
<1>3. FeedTypes' /\ FeedService'
  BY <1>1, <1>2 DEF FeedInv, FeedTypes, FeedService
<1> QED BY <1>2, <1>3 DEF FeedInv

LEMMA CommitKeeps == ASSUME FeedInv, Commit PROVE FeedInv'
<1> DEFINE n == Len(log)
<1>1. /\ log' = Append(log, listening)
      /\ inbox' = [c \in Connections |->
           IF c \in listening THEN Append(inbox[c], Len(log')) ELSE inbox[c]]
      /\ UNCHANGED <<config, applied, service, listening, subs, group, wants, fetches, told,
                     stream, crossed>>
  BY DEF Commit
<1>2. /\ n \in Nat /\ log' \in Seq(SUBSET Connections) /\ Len(log') = n + 1
      /\ \A i \in 1 .. n : log'[i] = log[i]
      /\ log'[n + 1] = listening
  BY <1>1, FeedElements, AppendProperties DEF FeedInv, FeedTypes
<1> HIDE DEF n
<1>3. ASSUME NEW c \in Connections
      PROVE  /\ inbox'[c] \in Seq(Nat)
             /\ \A i \in 1 .. Len(inbox[c]) : inbox'[c][i] = inbox[c][i]
             /\ \/ c \notin listening /\ Len(inbox'[c]) = Len(inbox[c])
                \/ /\ c \in listening /\ Len(inbox'[c]) = Len(inbox[c]) + 1
                   /\ inbox'[c][Len(inbox[c]) + 1] = n + 1
  <2>1. inbox[c] \in Seq(Nat) /\ n + 1 \in Nat
    BY <1>2, FeedElements DEF FeedInv
  <2>2. CASE c \in listening
    <3>1. inbox'[c] = Append(inbox[c], n + 1)
      BY <1>1, <1>2, <2>2
    <3> QED BY <2>1, <2>2, <3>1, AppendProperties
  <2>3. CASE c \notin listening
    BY <1>1, <2>1, <2>3
  <2> QED BY <2>2, <2>3
<1>4. FeedTypes'
  <2>1. inbox' \in [Connections -> Seq(Nat)]
    BY <1>1, <1>3
  <2> QED BY <1>1, <1>2, <2>1 DEF FeedInv, FeedTypes
<1>5. FeedService'
  BY <1>1 DEF FeedInv, FeedService
<1>6. ASSUME NEW c \in Connections
      PROVE  /\ \A i \in 1 .. Len(inbox'[c]) : inbox'[c][i] \in 1 .. n + 1 /\ c \in log'[inbox'[c][i]]
             /\ \A i, j \in 1 .. Len(inbox'[c]) : i < j => inbox'[c][i] < inbox'[c][j]
  <2>1. /\ \A i \in 1 .. Len(inbox[c]) : inbox[c][i] \in 1 .. n /\ c \in log[inbox[c][i]]
        /\ \A i, j \in 1 .. Len(inbox[c]) : i < j => inbox[c][i] < inbox[c][j]
    BY DEF FeedInv, FeedInbox, n
  <2>2. Len(inbox[c]) \in Nat
    BY FeedElements DEF FeedInv
  <2>3. \A i \in 1 .. Len(inbox'[c]) :
          \/ i \in 1 .. Len(inbox[c]) /\ inbox'[c][i] = inbox[c][i]
          \/ /\ i = Len(inbox[c]) + 1 /\ i = Len(inbox'[c]) /\ inbox'[c][i] = n + 1
             /\ c \in listening
    BY <1>3, <2>2
  <2>4. ASSUME NEW i \in 1 .. Len(inbox'[c])
        PROVE  inbox'[c][i] \in 1 .. n + 1 /\ c \in log'[inbox'[c][i]]
    <3>1. CASE i \in 1 .. Len(inbox[c]) /\ inbox'[c][i] = inbox[c][i]
      <4>1. inbox[c][i] \in 1 .. n /\ c \in log[inbox[c][i]]
        BY <2>1, <3>1
      <4> QED BY <1>2, <3>1, <4>1
    <3>2. CASE inbox'[c][i] = n + 1 /\ c \in listening
      BY <1>2, <3>2
    <3> QED BY <2>3, <3>1, <3>2
  <2>5. ASSUME NEW i \in 1 .. Len(inbox'[c]), NEW j \in 1 .. Len(inbox'[c]), i < j
        PROVE  inbox'[c][i] < inbox'[c][j]
    <3>1. Len(inbox'[c]) \in Nat /\ i \in Nat /\ j \in Nat
      BY <1>3, LenProperties
    <3>2. i \in 1 .. Len(inbox[c]) /\ inbox'[c][i] = inbox[c][i] /\ inbox[c][i] \in 1 .. n
      BY <2>1, <2>2, <2>3, <2>5, <3>1
    <3> QED BY <1>2, <2>1, <2>3, <2>5, <3>2
  <2> QED BY <2>4, <2>5
<1>7. FeedInbox'
  BY <1>2, <1>6 DEF FeedInbox
<1>8. ASSUME NEW x \in Nat, x <= n, NEW c \in Connections,
             \A i \in 1 .. Len(inbox[c]) : x < inbox[c][i]
      PROVE  \A i \in 1 .. Len(inbox'[c]) : x < inbox'[c][i]
  <2>1. Len(inbox[c]) \in Nat
    BY FeedElements DEF FeedInv
  <2> SUFFICES ASSUME NEW i \in 1 .. Len(inbox'[c]) PROVE x < inbox'[c][i]
    OBVIOUS
  <2>2. \/ i \in 1 .. Len(inbox[c]) /\ inbox'[c][i] = inbox[c][i]
        \/ inbox'[c][i] = n + 1
    BY <1>3, <2>1, SMTT(20)
  <2> QED BY <1>2, <1>8, <2>2
<1>9. FeedFetches'
  <2>1. ASSUME NEW f \in fetches
        PROVE  /\ f.seq \in 1 .. n + 1 /\ f.conn \in log'[f.seq] /\ f.group <= group
               /\ \A i \in 1 .. Len(inbox'[f.conn]) : f.seq < inbox'[f.conn][i]
    <3>1. /\ f.seq \in 1 .. n /\ f.conn \in log[f.seq] /\ f.group <= group
          /\ \A i \in 1 .. Len(inbox[f.conn]) : f.seq < inbox[f.conn][i]
      BY DEF FeedInv, FeedFetches, n
    <3>2. f.seq \in Nat /\ f.seq <= n /\ f.conn \in Connections
      BY <1>2, <3>1 DEF FeedInv, FeedTypes, Fetches
    <3> QED BY <1>2, <1>8, <3>1, <3>2, SMTT(20)
  <2> QED BY <1>1, <1>2, <2>1 DEF FeedInv, FeedFetches
<1>10. FeedTold'
  <2>a. ASSUME NEW s \in Handlers, NEW m \in 1 .. Len(told[s]), NEW f \in fetches,
               f.conn = told[s][m].conn
        PROVE  f.seq # told[s][m].seq /\ (~crossed => told[s][m].seq < f.seq)
    BY <2>a DEF FeedInv, FeedTold
  <2>b. told' = told /\ fetches' = fetches /\ crossed' = crossed /\ Len(log)' = n + 1
    BY <1>1, <1>2
  <2> SUFFICES ASSUME NEW s \in Handlers, NEW m \in 1 .. Len(told[s])
               PROVE  /\ told[s][m].seq <= n + 1
                      /\ \A i \in 1 .. Len(inbox'[told[s][m].conn]) :
                           told[s][m].seq < inbox'[told[s][m].conn][i]
    BY <2>a, <2>b DEF FeedTold
  <2>1. /\ told[s][m].seq \in Nat /\ told[s][m].conn \in Connections /\ told[s][m].seq <= n
        /\ \A i \in 1 .. Len(inbox[told[s][m].conn]) : told[s][m].seq < inbox[told[s][m].conn][i]
    BY FeedElements DEF FeedInv, FeedTold, n
  <2> DEFINE x == told[s][m].seq
             c == told[s][m].conn
  <2>2. x \in Nat /\ x <= n /\ c \in Connections /\ \A i \in 1 .. Len(inbox[c]) : x < inbox[c][i]
    BY <2>1
  <2> HIDE DEF x, c
  <2>3. x <= n + 1 /\ \A i \in 1 .. Len(inbox'[c]) : x < inbox'[c][i]
    BY <1>2, <1>8, <2>2
  <2> QED BY <2>3 DEF x, c
<1> QED BY <1>4, <1>5, <1>7, <1>9, <1>10 DEF FeedInv

\* A notification leaves its queue, and may start a query.
LEMMA NotifiedKeeps == ASSUME FeedInv, NEW c \in Connections, Notified(c) PROVE FeedInv'
<1> DEFINE head == Head(inbox[c])
           fetch == [seq |-> head, conn |-> c, group |-> group]
           starts == service = "ready" /\ config.realtime /\ subs # {}
<1>1. /\ inbox[c] # <<>> /\ inbox' = [inbox EXCEPT ![c] = Tail(@)]
      /\ UNCHANGED <<config, applied, service, listening, log, subs, group, wants, told, stream>>
      /\ IF starts THEN /\ fetches' = fetches \cup {fetch}
                        /\ crossed' = (crossed \/ fetches # {})
         ELSE UNCHANGED <<fetches, crossed>>
  BY DEF Notified
<1>2. /\ inbox[c] \in Seq(Nat) /\ Len(inbox[c]) \in Nat /\ Len(inbox[c]) >= 1
      /\ head = inbox[c][1] /\ head \in Nat
      /\ inbox'[c] \in Seq(Nat) /\ Len(inbox'[c]) = Len(inbox[c]) - 1
      /\ \A i \in 1 .. Len(inbox'[c]) : inbox'[c][i] = inbox[c][i + 1]
  <2>1. inbox[c] \in Seq(Nat) /\ Len(inbox[c]) \in Nat
    BY FeedElements DEF FeedInv
  <2>2. Len(inbox[c]) >= 1 /\ head = inbox[c][1]
    BY <1>1, <2>1, EmptySeq
  <2>3. inbox'[c] = Tail(inbox[c])
    BY <1>1 DEF FeedInv, FeedTypes
  <2> DEFINE q == inbox[c]
  <2>4. Head(q) \in Nat /\ Tail(q) \in Seq(Nat) /\ Len(Tail(q)) = Len(q) - 1
        /\ \A i \in 1 .. Len(Tail(q)) : Tail(q)[i] = q[i + 1]
    <3>1. q \in Seq(Nat) /\ q # <<>>
      BY <1>1, <2>1
    <3> HIDE DEF q
    <3> QED BY <3>1, HeadTailProperties
  <2> QED BY <2>1, <2>2, <2>3, <2>4
<1>3. \A d \in Connections : d # c => inbox'[d] = inbox[d]
  BY <1>1 DEF FeedInv, FeedTypes
<1> HIDE DEF head
<1>4. /\ head \in 1 .. Len(log) /\ c \in log[head]
      /\ \A i \in 1 .. Len(inbox'[c]) : head < inbox'[c][i]
  <2>1. /\ \A i \in 1 .. Len(inbox[c]) : inbox[c][i] \in 1 .. Len(log) /\ c \in log[inbox[c][i]]
        /\ \A i, j \in 1 .. Len(inbox[c]) : i < j => inbox[c][i] < inbox[c][j]
    BY DEF FeedInv, FeedInbox
  <2>2. head = inbox[c][1] /\ 1 \in 1 .. Len(inbox[c])
    BY <1>2
  <2>3. \A i \in 1 .. Len(inbox'[c]) :
          i + 1 \in 1 .. Len(inbox[c]) /\ 1 < i + 1 /\ inbox'[c][i] = inbox[c][i + 1]
    BY <1>2
  <2> QED BY <2>1, <2>2, <2>3
<1>5. \A d \in Connections, x \in Nat :
        (\A i \in 1 .. Len(inbox[d]) : x < inbox[d][i]) => \A i \in 1 .. Len(inbox'[d]) : x < inbox'[d][i]
  <2> SUFFICES ASSUME NEW d \in Connections, NEW x \in Nat,
                      \A i \in 1 .. Len(inbox[d]) : x < inbox[d][i],
                      NEW i \in 1 .. Len(inbox'[d])
               PROVE  x < inbox'[d][i]
    OBVIOUS
  <2>1. CASE d = c
    <3>1. i + 1 \in 1 .. Len(inbox[c]) /\ inbox'[c][i] = inbox[c][i + 1]
      BY <1>2, <2>1, SMTT(20)
    <3> QED BY <2>1, <3>1
  <2>2. CASE d # c
    BY <1>3, <2>2
  <2> QED BY <2>1, <2>2
<1>6. fetches' \in SUBSET Fetches /\ fetches' \subseteq fetches \cup {fetch} /\ crossed' \in BOOLEAN
  <2>1. fetch \in Fetches /\ fetches \in SUBSET Fetches /\ crossed \in BOOLEAN
    BY <1>2 DEF FeedInv, FeedTypes, Fetches
  <2> HIDE DEF fetch
  <2>2. CASE starts
    BY <1>1, <2>1, <2>2
  <2>3. CASE ~starts
    BY <1>1, <2>1, <2>3
  <2> QED BY <2>2, <2>3
<1>7. FeedTypes'
  <2>1. inbox' \in [Connections -> Seq(Nat)]
    BY <1>1, <1>2, <1>3 DEF FeedInv, FeedTypes
  <2> QED BY <1>1, <1>6, <2>1 DEF FeedInv, FeedTypes
<1>8. FeedService'
  BY <1>1 DEF FeedInv, FeedService
<1>9. FeedInbox'
  <2> SUFFICES ASSUME NEW d \in Connections
               PROVE  /\ \A i \in 1 .. Len(inbox'[d]) : inbox'[d][i] \in 1 .. Len(log) /\ d \in log[inbox'[d][i]]
                      /\ \A i, j \in 1 .. Len(inbox'[d]) : i < j => inbox'[d][i] < inbox'[d][j]
    BY <1>1 DEF FeedInbox
  <2>1. /\ \A i \in 1 .. Len(inbox[d]) : inbox[d][i] \in 1 .. Len(log) /\ d \in log[inbox[d][i]]
        /\ \A i, j \in 1 .. Len(inbox[d]) : i < j => inbox[d][i] < inbox[d][j]
    BY DEF FeedInv, FeedInbox
  <2>2. CASE d = c
    <3>1. \A i \in 1 .. Len(inbox'[c]) :
            i + 1 \in 1 .. Len(inbox[c]) /\ inbox'[c][i] = inbox[c][i + 1]
      BY <1>2
    <3>2. \A i \in 1 .. Len(inbox'[c]) : inbox'[c][i] \in 1 .. Len(log) /\ c \in log[inbox'[c][i]]
      BY <2>1, <2>2, <3>1
    <3>3. ASSUME NEW i \in 1 .. Len(inbox'[c]), NEW j \in 1 .. Len(inbox'[c]), i < j
          PROVE  inbox'[c][i] < inbox'[c][j]
      <4>1. i + 1 < j + 1
        BY <1>2, <3>3
      <4> QED BY <2>1, <2>2, <3>1, <4>1
    <3> QED BY <2>2, <3>2, <3>3
  <2>3. CASE d # c
    BY <1>3, <2>1, <2>3
  <2> QED BY <2>2, <2>3
<1>10. ASSUME NEW f \in fetches
       PROVE  /\ f.seq \in 1 .. Len(log) /\ f.conn \in log[f.seq] /\ f.group <= group
              /\ \A i \in 1 .. Len(inbox'[f.conn]) : f.seq < inbox'[f.conn][i]
              /\ ~(f.seq = head /\ f.conn = c)
  <2>1. /\ f.seq \in 1 .. Len(log) /\ f.conn \in log[f.seq] /\ f.group <= group
        /\ \A i \in 1 .. Len(inbox[f.conn]) : f.seq < inbox[f.conn][i]
    BY DEF FeedInv, FeedFetches
  <2>2. f.seq \in Nat /\ f.conn \in Connections
    BY DEF FeedInv, FeedTypes, Fetches
  <2>3. \A i \in 1 .. Len(inbox'[f.conn]) : f.seq < inbox'[f.conn][i]
    BY <1>5, <2>1, <2>2
  <2>4. f.conn = c => f.seq < head
    BY <1>2, <2>1
  <2> QED BY <1>2, <2>1, <2>2, <2>3, <2>4
<1>11. FeedFetches'
  <2>1. fetch.seq = head /\ fetch.conn = c /\ fetch.group = group /\ group \in Nat
    BY DEF FeedInv, FeedTypes
  <2> HIDE DEF fetch
  <2>2. ASSUME NEW f \in fetches'
        PROVE  /\ f.seq \in 1 .. Len(log) /\ f.conn \in log[f.seq] /\ f.group <= group
               /\ \A i \in 1 .. Len(inbox'[f.conn]) : f.seq < inbox'[f.conn][i]
    BY <1>4, <1>6, <1>10, <2>1
  <2>3. ASSUME NEW f \in fetches', NEW g \in fetches', f.seq = g.seq, f.conn = g.conn PROVE f = g
    BY <1>6, <1>10, <2>1, <2>3 DEF FeedInv, FeedFetches
  <2>4. ASSUME ~crossed', NEW f \in fetches', NEW g \in fetches' PROVE f = g
    BY <1>1, <1>6, <2>4 DEF FeedInv, FeedFetches
  <2> QED BY <1>1, <2>2, <2>3, <2>4 DEF FeedFetches
<1>12. FeedTold'
  <2> SUFFICES ASSUME NEW s \in Handlers, NEW m \in 1 .. Len(told[s])
               PROVE  LET t == told[s][m] IN
                      /\ t.seq <= Len(log)
                      /\ \A i \in 1 .. Len(inbox'[t.conn]) : t.seq < inbox'[t.conn][i]
                      /\ \A f \in fetches' : f.conn = t.conn => f.seq # t.seq /\ (~crossed' => t.seq < f.seq)
    BY <1>1 DEF FeedTold
  <2> DEFINE t == told[s][m]
  <2>1. t.seq \in Nat /\ t.conn \in Connections
    BY FeedElements DEF FeedInv
  <2>2. /\ t.seq <= Len(log)
        /\ \A i \in 1 .. Len(inbox[t.conn]) : t.seq < inbox[t.conn][i]
        /\ \A f \in fetches : f.conn = t.conn => f.seq # t.seq /\ (~crossed => t.seq < f.seq)
    BY DEF FeedInv, FeedTold
  <2> HIDE DEF t
  <2>3. \A i \in 1 .. Len(inbox'[t.conn]) : t.seq < inbox'[t.conn][i]
    BY <1>5, <2>1, <2>2
  <2>4. t.conn = c => t.seq < head
    BY <1>2, <2>2
  <2>5. ASSUME NEW f \in fetches', f.conn = t.conn
        PROVE  f.seq # t.seq /\ (~crossed' => t.seq < f.seq)
    <3>1. ~crossed' => ~crossed
      BY <1>1 DEF FeedInv, FeedTypes
    <3>2. CASE f \in fetches
      BY <2>2, <2>5, <3>1, <3>2
    <3>3. CASE f = fetch
      BY <1>2, <2>1, <2>4, <2>5, <3>3
    <3> QED BY <1>6, <3>2, <3>3
  <2> QED BY <2>2, <2>3, <2>5 DEF t
<1> QED BY <1>7, <1>8, <1>9, <1>11, <1>12 DEF FeedInv

\* A query is answered: whoever is in the Set is told, in the order of the answers.
LEMMA AnsweredTells ==
  ASSUME FeedInv, NEW f \in fetches, NEW found \in BOOLEAN, Answered(f, found), NEW s \in Handlers
  PROVE  \/ told'[s] = told[s]
         \/ /\ s \in subs
            /\ told'[s] \in Seq(Tellings) /\ Len(told'[s]) = Len(told[s]) + 1
            /\ \A m \in 1 .. Len(told[s]) : told'[s][m] = told[s][m]
            /\ told'[s][Len(told[s]) + 1] = [seq |-> f.seq, conn |-> f.conn]
<1>1. [seq |-> f.seq, conn |-> f.conn] \in Tellings
  BY DEF FeedInv, FeedTypes, Fetches, Tellings
<1>2. told[s] \in Seq(Tellings)
  BY FeedElements DEF FeedInv
<1>3. \/ told'[s] = told[s]
      \/ s \in subs /\ told'[s] = Append(told[s], [seq |-> f.seq, conn |-> f.conn])
  BY DEF Answered
<1>4. CASE s \in subs /\ told'[s] = Append(told[s], [seq |-> f.seq, conn |-> f.conn])
  <2> DEFINE t == [seq |-> f.seq, conn |-> f.conn]
             q == told[s]
  <2>1. t \in Tellings /\ q \in Seq(Tellings)
    BY <1>1, <1>2
  <2> HIDE DEF t, q
  <2>2. /\ Append(q, t) \in Seq(Tellings) /\ Len(Append(q, t)) = Len(q) + 1
        /\ \A m \in 1 .. Len(q) : Append(q, t)[m] = q[m]
        /\ Append(q, t)[Len(q) + 1] = t
    BY <2>1, AppendProperties
  <2> QED BY <1>4, <2>2 DEF t, q
<1> QED BY <1>3, <1>4

LEMMA AnsweredKeeps ==
  ASSUME FeedInv, NEW f \in fetches, NEW found \in BOOLEAN, Answered(f, found) PROVE FeedInv'
<1>1. /\ fetches' = fetches \ {f} /\ stream'.at = stream.at
      /\ DOMAIN stream' = DOMAIN stream
      /\ UNCHANGED <<config, applied, service, listening, inbox, log, subs, group, wants, crossed>>
  BY DEF Answered, FeedInv, FeedTypes
<1>2. FeedTypes'
  <2>1. told' = [s \in Handlers |-> told'[s]]
    BY DEF Answered
  <2>2. ASSUME NEW s \in Handlers PROVE told'[s] \in Seq(Tellings)
    BY AnsweredTells, FeedElements DEF FeedInv
  <2>3. told' \in [Handlers -> Seq(Tellings)]
    BY <2>1, <2>2
  <2> QED BY <1>1, <2>3 DEF FeedInv, FeedTypes
<1>3. FeedService' /\ FeedInbox'
  BY <1>1 DEF FeedInv, FeedService, FeedInbox
<1>4. FeedFetches'
  BY <1>1 DEF FeedInv, FeedFetches
<1>5. FeedTold'
  <2> SUFFICES ASSUME NEW s \in Handlers, NEW m \in 1 .. Len(told'[s])
               PROVE  LET t == told'[s][m] IN
                      /\ t.seq <= Len(log)
                      /\ \A i \in 1 .. Len(inbox[t.conn]) : t.seq < inbox[t.conn][i]
                      /\ \A g \in fetches' : g.conn = t.conn => g.seq # t.seq /\ (~crossed => t.seq < g.seq)
    BY <1>1 DEF FeedTold
  <2>1. \/ m \in 1 .. Len(told[s]) /\ told'[s][m] = told[s][m]
        \/ told'[s][m] = [seq |-> f.seq, conn |-> f.conn]
    BY AnsweredTells, FeedElements DEF FeedInv
  <2>2. CASE m \in 1 .. Len(told[s]) /\ told'[s][m] = told[s][m]
    BY <1>1, <2>2 DEF FeedInv, FeedTold
  <2>3. CASE told'[s][m] = [seq |-> f.seq, conn |-> f.conn]
    <3>1. /\ f.seq \in 1 .. Len(log)
          /\ \A i \in 1 .. Len(inbox[f.conn]) : f.seq < inbox[f.conn][i]
          /\ \A g \in fetches : f.seq = g.seq /\ f.conn = g.conn => f = g
          /\ ~crossed => \A g \in fetches : f = g
      BY DEF FeedInv, FeedFetches
    <3>2. \A g \in fetches' : g.conn = f.conn => g.seq # f.seq /\ crossed
      BY <1>1, <3>1 DEF FeedInv, FeedTypes
    <3> QED BY <2>3, <3>1, <3>2
  <2> QED BY <2>1, <2>2, <2>3
<1> QED BY <1>2, <1>3, <1>4, <1>5 DEF FeedInv

LEMMA SubscribedKeeps ==
  ASSUME FeedInv, NEW s \in Subscribers, Subscribed(s), Keep,
         stream'.at \in StreamPlaces, DOMAIN stream' = {"at", "queue", "left"}
  PROVE  FeedInv'
<1>1. /\ subs' = subs \cup {s} /\ wants' = wants \cup {s} /\ group' = group /\ group < MaxGroups
      /\ UNCHANGED <<config, applied, service, listening, inbox, log, fetches, told, crossed>>
  BY DEF Subscribed, Keep
<1>2. FeedTypes' /\ FeedService'
  BY <1>1 DEF FeedInv, FeedTypes, FeedService
<1> QED BY <1>1, <1>2, FlowUnchanged DEF FeedInv, FeedTypes

LEMMA UnsubscribedKeeps ==
  ASSUME FeedInv, NEW s \in Subscribers, Unsubscribed(s), Keep,
         stream'.at \in StreamPlaces, DOMAIN stream' = {"at", "queue", "left"}
  PROVE  FeedInv'
<1>1. /\ wants' = wants \ {s} /\ subs' = IF service = "disposed" THEN subs ELSE subs \ {s}
      /\ group' = IF subs' = {} /\ subs # {} THEN group + 1 ELSE group
      /\ UNCHANGED <<config, applied, service, listening, inbox, log, fetches, told, crossed>>
  BY DEF Unsubscribed, Keep
<1>2. group' \in 0 .. MaxGroups /\ group <= group' /\ (subs' # {} => group' < MaxGroups)
  BY <1>1, FeedAssumption DEF FeedInv, FeedTypes, FeedService
<1>3. FeedTypes'
  BY <1>1, <1>2 DEF FeedInv, FeedTypes
<1>4. FeedService'
  BY <1>1, <1>2 DEF FeedInv, FeedService
<1> QED BY <1>1, <1>2, <1>3, <1>4, FlowUnchanged DEF FeedInv

LEMMA OnlyStream ==
  ASSUME FeedInv, UNCHANGED <<subs, group, wants>>, Keep,
         stream'.at \in StreamPlaces, DOMAIN stream' = {"at", "queue", "left"}
  PROVE  FeedInv'
<1>1. UNCHANGED <<config, applied, service, listening, inbox, log, fetches, told, crossed>>
  BY DEF Keep
<1>2. FeedTypes' /\ FeedService'
  BY <1>1 DEF FeedInv, FeedTypes, FeedService
<1> QED BY <1>1, <1>2, FlowUnchanged DEF FeedInv, FeedTypes

LEMMA FeedKeeps == ASSUME FeedInv, FeedStep PROVE FeedInv'
<1>a. stream.at \in StreamPlaces /\ DOMAIN stream = {"at", "queue", "left"} /\ Stream \in Subscribers
  BY DEF FeedInv, FeedTypes, Subscribers
<1>1. CASE Initialize \/ Dispose
  BY <1>1, InitializeKeeps, DisposeKeeps
<1>2. ASSUME NEW c \in Connections, ConnectionLost(c) \/ Notified(c) PROVE FeedInv'
  BY <1>2, ConnectionLostKeeps, NotifiedKeeps
<1>3. CASE Commit
  BY <1>3, CommitKeeps
<1>4. ASSUME NEW f \in fetches, NEW found \in BOOLEAN, Answered(f, found) PROVE FeedInv'
  BY <1>4, AnsweredKeeps
<1>5. ASSUME NEW s \in Handlers, Subscribe(s) PROVE FeedInv'
  BY <1>a, <1>5, SubscribedKeeps DEF Subscribe, Subscribers
<1>6. ASSUME NEW s \in Handlers, Unsubscribe(s) PROVE FeedInv'
  BY <1>a, <1>6, UnsubscribedKeeps DEF Unsubscribe, Subscribers
<1>7. CASE StreamOpen
  <2>1. Subscribed(Stream) /\ Keep /\ stream' = [stream EXCEPT !.at = "waiting"]
    BY <1>7 DEF StreamOpen
  <2>2. stream'.at \in StreamPlaces /\ DOMAIN stream' = {"at", "queue", "left"}
    BY <1>a, <2>1 DEF StreamPlaces
  <2> QED BY <1>a, <2>1, <2>2, SubscribedKeeps
<1>8. CASE Poll
  <2>1. /\ stream' = [stream EXCEPT !.queue = Tail(@), !.at = IF stream.left THEN "ended" ELSE "yielded"]
        /\ Keep /\ (Unsubscribed(Stream) \/ UNCHANGED <<subs, group, wants>>)
    BY <1>8 DEF Poll
  <2>2. stream'.at \in StreamPlaces /\ DOMAIN stream' = {"at", "queue", "left"}
    BY <1>a, <2>1 DEF StreamPlaces
  <2> QED BY <1>a, <2>1, <2>2, UnsubscribedKeeps, OnlyStream
<1>9. CASE StreamNext
  <2>1. /\ stream' = IF stream.queue = <<>> THEN [stream EXCEPT !.at = "waiting"]
                     ELSE [stream EXCEPT !.queue = Tail(@)]
        /\ Keep /\ UNCHANGED <<subs, group, wants>>
    BY <1>9 DEF StreamNext
  <2>2. stream'.at \in StreamPlaces /\ DOMAIN stream' = {"at", "queue", "left"}
    BY <1>a, <2>1 DEF StreamPlaces
  <2> QED BY <2>1, <2>2, OnlyStream
<1>10. CASE StreamReturn
  <2>1. /\ \/ stream' = [stream EXCEPT !.at = "ended", !.left = TRUE]
           \/ stream' = [stream EXCEPT !.left = TRUE]
        /\ Keep /\ (Unsubscribed(Stream) \/ UNCHANGED <<subs, group, wants>>)
    BY <1>10 DEF StreamReturn
  <2>2. stream'.at \in StreamPlaces /\ DOMAIN stream' = {"at", "queue", "left"}
    BY <1>a, <2>1 DEF StreamPlaces
  <2> QED BY <1>a, <2>1, <2>2, UnsubscribedKeeps, OnlyStream
<1> QED BY <1>1, <1>2, <1>3, <1>4, <1>5, <1>6, <1>7, <1>8, <1>9, <1>10 DEF FeedStep

LEMMA FeedTyped == ASSUME FeedInv PROVE FeedTypeOK
BY DEF FeedInv, FeedTypes, FeedService, FeedFetches, FeedTypeOK, Services, StreamPlaces

\* What a handler is told next.
LEMMA TellingIsNew ==
  ASSUME FeedInv, NEW f \in fetches, NEW found \in BOOLEAN, Answered(f, found),
         NEW s \in Handlers, told'[s] # told[s]
  PROVE  LET t == Last(told'[s]) IN
         /\ s \in wants \/ service = "disposed"
         /\ t.conn \in log[t.seq]
         /\ t \notin Range(told[s])
         /\ ~crossed => \A g \in Range(told[s]) : g.conn = t.conn => g.seq < t.seq
<1> DEFINE t == Last(told'[s])
<1>1. /\ s \in subs /\ told'[s] \in Seq(Tellings) /\ Len(told'[s]) = Len(told[s]) + 1
      /\ told'[s][Len(told[s]) + 1] = [seq |-> f.seq, conn |-> f.conn]
  BY AnsweredTells
<1>2. t = [seq |-> f.seq, conn |-> f.conn]
  BY <1>1 DEF Last
<1> HIDE DEF t
<1>3. /\ s \in wants \/ service = "disposed"
      /\ f.conn \in log[f.seq]
  BY <1>1 DEF FeedInv, FeedService, FeedFetches
<1>4. ASSUME NEW g \in Range(told[s])
      PROVE  /\ g # t
             /\ ~crossed /\ g.conn = f.conn => g.seq < f.seq
  <2>1. PICK m \in 1 .. Len(told[s]) : g = told[s][m]
    BY FeedElements DEF FeedInv, Range
  <2>2. f.conn = g.conn => f.seq # g.seq /\ (~crossed => g.seq < f.seq)
    BY <2>1 DEF FeedInv, FeedTold
  <2> QED BY <1>2, <2>2
<1>5. /\ t.conn \in log[t.seq] /\ t \notin Range(told[s])
      /\ ~crossed => \A g \in Range(told[s]) : g.conn = t.conn => g.seq < t.seq
  BY <1>2, <1>3, <1>4
<1> QED BY <1>3, <1>5 DEF t
=============================================================================
