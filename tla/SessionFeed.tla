---------------------------- MODULE SessionFeed ----------------------------
(***************************************************************************)
(* session-persistence-postgres around the event log of SessionStore: the  *)
(* migrations, the start and the end of the service, and the way of a      *)
(* committed event through NOTIFY, a query of its own, and the handlers    *)
(* and the stream subscribed to the session.  One session; handlers do not *)
(* throw; the service ends after its start has come to an end.             *)
(***************************************************************************)
EXTENDS Integers, SequencesExt

CONSTANTS
  Handlers,  \* callers of subscribeToRealtime
  Stream,    \* the consumer of getRealtimeEvents
  MaxSeq,    \* bound: events committed
  MaxGroups  \* bound: times the last subscriber leaves

ASSUME FeedAssumption == MaxSeq \in Nat /\ MaxGroups \in Nat

VARIABLES
  config,     \* runMigrations, enableRealtime, whether the SQL files are found, and, to
              \* bound the model, who subscribes: handlers or the stream
  applied,    \* schema_migrations
  service,    \* "new", "once" (the backend has started), "ready", "failed", "disposed"
  listening,  \* connections that LISTEN: 1 of the first start of the backend, 2 of the second
  inbox,      \* connection -> notifications on their way, in commit order
  log,        \* event -> the connections that listened when it was committed
  subs,       \* the Set of subscribers in realtimeSubscriptions
  group,      \* which Set that is: an empty one is dropped from the map
  wants,      \* history: subscribers that have not unsubscribed
  fetches,    \* fetchAndEmitEvent awaiting its query: seq, connection, Set captured
  told,       \* handler -> what it was called with: seq and connection
  stream,     \* the generator: where it is, its queue, whether the consumer has left
  crossed  \* history: a fetch began during another

feedVars == <<config, applied, service, listening, inbox, log, subs, group, wants,
              fetches, told, stream, crossed>>

Connections == {1, 2}
Subscribers == Handlers \cup {Stream}
Versions == {1, 2, 3}

FeedInit ==
  /\ config \in [migrates : BOOLEAN, realtime : BOOLEAN, files : BOOLEAN, streams : BOOLEAN]
  /\ applied \in {1..n : n \in 0..3}  \* by an operator
  /\ ~config.migrates => config.files /\ applied \in {{}, Versions}  \* no difference
  /\ service = "new" /\ listening = {}
  /\ inbox = [c \in Connections |-> <<>>]
  /\ log = <<>>
  /\ subs = {} /\ group = 0 /\ wants = {}
  /\ fetches = {} /\ told = [s \in Handlers |-> <<>>]
  /\ stream = [at |-> "none", queue |-> <<>>, left |-> FALSE]
  /\ crossed = FALSE

----------------------------------------------------------------------------
(* Start. *)

\* runMigrations reads the files of 2 and 3 whether they are pending or not.  Both
\* record themselves, so that its own INSERT of the version fails, and all is
\* rolled back.
Migrates == config.migrates => config.files /\ {2, 3} \subseteq applied

\* backend.initialize, which `ready` calls, and then coordinator.initialize again.
Initialize ==
  /\ service \in {"new", "once"}
  /\ applied' = IF Migrates /\ config.migrates THEN Versions ELSE applied
  /\ \/ /\ Migrates
        /\ listening' = IF ~config.realtime THEN listening
                        ELSE listening \cup {IF service = "new" THEN 1 ELSE 2}
        /\ service' = IF service = "new" THEN "once" ELSE "ready"
     \/ /\ ~Migrates \/ config.realtime  \* connect or LISTEN is rejected
        /\ service' = "failed" /\ UNCHANGED listening
  /\ UNCHANGED <<config, inbox, log, subs, group, wants, fetches, told, stream,
                 crossed>>

\* The end: no notification is forwarded any more, those on their way included, the
\* map is cleared, and the last client is told to UNLISTEN, which may fail; the one
\* it replaced listens on.
Dispose ==
  /\ service \in {"ready", "failed"}
  /\ service' = "disposed"
  /\ listening' \in {listening, listening \ {IF service = "ready" THEN 2 ELSE 1}}
  /\ inbox' = [c \in Connections |-> <<>>]
  /\ UNCHANGED <<config, applied, log, subs, group, wants, fetches, told,
                 stream, crossed>>

\* An error of a listening connection is logged, and it is not replaced.
ConnectionLost(c) ==
  /\ c \in listening
  /\ listening' = listening \ {c}
  /\ inbox' = [inbox EXCEPT ![c] = <<>>]
  /\ UNCHANGED <<config, applied, service, log, subs, group, wants, fetches, told,
                 stream, crossed>>

----------------------------------------------------------------------------
(* From the log to the subscribers. *)

\* The trigger notifies of every row, when its transaction commits.  (What is
\* committed after the end is of no interest here.)
Commit ==
  /\ 1 \in applied /\ service # "disposed" /\ Len(log) < MaxSeq
  /\ log' = Append(log, listening)
  /\ inbox' = [c \in Connections |->
       IF c \in listening THEN Append(inbox[c], Len(log')) ELSE inbox[c]]
  /\ UNCHANGED <<config, applied, service, listening, subs, group, wants, fetches,
                 told, stream, crossed>>

\* The forwarding callback: the handlers it captures are a Set, not its members.
Notified(c) ==
  /\ inbox[c] # <<>>
  /\ inbox' = [inbox EXCEPT ![c] = Tail(@)]
  /\ IF service = "ready" /\ config.realtime /\ subs # {}
       THEN /\ fetches' = fetches \cup {[seq |-> Head(inbox[c]), conn |-> c, group |-> group]}
            /\ crossed' = (crossed \/ fetches # {})
       ELSE UNCHANGED <<fetches, crossed>>
  /\ UNCHANGED <<config, applied, service, listening, log, subs, group, wants, told,
                 stream>>

\* The query finds the event, and whoever is in the Set then is told; or the
\* session has been deleted, or the query fails.
Answered(f, found) ==
  LET targets == IF found /\ f.group = group THEN subs ELSE {} IN
  /\ f \in fetches /\ fetches' = fetches \ {f}
  /\ told' = [s \in Handlers |->
       IF s \in targets THEN Append(told[s], [seq |-> f.seq, conn |-> f.conn]) ELSE told[s]]
  /\ stream' = IF Stream \in targets THEN [stream EXCEPT !.queue = Append(@, f.seq)] ELSE stream
  /\ UNCHANGED <<config, applied, service, listening, inbox, log, subs, group,
                 wants, crossed>>

----------------------------------------------------------------------------
(* Subscribers. *)

\* extendCoordinator gives callers the way to subscribe when the service gets ready.
Subscribed(s) ==
  /\ service = "ready" /\ group < MaxGroups
  /\ subs' = subs \cup {s} /\ wants' = wants \cup {s} /\ UNCHANGED group

\* Mutant: the handler stays in the Set.
KeepsHandler(s) == wants' = wants \ {s} /\ UNCHANGED <<subs, group>>

\* Once the map is cleared there is no Set to take the handler from.
Unsubscribed(s) ==
  /\ wants' = wants \ {s}
  /\ subs' = IF service = "disposed" THEN subs ELSE subs \ {s}
  /\ group' = IF subs' = {} /\ subs # {} THEN group + 1 ELSE group

Keep == UNCHANGED <<config, applied, service, listening, inbox, log, fetches, told,
                    crossed>>

Subscribe(s) == ~config.streams /\ s \notin wants /\ Subscribed(s) /\ UNCHANGED stream /\ Keep
Unsubscribe(s) == s \in wants /\ Unsubscribed(s) /\ UNCHANGED stream /\ Keep

\* getRealtimeEvents: the first next() subscribes, and finds the queue empty.
StreamOpen ==
  /\ config.streams /\ stream.at = "none"
  /\ Subscribed(Stream) /\ stream' = [stream EXCEPT !.at = "waiting"]
  /\ Keep

\* Mutant: checkQueue looks once.
PollOnce == FALSE /\ stream' = stream /\ UNCHANGED <<subs, group, wants>> /\ Keep

\* checkQueue's timer finds an event, which is yielded; a return() that came in the
\* meantime is only now obeyed.
Poll ==
  /\ stream.at = "waiting" /\ stream.queue # <<>>
  /\ stream' = [stream EXCEPT !.queue = Tail(@), !.at = IF stream.left THEN "ended" ELSE "yielded"]
  /\ IF stream.left THEN Unsubscribed(Stream) ELSE UNCHANGED <<subs, group, wants>>
  /\ Keep

StreamNext ==
  /\ stream.at = "yielded"
  /\ stream' = IF stream.queue = <<>> THEN [stream EXCEPT !.at = "waiting"]
               ELSE [stream EXCEPT !.queue = Tail(@)]
  /\ UNCHANGED <<subs, group, wants>> /\ Keep

\* The consumer leaves: at once between two events; a generator that awaits the
\* next one only notes it, and `resolved` is set too late to wake it up.
StreamReturn ==
  \/ /\ stream.at = "yielded"
     /\ stream' = [stream EXCEPT !.at = "ended", !.left = TRUE]
     /\ Unsubscribed(Stream) /\ Keep
  \/ /\ stream.at = "waiting" /\ ~stream.left
     /\ stream' = [stream EXCEPT !.left = TRUE]
     /\ UNCHANGED <<subs, group, wants>> /\ Keep

FeedStep ==
  \/ Initialize \/ Dispose
  \/ \E c \in Connections : ConnectionLost(c) \/ Notified(c)
  \/ Commit
  \/ \E f \in fetches, found \in BOOLEAN : Answered(f, found)
  \/ \E s \in Handlers : Subscribe(s) \/ Unsubscribe(s)
  \/ StreamOpen \/ Poll \/ StreamNext \/ StreamReturn

----------------------------------------------------------------------------
FeedTypeOK ==
  /\ applied \subseteq Versions /\ listening \subseteq Connections
  /\ service \in {"new", "once", "ready", "failed", "disposed"}
  /\ subs \subseteq Subscribers /\ group \in 0..MaxGroups
  /\ \A f \in fetches : f.seq \in 1..Len(log) /\ f.group <= group
  /\ stream.at \in {"none", "waiting", "yielded", "ended"}

\* A handler is told of an event while it is subscribed, or after the service has
\* ended; at most once by each connection that listened when the event was
\* committed, which after a normal start is twice; and, unless queries overlap, by
\* each connection in the order of the log.
FeedTellsTheLog ==
  [][\A s \in Handlers : told'[s] # told[s] =>
       LET f == Last(told'[s]) IN
       /\ s \in wants \/ service = "disposed"
       /\ f.conn \in log[f.seq]
       /\ f \notin Range(told[s])
       /\ ~crossed => \A g \in Range(told[s]) : g.conn = f.conn => g.seq < f.seq]_feedVars

\* An event in the stream's queue is yielded, and a consumer that left has its
\* subscription ended, once there is an event; the timer sees to it.  (A consumer
\* that leaves while none comes stays subscribed for ever.)
StreamIsServed ==
  /\ (stream.at = "waiting" /\ stream.queue # <<>>) ~> (stream.at # "waiting")
  /\ (stream.left /\ stream.queue # <<>>) ~> (stream.at = "ended")

----------------------------------------------------------------------------
(* What the comments say, and the code does not do. *)

\* types.ts:27 says of runMigrations "Run migrations on startup", and backend.ts:131
\* "Run pending migrations".  With the files of the migrations at hand, and no
\* LISTEN that could fail, a service that was started has all of them applied.
PendingMigrationsRun ==
  config.migrates /\ config.files /\ ~config.realtime /\ service # "new" => applied = Versions
=============================================================================
