------------------------------ MODULE AarBridge ------------------------------
(***************************************************************************)
(* aar-bridge: guard decisions are buffered per session and scored, by the *)
(* Python sidecar behind fetch or by the bridge itself.  A decision is     *)
(* counted by its disposition; the payloads of guards-iit carry no session *)
(* id, so that there is one buffer, "default".                             *)
(***************************************************************************)
EXTENDS Integers

CONSTANTS
  Scorers,      \* callers of scoreSession
  MaxDecisions, \* bound: decisions heard of
  MaxScores     \* bound: scores asked for

ASSUME AarAssumption == MaxDecisions \in Nat

VARIABLES
  failOpen,   \* config.failOpen
  buffer,     \* the buffered decisions by disposition; NoBuffer when there is none
  asked,      \* scorer -> what the sidecar was sent for it, NoBuffer when nothing
  reading,    \* scorers whose response has begun: its timer is cleared
  score,      \* the last aar/score event
  scored,     \* history: decisions that scores speak for
  givenUp,    \* history: decisions deleted with their buffer when the sidecar failed
  received,   \* history: decisions heard of
  asks,       \* history: scores asked for
  overtaken   \* history: a decision or a score came while the sidecar was at work

aarVars == <<failOpen, buffer, asked, reading, score, scored, givenUp, received, asks, overtaken>>

Dispositions == {"pass", "warn", "block"}
NoBuffer == [d \in Dispositions |-> -1]
Empty == [d \in Dispositions |-> 0]
Size(b) == b["pass"] + b["warn"] + b["block"]

NoScore == [version |-> "none", passesFilter |-> TRUE, flags |-> {}]
Unavailable == [NoScore EXCEPT !.version = "unavailable"]

AarInit ==
  /\ failOpen \in BOOLEAN /\ buffer = NoBuffer
  /\ asked = [k \in Scorers |-> NoBuffer]
  /\ reading = {} /\ score = NoScore
  /\ scored = 0 /\ givenUp = 0 /\ received = 0 /\ asks = 0
  /\ overtaken = FALSE

Scoring == \E k \in Scorers : asked[k] # NoBuffer

upsertBuffer == IF buffer = NoBuffer THEN Empty ELSE buffer

\* Mutant: the listener opens a new buffer for every decision.
FreshDecision(disposition) ==
  /\ buffer' = [Empty EXCEPT ![disposition] = 1]
  /\ received' = received + 1
  /\ overtaken' = (overtaken \/ Scoring)
  /\ UNCHANGED <<failOpen, asked, reading, score, scored, givenUp, asks>>

\* The iit-guard.decision listener.
Decision(disposition) ==
  /\ buffer' = [upsertBuffer EXCEPT ![disposition] = @ + 1]
  /\ received' = received + 1
  /\ overtaken' = (overtaken \/ Scoring)
  /\ UNCHANGED <<failOpen, asked, reading, score, scored, givenUp, asks>>

\* scoreSession up to its await: the decisions are serialised now.
ScoreSession(k) ==
  /\ buffer # NoBuffer /\ asked[k] = NoBuffer /\ asks < MaxScores
  /\ asked' = [asked EXCEPT ![k] = buffer]
  /\ asks' = asks + 1
  /\ overtaken' = (overtaken \/ Scoring)
  /\ UNCHANGED <<failOpen, buffer, reading, score, scored, givenUp, received>>

\* fetch resolves: the timer is cleared, and the body read, without one.
Responds(k) ==
  /\ asked[k] # NoBuffer /\ k \notin reading
  /\ reading' = reading \cup {k}
  /\ UNCHANGED <<failOpen, buffer, asked, score, scored, givenUp, received, asks, overtaken>>

Done(k) == asked' = [asked EXCEPT ![k] = NoBuffer] /\ reading' = reading \ {k}

\* The body is there: its score is emitted and the session deleted.
SidecarScores(k) ==
  /\ k \in reading /\ Done(k)
  /\ scored' = scored + Size(asked[k])
  /\ \E passes \in BOOLEAN : score' = [version |-> "aar", passesFilter |-> passes, flags |-> {}]
  /\ buffer' = NoBuffer
  /\ UNCHANGED <<failOpen, givenUp, received, asks, overtaken>>

\* With failOpen a passing score is emitted and the session deleted; otherwise
\* the error is the caller's, and the buffer stays.
SidecarFails(k) ==
  /\ Done(k)
  /\ IF failOpen THEN /\ score' = Unavailable
                      /\ givenUp' = givenUp + Size(asked[k])
                      /\ buffer' = NoBuffer
     ELSE UNCHANGED <<score, givenUp, buffer>>
  /\ UNCHANGED <<failOpen, scored, received, asks, overtaken>>

\* Mutant: the timer is cleared as soon as it is set.
NoTimeout(k) == FALSE /\ SidecarFails(k)

\* The timer aborts a request that has no response yet.
TimesOut(k) == asked[k] # NoBuffer /\ k \notin reading /\ SidecarFails(k)

\* The request fails at once, or its response is an error or no JSON.
Errs(k) == asked[k] # NoBuffer /\ SidecarFails(k)

ComputeSyncScore(b) ==
  [version |-> "sync-v1",
   passesFilter |-> 2 * b["block"] < Size(b),
   flags |-> (IF 10 * b["block"] > 3 * Size(b) THEN {"high_block_rate"} ELSE {})
             \cup (IF 2 * b["warn"] > Size(b) THEN {"excessive_warnings"} ELSE {})]

\* scoreSessionSync.
ScoreSessionSync ==
  /\ buffer # NoBuffer /\ asks < MaxScores
  /\ score' = ComputeSyncScore(buffer)
  /\ scored' = scored + Size(buffer)
  /\ buffer' = NoBuffer
  /\ asks' = asks + 1
  /\ overtaken' = (overtaken \/ Scoring)
  /\ UNCHANGED <<failOpen, asked, reading, givenUp, received>>

AarStep ==
  \/ \E d \in Dispositions : received < MaxDecisions /\ Decision(d)
  \/ \E k \in Scorers : ScoreSession(k) \/ Responds(k) \/ SidecarScores(k) \/ TimesOut(k) \/ Errs(k)
  \/ ScoreSessionSync

----------------------------------------------------------------------------
AarTypeOK ==
  /\ buffer = NoBuffer \/ \A d \in Dispositions : buffer[d] \in 0..MaxDecisions
  /\ reading \subseteq {k \in Scorers : asked[k] # NoBuffer}
  /\ score.version \in {"none", "aar", "sync-v1", "unavailable"}

\* When nothing happens while the sidecar is at work, every decision heard of is
\* spoken for once: in a score, in the buffer, or, failing open, given up.
SerialScoringLosesNothing ==
  ~overtaken => received = scored + givenUp + (IF buffer = NoBuffer THEN 0 ELSE Size(buffer))

\* The timeout ends every request that gets no response.  (One whose response has
\* begun may be read for ever: the timer is cleared before the body is there.)
ScoreRequestsTimeOut ==
  \A k \in Scorers :
    [](asked[k] # NoBuffer /\ k \notin reading => <>(asked[k] = NoBuffer \/ k \in reading))
=============================================================================
