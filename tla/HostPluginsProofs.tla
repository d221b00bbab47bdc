------------------------- MODULE HostPluginsProofs --------------------------
(***************************************************************************)
(* Proofs about the small plugins of the host, for any constants: the AAR  *)
(* bridge, the sandbox runner, the hooks of gateway/request, permissions   *)
(* with the audit log, and, with the proofs about the session feed, the    *)
(* host itself. A step plays one scene, and leaves the variables of the    *)
(* other four alone, so that the invariant of the host is the conjunction  *)
(* of five invariants that each keep themselves.                           *)
(*                                                                         *)
(* The bridge: while nothing overtakes, at most one scorer is served and   *)
(* the sidecar was sent what is in the buffer. The runner: what is         *)
(* reported is a prefix of the phases, of which only the last may have     *)
(* failed, and only on the way to the caller. The hooks: only one request  *)
(* is under way as long as none overlapped, so that the snapshot it        *)
(* restores is what the operator set; the sets of requests under way and   *)
(* of inserts awaited lose and gain one member at a time, which keeps the  *)
(* counts; a percentile is a sample, and with less than a hundred of them  *)
(* the 99th is the largest. The audit log: every entry has the hash of     *)
(* what it said when it was appended, so that it still verifies unless the *)
(* owner an entry refers to has changed.                                   *)
(***************************************************************************)
EXTENDS HostPlugins, SessionFeedProofs, SequenceTheorems, FiniteSetTheorems, TLAPS

(* The AAR bridge. *)

Counts == [Dispositions -> Nat]

AarTypes ==
  /\ failOpen \in BOOLEAN /\ overtaken \in BOOLEAN
  /\ buffer \in Counts \cup {NoBuffer}
  /\ asked \in [Scorers -> Counts \cup {NoBuffer}]
  /\ \A k \in reading : k \in Scorers /\ asked[k] # NoBuffer
  /\ received \in Nat /\ scored \in Nat /\ givenUp \in Nat
  /\ score.version \in {"none", "aar", "sync-v1", "unavailable"}

\* Bounds: decisions are counted once.
AarBounds ==
  /\ received <= MaxDecisions
  /\ buffer # NoBuffer => Size(buffer) <= received

\* Unless a decision or a score came during another, at most one scorer is
\* served, and what the sidecar was sent is what is in the buffer.
AarSerial ==
  ~overtaken =>
    /\ \A k \in Scorers : asked[k] # NoBuffer => asked[k] = buffer
    /\ \A j, k \in Scorers : asked[j] # NoBuffer /\ asked[k] # NoBuffer => j = k

AarInv == AarTypes /\ AarBounds /\ AarSerial /\ SerialScoringLosesNothing

LEMMA BufferFacts ==
  /\ NoBuffer \notin Counts /\ Empty \in Counts /\ Size(Empty) = 0
  /\ \A b \in Counts : Size(b) \in Nat /\ \A d \in Dispositions : b[d] <= Size(b)
  /\ \A b \in Counts, d \in Dispositions :
       [b EXCEPT ![d] = @ + 1] \in Counts /\ Size([b EXCEPT ![d] = @ + 1]) = Size(b) + 1
<1>1. NoBuffer \notin Counts
  <2>1. NoBuffer["pass"] = -1 BY DEF NoBuffer, Dispositions
  <2> QED BY <2>1 DEF Counts, Dispositions
<1>2. Empty \in Counts /\ Size(Empty) = 0
  BY DEF Empty, Counts, Size, Dispositions
<1>3. \A b \in Counts : Size(b) \in Nat /\ \A d \in Dispositions : b[d] <= Size(b)
  BY DEF Counts, Size, Dispositions
<1>4. \A b \in Counts, d \in Dispositions :
        [b EXCEPT ![d] = @ + 1] \in Counts /\ Size([b EXCEPT ![d] = @ + 1]) = Size(b) + 1
  BY DEF Counts, Size, Dispositions
<1> QED BY <1>1, <1>2, <1>3, <1>4

LEMMA AarStart == ASSUME AarInit, MaxDecisions \in Nat PROVE AarInv
<1>1. score.version = "none"
  BY DEF AarInit, NoScore
<1>2. AarTypes
  BY <1>1 DEF AarInit, AarTypes
<1>3. AarBounds /\ AarSerial /\ SerialScoringLosesNothing
  BY DEF AarInit, AarBounds, AarSerial, SerialScoringLosesNothing
<1> QED BY <1>2, <1>3 DEF AarInv

LEMMA AarUnchanged == ASSUME AarInv, UNCHANGED aarVars PROVE AarInv'
BY DEF aarVars, AarInv, AarTypes, AarBounds, AarSerial, SerialScoringLosesNothing, Size

\* The listener: nothing is asked, or the decision overtakes.
LEMMA DecisionKeeps ==
  ASSUME AarInv, NEW d \in Dispositions, received < MaxDecisions, MaxDecisions \in Nat, Decision(d)
  PROVE  AarInv'
<1>1. upsertBuffer \in Counts
  BY BufferFacts DEF upsertBuffer, AarInv, AarTypes
<1>2. Size(upsertBuffer) = IF buffer = NoBuffer THEN 0 ELSE Size(buffer)
  BY BufferFacts DEF upsertBuffer
<1>3. /\ buffer' \in Counts /\ buffer' # NoBuffer
      /\ Size(buffer') = Size(upsertBuffer) + 1
  BY <1>1, BufferFacts DEF Decision
<1>4. UNCHANGED <<failOpen, asked, reading, score, scored, givenUp>> /\ received' = received + 1
  BY DEF Decision
<1>5. Size(buffer)' = Size(buffer')
  BY DEF Size
<1>6. AarTypes'
  BY <1>3, <1>4 DEF Decision, AarInv, AarTypes
<1>7. AarBounds'
  BY <1>1, <1>2, <1>3, <1>4, <1>5, BufferFacts DEF AarInv, AarTypes, AarBounds
<1>8. ASSUME ~overtaken' PROVE ~overtaken /\ \A k \in Scorers : asked'[k] = NoBuffer
  BY <1>8, <1>4 DEF Decision, Scoring, AarInv, AarTypes
<1>9. AarSerial'
  BY <1>8 DEF AarSerial
<1>10. SerialScoringLosesNothing'
  BY <1>1, <1>2, <1>3, <1>4, <1>5, <1>8, BufferFacts DEF SerialScoringLosesNothing, AarInv, AarTypes
<1> QED BY <1>6, <1>7, <1>9, <1>10 DEF AarInv

LEMMA AskKeeps == ASSUME AarInv, NEW k \in Scorers, ScoreSession(k) PROVE AarInv'
<1>1. buffer \in Counts
  BY DEF ScoreSession, AarInv, AarTypes
<1>2. /\ UNCHANGED <<failOpen, buffer, reading, score, scored, givenUp, received>>
      /\ asked' = [asked EXCEPT ![k] = buffer]
  BY DEF ScoreSession
<1>3. AarTypes'
  BY <1>1, <1>2, BufferFacts DEF ScoreSession, AarInv, AarTypes
<1>4. AarBounds'
  BY <1>2 DEF AarInv, AarBounds, Size
<1>5. ASSUME ~overtaken' PROVE ~overtaken /\ \A j \in Scorers : asked[j] = NoBuffer
  BY <1>5 DEF ScoreSession, Scoring, AarInv, AarTypes
<1>6. AarSerial'
  BY <1>2, <1>5 DEF AarSerial, AarInv, AarTypes
<1>7. SerialScoringLosesNothing'
  BY <1>2, <1>5 DEF SerialScoringLosesNothing, AarInv, Size
<1> QED BY <1>3, <1>4, <1>6, <1>7 DEF AarInv

LEMMA RespondKeeps == ASSUME AarInv, NEW k \in Scorers, Responds(k) PROVE AarInv'
BY DEF Responds, AarInv, AarTypes, AarBounds, AarSerial, SerialScoringLosesNothing, Size

\* A request comes to an end: what was sent is spoken for and the buffer is gone,
\* or nothing changes but that the scorer is not served any more.
LEMMA EndKeeps ==
  ASSUME AarInv, NEW k \in Scorers, asked[k] # NoBuffer, Done(k),
         UNCHANGED <<failOpen, received, overtaken>>, score'.version \in {"none", "aar", "unavailable", "sync-v1"},
         \/ UNCHANGED <<buffer, scored, givenUp>>
         \/ /\ buffer' = NoBuffer
            /\ scored' + givenUp' = scored + givenUp + Size(asked[k])
            /\ scored' \in Nat /\ givenUp' \in Nat
  PROVE  AarInv'
<1>1. /\ asked' = [asked EXCEPT ![k] = NoBuffer]
      /\ asked' \in [Scorers -> Counts \cup {NoBuffer}]
      /\ reading' = reading \ {k}
  BY DEF Done, AarInv, AarTypes
<1>2. AarTypes'
  BY <1>1, BufferFacts DEF AarInv, AarTypes
<1>3. AarBounds'
  BY DEF AarInv, AarBounds, Size
<1>4. AarSerial'
  BY <1>1 DEF AarInv, AarTypes, AarSerial
<1>5. SerialScoringLosesNothing'
  <2> SUFFICES ASSUME ~overtaken
               PROVE  received = scored' + givenUp' + (IF buffer' = NoBuffer THEN 0 ELSE Size(buffer'))
    BY DEF SerialScoringLosesNothing, Size
  <2>1. asked[k] = buffer /\ buffer \in Counts
    BY DEF AarInv, AarSerial, AarTypes
  <2>2. received = scored + givenUp + Size(buffer)
    BY <2>1, BufferFacts DEF AarInv, SerialScoringLosesNothing
  <2> QED BY <2>1, <2>2, BufferFacts DEF AarInv, AarTypes
<1> QED BY <1>2, <1>3, <1>4, <1>5 DEF AarInv

LEMMA AarKeeps == ASSUME AarInv, MaxDecisions \in Nat, AarStep PROVE AarInv'
<1>1. ASSUME NEW d \in Dispositions, received < MaxDecisions, Decision(d) PROVE AarInv'
  BY <1>1, DecisionKeeps
<1>2. ASSUME NEW k \in Scorers, ScoreSession(k) PROVE AarInv'
  BY <1>2, AskKeeps
<1>3. ASSUME NEW k \in Scorers, Responds(k) PROVE AarInv'
  BY <1>3, RespondKeeps
<1>4. ASSUME NEW k \in Scorers, SidecarScores(k) PROVE AarInv'
  <2>1. asked[k] # NoBuffer /\ asked[k] \in Counts
    BY <1>4 DEF SidecarScores, AarInv, AarTypes
  <2>2. Size(asked[k]) \in Nat
    BY <2>1, BufferFacts
  <2>3. /\ scored' = scored + Size(asked[k]) /\ givenUp' = givenUp
        /\ scored' \in Nat /\ givenUp' \in Nat
        /\ scored' + givenUp' = scored + givenUp + Size(asked[k])
    BY <1>4, <2>2 DEF SidecarScores, AarInv, AarTypes
  <2>4. score'.version = "aar"
    BY <1>4 DEF SidecarScores
  <2>5. Done(k) /\ buffer' = NoBuffer /\ UNCHANGED <<failOpen, received, overtaken>>
    BY <1>4 DEF SidecarScores
  <2> QED BY <2>1, <2>3, <2>4, <2>5, EndKeeps
<1>5. ASSUME NEW k \in Scorers, asked[k] # NoBuffer, SidecarFails(k) PROVE AarInv'
  <2>1. asked[k] \in Counts /\ score.version \in {"none", "aar", "sync-v1", "unavailable"}
    BY <1>5 DEF AarInv, AarTypes
  <2>2. Size(asked[k]) \in Nat
    BY <2>1, BufferFacts
  <2>3. Done(k) /\ UNCHANGED <<failOpen, received, overtaken, scored>>
    BY <1>5 DEF SidecarFails
  <2>4. CASE failOpen
    <3>1. /\ givenUp' = givenUp + Size(asked[k]) /\ buffer' = NoBuffer
          /\ score'.version = "unavailable"
      BY <1>5, <2>4 DEF SidecarFails, Unavailable, NoScore
    <3>2. /\ scored' \in Nat /\ givenUp' \in Nat
          /\ scored' + givenUp' = scored + givenUp + Size(asked[k])
      BY <2>2, <2>3, <3>1 DEF AarInv, AarTypes
    <3> QED BY <1>5, <2>3, <3>1, <3>2, EndKeeps
  <2>5. CASE ~failOpen
    <3>1. UNCHANGED <<score, buffer, givenUp>>
      BY <1>5, <2>5 DEF SidecarFails
    <3> QED BY <1>5, <2>1, <2>3, <3>1, EndKeeps
  <2> QED BY <2>4, <2>5
<1>6. ASSUME ScoreSessionSync PROVE AarInv'
  <2>1. buffer \in Counts /\ Size(buffer) \in Nat
    BY <1>6, BufferFacts DEF ScoreSessionSync, AarInv, AarTypes
  <2>2. /\ UNCHANGED <<failOpen, asked, reading, givenUp, received>> /\ buffer' = NoBuffer
        /\ scored' = scored + Size(buffer) /\ score'.version = "sync-v1"
        /\ overtaken' = (overtaken \/ Scoring) /\ buffer # NoBuffer
    BY <1>6 DEF ScoreSessionSync, ComputeSyncScore
  <2>3. AarTypes'
    BY <2>1, <2>2 DEF AarInv, AarTypes, Scoring
  <2>4. AarBounds'
    BY <2>2 DEF AarInv, AarBounds
  <2>5. ASSUME ~overtaken' PROVE ~overtaken /\ \A j \in Scorers : asked'[j] = NoBuffer
    BY <2>2, <2>5 DEF Scoring, AarInv, AarTypes
  <2>6. AarSerial'
    BY <2>5 DEF AarSerial
  <2>7. SerialScoringLosesNothing'
    BY <2>1, <2>2, <2>5 DEF SerialScoringLosesNothing, AarInv, AarTypes
  <2> QED BY <2>3, <2>4, <2>6, <2>7 DEF AarInv
<1> QED BY <1>1, <1>2, <1>3, <1>4, <1>5, <1>6 DEF AarStep, TimesOut, Errs

LEMMA AarTyped == ASSUME AarInv, MaxDecisions \in Nat PROVE AarTypeOK /\ SerialScoringLosesNothing
<1>1. ASSUME buffer # NoBuffer PROVE \A d \in Dispositions : buffer[d] \in 0 .. MaxDecisions
  <2>1. buffer \in Counts
    BY <1>1 DEF AarInv, AarTypes
  <2>2. Size(buffer) \in Nat /\ Size(buffer) <= MaxDecisions /\ \A d \in Dispositions : buffer[d] <= Size(buffer)
    BY <1>1, <2>1, BufferFacts DEF AarInv, AarTypes, AarBounds
  <2> QED BY <2>1, <2>2 DEF Counts
<1> QED BY <1>1 DEF AarInv, AarTypes, AarTypeOK

----------------------------------------------------------------------------
(* The sandbox runner. *)

Reports == [phase : Range(RUN_PHASE_NAMES), status : {"succeeded", "failed"}]

BoxTypes ==
  /\ emitter \in {"promise", "void", "missing"}
  /\ run \in [phase : 1 .. 10, active : BOOLEAN,
              stage : {"between", "operating", "finishing", "failing", "rejecting", "rejected",
                       "resolved"}]
  /\ reported \in Seq(Reports)
  /\ broke \in BOOLEAN /\ worked \in BOOLEAN

\* Where the run is: the recorder's active phase is the one under way, and an
\* error is on its way to the caller once an operation broke.
BoxStages ==
  /\ run.stage \in {"operating", "finishing"} => run.phase <= 9
  /\ run.stage \in {"between", "finishing", "rejecting", "rejected", "resolved"} => ~run.active
  /\ run.stage = "operating" => run.active
  /\ emitter = "promise" =>
       /\ broke <=> run.stage \in {"failing", "rejecting", "rejected"}
       /\ run.stage = "failing" => run.active /\ run.phase <= 9
       /\ run.stage = "resolved" => run.phase = 10
       /\ run.phase > 6 \/ (run.phase = 6 /\ run.stage = "finishing") => worked
  /\ emitter # "promise" =>
       /\ run.phase = 1 /\ ~broke /\ ~worked
       /\ run.stage \in {"between", "operating", "failing", "rejected"}
       /\ run.stage = "failing" => ~run.active
       /\ Len(reported) <= 1
       /\ run.stage \in {"between", "operating"} => reported = <<>>

\* The phases before the one under way, in order, and that one once it is done.
Past == IF run.stage \in {"between", "operating"} \/ run.active THEN run.phase - 1 ELSE run.phase

BoxReports ==
  /\ \A i \in DOMAIN reported :
       /\ \E m \in 1 .. 9 : m <= Past /\ RUN_PHASE_NAMES[m] = reported[i].phase
       /\ Failed(i) => i = Len(reported) /\ run.stage \in {"rejecting", "rejected"} /\ broke
  /\ \A i, j \in DOMAIN reported : i < j =>
       \E m, n \in 1 .. 9 : /\ m < n /\ RUN_PHASE_NAMES[m] = reported[i].phase
                            /\ RUN_PHASE_NAMES[n] = reported[j].phase

BoxInv == BoxTypes /\ BoxStages /\ BoxReports

LEMMA PhaseNames ==
  /\ Len(RUN_PHASE_NAMES) = 9 /\ DOMAIN RUN_PHASE_NAMES = 1 .. 9
  /\ RUN_PHASE_NAMES[1] = "bootstrap" /\ RUN_PHASE_NAMES[6] = "agent"
  /\ \A m \in 1 .. 9 : RUN_PHASE_NAMES[m] \in Range(RUN_PHASE_NAMES)
<1>1. Len(RUN_PHASE_NAMES) = 9 /\ DOMAIN RUN_PHASE_NAMES = 1 .. 9
  BY DEF RUN_PHASE_NAMES
<1>2. RUN_PHASE_NAMES[1] = "bootstrap" /\ RUN_PHASE_NAMES[6] = "agent"
  BY DEF RUN_PHASE_NAMES
<1> QED BY <1>1, <1>2 DEF Range

LEMMA BoxStart == ASSUME SandboxInit PROVE BoxInv
<1>1. BoxTypes
  <2>1. run \in [phase : 1 .. 10, active : BOOLEAN,
                stage : {"between", "operating", "finishing", "failing", "rejecting", "rejected",
                         "resolved"}]
    BY DEF SandboxInit
  <2> QED BY <2>1, EmptySeq DEF SandboxInit, BoxTypes
<1>2. BoxStages
  BY DEF SandboxInit, BoxStages
<1>3. BoxReports
  BY DEF SandboxInit, BoxReports
<1> QED BY <1>1, <1>2, <1>3 DEF BoxInv

LEMMA BoxUnchanged == ASSUME BoxInv, UNCHANGED sandboxVars PROVE BoxInv'
BY DEF sandboxVars, BoxInv, BoxTypes, BoxStages, BoxReports, Past, Failed

\* A report of the phase under way, when none of it was made before.
LEMMA EmitReports ==
  ASSUME BoxInv, run.active, run.phase <= 9, NEW status \in {"succeeded", "failed"}, Emit(status),
         run'.phase = run.phase, ~run'.active, run'.stage \notin {"between", "operating"},
         UNCHANGED broke,
         status = "failed" => run'.stage \in {"rejecting", "rejected"} /\ broke
  PROVE  /\ reported' \in Seq(Reports) /\ BoxReports'
         /\ Len(reported') <= Len(reported) + 1
         /\ emitter = "missing" => reported' = reported
<1>1. /\ reported \in Seq(Reports) /\ run.phase \in 1 .. 9
      /\ run.stage \notin {"rejecting", "rejected"}
  BY DEF BoxInv, BoxTypes, BoxStages
<1>2. Past = run.phase - 1 /\ Past' = run.phase
  BY DEF Past
<1>3. CASE UNCHANGED reported
  <2>1. BoxReports'
    BY <1>1, <1>2, <1>3, SMTT(20) DEF BoxInv, BoxReports, Failed
  <2> QED BY <1>1, <1>3, <2>1, LenProperties
<1>4. CASE emitter # "missing" /\ reported' = Append(reported, [phase |-> Phase, status |-> status])
  <2>1. [phase |-> Phase, status |-> status] \in Reports
    BY <1>1, PhaseNames DEF Phase, Reports
  <2>2. /\ reported' \in Seq(Reports) /\ Len(reported') = Len(reported) + 1
        /\ DOMAIN reported' = 1 .. Len(reported) + 1 /\ DOMAIN reported = 1 .. Len(reported)
        /\ Len(reported) \in Nat
        /\ \A i \in 1 .. Len(reported) : reported'[i] = reported[i]
        /\ reported'[Len(reported) + 1] = [phase |-> Phase, status |-> status]
    BY <1>1, <1>4, <2>1, AppendProperties, LenProperties
  <2>3. ASSUME NEW i \in DOMAIN reported'
        PROVE  /\ \E m \in 1 .. 9 : m <= Past' /\ RUN_PHASE_NAMES[m] = reported'[i].phase
               /\ Failed(i)' => i = Len(reported') /\ run'.stage \in {"rejecting", "rejected"} /\ broke
    <3>1. CASE i = Len(reported) + 1
      BY <1>1, <1>2, <2>2, <3>1, SMTT(20) DEF Failed, Phase
    <3>2. CASE i # Len(reported) + 1
      <4>1. i \in DOMAIN reported /\ reported'[i] = reported[i]
        BY <2>2, <3>2
      <4>2. PICK m \in 1 .. 9 : m <= Past /\ RUN_PHASE_NAMES[m] = reported[i].phase
        BY <4>1 DEF BoxInv, BoxReports
      <4>3. ~Failed(i)
        BY <1>1, <4>1 DEF BoxInv, BoxReports
      <4> QED BY <1>1, <1>2, <4>1, <4>2, <4>3, SMTT(20) DEF Failed
    <3> QED BY <3>1, <3>2
  <2>4. ASSUME NEW i \in DOMAIN reported', NEW j \in DOMAIN reported', i < j
        PROVE  \E m, n \in 1 .. 9 : /\ m < n /\ RUN_PHASE_NAMES[m] = reported'[i].phase
                                    /\ RUN_PHASE_NAMES[n] = reported'[j].phase
    <3>1. i \in DOMAIN reported /\ reported'[i] = reported[i]
      BY <2>2, <2>4
    <3>2. CASE j = Len(reported) + 1
      <4>1. PICK m \in 1 .. 9 : m <= Past /\ RUN_PHASE_NAMES[m] = reported[i].phase
        BY <3>1 DEF BoxInv, BoxReports
      <4>2. RUN_PHASE_NAMES[run.phase] = reported'[j].phase
        BY <2>2, <3>2 DEF Phase
      <4>3. m < run.phase
        BY <1>1, <1>2, <4>1
      <4> QED BY <1>1, <3>1, <4>1, <4>2, <4>3
    <3>3. CASE j # Len(reported) + 1
      <4>1. j \in DOMAIN reported /\ reported'[j] = reported[j]
        BY <2>2, <3>3
      <4> QED BY <2>4, <3>1, <4>1 DEF BoxInv, BoxReports
    <3> QED BY <3>2, <3>3
  <2>5. BoxReports'
    BY <2>3, <2>4 DEF BoxReports, Failed
  <2>6. Len(reported') <= Len(reported) + 1
    BY <2>2
  <2>7. emitter # "missing"
    BY <1>4
  <2> QED BY <2>2, <2>5, <2>6, <2>7
<1>5. \/ UNCHANGED reported
      \/ emitter # "missing" /\ reported' = Append(reported, [phase |-> Phase, status |-> status])
  BY DEF Emit
<1> QED BY <1>3, <1>4, <1>5

LEMMA BoxKeeps == ASSUME BoxInv, SandboxStep PROVE BoxInv'
<1> USE DEF BoxInv, BoxTypes
<1>a. /\ run = [phase |-> run.phase, active |-> run.active, stage |-> run.stage]
      /\ run.phase \in 1 .. 10
  OBVIOUS
<1>1. CASE Start
  <2>1. run.phase \in 1 .. 9 /\ run' = [run EXCEPT !.active = TRUE, !.stage = "operating"]
    BY <1>1, PhaseNames DEF Start
  <2>2. /\ UNCHANGED <<emitter, reported, broke, worked>> /\ run.stage = "between" /\ ~run.active
    BY <1>1 DEF Start
  <2>3. BoxTypes'
    BY <2>1, <2>2
  <2>4. BoxStages'
    BY <2>1, <2>2 DEF BoxStages
  <2>5. BoxReports'
    BY <2>1, <2>2 DEF BoxReports, Past, Failed
  <2> QED BY <2>3, <2>4, <2>5
<1>2. CASE OperationDone
  <2>1. /\ run.stage = "operating" /\ run.active /\ run.phase \in 1 .. 9
        /\ UNCHANGED <<emitter, broke>> /\ worked' = (worked \/ Phase = "agent")
        /\ run' = [run EXCEPT !.active = FALSE,
                              !.stage = IF emitter = "promise" THEN "finishing" ELSE "failing"]
        /\ Emit("succeeded")
    BY <1>2 DEF OperationDone, Finish, BoxStages
  <2>2. /\ reported' \in Seq(Reports) /\ BoxReports'
        /\ Len(reported') <= Len(reported) + 1
    BY <2>1, EmitReports
  <2>3. BoxTypes'
    BY <2>1, <2>2
  <2>4. run.phase = 6 => worked'
    BY <2>1, PhaseNames DEF Phase
  <2>5. run.phase = 1 => worked' = worked
    BY <2>1, PhaseNames DEF Phase
  <2>6. BoxStages'
    BY <2>1, <2>2, <2>4, <2>5 DEF BoxStages
  <2> QED BY <2>2, <2>3, <2>6
<1>3. CASE OperationThrows
  <2>1. /\ run.stage = "operating" /\ run.active /\ run.phase \in 1 .. 9
        /\ Phase \in {"agent", "result_capture"} /\ broke' = TRUE
        /\ run' = [run EXCEPT !.stage = "failing"] /\ UNCHANGED <<emitter, reported, worked>>
    BY <1>3 DEF OperationThrows, BoxStages
  <2>2. emitter = "promise"
    BY <2>1, PhaseNames DEF Phase, BoxStages
  <2>3. BoxTypes'
    BY <2>1
  <2>4. BoxStages'
    BY <2>1, <2>2 DEF BoxStages
  <2>5. BoxReports'
    BY <2>1 DEF BoxReports, Past, Failed
  <2> QED BY <2>3, <2>4, <2>5
<1>4. CASE Settle
  <2>1. /\ run.stage = "finishing" /\ run.phase \in 1 .. 9 /\ ~run.active
        /\ run' = [run EXCEPT !.stage = "between", !.phase = @ + 1]
        /\ UNCHANGED <<emitter, reported, broke, worked>>
    BY <1>4 DEF Settle, BoxStages
  <2>2. BoxTypes'
    <3>1. run' = [phase |-> run.phase + 1, active |-> run.active, stage |-> "between"]
      BY <2>1
    <3> QED BY <2>1, <3>1
  <2>3. BoxStages'
    BY <2>1 DEF BoxStages
  <2>4. Past' = Past
    BY <2>1 DEF Past
  <2>5. BoxReports'
    BY <2>1, <2>4 DEF BoxReports, Failed
  <2> QED BY <2>2, <2>3, <2>5
<1>5. CASE Fail
  <2>1. /\ run.stage = "failing" /\ UNCHANGED <<emitter, broke, worked>>
        /\ run' = [run EXCEPT !.active = FALSE,
             !.stage = IF run.active /\ emitter = "promise" THEN "rejecting" ELSE "rejected"]
    BY <1>5 DEF Fail
  <2>2. CASE run.active
    <3>1. emitter = "promise" /\ run.phase <= 9 /\ broke /\ Emit("failed")
      BY <1>5, <2>1, <2>2 DEF Fail, BoxStages
    <3>2. /\ reported' \in Seq(Reports) /\ BoxReports'
      BY <2>1, <2>2, <3>1, EmitReports
    <3>3. BoxTypes'
      BY <2>1, <3>2
    <3>4. BoxStages'
      BY <2>1, <2>2, <3>1 DEF BoxStages
    <3> QED BY <3>2, <3>3, <3>4
  <2>3. CASE ~run.active
    <3>1. UNCHANGED reported /\ emitter # "promise"
      BY <1>5, <2>1, <2>3 DEF Fail, BoxStages
    <3>2. BoxTypes' /\ BoxStages'
      BY <2>1, <2>3, <3>1 DEF BoxStages
    <3>3. BoxReports'
      BY <2>1, <2>3, <3>1 DEF BoxReports, Past, Failed
    <3> QED BY <3>2, <3>3
  <2> QED BY <2>2, <2>3
<1>6. CASE Reject
  <2>1. /\ run.stage = "rejecting" /\ ~run.active /\ UNCHANGED <<emitter, reported, broke, worked>>
        /\ run' = [run EXCEPT !.stage = "rejected"]
    BY <1>6 DEF Reject, BoxStages
  <2>2. BoxTypes' /\ BoxStages'
    BY <2>1 DEF BoxStages
  <2>3. BoxReports'
    BY <2>1 DEF BoxReports, Past, Failed
  <2> QED BY <2>2, <2>3
<1>7. CASE Return
  <2>1. /\ run.stage = "between" /\ ~run.active /\ UNCHANGED <<emitter, reported, broke, worked>>
        /\ run.phase = 10 /\ run' = [run EXCEPT !.stage = "resolved"]
    BY <1>7, PhaseNames DEF Return, BoxStages
  <2>2. BoxTypes' /\ BoxStages'
    BY <2>1 DEF BoxStages
  <2>3. BoxReports'
    BY <2>1 DEF BoxReports, Past, Failed
  <2> QED BY <2>2, <2>3
<1> QED BY <1>1, <1>2, <1>3, <1>4, <1>5, <1>6, <1>7 DEF SandboxStep

LEMMA BoxTyped == ASSUME BoxInv PROVE SandboxTypeOK /\ ReportingIsBestEffort
<1>1. SandboxTypeOK
  BY PhaseNames DEF BoxInv, BoxTypes, SandboxTypeOK, Reports
<1>2. /\ emitter = "promise" => (Rejected => broke) /\ (run.stage = "resolved" => worked /\ ~broke)
      /\ emitter # "promise" => ~worked /\ run.stage # "resolved" /\ Len(reported) <= 1
  BY DEF BoxInv, BoxTypes, BoxStages, Rejected
<1>3. \A i \in DOMAIN reported :
        /\ Failed(i) => i = Len(reported) /\ broke /\ run.stage # "resolved"
        /\ \A j \in DOMAIN reported : i < j =>
             \E m, n \in DOMAIN RUN_PHASE_NAMES :
               /\ m < n /\ RUN_PHASE_NAMES[m] = reported[i].phase
               /\ RUN_PHASE_NAMES[n] = reported[j].phase
  BY PhaseNames DEF BoxInv, BoxReports
<1> QED BY <1>1, <1>2, <1>3 DEF ReportingIsBestEffort

----------------------------------------------------------------------------
(* The hooks of gateway/request. *)

EnvValues == {"own", "secret", Absent}
Samples == {Fast, Slow}
Recording == {r \in Requests : request[r].stage = "recording"}

RequestTypes ==
  /\ request = [r \in Requests |-> request[r]]
  /\ \A r \in Requests :
       \/ request[r] = Idle \/ request[r] = [Idle EXCEPT !.stage = "recording"]
       \/ /\ request[r].stage = "running" /\ request[r].usage \in Usages
          /\ DOMAIN request[r].snap \subseteq Keys
          /\ \A k \in DOMAIN request[r].snap : request[r].snap[k] \in EnvValues

GateTypes ==
  /\ env0 \in [Keys -> {"own", Absent}] /\ env \in [Keys -> EnvValues]
  /\ vault \subseteq Keys /\ injected \subseteq Keys
  /\ RequestTypes
  /\ latencies \in Seq(Samples) /\ alerts \in Seq(Samples)
  /\ rows \in Seq({Tokens(u) : u \in Usages})
  /\ stored \in Nat /\ lost \in Nat /\ made \in Nat /\ answered \in Nat /\ observed \in Nat
  /\ overlapped \in BOOLEAN

\* What there is, counted: samples and alerts, rows and their inserts.
GateCounts ==
  /\ Len(latencies) <= WindowMax /\ Len(alerts) <= observed
  /\ Len(rows) + Cardinality(Running) <= made /\ made <= MaxRequests
  /\ Len(rows) = answered
  /\ stored + lost + Cardinality(Recording) = Len(rows)

SlowAlerts ==
  Len(latencies) < 100 /\ (\E i \in DOMAIN latencies : latencies[i] = Slow) => alerts # <<>>

\* Unless requests overlapped or clear took something in use, at most one is under
\* way, its snapshot is what the operator set, and the rest of the environment too.
GateSerial ==
  ~overlapped =>
    /\ \A r, q \in Running : r = q
    /\ Running = {} => env = env0
    /\ \A r \in Running :
         /\ \A k \in DOMAIN request[r].snap : request[r].snap[k] = env0[k]
         /\ env = [k \in Keys |-> IF k \in DOMAIN request[r].snap THEN "secret" ELSE env0[k]]

GateInv == GateTypes /\ GateCounts /\ SlowAlerts /\ GateSerial

LEMMA P99Facts ==
  ASSUME NEW w \in Seq(Samples), w # <<>>
  PROVE  /\ P99(w) \in Samples
         /\ Len(w) < 100 /\ (\E i \in DOMAIN w : w[i] = Slow) => P99(w) = Slow
<1> DEFINE n == Len(w)
           rank == (99 * n + 99) \div 100
           Under(x) == {i \in 1..n : w[i] < x}
           UpTo(x) == {i \in 1..n : w[i] <= x}
           Chosen(x) == x \in {w[i] : i \in 1..n} /\ Cardinality(Under(x)) < rank
                        /\ Cardinality(UpTo(x)) >= rank
<1>1. /\ n \in Nat /\ n >= 1 /\ DOMAIN w = 1 .. n /\ \A i \in 1 .. n : w[i] \in Samples
      /\ rank \in Nat /\ rank >= 1 /\ rank <= n /\ (n < 100 => rank = n)
  <2>1. n \in Nat /\ n >= 1 /\ DOMAIN w = 1 .. n
    BY EmptySeq, LenProperties
  <2>2. \A i \in 1 .. n : w[i] \in Samples
    BY <2>1, ElementOfSeq
  <2> HIDE DEF n
  <2>3. rank \in Nat /\ rank >= 1 /\ rank <= n /\ (n < 100 => rank = n)
    BY <2>1
  <2> QED BY <2>1, <2>2, <2>3
<1>2. Fast = 5 /\ Slow = 2001
  BY DEF Fast, Slow
<1>3. P99(w) = CHOOSE x : Chosen(x)
  BY DEF P99
<1> HIDE DEF n, rank
<1>4. IsFiniteSet(1 .. n) /\ Cardinality(1 .. n) = n
  <2>1. n \in Int /\ 1 \in Int /\ n - 1 + 1 = n /\ ~(1 > n)
    BY <1>1
  <2> QED BY <2>1, FS_Interval
<1>5. ASSUME NEW x
      PROVE  /\ UpTo(x) \in SUBSET (1 .. n) /\ Under(x) \in SUBSET (1 .. n)
             /\ Cardinality(UpTo(x)) \in Nat /\ Cardinality(Under(x)) \in Nat
  <2>1. UpTo(x) \in SUBSET (1 .. n) /\ Under(x) \in SUBSET (1 .. n)
    OBVIOUS
  <2> HIDE DEF UpTo, Under
  <2>2. IsFiniteSet(UpTo(x)) /\ IsFiniteSet(Under(x))
    BY <2>1, <1>4, FS_Subset
  <2> QED BY <2>1, <2>2, FS_CardinalityType
<1>6. UpTo(Slow) = 1 .. n /\ Under(Fast) = {} /\ Under(Slow) = UpTo(Fast)
  BY <1>1, <1>2 DEF Samples
<1>7. /\ UpTo(Fast) # {} => Fast \in {w[i] : i \in 1 .. n}
      /\ UpTo(Fast) # 1 .. n => Slow \in {w[i] : i \in 1 .. n}
      /\ \A x : UpTo(x) = 1 .. n => \A i \in 1 .. n : w[i] <= x
  BY <1>1, <1>2 DEF Samples
<1> HIDE DEF UpTo, Under
<1>8. \E x : Chosen(x)
  <2>1. CASE Cardinality(UpTo(Fast)) >= rank
    <3>1. UpTo(Fast) # {}
      <4>1. ASSUME UpTo(Fast) = {} PROVE Cardinality(UpTo(Fast)) = 0
        BY <4>1, FS_EmptySet
      <4>2. Cardinality(UpTo(Fast)) # 0
        BY <1>1, <2>1
      <4> QED BY <4>1, <4>2
    <3>2. Cardinality(Under(Fast)) < rank
      <4>1. Cardinality(Under(Fast)) = 0
        BY <1>6, FS_EmptySet
      <4> QED BY <1>1, <4>1
    <3> QED BY <1>7, <2>1, <3>1, <3>2
  <2>2. CASE ~(Cardinality(UpTo(Fast)) >= rank)
    <3>1. Cardinality(UpTo(Fast)) < rank
      BY <1>1, <1>5, <2>2
    <3>2. UpTo(Fast) # 1 .. n
      BY <1>1, <1>4, <3>1
    <3>3. Cardinality(UpTo(Slow)) >= rank /\ Cardinality(Under(Slow)) < rank
      BY <1>1, <1>4, <1>6, <3>1
    <3> QED BY <1>7, <3>2, <3>3
  <2> QED BY <2>1, <2>2
<1>9. Chosen(P99(w)) /\ P99(w) \in Samples
  <2>1. Chosen(P99(w))
    <3> HIDE DEF Chosen
    <3> QED BY <1>3, <1>8
  <2> QED BY <1>1, <2>1
<1>10. ASSUME n < 100, NEW i \in DOMAIN w, w[i] = Slow PROVE P99(w) = Slow
  <2> DEFINE All == UpTo(P99(w))
  <2>1. Cardinality(All) >= n
    BY <1>1, <1>9, <1>10
  <2>2. All \in SUBSET (1 .. n) /\ Cardinality(All) \in Nat
    BY <1>5
  <2> HIDE DEF All
  <2>3. Cardinality(All) <= n
    BY <1>4, <2>2, FS_Subset
  <2>4. Cardinality(All) = n
    BY <1>1, <2>1, <2>2, <2>3
  <2>5. All = 1 .. n
    BY <1>4, <2>2, <2>4, FS_Subset
  <2>6. w[i] <= P99(w)
    BY <1>1, <1>7, <1>10, <2>5 DEF All
  <2> QED BY <1>2, <1>9, <1>10, <2>6 DEF Samples
<1> QED BY <1>1, <1>9, <1>10 DEF n

LEMMA GateStart ==
  ASSUME GatewayInit, IsFiniteSet(Requests), WindowMax \in Nat, MaxRequests \in Nat
  PROVE  GateInv
<1>1. Running = {} /\ Recording = {}
  BY DEF GatewayInit, Running, Recording, Idle
<1>2. Cardinality(Running) = 0 /\ Cardinality(Recording) = 0
  BY <1>1, FS_EmptySet
<1>3. \A S : <<>> \in Seq(S) /\ Len(<<>>) = 0
  BY EmptySeq
<1>4. GateTypes
  BY <1>3 DEF GatewayInit, GateTypes, RequestTypes, EnvValues
<1>5. GateCounts
  BY <1>2, <1>3 DEF GatewayInit, GateCounts
<1>6. SlowAlerts
  BY DEF GatewayInit, SlowAlerts
<1>7. GateSerial
  BY <1>1 DEF GatewayInit, GateSerial
<1> QED BY <1>4, <1>5, <1>6, <1>7 DEF GateInv

LEMMA GateUnchanged == ASSUME GateInv, UNCHANGED gatewayVars PROVE GateInv'
<1>1. Running' = Running /\ Recording' = Recording
  BY DEF gatewayVars, Running, Recording
<1>2. RequestTypes'
  BY DEF gatewayVars, GateInv, GateTypes, RequestTypes
<1>3. GateTypes'
  BY <1>2 DEF gatewayVars, GateInv, GateTypes
<1>4. GateCounts' /\ SlowAlerts'
  BY <1>1 DEF gatewayVars, GateInv, GateCounts, SlowAlerts
<1>5. GateSerial'
  BY <1>1 DEF gatewayVars, GateInv, GateSerial
<1> QED BY <1>3, <1>4, <1>5 DEF GateInv

\* The sets of requests under way, and how a step moves one of them.
LEMMA RequestSets ==
  ASSUME IsFiniteSet(Requests)
  PROVE  /\ IsFiniteSet(Running) /\ Cardinality(Running) \in Nat
         /\ IsFiniteSet(Recording) /\ Cardinality(Recording) \in Nat
<1>1. Running \in SUBSET Requests /\ Recording \in SUBSET Requests
  BY DEF Running, Recording
<1> QED BY <1>1, FS_Subset, FS_CardinalityType

LEMMA RowLengths ==
  ASSUME GateTypes PROVE Len(rows) \in Nat /\ Len(latencies) \in Nat /\ Len(alerts) \in Nat
BY LenProperties DEF GateTypes

LEMMA BeginKeeps ==
  ASSUME GateInv, IsFiniteSet(Requests), WindowMax \in Nat, MaxRequests \in Nat,
         NEW r \in Requests, NEW u \in Usages, Begin(r, u)
  PROVE  GateInv'
<1>1. /\ request[r].stage = "idle" /\ made < MaxRequests /\ made' = made + 1
      /\ request' = [request EXCEPT ![r] =
           [stage |-> "running", usage |-> u, snap |-> [k \in vault |-> env[k]]]]
      /\ env' = [k \in Keys |-> IF k \in vault THEN "secret" ELSE env[k]]
      /\ overlapped' = (overlapped \/ Running # {}) /\ injected' = injected \cup vault
      /\ UNCHANGED <<env0, vault, latencies, alerts, rows, stored, lost, vaultOps, answered, observed>>
  BY DEF Begin
<1>2. r \notin Running /\ Running' = Running \cup {r} /\ Recording' = Recording
  BY <1>1 DEF Running, Recording, GateInv, GateTypes, RequestTypes
<1>3. Cardinality(Running') = Cardinality(Running) + 1
  BY <1>2, RequestSets, FS_AddElement
<1>4. GateTypes'
  <2>1. \A q \in Requests : q # r => request'[q] = request[q]
    BY <1>1 DEF GateInv, GateTypes, RequestTypes
  <2>2. request'[r] = [stage |-> "running", usage |-> u, snap |-> [k \in vault |-> env[k]]]
    BY <1>1 DEF GateInv, GateTypes, RequestTypes
  <2>3. env' \in [Keys -> EnvValues] /\ \A k \in vault : env[k] \in EnvValues
    BY <1>1 DEF GateInv, GateTypes, EnvValues
  <2>4. request' = [q \in Requests |-> request'[q]]
    BY <1>1 DEF GateInv, GateTypes, RequestTypes
  <2>5. ASSUME NEW q \in Requests
        PROVE  \/ request'[q] = Idle \/ request'[q] = [Idle EXCEPT !.stage = "recording"]
               \/ /\ request'[q].stage = "running" /\ request'[q].usage \in Usages
                  /\ DOMAIN request'[q].snap \subseteq Keys
                  /\ \A k \in DOMAIN request'[q].snap : request'[q].snap[k] \in EnvValues
    <3>1. CASE q = r
      BY <2>2, <2>3, <3>1 DEF GateInv, GateTypes
    <3>2. CASE q # r
      BY <2>1, <3>2 DEF GateInv, GateTypes, RequestTypes
    <3> QED BY <3>1, <3>2
  <2>6. RequestTypes'
    BY <2>4, <2>5 DEF RequestTypes, EnvValues
  <2> QED BY <1>1, <2>3, <2>6 DEF GateInv, GateTypes, EnvValues
<1>5. GateCounts'
  <2>1. Len(rows)' = Len(rows) /\ Len(latencies)' = Len(latencies) /\ Len(alerts)' = Len(alerts)
    BY <1>1
  <2>2. /\ Len(rows) \in Nat /\ Cardinality(Running) \in Nat /\ made \in Nat
        /\ Cardinality(Recording)' = Cardinality(Recording)
    BY <1>2, RequestSets, RowLengths DEF GateInv, GateTypes
  <2>3. Len(rows) + Cardinality(Running)' <= made' /\ made' <= MaxRequests
    BY <1>1, <1>3, <2>2 DEF GateInv, GateCounts
  <2> QED BY <1>1, <2>1, <2>2, <2>3 DEF GateInv, GateCounts
<1>6. SlowAlerts'
  BY <1>1 DEF GateInv, SlowAlerts
<1>7. GateSerial'
  <2> SUFFICES ASSUME ~overlapped' PROVE GateSerial'
    BY DEF GateSerial
  <2>1. ~overlapped /\ Running = {} /\ env = env0 /\ Running' = {r}
    BY <1>1, <1>2 DEF GateInv, GateTypes, GateSerial
  <2>2. request'[r].snap = [k \in vault |-> env0[k]] /\ env0' = env0
    BY <1>1, <2>1 DEF GateInv, GateTypes, RequestTypes
  <2>3. env' = [k \in Keys |-> IF k \in DOMAIN request'[r].snap THEN "secret" ELSE env0[k]]
    BY <1>1, <2>1, <2>2
  <2> QED BY <2>1, <2>2, <2>3 DEF GateSerial
<1> QED BY <1>4, <1>5, <1>6, <1>7 DEF GateInv

\* A sample enters the window, and the monitor looks at it.
LEMMA ObserveKeeps ==
  ASSUME GateTypes, SlowAlerts, Len(latencies) <= WindowMax, WindowMax \in Nat \ {0},
         NEW ms \in Samples, ObserveLatency(ms)
  PROVE  /\ latencies' \in Seq(Samples) /\ alerts' \in Seq(Samples)
         /\ Len(latencies') <= WindowMax /\ Len(alerts') <= Len(alerts) + 1
         /\ SlowAlerts'
<1> DEFINE pushed == Append(latencies, ms)
<1>1. /\ latencies \in Seq(Samples) /\ alerts \in Seq(Samples)
      /\ Len(latencies) \in Nat /\ Len(alerts) \in Nat
      /\ latencies' = Window(ms) /\ alerts' = Check(P99(Window(ms)))
  BY LenProperties DEF ObserveLatency, GateTypes
<1>2. /\ pushed \in Seq(Samples) /\ pushed # <<>> /\ Len(pushed) = Len(latencies) + 1
      /\ \A i \in 1 .. Len(latencies) : pushed[i] = latencies[i]
      /\ pushed[Len(latencies) + 1] = ms
  BY <1>1, AppendProperties
<1>3. Window(ms) = IF Len(pushed) > WindowMax THEN Tail(pushed) ELSE pushed
  BY DEF Window
<1> HIDE DEF pushed
<1>4. /\ Tail(pushed) \in Seq(Samples) /\ Len(Tail(pushed)) = Len(pushed) - 1
      /\ \A i \in 1 .. Len(Tail(pushed)) : Tail(pushed)[i] = pushed[i + 1]
  BY <1>2, HeadTailProperties
<1>5. /\ latencies' \in Seq(Samples) /\ Len(latencies') <= WindowMax
      /\ Len(latencies') >= 1 /\ Len(latencies') >= Len(latencies)
  BY <1>1, <1>2, <1>3, <1>4
<1>6. latencies' # <<>> /\ DOMAIN latencies' = 1 .. Len(latencies') /\ DOMAIN latencies = 1 .. Len(latencies)
  BY <1>1, <1>5, EmptySeq, LenProperties
<1>7. P99(latencies') \in Samples
  BY <1>5, <1>6, P99Facts
<1>8. alerts' = IF P99(latencies') > 2000 THEN Append(alerts, P99(latencies')) ELSE alerts
  BY <1>1 DEF Check
<1>9. alerts' \in Seq(Samples) /\ Len(alerts') <= Len(alerts) + 1 /\ (alerts # <<>> => alerts' # <<>>)
  BY <1>1, <1>7, <1>8, AppendProperties
<1>10. ASSUME Len(latencies') < 100, NEW i \in DOMAIN latencies', latencies'[i] = Slow PROVE alerts' # <<>>
  <2>1. P99(latencies') = Slow
    BY <1>5, <1>6, <1>10, P99Facts
  <2> QED BY <1>1, <1>7, <1>8, <2>1, AppendProperties DEF Slow
<1>11. SlowAlerts'
  BY <1>10 DEF SlowAlerts
<1> QED BY <1>5, <1>9, <1>11

\* A request ends: the environment is restored, and the row awaits its insert.
LEMMA ConcludeKeeps ==
  ASSUME GateInv, IsFiniteSet(Requests), WindowMax \in Nat \ {0}, MaxRequests \in Nat,
         NEW r \in Requests, NEW ok \in BOOLEAN, NEW ms \in Samples, End(r, ok, ms)
  PROVE  GateInv'
<1>1. /\ request[r].stage = "running" /\ request[r].usage \in Usages
      /\ DOMAIN request[r].snap \subseteq Keys
      /\ \A k \in DOMAIN request[r].snap : request[r].snap[k] \in EnvValues
  BY DEF End, GateInv, GateTypes, RequestTypes, Idle
<1>2. /\ env' = [k \in Keys |-> IF k \in DOMAIN request[r].snap THEN request[r].snap[k] ELSE env[k]]
      /\ observed' = observed + 1
      /\ UNCHANGED <<env0, vault, injected, stored, lost, made, vaultOps, overlapped>>
  BY DEF End, Restore
<1>3. /\ latencies' \in Seq(Samples) /\ alerts' \in Seq(Samples)
      /\ Len(latencies') <= WindowMax /\ Len(alerts') <= Len(alerts) + 1
      /\ SlowAlerts'
  BY ObserveKeeps DEF End, GateInv, GateCounts
<1> DEFINE charged == ok /\ IsMetered(request[r].usage)
           kept == IF charged THEN [Idle EXCEPT !.stage = "recording"] ELSE Idle
<1>4. /\ request' = [request EXCEPT ![r] = kept]
      /\ rows' = IF charged THEN Append(rows, Tokens(request[r].usage)) ELSE rows
      /\ answered' = answered + (IF charged THEN 1 ELSE 0)
  BY DEF End, Record
<1> HIDE DEF charged
<1>5. /\ rows' \in Seq({Tokens(u) : u \in Usages})
      /\ Len(rows') = Len(rows) + (IF charged THEN 1 ELSE 0)
  <2>1. Tokens(request[r].usage) \in {Tokens(u) : u \in Usages}
    BY <1>1
  <2>2. rows \in Seq({Tokens(u) : u \in Usages}) /\ Len(rows) \in Nat
    BY RowLengths DEF GateInv, GateTypes
  <2> QED BY <1>4, <2>1, <2>2, AppendProperties
<1>6. RequestTypes'
  BY <1>4 DEF GateInv, GateTypes, RequestTypes
<1>7. GateTypes'
  <2>1. env' \in [Keys -> EnvValues]
    BY <1>1, <1>2 DEF GateInv, GateTypes
  <2>2. answered' \in Nat
    BY <1>4 DEF GateInv, GateTypes
  <2> QED BY <1>2, <1>3, <1>5, <1>6, <2>1, <2>2 DEF GateInv, GateTypes, EnvValues
<1>8. /\ r \in Running /\ Running' = Running \ {r} /\ r \notin Recording
      /\ Recording' = IF charged THEN Recording \cup {r} ELSE Recording
  <2>1. kept.stage = IF charged THEN "recording" ELSE "idle"
    BY DEF Idle
  <2> HIDE DEF kept
  <2>2. \A q \in Requests : request'[q].stage =
          IF q = r THEN (IF charged THEN "recording" ELSE "idle") ELSE request[q].stage
    BY <1>4, <2>1 DEF GateInv, GateTypes, RequestTypes
  <2> QED BY <1>1, <2>2 DEF Running, Recording
<1>9. /\ Cardinality(Running') = Cardinality(Running) - 1
      /\ Cardinality(Recording') = Cardinality(Recording) + (IF charged THEN 1 ELSE 0)
  <2>1. Cardinality(Running') = Cardinality(Running) - 1
    BY <1>8, RequestSets, FS_RemoveElement
  <2>2. CASE charged
    BY <1>8, <2>1, <2>2, RequestSets, FS_AddElement
  <2>3. CASE ~charged
    BY <1>8, <2>1, <2>3, RequestSets
  <2> QED BY <2>2, <2>3
<1>10. GateCounts'
  <2>1. Len(alerts') \in Nat /\ Len(latencies') <= WindowMax /\ Len(alerts') <= observed'
    BY <1>2, <1>3, RowLengths, LenProperties DEF GateInv, GateTypes, GateCounts
  <2>2. Len(rows') + Cardinality(Running') <= made' /\ made' <= MaxRequests
    BY <1>2, <1>5, <1>9, RequestSets, RowLengths, SMTT(20) DEF GateInv, GateTypes, GateCounts
  <2>3. answered' = answered + (IF charged THEN 1 ELSE 0) /\ answered = Len(rows)
    BY <1>4 DEF GateInv, GateCounts
  <2>4. Len(rows') = answered'
    BY <1>5, <2>3
  <2>5. stored' + lost' + Cardinality(Recording') = Len(rows')
    <3>1. stored' = stored /\ lost' = lost /\ stored \in Nat /\ lost \in Nat
      BY <1>2 DEF GateInv, GateTypes
    <3>2. stored + lost + Cardinality(Recording) = Len(rows)
      BY DEF GateInv, GateCounts
    <3>3. Cardinality(Recording) \in Nat /\ Len(rows) \in Nat
      BY RequestSets, RowLengths DEF GateInv
    <3>4. CASE charged
      BY <1>5, <1>9, <3>1, <3>2, <3>3, <3>4
    <3>5. CASE ~charged
      BY <1>5, <1>9, <3>1, <3>2, <3>3, <3>5
    <3> QED BY <3>4, <3>5
  <2> QED BY <2>1, <2>2, <2>4, <2>5 DEF GateCounts
<1>11. GateSerial'
  <2> SUFFICES ASSUME ~overlapped PROVE GateSerial'
    BY <1>2 DEF GateSerial
  <2>1. Running' = {} /\ \A k \in DOMAIN request[r].snap : request[r].snap[k] = env0[k]
    BY <1>8 DEF GateInv, GateSerial
  <2>2. env = [k \in Keys |-> IF k \in DOMAIN request[r].snap THEN "secret" ELSE env0[k]]
    BY <1>8 DEF GateInv, GateSerial
  <2>3. env' = env0
    BY <1>2, <2>1, <2>2 DEF GateInv, GateTypes
  <2> QED BY <1>2, <2>1, <2>3 DEF GateSerial
<1> QED BY <1>3, <1>7, <1>10, <1>11 DEF GateInv

LEMMA InsertKeeps ==
  ASSUME GateInv, IsFiniteSet(Requests), NEW r \in Requests, NEW ok \in BOOLEAN, InsertSettles(r, ok)
  PROVE  GateInv'
<1>1. /\ request[r].stage = "recording" /\ request' = [request EXCEPT ![r] = Idle]
      /\ stored' = stored + (IF ok THEN 1 ELSE 0) /\ lost' = lost + (IF ok THEN 0 ELSE 1)
      /\ UNCHANGED <<env, env0, vault, injected, latencies, alerts, rows, made, vaultOps, answered,
                     observed, overlapped>>
  BY DEF InsertSettles
<1>2. RequestTypes'
  BY <1>1 DEF GateInv, GateTypes, RequestTypes
<1>3. GateTypes'
  BY <1>1, <1>2 DEF GateInv, GateTypes, EnvValues
<1>4. \A q \in Requests : q # r => request'[q] = request[q]
  BY <1>1 DEF GateInv, GateTypes, RequestTypes
<1>5. /\ Running' = Running /\ r \in Recording /\ Recording' = Recording \ {r}
  BY <1>1, <1>4 DEF GateInv, GateTypes, RequestTypes, Running, Recording, Idle
<1>6. Cardinality(Recording') = Cardinality(Recording) - 1
  BY <1>5, RequestSets, FS_RemoveElement
<1>7. GateCounts'
  BY <1>1, <1>5, <1>6, RequestSets, RowLengths DEF GateInv, GateTypes, GateCounts
<1>8. SlowAlerts'
  BY <1>1 DEF GateInv, SlowAlerts
<1>9. \A q \in Running : request'[q] = request[q]
  BY <1>1, <1>4 DEF Running
<1>10. GateSerial'
  BY <1>1, <1>5, <1>9 DEF GateInv, GateSerial
<1> QED BY <1>3, <1>7, <1>8, <1>10 DEF GateInv

LEMMA GateKeeps ==
  ASSUME GateInv, IsFiniteSet(Requests), WindowMax \in Nat \ {0}, MaxRequests \in Nat, GatewayStep
  PROVE  GateInv'
<1>1. ASSUME NEW r \in Requests, NEW u \in Usages, Begin(r, u) PROVE GateInv'
  BY <1>1, BeginKeeps
<1>2. ASSUME NEW r \in Requests, NEW ok \in BOOLEAN, NEW ms \in {Fast, Slow}, End(r, ok, ms)
      PROVE  GateInv'
  BY <1>2, ConcludeKeeps DEF Samples
<1>3. ASSUME NEW r \in Requests, NEW ok \in BOOLEAN, InsertSettles(r, ok) PROVE GateInv'
  BY <1>3, InsertKeeps
<1>4. ASSUME NEW k \in Keys, SetOrDelete(k) PROVE GateInv'
  <2>1. /\ vault' \subseteq Keys
        /\ UNCHANGED <<env, env0, injected, request, latencies, alerts, rows, stored, lost, made,
                       answered, observed, overlapped>>
    BY <1>4 DEF SetOrDelete, GateInv, GateTypes
  <2>2. Running' = Running /\ Recording' = Recording
    BY <2>1 DEF Running, Recording
  <2>3. RequestTypes'
    BY <2>1 DEF GateInv, GateTypes, RequestTypes
  <2>4. GateTypes'
    BY <2>1, <2>3 DEF GateInv, GateTypes
  <2>5. GateCounts' /\ SlowAlerts'
    BY <2>1, <2>2 DEF GateInv, GateCounts, SlowAlerts
  <2>6. GateSerial'
    BY <2>1, <2>2 DEF GateInv, GateSerial
  <2> QED BY <2>4, <2>5, <2>6 DEF GateInv
<1>5. ASSUME ClearSecrets PROVE GateInv'
  <2>1. /\ env' = [k \in Keys |-> IF k \in injected THEN Absent ELSE env[k]]
        /\ injected' = {} /\ vault' = {}
        /\ overlapped' = (overlapped \/ Running # {} \/ \E k \in injected : env0[k] # Absent)
        /\ UNCHANGED <<env0, request, latencies, alerts, rows, stored, lost, made, answered, observed>>
    BY <1>5 DEF ClearSecrets
  <2>2. Running' = Running /\ Recording' = Recording
    BY <2>1 DEF Running, Recording
  <2>3. RequestTypes'
    BY <2>1 DEF GateInv, GateTypes, RequestTypes
  <2>4. GateTypes'
    BY <2>1, <2>3 DEF GateInv, GateTypes, EnvValues
  <2>5. GateCounts' /\ SlowAlerts'
    BY <2>1, <2>2 DEF GateInv, GateCounts, SlowAlerts
  <2>6. GateSerial'
    <3> SUFFICES ASSUME ~overlapped' PROVE GateSerial'
      BY DEF GateSerial
    <3>1. /\ ~overlapped /\ Running = {} /\ \A k \in injected : env0[k] = Absent
          /\ env = env0
      BY <2>1 DEF GateInv, GateTypes, GateSerial
    <3>2. env' = env0
      BY <2>1, <3>1 DEF GateInv, GateTypes
    <3> QED BY <2>1, <2>2, <3>1, <3>2 DEF GateSerial
  <2> QED BY <2>4, <2>5, <2>6 DEF GateInv
<1>6. ASSUME ClearMonitor PROVE GateInv'
  <2>1. /\ latencies' = <<>> /\ alerts' = <<>>
        /\ UNCHANGED <<env, env0, vault, injected, request, rows, stored, lost, made, answered,
                       observed, overlapped>>
    BY <1>6 DEF ClearMonitor
  <2>2. Running' = Running /\ Recording' = Recording
    BY <2>1 DEF Running, Recording
  <2>3. RequestTypes'
    BY <2>1 DEF GateInv, GateTypes, RequestTypes
  <2>4. /\ latencies' \in Seq(Samples) /\ alerts' \in Seq(Samples)
        /\ Len(latencies') = 0 /\ Len(alerts') = 0
    BY <2>1, EmptySeq
  <2>5. GateTypes'
    BY <2>1, <2>3, <2>4 DEF GateInv, GateTypes
  <2>6. GateCounts'
    BY <2>1, <2>2, <2>4 DEF GateInv, GateTypes, GateCounts
  <2>7. SlowAlerts'
    BY <2>1 DEF SlowAlerts
  <2>8. GateSerial'
    BY <2>1, <2>2 DEF GateInv, GateSerial
  <2> QED BY <2>5, <2>6, <2>7, <2>8 DEF GateInv
<1> QED BY <1>1, <1>2, <1>3, <1>4, <1>5, <1>6 DEF GatewayStep

LEMMA GateTyped ==
  ASSUME GateInv, IsFiniteSet(Requests), WindowMax \in Nat \ {0}, MaxRequests \in Nat
  PROVE  GatewayTypeOK /\ SerialRequestsLeaveNoTrace /\ EveryRequestIsAccountedFor
<1>1. \A r \in Requests : request[r].stage \in {"idle", "running", "recording"}
  BY DEF GateInv, GateTypes, RequestTypes, Idle
<1>2. Len(rows) <= MaxRequests
  BY RequestSets, RowLengths DEF GateInv, GateTypes, GateCounts
<1>3. GatewayTypeOK
  BY <1>1, <1>2 DEF GateInv, GateTypes, GateCounts, GatewayTypeOK, EnvValues
<1>4. SerialRequestsLeaveNoTrace
  <2> SUFFICES ASSUME ~overlapped PROVE SerialRequestsLeaveNoTrace
    BY DEF SerialRequestsLeaveNoTrace
  <2>1. ASSUME NEW r \in Running, NEW k \in DOMAIN request[r].snap PROVE env[k] = "secret"
    <3>1. k \in Keys
      BY <2>1 DEF GateInv, GateTypes, RequestTypes, Running, Idle
    <3>2. env = [q \in Keys |-> IF q \in DOMAIN request[r].snap THEN "secret" ELSE env0[q]]
      BY DEF GateInv, GateSerial
    <3> QED BY <3>1, <3>2
  <2>2. Running = {} => env = env0
    BY DEF GateInv, GateSerial
  <2> QED BY <2>1, <2>2 DEF SerialRequestsLeaveNoTrace
<1>5. EveryRequestIsAccountedFor
  BY DEF GateInv, GateCounts, SlowAlerts, EveryRequestIsAccountedFor, Recording
<1> QED BY <1>3, <1>4, <1>5

----------------------------------------------------------------------------
(* Permissions, policy and audit log. *)

GovTypes ==
  /\ waterfall \in BOOLEAN /\ owner \in Users
  /\ ask \in [Asks -> [stage : {"idle", "asked", "refused", "granted"}, allowed : BOOLEAN]]
  /\ entries \in Seq(Range(entries))
  /\ Len(entries) <= MaxEntries /\ mirrored = Len(entries)

\* Every entry has the hash of what it says, with some owner where it refers to
\* one, and the one before it as prevHash.
GovEntries ==
  \A i \in DOMAIN entries :
    /\ entries[i].payload \in Asks
    /\ entries[i].hash = <<i - 1, entries[i].payload, entries[i].prevHash, entries[i].hash[4]>>
    /\ ~Refers(entries[i].payload) => entries[i].hash[4] = "none"
    /\ entries[i].prevHash = IF i = 1 THEN Genesis ELSE entries[i - 1].hash

GovMirror ==
  \A a \in Asks : (\E i \in DOMAIN entries : entries[i].payload = a)
                     <=> (a.kind # "approval" /\ ask[a].stage # "idle")

GovInv == GovTypes /\ GovEntries /\ GovMirror /\ OwnersDoNotApprove

LEMMA GovStart == ASSUME GovernanceInit, MaxEntries \in Nat PROVE GovInv
<1>1. Len(entries) = 0 /\ DOMAIN entries = {} /\ entries \in Seq(Range(entries))
  BY EmptySeq DEF GovernanceInit
<1>2. GovTypes
  BY <1>1 DEF GovernanceInit, GovTypes
<1>3. GovEntries /\ GovMirror /\ OwnersDoNotApprove
  BY <1>1 DEF GovernanceInit, GovEntries, GovMirror, OwnersDoNotApprove
<1> QED BY <1>2, <1>3 DEF GovInv

LEMMA GovUnchanged == ASSUME GovInv, UNCHANGED governanceVars PROVE GovInv'
<1>1. GovTypes'
  BY DEF governanceVars, GovInv, GovTypes
<1>2. GovEntries' /\ GovMirror' /\ OwnersDoNotApprove'
  BY DEF governanceVars, GovInv, GovEntries, GovMirror, OwnersDoNotApprove
<1> QED BY <1>1, <1>2 DEF GovInv

\* The log grows at its end.
LEMMA MirrorAppends ==
  ASSUME GovInv, NEW a \in Asks, Mirror(a)
  PROVE  /\ entries' \in Seq(Range(entries')) /\ Len(entries) \in Nat
         /\ Len(entries') = Len(entries) + 1
         /\ DOMAIN entries = 1 .. Len(entries) /\ DOMAIN entries' = 1 .. Len(entries) + 1
         /\ \A i \in 1 .. Len(entries) : entries'[i] = entries[i]
         /\ entries'[Len(entries) + 1] =
              [payload |-> a, prevHash |-> LastHash, hash |-> Hash(Len(entries), a, LastHash)]
<1> DEFINE e == [payload |-> a, prevHash |-> LastHash, hash |-> Hash(Len(entries), a, LastHash)]
           S == Range(entries) \cup {e}
<1>1. entries' = Append(entries, e)
  BY DEF Mirror
<1>2. entries \in Seq(Range(entries))
  BY DEF GovInv, GovTypes
<1> HIDE DEF e
<1>3. entries \in Seq(S)
  BY <1>2, SeqMonotonic
<1>4. /\ entries' \in Seq(S) /\ Len(entries') = Len(entries) + 1
      /\ \A i \in 1 .. Len(entries) : entries'[i] = entries[i]
      /\ entries'[Len(entries) + 1] = e
  BY <1>1, <1>3, AppendProperties
<1>5. /\ Len(entries) \in Nat /\ DOMAIN entries = 1 .. Len(entries)
      /\ DOMAIN entries' = 1 .. Len(entries) + 1
  BY <1>3, <1>4, LenProperties
<1>6. entries' \in Seq(Range(entries'))
  BY <1>4, SeqOfRange
<1> QED BY <1>4, <1>5, <1>6 DEF e

LEMMA AskEvKeeps == ASSUME GovInv, NEW a \in Asks, Ask(a) PROVE GovInv'
<1> DEFINE found == IF a.kind = "policy" THEN EvaluatePolicy(a.ev)
                    ELSE IF a.kind = "guard" /\ ~waterfall THEN TRUE ELSE Permitted(a)
<1>1. /\ ask[a].stage = "idle" /\ UNCHANGED <<waterfall, owner, granted>>
      /\ ask' = [ask EXCEPT ![a] = [stage |-> "asked", allowed |-> found]]
  BY DEF Ask
<1>2. found \in BOOLEAN
  BY DEF EvaluatePolicy, Permitted
<1> HIDE DEF found
<1>3. /\ ask' \in [Asks -> [stage : {"idle", "asked", "refused", "granted"}, allowed : BOOLEAN]]
      /\ ask'[a].stage = "asked" /\ \A b \in Asks : b # a => ask'[b] = ask[b]
  BY <1>1, <1>2 DEF GovInv, GovTypes
<1>4. OwnersDoNotApprove'
  BY <1>1 DEF GovInv, OwnersDoNotApprove
<1>5. CASE a.kind = "approval"
  <2>1. UNCHANGED <<entries, mirrored>>
    BY <1>5 DEF Ask
  <2>2. GovTypes'
    BY <1>1, <1>3, <2>1 DEF GovInv, GovTypes
  <2>3. GovEntries'
    BY <2>1 DEF GovInv, GovEntries
  <2>4. GovMirror'
    BY <1>1, <1>3, <1>5, <2>1 DEF GovInv, GovMirror
  <2> QED BY <1>4, <2>2, <2>3, <2>4 DEF GovInv
<1>6. CASE a.kind # "approval"
  <2>1. Len(entries) < MaxEntries /\ Mirror(a)
    BY <1>6 DEF Ask
  <2> DEFINE n == Len(entries)
  <2>2. /\ entries' \in Seq(Range(entries')) /\ n \in Nat /\ Len(entries') = n + 1
        /\ DOMAIN entries = 1 .. n /\ DOMAIN entries' = 1 .. n + 1
        /\ \A i \in 1 .. n : entries'[i] = entries[i]
        /\ entries'[n + 1] = [payload |-> a, prevHash |-> LastHash, hash |-> Hash(n, a, LastHash)]
    BY <2>1, MirrorAppends
  <2>3. mirrored' = Len(entries')
    BY <2>1, <2>2 DEF Mirror, GovInv, GovTypes
  <2>4. LastHash = IF n = 0 THEN Genesis ELSE entries[n].hash
    BY EmptySeq DEF LastHash, Last, GovInv, GovTypes
  <2> HIDE DEF n
  <2>5. GovTypes'
    <3>1. Len(entries') <= MaxEntries'
      BY <2>1, <2>2, GovernanceAssumption DEF n
    <3> QED BY <1>1, <1>3, <2>2, <2>3, <3>1 DEF GovInv, GovTypes
  <2>6. ASSUME NEW i \in DOMAIN entries'
        PROVE  /\ entries'[i].payload \in Asks
               /\ entries'[i].hash
                    = <<i - 1, entries'[i].payload, entries'[i].prevHash, entries'[i].hash[4]>>
               /\ ~Refers(entries'[i].payload) => entries'[i].hash[4] = "none"
               /\ entries'[i].prevHash = IF i = 1 THEN Genesis ELSE entries'[i - 1].hash
    <3>1. CASE i = n + 1
      BY <2>2, <2>4, <3>1 DEF Hash
    <3>2. CASE i \in 1 .. n
      <4>1. entries'[i] = entries[i] /\ (i # 1 => entries'[i - 1] = entries[i - 1])
        BY <2>2, <3>2
      <4> QED BY <2>2, <3>2, <4>1 DEF GovInv, GovEntries
    <3> QED BY <2>2, <3>1, <3>2
  <2>7. GovEntries'
    BY <2>6 DEF GovEntries, Refers
  <2>8. ASSUME NEW b \in Asks
        PROVE  (\E i \in DOMAIN entries' : entries'[i].payload = b)
                  <=> (b.kind # "approval" /\ ask'[b].stage # "idle")
    <3>1. (\E i \in DOMAIN entries' : entries'[i].payload = b)
             <=> (b = a \/ \E i \in DOMAIN entries : entries[i].payload = b)
      BY <2>2
    <3> QED BY <1>3, <1>6, <3>1 DEF GovInv, GovMirror
  <2>9. GovMirror'
    BY <2>8 DEF GovMirror
  <2> QED BY <1>4, <2>5, <2>7, <2>9 DEF GovInv
<1> QED BY <1>5, <1>6

\* A call whose first event was judged turns out one way or the other.
LEMMA OutcomeKeeps ==
  ASSUME GovInv, NEW a \in Asks, ask[a].stage = "asked", NEW to \in {"refused", "granted"},
         Turns(a, to), UNCHANGED <<waterfall, owner, entries, mirrored>>,
         \/ granted' = granted
         \/ /\ granted' = granted \cup {[ask |-> a, owner |-> owner]}
            /\ owner = a.user /\ a.action = "approve" =>
                 a.kind = "guard" /\ a.roles \cap {"org:admin", "audit"} # {}
  PROVE  GovInv'
<1>1. /\ ask' \in [Asks -> [stage : {"idle", "asked", "refused", "granted"}, allowed : BOOLEAN]]
      /\ \A b \in Asks : ask'[b].stage = "idle" <=> ask[b].stage = "idle"
  BY DEF Turns, GovInv, GovTypes
<1>2. GovTypes' /\ GovEntries'
  BY <1>1 DEF GovInv, GovTypes, GovEntries
<1>3. GovMirror'
  BY <1>1 DEF GovInv, GovMirror
<1>4. OwnersDoNotApprove'
  BY DEF GovInv, OwnersDoNotApprove
<1> QED BY <1>2, <1>3, <1>4 DEF GovInv

LEMMA GovKeeps ==
  ASSUME GovInv, \A a \in Asks : a.kind = "policy" => a.action # "approve", GovernanceStep
  PROVE  GovInv'
<1>1. ASSUME NEW a \in Asks, Ask(a) PROVE GovInv'
  BY <1>1, AskEvKeeps
<1>2. ASSUME NEW a \in Asks, Refuse(a) PROVE GovInv'
  BY <1>2, OutcomeKeeps DEF Refuse
<1>3. ASSUME NEW a \in Asks, NEW ok \in BOOLEAN, Granted(a, ok),
             ok /\ owner = a.user /\ a.action = "approve" =>
               a.kind = "guard" /\ a.roles \cap {"org:admin", "audit"} # {}
      PROVE  GovInv'
  <2>1. /\ ask[a].stage = "asked" /\ Turns(a, IF ok THEN "granted" ELSE "refused")
        /\ UNCHANGED <<waterfall, owner, entries, mirrored>>
        /\ granted' = IF ok THEN granted \cup {[ask |-> a, owner |-> owner]} ELSE granted
    BY <1>3 DEF Granted
  <2>2. CASE ok
    BY <1>3, <2>1, <2>2, OutcomeKeeps
  <2>3. CASE ~ok
    BY <2>1, <2>3, OutcomeKeeps
  <2> QED BY <2>2, <2>3
<1>4. ASSUME NEW a \in Asks, Guarded(a) PROVE GovInv'
  <2>1. CheckPermission(a) \in BOOLEAN
    BY DEF CheckPermission
  <2>2. CheckPermission(a) /\ owner = a.user /\ a.action = "approve" =>
          a.roles \cap {"org:admin", "audit"} # {}
    BY DEF CheckPermission
  <2> QED BY <1>3, <1>4, <2>1, <2>2 DEF Guarded
<1>5. ASSUME NEW a \in Asks, Approved(a) PROVE GovInv'
  <2>1. (owner # a.user) \in BOOLEAN
    OBVIOUS
  <2> QED BY <1>3, <1>5, <2>1 DEF Approved
<1>6. ASSUME NEW a \in Asks, Evaluated(a) PROVE GovInv'
  BY <1>3, <1>6 DEF Evaluated
<1>7. ASSUME NEW u \in Users, Transfer(u) PROVE GovInv'
  <2>1. owner' \in Users /\ UNCHANGED <<waterfall, ask, entries, granted, mirrored>>
    BY <1>7 DEF Transfer
  <2>2. GovTypes' /\ GovEntries'
    BY <2>1 DEF GovInv, GovTypes, GovEntries
  <2>3. GovMirror' /\ OwnersDoNotApprove'
    BY <2>1 DEF GovInv, GovMirror, OwnersDoNotApprove
  <2> QED BY <2>2, <2>3 DEF GovInv
<1> QED BY <1>1, <1>2, <1>4, <1>5, <1>6, <1>7 DEF GovernanceStep

LEMMA GovTyped == ASSUME GovInv PROVE GovernanceTypeOK /\ OwnersDoNotApprove /\ TrailIsTrue
<1>1. GovernanceTypeOK
  BY DEF GovInv, GovTypes, GovernanceTypeOK
<1>2. ASSUME NEW i \in DOMAIN entries
      PROVE  (entries[i].hash = Hash(i - 1, entries[i].payload, entries[i].prevHash))
               <=> (Refers(entries[i].payload) => entries[i].hash[4] = owner)
  <2>1. /\ entries[i].hash = <<i - 1, entries[i].payload, entries[i].prevHash, entries[i].hash[4]>>
        /\ ~Refers(entries[i].payload) => entries[i].hash[4] = "none"
    BY DEF GovInv, GovEntries
  <2>2. Hash(i - 1, entries[i].payload, entries[i].prevHash)
          = <<i - 1, entries[i].payload, entries[i].prevHash,
              IF Refers(entries[i].payload) THEN owner ELSE "none">>
    BY DEF Hash
  <2> QED BY <2>1, <2>2
<1>3. VerifyChain <=> \A i \in DOMAIN entries :
                        Refers(entries[i].payload) => entries[i].hash[4] = owner
  BY <1>2 DEF VerifyChain, GovInv, GovEntries
<1> QED BY <1>1, <1>3 DEF GovInv, GovTypes, GovMirror, TrailIsTrue

----------------------------------------------------------------------------
(* The host. *)

HostInv == scene \in Scenes /\ AarInv /\ BoxInv /\ GateInv /\ GovInv /\ FeedInv

LEMMA HostStart == Init => HostInv
<1> SUFFICES ASSUME Init PROVE HostInv
  OBVIOUS
<1>1. /\ scene \in Scenes
      /\ AarInit /\ SandboxInit /\ GatewayInit /\ GovernanceInit /\ FeedInit
  BY DEF Init
<1>2. AarInv /\ BoxInv
  BY <1>1, AarStart, BoxStart, AarAssumption
<1>3. GateInv /\ GovInv /\ FeedInv
  BY <1>1, GateStart, GovStart, FeedStart, GatewayAssumption, GovernanceAssumption
<1> QED BY <1>1, <1>2, <1>3 DEF HostInv

LEMMA HostKeeps == HostInv /\ [Next]_vars => HostInv'
<1> SUFFICES ASSUME HostInv, [Next]_vars PROVE HostInv'
  OBVIOUS
<1> USE DEF HostInv
<1>1. CASE AarScene
  <2>1. AarInv'
    BY <1>1, AarKeeps, AarAssumption DEF AarScene
  <2> QED BY <1>1, <2>1, BoxUnchanged, GateUnchanged, GovUnchanged, FeedUnchanged DEF AarScene
<1>2. CASE SandboxScene
  <2>1. BoxInv'
    BY <1>2, BoxKeeps DEF SandboxScene
  <2> QED BY <1>2, <2>1, AarUnchanged, GateUnchanged, GovUnchanged, FeedUnchanged DEF SandboxScene
<1>3. CASE GatewayScene
  <2>1. GateInv'
    BY <1>3, GateKeeps, GatewayAssumption DEF GatewayScene
  <2> QED BY <1>3, <2>1, AarUnchanged, BoxUnchanged, GovUnchanged, FeedUnchanged DEF GatewayScene
<1>4. CASE GovernanceScene
  <2>1. GovInv'
    BY <1>4, GovKeeps, GovernanceAssumption DEF GovernanceScene
  <2> QED BY <1>4, <2>1, AarUnchanged, BoxUnchanged, GateUnchanged, FeedUnchanged DEF GovernanceScene
<1>5. CASE FeedScene
  <2>1. FeedInv'
    BY <1>5, FeedKeeps DEF FeedScene
  <2> QED BY <1>5, <2>1, AarUnchanged, BoxUnchanged, GateUnchanged, GovUnchanged DEF FeedScene
<1>6. CASE UNCHANGED vars
  BY <1>6, AarUnchanged, BoxUnchanged, GateUnchanged, GovUnchanged, FeedUnchanged DEF vars
<1> QED BY <1>1, <1>2, <1>3, <1>4, <1>5, <1>6 DEF Next

\* The invariant of the host holds, whoever plays.
THEOREM Inductive == Spec => []HostInv
BY HostStart, HostKeeps, PTL DEF Spec

\* Every variable of the five plugins keeps its type.
THEOREM TypeOKHolds == Spec => []TypeOK
<1>1. HostInv => TypeOK
  BY AarTyped, BoxTyped, GateTyped, GovTyped, FeedTyped, AarAssumption, GatewayAssumption
     DEF HostInv, TypeOK
<1> QED BY <1>1, Inductive, PTL

\* Decisions are scored, given up or still buffered, unless one came while the
\* sidecar was at work.
THEOREM SerialScoringLosesNothingHolds == Spec => []SerialScoringLosesNothing
<1>1. HostInv => SerialScoringLosesNothing
  BY AarTyped, AarAssumption DEF HostInv
<1> QED BY <1>1, Inductive, PTL

\* The reports of a run are in the order of its phases, a failure last.
THEOREM ReportingIsBestEffortHolds == Spec => []ReportingIsBestEffort
<1>1. HostInv => ReportingIsBestEffort
  BY BoxTyped DEF HostInv
<1> QED BY <1>1, Inductive, PTL

\* Requests that do not overlap leave process.env as they found it.
THEOREM SerialRequestsLeaveNoTraceHolds == Spec => []SerialRequestsLeaveNoTrace
<1>1. HostInv => SerialRequestsLeaveNoTrace
  BY GateTyped, GatewayAssumption DEF HostInv
<1> QED BY <1>1, Inductive, PTL

\* Every answered request has one row, and every row one insert.
THEOREM EveryRequestIsAccountedForHolds == Spec => []EveryRequestIsAccountedFor
<1>1. HostInv => EveryRequestIsAccountedFor
  BY GateTyped, GatewayAssumption DEF HostInv
<1> QED BY <1>1, Inductive, PTL

\* No owner approves what it owns, but for administrators and auditors.
THEOREM OwnersDoNotApproveHolds == Spec => []OwnersDoNotApprove
<1>1. HostInv => OwnersDoNotApprove
  BY GovTyped DEF HostInv
<1> QED BY <1>1, Inductive, PTL

\* The audit log verifies exactly as long as what its entries refer to is unchanged.
THEOREM TrailIsTrueHolds == Spec => []TrailIsTrue
<1>1. HostInv => TrailIsTrue
  BY GovTyped DEF HostInv
<1> QED BY <1>1, Inductive, PTL

\* A handler is told only of what was committed while its connection listened, never
\* twice, and in commit order unless two fetches were under way at once.
THEOREM FeedTellsTheLogHolds == Spec => FeedTellsTheLog
<1> DEFINE IsNew(s) == LET f == Last(told'[s]) IN
                       /\ s \in wants \/ service = "disposed"
                       /\ f.conn \in log[f.seq]
                       /\ f \notin Range(told[s])
                       /\ ~crossed => \A g \in Range(told[s]) : g.conn = f.conn => g.seq < f.seq
           Tells == \A s \in Handlers : told'[s] # told[s] => IsNew(s)
<1>1. HostInv /\ [Next]_vars => [Tells]_feedVars
  <2> SUFFICES ASSUME HostInv, Next, NEW s \in Handlers, told'[s] # told[s] PROVE IsNew(s)
    BY DEF vars, feedVars
  <2>1. FeedStep
    BY DEF Next, AarScene, SandboxScene, GatewayScene, GovernanceScene, FeedScene, feedVars
  <2>2. PICK f \in fetches, found \in BOOLEAN : Answered(f, found)
    BY <2>1 DEF FeedStep, Initialize, Dispose, ConnectionLost, Notified, Commit, Subscribe,
                Unsubscribe, StreamOpen, Poll, StreamNext, StreamReturn, Keep
  <2> QED BY <2>2, TellingIsNew DEF HostInv
<1> QED BY <1>1, Inductive, PTL DEF Spec, FeedTellsTheLog
=============================================================================
