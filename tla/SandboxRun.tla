----------------------------- MODULE SandboxRun -----------------------------
(***************************************************************************)
(* One run of the decorated ctx.sandbox.run: nine phases measured in order *)
(* by a RunPhaseRecorder of its own, which reports each through            *)
(* ctx.audit.emit.  Times and redaction are left out: the redacted result  *)
(* is dropped, and the agent's own result returned.                        *)
(***************************************************************************)
EXTENDS Integers, SequencesExt

VARIABLES
  emitter,  \* what ctx.audit.emit is: it returns a promise, returns nothing, or is
            \* missing, as in the audit service dsh-audit-log provides
  run,      \* the phase measured, whether it is the recorder's active one, the stage
  reported, \* run/event events that were delivered: phase and status
  broke,    \* history: the operation of a phase threw
  worked    \* history: the agent's operation was done

sandboxVars == <<emitter, run, reported, broke, worked>>

RUN_PHASE_NAMES ==
  <<"bootstrap", "workspace", "runner_runtime", "package_install", "provision", "agent",
    "result_capture", "acceptance", "delivery">>

SandboxInit ==
  /\ emitter \in {"promise", "void", "missing"}
  /\ run = [phase |-> 1, active |-> FALSE, stage |-> "between"]
  /\ reported = <<>> /\ broke = FALSE /\ worked = FALSE

Phase == RUN_PHASE_NAMES[run.phase]

\* measure: start, and the operation is under way.
Start ==
  /\ run.stage = "between" /\ ~run.active /\ run.phase <= Len(RUN_PHASE_NAMES)
  /\ run' = [run EXCEPT !.active = TRUE, !.stage = "operating"]
  /\ UNCHANGED <<emitter, reported, broke, worked>>

\* Delivered or not, a promise settles later; without one `.catch` throws at once,
\* an event that was emitted has been delivered all the same.
Emit(status) ==
  \/ /\ emitter # "missing"
     /\ reported' = Append(reported, [phase |-> Phase, status |-> status])
  \/ emitter # "void" /\ UNCHANGED reported

\* finish: the recorder lets go of the phase before it emits, so that when the
\* emission throws, fail has nothing to report and the error goes to the caller.
Finish ==
  /\ Emit("succeeded")
  /\ run' = [run EXCEPT !.active = FALSE,
                        !.stage = IF emitter = "promise" THEN "finishing" ELSE "failing"]

OperationDone ==
  /\ run.stage = "operating"
  /\ worked' = (worked \/ Phase = "agent")
  /\ Finish
  /\ UNCHANGED <<emitter, broke>>

\* Only the agent may throw, and the redaction of a cyclic result.
OperationThrows ==
  /\ run.stage = "operating" /\ Phase \in {"agent", "result_capture"}
  /\ broke' = TRUE
  /\ run' = [run EXCEPT !.stage = "failing"]
  /\ UNCHANGED <<emitter, reported, worked>>

\* Mutant: a rejected emission is not caught.
RejectionEscapes ==
  /\ run.stage = "finishing"
  /\ \E stage \in {"between", "failing"} :
       run' = [run EXCEPT !.stage = stage, !.phase = IF stage = "between" THEN @ + 1 ELSE @]
  /\ UNCHANGED <<emitter, reported, broke, worked>>

\* The emission settles, resolved or rejected, and the next phase is measured.
Settle ==
  /\ run.stage = "finishing"
  /\ run' = [run EXCEPT !.stage = "between", !.phase = @ + 1]
  /\ UNCHANGED <<emitter, reported, broke, worked>>

\* fail: the event of an active phase; whatever it throws is swallowed.
Fail ==
  /\ run.stage = "failing"
  /\ IF run.active THEN Emit("failed") ELSE UNCHANGED reported
  /\ run' = [run EXCEPT !.active = FALSE,
                        !.stage = IF run.active /\ emitter = "promise" THEN "rejecting" ELSE "rejected"]
  /\ UNCHANGED <<emitter, broke, worked>>

Reject ==
  /\ run.stage = "rejecting"
  /\ run' = [run EXCEPT !.stage = "rejected"]
  /\ UNCHANGED <<emitter, reported, broke, worked>>

Return ==
  /\ run.stage = "between" /\ run.phase > Len(RUN_PHASE_NAMES)
  /\ run' = [run EXCEPT !.stage = "resolved"]
  /\ UNCHANGED <<emitter, reported, broke, worked>>

SandboxStep ==
  Start \/ OperationDone \/ OperationThrows \/ Settle \/ Fail \/ Reject \/ Return

----------------------------------------------------------------------------
SandboxTypeOK ==
  /\ emitter \in {"promise", "void", "missing"}
  /\ run.phase \in 1..(Len(RUN_PHASE_NAMES) + 1) /\ run.active \in BOOLEAN
  /\ run.stage \in {"between", "operating", "finishing", "failing", "rejecting", "rejected",
                    "resolved"}
  /\ reported \in Seq([phase : Range(RUN_PHASE_NAMES), status : {"succeeded", "failed"}])

Rejected == run.stage \in {"rejecting", "rejected"}
Failed(i) == reported[i].status = "failed"

\* Where emissions are promises, reporting is best effort: no lost event decides
\* what becomes of a run, which fails exactly when an operation of it did.  Where
\* they are not, no run gets past its first phase, and no agent ever works.  And
\* what was reported is in order: no phase twice, a failure last and true.
ReportingIsBestEffort ==
  /\ emitter = "promise" => (Rejected => broke) /\ (run.stage = "resolved" => worked /\ ~broke)
  /\ emitter # "promise" => ~worked /\ run.stage # "resolved" /\ Len(reported) <= 1
  /\ \A i \in DOMAIN reported :
       /\ Failed(i) => i = Len(reported) /\ broke /\ run.stage # "resolved"
       /\ \A j \in DOMAIN reported : i < j =>
            \E m, n \in DOMAIN RUN_PHASE_NAMES :
              /\ m < n /\ RUN_PHASE_NAMES[m] = reported[i].phase
              /\ RUN_PHASE_NAMES[n] = reported[j].phase
=============================================================================
