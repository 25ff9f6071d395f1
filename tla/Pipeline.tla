------------------------------ MODULE Pipeline ------------------------------
(***************************************************************************)
(* The execution core of the control centre: the controller and its phase  *)
(* machine, the executor's units of work, the batch and continuous runners *)
(* that sequence them on a worker thread, the operator's buttons on the UI *)
(* thread, and the SQLite rows that survive a crash.                       *)
(*                                                                         *)
(* Grain of atomicity: one step is the code between two persisted          *)
(* boundaries of a unit of work (claim, gate, prompt, each transaction of  *)
(* a multi-transaction commit).  The worker and the UI interleave, and the *)
(* process may die, between any two steps.                                 *)
(***************************************************************************)
EXTENDS Naturals, FiniteSets, Sequences, PhaseGraph

CONSTANTS
  TasksPerBatch,   \* tasks of a planned batch (the code allows 1..5)
  MaxAuditRounds,  \* MAX_AUDIT_ROUNDS, 3 in the code
  MaxBatches,      \* bound: batches ever created
  MaxCrashes       \* bound: times the process dies

ASSUME PipelineAssumption ==
  /\ TasksPerBatch \in Nat \ {0}
  /\ MaxAuditRounds \in Nat \ {0}
  /\ MaxBatches \in Nat \ {0}
  /\ MaxCrashes \in Nat

Tasks   == 1..TasksPerBatch
Batches == 1..MaxBatches          \* batch ids in creation order
NoBatch == 0

TaskStates == {"PENDING", "RUNNING", "AUDITING", "FIX_REQUIRED", "RUNNING_FIX",
               "APPROVED", "FAILED", "BLOCKED"}
BatchStatuses == {"CREATED", "PLANNING", "RUNNING", "PAUSED", "READY_FOR_FINAL_AUDIT",
                  "COMPLETE", "BLOCKED", "FAILED", "STOPPED"}
EndedStatuses == {"COMPLETE", "FAILED", "STOPPED"}
Verdicts == {"none", "PASS", "NEEDS_FIX", "BLOCKED"}

VARIABLES
  phase,       \* StateMachine._phase, mirrored in PipelineState.phase
  resumeTo,    \* StateMachine._resume_phase ("IDLE" stands for None)
  mem,         \* PipelineState.batch: the batch in memory
  disk,        \* disk[b]: the row of batch b, its tasks and its phase column
  final,       \* final[b]: batch_plans.final_verdict
  plans,       \* pending_next_plans in creation order, as source batches
  usedBy,      \* usedBy[b]: batch that consumed the plan of b (NoBatch: open)
  lastId,      \* batches created so far
  stopFlag, pauseFlag,   \* Executor._stop_requested, _pause_requested
  pc,          \* where the worker thread stands
  op,          \* the unit of work it is at
  mode,        \* what the worker was started for
  resuming,    \* the resume argument of run_batch
  ui,          \* what the UI thread has decided and not yet done
  fixes,       \* history: fix prompts sent for each task
  crashes      \* process deaths so far

durable == <<disk, final, plans, usedBy>>
flags   == <<stopFlag, pauseFlag>>
worker  == <<pc, op, mode, resuming>>
vars == <<phase, resumeTo, mem, durable, lastId, flags, worker, ui, fixes, crashes>>

-----------------------------------------------------------------------------
(* Batches and rows *)

EmptyBatch(b) ==
  [id |-> b, status |-> "CREATED", planned |-> FALSE,
   task    |-> [t \in Tasks |-> "PENDING"],
   rounds  |-> [t \in Tasks |-> 0],
   verdict |-> [t \in Tasks |-> "none"]]

Absent == [phase |-> "IDLE", batch |-> EmptyBatch(NoBatch)]

\* save_pipeline_state: the row carries the whole batch and the phase; with no
\* batch in memory nothing of the batch tables is written.
Saved(m, p) ==
  IF m.id = NoBatch THEN disk ELSE [disk EXCEPT ![m.id] = [phase |-> p, batch |-> m]]

\* StateMachine.transition_to, for a legal edge.
ResumeAfter(p, q) ==
  IF q = "PAUSED" THEN p ELSE IF p = "PAUSED" THEN "IDLE" ELSE resumeTo

\* The batch m is in memory, the phase is q, and both are persisted.
Record(m, q) ==
  /\ mem' = m
  /\ phase' = q
  /\ disk' = Saved(m, q)
  /\ UNCHANGED <<final, plans, usedBy>>

Enter(m, q) == Record(m, q) /\ resumeTo' = ResumeAfter(phase, q)

EnterIfLegal_SavesOnlyOverEdge(m, q) ==
  IF CanGoTo(phase, q) THEN Enter(m, q)
  ELSE mem' = m /\ UNCHANGED <<phase, resumeTo, durable>>

\* Enter(m, q) when the graph has the edge, else stay in the phase.
EnterIfLegal(m, q) ==
  IF CanGoTo(phase, q) THEN Enter(m, q) ELSE Record(m, phase) /\ UNCHANGED resumeTo

-----------------------------------------------------------------------------
(* Deciding what to do next *)

Undone(m) == IF m.planned
             THEN {t \in Tasks : m.task[t] \notin {"APPROVED", "BLOCKED", "FAILED"}}
             ELSE {}

Least(S) == CHOOSE t \in S : \A u \in S : t <= u

AllApproved(m) == m.planned /\ \A t \in Tasks : m.task[t] = "APPROVED"

\* What the first undone task needs.
TaskAction(m, t) ==
  IF m.task[t] \in {"PENDING", "RUNNING"} THEN "BUILD"
  ELSE IF m.task[t] \in {"FIX_REQUIRED", "RUNNING_FIX"} THEN "FIX"
  ELSE IF \/ m.rounds[t] >= MaxAuditRounds /\ m.verdict[t] = "none"
          \/ m.rounds[t] > 0 /\ m.verdict[t] = "BLOCKED"
       THEN "BLOCKED" ELSE "AUDIT"

\* The first task, in order, that ended badly decides.
FirstEnded(m) ==
  LET bad == {t \in Tasks : m.task[t] \in {"BLOCKED", "FAILED"}}
  IN  IF bad = {} THEN "none" ELSE m.task[Least(bad)]

\* next_task_action; AUDIT and RE_AUDIT dispatch the same unit of work.
NextAction(m, p) ==
  IF m.id = NoBatch THEN "IDLE"
  ELSE IF ~m.planned
       THEN IF p = "PLANNING_BATCH" \/ m.status = "CREATED" THEN "PLAN" ELSE "IDLE"
  ELSE IF FirstEnded(m) # "none" THEN FirstEnded(m)
  ELSE IF p \in {"BLOCKED", "FAILED"} THEN p
  ELSE IF AllApproved(m) THEN "COMPLETE"
  ELSE TaskAction(m, Least(Undone(m)))

Units == {"PLAN", "BUILD", "AUDIT", "FIX", "FINAL"}

-----------------------------------------------------------------------------
(* The controller's own operations, each persisted as a whole *)

\* request_start, which needs an edge to PLANNING_BATCH.
RequestStart ==
  /\ lastId < MaxBatches
  /\ CanGoTo(phase, "PLANNING_BATCH")
  /\ lastId' = lastId + 1
  /\ Enter(EmptyBatch(lastId + 1), "PLANNING_BATCH")

WithStatus(m, s) == IF m.id = NoBatch THEN m ELSE [m EXCEPT !.status = s]

\* request_stop: IDLE over an edge or by reset; either way nothing to resume.
RequestStop ==
  /\ Record(WithStatus(mem, "STOPPED"), "IDLE")
  /\ resumeTo' = "IDLE"

RequestPause ==
  /\ CanGoTo(phase, "PAUSED")
  /\ Enter(WithStatus(mem, "PAUSED"), "PAUSED")

\* _derive_resume_target: the phase of the unit that comes next (a unit whose
\* phase cannot follow a pause stands for itself, and is refused).
PhaseOf ==
  [PLAN |-> "PLANNING_BATCH", BUILD |-> "RUNNING_TASK", AUDIT |-> "AUDITING_TASK",
   FIX |-> "FIX_REQUIRED", COMPLETE |-> "READY_FOR_FINAL_AUDIT",
   IDLE |-> "IDLE", BLOCKED |-> "BLOCKED", FAILED |-> "FAILED"]

DerivedTarget == PhaseOf[NextAction(mem, phase)]

ResumeTarget == IF resumeTo # "IDLE" THEN resumeTo ELSE DerivedTarget

RequestResume ==
  /\ phase = "PAUSED"
  /\ CanGoTo("PAUSED", ResumeTarget)
  /\ Enter(WithStatus(mem, "RUNNING"), ResumeTarget)

-----------------------------------------------------------------------------
(* Ends of a unit of work *)

\* The worker ends; what it was doing is forgotten.
WorkerEnds == pc' = "none" /\ op' = "PLAN" /\ mode' = "batch" /\ resuming' = FALSE

GoOn(next) == pc' = next /\ UNCHANGED <<op, mode, resuming>>

RunIsReady_Again == IF mode = "continuous" THEN GoOn("head") ELSE WorkerEnds

\* run_batch is over.  The continuous loop goes on only with a batch that is
\* ready for its final audit; any other outcome ends every kind of run, and a
\* unit that is rejected, blocked, failed or stopped ends the run with it.
RunIsReady == IF mode = "continuous" THEN GoOn("loop") ELSE WorkerEnds

\* The unit succeeded: run_batch comes back to the head of its loop.
ToHead == pc' = "head" /\ op' = "PLAN" /\ resuming' = FALSE /\ UNCHANGED mode

WithTask(m, t, s) == [m EXCEPT !.task[t] = s]

\* _fail_hard, from memory m: the LAST task of the batch is marked FAILED.
FailHard(m) ==
  LET failed == IF m.planned
                THEN [WithTask(m, TasksPerBatch, "FAILED") EXCEPT !.status = "FAILED"]
                ELSE m
  IN  /\ IF CanGoTo(phase, "FAILED") THEN Enter(failed, "FAILED")
         ELSE /\ Record(failed, IF phase = "FAILED" THEN "FAILED" ELSE "IDLE")
              /\ resumeTo' = IF phase = "FAILED" THEN resumeTo ELSE "IDLE"
      /\ WorkerEnds

\* A transition the executor insists on: an illegal edge raises, and the unit
\* ends in _fail_hard.
MustEnter(m, q) ==
  IF CanGoTo(phase, q) THEN Enter(m, q) /\ ToHead ELSE FailHard(m)

\* _fail_task and _block_task on the task under work.
Failed(m, t)  == [WithTask(m, t, "FAILED") EXCEPT !.status = "FAILED"]
Blocked(m, t) == [WithTask(m, t, "BLOCKED") EXCEPT !.status = "BLOCKED"]

FailTask(m, t) ==
  IF CanGoTo(phase, "FAILED") THEN Enter(Failed(m, t), "FAILED") /\ WorkerEnds
  ELSE FailHard(Failed(m, t))

BlockTask(m, t) == EnterIfLegal(Blocked(m, t), "BLOCKED") /\ WorkerEnds

-----------------------------------------------------------------------------
(* The worker thread: run_batch between units *)

Ui == UNCHANGED <<ui, crashes>>       \* a step of the worker

\* Entry of run_batch: start a batch when there is none, resume a paused one.
EnterRun ==
  /\ pc = "enter"
  /\ \/ mem.id = NoBatch /\ phase = "IDLE" /\ RequestStart /\ ToHead
     \/ /\ resuming /\ RequestResume /\ ToHead /\ UNCHANGED lastId
     \/ /\ resuming /\ phase = "PAUSED" /\ ~CanGoTo("PAUSED", ResumeTarget)
        /\ WorkerEnds
        /\ UNCHANGED <<phase, resumeTo, mem, durable, lastId>>
     \/ /\ ~(mem.id = NoBatch /\ phase = "IDLE") /\ ~(resuming /\ phase = "PAUSED")
        /\ IF mem.id = NoBatch THEN WorkerEnds ELSE ToHead
        /\ UNCHANGED <<phase, resumeTo, mem, durable, lastId>>
  /\ Ui /\ UNCHANGED <<flags, fixes>>

\* Boundary control first, then the deterministic next action.
StopAtBoundary ==
  /\ pc = "head"
  /\ phase # "PAUSED" /\ mem.status # "STOPPED" /\ stopFlag
  /\ RequestStop
  /\ stopFlag' = FALSE /\ pauseFlag' = FALSE
  /\ WorkerEnds
  /\ Ui /\ UNCHANGED <<lastId, fixes>>

PauseAtBoundary ==
  /\ pc = "head"
  /\ phase # "PAUSED" /\ mem.status # "STOPPED" /\ ~stopFlag /\ pauseFlag
  /\ RequestPause
  /\ stopFlag' = FALSE /\ pauseFlag' = FALSE
  /\ WorkerEnds
  /\ Ui /\ UNCHANGED <<lastId, fixes>>

Dispatch ==
  /\ pc = "head"
  /\ IF phase = "PAUSED" \/ mem.status = "STOPPED" THEN WorkerEnds /\ UNCHANGED flags
     ELSE   LET next == NextAction(mem, phase)
            IN  /\ ~stopFlag
                /\ pauseFlag => ~CanGoTo(phase, "PAUSED")   \* then it is forgotten
                /\ stopFlag' = FALSE /\ pauseFlag' = FALSE
                /\ IF next \in Units
                   THEN /\ pc' = "claim" /\ op' = next
                        /\ UNCHANGED <<mode, resuming>>
                   ELSE IF next = "COMPLETE" THEN RunIsReady ELSE WorkerEnds
  /\ Ui /\ UNCHANGED <<phase, resumeTo, mem, durable, lastId, fixes>>

Claim_ForgetsStop ==
  /\ pc = "claim" /\ GoOn("gate") /\ stopFlag' = FALSE
  /\ Ui /\ UNCHANGED <<phase, resumeTo, mem, durable, lastId, pauseFlag, fixes>>

\* _claim_unit: a stop request is consumed by the refusal, a pause request is
\* kept; the refused unit reports STOPPED, which no runner maps to a stop.
Claim ==
  /\ pc = "claim"
  /\ IF stopFlag \/ pauseFlag
     THEN /\ stopFlag' = FALSE
          /\ WorkerEnds
     ELSE GoOn("gate") /\ UNCHANGED stopFlag
  /\ UNCHANGED pauseFlag
  /\ Ui /\ UNCHANGED <<phase, resumeTo, mem, durable, lastId, fixes>>

\* While a unit holds the claim, Executor.is_running is true.
ClaimedAt == {"gate", "prompt", "approved", "needsFix", "blocked", "planSaved", "auditSaved"}
IsRunning == pc \in ClaimedAt

-----------------------------------------------------------------------------
(* The gate of a unit: phase and task checks, preflight, driver session *)

Cur_Last == CHOOSE t \in Undone(mem) : \A u \in Undone(mem) : u <= t

\* The task under work: the first undone one.
Cur == Least(Undone(mem))

HasWork == Undone(mem) # {}

CapReached_OffByOne == mem.rounds[Cur] > MaxAuditRounds

\* The task has had every audit it may have.
CapReached == mem.rounds[Cur] >= MaxAuditRounds

\* _ensure_work_phase: the phase the unit finds itself in; from IDLE the legal
\* edges are walked to the target, which is persisted.
WorkPhase ==
  IF phase = "IDLE" /\ mem.planned /\ op \in {"AUDIT", "FIX"}
  THEN IF op = "AUDIT" THEN "AUDITING_TASK" ELSE "FIX_REQUIRED"
  ELSE phase

MayPlan  == op = "PLAN" /\ phase \in {"IDLE", "PLANNING_BATCH"} /\ ~mem.planned

MayBuild == /\ op = "BUILD" /\ HasWork
            /\ phase \in {"IDLE", "PLANNING_BATCH", "RUNNING_TASK"}
            /\ mem.task[Cur] \in {"PENDING", "RUNNING"}

MayAudit == /\ op = "AUDIT" /\ HasWork
            /\ WorkPhase = "AUDITING_TASK"
            /\ ~CapReached /\ mem.task[Cur] = "AUDITING"

MayFix   == /\ op = "FIX" /\ HasWork
            /\ WorkPhase = "FIX_REQUIRED"
            /\ mem.task[Cur] = "FIX_REQUIRED" /\ ~CapReached

MayFinal == /\ op = "FINAL"
            /\ phase \in {"READY_FOR_FINAL_AUDIT", "FINAL_AUDIT_RUNNING"}
            /\ AllApproved(mem)

Admitted == MayPlan \/ MayBuild \/ MayAudit \/ MayFix \/ MayFinal

\* An audit beyond the cap blocks the task before its state is looked at, a fix
\* beyond the cap after.
Capped ==
  /\ HasWork /\ CapReached
  /\ \/ op = "AUDIT" /\ WorkPhase = "AUDITING_TASK"
     \/ op = "FIX" /\ WorkPhase = "FIX_REQUIRED" /\ mem.task[Cur] = "FIX_REQUIRED"

\* Refused by phase or task state: nothing changes but the walk of WorkPhase.
GateRefuses ==
  /\ pc = "gate" /\ ~Admitted /\ ~Capped
  /\ Record(mem, WorkPhase) /\ UNCHANGED resumeTo
  /\ WorkerEnds
  /\ Ui /\ UNCHANGED <<lastId, flags, fixes>>

\* From either work phase the edge to BLOCKED is there.
GateBlocks ==
  /\ pc = "gate" /\ Capped
  /\ Record(Blocked(mem, Cur), "BLOCKED") /\ UNCHANGED resumeTo
  /\ WorkerEnds
  /\ Ui /\ UNCHANGED <<lastId, flags, fixes>>

\* A planning call marks the batch PLANNING before its preflight.
Marked == IF op = "PLAN" THEN WithStatus(mem, "PLANNING") ELSE mem

\* Preflight, the driver or the session policy refuses, or a session to be
\* resumed is gone: the unit ends with nothing started.  A lost auditor session
\* fails the task, a builder policy other than always_new blocks it.
PreflightRefuses ==
  /\ pc = "gate" /\ Admitted
  /\ \/ Record(Marked, WorkPhase) /\ UNCHANGED resumeTo
     \/ op = "AUDIT" /\ Record(Failed(mem, Cur), "FAILED") /\ UNCHANGED resumeTo
     \/ op = "BUILD" /\ EnterIfLegal(Blocked(mem, Cur), "BLOCKED")
     \/ op = "FIX" /\ Record(Blocked(mem, Cur), "BLOCKED") /\ UNCHANGED resumeTo
  /\ WorkerEnds
  /\ Ui /\ UNCHANGED <<lastId, flags, fixes>>

-----------------------------------------------------------------------------
(* The unit persists its boundary, then sends the prompt.                   *)

Running(m) == [m EXCEPT !.status = "RUNNING"]

Audited_NotCounted(m) == m

\* An audit round is counted before its prompt.
Audited(m) == [m EXCEPT !.rounds[Cur] = @ + 1]

Sends(m, q) ==
  /\ pc = "gate"
  /\ Record(m, q) /\ UNCHANGED resumeTo
  /\ GoOn("prompt")
  /\ Ui /\ UNCHANGED <<lastId, flags>>

SendPlan  == MayPlan /\ Sends(Marked, phase) /\ UNCHANGED fixes
SendBuild == MayBuild /\ Sends(Running(WithTask(mem, Cur, "RUNNING")), "RUNNING_TASK") /\ UNCHANGED fixes
SendAudit == MayAudit /\ Sends(Audited(mem), WorkPhase) /\ UNCHANGED fixes
SendFinal == MayFinal /\ Sends(mem, "FINAL_AUDIT_RUNNING") /\ UNCHANGED fixes
SendFix   ==
  /\ MayFix /\ Sends(Running(WithTask(mem, Cur, "RUNNING_FIX")), "RUNNING_FIX")
  /\ fixes' = [fixes EXCEPT ![mem.id][Cur] = @ + 1]

-----------------------------------------------------------------------------
(* The prompt comes back.  An answer of the model is one of a few kinds; a  *)
(* process failure or a timeout is "fail"; an exception of the driver is    *)
(* "raise"; a malformed answer and a read-only guard violation are "bad".   *)

Planned_TasksNotStored(m) == m

Planned(m)   == [m EXCEPT !.planned = TRUE]
Judged(m, v) == [m EXCEPT !.verdict[Cur] = v]

Answer == pc = "prompt" /\ Ui /\ UNCHANGED <<lastId, flags, fixes>>

Raises == Answer /\ FailHard(mem)

PlanReturns ==
  /\ Answer /\ op = "PLAN"
  /\ \/ Record(Planned(mem), phase) /\ UNCHANGED resumeTo /\ ToHead
     \/ EnterIfLegal(WithStatus(mem, "FAILED"), "FAILED") /\ WorkerEnds
     \/ EnterIfLegal(WithStatus(mem, "BLOCKED"), "BLOCKED") /\ WorkerEnds

\* Builds and fixes end alike: the task goes to the auditor.
BuilderReturns ==
  /\ Answer /\ op \in {"BUILD", "FIX"}
  /\ \/ MustEnter(WithTask(mem, Cur, "AUDITING"), "AUDITING_TASK")
     \/ FailTask(mem, Cur)

\* A PASS is persisted before the pipeline moves on (pc "approved").
AuditReturns ==
  /\ Answer /\ op = "AUDIT"
  /\ \/ /\ Record(WithTask(Judged(mem, "PASS"), Cur, "APPROVED"), phase)
        /\ UNCHANGED resumeTo /\ GoOn("approved")
     \/ IF CapReached
        THEN BlockTask(Judged(mem, "NEEDS_FIX"), Cur)
        ELSE MustEnter(WithTask(Judged(mem, "NEEDS_FIX"), Cur, "FIX_REQUIRED"),
                       "FIX_REQUIRED")
     \/ BlockTask(Judged(mem, "BLOCKED"), Cur)
     \/ BlockTask(mem, Cur)
     \/ FailTask(mem, Cur)

\* The rest of an approval: on to the next task, or finalize the batch.
AfterApproval ==
  /\ pc = "approved"
  /\ IF Undone(mem) # {} THEN MustEnter(mem, "RUNNING_TASK")
     ELSE MustEnter(WithStatus(mem, "READY_FOR_FINAL_AUDIT"), "READY_FOR_FINAL_AUDIT")
  /\ Ui /\ UNCHANGED <<lastId, flags, fixes>>

\* save_pending_next_plan inserts the plan of the batch once.
WithPlanOf(b) == IF \E i \in 1..Len(plans) : plans[i] = b THEN plans ELSE Append(plans, b)

\* A BLOCKED or NEEDS_FIX verdict blocks the batch; the write happens only with
\* a legal transition, the verdict follows in its own transaction.
FinalReturns ==
  /\ Answer /\ op = "FINAL"
  /\ \/ /\ GoOn("planSaved")
        /\ plans' = WithPlanOf(mem.id)
        /\ UNCHANGED <<phase, resumeTo, mem, disk, final, usedBy>>
     \/ /\ pc' \in {"needsFix", "blocked"} /\ UNCHANGED <<op, mode, resuming>>
        /\ IF CanGoTo(phase, "BLOCKED") THEN Enter(WithStatus(mem, "BLOCKED"), "BLOCKED")
           ELSE /\ mem' = WithStatus(mem, "BLOCKED")
                /\ UNCHANGED <<phase, resumeTo, durable>>
     \/ EnterIfLegal(WithStatus(mem, "BLOCKED"), "BLOCKED") /\ WorkerEnds
     \/ EnterIfLegal(mem, "FAILED") /\ WorkerEnds

\* save_final_audit, then the last persist, of a verdict that is not PASS.
SaveRefusal ==
  /\ pc \in {"needsFix", "blocked"}
  /\ final' = [final EXCEPT ![mem.id] = IF pc = "blocked" THEN "BLOCKED" ELSE "NEEDS_FIX"]
  /\ disk' = Saved(mem, phase)
  /\ WorkerEnds
  /\ Ui /\ UNCHANGED <<phase, resumeTo, mem, plans, usedBy, lastId, flags, fixes>>

SaveVerdict_Lost ==
  /\ pc = "planSaved"
  /\ GoOn("auditSaved")
  /\ Ui /\ UNCHANGED <<phase, resumeTo, mem, durable, lastId, flags, fixes>>

\* The two transactions left of a PASS.
SaveVerdict ==
  /\ pc = "planSaved"
  /\ final' = [final EXCEPT ![mem.id] = "PASS"]
  /\ GoOn("auditSaved")
  /\ Ui /\ UNCHANGED <<phase, resumeTo, mem, disk, plans, usedBy, lastId, flags, fixes>>

CompleteBatch ==
  /\ pc = "auditSaved"
  /\ IF CanGoTo(phase, "BATCH_COMPLETE")
     THEN /\ Enter(WithStatus(mem, "COMPLETE"), "BATCH_COMPLETE")
          /\ IF mode = "continuous" THEN GoOn("passed") ELSE WorkerEnds
     ELSE FailHard(WithStatus(mem, "COMPLETE"))
  /\ Ui /\ UNCHANGED <<lastId, flags, fixes>>

-----------------------------------------------------------------------------
(* ContinuousRunner: from one batch to the next *)

OpenPlans == {i \in 1..Len(plans) : usedBy[plans[i]] = NoBatch}
Newest(S) == CHOOSE i \in S : \A j \in S : j <= i
OpenPlan  == plans[Newest(OpenPlans)]

\* A batch is ready: a pause flag stops here (and stays set), else its final
\* audit comes next.
LoopDecides ==
  /\ pc = "loop"
  /\ IF pauseFlag THEN WorkerEnds
     ELSE pc' = "claim" /\ op' = "FINAL" /\ UNCHANGED <<mode, resuming>>
  /\ Ui /\ UNCHANGED <<phase, resumeTo, mem, durable, lastId, flags, fixes>>

\* After a PASS: a stop flag ends the run (and stays set), else the next batch
\* is handed over, as long as there is a plan.
AfterPass ==
  /\ pc = "passed"
  /\ IF stopFlag \/ OpenPlans = {} THEN WorkerEnds ELSE GoOn("handoff")
  /\ Ui /\ UNCHANGED <<phase, resumeTo, mem, durable, lastId, flags, fixes>>

-----------------------------------------------------------------------------
(* start_next_batch, from the worker or from the START NEXT BATCH button;  *)
(* it claims nothing, so is_running is false all along.                    *)

HandoffEnds ==
  IF mode = "continuous" THEN pc' = "enter" /\ op' = "PLAN" /\ resuming' = TRUE /\ UNCHANGED mode
  ELSE WorkerEnds

\* Leave BATCH_COMPLETE over its edge to IDLE.
LeaveCompleted ==
  /\ pc = "handoff"
  /\ IF phase \notin {"IDLE", "BATCH_COMPLETE"} \/ OpenPlans = {}
     THEN /\ WorkerEnds /\ UNCHANGED <<phase, resumeTo, mem, durable>>
     ELSE /\ GoOn("newBatch")
          /\ IF phase = "BATCH_COMPLETE" THEN Enter(mem, "IDLE")
             ELSE UNCHANGED <<phase, resumeTo, mem, durable>>
  /\ Ui /\ UNCHANGED <<lastId, flags, fixes>>

StartFromPlan_SameBatch ==
  /\ pc = "newBatch"
  /\ IF CanGoTo(phase, "PLANNING_BATCH")
     THEN Enter(mem, "PLANNING_BATCH") /\ GoOn("consume")
     ELSE WorkerEnds /\ UNCHANGED <<phase, resumeTo, mem, durable>>
  /\ Ui /\ UNCHANGED <<lastId, flags, fixes>>

StartFromPlan ==
  /\ pc = "newBatch"
  /\ IF CanGoTo(phase, "PLANNING_BATCH") THEN RequestStart /\ GoOn("consume")
     ELSE WorkerEnds /\ UNCHANGED <<phase, resumeTo, mem, durable, lastId>>
  /\ Ui /\ UNCHANGED <<flags, fixes>>

\* The tasks are in memory when the plan is marked consumed ...
ConsumePlan ==
  /\ pc = "consume"
  /\ mem' = Planned(mem)
  /\ usedBy' = [usedBy EXCEPT ![OpenPlan] = mem.id]
  /\ GoOn("saveTasks")
  /\ Ui /\ UNCHANGED <<phase, resumeTo, disk, final, plans, lastId, flags, fixes>>

\* ... and are persisted after it.
SaveTasks ==
  /\ pc = "saveTasks"
  /\ Record(mem, phase) /\ UNCHANGED resumeTo
  /\ HandoffEnds
  /\ Ui /\ UNCHANGED <<lastId, flags, fixes>>

-----------------------------------------------------------------------------
(* The operator, on the UI thread *)

NoWorker == pc = "none"

\* The UI thread is not inside a handler, and not busy with a handoff.
UiFree == ui = "idle" /\ (NoWorker \/ mode # "handoff")

StartWorker(at, m, r) ==
  /\ UiFree /\ NoWorker
  /\ pc' = at /\ mode' = m /\ resuming' = r
  /\ UNCHANGED <<phase, resumeTo, mem, durable, lastId, flags, ui, fixes, crashes>>

\* START, with or without CONTINUOUS ticked.
ClickStart ==
  /\ mem.id # NoBatch \/ lastId < MaxBatches
  /\ \E m \in {"batch", "continuous"} : StartWorker("enter", m, FALSE)
  /\ UNCHANGED op

\* CONTINUE, shown while work is in progress.
ClickContinue ==
  /\ mem.id # NoBatch /\ phase \notin {"IDLE", "BATCH_COMPLETE", "FAILED", "BLOCKED"}
  /\ \E m \in {"batch", "continuous"} : StartWorker("enter", m, TRUE)
  /\ UNCHANGED op

ClickFinalAudit ==
  /\ phase = "READY_FOR_FINAL_AUDIT"
  /\ StartWorker("claim", "final", FALSE) /\ op' = "FINAL"

ClickNextBatch ==
  /\ phase \in {"IDLE", "BATCH_COMPLETE"} /\ OpenPlans # {} /\ lastId < MaxBatches
  /\ StartWorker("handoff", "handoff", FALSE)
  /\ UNCHANGED op

\* STOP and PAUSE read is_running first and act on it afterwards: a flag for
\* the executor if it was running, else the controller's own operation.
ClickStop ==
  /\ UiFree
  /\ ui' = IF IsRunning THEN "flagStop" ELSE "stop"
  /\ UNCHANGED <<phase, resumeTo, mem, durable, lastId, flags, worker, fixes, crashes>>

ClickPause ==
  /\ UiFree
  /\ ui' = IF IsRunning THEN "flagPause" ELSE "pause"
  /\ UNCHANGED <<phase, resumeTo, mem, durable, lastId, flags, worker, fixes, crashes>>

UiActs ==
  /\ ui' = "idle"
  /\ \/ /\ ui \in {"flagStop", "flagPause"}
        /\ stopFlag' = (stopFlag \/ ui = "flagStop")
        /\ pauseFlag' = (pauseFlag \/ ui = "flagPause")
        /\ UNCHANGED <<phase, resumeTo, mem, durable>>
     \/ ui = "stop" /\ RequestStop /\ UNCHANGED flags
     \/ ui = "pause" /\ RequestPause /\ UNCHANGED flags
     \/ ui = "pause" /\ ~CanGoTo(phase, "PAUSED")
        /\ UNCHANGED <<phase, resumeTo, mem, durable, flags>>
  /\ UNCHANGED <<lastId, worker, fixes, crashes>>

\* Start and Resume of the batch panel: they move state only, and look at the
\* phase, not at the worker.  Left out is a Start under the worker's hands, where
\* it goes on with the batch that is no longer in memory.
HoldsBatch == IsRunning \/ pc \in {"consume", "saveTasks"}

ClickNewBatch ==
  /\ UiFree /\ ~HoldsBatch /\ RequestStart
  /\ UNCHANGED <<flags, worker, ui, fixes, crashes>>

\* A resume that is refused clears the flags all the same.
ClickResume ==
  /\ UiFree /\ phase = "PAUSED"
  /\ \/ RequestResume
     \/ ~CanGoTo("PAUSED", ResumeTarget) /\ UNCHANGED <<phase, resumeTo, mem, durable>>
  /\ stopFlag' = FALSE /\ pauseFlag' = FALSE
  /\ UNCHANGED <<lastId, worker, ui, fixes, crashes>>

-----------------------------------------------------------------------------
(* The process dies and is started again: only the rows survive. *)

Restorable == {b \in 1..lastId : disk[b].batch.status \notin EndedStatuses}

\* load_active_batch and restore_state.
Restored == IF Restorable = {} THEN Absent ELSE disk[Newest(Restorable)]

Crash ==
  /\ crashes < MaxCrashes /\ crashes' = crashes + 1
  /\ phase' = Restored.phase /\ mem' = Restored.batch
  /\ resumeTo' = "IDLE" /\ stopFlag' = FALSE /\ pauseFlag' = FALSE
  /\ pc' = "none" /\ op' = "PLAN" /\ mode' = "batch" /\ resuming' = FALSE
  /\ ui' = "idle"
  /\ UNCHANGED <<durable, lastId, fixes>>

-----------------------------------------------------------------------------
Init ==
  /\ phase = "IDLE" /\ resumeTo = "IDLE"
  /\ mem = EmptyBatch(NoBatch)
  /\ disk = [b \in Batches |-> Absent]
  /\ final = [b \in Batches |-> "none"]
  /\ plans = <<>> /\ usedBy = [b \in Batches |-> NoBatch]
  /\ lastId = 0
  /\ stopFlag = FALSE /\ pauseFlag = FALSE
  /\ pc = "none" /\ op = "PLAN" /\ mode = "batch" /\ resuming = FALSE
  /\ ui = "idle"
  /\ fixes = [b \in Batches |-> [t \in Tasks |-> 0]]
  /\ crashes = 0

BetweenUnits == EnterRun \/ StopAtBoundary \/ PauseAtBoundary \/ Dispatch \/ Claim
Gate         == GateRefuses \/ GateBlocks \/ PreflightRefuses
Prompts      == SendPlan \/ SendBuild \/ SendAudit \/ SendFix \/ SendFinal
Returns      == Raises \/ PlanReturns \/ BuilderReturns \/ AuditReturns \/ FinalReturns
Commits      == AfterApproval \/ SaveRefusal \/ SaveVerdict \/ CompleteBatch
Continuous   == LoopDecides \/ AfterPass
Handoff      == LeaveCompleted \/ StartFromPlan \/ ConsumePlan \/ SaveTasks
WorkerStep   == BetweenUnits \/ Gate \/ Prompts \/ Returns \/ Commits \/ Continuous \/ Handoff

Operator == \/ ClickStart \/ ClickContinue \/ ClickFinalAudit \/ ClickNextBatch
            \/ ClickStop \/ ClickPause \/ ClickNewBatch \/ ClickResume

Next == WorkerStep \/ Operator \/ UiActs \/ Crash

Spec == Init /\ [][Next]_vars

\* The worker runs whenever it can and every prompt comes back (a timeout kills
\* the process); a UI handler returns.  Operator and crashes are not fair.
FairSpec == Spec /\ WF_vars(WorkerStep) /\ WF_vars(UiActs)

-----------------------------------------------------------------------------
BatchType ==
  [id : 0..MaxBatches, status : BatchStatuses, planned : BOOLEAN,
   task : [Tasks -> TaskStates], rounds : [Tasks -> 0..MaxAuditRounds],
   verdict : [Tasks -> Verdicts]]

\* Every variable has its type; the audit rounds of a task stay within the cap.
TypeOK ==
  /\ phase \in Phases /\ resumeTo \in ActivePhases \union {"IDLE", "BLOCKED"}
  /\ mem \in BatchType
  /\ disk \in [Batches -> [phase : Phases, batch : BatchType]]
  /\ final \in [Batches -> Verdicts]
  /\ plans \in Seq(Batches) /\ usedBy \in [Batches -> 0..MaxBatches]
  /\ lastId \in 0..MaxBatches
  /\ stopFlag \in BOOLEAN /\ pauseFlag \in BOOLEAN
  /\ pc \in ClaimedAt \union {"none", "enter", "head", "claim", "loop", "passed",
                              "handoff", "newBatch", "consume", "saveTasks"}
  /\ op \in Units
  /\ mode \in {"batch", "continuous", "final", "handoff"}
  /\ resuming \in BOOLEAN
  /\ ui \in {"idle", "stop", "pause", "flagStop", "flagPause"}
  /\ fixes \in [Batches -> [Tasks -> Nat]]
  /\ crashes \in 0..MaxCrashes

-----------------------------------------------------------------------------
(* Properties *)

Rows == {disk[b].batch : b \in Batches}

\* Tasks are worked on strictly in order: none is taken up before every task
\* in front of it is approved.  (FAILED is excepted: _fail_hard gives it to the
\* last task of the batch, whichever task was under work.)
InOrder(m) ==
  \A t \in Tasks : \A u \in 1..(t - 1) :
    m.task[t] \notin {"PENDING", "FAILED"} => m.task[u] = "APPROVED"

TasksInOrder == InOrder(mem) /\ \A m \in Rows : InOrder(m)

\* No task gets a fix beyond the audits it had: with a cap of three audits
\* there is never a third fix, however the process crashes and is resumed.
FixBudget == \A b \in Batches, t \in Tasks : fixes[b][t] < MaxAuditRounds

\* Away from the commits that take several transactions, the row of the batch
\* in memory is exactly what memory holds: a crash loses nothing but the step.
RowIsCurrent ==
  (mem.id # NoBatch /\ pc \notin {"needsFix", "blocked", "saveTasks"})
    => disk[mem.id] = [phase |-> phase, batch |-> mem]

\* A batch is COMPLETE in the database only when every task of it was approved,
\* its final audit is recorded as a PASS and the plan of the next batch is kept.
CompleteOnlyIfAudited ==
  \A b \in Batches : disk[b].batch.status = "COMPLETE" =>
    /\ AllApproved(disk[b].batch)
    /\ final[b] = "PASS"
    /\ b \in {plans[i] : i \in 1..Len(plans)}

\* A persisted plan becomes at most one batch, a later one than its source, and
\* no batch is made from two plans.
PlanUsedOnce ==
  \A b \in Batches : usedBy[b] # NoBatch =>
    /\ b < usedBy[b]
    /\ \A c \in Batches \ {b} : usedBy[c] # usedBy[b]

\* What the documents and tests say and the code does not do: TLC refutes
\* each of the next four.

\* A fix that a crash interrupted is run again.
FixIsRerun ==
  pc = "gate" /\ op = "FIX" /\ mem.task[Cur] = "RUNNING_FIX" => Admitted

\* A stop that was in force before the dispatch prevents the process entirely.
NoPromptAfterStop ==
  [][pc = "gate" /\ pc' = "prompt" => mem.status # "STOPPED"]_vars

\* Whatever happens, a plan marked consumed has its tasks in the database.
HandoffKeepsPlan ==
  pc # "saveTasks" =>
    \A b \in Batches : usedBy[b] # NoBatch => disk[usedBy[b]].batch.planned

\* Only the plan of a batch whose recorded final audit is a PASS is consumed.
PlanFromPassed == \A b \in Batches : usedBy[b] # NoBatch => final[b] = "PASS"

\* No run stays with a batch for ever: it ends, or it hands over to the next
\* batch, whatever the agents answer and the operator presses.  (A continuous run
\* as such need not end: it goes on for as long as its batches PASS.)
BatchEnds == pc # "none" ~> pc \in {"none", "newBatch"}

\* A stop flag raised while a run is on ends it before one more batch begins; it
\* is lowered only as the run ends, or by a RESUME of the paused pipeline.
StopEndsTheRun ==
  /\ [][stopFlag /\ ~stopFlag' => pc' = "none" \/ phase = "PAUSED"]_vars
  /\ stopFlag /\ pc # "none" ~> pc \in {"none", "newBatch"} \/ ~stopFlag
=============================================================================
