------------------------------ MODULE Sessions ------------------------------
(***************************************************************************)
(* Which engine session each prompt of the pipeline runs in: the policies  *)
(* of core/session_manager.py, the operator's bindings, the one-shot coder *)
(* recovery, the ids kept in the rows, and restarts, over several batches. *)
(* A session is a number.  1..MaxThreads are the sessions the application  *)
(* opens, in the order of their prompts; Foreign are sessions of the       *)
(* engine the operator may bind to a role.                                 *)
(***************************************************************************)
EXTENDS Naturals, FiniteSets

CONSTANTS NTasks, MaxFixes, MaxBatches, MaxThreads, MaxRestarts, MaxChanges, MaxSilent, Foreign

NoSession == 0
Own == 1..MaxThreads

ASSUME SessionsAssumption ==
  /\ {NTasks, MaxFixes, MaxBatches, MaxThreads, MaxRestarts, MaxChanges, MaxSilent} \subseteq Nat
  /\ NTasks # 0                        \* a plan without a task is refused
  /\ Foreign \subseteq Nat \ (Own \cup {NoSession})

Ids == Own \cup Foreign \cup {NoSession}
Batches == 1..MaxBatches
Tasks == 1..NTasks
Roles == {"ORCHESTRATOR", "BUILDER", "TASK_AUDITOR", "FINAL_AUDITOR"}
Bindable == Roles \ {"BUILDER"}       \* the roles with a session selector

VARIABLES
  config,   \* what is configured: sessions supported, builder policy, same_as_orchestrator
  binding,  \* binding[r]: the external session bound to r in its durable configuration
  mem,      \* SessionManager and the executor's override: lost on a restart
  batch,    \* the rows of the current batch
  phase,    \* where the batch stands: IDLE (none, or over), PLAN, WORK, READY
  pending,  \* a passed final audit left a plan for the next batch
  call,     \* the prompt that is running
  opened,   \* sessions opened so far
  seen,     \* history for the properties
  budget    \* restarts, changes by the operator, prompts without a session id

vars == <<config, binding, mem, batch, phase, pending, call, opened, seen, budget>>

NoCall == [role |-> "none", task |-> 0, thread |-> NoSession, reuse |-> FALSE]

EmptyTask == [state |-> "PENDING", auditor |-> NoSession]

\* A new process: no session is known, the generation is 0, nothing is armed.
FreshManager ==
  [gen |-> 0, live |-> [r \in Roles |-> NoSession], stamp |-> [r \in Roles |-> 0],
   recovery |-> NoSession]

-----------------------------------------------------------------------------
(* SessionManager *)

Policy(role) ==
  CASE role = "ORCHESTRATOR"  -> "persistent_optional"
    [] role = "BUILDER"       -> config.builder
    [] role = "TASK_AUDITOR"  -> "persistent_per_batch"
    [] role = "FINAL_AUDITOR" -> "configurable"

OfThisBatch_Any(m, role) == m.live[role] # NoSession

OfThisBatch(m, role) == m.live[role] # NoSession /\ m.stamp[role] = m.gen

\* decide_session_action, for an engine that keeps sessions or does not.
Decide(m, role) ==
  LET reuse == CASE Policy(role) = "always_new"           -> FALSE
                 [] Policy(role) = "persistent_per_batch" -> OfThisBatch(m, role)
                 [] OTHER                                 -> m.live[role] # NoSession
  IN  IF config.stateful /\ reuse THEN m.live[role] ELSE NoSession

NewGeneration(m) == [m EXCEPT !.gen = @ + 1]

Register(m, role, id) ==
  IF id = NoSession THEN m
  ELSE [m EXCEPT !.live[role] = id, !.stamp[role] = m.gen]

Restore_Advances(m, role, id) ==
  [m EXCEPT !.gen = @ + 1, !.live[role] = id, !.stamp[role] = m.gen + 1]

\* restore_session without a generation: at least 1, and the session is
\* stamped with the generation of the manager.
Restore(m, role, id) ==
  LET g == IF m.gen < 1 THEN 1 ELSE m.gen
  IN  [m EXCEPT !.gen = g, !.live[role] = id, !.stamp[role] = g]

\* The binding of a role, as long as its engine is the one it was made for
\* (an engine or profile change clears it, which is one more Bind to none).
Bound(role) == binding[role]

\* _seed_binding_session: only a role without a session takes its binding.
Seed(m, role) ==
  IF Bound(role) # NoSession /\ m.live[role] = NoSession
  THEN Restore(m, role, Bound(role)) ELSE m

Audited(b) == {t \in Tasks : b.tasks[t].auditor # NoSession}

RestoreAuditor_OwnOnly(m, t) ==
  IF m.live["TASK_AUDITOR"] # NoSession \/ t \notin Audited(batch) THEN m
  ELSE Restore(m, "TASK_AUDITOR", batch.tasks[t].auditor)

\* _restore_auditor_session: the task's own auditor, else that of the last
\* audited task of the batch.
RestoreAuditor(m, t) ==
  IF m.live["TASK_AUDITOR"] # NoSession \/ Audited(batch) = {} THEN m
  ELSE LET from == IF t \in Audited(batch) THEN t
                   ELSE CHOOSE u \in Audited(batch) : \A v \in Audited(batch) : v <= u
       IN  Restore(m, "TASK_AUDITOR", batch.tasks[from].auditor)

Architect_LiveOnly(m) == m.live["ORCHESTRATOR"]

\* _architect_session_id: live, else bound, else the planning session of the row.
Architect(m) ==
  IF m.live["ORCHESTRATOR"] # NoSession THEN m.live["ORCHESTRATOR"]
  ELSE IF Bound("ORCHESTRATOR") # NoSession THEN Bound("ORCHESTRATOR")
  ELSE batch.planner

-----------------------------------------------------------------------------
(* A prompt is dispatched *)

Idle == call = NoCall

\* History: the sessions of builders, and that of the final audit of a batch
\* whose orchestrator was never bound.
Used(role, id) == IF role = "BUILDER" THEN [seen.uses EXCEPT ![id] = @ + 1] ELSE seen.uses

Finals(role, id) ==
  IF role = "FINAL_AUDITOR" /\ "ORCHESTRATOR" \notin seen.bound
  THEN [seen.finals EXCEPT ![batch.no] = id] ELSE seen.finals

\* The prompt runs in session id, or in one the engine opens for it.
Dispatch(role, t, id) ==
  /\ id = NoSession => opened < MaxThreads
  /\ opened' = IF id = NoSession THEN opened + 1 ELSE opened
  /\ call' = [role |-> role, task |-> t, reuse |-> id # NoSession,
              thread |-> IF id = NoSession THEN opened + 1 ELSE id]
  /\ seen' = [seen EXCEPT !.uses = Used(role, call'.thread), !.finals = Finals(role, call'.thread),
                          !.wantNew = @ \ {role}]

\* The engine refuses to resume: the report says so and nothing is sent.
ResumeRefused == UNCHANGED <<batch, phase, call, opened, seen>>

\* _plan
BeginPlan ==
  /\ phase = "PLAN" /\ Idle
  /\ mem' = Seed(mem, "ORCHESTRATOR")
  /\ LET id == Decide(mem', "ORCHESTRATOR")
     IN  \/ Dispatch("ORCHESTRATOR", 0, id) /\ UNCHANGED <<batch, phase>>
         \/ id # NoSession /\ ResumeRefused
  /\ UNCHANGED <<config, binding, pending, budget>>

\* The first task that is not approved.
Cur == CHOOSE t \in Tasks : /\ batch.tasks[t].state # "APPROVED"
                            /\ \A u \in 1..(t - 1) : batch.tasks[u].state = "APPROVED"

At(states) == phase = "WORK" /\ Idle /\ batch.tasks[Cur].state \in states

WithTask(s) == [batch EXCEPT !.tasks[Cur].state = s]

Over(s) == batch' = WithTask(s) /\ phase' = "IDLE"

Consumed_Kept(m) == m

Consumed(m) == [m EXCEPT !.recovery = NoSession]

\* _build: the override is consumed before the policy decides.
BeginBuild ==
  /\ At({"PENDING", "RUNNING"})
  /\ mem' = Consumed(mem)
  /\ \/ /\ mem.recovery # NoSession
        /\ \/ Dispatch("BUILDER", Cur, mem.recovery) /\ batch' = WithTask("RUNNING")
              /\ UNCHANGED phase
           \/ ResumeRefused
     \/ /\ mem.recovery = NoSession /\ Decide(mem, "BUILDER") = NoSession
        /\ Dispatch("BUILDER", Cur, NoSession)
        /\ batch' = WithTask("RUNNING") /\ UNCHANGED phase
     \/ /\ mem.recovery = NoSession /\ Decide(mem, "BUILDER") # NoSession
        /\ Over("BLOCKED") /\ UNCHANGED <<call, opened, seen>>
  /\ UNCHANGED <<config, binding, pending, budget>>

\* _fix: never looks at the override.
BeginFix ==
  /\ At({"FIX_REQUIRED"})
  /\ \/ /\ Decide(mem, "BUILDER") = NoSession
        /\ Dispatch("BUILDER", Cur, NoSession)
        /\ batch' = [WithTask("RUNNING_FIX") EXCEPT !.fixes = @ + 1] /\ UNCHANGED phase
     \/ /\ Decide(mem, "BUILDER") # NoSession
        /\ Over("BLOCKED") /\ UNCHANGED <<call, opened, seen>>
  /\ UNCHANGED <<config, binding, mem, pending, budget>>

\* _audit: a refused resumption fails the task.
BeginAudit ==
  /\ At({"AUDITING"})
  /\ mem' = Seed(RestoreAuditor(mem, Cur), "TASK_AUDITOR")
  /\ LET id == Decide(mem', "TASK_AUDITOR")
     IN  \/ Dispatch("TASK_AUDITOR", Cur, id) /\ UNCHANGED <<batch, phase>>
         \/ id # NoSession /\ Over("FAILED") /\ UNCHANGED <<call, opened, seen>>
  /\ UNCHANGED <<config, binding, pending, budget>>

\* run_final_audit: same_as_orchestrator replaces the decision of the policy by
\* the architect's session, else by a new one, whatever the final auditor had.
BeginFinal ==
  /\ phase = "READY" /\ Idle
  /\ LET seeded == Seed(mem, "FINAL_AUDITOR")
         shared == Architect(seeded)
         withOrchestrator ==
           IF seeded.live["ORCHESTRATOR"] = NoSession /\ Bound("ORCHESTRATOR") # NoSession
           THEN Restore(seeded, "ORCHESTRATOR", shared) ELSE seeded
         id == IF config.same THEN shared ELSE Decide(seeded, "FINAL_AUDITOR")
     IN  /\ mem' = IF ~config.same THEN seeded
                   ELSE IF shared # NoSession /\ withOrchestrator.live["FINAL_AUDITOR"] # shared
                        THEN Restore(withOrchestrator, "FINAL_AUDITOR", shared)
                        ELSE withOrchestrator
         /\ \/ Dispatch("FINAL_AUDITOR", 0, id) /\ UNCHANGED <<batch, phase>>
            \/ id # NoSession /\ ResumeRefused
  /\ UNCHANGED <<config, binding, pending, budget>>

-----------------------------------------------------------------------------
(* A prompt returns, with or without the id of its session *)

\* The id the engine reports: none if it keeps no sessions, and at most
\* MaxSilent times none although it does.
Reports(id) ==
  \/ ~config.stateful /\ id = NoSession /\ UNCHANGED budget
  \/ config.stateful /\ id = call.thread /\ UNCHANGED budget
  \/ /\ config.stateful /\ id = NoSession /\ budget.silent < MaxSilent
     /\ budget' = [budget EXCEPT !.silent = @ + 1]

Reported == {call.thread, NoSession}

Returned(role) == call.role = role /\ call' = NoCall /\ UNCHANGED <<config, binding, opened>>

\* _record_session
Recorded(role, id) == mem' = Register(mem, role, id)

PlanReturns ==
  /\ Returned("ORCHESTRATOR")
  /\ \/ /\ phase' = "IDLE" /\ UNCHANGED <<mem, batch, seen, budget>>  \* the call failed
     \/ \E id \in Reported :
          /\ Reports(id) /\ Recorded("ORCHESTRATOR", id)
          /\ \/ phase' = "IDLE" /\ UNCHANGED <<batch, seen>>          \* the plan is refused
             \/ /\ phase' = "WORK" /\ batch' = [batch EXCEPT !.planner = id]
                /\ seen' = [seen EXCEPT !.planned[batch.no] = id]
  /\ UNCHANGED pending

BuilderReturns ==
  /\ Returned("BUILDER")
  /\ \/ Over("FAILED") /\ UNCHANGED <<mem, budget>>
     \/ /\ \E id \in Reported : Reports(id) /\ Recorded("BUILDER", id)
        /\ batch' = WithTask("AUDITING") /\ UNCHANGED phase
  /\ UNCHANGED <<pending, seen>>

AllApproved(b) == \A t \in Tasks : b.tasks[t].state = "APPROVED"

\* The verdict of an audit whose session was reported as id, or not at all.
AuditReturns ==
  /\ Returned("TASK_AUDITOR")
  /\ \/ Over("FAILED") /\ UNCHANGED <<mem, seen, budget>>
     \/ \E id \in Reported, verdict \in {"APPROVED", "FIX_REQUIRED", "BLOCKED"} :
          /\ Reports(id) /\ Recorded("TASK_AUDITOR", id)
          /\ verdict = "FIX_REQUIRED" => batch.fixes < MaxFixes
          /\ batch' = IF id = NoSession THEN WithTask(verdict)
                      ELSE [WithTask(verdict) EXCEPT !.tasks[Cur].auditor = id]
          /\ phase' = IF verdict = "BLOCKED" THEN "IDLE"
                      ELSE IF AllApproved(batch') THEN "READY" ELSE "WORK"
          /\ seen' = [seen EXCEPT !.audited[batch.no] = @ \cup ({id} \ {NoSession})]
  /\ UNCHANGED pending

\* PASS keeps a plan for the next batch; any other verdict ends the batch.
FinalReturns ==
  /\ Returned("FINAL_AUDITOR")
  /\ phase' = "IDLE"
  /\ \/ UNCHANGED <<mem, pending, budget>>
     \/ \E id \in Reported :
          /\ Reports(id) /\ Recorded("FINAL_AUDITOR", id)
          /\ pending' \in {pending, TRUE}
  /\ UNCHANGED <<batch, seen>>

-----------------------------------------------------------------------------
(* Batches, the operator, restarts *)

NewBatch == [no |-> batch.no + 1, planner |-> NoSession, fixes |-> 0,
             tasks |-> [t \in Tasks |-> EmptyTask]]

\* request_start, by the operator, or by start_next_batch from the pending
\* plan: then no planning call is made and no planning session is recorded.
StartBatch ==
  /\ phase = "IDLE" /\ Idle /\ batch.no < MaxBatches
  /\ mem' = NewGeneration(mem) /\ batch' = NewBatch
  /\ \/ phase' = "PLAN" /\ UNCHANGED pending
     \/ pending /\ phase' = "WORK" /\ pending' = FALSE
  /\ UNCHANGED <<config, binding, call, opened, seen, budget>>

\* MaxChanges bounds what the operator sets; to clear what is set is free.
Change == budget.changes < MaxChanges /\ budget' = [budget EXCEPT !.changes = @ + 1]
Sets(id) == IF id = NoSession THEN UNCHANGED budget ELSE Change

\* bind_external_session and clear_external_session: configuration only.
Bind(role, id) ==
  /\ config.stateful /\ binding[role] # id /\ Sets(id)
  /\ binding' = [binding EXCEPT ![role] = id]
  /\ seen' = [seen EXCEPT !.bound = @ \cup {role},
                !.wantNew = IF id = NoSession THEN @ \cup {role} ELSE @ \ {role}]
  /\ UNCHANGED <<config, mem, batch, phase, pending, call, opened>>

\* arm_coder_recovery with a session a builder ran in; clear_coder_recovery.
Arm(id) ==
  /\ config.stateful /\ Sets(id)
  /\ mem' = [mem EXCEPT !.recovery = id]
  /\ seen' = IF id = NoSession THEN seen ELSE [seen EXCEPT !.arms[id] = @ + 1]
  /\ UNCHANGED <<config, binding, batch, phase, pending, call, opened>>

\* set_workspace: the sessions are forgotten, the generation is not.
SetWorkspace ==
  /\ Change
  /\ mem' = [FreshManager EXCEPT !.gen = mem.gen, !.recovery = mem.recovery]
  /\ UNCHANGED <<config, binding, batch, phase, pending, call, opened, seen>>

Restart ==
  /\ budget.restarts < MaxRestarts /\ budget' = [budget EXCEPT !.restarts = @ + 1]
  /\ mem' = FreshManager /\ call' = NoCall
  /\ UNCHANGED <<config, binding, batch, phase, pending, opened, seen>>

Init ==
  /\ config \in [stateful : BOOLEAN, same : BOOLEAN, builder : {"always_new", "persistent"}]
  /\ binding = [r \in Bindable |-> NoSession]
  /\ mem = FreshManager
  /\ batch = [no |-> 0, planner |-> NoSession, fixes |-> 0, tasks |-> [t \in Tasks |-> EmptyTask]]
  /\ phase = "IDLE" /\ pending = FALSE /\ call = NoCall /\ opened = 0
  /\ seen = [audited |-> [b \in Batches |-> {}], planned |-> [b \in Batches |-> NoSession],
             finals |-> [b \in Batches |-> NoSession], uses |-> [i \in Ids |-> 0],
             arms |-> [i \in Ids |-> 0], bound |-> {}, wantNew |-> {}]
  /\ budget = [restarts |-> 0, changes |-> 0, silent |-> 0]

Prompt == BeginPlan \/ BeginBuild \/ BeginAudit \/ BeginFix \/ BeginFinal
Return == PlanReturns \/ BuilderReturns \/ AuditReturns \/ FinalReturns

\* What the session selector of a role offers: NEW SESSION and the engine's own.
Selectable == {NoSession} \cup Foreign

\* What the recovery box offers: the sessions of builders, and to drop the choice.
Armable == {id \in Own : seen.uses[id] > 0} \cup (IF mem.recovery = NoSession THEN {} ELSE {NoSession})

Operator ==
  \/ StartBatch \/ SetWorkspace
  \/ \E r \in Bindable, id \in Selectable : Bind(r, id)
  \/ \E id \in Armable : Arm(id)

Next == Prompt \/ Return \/ Operator \/ Restart

Spec == Init /\ [][Next]_vars

-----------------------------------------------------------------------------
TypeOK ==
  /\ config \in [stateful : BOOLEAN, same : BOOLEAN, builder : {"always_new", "persistent"}]
  /\ binding \in [Bindable -> Ids \ Own]
  /\ mem \in [gen : 0..batch.no, live : [Roles -> Ids], stamp : [Roles -> 0..batch.no],
              recovery : Own \cup {NoSession}]
  /\ batch.no \in 0..MaxBatches /\ batch.planner \in Ids /\ batch.fixes \in 0..MaxFixes
  /\ batch.tasks \in [Tasks -> [state : {"PENDING", "RUNNING", "AUDITING", "FIX_REQUIRED",
                        "RUNNING_FIX", "APPROVED", "FAILED", "BLOCKED"}, auditor : Ids]]
  /\ phase \in {"IDLE", "PLAN", "WORK", "READY"} /\ pending \in BOOLEAN
  /\ call \in [role : Roles \cup {"none"}, task : Tasks \cup {0}, thread : Ids, reuse : BOOLEAN]
  /\ opened \in 0..MaxThreads

\* One auditor session per batch, across tasks, fixes, restarts and changes of
\* the workspace, and a session the application opened audits one batch only.
\* (An audit whose engine reported no session id is not counted.)
AuditorIsTheBatch ==
  /\ \A b \in Batches : Cardinality(seen.audited[b]) <= 1
  /\ \A b, c \in Batches : b # c => seen.audited[b] \cap seen.audited[c] \cap Own = {}

\* With same_as_orchestrator the final audit of a batch runs in the session
\* that planned it, restarts included, unless the operator ever bound another.
FinalInPlanningSession ==
  \A b \in Batches :
    config.same /\ seen.planned[b] # NoSession /\ seen.finals[b] # NoSession
      => seen.finals[b] = seen.planned[b]

\* A session a builder opened is never written to by a later build or fix,
\* except once for each time the operator armed it.
BuildersStartFresh == \A id \in Own : seen.uses[id] <= 1 + seen.arms[id]

\* What the texts promise and the code does not do: after NEW SESSION the next
\* real execution of the role creates a session.
NewSessionIsNew ==
  [][\A r \in Bindable : Idle /\ call'.role = r /\ r \in seen.wantNew => ~call'.reuse]_vars

\* ... the next builder operation, build or fix, resumes the armed session.
ArmedIsNext ==
  [][Idle /\ call'.role = "BUILDER" /\ mem.recovery # NoSession => call'.thread = mem.recovery]_vars

\* ... the planning and the final audit of every batch are one session.
OneArchitect ==
  \A b \in Batches \ {1} :
    config.same /\ seen.finals[b] # NoSession /\ seen.finals[b - 1] # NoSession
      /\ seen.planned[b] = NoSession => seen.finals[b] = seen.finals[b - 1]
=============================================================================
