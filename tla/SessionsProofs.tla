--------------------------- MODULE SessionsProofs ---------------------------
(***************************************************************************)
(* Proofs about Sessions, for any number of batches, tasks, sessions and   *)
(* restarts: one auditor per batch, the final audit in the planning        *)
(* session, and no builder session written to twice unless armed.          *)
(***************************************************************************)
EXTENDS Sessions, FiniteSetTheorems, WellFoundedInduction, TLAPS

\* What the manager may hold in batch b: no stamp is ahead of the generation.
Managers(b) ==
  {m \in [gen : 0..b, live : [Roles -> Ids], stamp : [Roles -> 0..b],
          recovery : Own \cup {NoSession}] : \A r \in Roles : m.stamp[r] <= m.gen}

TaskStates == {"PENDING", "RUNNING", "AUDITING", "FIX_REQUIRED", "RUNNING_FIX", "APPROVED",
               "FAILED", "BLOCKED"}

TaskRows == [state : TaskStates, auditor : Ids]

Batch == [no : 0..MaxBatches, planner : Ids, fixes : 0..MaxFixes, tasks : [Tasks -> TaskRows]]

History ==
  [audited : [Batches -> SUBSET Ids], planned : [Batches -> Ids], finals : [Batches -> Ids],
   uses : [Ids -> Nat], arms : [Ids -> Nat], bound : SUBSET Bindable, wantNew : SUBSET Roles]

Calls == [role : Roles \cup {"none"}, task : Tasks \cup {0}, thread : Ids, reuse : BOOLEAN]

\* The sessions that exist: the engine's own, and those opened so far.
Existing == Foreign \cup 1..opened

\* t is the task the batch is at: those before it are approved, those behind it wait.
IsCur(b, t) ==
  /\ b.tasks[t].state # "APPROVED"
  /\ \A u \in Tasks : u < t => b.tasks[u].state = "APPROVED"
  /\ \A u \in Tasks : u > t => b.tasks[u].state = "PENDING"

ShapeInv ==
  /\ config \in [stateful : BOOLEAN, same : BOOLEAN, builder : {"always_new", "persistent"}]
  /\ binding \in [Bindable -> Ids \ Own]
  /\ mem \in Managers(batch.no) /\ batch \in Batch /\ seen \in History /\ call \in Calls
  /\ phase \in {"IDLE", "PLAN", "WORK", "READY"} /\ pending \in BOOLEAN
  /\ opened \in 0..MaxThreads

\* Where the batch stands, and who may be running.
PhaseInv ==
  /\ phase # "IDLE" => batch.no # 0
  /\ call.role = "ORCHESTRATOR" => phase = "PLAN"
  /\ call.role \in {"BUILDER", "TASK_AUDITOR"} => phase = "WORK"
  /\ phase = "PLAN" => \A t \in Tasks : batch.tasks[t].state = "PENDING"
  /\ phase = "WORK" => /\ \E t \in Tasks : IsCur(batch, t)
                       /\ \A t \in Tasks : batch.tasks[t].state = "FIX_REQUIRED" =>
                            batch.fixes < MaxFixes

\* The sessions a manager would resume for the auditor are those of this batch.
AuditorOf(m) ==
  /\ m.live["TASK_AUDITOR"] # NoSession /\ m.stamp["TASK_AUDITOR"] = m.gen =>
       m.live["TASK_AUDITOR"] \in Foreign \cup UNION {seen.audited[b] : b \in Batches \cap {batch.no}}
  /\ phase = "WORK" /\ m.live["TASK_AUDITOR"] # NoSession /\ seen.audited[batch.no] # {} =>
       m.live["TASK_AUDITOR"] \in seen.audited[batch.no] /\ m.stamp["TASK_AUDITOR"] = m.gen

\* The rows remember the auditor of their batch, and so does the running audit.
AuditInv ==
  /\ \A b \in Batches : /\ seen.audited[b] \subseteq Existing
                        /\ seen.audited[b] # {} => config.stateful
                        /\ b > batch.no => seen.audited[b] = {}
                        /\ \E x \in Ids : seen.audited[b] \subseteq {x}
  /\ \A b, c \in Batches : b # c => seen.audited[b] \cap seen.audited[c] \cap Own = {}
  /\ phase = "PLAN" => seen.audited[batch.no] = {}
  /\ batch.no # 0 =>
       /\ \A t \in Audited(batch) : batch.tasks[t].auditor \in seen.audited[batch.no]
       /\ seen.audited[batch.no] # {} => Audited(batch) # {}
  /\ AuditorOf(mem)
  /\ call.role = "TASK_AUDITOR" =>
       /\ call.thread \in Existing /\ seen.audited[batch.no] \subseteq {call.thread}
       /\ \A b \in Batches : b # batch.no => call.thread \notin seen.audited[b] \cap Own

\* The session that planned is in the row, and in the manager unless it is lost.
PlanInv ==
  /\ \A b \in Batches : b > batch.no \/ (b = batch.no /\ phase = "PLAN") =>
       seen.planned[b] = NoSession /\ seen.finals[b] = NoSession
  /\ phase \in {"WORK", "READY"} /\ seen.planned[batch.no] # NoSession =>
       /\ batch.planner = seen.planned[batch.no]
       /\ "ORCHESTRATOR" \notin seen.bound =>
            mem.live["ORCHESTRATOR"] \in {NoSession, seen.planned[batch.no]}
  /\ "ORCHESTRATOR" \notin seen.bound => binding["ORCHESTRATOR"] = NoSession
  /\ FinalInPlanningSession

\* An armed session was opened, and has one more arming than it has later uses.
BuildInv ==
  /\ \A id \in Own : id > opened => seen.uses[id] = 0
  /\ mem.recovery <= opened
  /\ mem.recovery # NoSession => seen.uses[mem.recovery] <= seen.arms[mem.recovery]
  /\ BuildersStartFresh

SessionsInv == ShapeInv /\ PhaseInv /\ AuditInv /\ PlanInv /\ BuildInv

-----------------------------------------------------------------------------
(* Roles, sessions and numbers *)

LEMMA Numbers ==
  /\ NTasks \in Nat \ {0} /\ MaxFixes \in Nat /\ MaxBatches \in Nat /\ MaxThreads \in Nat
  /\ Own \subseteq Nat \ {0} /\ NoSession \notin Own /\ NoSession \notin Foreign
  /\ Foreign \cap Own = {} /\ Ids \subseteq Nat /\ Own \subseteq Ids /\ Foreign \subseteq Ids
  /\ NoSession \in Ids /\ NoSession = 0
<1>1. /\ NTasks \in Nat \ {0} /\ MaxFixes \in Nat /\ MaxBatches \in Nat /\ MaxThreads \in Nat
      /\ Foreign \subseteq Nat \ (Own \cup {NoSession})
  BY SessionsAssumption
<1>2. Own \subseteq Nat \ {0} /\ NoSession = 0
  BY <1>1 DEF Own, NoSession
<1> QED BY <1>1, <1>2 DEF Ids

\* Numbers have a least one.
LEMMA LeastOf ==
  ASSUME NEW T, T \subseteq Nat, T # {} PROVE \E x \in T : \A y \in T : x <= y
<1> DEFINE R == {ss \in Nat \X Nat : ss[1] < ss[2]}
<1>1. IsWellFoundedOn(R, Nat)
  BY NatLessThanWellFounded DEF OpToRel
<1>2. PICK x \in T : \A y \in T : ~ (<<y, x>> \in R)
  <2> HIDE DEF R
  <2> QED BY <1>1, WFMin
<1>3. \A y \in T : ~(y < x)
  BY <1>2
<1> QED BY <1>3

\* Tasks have a last one.
LEMMA LastTask ==
  ASSUME NEW T, T \subseteq Tasks, T # {} PROVE \E x \in T : \A y \in T : y <= x
<1>1. T \subseteq 1..NTasks /\ NTasks \in Nat
  BY Numbers DEF Tasks
<1>2. PICK D : D = {NTasks - x : x \in T}
  OBVIOUS
<1>3. D \subseteq Nat /\ D # {}
  <2>1. \A x \in T : NTasks - x \in Nat
    BY <1>1
  <2> QED BY <1>2, <2>1
<1>4. PICK d \in D : \A e \in D : d <= e
  BY <1>3, LeastOf
<1>5. PICK x \in T : d = NTasks - x
  BY <1>2
<1>6. \A y \in T : NTasks - y \in D
  BY <1>2
<1>7. \A y \in T : NTasks - x <= NTasks - y
  BY <1>4, <1>5, <1>6
<1> QED BY <1>1, <1>7

LEMMA RolesAre ==
  /\ Roles = {"ORCHESTRATOR", "BUILDER", "TASK_AUDITOR", "FINAL_AUDITOR"}
  /\ Bindable = {"ORCHESTRATOR", "TASK_AUDITOR", "FINAL_AUDITOR"}
BY DEF Roles, Bindable

\* What exists is a session, and stays.
LEMMA ExistingOK ==
  ASSUME ShapeInv
  PROVE  Existing \subseteq Ids \ {NoSession} /\ 1..opened \subseteq Own
BY Numbers DEF ShapeInv, Existing, Own, Ids, NoSession

-----------------------------------------------------------------------------
(* The manager *)

\* _record_session touches the role alone, and leaves the generation.
LEMMA RegisterOK ==
  ASSUME NEW b \in Nat, NEW m \in Managers(b), NEW role \in Roles, NEW id \in Ids
  PROVE  LET s == Register(m, role, id)
         IN  /\ s \in Managers(b) /\ s.gen = m.gen /\ s.recovery = m.recovery
             /\ \A r \in Roles : r # role => s.live[r] = m.live[r] /\ s.stamp[r] = m.stamp[r]
             /\ id = NoSession => s = m
             /\ id # NoSession => s.live[role] = id /\ s.stamp[role] = m.gen
<1>1. /\ m \in [gen : 0..b, live : [Roles -> Ids], stamp : [Roles -> 0..b],
                recovery : Own \cup {NoSession}]
      /\ \A r \in Roles : m.stamp[r] <= m.gen
  BY DEF Managers
<1>2. CASE id = NoSession
  BY <1>2 DEF Register
<1>3. CASE id # NoSession
  <2>1. PICK s : s = [m EXCEPT !.live[role] = id, !.stamp[role] = m.gen]
    OBVIOUS
  <2>2. Register(m, role, id) = s
    BY <1>3, <2>1 DEF Register
  <2>3. /\ s.gen = m.gen /\ s.recovery = m.recovery /\ s.live[role] = id /\ s.stamp[role] = m.gen
        /\ \A r \in Roles : r # role => s.live[r] = m.live[r] /\ s.stamp[r] = m.stamp[r]
    BY <1>1, <2>1
  <2>4. s \in [gen : 0..b, live : [Roles -> Ids], stamp : [Roles -> 0..b],
               recovery : Own \cup {NoSession}]
    BY <1>1, <2>1
  <2>5. \A r \in Roles : s.stamp[r] <= s.gen
    BY <1>1, <2>3
  <2>6. s \in Managers(b)
    BY <2>4, <2>5 DEF Managers
  <2> QED BY <1>3, <2>2, <2>3, <2>6
<1> QED BY <1>2, <1>3

\* restore_session stamps the role with the generation, which is 1 at least.
LEMMA RestoreOK ==
  ASSUME NEW b \in Nat \ {0}, NEW m \in Managers(b), NEW role \in Roles, NEW id \in Ids
  PROVE  LET s == Restore(m, role, id)
         IN  /\ s \in Managers(b) /\ s.recovery = m.recovery
             /\ s.gen = m.gen \/ (m.gen = 0 /\ s.gen = 1)
             /\ \A r \in Roles : r # role => s.live[r] = m.live[r] /\ s.stamp[r] = m.stamp[r]
             /\ s.live[role] = id /\ s.stamp[role] = s.gen
<1>1. /\ m \in [gen : 0..b, live : [Roles -> Ids], stamp : [Roles -> 0..b],
                recovery : Own \cup {NoSession}]
      /\ \A r \in Roles : m.stamp[r] <= m.gen
  BY DEF Managers
<1>2. PICK g : g = IF m.gen < 1 THEN 1 ELSE m.gen
  OBVIOUS
<1>3. g \in 0..b /\ m.gen <= g /\ (g = m.gen \/ (m.gen = 0 /\ g = 1))
  <2>1. m.gen \in Nat /\ m.gen <= b /\ b >= 1
    BY <1>1
  <2> QED BY <1>2, <2>1
<1>4. PICK s : s = [m EXCEPT !.gen = g, !.live[role] = id, !.stamp[role] = g]
  OBVIOUS
<1>5. Restore(m, role, id) = s
  BY <1>2, <1>4 DEF Restore
<1>6. /\ s.gen = g /\ s.recovery = m.recovery /\ s.live[role] = id /\ s.stamp[role] = g
      /\ \A r \in Roles : r # role => s.live[r] = m.live[r] /\ s.stamp[r] = m.stamp[r]
  BY <1>1, <1>4
<1>7. s \in [gen : 0..b, live : [Roles -> Ids], stamp : [Roles -> 0..b],
             recovery : Own \cup {NoSession}]
  BY <1>1, <1>3, <1>4
<1>8. \A r \in Roles : s.stamp[r] <= s.gen
  <2> SUFFICES ASSUME NEW r \in Roles PROVE s.stamp[r] <= s.gen
    OBVIOUS
  <2>1. m.stamp[r] \in Nat /\ m.gen \in Nat /\ g \in Nat /\ m.stamp[r] <= m.gen
    BY <1>1, <1>3
  <2> QED BY <1>3, <1>6, <2>1
<1>9. s \in Managers(b)
  BY <1>7, <1>8 DEF Managers
<1> QED BY <1>3, <1>5, <1>6, <1>9

\* A role without a session takes its binding.
LEMMA SeedOK ==
  ASSUME NEW b \in Nat \ {0}, NEW m \in Managers(b), NEW role \in Bindable,
         binding \in [Bindable -> Ids \ Own]
  PROVE  LET s == Seed(m, role)
         IN  /\ s \in Managers(b) /\ s.recovery = m.recovery
             /\ s.gen = m.gen \/ (m.gen = 0 /\ s.gen = 1)
             /\ \A r \in Roles : r # role => s.live[r] = m.live[r] /\ s.stamp[r] = m.stamp[r]
             /\ \/ s = m /\ (m.live[role] # NoSession \/ binding[role] = NoSession)
                \/ /\ m.live[role] = NoSession /\ binding[role] # NoSession
                   /\ s.live[role] = binding[role] /\ s.stamp[role] = s.gen
<1>1. binding[role] \in Ids /\ role \in Roles
  BY DEF Bindable
<1>2. CASE binding[role] # NoSession /\ m.live[role] = NoSession
  <2>1. Seed(m, role) = Restore(m, role, binding[role])
    BY <1>2 DEF Seed, Bound
  <2> QED BY <1>1, <1>2, <2>1, RestoreOK
<1>3. CASE ~(binding[role] # NoSession /\ m.live[role] = NoSession)
  <2>1. Seed(m, role) = m
    BY <1>3 DEF Seed, Bound
  <2>2. m.live[role] # NoSession \/ binding[role] = NoSession
    BY <1>3
  <2> QED BY <2>1, <2>2
<1> QED BY <1>2, <1>3

-----------------------------------------------------------------------------
(* The task the batch is at *)

\* There is one task at which a batch can be.
LEMMA CurIs ==
  ASSUME NEW t \in Tasks, IsCur(batch, t) PROVE Cur = t
<1>1. Tasks \subseteq Nat
  BY Numbers DEF Tasks
<1>2. \A u \in 1..(t - 1) : u \in Tasks /\ u < t
  BY <1>1, Numbers DEF Tasks
<1>3. \A u \in Tasks :
        u = t <=> batch.tasks[u].state # "APPROVED" /\ \A v \in 1..(u - 1) : batch.tasks[v].state = "APPROVED"
  <2> SUFFICES ASSUME NEW u \in Tasks, u # t, batch.tasks[u].state # "APPROVED",
                      \A v \in 1..(u - 1) : batch.tasks[v].state = "APPROVED"
               PROVE  FALSE
    BY <1>2 DEF IsCur
  <2>1. ~(u < t)
    BY DEF IsCur
  <2>2. t \in 1..(u - 1)
    BY <1>1, <2>1, Numbers DEF Tasks
  <2> QED BY <2>2 DEF IsCur
<1> QED BY <1>3 DEF Cur

\* The task the batch is at is one of its tasks.
LEMMA CurOK ==
  ASSUME PhaseInv, phase = "WORK" PROVE Cur \in Tasks /\ IsCur(batch, Cur)
BY CurIs DEF PhaseInv

-----------------------------------------------------------------------------
(* What the steps have in common *)

\* A batch that changes the state of its task keeps the sessions in its rows.
LEMMA WithTaskOK ==
  ASSUME ShapeInv, Cur \in Tasks, NEW s \in TaskStates
  PROVE  /\ WithTask(s) \in Batch /\ WithTask(s).no = batch.no
         /\ WithTask(s).planner = batch.planner /\ WithTask(s).fixes = batch.fixes
         /\ WithTask(s).tasks[Cur].state = s
         /\ \A u \in Tasks : u # Cur => WithTask(s).tasks[u] = batch.tasks[u]
         /\ \A u \in Tasks : WithTask(s).tasks[u].auditor = batch.tasks[u].auditor
         /\ Audited(WithTask(s)) = Audited(batch)
<1>1. PICK b : b = WithTask(s)
  OBVIOUS
<1>2. PICK t \in Tasks : t = Cur
  OBVIOUS
<1>3. b = [batch EXCEPT !.tasks[t].state = s]
  BY <1>1, <1>2 DEF WithTask
<1>4. /\ b \in Batch /\ b.no = batch.no /\ b.planner = batch.planner /\ b.fixes = batch.fixes
      /\ b.tasks[t].state = s
      /\ \A u \in Tasks : u # t => b.tasks[u] = batch.tasks[u]
      /\ \A u \in Tasks : b.tasks[u].auditor = batch.tasks[u].auditor
  BY <1>3 DEF ShapeInv, Batch, TaskRows
<1>5. Audited(b) = Audited(batch)
  BY <1>4 DEF Audited
<1> QED BY <1>1, <1>2, <1>4, <1>5

\* A prompt that is sent: where it runs, and what history keeps of it.
LEMMA DispatchOK ==
  ASSUME ShapeInv, batch.no # 0, NEW role \in Roles, NEW t \in Tasks \cup {0}, NEW id \in Ids,
         Dispatch(role, t, id)
  PROVE  /\ call' \in Calls /\ call'.role = role /\ seen' \in History
         /\ opened' \in 0..MaxThreads /\ opened <= opened'
         /\ id # NoSession => call'.thread = id /\ opened' = opened
         /\ id = NoSession => call'.thread = opened + 1 /\ opened' = opened + 1 /\ opened' \in Own
         /\ seen'.audited = seen.audited /\ seen'.planned = seen.planned
         /\ seen'.arms = seen.arms /\ seen'.bound = seen.bound
         /\ role # "BUILDER" => seen'.uses = seen.uses
         /\ role = "BUILDER" => seen'.uses = [seen.uses EXCEPT ![call'.thread] = @ + 1]
         /\ role # "FINAL_AUDITOR" \/ "ORCHESTRATOR" \in seen.bound => seen'.finals = seen.finals
         /\ role = "FINAL_AUDITOR" /\ "ORCHESTRATOR" \notin seen.bound =>
              seen'.finals = [seen.finals EXCEPT ![batch.no] = call'.thread]
<1>1. /\ opened \in Nat /\ opened <= MaxThreads /\ seen \in History /\ batch.no \in Batches
  BY Numbers DEF ShapeInv, Batch, Batches
<1>2. PICK h : h = IF id = NoSession THEN opened + 1 ELSE id
  OBVIOUS
<1>3. /\ opened' = IF id = NoSession THEN opened + 1 ELSE opened
      /\ call' = [role |-> role, task |-> t, reuse |-> id # NoSession, thread |-> h]
      /\ id = NoSession => opened < MaxThreads
  BY <1>2 DEF Dispatch
<1>4. /\ opened' \in 0..MaxThreads /\ opened <= opened' /\ h \in Ids
      /\ id = NoSession => opened' \in Own
  BY <1>1, <1>2, <1>3, Numbers DEF Own, Ids
<1>5. call' \in Calls /\ call'.role = role /\ call'.thread = h
  <2>1. (id # NoSession) \in BOOLEAN
    OBVIOUS
  <2> QED BY <1>3, <1>4, <2>1 DEF Calls
<1>6. /\ seen.uses \in [Ids -> Nat] /\ seen.finals \in [Batches -> Ids]
      /\ seen.wantNew \in SUBSET Roles
  BY <1>1 DEF History
<1>7. seen' = [seen EXCEPT !.uses = Used(role, call'.thread), !.finals = Finals(role, call'.thread),
                           !.wantNew = @ \ {role}]
  BY DEF Dispatch
<1>8. /\ seen'.uses = Used(role, call'.thread) /\ seen'.finals = Finals(role, call'.thread)
      /\ seen'.wantNew = seen.wantNew \ {role}
      /\ seen'.audited = seen.audited /\ seen'.planned = seen.planned
      /\ seen'.arms = seen.arms /\ seen'.bound = seen.bound
      /\ seen' = [audited |-> seen'.audited, planned |-> seen'.planned, finals |-> seen'.finals,
                  uses |-> seen'.uses, arms |-> seen'.arms, bound |-> seen'.bound,
                  wantNew |-> seen'.wantNew]
  BY <1>1, <1>7 DEF History
<1>9. seen'.uses \in [Ids -> Nat] /\ seen'.finals \in [Batches -> Ids]
  BY <1>1, <1>4, <1>5, <1>6, <1>8 DEF Used, Finals
<1>10. seen' \in History
  BY <1>1, <1>6, <1>8, <1>9 DEF History
<1> QED BY <1>2, <1>3, <1>4, <1>5, <1>8, <1>10 DEF Used, Finals

\* A step that leaves the auditor's session alone, or loses it.
LEMMA AuditorFrame ==
  ASSUME SessionsInv, batch'.no = batch.no, seen'.audited = seen.audited,
         phase' = "WORK" => phase \in {"PLAN", "WORK"},
         \/ mem'.live["TASK_AUDITOR"] = NoSession
         \/ /\ mem'.live["TASK_AUDITOR"] = mem.live["TASK_AUDITOR"]
            /\ mem'.stamp["TASK_AUDITOR"] = mem.stamp["TASK_AUDITOR"]
            /\ mem'.gen = mem.gen \/ (mem.gen = 0 /\ mem'.gen = 1 /\ phase' # "WORK")
  PROVE  AuditorOf(mem)'
<1>1. AuditInv
  BY DEF SessionsInv
<1>2. CASE mem'.live["TASK_AUDITOR"] = NoSession
  BY <1>2 DEF AuditorOf
<1>3. CASE mem'.live["TASK_AUDITOR"] # NoSession /\ mem'.gen = mem.gen
  <2>1. phase' = "WORK" => phase = "WORK" \/ seen.audited[batch.no] = {}
    BY <1>1 DEF AuditInv
  <2> QED BY <1>1, <1>3, <2>1 DEF AuditInv, AuditorOf
<1>4. CASE mem'.live["TASK_AUDITOR"] # NoSession /\ mem'.gen # mem.gen
  <2>1. mem.stamp["TASK_AUDITOR"] <= mem.gen /\ mem.stamp["TASK_AUDITOR"] \in Nat
    BY RolesAre DEF SessionsInv, ShapeInv, Managers
  <2>2. mem'.stamp["TASK_AUDITOR"] # mem'.gen /\ phase' # "WORK"
    BY <1>4, <2>1
  <2> QED BY <2>2 DEF AuditorOf
<1> QED BY <1>2, <1>3, <1>4

\* A step that asks and learns nothing of an auditor.
LEMMA AuditFrame ==
  ASSUME SessionsInv, ShapeInv', UNCHANGED config, batch'.no = batch.no,
         seen'.audited = seen.audited, opened <= opened', AuditorOf(mem)',
         \A t \in Tasks : batch'.tasks[t].auditor = batch.tasks[t].auditor,
         call'.role = "TASK_AUDITOR" => call' = call,
         phase' = "PLAN" => phase = "PLAN"
  PROVE  AuditInv'
<1>1. AuditInv /\ Existing \subseteq Existing'
  <2>1. opened \in Nat /\ opened' \in Nat
    BY DEF SessionsInv, ShapeInv
  <2> QED BY <2>1 DEF SessionsInv, Existing
<1>2. Audited(batch') = Audited(batch)
  BY DEF Audited
<1>4. call'.role = "TASK_AUDITOR" =>
        /\ call'.thread \in Existing' /\ seen.audited[batch.no] \subseteq {call'.thread}
        /\ \A b \in Batches : b # batch.no => call'.thread \notin seen.audited[b] \cap Own
  BY <1>1 DEF AuditInv
<1>5. /\ \A b \in Batches : /\ seen.audited[b] \subseteq Existing'
                            /\ seen.audited[b] # {} => config'.stateful
                            /\ b > batch.no => seen.audited[b] = {}
                            /\ \E x \in Ids : seen.audited[b] \subseteq {x}
      /\ phase' = "PLAN" => seen.audited[batch.no] = {}
      /\ batch.no # 0 =>
           /\ \A t \in Audited(batch') : batch'.tasks[t].auditor \in seen.audited[batch.no]
           /\ seen.audited[batch.no] # {} => Audited(batch') # {}
  <2>1. \A t \in Audited(batch) : t \in Tasks
    BY DEF Audited
  <2> QED BY <1>1, <1>2, <2>1 DEF AuditInv
<1>6. \A b, c \in Batches : b # c => seen.audited[b] \cap seen.audited[c] \cap Own = {}
  BY <1>1 DEF AuditInv
<1> QED BY <1>4, <1>5, <1>6 DEF AuditInv

\* A step that plans nothing and sends no final audit.
LEMMA PlanFrame ==
  ASSUME SessionsInv, UNCHANGED config, batch'.no = batch.no, batch'.planner = batch.planner,
         seen'.planned = seen.planned, seen'.finals = seen.finals, seen.bound \subseteq seen'.bound,
         phase' = "PLAN" => phase = "PLAN",
         phase' \in {"WORK", "READY"} => /\ phase \in {"WORK", "READY"}
                                         /\ mem'.live["ORCHESTRATOR"] \in {NoSession, mem.live["ORCHESTRATOR"]}
                                            \/ "ORCHESTRATOR" \in seen'.bound,
         "ORCHESTRATOR" \notin seen'.bound => binding'["ORCHESTRATOR"] = binding["ORCHESTRATOR"]
  PROVE  PlanInv'
<1>1. PlanInv
  BY DEF SessionsInv
<1> QED BY <1>1 DEF PlanInv, FinalInPlanningSession

\* An armed session is a number.
LEMMA RecoveryIs ==
  ASSUME ShapeInv PROVE mem.recovery \in Ids /\ mem.recovery \in Nat
<1>1. mem.recovery \in Own \cup {NoSession}
  <2>1. mem \in Managers(batch.no)
    BY DEF ShapeInv
  <2> QED BY <2>1 DEF Managers
<1>2. mem.recovery \in Ids
  BY <1>1 DEF Ids
<1>3. Ids \subseteq Nat
  BY Numbers
<1> QED BY <1>2, <1>3

\* A step that sends nothing to a builder.
LEMMA BuildFrame ==
  ASSUME SessionsInv, ShapeInv', seen'.uses = seen.uses, seen'.arms = seen.arms, opened <= opened',
         mem'.recovery \in {NoSession, mem.recovery}
  PROVE  BuildInv'
<1>1. BuildInv /\ opened \in Nat /\ opened' \in Nat /\ Own \subseteq Nat
  BY Numbers DEF SessionsInv, ShapeInv
<1>2. \A id \in Own : id > opened' => seen'.uses[id] = 0
  <2> SUFFICES ASSUME NEW id \in Own, id > opened' PROVE seen.uses[id] = 0
    OBVIOUS
  <2>1. id \in Nat /\ id > opened
    BY <1>1
  <2> QED BY <1>1, <2>1 DEF BuildInv
<1>3. /\ mem'.recovery # NoSession => seen'.uses[mem'.recovery] <= seen'.arms[mem'.recovery]
      /\ mem'.recovery <= opened'
  <2>1. mem.recovery \in Nat /\ mem.recovery <= opened /\ NoSession \in Nat /\ NoSession <= opened
    <3>3. NoSession = 0
      BY Numbers
    <3>4. mem.recovery \in Nat
      BY RecoveryIs DEF SessionsInv
    <3>5. mem.recovery <= opened
      BY <1>1 DEF BuildInv
    <3>6. NoSession \in Nat /\ NoSession <= opened
      BY <1>1, <3>3
    <3> QED BY <3>4, <3>5, <3>6
  <2>2. mem'.recovery <= opened'
    BY <1>1, <2>1
  <2> QED BY <1>1, <2>2 DEF BuildInv
<1>4. BuildersStartFresh'
  BY <1>1 DEF BuildInv, BuildersStartFresh
<1> QED BY <1>2, <1>3, <1>4 DEF BuildInv

\* A step within a batch that does not touch its rows.
LEMMA RowsFrame ==
  ASSUME SessionsInv, UNCHANGED <<batch, phase>>, call'.role = call.role \/ call'.role = "none"
  PROVE  PhaseInv'
<1>1. PhaseInv /\ \A t \in Tasks : IsCur(batch, t)' = IsCur(batch, t)
  BY DEF SessionsInv, IsCur
<1> QED BY <1>1 DEF PhaseInv

-----------------------------------------------------------------------------
(* Prompts are sent *)

\* The orchestrator is asked for a plan.
LEMMA BeginPlanStep ==
  ASSUME SessionsInv, BeginPlan PROVE SessionsInv'
<1>1. /\ phase = "PLAN" /\ call = NoCall /\ mem' = Seed(mem, "ORCHESTRATOR")
      /\ UNCHANGED <<config, binding, pending, batch, phase>>
      /\ ShapeInv /\ batch.no # 0 /\ batch.no \in Nat /\ "ORCHESTRATOR" \in Bindable
  BY RolesAre DEF BeginPlan, Idle, ResumeRefused, SessionsInv, PhaseInv, ShapeInv, Batch
<1>2. /\ mem' \in Managers(batch.no) /\ mem'.recovery = mem.recovery
      /\ mem'.gen = mem.gen \/ (mem.gen = 0 /\ mem'.gen = 1)
      /\ \A r \in Roles : r # "ORCHESTRATOR" =>
           mem'.live[r] = mem.live[r] /\ mem'.stamp[r] = mem.stamp[r]
  BY <1>1, SeedOK DEF ShapeInv
<1>3. PICK id \in Ids : Dispatch("ORCHESTRATOR", 0, id) \/ UNCHANGED <<call, opened, seen>>
  <2>1. Decide(mem', "ORCHESTRATOR") \in Ids
    BY <1>2, RolesAre, Numbers DEF Decide, Managers
  <2> QED BY <2>1 DEF BeginPlan, ResumeRefused
<1>4. /\ call' \in Calls /\ seen' \in History /\ opened' \in 0..MaxThreads /\ opened <= opened'
      /\ call'.role \in {"ORCHESTRATOR", "none"}
      /\ seen'.audited = seen.audited /\ seen'.planned = seen.planned /\ seen'.finals = seen.finals
      /\ seen'.uses = seen.uses /\ seen'.arms = seen.arms /\ seen'.bound = seen.bound
  <2>1. CASE Dispatch("ORCHESTRATOR", 0, id)
    <3>1. "ORCHESTRATOR" \in Roles /\ 0 \in Tasks \cup {0}
      BY RolesAre
    <3> QED BY <1>1, <2>1, <3>1, DispatchOK
  <2>2. CASE UNCHANGED <<call, opened, seen>>
    BY <1>1, <2>2 DEF ShapeInv, NoCall
  <2> QED BY <1>3, <2>1, <2>2
<1>5. ShapeInv'
  BY <1>1, <1>2, <1>4 DEF ShapeInv
<1>6. PhaseInv'
  BY <1>1, <1>4 DEF SessionsInv, PhaseInv
<1>7. AuditInv'
  BY <1>1, <1>2, <1>4, <1>5, RolesAre, AuditFrame, AuditorFrame
<1>8. PlanInv' /\ BuildInv'
  BY <1>1, <1>2, <1>4, <1>5, PlanFrame, BuildFrame
<1> QED BY <1>5, <1>6, <1>7, <1>8 DEF SessionsInv

\* The batch goes on at its task, in another state.
LEMMA SameTask ==
  ASSUME SessionsInv, phase = "WORK", batch' \in Batch, batch'.no = batch.no,
         batch'.tasks[Cur].state \notin {"APPROVED"},
         \A u \in Tasks : u # Cur => batch'.tasks[u].state = batch.tasks[u].state
  PROVE  Cur \in Tasks /\ \E t \in Tasks : IsCur(batch', t)
<1>1. Cur \in Tasks /\ IsCur(batch, Cur)
  BY CurOK DEF SessionsInv
<1>2. Tasks \subseteq Nat
  BY Numbers DEF Tasks
<1>3. IsCur(batch', Cur)
  BY <1>1, <1>2 DEF IsCur
<1> QED BY <1>1, <1>3

\* A builder is sent to build, in a new session or in the armed one.
LEMMA BuilderSent ==
  ASSUME SessionsInv, batch.no # 0, NEW t \in Tasks \cup {0}, NEW id \in Own \cup {NoSession},
         Dispatch("BUILDER", t, id), id \in {NoSession, mem.recovery},
         id # NoSession => mem'.recovery = NoSession,
         mem'.recovery \in {NoSession, mem.recovery}
  PROVE  BuildInv'
<1>1. /\ ShapeInv /\ "BUILDER" \in Roles /\ id \in Ids /\ seen \in History /\ opened \in Nat
      /\ Own \subseteq Nat \ {0} /\ Own \subseteq Ids /\ NoSession = 0
  BY Numbers, RolesAre DEF SessionsInv, ShapeInv
<1>2. PICK h : h = call'.thread
  OBVIOUS
<1>3. /\ id # NoSession => h = id /\ opened' = opened
      /\ id = NoSession => h = opened + 1 /\ opened' = opened + 1 /\ opened' \in Own
      /\ seen'.uses = [seen.uses EXCEPT ![h] = @ + 1] /\ seen'.arms = seen.arms
  BY <1>1, <1>2, DispatchOK
<1>4. /\ h \in Own /\ seen.uses \in [Ids -> Nat] /\ seen.arms \in [Ids -> Nat]
  BY <1>1, <1>3 DEF History
<1>5. /\ seen'.uses[h] = seen.uses[h] + 1
      /\ \A i \in Own : i # h => seen'.uses[i] = seen.uses[i]
  BY <1>1, <1>3, <1>4
<1>6. BuildInv
  BY DEF SessionsInv
<1>7. seen.uses[h] <= seen.arms[h]
  <2>1. CASE id = NoSession
    <3>1. seen.uses[h] = 0
      BY <1>1, <1>3, <1>4, <1>6, <2>1 DEF BuildInv
    <3>2. h \in Ids
      BY <1>1, <1>4
    <3>3. seen.arms[h] \in Nat
      BY <1>4, <3>2
    <3> QED BY <3>1, <3>3
  <2>2. CASE id # NoSession
    BY <1>3, <1>6, <2>2 DEF BuildInv
  <2> QED BY <2>1, <2>2
<1>8. \A i \in Own : i > opened' => seen'.uses[i] = 0
  <2> SUFFICES ASSUME NEW i \in Own, i > opened' PROVE seen'.uses[i] = 0
    OBVIOUS
  <2>1. CASE id = NoSession
    <3>1. i # h /\ i > opened
      BY <1>1, <1>3, <2>1
    <3> QED BY <1>5, <1>6, <3>1 DEF BuildInv
  <2>2. CASE id # NoSession
    <3>1. seen.uses[i] = 0 /\ i > opened
      BY <1>3, <1>6, <2>2 DEF BuildInv
    <3>2. i # h
      BY <1>1, <1>3, <1>4, <1>6, <2>2, <3>1 DEF BuildInv
    <3> QED BY <1>5, <3>1, <3>2
  <2> QED BY <2>1, <2>2
<1>9. mem'.recovery <= opened' /\ opened <= opened'
  <2>1. mem.recovery <= opened
    BY <1>6 DEF BuildInv
  <2>3. mem.recovery \in Nat
    BY <1>1, RecoveryIs
  <2>5. mem'.recovery \in Nat /\ mem'.recovery <= opened
    <3>1. CASE mem'.recovery = mem.recovery
      BY <2>1, <2>3, <3>1
    <3>2. CASE mem'.recovery = NoSession
      BY <1>1, <3>2
    <3> QED BY <3>1, <3>2
  <2>4. opened <= opened' /\ opened' \in Nat
    BY <1>1, <1>3
  <2> QED BY <1>1, <2>5, <2>4
<1>10. mem'.recovery # NoSession => seen'.uses[mem'.recovery] <= seen'.arms[mem'.recovery]
  <2> SUFFICES ASSUME mem'.recovery # NoSession PROVE seen'.uses[mem'.recovery] <= seen'.arms[mem'.recovery]
    OBVIOUS
  <2>1. /\ mem'.recovery = mem.recovery /\ mem.recovery \in Own /\ id = NoSession
        /\ mem.recovery <= opened
    BY <1>1, <1>6 DEF ShapeInv, Managers, BuildInv
  <2>2. mem.recovery # h
    BY <1>1, <1>3, <2>1
  <2> QED BY <1>3, <1>5, <1>6, <2>1, <2>2 DEF BuildInv
<1>11. BuildersStartFresh'
  <2> SUFFICES ASSUME NEW i \in Own PROVE seen'.uses[i] <= 1 + seen'.arms[i]
    BY DEF BuildersStartFresh
  <2>1. seen.uses[i] \in Nat /\ seen.arms[i] \in Nat /\ seen.uses[i] <= 1 + seen.arms[i]
    BY <1>1, <1>4, <1>6 DEF BuildInv, BuildersStartFresh
  <2>2. CASE i = h
    BY <1>3, <1>5, <1>7, <2>1, <2>2
  <2>3. CASE i # h
    BY <1>3, <1>5, <2>1, <2>3
  <2> QED BY <2>2, <2>3
<1> QED BY <1>8, <1>9, <1>10, <1>11 DEF BuildInv


\* A builder is on its way.
LEMMA BuilderStep ==
  ASSUME SessionsInv, phase = "WORK", UNCHANGED <<config, binding, pending, phase>>,
         NEW id \in Own \cup {NoSession}, id \in {NoSession, mem.recovery},
         Dispatch("BUILDER", Cur, id),
         mem' \in {mem, Consumed(mem)}, id # NoSession => mem' = Consumed(mem),
         batch' \in Batch, batch'.no = batch.no, batch'.planner = batch.planner,
         batch'.tasks[Cur].state \in {"RUNNING", "RUNNING_FIX"},
         \A u \in Tasks : u # Cur => batch'.tasks[u].state = batch.tasks[u].state,
         \A u \in Tasks : batch'.tasks[u].auditor = batch.tasks[u].auditor
  PROVE  SessionsInv'
<1>1. /\ ShapeInv /\ PhaseInv /\ batch.no # 0 /\ Cur \in Tasks /\ IsCur(batch, Cur)
      /\ "BUILDER" \in Roles /\ id \in Ids
  BY CurOK, RolesAre, Numbers DEF SessionsInv, PhaseInv
<1>2. /\ call' \in Calls /\ call'.role = "BUILDER" /\ seen' \in History
      /\ opened' \in 0..MaxThreads /\ opened <= opened'
      /\ seen'.audited = seen.audited /\ seen'.planned = seen.planned /\ seen'.finals = seen.finals
      /\ seen'.bound = seen.bound
  BY <1>1, DispatchOK
<1>3. /\ mem' \in Managers(batch.no) /\ mem'.recovery \in {NoSession, mem.recovery}
      /\ mem'.live = mem.live /\ mem'.stamp = mem.stamp /\ mem'.gen = mem.gen
      /\ id # NoSession => mem'.recovery = NoSession
  <2>1. mem \in Managers(batch.no)
    BY <1>1 DEF ShapeInv
  <2> QED BY <2>1 DEF Managers, Consumed
<1>4. ShapeInv'
  BY <1>1, <1>2, <1>3 DEF ShapeInv
<1>5. PhaseInv'
  <2>1. \E t \in Tasks : IsCur(batch', t)
    BY SameTask
  <2>2. \A t \in Tasks : batch'.tasks[t].state # "FIX_REQUIRED"
    <3> SUFFICES ASSUME NEW t \in Tasks, t # Cur PROVE batch.tasks[t].state # "FIX_REQUIRED"
      OBVIOUS
    <3>1. t < Cur \/ t > Cur
      BY <1>1, Numbers DEF Tasks
    <3> QED BY <1>1, <3>1 DEF IsCur
  <2>3. IsCur(batch, 0)' = IsCur(batch', 0) /\ \A t \in Tasks : IsCur(batch, t)' = IsCur(batch', t)
    BY DEF IsCur
  <2> QED BY <1>1, <1>2, <2>1, <2>2, <2>3 DEF PhaseInv
<1>6. AuditInv'
  BY <1>2, <1>3, <1>4, AuditFrame, AuditorFrame
<1>7. PlanInv'
  BY <1>2, <1>3, PlanFrame
<1>8. BuildInv'
  BY <1>1, <1>3, BuilderSent
<1> QED BY <1>4, <1>5, <1>6, <1>7, <1>8 DEF SessionsInv

\* The task ends the batch: nobody is running any more.
LEMMA OverStep ==
  ASSUME SessionsInv, phase = "WORK", NEW s \in {"FAILED", "BLOCKED"}, Over(s),
         UNCHANGED <<config, binding, pending, opened, seen>>, call' = NoCall,
         mem' \in Managers(batch.no), mem'.recovery \in {NoSession, mem.recovery}, AuditorOf(mem)'
  PROVE  SessionsInv'
<1>1. /\ ShapeInv /\ batch.no # 0 /\ Cur \in Tasks /\ phase' = "IDLE"
      /\ batch' = WithTask(s) /\ s \in TaskStates
      /\ NoCall \in Calls /\ call'.role = "none"
  BY CurOK, Numbers DEF SessionsInv, PhaseInv, Over, NoCall, Calls, TaskStates
<1>2. /\ batch' \in Batch /\ batch'.no = batch.no /\ batch'.planner = batch.planner
      /\ \A u \in Tasks : batch'.tasks[u].auditor = batch.tasks[u].auditor
  BY <1>1, WithTaskOK
<1>3. ShapeInv'
  BY <1>1, <1>2 DEF ShapeInv
<1>4. PhaseInv'
  BY <1>1 DEF PhaseInv
<1>5. opened <= opened'
  BY <1>1 DEF ShapeInv
<1>6. AuditInv' /\ PlanInv' /\ BuildInv'
  BY <1>1, <1>2, <1>3, <1>5, AuditFrame, PlanFrame, BuildFrame
<1> QED BY <1>3, <1>4, <1>6 DEF SessionsInv

\* A builder is sent to build, if the policy lets it, or in the armed session.
LEMMA BeginBuildStep ==
  ASSUME SessionsInv, BeginBuild PROVE SessionsInv'
<1>1. /\ phase = "WORK" /\ call = NoCall /\ mem' = Consumed(mem)
      /\ UNCHANGED <<config, binding, pending>>
      /\ ShapeInv /\ Cur \in Tasks /\ batch.no # 0
  BY CurOK DEF BeginBuild, At, Idle, SessionsInv, PhaseInv
<1>2. /\ mem' \in Managers(batch.no) /\ mem'.recovery = NoSession
      /\ mem'.live = mem.live /\ mem'.stamp = mem.stamp /\ mem'.gen = mem.gen
      /\ mem.recovery \in Own \cup {NoSession}
  <2>1. mem \in Managers(batch.no)
    BY <1>1 DEF ShapeInv
  <2> QED BY <1>1, <2>1 DEF Managers, Consumed
<1>3. ASSUME NEW id \in {NoSession, mem.recovery}, Dispatch("BUILDER", Cur, id),
             batch' = WithTask("RUNNING"), UNCHANGED phase
      PROVE  SessionsInv'
  <2>1. "RUNNING" \in TaskStates /\ id \in Own \cup {NoSession}
    BY <1>2, <1>3 DEF TaskStates
  <2>2. /\ batch' \in Batch /\ batch'.no = batch.no /\ batch'.planner = batch.planner
        /\ batch'.tasks[Cur].state = "RUNNING"
        /\ \A u \in Tasks : u # Cur => batch'.tasks[u] = batch.tasks[u]
        /\ \A u \in Tasks : batch'.tasks[u].auditor = batch.tasks[u].auditor
    BY <1>1, <1>3, <2>1, WithTaskOK
  <2> QED BY <1>1, <1>2, <1>3, <2>1, <2>2, BuilderStep
<1>4. CASE UNCHANGED <<batch, phase, call, opened, seen>>
  <2>1. ShapeInv' /\ opened <= opened'
    BY <1>1, <1>2, <1>4 DEF ShapeInv
  <2>2. PhaseInv'
    BY <1>4, RowsFrame
  <2>3. AuditInv' /\ PlanInv' /\ BuildInv'
    BY <1>1, <1>2, <1>4, <2>1, AuditFrame, AuditorFrame, PlanFrame, BuildFrame
  <2> QED BY <2>1, <2>2, <2>3 DEF SessionsInv
<1>5. CASE Over("BLOCKED") /\ UNCHANGED <<call, opened, seen>>
  <2>1. AuditorOf(mem)'
    <3>1. batch'.no = batch.no /\ phase' # "WORK"
      <4>1. batch' = WithTask("BLOCKED") /\ phase' = "IDLE" /\ "BLOCKED" \in TaskStates
        BY <1>5 DEF Over, TaskStates
      <4> QED BY <1>1, <4>1, WithTaskOK
    <3> QED BY <1>2, <1>5, <3>1, AuditorFrame
  <2> QED BY <1>1, <1>2, <1>5, <2>1, OverStep
<1> QED BY <1>3, <1>4, <1>5 DEF BeginBuild, ResumeRefused


\* A builder is sent to fix, if the policy lets it.
LEMMA BeginFixStep ==
  ASSUME SessionsInv, BeginFix PROVE SessionsInv'
<1>1. /\ phase = "WORK" /\ call = NoCall /\ UNCHANGED <<config, binding, mem, pending>>
      /\ batch.tasks[Cur].state = "FIX_REQUIRED"
      /\ ShapeInv /\ Cur \in Tasks /\ batch.no # 0 /\ mem' \in Managers(batch.no)
  BY CurOK DEF BeginFix, At, Idle, SessionsInv, PhaseInv, ShapeInv
<1>2. CASE /\ Dispatch("BUILDER", Cur, NoSession) /\ UNCHANGED phase
           /\ batch' = [WithTask("RUNNING_FIX") EXCEPT !.fixes = @ + 1]
  <2>1. "RUNNING_FIX" \in TaskStates /\ batch.fixes < MaxFixes
    BY <1>1 DEF TaskStates, SessionsInv, PhaseInv
  <2>2. PICK b : b = WithTask("RUNNING_FIX")
    OBVIOUS
  <2>3. /\ b \in Batch /\ b.no = batch.no /\ b.planner = batch.planner /\ b.fixes = batch.fixes
        /\ b.tasks[Cur].state = "RUNNING_FIX"
        /\ \A u \in Tasks : u # Cur => b.tasks[u] = batch.tasks[u]
        /\ \A u \in Tasks : b.tasks[u].auditor = batch.tasks[u].auditor
    BY <1>1, <2>1, <2>2, WithTaskOK
  <2>4. batch' = [b EXCEPT !.fixes = @ + 1] /\ b.fixes + 1 \in 0..MaxFixes
    BY <1>2, <2>1, <2>2, <2>3, Numbers DEF Batch
  <2>5. batch' \in Batch /\ batch'.no = b.no /\ batch'.planner = b.planner /\ batch'.tasks = b.tasks
    BY <2>3, <2>4 DEF Batch
  <2> QED BY <1>1, <1>2, <2>3, <2>5, BuilderStep
<1>3. CASE Over("BLOCKED") /\ UNCHANGED <<call, opened, seen>>
  <2>1. AuditorOf(mem)'
    <3>1. batch' = WithTask("BLOCKED") /\ phase' = "IDLE" /\ "BLOCKED" \in TaskStates
      BY <1>3 DEF Over, TaskStates
    <3>2. batch'.no = batch.no
      BY <1>1, <3>1, WithTaskOK
    <3> QED BY <1>1, <1>3, <3>1, <3>2, AuditorFrame
  <2> QED BY <1>1, <1>3, <2>1, OverStep
<1> QED BY <1>2, <1>3 DEF BeginFix

\* The session the next audit runs in: that of the batch, once it has one.
LEMMA AuditorChosen ==
  ASSUME SessionsInv, phase = "WORK", NEW m, m = Seed(RestoreAuditor(mem, Cur), "TASK_AUDITOR"),
         NEW id, id = Decide(m, "TASK_AUDITOR")
  PROVE  /\ m \in Managers(batch.no) /\ m.recovery = mem.recovery
         /\ \A r \in Roles : r # "TASK_AUDITOR" => m.live[r] = mem.live[r]
         /\ AuditorOf(m)
         /\ id \in Ids /\ (id # NoSession => id \in Foreign \cup seen.audited[batch.no])
         /\ seen.audited[batch.no] # {} => id \in seen.audited[batch.no]
<1>1. /\ ShapeInv /\ PhaseInv /\ AuditInv /\ batch.no \in Nat \ {0} /\ batch.no \in Batches
      /\ mem \in Managers(batch.no) /\ binding \in [Bindable -> Ids \ Own]
      /\ "TASK_AUDITOR" \in Roles /\ "TASK_AUDITOR" \in Bindable
      /\ Batches \cap {batch.no} = {batch.no} /\ Cur \in Tasks
  BY CurOK, Numbers, RolesAre DEF SessionsInv, ShapeInv, PhaseInv, Batch, Batches
<1>2. /\ seen.audited[batch.no] # {} => config.stateful /\ Audited(batch) # {}
      /\ \A t \in Audited(batch) : batch.tasks[t].auditor \in seen.audited[batch.no]
  BY <1>1 DEF AuditInv
<1>3. PICK s : s = RestoreAuditor(mem, Cur)
  OBVIOUS
<1>4. \/ s = mem /\ (mem.live["TASK_AUDITOR"] # NoSession \/ Audited(batch) = {})
      \/ \E t \in Audited(batch) :
           /\ mem.live["TASK_AUDITOR"] = NoSession
           /\ s = Restore(mem, "TASK_AUDITOR", batch.tasks[t].auditor)
  <2>1. CASE mem.live["TASK_AUDITOR"] # NoSession \/ Audited(batch) = {}
    BY <1>3, <2>1 DEF RestoreAuditor
  <2>2. CASE ~(mem.live["TASK_AUDITOR"] # NoSession \/ Audited(batch) = {})
    <3>1. PICK from : from = IF Cur \in Audited(batch) THEN Cur
                             ELSE CHOOSE u \in Audited(batch) : \A v \in Audited(batch) : v <= u
      OBVIOUS
    <3>2. s = Restore(mem, "TASK_AUDITOR", batch.tasks[from].auditor)
      BY <1>3, <2>2, <3>1 DEF RestoreAuditor
    <3>3. from \in Audited(batch)
      <4>1. \E u \in Audited(batch) : \A v \in Audited(batch) : v <= u
        BY <2>2, LastTask DEF Audited
      <4> QED BY <3>1, <4>1
    <3> QED BY <2>2, <3>2, <3>3
  <2> QED BY <2>1, <2>2
<1>5. ASSUME s = mem, mem.live["TASK_AUDITOR"] # NoSession \/ Audited(batch) = {}
      PROVE  /\ m \in Managers(batch.no) /\ m.recovery = mem.recovery
             /\ \A r \in Roles : r # "TASK_AUDITOR" => m.live[r] = mem.live[r]
             /\ AuditorOf(m)
             /\ seen.audited[batch.no] # {} => m.live["TASK_AUDITOR"] # NoSession
  <2>1. PICK seed : seed = Seed(mem, "TASK_AUDITOR")
    OBVIOUS
  <2>2. /\ seed \in Managers(batch.no) /\ seed.recovery = mem.recovery
        /\ \A r \in Roles : r # "TASK_AUDITOR" => seed.live[r] = mem.live[r]
        /\ \/ seed = mem
           \/ /\ mem.live["TASK_AUDITOR"] = NoSession /\ binding["TASK_AUDITOR"] # NoSession
              /\ seed.live["TASK_AUDITOR"] = binding["TASK_AUDITOR"]
    BY <1>1, <2>1, SeedOK
  <2>3. m = seed
    BY <1>3, <1>5, <2>1
  <2>4. binding["TASK_AUDITOR"] # NoSession => binding["TASK_AUDITOR"] \in Foreign
    BY <1>1 DEF Ids
  <2>5. AuditorOf(m)
    <3>1. CASE m = mem
      BY <1>1, <3>1 DEF AuditInv
    <3>2. CASE m # mem
      <4>1. seen.audited[batch.no] = {} /\ m.live["TASK_AUDITOR"] \in Foreign
        BY <1>2, <1>5, <2>2, <2>3, <2>4, <3>2
      <4> QED BY <4>1 DEF AuditorOf
    <3> QED BY <3>1, <3>2
  <2>6. seen.audited[batch.no] # {} => m.live["TASK_AUDITOR"] # NoSession
    BY <1>2, <1>5, <2>2, <2>3
  <2> QED BY <2>2, <2>3, <2>5, <2>6
<1>6. ASSUME NEW t \in Audited(batch), mem.live["TASK_AUDITOR"] = NoSession,
             s = Restore(mem, "TASK_AUDITOR", batch.tasks[t].auditor)
      PROVE  /\ m \in Managers(batch.no) /\ m.recovery = mem.recovery
             /\ \A r \in Roles : r # "TASK_AUDITOR" => m.live[r] = mem.live[r]
             /\ AuditorOf(m)
             /\ seen.audited[batch.no] # {} => m.live["TASK_AUDITOR"] # NoSession
  <2>1. PICK a \in seen.audited[batch.no] : a = batch.tasks[t].auditor
    BY <1>2
  <2>2. a \in Ids \ {NoSession}
    BY <1>1, ExistingOK DEF AuditInv
  <2>3. /\ s \in Managers(batch.no) /\ s.recovery = mem.recovery
        /\ \A r \in Roles : r # "TASK_AUDITOR" => s.live[r] = mem.live[r]
        /\ s.live["TASK_AUDITOR"] = a /\ s.stamp["TASK_AUDITOR"] = s.gen
    BY <1>1, <1>6, <2>1, <2>2, RestoreOK
  <2>4. m = s
    BY <1>3, <2>2, <2>3 DEF Seed
  <2>5. AuditorOf(s)
    BY <1>1, <2>1, <2>3 DEF AuditorOf
  <2> QED BY <2>2, <2>3, <2>4, <2>5
<1>7. /\ m \in Managers(batch.no) /\ m.recovery = mem.recovery
      /\ \A r \in Roles : r # "TASK_AUDITOR" => m.live[r] = mem.live[r]
      /\ AuditorOf(m)
      /\ seen.audited[batch.no] # {} => m.live["TASK_AUDITOR"] # NoSession
  BY <1>4, <1>5, <1>6
<1>8. m.live["TASK_AUDITOR"] \in Ids /\ NoSession \in Ids
  BY <1>1, <1>7, Numbers DEF Managers
<1>9. id = IF config.stateful /\ OfThisBatch(m, "TASK_AUDITOR") THEN m.live["TASK_AUDITOR"] ELSE NoSession
  BY DEF Decide, Policy
<1>10. id # NoSession => id \in Foreign \cup seen.audited[batch.no]
  BY <1>1, <1>7, <1>9 DEF AuditorOf, OfThisBatch
<1>11. seen.audited[batch.no] # {} => id \in seen.audited[batch.no]
  BY <1>2, <1>7, <1>9 DEF AuditorOf, OfThisBatch
<1> QED BY <1>7, <1>8, <1>9, <1>10, <1>11


\* An audit is under way in the session of its batch, or in a new one.
LEMMA AuditSent ==
  ASSUME SessionsInv, ShapeInv', phase = "WORK", UNCHANGED <<config, batch, phase>>,
         NEW id \in Ids, Dispatch("TASK_AUDITOR", Cur, id), AuditorOf(mem)',
         id # NoSession => id \in Foreign \cup seen.audited[batch.no],
         seen.audited[batch.no] # {} => id \in seen.audited[batch.no]
  PROVE  AuditInv'
<1>1. /\ ShapeInv /\ PhaseInv /\ AuditInv /\ batch.no # 0 /\ batch.no \in Batches /\ Cur \in Tasks
      /\ "TASK_AUDITOR" \in Roles /\ opened \in Nat /\ opened' \in Nat
  BY CurOK, Numbers, RolesAre DEF SessionsInv, ShapeInv, PhaseInv, Batch, Batches
<1>2. /\ opened <= opened' /\ seen'.audited = seen.audited
      /\ id # NoSession => call'.thread = id /\ opened' = opened
      /\ id = NoSession => call'.thread = opened + 1 /\ opened' = opened + 1 /\ opened' \in Own
  BY <1>1, DispatchOK
<1>3. Existing \subseteq Existing' /\ Foreign \subseteq Existing /\ Foreign \cap Own = {}
      /\ Existing \subseteq Ids \ {NoSession}
  <2>1. Existing \subseteq Existing' /\ Foreign \subseteq Existing
    BY <1>1, <1>2 DEF Existing
  <2> QED BY <1>1, <2>1, ExistingOK, Numbers
<1>4. \A b \in Batches : seen.audited[b] \subseteq Existing /\ \E x \in Ids : seen.audited[b] \subseteq {x}
  BY <1>1 DEF AuditInv
<1>5. PICK h : h = call'.thread
  OBVIOUS
<1>6. /\ h \in Existing' /\ seen.audited[batch.no] \subseteq {h}
      /\ \A b \in Batches : b # batch.no => h \notin seen.audited[b] \cap Own
  <2>1. CASE id = NoSession
    <3>1. h = opened + 1 /\ opened' = opened + 1 /\ h \in Own
      BY <1>2, <1>5, <2>1
    <3>2. h \in 1..opened' /\ h \notin 1..opened
      BY <1>1, <3>1
    <3>3. seen.audited[batch.no] = {}
      BY <1>1, <1>3, <1>4, <2>1
    <3>4. h \in Existing' /\ h \notin Existing
      BY <1>3, <3>1, <3>2 DEF Existing
    <3> QED BY <1>4, <3>3, <3>4
  <2>2. CASE id # NoSession
    <3>1. h = id /\ h \in Foreign \cup seen.audited[batch.no]
      BY <1>2, <1>5, <2>2
    <3>2. h \in Existing'
      BY <1>1, <1>3, <1>4, <3>1
    <3>3. seen.audited[batch.no] \subseteq {h}
      BY <1>1, <1>4, <3>1
    <3>4. ASSUME NEW b \in Batches, b # batch.no PROVE h \notin seen.audited[b] \cap Own
      BY <1>1, <1>3, <3>1, <3>4 DEF AuditInv
    <3> QED BY <3>2, <3>3, <3>4
  <2> QED BY <2>1, <2>2
<1>7. AuditInv /\ UNCHANGED <<config, batch, phase>>
  BY <1>1
<1>8. /\ \A b \in Batches : /\ seen'.audited[b] \subseteq Existing'
                            /\ seen'.audited[b] # {} => config'.stateful
                            /\ b > batch'.no => seen'.audited[b] = {}
                            /\ \E x \in Ids : seen'.audited[b] \subseteq {x}
      /\ \A b, c \in Batches : b # c => seen'.audited[b] \cap seen'.audited[c] \cap Own = {}
  BY <1>2, <1>3, <1>7 DEF AuditInv
<1>9. /\ phase' = "PLAN" => seen'.audited[batch'.no] = {}
      /\ batch'.no # 0 =>
           /\ \A t \in Audited(batch') : batch'.tasks[t].auditor \in seen'.audited[batch'.no]
           /\ seen'.audited[batch'.no] # {} => Audited(batch') # {}
  BY <1>2, <1>7 DEF AuditInv
<1>10. call'.role = "TASK_AUDITOR" =>
         /\ call'.thread \in Existing' /\ seen'.audited[batch'.no] \subseteq {call'.thread}
         /\ \A b \in Batches : b # batch'.no => call'.thread \notin seen'.audited[b] \cap Own
  BY <1>2, <1>5, <1>6
<1> QED BY <1>8, <1>9, <1>10 DEF AuditInv

\* An audit is sent, or refused by its engine, which ends the batch.
LEMMA BeginAuditStep ==
  ASSUME SessionsInv, BeginAudit PROVE SessionsInv'
<1>1. /\ phase = "WORK" /\ call = NoCall /\ UNCHANGED <<config, binding, pending>>
      /\ ShapeInv /\ Cur \in Tasks /\ batch.no # 0 /\ "TASK_AUDITOR" \in Roles
  BY CurOK, RolesAre DEF BeginAudit, At, Idle, SessionsInv, PhaseInv
<1>2. PICK m : m = Seed(RestoreAuditor(mem, Cur), "TASK_AUDITOR")
  OBVIOUS
<1>3. PICK id : id = Decide(m, "TASK_AUDITOR")
  OBVIOUS
<1>4. /\ m \in Managers(batch.no) /\ m.recovery = mem.recovery
      /\ \A r \in Roles : r # "TASK_AUDITOR" => m.live[r] = mem.live[r]
      /\ AuditorOf(m)
      /\ id \in Ids /\ (id # NoSession => id \in Foreign \cup seen.audited[batch.no])
      /\ seen.audited[batch.no] # {} => id \in seen.audited[batch.no]
  BY <1>1, <1>2, <1>3, AuditorChosen
<1>5. mem' = m /\ (\/ Dispatch("TASK_AUDITOR", Cur, id) /\ UNCHANGED <<batch, phase>>
                   \/ Over("FAILED") /\ UNCHANGED <<call, opened, seen>>)
  BY <1>2, <1>3 DEF BeginAudit
<1>6. CASE Dispatch("TASK_AUDITOR", Cur, id) /\ UNCHANGED <<batch, phase>>
  <2>1. /\ call' \in Calls /\ call'.role = "TASK_AUDITOR" /\ seen' \in History
        /\ opened' \in 0..MaxThreads /\ opened <= opened'
        /\ seen'.audited = seen.audited /\ seen'.planned = seen.planned /\ seen'.finals = seen.finals
        /\ seen'.uses = seen.uses /\ seen'.arms = seen.arms /\ seen'.bound = seen.bound
    BY <1>1, <1>4, <1>6, DispatchOK
  <2>2. ShapeInv'
    BY <1>1, <1>4, <1>5, <1>6, <2>1 DEF ShapeInv
  <2>3. AuditorOf(mem)'
    BY <1>4, <1>5, <1>6, <2>1 DEF AuditorOf
  <2>4. AuditInv'
    BY <1>1, <1>4, <1>6, <2>2, <2>3, AuditSent
  <2>5. PhaseInv'
    BY <1>1, <1>6, <2>1 DEF SessionsInv, PhaseInv, IsCur
  <2>6. PlanInv' /\ BuildInv'
    BY <1>1, <1>4, <1>5, <1>6, <2>1, <2>2, RolesAre, PlanFrame, BuildFrame
  <2> QED BY <2>2, <2>4, <2>5, <2>6 DEF SessionsInv
<1>7. CASE Over("FAILED") /\ UNCHANGED <<call, opened, seen>>
  <2>1. AuditorOf(mem)'
    <3>1. batch' = WithTask("FAILED") /\ phase' = "IDLE" /\ "FAILED" \in TaskStates
      BY <1>7 DEF Over, TaskStates
    <3>2. batch'.no = batch.no
      BY <1>1, <3>1, WithTaskOK
    <3> QED BY <1>4, <1>5, <1>7, <3>1, <3>2 DEF AuditorOf
  <2> QED BY <1>1, <1>4, <1>5, <1>7, <2>1, OverStep
<1> QED BY <1>5, <1>6, <1>7


\* The session the final audit of a batch runs in, and what the manager learns.
LEMMA FinalChosen ==
  ASSUME SessionsInv, BeginFinal
  PROVE  /\ mem' \in Managers(batch.no) /\ mem'.recovery = mem.recovery
         /\ mem'.live["TASK_AUDITOR"] = mem.live["TASK_AUDITOR"]
         /\ mem'.stamp["TASK_AUDITOR"] = mem.stamp["TASK_AUDITOR"]
         /\ mem'.gen = mem.gen \/ (mem.gen = 0 /\ mem'.gen = 1)
         /\ "ORCHESTRATOR" \notin seen.bound => mem'.live["ORCHESTRATOR"] = mem.live["ORCHESTRATOR"]
         /\ \/ UNCHANGED <<call, opened, seen>>
            \/ \E id \in Ids :
                 /\ Dispatch("FINAL_AUDITOR", 0, id)
                 /\ config.same /\ "ORCHESTRATOR" \notin seen.bound
                      /\ seen.planned[batch.no] # NoSession => id = seen.planned[batch.no]
<1>1. /\ ShapeInv /\ PlanInv /\ phase = "READY" /\ batch.no \in Nat \ {0}
      /\ mem \in Managers(batch.no) /\ binding \in [Bindable -> Ids \ Own]
      /\ "ORCHESTRATOR" \in Roles /\ "ORCHESTRATOR" \in Bindable
      /\ "TASK_AUDITOR" \in Roles /\ "FINAL_AUDITOR" \in Roles /\ "FINAL_AUDITOR" \in Bindable
  BY RolesAre DEF SessionsInv, ShapeInv, PhaseInv, BeginFinal, Batch
<1>2. PICK seeded : seeded = Seed(mem, "FINAL_AUDITOR")
  OBVIOUS
<1>3. /\ seeded \in Managers(batch.no) /\ seeded.recovery = mem.recovery
      /\ seeded.gen = mem.gen \/ (mem.gen = 0 /\ seeded.gen = 1)
      /\ \A r \in Roles : r # "FINAL_AUDITOR" =>
           seeded.live[r] = mem.live[r] /\ seeded.stamp[r] = mem.stamp[r]
  BY <1>1, <1>2, SeedOK
<1>4. PICK shared : shared = Architect(seeded)
  OBVIOUS
<1>5. shared \in Ids
  <2>1. seeded.live["ORCHESTRATOR"] \in Ids /\ binding["ORCHESTRATOR"] \in Ids /\ batch.planner \in Ids
    BY <1>1, <1>3 DEF Managers, ShapeInv, Batch
  <2> QED BY <1>4, <2>1 DEF Architect, Bound
<1>6. PICK w : w = IF seeded.live["ORCHESTRATOR"] = NoSession /\ Bound("ORCHESTRATOR") # NoSession
                   THEN Restore(seeded, "ORCHESTRATOR", shared) ELSE seeded
  OBVIOUS
<1>7. /\ w \in Managers(batch.no) /\ w.recovery = mem.recovery
      /\ w.gen = mem.gen \/ (mem.gen = 0 /\ w.gen = 1)
      /\ w.live["TASK_AUDITOR"] = mem.live["TASK_AUDITOR"]
      /\ w.stamp["TASK_AUDITOR"] = mem.stamp["TASK_AUDITOR"]
      /\ "ORCHESTRATOR" \notin seen.bound => w.live["ORCHESTRATOR"] = mem.live["ORCHESTRATOR"]
  <2>1. CASE w = seeded
    BY <1>1, <1>3, <2>1
  <2>2. CASE w = Restore(seeded, "ORCHESTRATOR", shared) /\ Bound("ORCHESTRATOR") # NoSession
    <3>1. "ORCHESTRATOR" \in seen.bound
      BY <1>1, <2>2 DEF PlanInv, Bound
    <3>2. /\ w \in Managers(batch.no) /\ w.recovery = seeded.recovery
          /\ w.gen = seeded.gen \/ (seeded.gen = 0 /\ w.gen = 1)
          /\ \A r \in Roles : r # "ORCHESTRATOR" =>
               w.live[r] = seeded.live[r] /\ w.stamp[r] = seeded.stamp[r]
      <4>1. /\ batch.no \in Nat \ {0} /\ seeded \in Managers(batch.no) /\ "ORCHESTRATOR" \in Roles
            /\ shared \in Ids /\ w = Restore(seeded, "ORCHESTRATOR", shared)
        BY <1>1, <1>3, <1>5, <2>2
      <4> QED BY ONLY <4>1, RestoreOK
    <3> QED BY <1>1, <1>3, <3>1, <3>2
  <2> QED BY <1>6, <2>1, <2>2
<1>8. mem' \in {seeded, w, Restore(w, "FINAL_AUDITOR", shared)}
  BY <1>2, <1>4, <1>6 DEF BeginFinal
<1>9. /\ mem' \in Managers(batch.no) /\ mem'.recovery = mem.recovery
      /\ mem'.live["TASK_AUDITOR"] = mem.live["TASK_AUDITOR"]
      /\ mem'.stamp["TASK_AUDITOR"] = mem.stamp["TASK_AUDITOR"]
      /\ mem'.gen = mem.gen \/ (mem.gen = 0 /\ mem'.gen = 1)
      /\ "ORCHESTRATOR" \notin seen.bound => mem'.live["ORCHESTRATOR"] = mem.live["ORCHESTRATOR"]
  <2>1. CASE mem' = seeded
    BY <1>1, <1>3, <2>1
  <2>2. CASE mem' = w
    BY <1>7, <2>2
  <2>3. CASE mem' = Restore(w, "FINAL_AUDITOR", shared)
    <3>1. PICK v : v = Restore(w, "FINAL_AUDITOR", shared)
      OBVIOUS
    <3>2. /\ v \in Managers(batch.no) /\ v.recovery = w.recovery
          /\ v.gen = w.gen \/ (w.gen = 0 /\ v.gen = 1)
          /\ \A r \in Roles : r # "FINAL_AUDITOR" => v.live[r] = w.live[r] /\ v.stamp[r] = w.stamp[r]
      <4>1. /\ batch.no \in Nat \ {0} /\ w \in Managers(batch.no) /\ "FINAL_AUDITOR" \in Roles
            /\ shared \in Ids
        BY <1>1, <1>5, <1>7
      <4> QED BY ONLY <3>1, <4>1, RestoreOK
    <3> QED BY <1>1, <1>7, <2>3, <3>1, <3>2
  <2> QED BY <1>8, <2>1, <2>2, <2>3
<1>10. PICK id : id = IF config.same THEN shared ELSE Decide(seeded, "FINAL_AUDITOR")
  OBVIOUS
<1>11. id \in Ids
  <2>1. Decide(seeded, "FINAL_AUDITOR") \in Ids
    BY <1>1, <1>3, Numbers DEF Decide, Managers
  <2> QED BY <1>5, <1>10, <2>1
<1>12. ASSUME config.same, "ORCHESTRATOR" \notin seen.bound, seen.planned[batch.no] # NoSession
       PROVE  id = seen.planned[batch.no]
  <2>1. /\ mem.live["ORCHESTRATOR"] \in {NoSession, seen.planned[batch.no]}
        /\ batch.planner = seen.planned[batch.no] /\ binding["ORCHESTRATOR"] = NoSession
    BY <1>1, <1>12 DEF PlanInv
  <2>2. seeded.live["ORCHESTRATOR"] = mem.live["ORCHESTRATOR"]
    BY <1>1, <1>3
  <2> QED BY <1>4, <1>10, <1>12, <2>1, <2>2 DEF Architect, Bound
<1>13. Dispatch("FINAL_AUDITOR", 0, id) \/ UNCHANGED <<call, opened, seen>>
  BY <1>2, <1>4, <1>10 DEF BeginFinal, ResumeRefused
<1> QED BY <1>9, <1>11, <1>12, <1>13

\* The final audit of a batch is sent, or refused by its engine.
LEMMA BeginFinalStep ==
  ASSUME SessionsInv, BeginFinal PROVE SessionsInv'
<1>1. /\ phase = "READY" /\ call = NoCall /\ UNCHANGED <<config, binding, batch, phase, pending>>
      /\ ShapeInv /\ PlanInv /\ batch.no # 0 /\ batch.no \in Batches /\ seen \in History
      /\ "FINAL_AUDITOR" \in Roles
  BY RolesAre, Numbers DEF BeginFinal, Idle, ResumeRefused, SessionsInv, PhaseInv, ShapeInv, Batch, Batches
<1>2. /\ mem' \in Managers(batch.no) /\ mem'.recovery = mem.recovery
      /\ mem'.live["TASK_AUDITOR"] = mem.live["TASK_AUDITOR"]
      /\ mem'.stamp["TASK_AUDITOR"] = mem.stamp["TASK_AUDITOR"]
      /\ mem'.gen = mem.gen \/ (mem.gen = 0 /\ mem'.gen = 1)
      /\ "ORCHESTRATOR" \notin seen.bound => mem'.live["ORCHESTRATOR"] = mem.live["ORCHESTRATOR"]
  BY FinalChosen
<1>3. CASE UNCHANGED <<call, opened, seen>>
  <2>1. ShapeInv' /\ opened <= opened' /\ call'.role = call.role
    BY <1>1, <1>2, <1>3 DEF ShapeInv
  <2>2. PhaseInv'
    BY <1>1, <2>1, RowsFrame
  <2>3. PlanInv'
    BY <1>1, <1>2, <1>3, PlanFrame
  <2>4. AuditInv' /\ BuildInv'
    BY <1>1, <1>2, <1>3, <2>1, AuditFrame, AuditorFrame, BuildFrame
  <2> QED BY <2>1, <2>2, <2>3, <2>4 DEF SessionsInv
<1>4. ASSUME NEW id \in Ids, Dispatch("FINAL_AUDITOR", 0, id),
             config.same /\ "ORCHESTRATOR" \notin seen.bound /\ seen.planned[batch.no] # NoSession
               => id = seen.planned[batch.no]
      PROVE  SessionsInv'
  <2>1. /\ call' \in Calls /\ call'.role = "FINAL_AUDITOR" /\ seen' \in History
        /\ opened' \in 0..MaxThreads /\ opened <= opened'
        /\ seen'.audited = seen.audited /\ seen'.planned = seen.planned
        /\ seen'.uses = seen.uses /\ seen'.arms = seen.arms /\ seen'.bound = seen.bound
        /\ id # NoSession => call'.thread = id
        /\ "ORCHESTRATOR" \in seen.bound => seen'.finals = seen.finals
        /\ "ORCHESTRATOR" \notin seen.bound =>
             seen'.finals = [seen.finals EXCEPT ![batch.no] = call'.thread]
    BY <1>1, <1>4, DispatchOK
  <2>2. ShapeInv'
    BY <1>1, <1>2, <2>1 DEF ShapeInv
  <2>3. PhaseInv'
    BY <1>1, <2>1 DEF PhaseInv
  <2>4. AuditInv' /\ BuildInv'
    BY <1>1, <1>2, <2>1, <2>2, AuditFrame, AuditorFrame, BuildFrame
  <2>5. seen.finals \in [Batches -> Ids]
    BY <1>1 DEF History
  <2>6. \A b \in Batches : b # batch.no => seen'.finals[b] = seen.finals[b]
    BY <2>1, <2>5
  <2>7. FinalInPlanningSession'
    <3> SUFFICES ASSUME NEW b \in Batches, config.same, seen.planned[b] # NoSession,
                        seen'.finals[b] # NoSession
                 PROVE  seen'.finals[b] = seen.planned[b]
      BY <1>1, <2>1 DEF FinalInPlanningSession
    <3>1. CASE b # batch.no \/ "ORCHESTRATOR" \in seen.bound
      BY <1>1, <2>1, <2>6, <3>1 DEF PlanInv, FinalInPlanningSession
    <3>2. CASE b = batch.no /\ "ORCHESTRATOR" \notin seen.bound
      <4>1. id = seen.planned[b] /\ call'.thread = id
        BY <1>4, <2>1, <3>2
      <4> QED BY <1>1, <2>1, <2>5, <3>2, <4>1
    <3> QED BY <3>1, <3>2
  <2>8. PlanInv'
    <3>1. \A b \in Batches : b > batch.no => seen'.planned[b] = NoSession /\ seen'.finals[b] = NoSession
      <4>1. \A b \in Batches : b > batch.no => b # batch.no
        BY <1>1, Numbers DEF Batches
      <4> QED BY <1>1, <2>1, <2>6, <4>1 DEF PlanInv
    <3> QED BY <1>1, <1>2, <2>1, <2>7, <3>1 DEF PlanInv
  <2> QED BY <2>2, <2>3, <2>4, <2>8 DEF SessionsInv
<1> QED BY <1>3, <1>4, FinalChosen


-----------------------------------------------------------------------------
(* Prompts return *)

\* What a prompt reports is the session it ran in, or none.
LEMMA ReportedIs ==
  ASSUME ShapeInv, NEW id \in Reported PROVE id \in Ids /\ id \in {call.thread, NoSession}
BY Numbers DEF ShapeInv, Reported, Calls

\* A batch that is at its first task.
LEMMA FirstTask ==
  ASSUME NEW b, \A t \in Tasks : b.tasks[t].state = "PENDING"
  PROVE  IsCur(b, 1) /\ 1 \in Tasks
<1>1. 1 \in Tasks /\ \A u \in Tasks : ~(u < 1)
  BY Numbers DEF Tasks
<1> QED BY <1>1 DEF IsCur

\* The plan is in, refused, or the call failed.
LEMMA PlanReturnsStep ==
  ASSUME SessionsInv, PlanReturns PROVE SessionsInv'
<1>1. /\ phase = "PLAN" /\ call.role = "ORCHESTRATOR" /\ call' = NoCall
      /\ UNCHANGED <<config, binding, opened, pending>>
      /\ ShapeInv /\ PhaseInv /\ PlanInv /\ AuditInv
      /\ batch.no \in Nat \ {0} /\ batch.no \in Batches /\ mem \in Managers(batch.no)
      /\ "ORCHESTRATOR" \in Roles /\ "TASK_AUDITOR" \in Roles
      /\ opened <= opened' /\ NoCall \in Calls /\ call'.role = "none"
  <2>1. ShapeInv /\ PhaseInv /\ PlanInv /\ AuditInv
    BY DEF SessionsInv
  <2>2. /\ call.role = "ORCHESTRATOR" /\ call' = NoCall
        /\ UNCHANGED <<config, binding, opened, pending>>
    BY DEF PlanReturns, Returned
  <2>3. NoCall \in Calls /\ NoCall.role = "none"
    BY Numbers DEF NoCall, Calls
  <2>4. phase = "PLAN" /\ batch.no # 0
    BY <2>1, <2>2 DEF PhaseInv
  <2>5. batch.no \in Nat \ {0} /\ batch.no \in Batches
    BY <2>1, <2>4, Numbers DEF ShapeInv, Batch, Batches
  <2>6. opened <= opened'
    BY <2>1, <2>2 DEF ShapeInv
  <2> QED BY <2>1, <2>2, <2>3, <2>4, <2>5, <2>6, RolesAre DEF ShapeInv
<1>2. PICK id \in Ids :
        \/ phase' = "IDLE" /\ mem' \in {mem, Register(mem, "ORCHESTRATOR", id)} /\ UNCHANGED <<batch, seen>>
        \/ /\ phase' = "WORK" /\ mem' = Register(mem, "ORCHESTRATOR", id)
           /\ batch' = [batch EXCEPT !.planner = id]
           /\ seen' = [seen EXCEPT !.planned[batch.no] = id]
  <2>1. CASE phase' = "IDLE" /\ UNCHANGED <<mem, batch, seen>>
    BY <2>1, Numbers
  <2>2. ASSUME NEW id \in Reported, Recorded("ORCHESTRATOR", id),
               \/ phase' = "IDLE" /\ UNCHANGED <<batch, seen>>
               \/ /\ phase' = "WORK" /\ batch' = [batch EXCEPT !.planner = id]
                  /\ seen' = [seen EXCEPT !.planned[batch.no] = id]
        PROVE  \E i \in Ids :
                 \/ phase' = "IDLE" /\ mem' \in {mem, Register(mem, "ORCHESTRATOR", i)} /\ UNCHANGED <<batch, seen>>
                 \/ /\ phase' = "WORK" /\ mem' = Register(mem, "ORCHESTRATOR", i)
                    /\ batch' = [batch EXCEPT !.planner = i]
                    /\ seen' = [seen EXCEPT !.planned[batch.no] = i]
    <3>1. id \in Ids
      BY <1>1, ReportedIs
    <3> QED BY <2>2, <3>1 DEF Recorded
  <2> QED BY <2>1, <2>2 DEF PlanReturns
<1>3. PICK m : m = Register(mem, "ORCHESTRATOR", id)
  OBVIOUS
<1>4. /\ m \in Managers(batch.no) /\ m.gen = mem.gen /\ m.recovery = mem.recovery
      /\ \A r \in Roles : r # "ORCHESTRATOR" => m.live[r] = mem.live[r] /\ m.stamp[r] = mem.stamp[r]
      /\ id # NoSession => m.live["ORCHESTRATOR"] = id
  BY <1>1, <1>3, RegisterOK
<1>5. /\ mem' \in Managers(batch.no) /\ mem'.gen = mem.gen /\ mem'.recovery = mem.recovery
      /\ mem'.live["TASK_AUDITOR"] = mem.live["TASK_AUDITOR"]
      /\ mem'.stamp["TASK_AUDITOR"] = mem.stamp["TASK_AUDITOR"]
  <2>1. mem' \in {mem, m}
    BY <1>2, <1>3
  <2> QED BY <1>1, <1>4, <2>1
<1>6. CASE phase' = "IDLE" /\ UNCHANGED <<batch, seen>>
  <2>1. ShapeInv'
    BY <1>1, <1>5, <1>6 DEF ShapeInv
  <2>2. PhaseInv'
    BY <1>1, <1>6 DEF PhaseInv
  <2>3. AuditInv' /\ PlanInv' /\ BuildInv'
    BY <1>1, <1>5, <1>6, <2>1, AuditFrame, AuditorFrame, PlanFrame, BuildFrame
  <2> QED BY <2>1, <2>2, <2>3 DEF SessionsInv
<1>7. CASE /\ phase' = "WORK" /\ mem' = m /\ batch' = [batch EXCEPT !.planner = id]
           /\ seen' = [seen EXCEPT !.planned[batch.no] = id]
  <2>1. /\ batch' \in Batch /\ batch'.no = batch.no /\ batch'.planner = id /\ batch'.tasks = batch.tasks
    BY <1>1, <1>7 DEF ShapeInv, Batch
  <2>2. /\ seen' \in History /\ seen'.audited = seen.audited /\ seen'.finals = seen.finals
        /\ seen'.uses = seen.uses /\ seen'.arms = seen.arms /\ seen'.bound = seen.bound
        /\ seen'.planned[batch.no] = id
        /\ \A b \in Batches : b # batch.no => seen'.planned[b] = seen.planned[b]
    BY <1>1, <1>7 DEF ShapeInv, History
  <2>3. ShapeInv'
    BY <1>1, <1>5, <1>7, <2>1, <2>2 DEF ShapeInv
  <2>4. PhaseInv'
    <3>1. \A t \in Tasks : batch'.tasks[t].state = "PENDING"
      BY <1>1, <2>1 DEF PhaseInv
    <3>2. \E t \in Tasks : IsCur(batch', t)
      BY <3>1, FirstTask
    <3> QED BY <1>1, <1>7, <2>1, <3>1, <3>2 DEF PhaseInv, IsCur
  <2>5. AuditInv' /\ BuildInv'
    BY <1>1, <1>5, <1>7, <2>1, <2>2, <2>3, AuditFrame, AuditorFrame, BuildFrame
  <2>6. /\ seen.planned[batch.no] = NoSession /\ seen.finals[batch.no] = NoSession
        /\ \A b \in Batches : b > batch.no =>
             b # batch.no /\ seen.planned[b] = NoSession /\ seen.finals[b] = NoSession
    <3>1. \A b \in Batches : b > batch.no => b # batch.no
      BY <1>1, Numbers DEF Batches
    <3> QED BY <1>1, <3>1 DEF PlanInv
  <2>7. FinalInPlanningSession'
    <3> SUFFICES ASSUME NEW b \in Batches, config.same, seen'.planned[b] # NoSession,
                        seen.finals[b] # NoSession
                 PROVE  seen.finals[b] = seen'.planned[b]
      BY <1>1, <2>2 DEF FinalInPlanningSession
    <3>1. b # batch.no
      BY <2>6
    <3> QED BY <1>1, <2>2, <3>1 DEF PlanInv, FinalInPlanningSession
  <2>8. PlanInv'
    BY <1>1, <1>4, <1>7, <2>1, <2>2, <2>6, <2>7 DEF PlanInv
  <2> QED BY <2>3, <2>4, <2>5, <2>8 DEF SessionsInv
<1> QED BY <1>2, <1>3, <1>6, <1>7

\* The builder is done, or its call failed.
LEMMA BuilderReturnsStep ==
  ASSUME SessionsInv, BuilderReturns PROVE SessionsInv'
<1>1. /\ phase = "WORK" /\ call' = NoCall /\ UNCHANGED <<config, binding, opened, pending, seen>>
      /\ ShapeInv /\ PhaseInv /\ Cur \in Tasks /\ IsCur(batch, Cur)
      /\ batch.no \in Nat /\ mem \in Managers(batch.no)
      /\ "BUILDER" \in Roles /\ "ORCHESTRATOR" \in Roles /\ "TASK_AUDITOR" \in Roles
      /\ opened <= opened' /\ NoCall \in Calls /\ call'.role = "none"
  <2>1. ShapeInv /\ PhaseInv
    BY DEF SessionsInv
  <2>2. /\ call.role = "BUILDER" /\ call' = NoCall
        /\ UNCHANGED <<config, binding, opened, pending, seen>>
    BY DEF BuilderReturns, Returned
  <2>3. phase = "WORK"
    BY <2>1, <2>2 DEF PhaseInv
  <2>4. NoCall \in Calls /\ NoCall.role = "none"
    BY Numbers DEF NoCall, Calls
  <2>5. opened <= opened' /\ batch.no \in Nat /\ mem \in Managers(batch.no)
    BY <2>1, <2>2 DEF ShapeInv, Batch
  <2> QED BY <2>1, <2>2, <2>3, <2>4, <2>5, CurOK, RolesAre
<1>2. CASE Over("FAILED") /\ UNCHANGED mem
  <2>1. AuditorOf(mem)'
    <3>1. batch' = WithTask("FAILED") /\ phase' = "IDLE" /\ "FAILED" \in TaskStates
      BY <1>2 DEF Over, TaskStates
    <3>2. batch'.no = batch.no
      BY <1>1, <3>1, WithTaskOK
    <3> QED BY <1>1, <1>2, <3>1, <3>2, AuditorFrame
  <2> QED BY <1>1, <1>2, <2>1, OverStep
<1>3. ASSUME NEW id \in Reported, Recorded("BUILDER", id), batch' = WithTask("AUDITING"), UNCHANGED phase
      PROVE  SessionsInv'
  <2>1. /\ mem' \in Managers(batch.no) /\ mem'.gen = mem.gen /\ mem'.recovery = mem.recovery
        /\ \A r \in Roles : r # "BUILDER" => mem'.live[r] = mem.live[r] /\ mem'.stamp[r] = mem.stamp[r]
    BY <1>1, <1>3, ReportedIs, RegisterOK DEF Recorded
  <2>2. /\ batch' \in Batch /\ batch'.no = batch.no /\ batch'.planner = batch.planner
        /\ batch'.tasks[Cur].state = "AUDITING"
        /\ \A u \in Tasks : u # Cur => batch'.tasks[u] = batch.tasks[u]
        /\ \A u \in Tasks : batch'.tasks[u].auditor = batch.tasks[u].auditor
    BY <1>1, <1>3, WithTaskOK DEF TaskStates
  <2>3. ShapeInv'
    BY <1>1, <1>3, <2>1, <2>2 DEF ShapeInv
  <2>4. PhaseInv'
    <3>1. \E t \in Tasks : IsCur(batch', t)
      BY <1>1, <2>2, SameTask
    <3>2. \A t \in Tasks : batch'.tasks[t].state # "FIX_REQUIRED"
      <4> SUFFICES ASSUME NEW t \in Tasks, t # Cur PROVE batch.tasks[t].state # "FIX_REQUIRED"
        BY <2>2
      <4>1. t < Cur \/ t > Cur
        BY <1>1, Numbers DEF Tasks
      <4> QED BY <1>1, <4>1 DEF IsCur
    <3>3. \A t \in Tasks : IsCur(batch, t)' = IsCur(batch', t)
      BY DEF IsCur
    <3> QED BY <1>1, <1>3, <2>2, <3>1, <3>2, <3>3 DEF PhaseInv
  <2>5. AuditInv' /\ PlanInv' /\ BuildInv'
    BY <1>1, <1>3, <2>1, <2>2, <2>3, AuditFrame, AuditorFrame, PlanFrame, BuildFrame
  <2> QED BY <2>3, <2>4, <2>5 DEF SessionsInv
<1> QED BY <1>2, <1>3 DEF BuilderReturns

\* The final audit is done, or its call failed.
LEMMA FinalReturnsStep ==
  ASSUME SessionsInv, FinalReturns PROVE SessionsInv'
<1>1. /\ phase' = "IDLE" /\ call' = NoCall /\ UNCHANGED <<config, binding, opened, batch, seen>>
      /\ ShapeInv /\ batch.no \in Nat /\ mem \in Managers(batch.no)
      /\ "FINAL_AUDITOR" \in Roles /\ "ORCHESTRATOR" \in Roles /\ "TASK_AUDITOR" \in Roles
      /\ opened <= opened' /\ NoCall \in Calls /\ call'.role = "none"
  <2>1. ShapeInv
    BY DEF SessionsInv
  <2>2. /\ phase' = "IDLE" /\ call' = NoCall
        /\ UNCHANGED <<config, binding, opened, batch, seen>>
    BY DEF FinalReturns, Returned
  <2>4. NoCall \in Calls /\ NoCall.role = "none"
    BY Numbers DEF NoCall, Calls
  <2>5. opened <= opened' /\ batch.no \in Nat /\ mem \in Managers(batch.no)
    BY <2>1, <2>2 DEF ShapeInv, Batch
  <2> QED BY <2>1, <2>2, <2>4, <2>5, RolesAre
<1>2. /\ mem' \in Managers(batch.no) /\ mem'.gen = mem.gen /\ mem'.recovery = mem.recovery
      /\ \A r \in Roles : r # "FINAL_AUDITOR" => mem'.live[r] = mem.live[r] /\ mem'.stamp[r] = mem.stamp[r]
      /\ pending' \in BOOLEAN
  <2>1. CASE UNCHANGED <<mem, pending>>
    BY <1>1, <2>1 DEF ShapeInv
  <2>2. ASSUME NEW id \in Reported, Recorded("FINAL_AUDITOR", id), pending' \in {pending, TRUE}
        PROVE  /\ mem' \in Managers(batch.no) /\ mem'.gen = mem.gen /\ mem'.recovery = mem.recovery
               /\ \A r \in Roles : r # "FINAL_AUDITOR" => mem'.live[r] = mem.live[r] /\ mem'.stamp[r] = mem.stamp[r]
               /\ pending' \in BOOLEAN
    <3>1. pending' \in BOOLEAN
      BY <1>1, <2>2 DEF ShapeInv
    <3> QED BY <1>1, <2>2, <3>1, ReportedIs, RegisterOK DEF Recorded
  <2> QED BY <2>1, <2>2 DEF FinalReturns
<1>3. ShapeInv'
  BY <1>1, <1>2 DEF ShapeInv
<1>4. PhaseInv'
  BY <1>1 DEF PhaseInv
<1>5. AuditInv' /\ PlanInv' /\ BuildInv'
  BY <1>1, <1>2, <1>3, AuditFrame, AuditorFrame, PlanFrame, BuildFrame
<1> QED BY <1>3, <1>4, <1>5 DEF SessionsInv

\* The rows of a batch whose audit reported session id and gave a verdict.
WithVerdict(id, verdict) ==
  IF id = NoSession THEN WithTask(verdict) ELSE [WithTask(verdict) EXCEPT !.tasks[Cur].auditor = id]

\* What the verdict of an audit leaves in the rows.
LEMMA VerdictOK ==
  ASSUME ShapeInv, Cur \in Tasks, NEW s \in TaskStates, NEW id \in Ids
  PROVE  LET w == WithVerdict(id, s)
         IN  /\ w \in Batch /\ w.no = batch.no /\ w.planner = batch.planner /\ w.fixes = batch.fixes
             /\ w.tasks[Cur].state = s
             /\ \A u \in Tasks : u # Cur => w.tasks[u] = batch.tasks[u]
             /\ id = NoSession => \A u \in Tasks : w.tasks[u].auditor = batch.tasks[u].auditor
             /\ id # NoSession => w.tasks[Cur].auditor = id
<1>1. PICK b : b = WithTask(s)
  OBVIOUS
<1>2. /\ b \in Batch /\ b.no = batch.no /\ b.planner = batch.planner /\ b.fixes = batch.fixes
      /\ b.tasks[Cur].state = s
      /\ \A u \in Tasks : u # Cur => b.tasks[u] = batch.tasks[u]
      /\ \A u \in Tasks : b.tasks[u].auditor = batch.tasks[u].auditor
  BY <1>1, WithTaskOK
<1>3. CASE id = NoSession
  BY <1>1, <1>2, <1>3 DEF WithVerdict
<1>4. CASE id # NoSession
  <2>1. PICK t \in Tasks : t = Cur
    OBVIOUS
  <2>2. PICK w : w = [b EXCEPT !.tasks[t].auditor = id]
    OBVIOUS
  <2>3. WithVerdict(id, s) = w
    BY <1>1, <1>4, <2>1, <2>2 DEF WithVerdict
  <2>4. /\ w \in Batch /\ w.no = b.no /\ w.planner = b.planner /\ w.fixes = b.fixes
        /\ w.tasks[t].state = b.tasks[t].state /\ w.tasks[t].auditor = id
        /\ \A u \in Tasks : u # t => w.tasks[u] = b.tasks[u]
    BY <1>2, <2>2 DEF Batch, TaskRows
  <2> QED BY <1>2, <1>4, <2>1, <2>3, <2>4
<1> QED BY <1>3, <1>4

\* The batch is at a task again: the same, or the one behind the approved one.
LEMMA VerdictMoves ==
  ASSUME SessionsInv, phase = "WORK", NEW id \in Ids, NEW s \in {"APPROVED", "FIX_REQUIRED"},
         NEW w, w = WithVerdict(id, s), ~AllApproved(w), s = "FIX_REQUIRED" => batch.fixes < MaxFixes
  PROVE  /\ \E t \in Tasks : IsCur(w, t)
         /\ \A t \in Tasks : w.tasks[t].state = "FIX_REQUIRED" => w.fixes < MaxFixes
<1>1. ShapeInv /\ Cur \in Tasks /\ IsCur(batch, Cur) /\ s \in TaskStates /\ Tasks = 1..NTasks
      /\ NTasks \in Nat
  BY CurOK, Numbers DEF SessionsInv, TaskStates, Tasks
<1>2. PICK c \in Tasks : c = Cur
  BY <1>1
<1>3. /\ w.tasks[c].state = s /\ w.fixes = batch.fixes
      /\ \A u \in Tasks : u # c => w.tasks[u] = batch.tasks[u]
  BY <1>1, <1>2, VerdictOK
<1>4. /\ \A u \in Tasks : u < c => w.tasks[u].state = "APPROVED"
      /\ \A u \in Tasks : u > c => w.tasks[u].state = "PENDING"
  <2>1. \A u \in Tasks : u < c \/ u > c => u # c
    BY <1>1
  <2> QED BY <1>1, <1>2, <1>3, <2>1 DEF IsCur
<1>5. \A t \in Tasks : w.tasks[t].state = "FIX_REQUIRED" => w.fixes < MaxFixes
  <2> SUFFICES ASSUME NEW t \in Tasks, w.tasks[t].state = "FIX_REQUIRED" PROVE t = c
    BY <1>3
  <2>1. t < c \/ t > c \/ t = c
    BY <1>1
  <2> QED BY <1>4, <2>1
<1>6. CASE s = "FIX_REQUIRED"
  BY <1>3, <1>4, <1>5, <1>6 DEF IsCur
<1>7. CASE s = "APPROVED"
  <2>1. PICK u \in Tasks : w.tasks[u].state # "APPROVED"
    BY DEF AllApproved
  <2>2. u > c
    <3>1. u < c \/ u > c \/ u = c
      BY <1>1
    <3> QED BY <1>3, <1>4, <1>7, <2>1, <3>1
  <2>3. c + 1 \in Tasks /\ c + 1 > c
    BY <1>1, <2>2
  <2>4. \A v \in Tasks : (v < c + 1 => v < c \/ v = c) /\ (v > c + 1 => v > c)
    BY <1>1
  <2>5. IsCur(w, c + 1)
    BY <1>3, <1>4, <1>7, <2>3, <2>4 DEF IsCur
  <2> QED BY <1>5, <2>3, <2>5
<1> QED BY <1>6, <1>7

\* What an audit whose session was reported as id leaves in the history.
WithAuditor(id) == seen.audited[batch.no] \cup ({id} \ {NoSession})

\* The session an audit reports is the only one that audited its batch.
LEMMA AuditReported ==
  ASSUME SessionsInv, phase = "WORK", call.role = "TASK_AUDITOR", NEW id \in Reported,
         id # NoSession => config.stateful
  PROVE  /\ WithAuditor(id) \subseteq {call.thread} /\ WithAuditor(id) \subseteq Existing
         /\ id = NoSession => WithAuditor(id) = seen.audited[batch.no]
         /\ id # NoSession => id \in WithAuditor(id)
         /\ WithAuditor(id) # {} => config.stateful
         /\ \A b \in Batches : b # batch.no => WithAuditor(id) \cap seen.audited[b] \cap Own = {}
<1>1. AuditInv /\ batch.no \in Batches /\ id \in {call.thread, NoSession}
  BY ReportedIs, Numbers DEF SessionsInv, ShapeInv, PhaseInv, Batch, Batches
<1>2. /\ call.thread \in Existing /\ seen.audited[batch.no] \subseteq {call.thread}
      /\ \A b \in Batches : b # batch.no => call.thread \notin seen.audited[b] \cap Own
  BY <1>1 DEF AuditInv
<1>3. /\ WithAuditor(id) \subseteq {call.thread} /\ WithAuditor(id) \subseteq Existing
      /\ id = NoSession => WithAuditor(id) = seen.audited[batch.no]
      /\ id # NoSession => id \in WithAuditor(id)
  BY <1>1, <1>2 DEF WithAuditor
<1>4. WithAuditor(id) # {} => config.stateful
  BY <1>1 DEF AuditInv, WithAuditor
<1> QED BY <1>2, <1>3, <1>4

\* The audit is done, or its call failed.
LEMMA AuditReturnsStep ==
  ASSUME SessionsInv, AuditReturns PROVE SessionsInv'
<1>1. /\ phase = "WORK" /\ call.role = "TASK_AUDITOR" /\ call' = NoCall
      /\ UNCHANGED <<config, binding, opened, pending>>
      /\ ShapeInv /\ PhaseInv /\ AuditInv /\ Cur \in Tasks /\ IsCur(batch, Cur)
      /\ batch.no \in Nat \ {0} /\ batch.no \in Batches /\ mem \in Managers(batch.no)
      /\ "TASK_AUDITOR" \in Roles /\ "ORCHESTRATOR" \in Roles
      /\ opened <= opened' /\ NoCall \in Calls /\ call'.role = "none"
  <2>1. ShapeInv /\ PhaseInv /\ AuditInv
    BY DEF SessionsInv
  <2>2. /\ call.role = "TASK_AUDITOR" /\ call' = NoCall
        /\ UNCHANGED <<config, binding, opened, pending>>
    BY DEF AuditReturns, Returned
  <2>3. phase = "WORK"
    BY <2>1, <2>2 DEF PhaseInv
  <2>4. NoCall \in Calls /\ NoCall.role = "none"
    BY Numbers DEF NoCall, Calls
  <2>5. opened <= opened' /\ mem \in Managers(batch.no)
    BY <2>1, <2>2 DEF ShapeInv
  <2>6. batch.no \in Nat \ {0} /\ batch.no \in Batches
    BY <2>1, <2>3, Numbers DEF ShapeInv, PhaseInv, Batch, Batches
  <2> QED BY <2>1, <2>2, <2>3, <2>4, <2>5, <2>6, CurOK, RolesAre
<1>2. CASE Over("FAILED") /\ UNCHANGED <<mem, seen>>
  <2>1. AuditorOf(mem)'
    <3>1. batch' = WithTask("FAILED") /\ phase' = "IDLE" /\ "FAILED" \in TaskStates
      BY <1>2 DEF Over, TaskStates
    <3>2. batch'.no = batch.no
      BY <1>1, <3>1, WithTaskOK
    <3> QED BY <1>1, <1>2, <3>1, <3>2, AuditorFrame
  <2> QED BY <1>1, <1>2, <2>1, OverStep
<1>3. ASSUME NEW id \in Reported, NEW verdict \in {"APPROVED", "FIX_REQUIRED", "BLOCKED"},
             id # NoSession => config.stateful, mem' = Register(mem, "TASK_AUDITOR", id),
             verdict = "FIX_REQUIRED" => batch.fixes < MaxFixes,
             batch' = WithVerdict(id, verdict),
             phase' = IF verdict = "BLOCKED" THEN "IDLE"
                      ELSE IF AllApproved(batch') THEN "READY" ELSE "WORK",
             seen' = [seen EXCEPT !.audited[batch.no] = WithAuditor(id)]
      PROVE  SessionsInv'
  <2>1. id \in Ids /\ verdict \in TaskStates
    BY <1>1, ReportedIs DEF TaskStates
  <2>2. /\ mem' \in Managers(batch.no) /\ mem'.gen = mem.gen /\ mem'.recovery = mem.recovery
        /\ mem'.live["ORCHESTRATOR"] = mem.live["ORCHESTRATOR"]
        /\ id = NoSession => mem' = mem
        /\ id # NoSession => mem'.live["TASK_AUDITOR"] = id /\ mem'.stamp["TASK_AUDITOR"] = mem'.gen
    BY <1>1, <1>3, <2>1, RegisterOK
  <2>3. /\ batch' \in Batch /\ batch'.no = batch.no /\ batch'.planner = batch.planner
        /\ batch'.tasks[Cur].state = verdict
        /\ \A u \in Tasks : u # Cur => batch'.tasks[u] = batch.tasks[u]
        /\ id = NoSession => \A u \in Tasks : batch'.tasks[u].auditor = batch.tasks[u].auditor
        /\ id # NoSession => batch'.tasks[Cur].auditor = id
    BY <1>1, <1>3, <2>1, VerdictOK
  <2>4. /\ WithAuditor(id) \subseteq {call.thread} /\ WithAuditor(id) \subseteq Existing
        /\ id = NoSession => WithAuditor(id) = seen.audited[batch.no]
        /\ id # NoSession => id \in WithAuditor(id)
        /\ WithAuditor(id) # {} => config.stateful
        /\ \A b \in Batches : b # batch.no => WithAuditor(id) \cap seen.audited[b] \cap Own = {}
    BY <1>1, <1>3, AuditReported
  <2>5. WithAuditor(id) \subseteq Ids /\ call.thread \in Ids
    BY <1>1, <2>4, ExistingOK DEF ShapeInv, Calls
  <2>6. /\ seen' \in History /\ seen'.planned = seen.planned /\ seen'.finals = seen.finals
        /\ seen'.uses = seen.uses /\ seen'.arms = seen.arms /\ seen'.bound = seen.bound
        /\ seen'.audited[batch.no] = WithAuditor(id)
        /\ \A b \in Batches : b # batch.no => seen'.audited[b] = seen.audited[b]
    <3>1. PICK A \in SUBSET Ids : A = WithAuditor(id)
      BY <2>5
    <3>2. seen' = [seen EXCEPT !.audited[batch.no] = A] /\ seen \in History
      BY <1>1, <1>3, <3>1 DEF ShapeInv
    <3> QED BY <1>1, <3>1, <3>2 DEF History
  <2>7. phase' \in {"IDLE", "READY", "WORK"}
    BY <1>3
  <2>8. ShapeInv'
    BY <1>1, <2>2, <2>3, <2>6, <2>7 DEF ShapeInv
  <2>9. PhaseInv'
    <3>1. ASSUME phase' = "WORK"
          PROVE  /\ \E t \in Tasks : IsCur(batch', t)
                 /\ \A t \in Tasks : batch'.tasks[t].state = "FIX_REQUIRED" => batch'.fixes < MaxFixes
      <4>1. verdict \in {"APPROVED", "FIX_REQUIRED"} /\ ~AllApproved(batch')
        BY <1>3, <3>1
      <4> QED BY <1>1, <1>3, <2>1, <4>1, VerdictMoves
    <3>2. \A t \in Tasks : IsCur(batch, t)' = IsCur(batch', t)
      BY DEF IsCur
    <3> QED BY <1>1, <2>3, <2>7, <3>1, <3>2 DEF PhaseInv
  <2>10. AuditorOf(mem)'
    <3>1. CASE id # NoSession
      <4>1. batch.no \in Batches \cap {batch.no} /\ id \in seen'.audited[batch.no]
        BY <1>1, <2>4, <2>6, <3>1
      <4> QED BY <2>2, <2>3, <3>1, <4>1 DEF AuditorOf
    <3>2. CASE id = NoSession
      <4>1. \A b \in Batches : seen'.audited[b] = seen.audited[b]
        BY <2>4, <2>6, <3>2
      <4>2. AuditorOf(mem) /\ mem' = mem /\ batch'.no = batch.no
        BY <1>1, <2>2, <2>3, <3>2 DEF AuditInv
      <4> QED BY <1>1, <4>1, <4>2 DEF AuditorOf
    <3> QED BY <3>1, <3>2
  <2>11. AuditInv'
    <3>1. /\ \A b \in Batches : /\ seen'.audited[b] \subseteq Existing'
                                /\ seen'.audited[b] # {} => config'.stateful
                                /\ b > batch'.no => seen'.audited[b] = {}
                                /\ \E x \in Ids : seen'.audited[b] \subseteq {x}
      <4> SUFFICES ASSUME NEW b \in Batches
                   PROVE  /\ seen'.audited[b] \subseteq Existing
                          /\ seen'.audited[b] # {} => config.stateful
                          /\ b > batch.no => seen'.audited[b] = {}
                          /\ \E x \in Ids : seen'.audited[b] \subseteq {x}
        BY <1>1, <2>3 DEF Existing
      <4>1. CASE b = batch.no
        BY <1>1, <2>4, <2>5, <2>6, <4>1
      <4>2. CASE b # batch.no
        BY <1>1, <2>6, <4>2 DEF AuditInv
      <4> QED BY <4>1, <4>2
    <3>2. ASSUME NEW b \in Batches, NEW c \in Batches, b # c
          PROVE  seen'.audited[b] \cap seen'.audited[c] \cap Own = {}
      <4>1. CASE b = batch.no
        BY <2>4, <2>6, <3>2, <4>1
      <4>2. CASE c = batch.no
        BY <2>4, <2>6, <3>2, <4>2
      <4>3. CASE b # batch.no /\ c # batch.no
        BY <1>1, <2>6, <3>2, <4>3 DEF AuditInv
      <4> QED BY <4>1, <4>2, <4>3
    <3>3. \A t \in Audited(batch') : batch'.tasks[t].auditor \in seen'.audited[batch.no]
      <4> SUFFICES ASSUME NEW t \in Tasks, batch'.tasks[t].auditor # NoSession
                   PROVE  batch'.tasks[t].auditor \in WithAuditor(id)
        BY <2>6 DEF Audited
      <4>1. CASE id # NoSession /\ t = Cur
        BY <2>3, <2>4, <4>1
      <4>2. CASE id = NoSession \/ t # Cur
        <5>1. batch'.tasks[t].auditor = batch.tasks[t].auditor
          BY <2>3, <4>2
        <5>2. batch.tasks[t].auditor \in seen.audited[batch.no]
          BY <1>1, <5>1 DEF AuditInv, Audited
        <5> QED BY <5>1, <5>2 DEF WithAuditor
      <4> QED BY <4>1, <4>2
    <3>4. seen'.audited[batch.no] # {} => Audited(batch') # {}
      <4>1. CASE id # NoSession
        BY <1>1, <2>3, <4>1 DEF Audited
      <4>2. CASE id = NoSession
        <5>1. Audited(batch') = Audited(batch)
          BY <2>3, <4>2 DEF Audited
        <5> QED BY <1>1, <2>4, <2>6, <4>2, <5>1 DEF AuditInv
      <4> QED BY <4>1, <4>2
    <3> QED BY <1>1, <2>3, <2>7, <2>10, <3>1, <3>2, <3>3, <3>4 DEF AuditInv
  <2>12. PlanInv' /\ BuildInv'
    BY <1>1, <2>2, <2>3, <2>6, <2>7, <2>8, PlanFrame, BuildFrame
  <2> QED BY <2>8, <2>9, <2>11, <2>12 DEF SessionsInv
<1>4. \/ Over("FAILED") /\ UNCHANGED <<mem, seen>>
      \/ \E id \in Reported, verdict \in {"APPROVED", "FIX_REQUIRED", "BLOCKED"} :
           /\ id # NoSession => config.stateful
           /\ mem' = Register(mem, "TASK_AUDITOR", id)
           /\ verdict = "FIX_REQUIRED" => batch.fixes < MaxFixes
           /\ batch' = WithVerdict(id, verdict)
           /\ phase' = IF verdict = "BLOCKED" THEN "IDLE"
                       ELSE IF AllApproved(batch') THEN "READY" ELSE "WORK"
           /\ seen' = [seen EXCEPT !.audited[batch.no] = WithAuditor(id)]
  <2>1. CASE Over("FAILED") /\ UNCHANGED <<mem, seen>>
    BY <2>1
  <2>2. ASSUME NEW id \in Reported, NEW verdict \in {"APPROVED", "FIX_REQUIRED", "BLOCKED"},
               Reports(id), Recorded("TASK_AUDITOR", id),
               verdict = "FIX_REQUIRED" => batch.fixes < MaxFixes,
               batch' = IF id = NoSession THEN WithTask(verdict)
                        ELSE [WithTask(verdict) EXCEPT !.tasks[Cur].auditor = id],
               phase' = IF verdict = "BLOCKED" THEN "IDLE"
                        ELSE IF AllApproved(batch') THEN "READY" ELSE "WORK",
               seen' = [seen EXCEPT !.audited[batch.no] = @ \cup ({id} \ {NoSession})]
        PROVE  \E i \in Reported, v \in {"APPROVED", "FIX_REQUIRED", "BLOCKED"} :
                 /\ i # NoSession => config.stateful
                 /\ mem' = Register(mem, "TASK_AUDITOR", i)
                 /\ v = "FIX_REQUIRED" => batch.fixes < MaxFixes
                 /\ batch' = WithVerdict(i, v)
                 /\ phase' = IF v = "BLOCKED" THEN "IDLE"
                             ELSE IF AllApproved(batch') THEN "READY" ELSE "WORK"
                 /\ seen' = [seen EXCEPT !.audited[batch.no] = WithAuditor(i)]
    <3>1. id # NoSession => config.stateful
      BY <2>2 DEF Reports
    <3>2. batch' = WithVerdict(id, verdict)
      BY <2>2 DEF WithVerdict
    <3>3. seen' = [seen EXCEPT !.audited[batch.no] = WithAuditor(id)]
      BY <1>1, <2>2 DEF WithAuditor, ShapeInv, History
    <3>4. mem' = Register(mem, "TASK_AUDITOR", id)
      BY <2>2 DEF Recorded
    <3> QED BY <2>2, <3>1, <3>2, <3>3, <3>4
  <2> QED BY <2>1, <2>2 DEF AuditReturns
<1> QED BY <1>2, <1>3, <1>4

-----------------------------------------------------------------------------
(* Batches, the operator, restarts *)

\* A new batch has no auditor and no planner, and the sessions of the batches
\* before it are behind the generation.
LEMMA StartBatchStep ==
  ASSUME SessionsInv, StartBatch PROVE SessionsInv'
<1>1. /\ phase = "IDLE" /\ call = NoCall /\ batch.no < MaxBatches
      /\ mem' = NewGeneration(mem) /\ batch' = NewBatch
      /\ phase' \in {"PLAN", "WORK"} /\ pending' \in BOOLEAN
      /\ UNCHANGED <<config, binding, call, opened, seen>>
      /\ ShapeInv /\ AuditInv /\ PlanInv /\ batch.no \in Nat /\ MaxBatches \in Nat
  <2>1. /\ ShapeInv /\ AuditInv /\ PlanInv /\ batch.no \in Nat /\ pending \in BOOLEAN
        /\ MaxBatches \in Nat
    BY Numbers DEF SessionsInv, ShapeInv, Batch
  <2>2. /\ phase = "IDLE" /\ call = NoCall /\ batch.no < MaxBatches
        /\ mem' = NewGeneration(mem) /\ batch' = NewBatch
        /\ UNCHANGED <<config, binding, call, opened, seen>>
    BY DEF StartBatch, Idle
  <2>3. phase' \in {"PLAN", "WORK"} /\ pending' \in {pending, FALSE}
    BY DEF StartBatch
  <2>4. pending' \in BOOLEAN
    BY <2>1, <2>3
  <2> QED BY <2>1, <2>2, <2>3, <2>4
<1>2. /\ batch.no + 1 \in Batches /\ batch.no + 1 \in 0..MaxBatches
      /\ \A b \in Batches : b >= batch.no + 1 => b > batch.no
  BY <1>1 DEF Batches
<1>3. /\ batch' \in Batch /\ batch'.no = batch.no + 1 /\ batch'.planner = NoSession
      /\ batch'.fixes = 0
      /\ \A t \in Tasks : batch'.tasks[t].state = "PENDING" /\ batch'.tasks[t].auditor = NoSession
  <2>1. EmptyTask \in TaskRows /\ EmptyTask.state = "PENDING" /\ EmptyTask.auditor = NoSession
    BY Numbers DEF EmptyTask, TaskRows, TaskStates
  <2>2. 0 \in 0..MaxFixes
    BY Numbers
  <2> QED BY <1>1, <1>2, <2>1, <2>2, Numbers DEF NewBatch, Batch
<1>4. /\ mem' \in Managers(batch.no + 1) /\ mem'.recovery = mem.recovery
      /\ mem'.live = mem.live /\ mem'.stamp["TASK_AUDITOR"] # mem'.gen
  <2>1. /\ mem \in [gen : 0..batch.no, live : [Roles -> Ids], stamp : [Roles -> 0..batch.no],
                    recovery : Own \cup {NoSession}]
        /\ \A r \in Roles : mem.stamp[r] <= mem.gen
    BY <1>1 DEF ShapeInv, Managers
  <2>2. PICK m : m = [mem EXCEPT !.gen = @ + 1]
    OBVIOUS
  <2>3. /\ m.gen = mem.gen + 1 /\ m.live = mem.live /\ m.stamp = mem.stamp
        /\ m.recovery = mem.recovery
        /\ m = [gen |-> m.gen, live |-> m.live, stamp |-> m.stamp, recovery |-> m.recovery]
    BY <2>1, <2>2
  <2>4. m.gen \in 0..(batch.no + 1) /\ 0..batch.no \subseteq 0..(batch.no + 1)
    BY <1>1, <2>1, <2>3
  <2>5. m.stamp \in [Roles -> 0..(batch.no + 1)]
    BY <2>1, <2>3, <2>4
  <2>6. \A r \in Roles : m.stamp[r] <= m.gen /\ m.stamp[r] # m.gen
    <3> SUFFICES ASSUME NEW r \in Roles PROVE mem.stamp[r] <= mem.gen + 1 /\ mem.stamp[r] # mem.gen + 1
      BY <2>3
    <3>1. mem.stamp[r] \in Nat /\ mem.gen \in Nat /\ mem.stamp[r] <= mem.gen
      BY <2>1
    <3> QED BY <3>1
  <2>7. m \in Managers(batch.no + 1)
    BY <2>1, <2>3, <2>4, <2>5, <2>6 DEF Managers
  <2>8. mem' = m
    BY <1>1, <2>2 DEF NewGeneration
  <2> QED BY <2>3, <2>6, <2>7, <2>8, RolesAre
<1>5. ShapeInv'
  BY <1>1, <1>3, <1>4 DEF ShapeInv
<1>6. PhaseInv'
  <2>1. \E t \in Tasks : IsCur(batch', t)
    BY <1>3, FirstTask
  <2>2. \A t \in Tasks : IsCur(batch, t)' = IsCur(batch', t)
    BY DEF IsCur
  <2>3. call'.role = "none" /\ batch'.no # 0
    BY <1>1, <1>3 DEF NoCall
  <2> QED BY <1>1, <1>3, <2>1, <2>2, <2>3 DEF PhaseInv
<1>7. AuditInv'
  <2>1. seen.audited[batch.no + 1] = {}
    BY <1>1, <1>2 DEF AuditInv
  <2>2. AuditorOf(mem)'
    BY <1>1, <1>3, <1>4, <2>1 DEF AuditorOf
  <2>3. Audited(batch') = {}
    BY <1>3 DEF Audited
  <2>4. call'.role = "none"
    BY <1>1 DEF NoCall
  <2>5. \A b \in Batches : b > batch'.no => b > batch.no
    BY <1>1, <1>3 DEF Batches
  <2>6. Existing' = Existing
    BY <1>1 DEF Existing
  <2>7. /\ \A b \in Batches : /\ seen'.audited[b] \subseteq Existing'
                              /\ seen'.audited[b] # {} => config'.stateful
                              /\ b > batch'.no => seen'.audited[b] = {}
                              /\ \E x \in Ids : seen'.audited[b] \subseteq {x}
        /\ \A b, c \in Batches : b # c => seen'.audited[b] \cap seen'.audited[c] \cap Own = {}
    BY <1>1, <2>5, <2>6 DEF AuditInv
  <2> QED BY <1>1, <1>3, <2>1, <2>2, <2>3, <2>4, <2>7 DEF AuditInv
<1>8. PlanInv'
  <2>1. \A b \in Batches : b > batch'.no \/ b = batch'.no => b > batch.no
    BY <1>1, <1>3 DEF Batches
  <2>2. /\ \A b \in Batches : b > batch'.no \/ b = batch'.no =>
             seen'.planned[b] = NoSession /\ seen'.finals[b] = NoSession
        /\ seen'.planned[batch'.no] = NoSession
    BY <1>1, <1>2, <1>3, <2>1 DEF PlanInv
  <2>3. FinalInPlanningSession'
    BY <1>1 DEF PlanInv, FinalInPlanningSession
  <2> QED BY <1>1, <2>2, <2>3 DEF PlanInv
<1>9. BuildInv'
  <2>1. opened <= opened'
    BY <1>1 DEF ShapeInv
  <2> QED BY <1>1, <1>4, <1>5, <2>1, BuildFrame
<1> QED BY <1>5, <1>6, <1>7, <1>8, <1>9 DEF SessionsInv

\* A binding is configuration: no session known to the manager changes.
LEMMA BindStep ==
  ASSUME SessionsInv, NEW role \in Bindable, NEW id \in Selectable, Bind(role, id)
  PROVE  SessionsInv'
<1>1. /\ UNCHANGED <<config, mem, batch, phase, pending, call, opened>>
      /\ binding' = [binding EXCEPT ![role] = id] /\ ShapeInv
      /\ seen' = [seen EXCEPT !.bound = @ \cup {role},
                    !.wantNew = IF id = NoSession THEN @ \cup {role} ELSE @ \ {role}]
  BY DEF Bind, SessionsInv
<1>2. id \in Ids \ Own /\ role \in Roles
  BY Numbers DEF Selectable, Bindable
<1>3. PICK W : W = IF id = NoSession THEN seen.wantNew \cup {role} ELSE seen.wantNew \ {role}
  OBVIOUS
<1>4. /\ seen' \in History /\ seen'.audited = seen.audited /\ seen'.planned = seen.planned
      /\ seen'.finals = seen.finals /\ seen'.uses = seen.uses /\ seen'.arms = seen.arms
      /\ seen'.bound = seen.bound \cup {role}
  <2>1. seen \in History
    BY <1>1 DEF ShapeInv
  <2>2. seen' = [seen EXCEPT !.bound = seen.bound \cup {role}, !.wantNew = W]
    BY <1>1, <1>3, <2>1 DEF History
  <2>3. W \in SUBSET Roles /\ seen.bound \cup {role} \in SUBSET Bindable
    BY <1>2, <1>3, <2>1 DEF History
  <2> QED BY <2>1, <2>2, <2>3 DEF History
<1>5. ShapeInv' /\ opened <= opened'
  <2>1. binding' \in [Bindable -> Ids \ Own]
    BY <1>1, <1>2 DEF ShapeInv
  <2> QED BY <1>1, <1>4, <2>1 DEF ShapeInv
<1>6. PhaseInv'
  BY <1>1, RowsFrame
<1>7. AuditInv' /\ BuildInv'
  BY <1>1, <1>4, <1>5, AuditFrame, AuditorFrame, BuildFrame
<1>8. PlanInv'
  <2>1. "ORCHESTRATOR" \notin seen'.bound => binding'["ORCHESTRATOR"] = binding["ORCHESTRATOR"]
    BY <1>1, <1>4 DEF ShapeInv
  <2> QED BY <1>1, <1>4, <2>1, PlanFrame
<1> QED BY <1>5, <1>6, <1>7, <1>8 DEF SessionsInv

\* Whoever arms a session owes it one more use.
LEMMA ArmStep ==
  ASSUME SessionsInv, NEW id \in Armable, Arm(id) PROVE SessionsInv'
<1>1. /\ UNCHANGED <<config, binding, batch, phase, pending, call, opened>>
      /\ mem' = [mem EXCEPT !.recovery = id] /\ ShapeInv /\ BuildInv
      /\ seen' = IF id = NoSession THEN seen ELSE [seen EXCEPT !.arms[id] = @ + 1]
  BY DEF Arm, SessionsInv
<1>2. id = NoSession \/ (id \in Own /\ seen.uses[id] > 0)
  BY DEF Armable
<1>3. /\ seen \in History /\ mem \in Managers(batch.no) /\ opened \in Nat
      /\ Own \subseteq Nat \ {0} /\ Own \subseteq Ids /\ NoSession = 0
  BY <1>1, Numbers DEF ShapeInv
<1>4. /\ mem' \in Managers(batch.no) /\ mem'.recovery = id
      /\ mem'.live = mem.live /\ mem'.stamp = mem.stamp /\ mem'.gen = mem.gen
  BY <1>1, <1>2, <1>3 DEF Managers
<1>5. /\ seen' \in History /\ seen'.audited = seen.audited /\ seen'.planned = seen.planned
      /\ seen'.finals = seen.finals /\ seen'.uses = seen.uses /\ seen'.bound = seen.bound
      /\ id # NoSession => seen'.arms[id] = seen.arms[id] + 1
      /\ \A i \in Own : i # id => seen'.arms[i] = seen.arms[i]
  <2>1. CASE id = NoSession
    BY <1>1, <1>3, <2>1
  <2>2. CASE id # NoSession
    <3>1. id \in Ids
      BY <1>2, <1>3, <2>2
    <3>2. seen' = [seen EXCEPT !.arms[id] = @ + 1]
      BY <1>1, <2>2
    <3>3. /\ seen'.audited = seen.audited /\ seen'.planned = seen.planned
          /\ seen'.finals = seen.finals /\ seen'.uses = seen.uses /\ seen'.bound = seen.bound
          /\ seen'.wantNew = seen.wantNew /\ seen'.arms = [seen.arms EXCEPT ![id] = @ + 1]
          /\ seen' = [audited |-> seen'.audited, planned |-> seen'.planned, finals |-> seen'.finals,
                      uses |-> seen'.uses, arms |-> seen'.arms, bound |-> seen'.bound,
                      wantNew |-> seen'.wantNew]
      BY <1>3, <3>2 DEF History
    <3>4. seen.arms \in [Ids -> Nat]
      BY <1>3 DEF History
    <3>5. /\ seen'.arms \in [Ids -> Nat] /\ seen'.arms[id] = seen.arms[id] + 1
          /\ \A i \in Own : i # id => seen'.arms[i] = seen.arms[i]
      BY <1>3, <3>1, <3>3, <3>4
    <3>6. seen' \in History
      BY <1>3, <3>3, <3>5 DEF History
    <3> QED BY <3>3, <3>5, <3>6
  <2> QED BY <2>1, <2>2
<1>6. ShapeInv' /\ opened <= opened'
  BY <1>1, <1>3, <1>4, <1>5 DEF ShapeInv
<1>7. PhaseInv'
  BY <1>1, RowsFrame
<1>8. AuditInv' /\ PlanInv'
  BY <1>1, <1>4, <1>5, <1>6, AuditFrame, AuditorFrame, PlanFrame
<1>9. \A i \in Own : /\ seen.uses[i] \in Nat /\ seen.arms[i] \in Nat
                     /\ seen.uses[i] <= 1 + seen.arms[i]
                     /\ seen'.arms[i] = seen.arms[i] \/ seen'.arms[i] = seen.arms[i] + 1
  <2> SUFFICES ASSUME NEW i \in Own
               PROVE  /\ seen.uses[i] \in Nat /\ seen.arms[i] \in Nat
                      /\ seen.uses[i] <= 1 + seen.arms[i]
                      /\ seen'.arms[i] = seen.arms[i] \/ seen'.arms[i] = seen.arms[i] + 1
    OBVIOUS
  <2>1. seen.uses[i] \in Nat /\ seen.arms[i] \in Nat
    BY <1>3 DEF History
  <2>2. seen.uses[i] <= 1 + seen.arms[i]
    BY <1>1 DEF BuildInv, BuildersStartFresh
  <2>3. i = id => id # NoSession
    BY <1>3
  <2> QED BY <1>5, <2>1, <2>2, <2>3
<1>10. BuildersStartFresh'
  <2> SUFFICES ASSUME NEW i \in Own PROVE seen.uses[i] <= 1 + seen'.arms[i]
    BY <1>5 DEF BuildersStartFresh
  <2> QED BY <1>9
<1>11. mem'.recovery <= opened' /\ (id # NoSession => seen'.uses[id] <= seen'.arms[id])
  <2>1. CASE id = NoSession
    BY <1>1, <1>3, <1>4, <2>1
  <2>2. CASE id # NoSession
    <3>1. id \in Own /\ seen.uses[id] > 0 /\ id \in Nat
      BY <1>2, <1>3, <2>2
    <3>2. seen.uses[id] # 0
      BY <1>9, <3>1
    <3>3. id <= opened
      <4>1. ~(id > opened)
        BY <1>1, <3>1, <3>2 DEF BuildInv
      <4> QED BY <1>3, <3>1, <4>1
    <3>4. seen.uses[id] <= seen.arms[id] + 1
      BY <1>9, <3>1
    <3> QED BY <1>1, <1>4, <1>5, <2>2, <3>3, <3>4
  <2> QED BY <2>1, <2>2
<1>12. \A i \in Own : i > opened' => seen'.uses[i] = 0
  BY <1>1, <1>5 DEF BuildInv
<1>13. BuildInv'
  BY <1>4, <1>10, <1>11, <1>12 DEF BuildInv
<1> QED BY <1>6, <1>7, <1>8, <1>13 DEF SessionsInv

\* Another workspace: the sessions are forgotten.
LEMMA SetWorkspaceStep ==
  ASSUME SessionsInv, SetWorkspace PROVE SessionsInv'
<1>1. /\ UNCHANGED <<config, binding, batch, phase, pending, call, opened, seen>>
      /\ mem' = [FreshManager EXCEPT !.gen = mem.gen, !.recovery = mem.recovery]
      /\ ShapeInv /\ mem \in Managers(batch.no) /\ batch.no \in Nat
  BY DEF SetWorkspace, SessionsInv, ShapeInv, Batch
<1>2. /\ mem' \in Managers(batch.no) /\ mem'.recovery = mem.recovery
      /\ \A r \in Roles : mem'.live[r] = NoSession
  <2>1. mem.gen \in 0..batch.no /\ mem.recovery \in Own \cup {NoSession}
    BY <1>1 DEF Managers
  <2>2. mem' = [gen |-> mem.gen, live |-> [r \in Roles |-> NoSession],
                stamp |-> [r \in Roles |-> 0], recovery |-> mem.recovery]
    BY <1>1 DEF FreshManager
  <2>3. 0 \in 0..batch.no /\ 0 <= mem.gen
    BY <1>1, <2>1
  <2> QED BY <2>1, <2>2, <2>3, Numbers DEF Managers
<1>3. ShapeInv' /\ opened <= opened'
  BY <1>1, <1>2 DEF ShapeInv
<1>4. PhaseInv'
  BY <1>1, RowsFrame
<1>5. AuditInv' /\ PlanInv' /\ BuildInv'
  BY <1>1, <1>2, <1>3, RolesAre, AuditFrame, AuditorFrame, PlanFrame, BuildFrame
<1> QED BY <1>3, <1>4, <1>5 DEF SessionsInv

\* A new manager knows nothing, so nothing wrong.
LEMMA FreshOK ==
  ASSUME NEW b \in Nat
  PROVE  /\ FreshManager \in Managers(b) /\ FreshManager.recovery = NoSession
         /\ FreshManager.gen = 0 /\ \A r \in Roles : FreshManager.live[r] = NoSession
BY Numbers DEF FreshManager, Managers

\* Whatever was running is gone, with every session in memory.
LEMMA RestartStep ==
  ASSUME SessionsInv, Restart PROVE SessionsInv'
<1>1. /\ UNCHANGED <<config, binding, batch, phase, pending, opened, seen>>
      /\ mem' = FreshManager /\ call' = NoCall
      /\ ShapeInv /\ batch.no \in Nat
  BY DEF Restart, SessionsInv, ShapeInv, Batch
<1>2. NoCall \in Calls /\ NoCall.role = "none"
  BY Numbers DEF NoCall, Calls
<1>3. ShapeInv' /\ opened <= opened'
  BY <1>1, <1>2, FreshOK DEF ShapeInv
<1>4. PhaseInv'
  BY <1>1, <1>2, RowsFrame
<1>5. AuditInv' /\ PlanInv' /\ BuildInv'
  BY <1>1, <1>2, <1>3, FreshOK, RolesAre, AuditFrame, AuditorFrame, PlanFrame, BuildFrame
<1> QED BY <1>3, <1>4, <1>5 DEF SessionsInv

-----------------------------------------------------------------------------
(* The theorems *)

LEMMA InitOK == Init => SessionsInv
<1> SUFFICES ASSUME Init PROVE SessionsInv
  OBVIOUS
<1>1. /\ batch.no = 0 /\ batch \in Batch
      /\ \A t \in Tasks : batch.tasks[t].auditor = NoSession /\ batch.tasks[t].state = "PENDING"
  <2>1. EmptyTask \in TaskRows /\ EmptyTask.auditor = NoSession /\ EmptyTask.state = "PENDING"
    BY Numbers DEF EmptyTask, TaskRows, TaskStates
  <2>2. 0 \in 0..MaxBatches /\ 0 \in 0..MaxFixes
    BY Numbers
  <2> QED BY <2>1, <2>2, Numbers DEF Init, Batch
<1>2. /\ mem \in Managers(0) /\ mem.recovery = NoSession /\ mem.gen = 0
      /\ \A r \in Roles : mem.live[r] = NoSession
  BY FreshOK DEF Init
<1>3. /\ seen \in History /\ seen.bound = {}
      /\ \A b \in Batches : /\ seen.audited[b] = {} /\ seen.planned[b] = NoSession
                            /\ seen.finals[b] = NoSession
      /\ \A i \in Ids : seen.uses[i] = 0 /\ seen.arms[i] = 0
  BY Numbers DEF Init, History
<1>4. call \in Calls /\ call.role = "none"
  BY Numbers DEF Init, NoCall, Calls
<1>5. /\ binding \in [Bindable -> Ids \ Own] /\ \A r \in Bindable : binding[r] = NoSession
      /\ opened = 0 /\ opened \in 0..MaxThreads /\ phase = "IDLE" /\ pending = FALSE
      /\ config \in [stateful : BOOLEAN, same : BOOLEAN, builder : {"always_new", "persistent"}]
  BY Numbers DEF Init
<1>6. ShapeInv
  BY <1>1, <1>2, <1>3, <1>4, <1>5 DEF ShapeInv
<1>7. PhaseInv
  BY <1>4, <1>5 DEF PhaseInv
<1>8. AuditInv
  <2>1. NoSession \in Ids
    BY Numbers
  <2>2. AuditorOf(mem)
    BY <1>2, <1>5, RolesAre DEF AuditorOf
  <2> QED BY <1>1, <1>3, <1>4, <1>5, <2>1, <2>2 DEF AuditInv
<1>9. PlanInv
  BY <1>3, <1>5, RolesAre DEF PlanInv, FinalInPlanningSession
<1>10. BuildInv
  BY <1>2, <1>3, <1>5, Numbers DEF BuildInv, BuildersStartFresh
<1> QED BY <1>6, <1>7, <1>8, <1>9, <1>10 DEF SessionsInv

LEMMA NextOK == SessionsInv /\ [Next]_vars => SessionsInv'
<1> SUFFICES ASSUME SessionsInv, [Next]_vars PROVE SessionsInv'
  OBVIOUS
<1>1. CASE Prompt
  BY <1>1, BeginPlanStep, BeginBuildStep, BeginAuditStep, BeginFixStep, BeginFinalStep DEF Prompt
<1>2. CASE Return
  BY <1>2, PlanReturnsStep, BuilderReturnsStep, AuditReturnsStep, FinalReturnsStep DEF Return
<1>3. CASE Operator
  BY <1>3, StartBatchStep, SetWorkspaceStep, BindStep, ArmStep DEF Operator
<1>4. CASE Restart
  BY <1>4, RestartStep
<1>5. CASE UNCHANGED vars
  <2>1. UNCHANGED <<config, binding, mem, batch, phase, pending, call, opened, seen>>
    BY <1>5 DEF vars
  <2>2. ShapeInv' /\ opened <= opened'
    BY <2>1 DEF SessionsInv, ShapeInv
  <2>3. PhaseInv'
    BY <2>1, RowsFrame
  <2>4. AuditInv' /\ PlanInv' /\ BuildInv'
    BY <2>1, <2>2, AuditFrame, AuditorFrame, PlanFrame, BuildFrame
  <2> QED BY <2>2, <2>3, <2>4 DEF SessionsInv
<1> QED BY <1>1, <1>2, <1>3, <1>4, <1>5 DEF Next

\* The inductive invariant: which sessions a manager may resume and what its
\* rows remember of them, whatever is running.
THEOREM SessionsInvariance == Spec => []SessionsInv
<1> QED BY InitOK, NextOK, PTL DEF Spec

\* Every step of the session policies leaves the state well formed: no stamp
\* and no generation is ahead of the batches there were.
THEOREM TypeCorrect == Spec => []TypeOK
<1>1. SessionsInv => TypeOK
  BY DEF SessionsInv, ShapeInv, TypeOK, Managers, Batch, TaskRows, TaskStates, Calls
<1> QED BY <1>1, SessionsInvariance, PTL

\* All audits of a batch run in one session, and no session of the application
\* audits two batches: the persistent_per_batch auditor, over restarts too.
THEOREM AuditorCorrect == Spec => []AuditorIsTheBatch
<1>1. SessionsInv => AuditorIsTheBatch
  <2> SUFFICES ASSUME SessionsInv PROVE AuditorIsTheBatch
    OBVIOUS
  <2>1. AuditInv
    BY DEF SessionsInv
  <2>2. ASSUME NEW b \in Batches PROVE Cardinality(seen.audited[b]) <= 1
    <3>1. PICK x \in Ids : seen.audited[b] \subseteq {x}
      BY <2>1 DEF AuditInv
    <3>2. seen.audited[b] = {} \/ seen.audited[b] = {x}
      BY <3>1
    <3>3. Cardinality({}) = 0 /\ Cardinality({x}) = 1
      BY FS_EmptySet, FS_Singleton
    <3> QED BY <3>2, <3>3
  <2> QED BY <2>1, <2>2 DEF AuditInv, AuditorIsTheBatch
<1> QED BY <1>1, SessionsInvariance, PTL

\* The final audit judges in the session that planned, with same_as_orchestrator
\* and no binding: _architect_session_id finds it in memory or in the row.
THEOREM FinalCorrect == Spec => []FinalInPlanningSession
<1>1. SessionsInv => FinalInPlanningSession
  BY DEF SessionsInv, PlanInv
<1> QED BY <1>1, SessionsInvariance, PTL

\* A builder's session is written to once, and once more for each arming.
THEOREM BuildersCorrect == Spec => []BuildersStartFresh
<1>1. SessionsInv => BuildersStartFresh
  BY DEF SessionsInv, BuildInv
<1> QED BY <1>1, SessionsInvariance, PTL
=============================================================================
