--------------------------- MODULE PipelineProofs ---------------------------
(***************************************************************************)
(* Proofs about Pipeline, for every number of tasks, audit rounds, batches *)
(* and crashes: its variables have their types, tasks are worked on in     *)
(* order, and no task is given more fixes than the audits it had; the row  *)
(* of the batch in memory is current, a COMPLETE batch was approved and    *)
(* audited, a plan becomes one batch, and the rows follow the life of a    *)
(* task as TaskLedger describes it.                                        *)
(*                                                                         *)
(* The invariant IInv strengthens the first three: it says what a batch    *)
(* record is (in memory and in every row), how fixes relate to audit       *)
(* rounds, and what the worker has established about the task under work   *)
(* at each of its places.  RecordsInv, in the second half, adds what the   *)
(* database says.                                                          *)
(***************************************************************************)
EXTENDS MCPipeline, WellFoundedInduction, TLAPS

TaskUnits == {"BUILD", "AUDIT", "FIX"}

\* What is true of a batch record wherever it is.
BatchOK(m) ==
  /\ m \in BatchType
  /\ InOrder(m)
  /\ m.id = NoBatch => ~m.planned

\* Every fix answered an audit round of its own, and a fix that is asked for
\* has its audit round already.
Counted(m) ==
  m.id # NoBatch =>
    \A t \in Tasks :
      /\ fixes[m.id][t] <= m.rounds[t]
      /\ m.task[t] = "FIX_REQUIRED" => fixes[m.id][t] < m.rounds[t]

RowOK(b) ==
  /\ disk[b] \in [phase : Phases, batch : BatchType]
  /\ BatchOK(disk[b].batch)
  /\ Counted(disk[b].batch)
  /\ disk[b].batch.id \in {NoBatch, b}
  /\ b <= lastId => disk[b].batch.id = b

StateInv ==
  /\ phase \in Phases
  /\ BatchOK(mem) /\ Counted(mem)
  /\ lastId \in 0..MaxBatches /\ mem.id <= lastId
  /\ disk = [b \in Batches |-> disk[b]]
  /\ \A b \in Batches : RowOK(b)
  /\ fixes \in [Batches -> [Tasks -> Nat]]
  /\ FixBudget
  /\ \A b \in Batches, t \in Tasks : b > lastId => fixes[b][t] = 0

BookInv ==
  /\ final \in [Batches -> Verdicts]
  /\ plans \in Seq(Batches)
  /\ usedBy \in [Batches -> 0..MaxBatches]

ControlInv ==
  /\ resumeTo \in ActivePhases \union {"IDLE", "BLOCKED"}
  /\ stopFlag \in BOOLEAN /\ pauseFlag \in BOOLEAN
  /\ pc \in ClaimedAt \union {"none", "enter", "head", "claim", "loop", "passed",
                              "handoff", "newBatch", "consume", "saveTasks"}
  /\ op \in Units
  /\ mode \in {"batch", "continuous", "final", "handoff"}
  /\ resuming \in BOOLEAN
  /\ ui \in {"idle", "stop", "pause", "flagStop", "flagPause"}
  /\ crashes \in 0..MaxCrashes

\* What the worker knows of the batch where it stands.
UnitInv ==
  /\ pc \in {"claim", "gate", "prompt"} /\ op \in TaskUnits =>
       \A t \in Tasks : mem.task[t] \notin {"BLOCKED", "FAILED"}
  /\ pc \in {"claim", "gate", "prompt"} /\ op = "PLAN" => mem.id # NoBatch
  /\ pc = "prompt" /\ op \in TaskUnits => HasWork
  /\ pc = "prompt" /\ op = "AUDIT" => fixes[mem.id][Cur] < mem.rounds[Cur]
  /\ pc = "prompt" /\ op = "FINAL" => AllApproved(mem)
  /\ pc \in {"consume", "saveTasks"} => mem.id # NoBatch

IInv == StateInv /\ BookInv /\ ControlInv /\ UnitInv

-----------------------------------------------------------------------------
(* Numbers *)

\* The least element of a nonempty set of naturals, as first_undone_task finds it.
LEMMA LeastIsLeast ==
  ASSUME NEW S \in SUBSET Nat, S # {}
  PROVE  Least(S) \in S /\ \A u \in S : Least(S) <= u
<1>1. PICK x \in S : \A y \in S : ~(<<y, x>> \in OpToRel(<, Nat))
  BY NatLessThanWellFounded, WFMin
<1>2. OpToRel(<, Nat) = {ss \in Nat \X Nat : ss[1] < ss[2]}
  BY DEF OpToRel
<1>3. ASSUME NEW y \in S, y < x PROVE FALSE
  <2>1. <<y, x>> \in OpToRel(<, Nat)
    BY <1>2, <1>3
  <2> QED BY <1>1, <2>1
<1>4. \A y \in S : x <= y
  BY <1>3
<1> QED BY <1>4 DEF Least

\* The greatest element of a nonempty set of batch ids (ORDER BY created_at DESC).
LEMMA NewestIsGreatest ==
  ASSUME NEW n \in Nat, NEW S \in SUBSET (1..n), S # {}
  PROVE  Newest(S) \in S
<1> DEFINE M == {n - i : i \in S}
<1>1. M \in SUBSET Nat
  OBVIOUS
<1>e. M # {}
  OBVIOUS
<1>2. PICK x \in M : \A y \in M : x <= y
  BY <1>1, <1>e, LeastIsLeast
<1>3. PICK i \in S : x = n - i
  OBVIOUS
<1>4. \A j \in S : n - j \in M
  OBVIOUS
<1>5. \A j \in S : j <= i
  <2> HIDE DEF M
  <2> QED BY <1>2, <1>3, <1>4
<1> QED BY <1>5 DEF Newest

-----------------------------------------------------------------------------
(* The phase graph *)

\* Every edge leads to a phase.
LEMMA EdgeType ==
  ASSUME NEW p \in Phases, NEW q, CanGoTo(p, q)
  PROVE  q \in Phases
BY DEF Phases, ActivePhases, WorkEdges, RestEdges, CanGoTo

\* Entering a phase over an edge leaves a resume target one can return to.
LEMMA ResumeType ==
  ASSUME NEW p \in Phases, NEW q, CanGoTo(p, q),
         resumeTo \in ActivePhases \union {"IDLE", "BLOCKED"}
  PROVE  ResumeAfter(p, q) \in ActivePhases \union {"IDLE", "BLOCKED"}
BY DEF Phases, ActivePhases, WorkEdges, RestEdges, CanGoTo, ResumeAfter

-----------------------------------------------------------------------------
(* Batch records *)

\* Fit(m) : m may take the place of the batch in memory.
Fit(m) == BatchOK(m) /\ Counted(m) /\ m.id = mem.id

\* A batch starts empty, in order and without fixes.
LEMMA EmptyBatchOK ==
  ASSUME NEW b \in 0..MaxBatches
  PROVE  BatchOK(EmptyBatch(b))
BY PipelineAssumption
   DEF BatchOK, BatchType, EmptyBatch, InOrder, BatchStatuses, TaskStates, Verdicts, NoBatch, Tasks

\* A change of status changes nothing else.
LEMMA StatusFits ==
  ASSUME NEW m, Fit(m), NEW s \in BatchStatuses
  PROVE  /\ Fit([m EXCEPT !.status = s])
         /\ Fit(WithStatus(m, s))
         /\ Undone(WithStatus(m, s)) = Undone(m)
         /\ WithStatus(m, s).task = m.task
         /\ WithStatus(m, s).rounds = m.rounds
         /\ AllApproved(WithStatus(m, s)) <=> AllApproved(m)
BY DEF Fit, BatchOK, BatchType, InOrder, Counted, WithStatus, Undone, AllApproved

\* The tasks before the first undone one are approved, if none ended badly.
LEMMA CurIsNext ==
  ASSUME StateInv, HasWork
  PROVE  /\ Cur \in Tasks
         /\ mem.task[Cur] \notin {"APPROVED", "BLOCKED", "FAILED"}
         /\ mem.planned /\ mem.id \in Batches
         /\ (\A t \in Tasks : mem.task[t] \notin {"BLOCKED", "FAILED"})
              => \A u \in 1..(Cur - 1) : mem.task[u] = "APPROVED"
<1>1. mem.planned /\ mem.id \in Batches
  BY PipelineAssumption DEF StateInv, BatchOK, BatchType, HasWork, Undone, Batches, NoBatch
<1>2. Undone(mem) \in SUBSET Nat
  BY DEF Undone, Tasks
<1>3. Cur \in Undone(mem) /\ \A u \in Undone(mem) : Cur <= u
  BY <1>2, LeastIsLeast DEF HasWork, Cur
<1>4. Cur \in Tasks /\ mem.task[Cur] \notin {"APPROVED", "BLOCKED", "FAILED"}
  BY <1>1, <1>3 DEF Undone
<1>5. ASSUME \A t \in Tasks : mem.task[t] \notin {"BLOCKED", "FAILED"},
             NEW u \in 1..(Cur - 1), mem.task[u] # "APPROVED"
      PROVE  FALSE
  <2>1. u \in Tasks /\ u < Cur
    BY <1>4, PipelineAssumption DEF Tasks
  <2>2. u \in Undone(mem)
    BY <1>1, <1>5, <2>1 DEF Undone
  <2> QED BY <1>3, <1>4, <2>1, <2>2 DEF Tasks
<1> QED BY <1>1, <1>4, <1>5

\* Moving a task whose predecessors are approved, and which is not approved
\* itself, to another state.
LEMMA TaskFits ==
  ASSUME NEW m, Fit(m), NEW t \in Tasks, NEW s \in TaskStates,
         fixes \in [Batches -> [Tasks -> Nat]],
         m.id \in Batches,
         m.task[t] # "APPROVED",
         \A u \in 1..(t - 1) : m.task[u] = "APPROVED",
         s = "FIX_REQUIRED" => fixes[m.id][t] < m.rounds[t]
  PROVE  Fit(WithTask(m, t, s))
<1> DEFINE n == WithTask(m, t, s)
<1>1. n \in BatchType /\ n.id = m.id /\ n.planned = m.planned /\ n.rounds = m.rounds
  BY DEF Fit, BatchOK, BatchType, WithTask
<1>2. n.task = [m.task EXCEPT ![t] = s] /\ m.task \in [Tasks -> TaskStates]
  BY DEF Fit, BatchOK, BatchType, WithTask
<1> HIDE DEF n
<1>3. InOrder(n)
  <2> SUFFICES ASSUME NEW i \in Tasks, NEW u \in 1..(i - 1),
                      n.task[i] \notin {"PENDING", "FAILED"}
               PROVE  n.task[u] = "APPROVED"
    BY DEF InOrder
  <2>0. u \in Tasks /\ u < i
    BY PipelineAssumption DEF Tasks
  <2>1. CASE i = t
    BY <1>2, <2>0, <2>1 DEF Tasks
  <2>2. CASE i # t
    <3>1. m.task[u] = "APPROVED"
      BY <1>2, <2>2 DEF Fit, BatchOK, InOrder
    <3> QED BY <1>2, <2>0, <3>1
  <2> QED BY <2>1, <2>2
<1>4. Counted(n)
  BY <1>1, <1>2 DEF Fit, Counted
<1> QED BY <1>1, <1>3, <1>4 DEF Fit, BatchOK, n

\* Writing off the last task keeps the order: nothing comes after it.
LEMMA LastTaskFits ==
  ASSUME NEW m, Fit(m)
  PROVE  Fit([WithTask(m, TasksPerBatch, "FAILED") EXCEPT !.status = "FAILED"])
<1> DEFINE n == [WithTask(m, TasksPerBatch, "FAILED") EXCEPT !.status = "FAILED"]
<1>1. n \in BatchType /\ n.id = m.id /\ n.planned = m.planned /\ n.rounds = m.rounds
  BY DEF Fit, BatchOK, BatchType, WithTask, BatchStatuses, TaskStates
<1>2. n.task = [m.task EXCEPT ![TasksPerBatch] = "FAILED"] /\ m.task \in [Tasks -> TaskStates]
  BY DEF Fit, BatchOK, BatchType, WithTask
<1> HIDE DEF n
<1>3. InOrder(n)
  <2> SUFFICES ASSUME NEW i \in Tasks, NEW u \in 1..(i - 1),
                      n.task[i] \notin {"PENDING", "FAILED"}
               PROVE  n.task[u] = "APPROVED"
    BY DEF InOrder
  <2>0. u \in Tasks /\ u < i /\ u # TasksPerBatch
    BY PipelineAssumption DEF Tasks
  <2>1. i # TasksPerBatch
    BY <1>2
  <2>2. m.task[u] = "APPROVED"
    BY <1>2, <2>1 DEF Fit, BatchOK, InOrder
  <2> QED BY <1>2, <2>0, <2>2
<1>4. Counted(n)
  BY <1>1, <1>2 DEF Fit, Counted
<1> QED BY <1>1, <1>3, <1>4 DEF Fit, BatchOK, n

\* Recording a verdict, and counting one more audit round.
LEMMA VerdictFits ==
  ASSUME NEW m, Fit(m), NEW v \in Verdicts
  PROVE  /\ Fit([m EXCEPT !.verdict[Cur] = v])
         /\ [m EXCEPT !.verdict[Cur] = v].task = m.task
         /\ [m EXCEPT !.verdict[Cur] = v].rounds = m.rounds
         /\ [m EXCEPT !.verdict[Cur] = v].id = m.id
BY DEF Fit, BatchOK, BatchType, InOrder, Counted

LEMMA RoundFits ==
  ASSUME StateInv, HasWork, ~CapReached
  PROVE  Fit(Audited(mem)) /\ Audited(mem).task = mem.task
         /\ Audited(mem).planned = mem.planned
         /\ Audited(mem).rounds = [mem.rounds EXCEPT ![Cur] = @ + 1]
<1> DEFINE n == Audited(mem)
<1>1. Cur \in Tasks /\ mem.id \in Batches
  BY CurIsNext
<1>2. BatchOK(mem) /\ Counted(mem) /\ mem \in BatchType
  BY DEF StateInv, BatchOK
<1>3. mem.rounds \in [Tasks -> 0..MaxAuditRounds] /\ mem.rounds[Cur] + 1 \in 0..MaxAuditRounds
  BY <1>1, <1>2, PipelineAssumption DEF BatchType, CapReached
<1>4. /\ n = [mem EXCEPT !.rounds = [mem.rounds EXCEPT ![Cur] = mem.rounds[Cur] + 1]]
      /\ [mem.rounds EXCEPT ![Cur] = mem.rounds[Cur] + 1] \in [Tasks -> 0..MaxAuditRounds]
  BY <1>3, <1>2 DEF Audited, BatchType
<1>5. /\ n \in BatchType
      /\ n.task = mem.task /\ n.planned = mem.planned /\ n.id = mem.id
      /\ n.rounds = [mem.rounds EXCEPT ![Cur] = @ + 1]
  BY <1>2, <1>4 DEF BatchType
<1> HIDE DEF n
<1>6. InOrder(n)
  BY <1>2, <1>5 DEF BatchOK, InOrder
<1>7. Counted(n)
  <2> SUFFICES ASSUME NEW t \in Tasks, n.id # NoBatch
               PROVE  /\ fixes[n.id][t] <= n.rounds[t]
                      /\ n.task[t] = "FIX_REQUIRED" => fixes[n.id][t] < n.rounds[t]
    BY DEF Counted
  <2>1. fixes[mem.id][t] \in Nat /\ mem.rounds[t] \in Nat
    BY <1>1, <1>3 DEF StateInv
  <2>2. /\ fixes[mem.id][t] <= mem.rounds[t]
        /\ mem.task[t] = "FIX_REQUIRED" => fixes[mem.id][t] < mem.rounds[t]
    BY <1>2, <1>5 DEF Counted
  <2>3. n.rounds[t] = mem.rounds[t] \/ n.rounds[t] = mem.rounds[t] + 1
    BY <1>3, <1>5
  <2> QED BY <1>5, <2>1, <2>2, <2>3
<1> QED BY <1>2, <1>5, <1>6, <1>7 DEF Fit, BatchOK, n

-----------------------------------------------------------------------------
(* Steps that record a batch *)

ResumeOK == resumeTo \in ActivePhases \union {"IDLE", "BLOCKED"}

\* Nothing recorded, nothing changed.
LEMMA NothingRecorded ==
  ASSUME StateInv, BookInv, UNCHANGED <<phase, mem, durable, lastId, fixes>>
  PROVE  StateInv' /\ BookInv'
BY DEF StateInv, BookInv, durable, RowOK, Counted, FixBudget

\* A batch that fits may be recorded with any phase.
LEMMA Recorded ==
  ASSUME StateInv, BookInv, NEW m, Fit(m), NEW q \in Phases,
         Record(m, q), UNCHANGED <<lastId, fixes>>
  PROVE  StateInv' /\ BookInv'
<1>1. mem' = m /\ phase' = q /\ disk' = Saved(m, q) /\ m.id = mem.id
  BY DEF Record, Fit
<1>2. BookInv'
  BY DEF BookInv, Record
<1>3. m.id \in 0..MaxBatches /\ m \in BatchType
  BY DEF Fit, BatchOK, BatchType
<1>4. Counted(m)' /\ BatchOK(m) /\ Counted(m)
  BY DEF Fit, Counted
<1>5. disk' = [b \in Batches |-> disk'[b]]
  BY <1>1 DEF StateInv, Saved
<1>6. ASSUME NEW b \in Batches PROVE RowOK(b)'
  <2>0. RowOK(b)
    BY DEF StateInv
  <2>1. CASE b = m.id
    <3>1. disk'[b] = [phase |-> q, batch |-> m]
      BY <1>1, <1>5, <2>1, PipelineAssumption DEF Saved, StateInv, Batches, NoBatch
    <3> QED BY <1>3, <1>4, <2>1, <3>1 DEF RowOK
  <2>2. CASE b # m.id
    <3>1. disk'[b] = disk[b]
      BY <1>1, <2>2 DEF Saved, StateInv
    <3> QED BY <2>0, <3>1 DEF RowOK, Counted
  <2> QED BY <2>1, <2>2
<1>7. FixBudget'
  BY DEF StateInv, FixBudget
<1> QED BY <1>1, <1>2, <1>4, <1>5, <1>6, <1>7 DEF StateInv

\* The same, entering the phase over an edge of the graph.
LEMMA Entered ==
  ASSUME StateInv, BookInv, ResumeOK, NEW m, Fit(m), NEW q, CanGoTo(phase, q),
         Enter(m, q), UNCHANGED <<lastId, fixes>>
  PROVE  StateInv' /\ BookInv' /\ ResumeOK'
<1>1. phase \in Phases /\ q \in Phases
  BY EdgeType DEF StateInv
<1>2. Record(m, q) /\ resumeTo' = ResumeAfter(phase, q)
  BY DEF Enter
<1>3. ResumeOK'
  BY <1>1, <1>2, ResumeType DEF ResumeOK
<1> QED BY <1>1, <1>2, <1>3, Recorded

LEMMA EnteredIfLegal ==
  ASSUME StateInv, BookInv, ResumeOK, NEW m, Fit(m), NEW q,
         EnterIfLegal(m, q), UNCHANGED <<lastId, fixes>>
  PROVE  StateInv' /\ BookInv' /\ ResumeOK'
<1>1. CASE CanGoTo(phase, q)
  BY <1>1, Entered DEF EnterIfLegal
<1>2. CASE ~CanGoTo(phase, q)
  <2>1. Record(m, phase) /\ UNCHANGED resumeTo
    BY <1>2 DEF EnterIfLegal
  <2>2. phase \in Phases
    BY DEF StateInv
  <2> QED BY <2>1, <2>2, Recorded DEF ResumeOK
<1> QED BY <1>1, <1>2

\* _fail_hard keeps the invariant from any batch that fits.
LEMMA FailedHard ==
  ASSUME StateInv, BookInv, ResumeOK, NEW m, Fit(m), FailHard(m), UNCHANGED <<lastId, fixes>>
  PROVE  StateInv' /\ BookInv' /\ ResumeOK' /\ WorkerEnds
<1> DEFINE failed == IF m.planned
                     THEN [WithTask(m, TasksPerBatch, "FAILED") EXCEPT !.status = "FAILED"]
                     ELSE m
<1>1. Fit(failed)
  BY LastTaskFits
<1> HIDE DEF failed
<1>2. CASE CanGoTo(phase, "FAILED")
  <2>1. Enter(failed, "FAILED")
    BY <1>2 DEF FailHard, failed
  <2> QED BY <1>1, <1>2, <2>1, Entered DEF FailHard
<1>3. CASE ~CanGoTo(phase, "FAILED")
  <2>1. /\ Record(failed, IF phase = "FAILED" THEN "FAILED" ELSE "IDLE")
        /\ resumeTo' = IF phase = "FAILED" THEN resumeTo ELSE "IDLE"
        /\ WorkerEnds
    BY <1>3 DEF FailHard, failed
  <2>2. (IF phase = "FAILED" THEN "FAILED" ELSE "IDLE") \in Phases
    BY DEF Phases
  <2> QED BY <1>1, <2>1, <2>2, Recorded DEF ResumeOK
<1> QED BY <1>2, <1>3

LEMMA MustHaveEntered ==
  ASSUME StateInv, BookInv, ResumeOK, NEW m, Fit(m), NEW q,
         MustEnter(m, q), UNCHANGED <<lastId, fixes>>
  PROVE  StateInv' /\ BookInv' /\ ResumeOK' /\ (WorkerEnds \/ ToHead)
<1>1. CASE CanGoTo(phase, q)
  BY <1>1, Entered DEF MustEnter
<1>2. CASE ~CanGoTo(phase, q)
  BY <1>2, FailedHard DEF MustEnter
<1> QED BY <1>1, <1>2

\* A new batch takes the next id, whose row and fixes are still untouched.
LEMMA Started ==
  ASSUME StateInv, BookInv, ResumeOK, RequestStart, UNCHANGED fixes
  PROVE  StateInv' /\ BookInv' /\ ResumeOK' /\ mem'.id # NoBatch
<1>0. PICK n : n = EmptyBatch(lastId + 1)
  OBVIOUS
<1>1. lastId + 1 \in Batches /\ lastId' = lastId + 1 /\ lastId \in Nat
  BY PipelineAssumption DEF RequestStart, StateInv, Batches
<1>2. mem' = n /\ phase' = "PLANNING_BATCH" /\ n.id = lastId + 1
  BY <1>0 DEF RequestStart, Enter, Record, EmptyBatch
<1>3. BatchOK(n)
  BY <1>0, <1>1, EmptyBatchOK, PipelineAssumption DEF Batches
<1>4. \A t \in Tasks : fixes[lastId + 1][t] = 0 /\ n.rounds[t] = 0 /\ n.task[t] = "PENDING"
  BY <1>0, <1>1 DEF StateInv, EmptyBatch
<1>5. Counted(n) /\ Counted(n)'
  BY <1>2, <1>4 DEF Counted
<1>6. disk' = [disk EXCEPT ![lastId + 1] = [phase |-> "PLANNING_BATCH", batch |-> n]]
  <2>1. disk' = Saved(n, "PLANNING_BATCH")
    BY <1>0 DEF RequestStart, Enter, Record
  <2>2. n.id # NoBatch
    BY <1>1, <1>2 DEF NoBatch
  <2> QED BY <1>2, <2>1, <2>2 DEF Saved
<1>7. disk' = [b \in Batches |-> disk'[b]]
  BY <1>6 DEF StateInv
<1>8. ASSUME NEW b \in Batches PROVE RowOK(b)'
  <2>0. RowOK(b)
    BY DEF StateInv
  <2>1. CASE b = lastId + 1
    <3>1. disk'[b] = [phase |-> "PLANNING_BATCH", batch |-> n]
      BY <1>1, <1>6, <1>7, <2>1 DEF StateInv
    <3>2. "PLANNING_BATCH" \in Phases /\ n \in BatchType
      BY <1>3 DEF Phases, ActivePhases, BatchOK
    <3> QED BY <1>2, <1>3, <1>5, <2>1, <3>1, <3>2 DEF RowOK
  <2>2. CASE b # lastId + 1
    <3>1. disk'[b] = disk[b]
      BY <1>6, <2>2 DEF StateInv
    <3>2. b <= lastId' => b <= lastId
      BY <1>1, <2>2 DEF Batches
    <3> QED BY <2>0, <3>1, <3>2 DEF RowOK, Counted
  <2> QED BY <2>1, <2>2
<1>9. StateInv'
  <2>1. phase' \in Phases
    BY <1>2 DEF Phases, ActivePhases
  <2>2. lastId' \in 0..MaxBatches /\ mem'.id <= lastId'
    BY <1>1, <1>2, PipelineAssumption DEF Batches
  <2>3. \A b \in Batches, t \in Tasks : b > lastId' => fixes'[b][t] = 0
    BY <1>1 DEF StateInv, Batches
  <2> QED BY <1>2, <1>3, <1>5, <1>7, <1>8, <2>1, <2>2, <2>3 DEF StateInv, FixBudget
<1>10. BookInv'
  BY DEF RequestStart, Enter, Record, BookInv
<1>11. ResumeOK'
  BY ResumeType DEF RequestStart, Enter, ResumeOK, StateInv
<1> QED BY <1>1, <1>2, <1>9, <1>10, <1>11 DEF NoBatch

-----------------------------------------------------------------------------
(* The worker between units *)

\* A worker that ends, or is back at the head of its loop, knows nothing.
LEMMA AtRest ==
  ASSUME ControlInv, ResumeOK', WorkerEnds \/ ToHead,
         UNCHANGED <<ui, crashes>>, stopFlag' \in BOOLEAN, pauseFlag' \in BOOLEAN
  PROVE  ControlInv' /\ UnitInv'
<1>1. pc' \in {"none", "head"} /\ op' = "PLAN"
  BY DEF WorkerEnds, ToHead
<1>2. ControlInv'
  BY <1>1 DEF ControlInv, ResumeOK, WorkerEnds, ToHead, Units
<1>3. UnitInv'
  BY <1>1 DEF UnitInv
<1> QED BY <1>2, <1>3

LEMMA MemFits ==
  ASSUME StateInv PROVE Fit(mem)
BY DEF StateInv, Fit

\* The worker moves on with everything else as it was, to a place where it
\* claims to know nothing.
LEMMA GoesOn ==
  ASSUME ControlInv, NEW next \in {"loop", "passed", "handoff", "newBatch", "enter", "approved",
                                   "needsFix", "blocked", "planSaved", "auditSaved"},
         pc' = next, op' \in Units, mode' = mode, resuming' \in BOOLEAN,
         ResumeOK', UNCHANGED <<ui, crashes, flags>>
  PROVE  ControlInv' /\ UnitInv'
<1>1. ControlInv'
  BY DEF ControlInv, ResumeOK, ClaimedAt, flags
<1>2. UnitInv'
  BY DEF UnitInv
<1> QED BY <1>1, <1>2

LEMMA StopStep ==
  ASSUME StateInv, BookInv, RequestStop, UNCHANGED <<lastId, fixes>>
  PROVE  StateInv' /\ BookInv' /\ ResumeOK'
<1>1. PICK m : m = WithStatus(mem, "STOPPED")
  OBVIOUS
<1>2. Fit(m)
  BY <1>1, MemFits, StatusFits DEF BatchStatuses
<1>3. Record(m, "IDLE") /\ resumeTo' = "IDLE" /\ "IDLE" \in Phases
  BY <1>1 DEF RequestStop, Phases
<1> QED BY <1>2, <1>3, Recorded DEF ResumeOK

LEMMA PauseStep ==
  ASSUME StateInv, BookInv, ResumeOK, RequestPause, UNCHANGED <<lastId, fixes>>
  PROVE  StateInv' /\ BookInv' /\ ResumeOK'
<1>1. PICK m : m = WithStatus(mem, "PAUSED")
  OBVIOUS
<1>2. Fit(m)
  BY <1>1, MemFits, StatusFits DEF BatchStatuses
<1>3. Enter(m, "PAUSED") /\ CanGoTo(phase, "PAUSED")
  BY <1>1 DEF RequestPause
<1> QED BY <1>2, <1>3, Entered

LEMMA ResumeStep ==
  ASSUME StateInv, BookInv, ResumeOK, RequestResume, UNCHANGED <<lastId, fixes>>
  PROVE  StateInv' /\ BookInv' /\ ResumeOK'
<1>1. PICK m : m = WithStatus(mem, "RUNNING")
  OBVIOUS
<1>2. PICK q : q = ResumeTarget
  OBVIOUS
<1>3. Fit(m)
  BY <1>1, MemFits, StatusFits DEF BatchStatuses
<1>4. Enter(m, q) /\ CanGoTo(phase, q)
  BY <1>1, <1>2 DEF RequestResume
<1> QED BY <1>3, <1>4, Entered

\* Entry of run_batch, boundary control, and the claim of a unit.
LEMMA EnterRunStep ==
  ASSUME IInv, EnterRun PROVE IInv'
<1> USE DEF IInv, EnterRun
<1>0. ResumeOK /\ UNCHANGED <<ui, crashes, fixes, stopFlag, pauseFlag>>
  BY DEF ControlInv, ResumeOK, Ui, flags
<1>1. CASE RequestStart /\ ToHead
  BY <1>0, <1>1, Started, AtRest DEF ControlInv
<1>2. CASE RequestResume /\ ToHead /\ UNCHANGED lastId
  BY <1>0, <1>2, ResumeStep, AtRest DEF ControlInv
<1>3. CASE (WorkerEnds \/ ToHead) /\ UNCHANGED <<phase, resumeTo, mem, durable, lastId>>
  BY <1>0, <1>3, NothingRecorded, AtRest DEF ControlInv, ResumeOK
<1> QED BY <1>1, <1>2, <1>3

LEMMA BoundaryStep ==
  ASSUME IInv, StopAtBoundary \/ PauseAtBoundary PROVE IInv'
<1>0. /\ ResumeOK /\ UNCHANGED <<ui, crashes, fixes, lastId>>
      /\ WorkerEnds /\ stopFlag' = FALSE /\ pauseFlag' = FALSE
      /\ RequestStop \/ RequestPause
  BY DEF IInv, ControlInv, ResumeOK, Ui, StopAtBoundary, PauseAtBoundary
<1>1. StateInv' /\ BookInv' /\ ResumeOK'
  BY <1>0, StopStep, PauseStep DEF IInv
<1> QED BY <1>0, <1>1, AtRest DEF IInv

\* A unit is dispatched only when no task of the batch ended badly.
LEMMA NextIsClean ==
  ASSUME StateInv
  PROVE  /\ NextAction(mem, phase) \in TaskUnits =>
              \A t \in Tasks : mem.task[t] \notin {"BLOCKED", "FAILED"}
         /\ NextAction(mem, phase) = "PLAN" => mem.id # NoBatch
         /\ NextAction(mem, phase) # "FINAL"
<1> DEFINE bad == {t \in Tasks : mem.task[t] \in {"BLOCKED", "FAILED"}}
<1>1. FirstEnded(mem) = "none" => bad = {}
  <2>1. bad \in SUBSET Nat
    BY DEF Tasks
  <2>2. ASSUME bad # {} PROVE mem.task[Least(bad)] \in {"BLOCKED", "FAILED"}
    <3>1. Least(bad) \in bad
      BY <2>1, <2>2, LeastIsLeast
    <3> QED BY <3>1
  <2> QED BY <2>2 DEF FirstEnded
<1>2. FirstEnded(mem) # "none" => FirstEnded(mem) \in {"BLOCKED", "FAILED"}
  <2>1. bad \in SUBSET Nat
    BY DEF Tasks
  <2>2. ASSUME bad # {} PROVE mem.task[Least(bad)] \in {"BLOCKED", "FAILED"}
    <3>1. Least(bad) \in bad
      BY <2>1, <2>2, LeastIsLeast
    <3> QED BY <3>1
  <2> QED BY <2>2 DEF FirstEnded
<1> HIDE DEF bad
<1>3. \A t : TaskAction(mem, t) \in {"BUILD", "FIX", "AUDIT", "BLOCKED"}
  BY DEF TaskAction
<1>4. NextAction(mem, phase) \in TaskUnits => bad = {}
  BY <1>1, <1>2 DEF NextAction, TaskUnits
<1>5. NextAction(mem, phase) # "FINAL"
  BY <1>2, <1>3 DEF NextAction
<1>6. NextAction(mem, phase) = "PLAN" => mem.id # NoBatch
  BY <1>2, <1>3 DEF NextAction
<1> QED BY <1>4, <1>5, <1>6 DEF bad

LEMMA DispatchStep ==
  ASSUME IInv, Dispatch PROVE IInv'
<1>0. /\ ResumeOK /\ ResumeOK'
      /\ UNCHANGED <<ui, crashes, phase, resumeTo, mem, durable, lastId, fixes>>
      /\ stopFlag' \in BOOLEAN /\ pauseFlag' \in BOOLEAN
  BY DEF IInv, ControlInv, ResumeOK, Ui, Dispatch, flags
<1>1. StateInv' /\ BookInv'
  BY <1>0, NothingRecorded DEF IInv
<1>2. CASE WorkerEnds
  BY <1>0, <1>1, <1>2, AtRest DEF IInv
<1>3. CASE GoOn("loop") /\ stopFlag' = FALSE /\ pauseFlag' = FALSE
  <2>1. ControlInv'
    BY <1>0, <1>3 DEF IInv, ControlInv, GoOn, ResumeOK
  <2>2. UnitInv'
    BY <1>3 DEF GoOn, UnitInv
  <2> QED BY <1>1, <2>1, <2>2 DEF IInv
<1>4. CASE /\ pc' = "claim" /\ op' = NextAction(mem, phase) /\ op' \in Units
           /\ UNCHANGED <<mode, resuming>>
  <2>1. ControlInv'
    BY <1>0, <1>4 DEF IInv, ControlInv, ResumeOK
  <2>2. UnitInv'
    BY <1>0, <1>4, NextIsClean DEF IInv, UnitInv
  <2> QED BY <1>1, <2>1, <2>2 DEF IInv
<1> QED BY <1>2, <1>3, <1>4 DEF Dispatch, RunIsReady

LEMMA ClaimStep ==
  ASSUME IInv, Claim PROVE IInv'
<1>0. /\ ResumeOK' /\ pauseFlag' \in BOOLEAN /\ stopFlag' \in BOOLEAN
      /\ UNCHANGED <<ui, crashes, phase, resumeTo, mem, durable, lastId, fixes>>
  BY DEF IInv, ControlInv, ResumeOK, Ui, Claim
<1>1. StateInv' /\ BookInv'
  BY <1>0, NothingRecorded DEF IInv
<1>2. CASE WorkerEnds
  BY <1>0, <1>1, <1>2, AtRest DEF IInv
<1>3. CASE pc = "claim" /\ GoOn("gate")
  <2>1. ControlInv'
    BY <1>0, <1>3 DEF IInv, ControlInv, ResumeOK, GoOn, ClaimedAt
  <2>2. UnitInv'
    BY <1>0, <1>3 DEF IInv, UnitInv, GoOn
  <2> QED BY <1>1, <2>1, <2>2 DEF IInv
<1> QED BY <1>2, <1>3 DEF Claim

-----------------------------------------------------------------------------
(* The gate *)

Clean == \A t \in Tasks : mem.task[t] \notin {"BLOCKED", "FAILED"}

\* Every way for a unit of work to end with one record of a batch that fits.
LEMMA UnitEnds ==
  ASSUME IInv, NEW m, Fit(m), NEW q, Ui, UNCHANGED <<lastId, flags, fixes>>,
         \/ /\ q \in Phases /\ Record(m, q) /\ UNCHANGED resumeTo
            /\ WorkerEnds \/ ToHead
         \/ EnterIfLegal(m, q) /\ (WorkerEnds \/ ToHead)
         \/ MustEnter(m, q)
         \/ FailHard(m)
  PROVE  IInv'
<1>0. /\ StateInv /\ BookInv /\ ResumeOK /\ ControlInv
      /\ UNCHANGED <<ui, crashes>> /\ stopFlag' \in BOOLEAN /\ pauseFlag' \in BOOLEAN
  BY DEF IInv, ControlInv, ResumeOK, Ui, flags
<1>1. StateInv' /\ BookInv' /\ ResumeOK' /\ (WorkerEnds \/ ToHead)
  <2>1. CASE q \in Phases /\ Record(m, q) /\ UNCHANGED resumeTo /\ (WorkerEnds \/ ToHead)
    BY <1>0, <2>1, Recorded DEF ResumeOK
  <2>2. CASE EnterIfLegal(m, q) /\ (WorkerEnds \/ ToHead)
    BY <1>0, <2>2, EnteredIfLegal
  <2>3. CASE MustEnter(m, q)
    BY <1>0, <2>3, MustHaveEntered
  <2>4. CASE FailHard(m)
    BY <1>0, <2>4, FailedHard
  <2> QED BY <2>1, <2>2, <2>3, <2>4
<1>2. ControlInv' /\ UnitInv'
  BY <1>0, <1>1, AtRest
<1> QED BY <1>1, <1>2 DEF IInv

\* The task under work may be moved, in memory or in a judged copy of it.
LEMMA CurFits ==
  ASSUME StateInv, HasWork, Clean, NEW m, Fit(m), m.task = mem.task, m.rounds = mem.rounds,
         NEW s \in TaskStates,
         s = "FIX_REQUIRED" => fixes[mem.id][Cur] < mem.rounds[Cur]
  PROVE  Fit(WithTask(m, Cur, s)) /\ Fit(Failed(m, Cur)) /\ Fit(Blocked(m, Cur))
<1>1. /\ Cur \in Tasks /\ m.id \in Batches /\ m.id = mem.id
      /\ m.task[Cur] # "APPROVED"
      /\ \A u \in 1..(Cur - 1) : m.task[u] = "APPROVED"
      /\ fixes \in [Batches -> [Tasks -> Nat]]
  BY CurIsNext DEF Clean, Fit, StateInv
<1>2. Fit(WithTask(m, Cur, s))
  BY <1>1, TaskFits
<1>3. \A r \in {"FAILED", "BLOCKED"} :
        r \in TaskStates /\ r \in BatchStatuses /\ r # "FIX_REQUIRED"
  BY DEF TaskStates, BatchStatuses
<1>4. Fit(WithTask(m, Cur, "FAILED")) /\ Fit(WithTask(m, Cur, "BLOCKED"))
  BY <1>1, <1>3, TaskFits
<1> QED BY <1>2, <1>3, <1>4, StatusFits DEF Failed, Blocked

LEMMA CurFitsHere ==
  ASSUME StateInv, HasWork, Clean, NEW s \in TaskStates, s # "FIX_REQUIRED"
  PROVE  Fit(WithTask(mem, Cur, s)) /\ Fit(Failed(mem, Cur)) /\ Fit(Blocked(mem, Cur))
<1>1. Fit(mem)
  BY MemFits
<1> QED BY <1>1, CurFits

LEMMA WorkPhaseOK ==
  ASSUME StateInv PROVE WorkPhase \in Phases
BY DEF StateInv, WorkPhase, Phases, ActivePhases

LEMMA GateRefusesStep ==
  ASSUME IInv, GateRefuses PROVE IInv'
<1>1. PICK q : q = WorkPhase
  OBVIOUS
<1>2. q \in Phases /\ Fit(mem)
  BY <1>1, WorkPhaseOK, MemFits DEF IInv
<1>3. Record(mem, q) /\ UNCHANGED resumeTo /\ WorkerEnds /\ Ui /\ UNCHANGED <<lastId, flags, fixes>>
  BY <1>1 DEF GateRefuses
<1>4. PICK m : m = mem
  OBVIOUS
<1> QED BY <1>2, <1>3, <1>4, UnitEnds

LEMMA GateBlocksStep ==
  ASSUME IInv, GateBlocks PROVE IInv'
<1>1. StateInv /\ HasWork /\ Clean
  BY DEF IInv, UnitInv, GateBlocks, Capped, Clean, TaskUnits
<1>2. PICK m : m = Blocked(mem, Cur)
  OBVIOUS
<1>3. Fit(m)
  BY <1>1, <1>2, CurFitsHere DEF TaskStates
<1>4. /\ "BLOCKED" \in Phases /\ Record(m, "BLOCKED") /\ UNCHANGED resumeTo
      /\ WorkerEnds /\ Ui /\ UNCHANGED <<lastId, flags, fixes>>
  BY <1>2 DEF GateBlocks, Phases
<1> QED BY <1>3, <1>4, UnitEnds

LEMMA MarkedFits ==
  ASSUME StateInv PROVE Fit(Marked)
BY MemFits, StatusFits DEF Marked, BatchStatuses

LEMMA PreflightRefusesStep ==
  ASSUME IInv, PreflightRefuses PROVE IInv'
<1>0. StateInv /\ WorkerEnds /\ Ui /\ UNCHANGED <<lastId, flags, fixes>>
  BY DEF IInv, PreflightRefuses
<1>1. CASE Record(Marked, WorkPhase) /\ UNCHANGED resumeTo
  <2>1. PICK m : m = Marked
    OBVIOUS
  <2>2. PICK q : q = WorkPhase
    OBVIOUS
  <2>3. Fit(m) /\ q \in Phases
    BY <1>0, <2>1, <2>2, MarkedFits, WorkPhaseOK
  <2>4. Record(m, q)
    BY <1>1, <2>1, <2>2
  <2> QED BY <1>0, <1>1, <2>3, <2>4, UnitEnds
<1>2. CASE op \in TaskUnits
  <2>1. HasWork /\ Clean
    BY <1>2 DEF PreflightRefuses, Admitted, MayPlan, MayBuild, MayAudit, MayFix, MayFinal,
                IInv, UnitInv, Clean, TaskUnits
  <2>2. PICK f : f = Failed(mem, Cur)
    OBVIOUS
  <2>3. PICK b : b = Blocked(mem, Cur)
    OBVIOUS
  <2>4. Fit(f) /\ Fit(b)
    BY <1>0, <2>1, <2>2, <2>3, CurFitsHere DEF TaskStates
  <2>5. \/ Record(f, "FAILED") /\ UNCHANGED resumeTo
        \/ EnterIfLegal(b, "BLOCKED")
        \/ Record(b, "BLOCKED") /\ UNCHANGED resumeTo
        \/ Record(Marked, WorkPhase) /\ UNCHANGED resumeTo
    BY <2>2, <2>3 DEF PreflightRefuses
  <2>6. "FAILED" \in Phases /\ "BLOCKED" \in Phases
    BY DEF Phases
  <2> QED BY <1>0, <1>1, <2>4, <2>5, <2>6, UnitEnds
<1> QED BY <1>1, <1>2 DEF PreflightRefuses, TaskUnits

-----------------------------------------------------------------------------
(* The prompts *)

\* What a prompt other than a fix records.
LEMMA Sent ==
  ASSUME IInv, NEW m, Fit(m), NEW q \in Phases, Sends(m, q), UNCHANGED fixes
  PROVE  /\ StateInv' /\ BookInv' /\ ControlInv'
         /\ pc' = "prompt" /\ op' = op /\ mem' = m
<1>0. /\ StateInv /\ BookInv /\ ResumeOK /\ ControlInv /\ Record(m, q) /\ UNCHANGED resumeTo
      /\ UNCHANGED <<ui, crashes, flags, lastId>> /\ GoOn("prompt")
  BY DEF IInv, ControlInv, ResumeOK, Ui, Sends
<1>1. StateInv' /\ BookInv'
  BY <1>0, Recorded
<1>2. ControlInv'
  BY <1>0 DEF ControlInv, GoOn, ClaimedAt, flags
<1>3. pc' = "prompt" /\ op' = op /\ mem' = m
  BY <1>0 DEF GoOn, Record
<1> QED BY <1>1, <1>2, <1>3

LEMMA SendPlanStep ==
  ASSUME IInv, SendPlan PROVE IInv'
<1>1. PICK m : m = Marked
  OBVIOUS
<1>2. PICK q : q = phase
  OBVIOUS
<1>3. Fit(m) /\ q \in Phases /\ op = "PLAN" /\ mem.id # NoBatch
  BY <1>1, <1>2, MarkedFits DEF IInv, StateInv, SendPlan, MayPlan, Sends, UnitInv
<1>4. Sends(m, q) /\ UNCHANGED fixes
  BY <1>1, <1>2 DEF SendPlan
<1>5. StateInv' /\ BookInv' /\ ControlInv' /\ pc' = "prompt" /\ op' = "PLAN" /\ mem' = m
  BY <1>3, <1>4, Sent
<1>6. UnitInv'
  BY <1>3, <1>5 DEF UnitInv, TaskUnits, Fit
<1> QED BY <1>5, <1>6 DEF IInv

\* A batch with the tasks of another has the same work left.
LEMMA SameWork ==
  ASSUME StateInv, StateInv', mem'.planned = mem.planned, mem'.task = mem.task
  PROVE  Cur' = Cur /\ HasWork' = HasWork /\ Undone(mem)' = Undone(mem)
BY DEF Cur, HasWork, Undone

\* The task under work stays the first undone one while it is RUNNING.
LEMMA StillUndone ==
  ASSUME StateInv, HasWork, NEW s \in TaskStates \ {"APPROVED", "BLOCKED", "FAILED"},
         mem'.planned, mem'.task = [mem.task EXCEPT ![Cur] = s]
  PROVE  Undone(mem)' = Undone(mem) /\ Cur' = Cur /\ HasWork'
<1>1. Cur \in Tasks /\ mem.planned /\ mem.task \in [Tasks -> TaskStates]
      /\ mem.task[Cur] \notin {"APPROVED", "BLOCKED", "FAILED"}
  BY CurIsNext DEF StateInv, BatchOK, BatchType
<1>2. \A t \in Tasks : mem'.task[t] \in {"APPROVED", "BLOCKED", "FAILED"}
                         <=> mem.task[t] \in {"APPROVED", "BLOCKED", "FAILED"}
  BY <1>1
<1>3. Undone(mem)' = Undone(mem)
  BY <1>1, <1>2 DEF Undone
<1> QED BY <1>3 DEF Cur, HasWork

LEMMA SendBuildStep ==
  ASSUME IInv, SendBuild PROVE IInv'
<1>0. StateInv /\ HasWork /\ Clean /\ op = "BUILD"
  BY DEF IInv, UnitInv, SendBuild, Sends, MayBuild, Clean, TaskUnits
<1>1. PICK m : m = Running(WithTask(mem, Cur, "RUNNING"))
  OBVIOUS
<1>2. Fit(m)
  BY <1>0, <1>1, CurFitsHere, StatusFits DEF TaskStates, BatchStatuses, Running
<1>3. Sends(m, "RUNNING_TASK") /\ UNCHANGED fixes /\ "RUNNING_TASK" \in Phases
  BY <1>1 DEF SendBuild, Phases, ActivePhases
<1>4. StateInv' /\ BookInv' /\ ControlInv' /\ pc' = "prompt" /\ op' = "BUILD" /\ mem' = m
  BY <1>0, <1>2, <1>3, Sent
<1>5. mem \in BatchType /\ Cur \in Tasks /\ mem.planned
  BY <1>0, CurIsNext DEF StateInv, BatchOK
<1>6. mem'.planned /\ mem'.task = [mem.task EXCEPT ![Cur] = "RUNNING"]
  BY <1>1, <1>4, <1>5 DEF Running, WithTask, BatchType
<1>7. HasWork'
  BY <1>0, <1>6, StillUndone DEF TaskStates
<1>8. \A t \in Tasks : mem'.task[t] \notin {"BLOCKED", "FAILED"}
  BY <1>0, <1>5, <1>6 DEF BatchType, Clean
<1>9. UnitInv'
  BY <1>4, <1>7, <1>8 DEF UnitInv, TaskUnits
<1> QED BY <1>4, <1>9 DEF IInv

LEMMA SendAuditStep ==
  ASSUME IInv, SendAudit PROVE IInv'
<1>0. StateInv /\ HasWork /\ Clean /\ op = "AUDIT" /\ ~CapReached /\ UNCHANGED fixes
  BY DEF IInv, UnitInv, SendAudit, Sends, MayAudit, Clean, TaskUnits
<1>1. PICK m : m = Audited(mem)
  OBVIOUS
<1>q. PICK q : q = WorkPhase
  OBVIOUS
<1>2. Fit(m) /\ q \in Phases
  BY <1>0, <1>1, <1>q, RoundFits, WorkPhaseOK
<1>3. Sends(m, q)
  BY <1>1, <1>q DEF SendAudit
<1>4. StateInv' /\ BookInv' /\ ControlInv' /\ pc' = "prompt" /\ op' = "AUDIT" /\ mem' = m
  BY <1>0, <1>2, <1>3, Sent
<1>5. /\ mem'.task = mem.task /\ mem'.planned = mem.planned /\ mem'.id = mem.id
      /\ mem'.rounds = [mem.rounds EXCEPT ![Cur] = @ + 1]
  BY <1>0, <1>1, <1>2, <1>4, RoundFits DEF Fit
<1>6. Cur' = Cur /\ HasWork'
  BY <1>0, <1>4, <1>5, SameWork
<1>7. fixes'[mem'.id][Cur'] < mem'.rounds[Cur']
  <2>1. Cur \in Tasks /\ mem.id \in Batches
    BY <1>0, CurIsNext
  <2>2. fixes[mem.id][Cur] \in Nat /\ mem.rounds[Cur] \in Nat /\ mem.rounds \in [Tasks -> 0..MaxAuditRounds]
    BY <1>0, <2>1, PipelineAssumption DEF StateInv, BatchOK, BatchType
  <2>3. fixes[mem.id][Cur] <= mem.rounds[Cur]
    BY <1>0, <2>1 DEF StateInv, Counted, Batches, NoBatch
  <2>4. mem'.rounds[Cur] = mem.rounds[Cur] + 1
    BY <1>5, <2>1, <2>2
  <2> QED BY <1>0, <1>5, <1>6, <2>2, <2>3, <2>4
<1>8. UnitInv'
  BY <1>0, <1>4, <1>5, <1>6, <1>7 DEF UnitInv, TaskUnits, Clean
<1> QED BY <1>4, <1>8 DEF IInv

LEMMA SendFinalStep ==
  ASSUME IInv, SendFinal PROVE IInv'
<1>0. StateInv /\ op = "FINAL" /\ AllApproved(mem) /\ UNCHANGED fixes
  BY DEF IInv, SendFinal, MayFinal
<1>1. PICK m : m = mem
  OBVIOUS
<1>2. Fit(m) /\ "FINAL_AUDIT_RUNNING" \in Phases /\ Sends(m, "FINAL_AUDIT_RUNNING")
  BY <1>0, <1>1, MemFits DEF SendFinal, Phases, ActivePhases
<1>4. StateInv' /\ BookInv' /\ ControlInv' /\ pc' = "prompt" /\ op' = "FINAL" /\ mem' = mem
  BY <1>0, <1>1, <1>2, Sent
<1>5. UnitInv'
  BY <1>0, <1>4 DEF UnitInv, TaskUnits
<1> QED BY <1>4, <1>5 DEF IInv

\* A fix is prompted for a task whose last audit round has no fix yet.
LEMMA SendFixStep ==
  ASSUME IInv, SendFix PROVE IInv'
<1>0. /\ StateInv /\ BookInv /\ ControlInv
      /\ HasWork /\ Clean /\ op = "FIX" /\ mem.task[Cur] = "FIX_REQUIRED" /\ ~CapReached
  BY DEF IInv, UnitInv, SendFix, Sends, MayFix, Clean, TaskUnits
<1>1. PICK m : m = Running(WithTask(mem, Cur, "RUNNING_FIX"))
  OBVIOUS
<1>2. Fit(m)
  BY <1>0, <1>1, CurFitsHere, StatusFits DEF TaskStates, BatchStatuses, Running
<1>3. /\ Record(m, "RUNNING_FIX") /\ UNCHANGED <<resumeTo, lastId, flags, ui, crashes>>
      /\ GoOn("prompt") /\ fixes' = [fixes EXCEPT ![mem.id][Cur] = @ + 1]
  BY <1>1 DEF SendFix, Sends, Ui
<1>4. mem \in BatchType /\ Cur \in Tasks /\ mem.planned /\ mem.id \in Batches
  BY <1>0, CurIsNext DEF StateInv, BatchOK
<1>5. /\ m.planned /\ m.task = [mem.task EXCEPT ![Cur] = "RUNNING_FIX"]
      /\ m.rounds = mem.rounds /\ m.id = mem.id /\ mem' = m
  BY <1>1, <1>3, <1>4 DEF Running, WithTask, BatchType, Record
<1>6. mem.rounds \in [Tasks -> 0..MaxAuditRounds] /\ fixes \in [Batches -> [Tasks -> Nat]]
  BY <1>0, <1>4 DEF BatchType, StateInv
<1>7. fixes[mem.id][Cur] < mem.rounds[Cur] /\ mem.rounds[Cur] < MaxAuditRounds
  BY <1>0, <1>4, <1>6, PipelineAssumption DEF StateInv, Counted, CapReached, Batches, NoBatch
<1>8. /\ fixes' \in [Batches -> [Tasks -> Nat]]
      /\ fixes'[mem.id][Cur] = fixes[mem.id][Cur] + 1
      /\ \A b \in Batches, t \in Tasks :
            b # mem.id \/ t # Cur => fixes'[b][t] = fixes[b][t]
  BY <1>3, <1>4, <1>6
<1>9. Counted(m)'
  <2> SUFFICES ASSUME NEW t \in Tasks
               PROVE  /\ fixes'[m.id][t] <= m.rounds[t]
                      /\ m.task[t] = "FIX_REQUIRED" => fixes'[m.id][t] < m.rounds[t]
    BY DEF Counted
  <2>1. CASE t = Cur
    BY <1>4, <1>5, <1>6, <1>7, <1>8, <2>1, PipelineAssumption DEF BatchType
  <2>2. CASE t # Cur
    BY <1>2, <1>4, <1>5, <1>8, <2>2 DEF Fit, Counted, Batches, NoBatch
  <2> QED BY <2>1, <2>2
<1>10. disk' = [disk EXCEPT ![mem.id] = [phase |-> "RUNNING_FIX", batch |-> m]]
  BY <1>3, <1>4, <1>5 DEF Record, Saved, Batches, NoBatch
<1>11. ASSUME NEW b \in Batches PROVE RowOK(b)'
  <2>0. RowOK(b)
    BY <1>0 DEF StateInv
  <2>1. CASE b = mem.id
    <3>1. disk'[b] = [phase |-> "RUNNING_FIX", batch |-> m]
      BY <1>0, <1>10, <2>1 DEF StateInv
    <3>2. "RUNNING_FIX" \in Phases /\ m \in BatchType /\ BatchOK(m)
      BY <1>2 DEF Phases, ActivePhases, Fit, BatchOK
    <3> QED BY <1>5, <1>9, <2>1, <3>1, <3>2 DEF RowOK
  <2>2. CASE b # mem.id
    <3>1. disk'[b] = disk[b]
      BY <1>0, <1>10, <2>2 DEF StateInv
    <3>2. Counted(disk[b].batch)'
      BY <1>8, <2>0, <2>2, <3>1 DEF RowOK, Counted, NoBatch
    <3> QED BY <1>3, <2>0, <3>1, <3>2 DEF RowOK
  <2> QED BY <2>1, <2>2
<1>12. FixBudget'
  <2> SUFFICES ASSUME NEW b \in Batches, NEW t \in Tasks PROVE fixes'[b][t] < MaxAuditRounds
    BY DEF FixBudget
  <2>1. CASE b = mem.id /\ t = Cur
    BY <1>4, <1>6, <1>7, <1>8, <2>1, PipelineAssumption
  <2>2. CASE b # mem.id \/ t # Cur
    BY <1>0, <1>8, <2>2 DEF StateInv, FixBudget
  <2> QED BY <2>1, <2>2
<1>13. StateInv'
  <2>1. phase' \in Phases
    BY <1>3 DEF Record, Phases, ActivePhases
  <2>2. BatchOK(mem') /\ Counted(mem)'
    BY <1>2, <1>5, <1>9 DEF Fit
  <2>3. disk' = [b \in Batches |-> disk'[b]]
    BY <1>0, <1>10 DEF StateInv
  <2>4. \A b \in Batches, t \in Tasks : b > lastId' => fixes'[b][t] = 0
    BY <1>0, <1>3, <1>4, <1>8, PipelineAssumption DEF StateInv, Batches
  <2> QED BY <1>0, <1>3, <1>5, <1>8, <1>11, <1>12, <2>1, <2>2, <2>3, <2>4 DEF StateInv
<1>14. BookInv' /\ ControlInv'
  BY <1>0, <1>3 DEF BookInv, ControlInv, Record, GoOn, ClaimedAt, flags
<1>15. UnitInv'
  <2>1. HasWork'
    BY <1>0, <1>5, StillUndone DEF TaskStates
  <2>2. \A t \in Tasks : mem'.task[t] \notin {"BLOCKED", "FAILED"}
    BY <1>0, <1>4, <1>5 DEF BatchType, Clean
  <2> QED BY <1>0, <1>3, <2>1, <2>2 DEF UnitInv, TaskUnits, GoOn
<1> QED BY <1>13, <1>14, <1>15 DEF IInv

-----------------------------------------------------------------------------
(* The answers *)

LEMMA RaisesStep ==
  ASSUME IInv, Raises PROVE IInv'
<1>1. PICK m : m = mem
  OBVIOUS
<1>2. Fit(m) /\ FailHard(m) /\ Ui /\ UNCHANGED <<lastId, flags, fixes>>
  BY <1>1, MemFits DEF IInv, Raises, Answer
<1> QED BY <1>2, UnitEnds

\* A batch that has an id may be given its tasks.
LEMMA PlannedFits ==
  ASSUME StateInv, mem.id # NoBatch PROVE Fit(Planned(mem))
<1>1. /\ mem \in BatchType /\ Planned(mem) \in BatchType
      /\ Planned(mem).id = mem.id /\ Planned(mem).task = mem.task
      /\ Planned(mem).rounds = mem.rounds
  BY DEF StateInv, BatchOK, BatchType, Planned
<1> QED BY <1>1 DEF StateInv, BatchOK, InOrder, Counted, Fit

LEMMA PlanReturnsStep ==
  ASSUME IInv, PlanReturns PROVE IInv'
<1>0. StateInv /\ mem.id # NoBatch /\ Ui /\ UNCHANGED <<lastId, flags, fixes>>
  BY DEF IInv, UnitInv, PlanReturns, Answer
<1>p. PICK p : p = Planned(mem)
  OBVIOUS
<1>f. PICK f : f = WithStatus(mem, "FAILED")
  OBVIOUS
<1>b. PICK b : b = WithStatus(mem, "BLOCKED")
  OBVIOUS
<1>q. PICK q : q = phase
  OBVIOUS
<1>1. Fit(p) /\ Fit(f) /\ Fit(b) /\ q \in Phases
  BY <1>0, <1>p, <1>f, <1>b, <1>q, PlannedFits, MemFits, StatusFits DEF BatchStatuses, StateInv
<1>2. \/ Record(p, q) /\ UNCHANGED resumeTo /\ ToHead
      \/ EnterIfLegal(f, "FAILED") /\ WorkerEnds
      \/ EnterIfLegal(b, "BLOCKED") /\ WorkerEnds
  BY <1>p, <1>f, <1>b, <1>q DEF PlanReturns
<1> QED BY <1>0, <1>1, <1>2, UnitEnds

\* _fail_task, from a batch whose task under work may be written off.
LEMMA TaskFailed ==
  ASSUME IInv, NEW m, NEW f, f = Failed(m, Cur), Fit(f), FailTask(m, Cur),
         Ui, UNCHANGED <<lastId, flags, fixes>>
  PROVE  IInv'
<1>1. CASE CanGoTo(phase, "FAILED")
  <2>1. EnterIfLegal(f, "FAILED") /\ WorkerEnds
    BY <1>1 DEF FailTask, EnterIfLegal
  <2> QED BY <2>1, UnitEnds
<1>2. CASE ~CanGoTo(phase, "FAILED")
  <2>1. FailHard(f)
    BY <1>2 DEF FailTask
  <2> QED BY <2>1, UnitEnds
<1> QED BY <1>1, <1>2

LEMMA BuilderReturnsStep ==
  ASSUME IInv, BuilderReturns PROVE IInv'
<1>0. StateInv /\ HasWork /\ Clean /\ Ui /\ UNCHANGED <<lastId, flags, fixes>>
  BY DEF IInv, UnitInv, BuilderReturns, Answer, Clean, TaskUnits
<1>a. PICK a : a = WithTask(mem, Cur, "AUDITING")
  OBVIOUS
<1>m. PICK m : m = mem
  OBVIOUS
<1>f. PICK f : f = Failed(m, Cur)
  OBVIOUS
<1>1. Fit(a) /\ Fit(f)
  BY <1>0, <1>a, <1>m, <1>f, CurFitsHere DEF TaskStates
<1>2. MustEnter(a, "AUDITING_TASK") \/ FailTask(m, Cur)
  BY <1>a, <1>m DEF BuilderReturns
<1>3. CASE MustEnter(a, "AUDITING_TASK")
  BY <1>0, <1>1, <1>3, UnitEnds
<1>4. CASE FailTask(m, Cur)
  BY <1>0, <1>f, <1>1, <1>4, TaskFailed
<1> QED BY <1>2, <1>3, <1>4

\* The five answers of an audit; NEEDS_FIX asks for a fix that the round counted
\* before the prompt pays for.
LEMMA AuditReturnsStep ==
  ASSUME IInv, AuditReturns PROVE IInv'
<1>0. /\ StateInv /\ BookInv /\ ControlInv /\ HasWork /\ Clean
      /\ Ui /\ UNCHANGED <<lastId, flags, fixes>>
      /\ fixes[mem.id][Cur] < mem.rounds[Cur] /\ Fit(mem)
  BY MemFits DEF IInv, UnitInv, AuditReturns, Answer, Clean, TaskUnits
<1>j. ASSUME NEW v \in Verdicts, NEW s \in TaskStates
      PROVE  /\ Fit(WithTask(Judged(mem, v), Cur, s))
             /\ Fit(Blocked(Judged(mem, v), Cur))
  <2>1. PICK m : m = Judged(mem, v)
    OBVIOUS
  <2>2. Fit(m) /\ m.task = mem.task /\ m.rounds = mem.rounds
    BY <1>0, <2>1, VerdictFits DEF Judged
  <2> QED BY <1>0, <2>1, <2>2, CurFits
<1>1. CASE /\ Record(WithTask(Judged(mem, "PASS"), Cur, "APPROVED"), phase)
           /\ UNCHANGED resumeTo /\ GoOn("approved")
  <2>1. PICK m : m = WithTask(Judged(mem, "PASS"), Cur, "APPROVED")
    OBVIOUS
  <2>2. PICK q : q = phase
    OBVIOUS
  <2>3. Fit(m) /\ q \in Phases /\ Record(m, q)
    BY <1>0, <1>1, <1>j, <2>1, <2>2 DEF Verdicts, TaskStates, StateInv
  <2>4. StateInv' /\ BookInv'
    BY <1>0, <2>3, Recorded
  <2>5. ControlInv' /\ UnitInv'
    BY <1>0, <1>1, GoesOn DEF GoOn, Ui, ControlInv, ResumeOK
  <2> QED BY <2>4, <2>5 DEF IInv
<1>2. CASE BlockTask(Judged(mem, "NEEDS_FIX"), Cur)
  <2>1. PICK m : m = Blocked(Judged(mem, "NEEDS_FIX"), Cur)
    OBVIOUS
  <2>2. Fit(m) /\ EnterIfLegal(m, "BLOCKED") /\ WorkerEnds
    BY <1>2, <1>j, <2>1 DEF BlockTask, Verdicts, TaskStates
  <2> QED BY <1>0, <2>2, UnitEnds
<1>3. CASE MustEnter(WithTask(Judged(mem, "NEEDS_FIX"), Cur, "FIX_REQUIRED"), "FIX_REQUIRED")
  <2>1. PICK m : m = WithTask(Judged(mem, "NEEDS_FIX"), Cur, "FIX_REQUIRED")
    OBVIOUS
  <2>2. Fit(m) /\ MustEnter(m, "FIX_REQUIRED")
    BY <1>3, <1>j, <2>1 DEF Verdicts, TaskStates
  <2> QED BY <1>0, <2>2, UnitEnds
<1>4. CASE BlockTask(Judged(mem, "BLOCKED"), Cur)
  <2>1. PICK m : m = Blocked(Judged(mem, "BLOCKED"), Cur)
    OBVIOUS
  <2>2. Fit(m) /\ EnterIfLegal(m, "BLOCKED") /\ WorkerEnds
    BY <1>4, <1>j, <2>1 DEF BlockTask, Verdicts, TaskStates
  <2> QED BY <1>0, <2>2, UnitEnds
<1>5. CASE BlockTask(mem, Cur)
  <2>1. PICK m : m = Blocked(mem, Cur)
    OBVIOUS
  <2>2. Fit(m) /\ EnterIfLegal(m, "BLOCKED") /\ WorkerEnds
    BY <1>0, <1>5, <2>1, CurFitsHere DEF BlockTask, TaskStates
  <2> QED BY <1>0, <2>2, UnitEnds
<1>6. CASE FailTask(mem, Cur)
  <2>1. PICK m : m = mem
    OBVIOUS
  <2>2. PICK f : f = Failed(m, Cur)
    OBVIOUS
  <2>3. Fit(f) /\ FailTask(m, Cur)
    BY <1>0, <1>6, <2>1, <2>2, CurFitsHere DEF TaskStates
  <2> QED BY <1>0, <2>2, <2>3, TaskFailed
<1> QED BY <1>1, <1>2, <1>3, <1>4, <1>5, <1>6 DEF AuditReturns

\* A batch that fits is in memory only.
LEMMA OnlyInMemory ==
  ASSUME StateInv, BookInv, NEW m, Fit(m), mem' = m,
         UNCHANGED <<phase, durable, lastId, fixes>>
  PROVE  StateInv' /\ BookInv'
<1>1. Counted(mem)' /\ BatchOK(mem') /\ mem'.id = mem.id
  BY DEF Fit, Counted
<1> QED BY <1>1 DEF StateInv, BookInv, durable, RowOK, Counted, FixBudget

LEMMA FinalReturnsStep ==
  ASSUME IInv, FinalReturns PROVE IInv'
<1>0. /\ StateInv /\ BookInv /\ ControlInv /\ ResumeOK /\ AllApproved(mem) /\ Fit(mem)
      /\ Ui /\ UNCHANGED <<lastId, flags, fixes>>
  BY MemFits DEF IInv, UnitInv, FinalReturns, Answer, ControlInv, ResumeOK
<1>b. PICK b : b = WithStatus(mem, "BLOCKED")
  OBVIOUS
<1>m. PICK m : m = mem
  OBVIOUS
<1>f. Fit(b) /\ Fit(m)
  BY <1>0, <1>b, <1>m, StatusFits DEF BatchStatuses
<1>1. CASE /\ GoOn("planSaved") /\ plans' = WithPlanOf(mem.id)
           /\ UNCHANGED <<phase, resumeTo, mem, disk, final, usedBy>>
  <2>1. mem.id \in Batches
    BY <1>0 DEF AllApproved, StateInv, BatchOK, BatchType, Batches, NoBatch
  <2>2. BookInv'
    BY <1>0, <1>1, <2>1 DEF BookInv, WithPlanOf
  <2>3. StateInv'
    BY <1>0, <1>1 DEF StateInv, RowOK, Counted, FixBudget
  <2>4. ControlInv' /\ UnitInv'
    BY <1>0, <1>1, GoesOn DEF GoOn, Ui, ControlInv, ResumeOK
  <2> QED BY <2>2, <2>3, <2>4 DEF IInv
<1>2. CASE /\ pc' \in {"needsFix", "blocked"} /\ UNCHANGED <<op, mode, resuming>>
           /\ IF CanGoTo(phase, "BLOCKED") THEN Enter(b, "BLOCKED")
              ELSE mem' = b /\ UNCHANGED <<phase, resumeTo, durable>>
  <2>1. StateInv' /\ BookInv' /\ ResumeOK'
    <3>1. CASE CanGoTo(phase, "BLOCKED")
      BY <1>0, <1>2, <1>f, <3>1, Entered
    <3>2. CASE ~CanGoTo(phase, "BLOCKED")
      BY <1>0, <1>2, <1>f, <3>2, OnlyInMemory DEF ResumeOK
    <3> QED BY <3>1, <3>2
  <2>2. ControlInv' /\ UnitInv'
    BY <1>0, <1>2, <2>1, GoesOn DEF Ui, ControlInv
  <2> QED BY <2>1, <2>2 DEF IInv
<1>3. CASE EnterIfLegal(b, "BLOCKED") /\ WorkerEnds
  BY <1>0, <1>f, <1>3, UnitEnds
<1>4. CASE EnterIfLegal(m, "FAILED") /\ WorkerEnds
  BY <1>0, <1>f, <1>4, UnitEnds
<1> QED BY <1>b, <1>m, <1>1, <1>2, <1>3, <1>4 DEF FinalReturns

-----------------------------------------------------------------------------
(* The commits *)

LEMMA AfterApprovalStep ==
  ASSUME IInv, AfterApproval PROVE IInv'
<1>1. PICK m : m = mem
  OBVIOUS
<1>2. PICK r : r = WithStatus(mem, "READY_FOR_FINAL_AUDIT")
  OBVIOUS
<1>3. Fit(m) /\ Fit(r) /\ Ui /\ UNCHANGED <<lastId, flags, fixes>>
  BY <1>1, <1>2, MemFits, StatusFits DEF IInv, BatchStatuses, AfterApproval
<1>4. MustEnter(m, "RUNNING_TASK") \/ MustEnter(r, "READY_FOR_FINAL_AUDIT")
  BY <1>1, <1>2 DEF AfterApproval
<1> QED BY <1>3, <1>4, UnitEnds

LEMMA SaveRefusalStep ==
  ASSUME IInv, SaveRefusal PROVE IInv'
<1>0. /\ StateInv /\ BookInv /\ ControlInv /\ WorkerEnds /\ Ui
      /\ UNCHANGED <<lastId, flags, fixes>> /\ Fit(mem)
  BY MemFits DEF IInv, SaveRefusal
<1>1. BookInv'
  BY <1>0 DEF BookInv, SaveRefusal, Verdicts
<1>2. StateInv'
  <2>1. mem.id \in 0..MaxBatches /\ mem \in BatchType /\ BatchOK(mem) /\ Counted(mem)
    BY <1>0 DEF Fit, BatchOK, BatchType
  <2>2. disk' = Saved(mem, phase) /\ mem' = mem /\ phase' = phase /\ fixes' = fixes /\ lastId' = lastId
    BY <1>0 DEF SaveRefusal
  <2>3. disk' = [b \in Batches |-> disk'[b]]
    BY <1>0, <2>2 DEF StateInv, Saved
  <2>4. ASSUME NEW b \in Batches PROVE RowOK(b)'
    <3>0. RowOK(b)
      BY <1>0 DEF StateInv
    <3>1. disk'[b] = disk[b] \/ (b = mem.id /\ disk'[b] = [phase |-> phase, batch |-> mem])
      BY <1>0, <2>2 DEF Saved, StateInv
    <3> QED BY <1>0, <2>1, <2>2, <3>0, <3>1 DEF RowOK, Counted, StateInv
  <2> QED BY <1>0, <2>1, <2>2, <2>3, <2>4 DEF StateInv, Counted, FixBudget
<1>3. ControlInv' /\ UnitInv'
  BY <1>0, AtRest DEF SaveRefusal, ControlInv, ResumeOK, Ui, flags
<1> QED BY <1>1, <1>2, <1>3 DEF IInv

LEMMA SaveVerdictStep ==
  ASSUME IInv, SaveVerdict PROVE IInv'
<1>0. /\ StateInv /\ BookInv /\ ControlInv /\ Ui /\ UNCHANGED <<lastId, flags, fixes>>
      /\ GoOn("auditSaved") /\ UNCHANGED <<phase, resumeTo, mem, disk>>
  BY DEF IInv, SaveVerdict
<1>1. BookInv'
  BY <1>0 DEF BookInv, SaveVerdict, Verdicts
<1>2. StateInv'
  BY <1>0 DEF StateInv, RowOK, Counted, FixBudget
<1>3. ControlInv' /\ UnitInv'
  BY <1>0, GoesOn DEF GoOn, Ui, ControlInv, ResumeOK
<1> QED BY <1>1, <1>2, <1>3 DEF IInv

LEMMA CompleteBatchStep ==
  ASSUME IInv, CompleteBatch PROVE IInv'
<1>0. /\ StateInv /\ BookInv /\ ControlInv /\ ResumeOK /\ Ui /\ UNCHANGED <<lastId, flags, fixes>>
  BY DEF IInv, CompleteBatch, ControlInv, ResumeOK
<1>1. PICK c : c = WithStatus(mem, "COMPLETE")
  OBVIOUS
<1>2. Fit(c)
  BY <1>0, <1>1, MemFits, StatusFits DEF BatchStatuses
<1>3. CASE CanGoTo(phase, "BATCH_COMPLETE")
  <2>1. Enter(c, "BATCH_COMPLETE") /\ (GoOn("passed") \/ WorkerEnds)
    BY <1>1, <1>3 DEF CompleteBatch
  <2>2. StateInv' /\ BookInv' /\ ResumeOK'
    BY <1>0, <1>2, <1>3, <2>1, Entered
  <2>3. CASE WorkerEnds
    <3>1. ControlInv' /\ UnitInv'
      BY <1>0, <2>2, <2>3, AtRest DEF ControlInv, Ui, flags
    <3> QED BY <2>2, <3>1 DEF IInv
  <2>4. CASE GoOn("passed")
    <3>1. ControlInv' /\ UnitInv'
      BY <1>0, <2>2, <2>4, GoesOn DEF GoOn, Ui, ControlInv
    <3> QED BY <2>2, <3>1 DEF IInv
  <2> QED BY <2>1, <2>3, <2>4
<1>4. CASE ~CanGoTo(phase, "BATCH_COMPLETE")
  <2>1. FailHard(c)
    BY <1>1, <1>4 DEF CompleteBatch
  <2> QED BY <1>0, <1>2, <2>1, UnitEnds
<1> QED BY <1>3, <1>4

-----------------------------------------------------------------------------
(* From one batch to the next *)

\* The worker moves on, or ends, and has recorded nothing.
LEMMA MovesOn ==
  ASSUME IInv, NEW next \in {"loop", "passed", "handoff", "newBatch", "enter"},
         WorkerEnds \/ GoOn(next), UNCHANGED <<phase, resumeTo, mem, durable, lastId>>,
         Ui, UNCHANGED <<flags, fixes>>
  PROVE  IInv'
<1>0. StateInv /\ BookInv /\ ControlInv /\ ResumeOK'
  BY DEF IInv, ControlInv, ResumeOK
<1>1. StateInv' /\ BookInv'
  BY <1>0, NothingRecorded
<1>2. CASE WorkerEnds
  BY <1>0, <1>1, <1>2, AtRest DEF IInv, ControlInv, Ui, flags
<1>3. CASE GoOn(next)
  BY <1>0, <1>1, <1>3, GoesOn DEF IInv, ControlInv, GoOn, Ui
<1> QED BY <1>2, <1>3

LEMMA LoopDecidesStep ==
  ASSUME IInv, LoopDecides PROVE IInv'
<1>0. /\ UNCHANGED <<phase, resumeTo, mem, durable, lastId, flags, fixes>> /\ Ui
      /\ StateInv /\ BookInv /\ ControlInv
  BY DEF IInv, LoopDecides
<1>1. CASE WorkerEnds
  BY <1>0, <1>1, MovesOn
<1>2. CASE pc' = "claim" /\ op' = "FINAL" /\ UNCHANGED <<mode, resuming>>
  <2>1. StateInv' /\ BookInv'
    BY <1>0, NothingRecorded
  <2>2. ControlInv'
    BY <1>0, <1>2 DEF ControlInv, Ui, flags, Units
  <2>3. UnitInv'
    BY <1>2 DEF UnitInv, TaskUnits
  <2> QED BY <2>1, <2>2, <2>3 DEF IInv
<1> QED BY <1>1, <1>2 DEF LoopDecides

LEMMA AfterPassStep ==
  ASSUME IInv, AfterPass PROVE IInv'
BY MovesOn DEF AfterPass

LEMMA LeaveCompletedStep ==
  ASSUME IInv, LeaveCompleted PROVE IInv'
<1>0. /\ Ui /\ UNCHANGED <<lastId, flags, fixes>>
      /\ StateInv /\ BookInv /\ ControlInv /\ ResumeOK
  BY DEF IInv, ControlInv, ResumeOK, LeaveCompleted
<1>1. CASE (WorkerEnds \/ GoOn("newBatch")) /\ UNCHANGED <<phase, resumeTo, mem, durable>>
  BY <1>0, <1>1, MovesOn
<1>2. CASE phase = "BATCH_COMPLETE" /\ Enter(mem, "IDLE") /\ GoOn("newBatch")
  <2>1. PICK m : m = mem
    OBVIOUS
  <2>2. Fit(m) /\ Enter(m, "IDLE") /\ CanGoTo(phase, "IDLE")
    BY <1>0, <1>2, <2>1, MemFits DEF CanGoTo, RestEdges
  <2>3. StateInv' /\ BookInv' /\ ResumeOK'
    BY <1>0, <2>2, Entered
  <2>4. ControlInv' /\ UnitInv'
    BY <1>0, <1>2, <2>3, GoesOn DEF GoOn, Ui, ControlInv
  <2> QED BY <2>3, <2>4 DEF IInv
<1> QED BY <1>1, <1>2 DEF LeaveCompleted

LEMMA StartFromPlanStep ==
  ASSUME IInv, StartFromPlan PROVE IInv'
<1>0. /\ Ui /\ UNCHANGED <<flags, fixes>>
      /\ StateInv /\ BookInv /\ ControlInv /\ ResumeOK
  BY DEF IInv, ControlInv, ResumeOK, StartFromPlan
<1>1. CASE WorkerEnds /\ UNCHANGED <<phase, resumeTo, mem, durable, lastId>>
  BY <1>0, <1>1, MovesOn
<1>2. CASE RequestStart /\ GoOn("consume")
  <2>1. StateInv' /\ BookInv' /\ ResumeOK' /\ mem'.id # NoBatch
    BY <1>0, <1>2, Started
  <2>2. ControlInv'
    BY <1>0, <1>2, <2>1 DEF GoOn, Ui, ControlInv, ResumeOK, flags
  <2>3. UnitInv'
    BY <1>2, <2>1 DEF UnitInv, GoOn
  <2> QED BY <2>1, <2>2, <2>3 DEF IInv
<1> QED BY <1>1, <1>2 DEF StartFromPlan

LEMMA ConsumePlanStep ==
  ASSUME IInv, ConsumePlan PROVE IInv'
<1>0. /\ Ui /\ UNCHANGED <<phase, resumeTo, disk, final, plans, lastId, flags, fixes>>
      /\ StateInv /\ BookInv /\ ControlInv /\ GoOn("saveTasks") /\ mem.id # NoBatch
      /\ usedBy' = [usedBy EXCEPT ![OpenPlan] = mem.id]
  BY DEF IInv, UnitInv, ConsumePlan
<1>1. PICK m : m = Planned(mem)
  OBVIOUS
<1>2. Fit(m) /\ mem' = m
  BY <1>0, <1>1, PlannedFits DEF ConsumePlan
<1>3. StateInv'
  <2>1. Counted(mem)' /\ BatchOK(mem') /\ mem'.id = mem.id
    BY <1>0, <1>2 DEF Fit, Counted
  <2> QED BY <1>0, <2>1 DEF StateInv, RowOK, Counted, FixBudget
<1>4. BookInv'
  <2>1. mem.id \in 0..MaxBatches
    BY <1>0 DEF StateInv, BatchOK, BatchType
  <2> QED BY <1>0, <2>1 DEF BookInv
<1>5. ControlInv'
  BY <1>0 DEF ControlInv, GoOn, Ui, flags
<1>6. UnitInv'
  BY <1>0, <1>2 DEF UnitInv, GoOn, Fit
<1> QED BY <1>3, <1>4, <1>5, <1>6 DEF IInv

LEMMA SaveTasksStep ==
  ASSUME IInv, SaveTasks PROVE IInv'
<1>0. /\ Ui /\ UNCHANGED <<resumeTo, lastId, flags, fixes>>
      /\ StateInv /\ BookInv /\ ControlInv /\ Record(mem, phase)
  BY DEF IInv, SaveTasks
<1>1. PICK m : m = mem
  OBVIOUS
<1>2. PICK q : q = phase
  OBVIOUS
<1>3. Fit(m) /\ q \in Phases /\ Record(m, q)
  BY <1>0, <1>1, <1>2, MemFits DEF StateInv
<1>4. StateInv' /\ BookInv' /\ ResumeOK'
  BY <1>0, <1>3, Recorded DEF ControlInv, ResumeOK
<1>5. CASE WorkerEnds
  BY <1>0, <1>4, <1>5, AtRest DEF IInv, ControlInv, Ui, flags
<1>6. CASE pc' = "enter" /\ op' = "PLAN" /\ resuming' = TRUE /\ UNCHANGED mode
  BY <1>0, <1>4, <1>6, GoesOn DEF IInv, Ui, Units
<1> QED BY <1>5, <1>6 DEF SaveTasks, HandoffEnds

-----------------------------------------------------------------------------
(* The operator *)

\* A button that starts the worker, at a place where it knows nothing yet.
LEMMA WorkerStarted ==
  ASSUME IInv, NEW at \in {"enter", "claim", "handoff"},
         NEW m \in {"batch", "continuous", "final", "handoff"}, NEW r \in BOOLEAN,
         StartWorker(at, m, r), op' \in Units, at = "claim" => op' = "FINAL"
  PROVE  IInv'
<1>0. /\ UNCHANGED <<phase, resumeTo, mem, durable, lastId, flags, ui, fixes, crashes>>
      /\ pc' = at /\ mode' = m /\ resuming' = r
      /\ StateInv /\ BookInv /\ ControlInv
  BY DEF IInv, StartWorker
<1>1. StateInv' /\ BookInv'
  BY <1>0, NothingRecorded
<1>2. ControlInv'
  BY <1>0 DEF ControlInv, flags
<1>3. UnitInv'
  BY <1>0 DEF UnitInv, TaskUnits
<1> QED BY <1>1, <1>2, <1>3 DEF IInv

LEMMA StartsStep ==
  ASSUME IInv, ClickStart \/ ClickContinue \/ ClickFinalAudit \/ ClickNextBatch PROVE IInv'
<1>0. op \in Units /\ "FINAL" \in Units
  BY DEF IInv, ControlInv, Units
<1>1. CASE ClickStart \/ ClickContinue
  <2>1. PICK m \in {"batch", "continuous"}, r \in BOOLEAN : StartWorker("enter", m, r) /\ op' = op
    BY <1>1 DEF ClickStart, ClickContinue
  <2> QED BY <1>0, <2>1, WorkerStarted
<1>2. CASE ClickFinalAudit
  BY <1>0, <1>2, WorkerStarted DEF ClickFinalAudit
<1>3. CASE ClickNextBatch
  BY <1>0, <1>3, WorkerStarted DEF ClickNextBatch
<1> QED BY <1>1, <1>2, <1>3

\* STOP and PAUSE that have only read is_running.
LEMMA DecidesStep ==
  ASSUME IInv, ClickStop \/ ClickPause PROVE IInv'
<1>0. /\ UNCHANGED <<phase, resumeTo, mem, durable, lastId, flags, worker, fixes, crashes>>
      /\ ui' \in {"idle", "stop", "pause", "flagStop", "flagPause"}
      /\ StateInv /\ BookInv /\ ControlInv /\ UnitInv
  BY DEF IInv, ClickStop, ClickPause
<1>1. StateInv' /\ BookInv'
  BY <1>0, NothingRecorded
<1>2. ControlInv'
  BY <1>0 DEF ControlInv, flags, worker
<1>3. UnitInv'
  BY <1>0 DEF UnitInv, worker, HasWork, Cur, Undone, AllApproved
<1> QED BY <1>1, <1>2, <1>3 DEF IInv

\* The operator changes no more of the batch in memory than its status, so what
\* the worker knows of it stays true.
LEMMA WorkerKeepsKnowing ==
  ASSUME StateInv, UnitInv, UNCHANGED <<pc, op, fixes>>, NEW s \in BatchStatuses,
         mem' = WithStatus(mem, s)
  PROVE  UnitInv'
<1>1. /\ mem'.task = mem.task /\ mem'.rounds = mem.rounds /\ mem'.id = mem.id
      /\ Undone(mem)' = Undone(mem) /\ AllApproved(mem)' = AllApproved(mem)
  BY MemFits, StatusFits DEF Fit, Undone, AllApproved, WithStatus, StateInv, BatchOK, BatchType
<1> QED BY <1>1 DEF UnitInv, HasWork, Cur

LEMMA UiActsStep ==
  ASSUME IInv, UiActs PROVE IInv'
<1>0. /\ ui' = "idle" /\ UNCHANGED <<lastId, worker, fixes, crashes>>
      /\ StateInv /\ BookInv /\ ControlInv /\ ResumeOK /\ UnitInv
  BY DEF IInv, ControlInv, ResumeOK, UiActs
<1>1. CASE /\ UNCHANGED <<phase, resumeTo, mem, durable>>
           /\ stopFlag' \in BOOLEAN /\ pauseFlag' \in BOOLEAN
  <2>1. StateInv' /\ BookInv'
    BY <1>0, <1>1, NothingRecorded
  <2>2. ControlInv'
    BY <1>0, <1>1 DEF ControlInv, worker
  <2>3. UnitInv'
    BY <1>0, <1>1 DEF UnitInv, worker, HasWork, Cur, Undone, AllApproved
  <2> QED BY <2>1, <2>2, <2>3 DEF IInv
<1>2. CASE (RequestStop \/ RequestPause) /\ UNCHANGED flags
  <2>1. StateInv' /\ BookInv' /\ ResumeOK'
    BY <1>0, <1>2, StopStep, PauseStep
  <2>2. ControlInv'
    BY <1>0, <1>2, <2>1 DEF ControlInv, ResumeOK, worker, flags
  <2>3. mem' = WithStatus(mem, "STOPPED") \/ mem' = WithStatus(mem, "PAUSED")
    BY <1>2 DEF RequestStop, RequestPause, Enter, Record
  <2>4. UnitInv'
    BY <1>0, <2>3, WorkerKeepsKnowing DEF worker, BatchStatuses
  <2> QED BY <2>1, <2>2, <2>4 DEF IInv
<1> QED BY <1>1, <1>2 DEF UiActs, IInv, ControlInv, flags

LEMMA BatchPanelStep ==
  ASSUME IInv, ClickNewBatch \/ ClickResume PROVE IInv'
<1>0. /\ UNCHANGED <<worker, ui, fixes, crashes>>
      /\ stopFlag' \in BOOLEAN /\ pauseFlag' \in BOOLEAN
      /\ StateInv /\ BookInv /\ ControlInv /\ ResumeOK /\ UnitInv
  BY DEF IInv, ControlInv, ResumeOK, ClickNewBatch, ClickResume, flags
<1>1. CASE ClickNewBatch
  <2>0. RequestStart /\ pc \notin {"gate", "prompt", "consume", "saveTasks"}
    BY <1>1 DEF ClickNewBatch, HoldsBatch, IsRunning, ClaimedAt
  <2>1. StateInv' /\ BookInv' /\ ResumeOK'
    BY <1>0, <2>0, Started
  <2>2. ControlInv'
    BY <1>0, <2>1 DEF ControlInv, ResumeOK, worker
  <2>3. mem' = EmptyBatch(lastId + 1) /\ lastId + 1 # NoBatch
    BY <1>0, <2>0 DEF RequestStart, Enter, Record, StateInv, NoBatch
  <2>4. mem'.task = [t \in Tasks |-> "PENDING"] /\ mem'.id # NoBatch
    BY <2>3 DEF EmptyBatch
  <2>5. UnitInv'
    BY <1>0, <2>0, <2>4 DEF UnitInv, worker
  <2> QED BY <2>1, <2>2, <2>5 DEF IInv
<1>2. CASE ClickResume /\ RequestResume
  <2>1. StateInv' /\ BookInv' /\ ResumeOK' /\ UNCHANGED lastId
    BY <1>0, <1>2, ResumeStep DEF ClickResume
  <2>2. ControlInv'
    BY <1>0, <2>1 DEF ControlInv, ResumeOK, worker
  <2>3. mem' = WithStatus(mem, "RUNNING")
    BY <1>2 DEF RequestResume, Enter, Record
  <2>4. UnitInv'
    BY <1>0, <2>3, WorkerKeepsKnowing DEF worker, BatchStatuses
  <2> QED BY <2>1, <2>2, <2>4 DEF IInv
<1>3. CASE ClickResume /\ UNCHANGED <<phase, resumeTo, mem, durable>>
  <2>1. StateInv' /\ BookInv'
    BY <1>0, <1>3, NothingRecorded DEF ClickResume
  <2>2. ControlInv'
    BY <1>0, <1>3 DEF ControlInv, worker
  <2>3. UnitInv'
    BY <1>0, <1>3 DEF UnitInv, worker, HasWork, Cur, Undone, AllApproved
  <2> QED BY <2>1, <2>2, <2>3 DEF IInv
<1> QED BY <1>1, <1>2, <1>3 DEF ClickResume

-----------------------------------------------------------------------------
(* The crash, and the whole *)

\* What restore_state finds is a row, or nothing; both are batches that fit.
LEMMA CrashStep ==
  ASSUME IInv, Crash PROVE IInv'
<1>0. /\ UNCHANGED <<durable, lastId, fixes>>
      /\ phase' = Restored.phase /\ mem' = Restored.batch
      /\ resumeTo' = "IDLE" /\ stopFlag' = FALSE /\ pauseFlag' = FALSE
      /\ pc' = "none" /\ op' = "PLAN" /\ mode' = "batch" /\ resuming' = FALSE
      /\ ui' = "idle" /\ crashes' \in 0..MaxCrashes
      /\ StateInv /\ BookInv /\ ControlInv
  BY PipelineAssumption DEF IInv, ControlInv, Crash
<1>1. PICK r : r = Restored
  OBVIOUS
<1>2. r.phase \in Phases /\ BatchOK(r.batch) /\ Counted(r.batch) /\ r.batch.id <= lastId
  <2>0. lastId \in Nat /\ lastId <= MaxBatches
    BY <1>0, PipelineAssumption DEF StateInv
  <2>1. CASE Restorable = {}
    <3>1. r = Absent
      BY <1>1, <2>1 DEF Restored
    <3>2. BatchOK(EmptyBatch(NoBatch))
      BY EmptyBatchOK, PipelineAssumption DEF NoBatch
    <3> QED BY <2>0, <3>1, <3>2 DEF Absent, EmptyBatch, Counted, Phases, NoBatch
  <2>2. CASE Restorable # {}
    <3>1. Restorable \in SUBSET (1..lastId)
      BY DEF Restorable
    <3>2. Newest(Restorable) \in Restorable
      BY <2>0, <2>2, <3>1, NewestIsGreatest
    <3>p. PICK b : b = Newest(Restorable)
      OBVIOUS
    <3>b. b \in 1..lastId
      BY <3>1, <3>2, <3>p
    <3>3. b \in Batches /\ b = Newest(Restorable) /\ b <= lastId
      <4>1. lastId \in Nat /\ MaxBatches \in Nat /\ lastId <= MaxBatches
        BY <2>0, PipelineAssumption
      <4> QED BY <3>b, <3>p, <4>1 DEF Batches
    <3>4. r = disk[b] /\ RowOK(b)
      BY <1>0, <1>1, <2>2, <3>3 DEF Restored, StateInv
    <3> QED BY <3>3, <3>4 DEF RowOK
  <2> QED BY <2>1, <2>2
<1>3. phase' = r.phase /\ mem' = r.batch
  BY <1>0, <1>1
<1>4. StateInv'
  <2>1. Counted(mem)'
    BY <1>0, <1>2, <1>3 DEF Counted
  <2> QED BY <1>0, <1>2, <1>3, <2>1 DEF StateInv, durable, RowOK, Counted, FixBudget
<1>5. BookInv' /\ ControlInv' /\ UnitInv'
  BY <1>0 DEF BookInv, ControlInv, UnitInv, durable, Units
<1> QED BY <1>4, <1>5 DEF IInv

\* The program starts in the invariant.
LEMMA InitOK ==
  ASSUME Init PROVE IInv
<1>1. /\ BatchOK(EmptyBatch(NoBatch)) /\ EmptyBatch(NoBatch).id = NoBatch
  BY EmptyBatchOK, PipelineAssumption DEF NoBatch, EmptyBatch
<1>2. EmptyBatch(NoBatch) \in BatchType
  BY <1>1 DEF BatchOK
<1>3. fixes \in [Batches -> [Tasks -> Nat]] /\ \A b \in Batches, t \in Tasks : fixes[b][t] = 0
  BY DEF Init
<1>4. StateInv
  <2>1. \A b \in Batches : disk[b] = [phase |-> "IDLE", batch |-> EmptyBatch(NoBatch)]
    BY DEF Init, Absent
  <2>2. Counted(EmptyBatch(NoBatch))
    BY <1>1 DEF Counted
  <2>3. \A b \in Batches : RowOK(b)
    BY <1>1, <1>2, <2>1, <2>2, PipelineAssumption DEF RowOK, Phases, Init, Batches, NoBatch
  <2>4. disk = [b \in Batches |-> disk[b]]
    BY DEF Init
  <2>5. FixBudget
    BY <1>3, PipelineAssumption DEF FixBudget
  <2>6. phase \in Phases /\ mem = EmptyBatch(NoBatch) /\ lastId = 0
    BY DEF Init, Phases
  <2> QED BY <1>1, <1>3, <2>2, <2>3, <2>4, <2>5, <2>6, PipelineAssumption DEF StateInv, NoBatch
<1>5. BookInv
  BY PipelineAssumption DEF Init, BookInv, Verdicts, NoBatch
<1>6. ControlInv
  <2>1. crashes = 0 /\ 0 \in 0..MaxCrashes
    BY PipelineAssumption DEF Init
  <2>2. /\ resumeTo = "IDLE" /\ stopFlag = FALSE /\ pauseFlag = FALSE /\ pc = "none"
        /\ op = "PLAN" /\ mode = "batch" /\ resuming = FALSE /\ ui = "idle"
    BY DEF Init
  <2> QED BY <2>1, <2>2 DEF ControlInv, Units
<1>7. UnitInv
  BY DEF Init, UnitInv
<1> QED BY <1>4, <1>5, <1>6, <1>7 DEF IInv

\* Every step of the program keeps it.
LEMMA NextOK ==
  ASSUME IInv, [Next]_vars PROVE IInv'
<1>1. CASE BetweenUnits
  BY <1>1, EnterRunStep, BoundaryStep, DispatchStep, ClaimStep DEF BetweenUnits
<1>2. CASE Gate
  BY <1>2, GateRefusesStep, GateBlocksStep, PreflightRefusesStep DEF Gate
<1>3. CASE Prompts
  BY <1>3, SendPlanStep, SendBuildStep, SendAuditStep, SendFixStep, SendFinalStep DEF Prompts
<1>4. CASE Returns
  BY <1>4, RaisesStep, PlanReturnsStep, BuilderReturnsStep, AuditReturnsStep, FinalReturnsStep
     DEF Returns
<1>5. CASE Commits
  BY <1>5, AfterApprovalStep, SaveRefusalStep, SaveVerdictStep, CompleteBatchStep DEF Commits
<1>6. CASE Continuous
  BY <1>6, LoopDecidesStep, AfterPassStep DEF Continuous
<1>7. CASE Handoff
  BY <1>7, LeaveCompletedStep, StartFromPlanStep, ConsumePlanStep, SaveTasksStep DEF Handoff
<1>8. CASE Operator
  BY <1>8, StartsStep, DecidesStep, BatchPanelStep DEF Operator
<1>9. CASE UiActs \/ Crash
  BY <1>9, UiActsStep, CrashStep
<1>10. CASE UNCHANGED vars
  <2>0. StateInv /\ BookInv /\ ControlInv /\ UnitInv
    BY DEF IInv
  <2>1. UNCHANGED <<phase, mem, durable, lastId, fixes>>
    BY <1>10 DEF vars
  <2>2. StateInv' /\ BookInv'
    BY <2>0, <2>1, NothingRecorded
  <2>3. ControlInv'
    BY <1>10, <2>0 DEF vars, ControlInv, flags, worker
  <2>4. UnitInv'
    BY <1>10, <2>0 DEF vars, UnitInv, worker, HasWork, Cur, Undone, AllApproved
  <2> QED BY <2>2, <2>3, <2>4 DEF IInv
<1> QED
  BY <1>1, <1>2, <1>3, <1>4, <1>5, <1>6, <1>7, <1>8, <1>9, <1>10 DEF Next, WorkerStep

LEMMA Implied ==
  ASSUME IInv PROVE TypeOK /\ TasksInOrder /\ FixBudget
<1>0. StateInv /\ BookInv /\ ControlInv
  BY DEF IInv
<1>1. TypeOK
  <2>1. mem \in BatchType
    BY <1>0 DEF StateInv, BatchOK
  <2>2. disk \in [Batches -> [phase : Phases, batch : BatchType]]
    BY <1>0 DEF StateInv, RowOK
  <2> QED BY <1>0, <2>1, <2>2 DEF TypeOK, StateInv, BookInv, ControlInv
<1>2. TasksInOrder
  BY <1>0 DEF StateInv, BatchOK, RowOK, TasksInOrder, Rows
<1> QED BY <1>0, <1>1, <1>2 DEF StateInv

-----------------------------------------------------------------------------
(* The theorems *)

\* The strengthened invariant holds of every reachable state.
THEOREM Invariance == Spec => []IInv
<1>1. Init => IInv
  BY InitOK
<1>2. IInv /\ [Next]_vars => IInv'
  BY NextOK
<1> QED BY <1>1, <1>2, PTL DEF Spec

\* Every variable has its type; in particular the audit rounds of every task, in
\* memory and in every row, never exceed MAX_AUDIT_ROUNDS.
THEOREM TypeCorrect == Spec => []TypeOK
<1>1. IInv => TypeOK
  BY Implied
<1> QED BY <1>1, Invariance, PTL

\* No task is worked on before every task in front of it is approved, in memory
\* and in every row, whatever the interleaving and wherever the process dies.
THEOREM OrderCorrect == Spec => []TasksInOrder
<1>1. IInv => TasksInOrder
  BY Implied
<1> QED BY <1>1, Invariance, PTL

\* No task is sent as many fixes as it may have audits: with MAX_AUDIT_ROUNDS = 3
\* there is never a third fix, across all crashes and resumes.
THEOREM FixBudgetCorrect == Spec => []FixBudget
<1>1. IInv => FixBudget
  BY Implied
<1> QED BY <1>1, Invariance, PTL

-----------------------------------------------------------------------------
(* What Pipeline leaves in the database.  Every step either records a      *)
(* batch, or is one of a few that do not; what is recorded is bookkeeping, *)
(* a move of the task under work, or the write-off of the last task.  The  *)
(* invariants and the refinement follow from that classification, one case *)
(* at a time.                                                              *)

\* The plans that were ever saved, by their source batch.
Saves == {plans[i] : i \in 1..Len(plans)}

\* The row of the batch in memory has its tasks and rounds at all times; the
\* rows of batches not yet created are untouched.
RowInv ==
  /\ RowIsCurrent
  /\ mem.id # NoBatch => /\ disk[mem.id].batch.task = mem.task
                         /\ disk[mem.id].batch.rounds = mem.rounds
  /\ \A b \in Batches : b > lastId => disk[b] = Absent

\* Plans and their consumers are batches that exist; the batch a plan is about
\* to be given to is the newest, and nobody's yet.
PlanInv ==
  /\ PlanUsedOnce
  /\ \A b \in Saves : b <= lastId
  /\ \A b \in Batches : usedBy[b] <= lastId
  /\ pc \in {"newBatch", "consume"} => OpenPlans # {}
  /\ pc = "consume" => /\ mem.id = lastId
                       /\ \A b \in Batches : usedBy[b] # lastId
                       /\ \A b \in Saves : b < lastId

\* What a COMPLETE batch has behind it.
Earned(m) == AllApproved(m) /\ final[m.id] = "PASS" /\ m.id \in Saves

\* The three transactions of a PASS, and the two of a refusal, one by one.
VerdictInv ==
  /\ CompleteOnlyIfAudited
  /\ mem.status = "COMPLETE" => Earned(mem)
  /\ pc \in {"planSaved", "auditSaved"} => AllApproved(mem) /\ mem.id \in Saves
  /\ pc = "auditSaved" => final[mem.id] = "PASS"
  /\ pc \in {"needsFix", "blocked"} => mem.status # "COMPLETE" /\ AllApproved(mem)

\* While its prompt is out, the task under work is in the state of that prompt.
PromptInv ==
  pc = "prompt" =>
    /\ op = "BUILD" => mem.task[Cur] = "RUNNING"
    /\ op = "FIX"   => mem.task[Cur] = "RUNNING_FIX"
    /\ op = "AUDIT" => mem.task[Cur] = "AUDITING"

RecordsInv == RowInv /\ PlanInv /\ VerdictInv /\ PromptInv

-----------------------------------------------------------------------------
(* What a step may record *)

Of(m) == m \in BatchType /\ m.id = mem.id

\* Bookkeeping: the status, a verdict or the list of tasks.
Keeps(m) ==
  /\ Of(m) /\ m.task = mem.task /\ m.rounds = mem.rounds
  /\ mem.planned => m.planned
  /\ m.status = "COMPLETE" => mem.status = "COMPLETE"

\* The task under work may move to s.
Allowed(s) ==
  \/ s = "RUNNING"  /\ mem.task[Cur] \in {"PENDING", "RUNNING"}
  \/ s = "AUDITING" /\ mem.task[Cur] \in {"RUNNING", "RUNNING_FIX"}
  \/ s = "APPROVED" /\ mem.task[Cur] = "AUDITING" /\ fixes[mem.id][Cur] < mem.rounds[Cur]
  \/ /\ s = "FIX_REQUIRED" /\ mem.task[Cur] = "AUDITING" /\ ~CapReached
     /\ fixes[mem.id][Cur] < mem.rounds[Cur]
  \/ s = "RUNNING_FIX" /\ mem.task[Cur] = "FIX_REQUIRED"
  \/ s \in {"FAILED", "BLOCKED"}

\* The task under work moves, or one more audit of it is counted.
MovesTo(m, s) ==
  /\ m.rounds = mem.rounds /\ m.task = [mem.task EXCEPT ![Cur] = s] /\ Allowed(s)
  /\ fixes' = IF s = "RUNNING_FIX" THEN [fixes EXCEPT ![mem.id][Cur] = @ + 1] ELSE fixes

CountsAudit(m) ==
  /\ m.task = mem.task /\ mem.task[Cur] = "AUDITING"
  /\ m.rounds = [mem.rounds EXCEPT ![Cur] = @ + 1] /\ ~CapReached
  /\ UNCHANGED fixes

Works(m) ==
  /\ Of(m) /\ m.planned /\ HasWork /\ Clean
  /\ m.status = "COMPLETE" => mem.status = "COMPLETE"
  /\ CountsAudit(m) \/ \E s \in TaskStates : MovesTo(m, s)

\* _fail_hard: the last task is written off, the step it interrupts may show.
WritesOff(m) ==
  /\ Of(m) /\ mem.planned /\ m.planned /\ m.status = "FAILED" /\ m.rounds = mem.rounds
  /\ \/ m.task = [mem.task EXCEPT ![TasksPerBatch] = "FAILED"]
     \/ /\ HasWork /\ Clean
        /\ \E s \in {"FAILED", "AUDITING", "FIX_REQUIRED"} :
             Allowed(s) /\ m.task = [mem.task EXCEPT ![Cur] = s, ![TasksPerBatch] = "FAILED"]

\* The places of the worker at which it knows something of plans and verdicts.
Places == {"newBatch", "consume", "planSaved", "auditSaved", "needsFix", "blocked"}
Rests  == pc' = pc \/ pc' \notin Places

\* The places at which memory is ahead of the database.
Unsaved == {"needsFix", "blocked", "saveTasks"}

Quiet    == /\ UNCHANGED <<phase, mem, durable, lastId, fixes>>
            /\ Rests /\ (pc \in Unsaved => pc' = pc)
KeptStep == /\ \E m, q : Keeps(m) /\ Record(m, q)
            /\ UNCHANGED <<lastId, fixes>> /\ Rests
WorkStep == /\ \E m, q : Works(m) /\ Record(m, q)
            /\ UNCHANGED lastId /\ pc' \notin Places
LostStep == /\ \E m, q : WritesOff(m) /\ Record(m, q)
            /\ UNCHANGED <<lastId, fixes>> /\ pc' \notin Places
NewStep  == /\ RequestStart /\ UNCHANGED fixes
            /\ pc' \notin Places \/ (pc = "newBatch" /\ pc' = "newBatch")

\* The steps of a unit, an operator or a runner that are one of the five.
Ordinary == Quiet \/ KeptStep \/ WorkStep \/ LostStep \/ NewStep

-----------------------------------------------------------------------------
(* Every way to record a batch records it *)

\* However a phase is entered, the batch is recorded with some phase.
LEMMA EnterRecords ==
  ASSUME NEW m, NEW q, EnterIfLegal(m, q) \/ Enter(m, q)
  PROVE  \E p : Record(m, p)
BY DEF EnterIfLegal, Enter

\* _fail_hard records the batch with its last task written off.
LEMMA FailHardRecords ==
  ASSUME NEW m, FailHard(m)
  PROVE  /\ WorkerEnds
         /\ \E p : Record(IF m.planned
                          THEN [WithTask(m, TasksPerBatch, "FAILED") EXCEPT !.status = "FAILED"]
                          ELSE m, p)
<1>1. PICK f : f = IF m.planned
                   THEN [WithTask(m, TasksPerBatch, "FAILED") EXCEPT !.status = "FAILED"]
                   ELSE m
  OBVIOUS
<1>2. WorkerEnds /\ (Enter(f, "FAILED") \/ Record(f, IF phase = "FAILED" THEN "FAILED" ELSE "IDLE"))
  BY <1>1 DEF FailHard
<1> QED BY <1>1, <1>2 DEF Enter

\* A transition the executor insists on records its batch or a written-off one.
LEMMA MustEnterRecords ==
  ASSUME NEW m, NEW q, MustEnter(m, q)
  PROVE  (WorkerEnds \/ ToHead) /\ ((\E p : Record(m, p)) \/ FailHard(m))
BY FailHardRecords DEF MustEnter, Enter

\* A worker that ends, or is back at the head of its loop, claims nothing.
LEMMA EndRests ==
  ASSUME WorkerEnds \/ ToHead PROVE Rests /\ pc' \notin Places
BY DEF WorkerEnds, ToHead, Rests, Places

\* The batch in memory may always be recorded with another status.
LEMMA StatusKept ==
  ASSUME StateInv
  PROVE  /\ Keeps(mem)
         /\ \A s \in BatchStatuses : s # "COMPLETE" => Keeps(WithStatus(mem, s))
         /\ mem.id # NoBatch => Keeps(Planned(mem))
<1>1. mem \in BatchType
  BY DEF StateInv, BatchOK
<1>2. ASSUME NEW s \in BatchStatuses, s # "COMPLETE" PROVE Keeps(WithStatus(mem, s))
  BY <1>1, <1>2 DEF Keeps, Of, BatchType, WithStatus
<1>3. Keeps(Planned(mem))
  BY <1>1 DEF Keeps, Of, BatchType, Planned
<1> QED BY <1>1, <1>2, <1>3 DEF Keeps, Of

\* Recording a kept batch at the end of a unit.
LEMMA KeptEnds ==
  ASSUME NEW m, Keeps(m), UNCHANGED <<lastId, fixes>>, Rests,
         NEW q, Record(m, q) \/ EnterIfLegal(m, q) \/ Enter(m, q)
  PROVE  KeptStep
<1>1. PICK p : Record(m, p)
  BY EnterRecords
<1> QED BY <1>1 DEF KeptStep

\* An unexpected error in a unit that has not moved its task.
LEMMA LostEnds ==
  ASSUME StateInv, NEW m, Of(m), m.task = mem.task, m.rounds = mem.rounds,
         m.planned = mem.planned, m.planned \/ Keeps(m),
         FailHard(m), UNCHANGED <<lastId, fixes>>
  PROVE  KeptStep \/ LostStep
<1>1. PICK f : f = IF m.planned
                   THEN [WithTask(m, TasksPerBatch, "FAILED") EXCEPT !.status = "FAILED"]
                   ELSE m
  OBVIOUS
<1>2. WorkerEnds /\ \E p : Record(f, p)
  BY <1>1, FailHardRecords
<1>3. Rests /\ pc' \notin Places
  BY <1>2, EndRests
<1>4. CASE m.planned
  <2>1. WritesOff(f)
    BY <1>1, <1>4 DEF WritesOff, Of, WithTask, BatchType, TaskStates, BatchStatuses
  <2> QED BY <1>2, <1>3, <2>1 DEF LostStep
<1>5. CASE ~m.planned
  BY <1>1, <1>2, <1>3, <1>5 DEF KeptStep
<1> QED BY <1>4, <1>5

\* The task under work is moved, and the unit ends; if it ends in an error the
\* move still shows.
LEMMA WorkEnds ==
  ASSUME StateInv, HasWork, Clean, NEW m, Of(m), m.planned, m.rounds = mem.rounds,
         m.status = "COMPLETE" => mem.status = "COMPLETE",
         NEW s \in {"FAILED", "BLOCKED", "AUDITING", "FIX_REQUIRED"},
         Allowed(s), m.task = [mem.task EXCEPT ![Cur] = s],
         NEW q, \/ EnterIfLegal(m, q) \/ Record(m, q)
                \/ s # "BLOCKED" /\ (MustEnter(m, q) \/ FailHard(m)),
         UNCHANGED <<lastId, fixes>>, pc' \notin Places
  PROVE  WorkStep \/ LostStep
<1>0. s \in TaskStates /\ s # "RUNNING_FIX" /\ mem.planned
  BY CurIsNext DEF TaskStates
<1>1. Works(m)
  BY <1>0 DEF Works, MovesTo
<1>2. CASE \E p : Record(m, p)
  BY <1>1, <1>2 DEF WorkStep
<1>3. CASE FailHard(m) /\ s # "BLOCKED"
  <2>1. PICK f : f = [WithTask(m, TasksPerBatch, "FAILED") EXCEPT !.status = "FAILED"]
    OBVIOUS
  <2>2. \E p : Record(f, p)
    BY <1>3, <2>1, FailHardRecords
  <2>3. /\ f \in BatchType /\ f.id = m.id /\ f.planned /\ f.status = "FAILED" /\ f.rounds = m.rounds
        /\ f.task = [m.task EXCEPT ![TasksPerBatch] = "FAILED"]
    BY <2>1 DEF Of, WithTask, BatchType, TaskStates, BatchStatuses
  <2>4. WritesOff(f)
    BY <1>0, <1>3, <2>3 DEF WritesOff, Of
  <2> QED BY <2>2, <2>4 DEF LostStep
<1>4. CASE MustEnter(m, q) /\ s # "BLOCKED"
  BY <1>2, <1>3, <1>4, MustEnterRecords
<1>5. CASE EnterIfLegal(m, q) \/ Record(m, q)
  BY <1>2, <1>5, EnterRecords
<1> QED BY <1>3, <1>4, <1>5

\* The moves of the task under work, from the batch in memory or a judged copy.
LEMMA MovedTask ==
  ASSUME StateInv, HasWork, NEW m, Of(m), m.task = mem.task, m.rounds = mem.rounds,
         m.planned, m.status = mem.status, NEW s \in TaskStates
  PROVE  /\ \A n \in {WithTask(m, Cur, s), Running(WithTask(m, Cur, s))} :
              /\ Of(n) /\ n.planned /\ n.rounds = mem.rounds
              /\ n.task = [mem.task EXCEPT ![Cur] = s]
              /\ n.status = "COMPLETE" => mem.status = "COMPLETE"
         /\ \A n \in {Failed(m, Cur), Blocked(m, Cur)} :
              Of(n) /\ n.planned /\ n.rounds = mem.rounds /\ n.status # "COMPLETE"
         /\ Failed(m, Cur).task = [mem.task EXCEPT ![Cur] = "FAILED"]
         /\ Blocked(m, Cur).task = [mem.task EXCEPT ![Cur] = "BLOCKED"]
<1>1. \A r \in TaskStates :
        /\ Of(WithTask(m, Cur, r)) /\ WithTask(m, Cur, r).planned
        /\ WithTask(m, Cur, r).rounds = mem.rounds
        /\ WithTask(m, Cur, r).task = [mem.task EXCEPT ![Cur] = r]
        /\ WithTask(m, Cur, r).status = mem.status
  BY DEF Of, BatchType, WithTask
<1>2. ASSUME NEW n, Of(n), NEW r \in BatchStatuses
      PROVE  /\ Of([n EXCEPT !.status = r]) /\ [n EXCEPT !.status = r].planned = n.planned
             /\ [n EXCEPT !.status = r].rounds = n.rounds
             /\ [n EXCEPT !.status = r].task = n.task
             /\ [n EXCEPT !.status = r].status = r
  BY <1>2 DEF Of, BatchType
<1>3. \A r \in {"RUNNING", "FAILED", "BLOCKED"} : r \in BatchStatuses /\ r \in TaskStates /\ r # "COMPLETE"
  BY DEF BatchStatuses, TaskStates
<1>r. PICK w : w = WithTask(m, Cur, s)
  OBVIOUS
<1>f. PICK f : f = WithTask(m, Cur, "FAILED")
  OBVIOUS
<1>b. PICK b : b = WithTask(m, Cur, "BLOCKED")
  OBVIOUS
<1>4. Of(w) /\ Of(f) /\ Of(b) /\ w.planned /\ f.planned /\ b.planned
  BY <1>1, <1>3, <1>r, <1>f, <1>b
<1>5. /\ Running(w).status # "COMPLETE" /\ Of(Running(w)) /\ Running(w).planned
      /\ Running(w).rounds = w.rounds /\ Running(w).task = w.task
  BY <1>2, <1>3, <1>4 DEF Running
<1>6. Failed(m, Cur) = [f EXCEPT !.status = "FAILED"] /\ Blocked(m, Cur) = [b EXCEPT !.status = "BLOCKED"]
  BY <1>f, <1>b DEF Failed, Blocked
<1>7. \A n \in {Failed(m, Cur), Blocked(m, Cur)} :
        Of(n) /\ n.planned /\ n.rounds = mem.rounds /\ n.status # "COMPLETE"
  <2>1. f.rounds = mem.rounds /\ b.rounds = mem.rounds
    BY <1>1, <1>3, <1>f, <1>b
  <2>2. PICK x : x = [f EXCEPT !.status = "FAILED"]
    OBVIOUS
  <2>3. PICK y : y = [b EXCEPT !.status = "BLOCKED"]
    OBVIOUS
  <2>4. Of(x) /\ x.planned /\ x.rounds = mem.rounds /\ x.status # "COMPLETE"
    BY <1>2, <1>3, <1>4, <2>1, <2>2
  <2>5. Of(y) /\ y.planned /\ y.rounds = mem.rounds /\ y.status # "COMPLETE"
    BY <1>2, <1>3, <1>4, <2>1, <2>3
  <2> QED BY <1>6, <2>2, <2>3, <2>4, <2>5
<1>8. /\ Failed(m, Cur).task = [mem.task EXCEPT ![Cur] = "FAILED"]
      /\ Blocked(m, Cur).task = [mem.task EXCEPT ![Cur] = "BLOCKED"]
  BY <1>1, <1>2, <1>3, <1>4, <1>6, <1>f, <1>b
<1> QED BY <1>1, <1>5, <1>7, <1>8, <1>r

\* _fail_task and _block_task on the task under work.
LEMMA TaskEnds ==
  ASSUME StateInv, HasWork, Clean, NEW m, Of(m), m.task = mem.task, m.rounds = mem.rounds,
         m.planned, m.status = mem.status,
         FailTask(m, Cur) \/ BlockTask(m, Cur), UNCHANGED <<lastId, fixes>>
  PROVE  WorkStep \/ LostStep
<1>f. PICK f : f = Failed(m, Cur)
  OBVIOUS
<1>b. PICK b : b = Blocked(m, Cur)
  OBVIOUS
<1>1. /\ Of(f) /\ Of(b) /\ f.planned /\ b.planned /\ f.rounds = mem.rounds /\ b.rounds = mem.rounds
      /\ f.task = [mem.task EXCEPT ![Cur] = "FAILED"] /\ b.task = [mem.task EXCEPT ![Cur] = "BLOCKED"]
      /\ f.status # "COMPLETE" /\ b.status # "COMPLETE"
  BY <1>f, <1>b, MovedTask DEF TaskStates
<1>2. Allowed("FAILED") /\ Allowed("BLOCKED")
  BY DEF Allowed
<1>3. CASE FailTask(m, Cur)
  <2>1. MustEnter(f, "FAILED") \/ (EnterIfLegal(f, "FAILED") /\ WorkerEnds) \/ FailHard(f)
    BY <1>f, <1>3 DEF FailTask, EnterIfLegal
  <2>2. pc' \notin Places
    BY <2>1, EndRests, MustEnterRecords, FailHardRecords
  <2> QED BY <1>1, <1>2, <2>1, <2>2, WorkEnds
<1>4. CASE BlockTask(m, Cur)
  <2>1. EnterIfLegal(b, "BLOCKED") /\ WorkerEnds
    BY <1>b, <1>4 DEF BlockTask
  <2> QED BY <1>1, <1>2, <2>1, EndRests, WorkEnds
<1> QED BY <1>3, <1>4

-----------------------------------------------------------------------------
(* The steps, one by one *)

\* Between units only bookkeeping is done, or a batch is started.
LEMMA BetweenUnitsOrdinary ==
  ASSUME IInv, BetweenUnits PROVE Ordinary
<1>0. StateInv
  BY DEF IInv
<1>1. CASE EnterRun
  <2>1. CASE RequestStart /\ ToHead
    BY <1>1, <2>1, EndRests DEF EnterRun, NewStep, Ordinary
  <2>2. CASE RequestResume /\ ToHead /\ UNCHANGED lastId
    <3>1. PICK m : m = WithStatus(mem, "RUNNING")
      OBVIOUS
    <3>2. PICK q : q = ResumeTarget
      OBVIOUS
    <3>3. Keeps(m) /\ Enter(m, q)
      BY <1>0, <2>2, <3>1, <3>2, StatusKept DEF RequestResume, BatchStatuses
    <3> QED BY <1>1, <2>2, <3>3, EndRests, KeptEnds DEF EnterRun, Ordinary
  <2>3. CASE (WorkerEnds \/ ToHead) /\ UNCHANGED <<phase, resumeTo, mem, durable, lastId>>
    BY <1>1, <2>3, EndRests DEF EnterRun, Quiet, Unsaved, Ordinary
  <2> QED BY <1>1, <2>1, <2>2, <2>3 DEF EnterRun
<1>2. CASE StopAtBoundary \/ PauseAtBoundary
  <2>0. PICK s \in {"STOPPED", "PAUSED"} : \E q : Record(WithStatus(mem, s), q)
    BY <1>2 DEF StopAtBoundary, PauseAtBoundary, RequestStop, RequestPause, Enter
  <2>1. PICK q : Record(WithStatus(mem, s), q)
    BY <2>0
  <2>2. PICK m : m = WithStatus(mem, s)
    OBVIOUS
  <2>3. Keeps(m) /\ Record(m, q)
    BY <1>0, <2>1, <2>2, StatusKept DEF BatchStatuses
  <2> QED BY <1>2, <2>3, EndRests, KeptEnds DEF StopAtBoundary, PauseAtBoundary, Ordinary
<1>3. CASE Dispatch
  <2>1. UNCHANGED <<phase, mem, durable, lastId, fixes>> /\ pc \notin Unsaved
    BY <1>3 DEF Dispatch, Unsaved
  <2>2. WorkerEnds \/ pc' \in {"claim", "loop"}
    BY <1>3 DEF Dispatch, RunIsReady, GoOn
  <2> QED BY <2>1, <2>2, EndRests DEF Rests, Places, Quiet, Ordinary
<1>4. CASE Claim
  BY <1>4, EndRests DEF Claim, GoOn, Rests, Places, Quiet, Unsaved, Ordinary
<1> QED BY <1>1, <1>2, <1>3, <1>4 DEF BetweenUnits

\* The gate keeps the batch, or ends its task under work.
LEMMA GateOrdinary ==
  ASSUME IInv, Gate PROVE Ordinary
<1>0. StateInv /\ Rests /\ pc' \notin Places /\ UNCHANGED <<lastId, fixes>>
  BY EndRests DEF IInv, Gate, GateRefuses, GateBlocks, PreflightRefuses
<1>m. Keeps(mem) /\ Of(mem) /\ Keeps(Marked)
  BY <1>0, StatusKept DEF Keeps, Marked, BatchStatuses
<1>f. PICK f : f = Failed(mem, Cur)
  OBVIOUS
<1>b. PICK b : b = Blocked(mem, Cur)
  OBVIOUS
<1>k. PICK k : k = Marked
  OBVIOUS
<1>q. PICK q : q = WorkPhase
  OBVIOUS
<1>1. CASE Record(mem, q) \/ Record(k, q)
  BY <1>0, <1>m, <1>k, <1>1 DEF KeptStep, Ordinary
<1>2. CASE /\ op \in TaskUnits /\ HasWork /\ pc = "gate"
           /\ Record(f, "FAILED") \/ EnterIfLegal(b, "BLOCKED") \/ Record(b, "BLOCKED")
  <2>1. Clean /\ mem.planned
    BY <1>0, <1>2, CurIsNext DEF IInv, UnitInv, Clean
  <2>2. /\ Of(f) /\ Of(b) /\ f.planned /\ b.planned /\ f.rounds = mem.rounds /\ b.rounds = mem.rounds
        /\ f.task = [mem.task EXCEPT ![Cur] = "FAILED"]
        /\ b.task = [mem.task EXCEPT ![Cur] = "BLOCKED"]
        /\ f.status # "COMPLETE" /\ b.status # "COMPLETE"
    BY <1>0, <1>m, <1>f, <1>b, <1>2, <2>1, MovedTask DEF TaskStates
  <2>3. Allowed("FAILED") /\ Allowed("BLOCKED")
    BY DEF Allowed
  <2> QED BY <1>0, <1>2, <2>1, <2>2, <2>3, WorkEnds DEF Ordinary
<1>3. CASE GateRefuses
  BY <1>1, <1>3, <1>q DEF GateRefuses
<1>4. CASE GateBlocks
  BY <1>2, <1>4, <1>b DEF GateBlocks, Capped, TaskUnits
<1>5. CASE PreflightRefuses
  <2>1. op \in TaskUnits => HasWork
    BY <1>5 DEF PreflightRefuses, Admitted, MayPlan, MayBuild, MayAudit, MayFix, MayFinal, TaskUnits
  <2> QED BY <1>1, <1>2, <1>5, <2>1, <1>f, <1>b, <1>k, <1>q DEF PreflightRefuses, TaskUnits
<1> QED BY <1>3, <1>4, <1>5 DEF Gate

\* What a prompt records before it is sent.
LEMMA PromptsOrdinary ==
  ASSUME IInv, Prompts PROVE Ordinary
<1>0. StateInv /\ UNCHANGED lastId /\ pc' = "prompt" /\ pc = "gate" /\ Rests /\ pc' \notin Places
  BY DEF IInv, Prompts, SendPlan, SendBuild, SendAudit, SendFix, SendFinal, Sends, GoOn, Rests, Places
<1>m. Keeps(mem) /\ Of(mem) /\ Keeps(Marked)
  BY <1>0, StatusKept DEF Keeps, Marked, BatchStatuses
<1>1. CASE SendPlan \/ SendFinal
  <2>p. PICK m \in {mem, Marked} : \E q : Record(m, q)
    BY <1>1 DEF SendPlan, SendFinal, Sends
  <2>1. PICK q : Record(m, q)
    BY <2>p
  <2>2. UNCHANGED fixes
    BY <1>1 DEF SendPlan, SendFinal
  <2> QED BY <1>0, <1>m, <2>1, <2>2 DEF KeptStep, Ordinary
<1>2. CASE SendBuild \/ SendAudit \/ SendFix
  <2>0. HasWork /\ Clean /\ mem.planned
    BY <1>0, <1>2, CurIsNext DEF SendBuild, SendAudit, SendFix, MayBuild, MayAudit, MayFix,
                                 IInv, UnitInv, Clean, TaskUnits
  <2>1. CASE SendBuild
    <3>1. PICK m : m = Running(WithTask(mem, Cur, "RUNNING"))
      OBVIOUS
    <3>2. /\ Of(m) /\ m.planned /\ m.rounds = mem.rounds
          /\ m.task = [mem.task EXCEPT ![Cur] = "RUNNING"]
          /\ m.status = "COMPLETE" => mem.status = "COMPLETE"
      BY <1>0, <1>m, <2>0, <3>1, MovedTask DEF TaskStates
    <3>3. MovesTo(m, "RUNNING") /\ "RUNNING" \in TaskStates
      BY <2>1, <3>2 DEF MovesTo, Allowed, SendBuild, MayBuild, TaskStates
    <3>4. Record(m, "RUNNING_TASK")
      BY <2>1, <3>1 DEF SendBuild, Sends
    <3> QED BY <1>0, <2>0, <3>2, <3>3, <3>4 DEF Works, WorkStep, Ordinary
  <2>2. CASE SendFix
    <3>1. PICK m : m = Running(WithTask(mem, Cur, "RUNNING_FIX"))
      OBVIOUS
    <3>2. /\ Of(m) /\ m.planned /\ m.rounds = mem.rounds
          /\ m.task = [mem.task EXCEPT ![Cur] = "RUNNING_FIX"]
          /\ m.status = "COMPLETE" => mem.status = "COMPLETE"
      BY <1>0, <1>m, <2>0, <3>1, MovedTask DEF TaskStates
    <3>3. MovesTo(m, "RUNNING_FIX") /\ "RUNNING_FIX" \in TaskStates
      BY <2>2, <3>2 DEF MovesTo, Allowed, SendFix, MayFix, TaskStates
    <3>4. Record(m, "RUNNING_FIX")
      BY <2>2, <3>1 DEF SendFix, Sends
    <3> QED BY <1>0, <2>0, <3>2, <3>3, <3>4 DEF Works, WorkStep, Ordinary
  <2>3. CASE SendAudit
    <3>1. PICK m : m = Audited(mem)
      OBVIOUS
    <3>0. ~CapReached /\ mem.task[Cur] = "AUDITING" /\ UNCHANGED fixes
      BY <2>3 DEF SendAudit, MayAudit
    <3>2. /\ Of(m) /\ m.planned /\ m.task = mem.task
          /\ m.rounds = [mem.rounds EXCEPT ![Cur] = @ + 1]
      BY <1>0, <2>0, <3>0, <3>1, RoundFits DEF Of, Fit, BatchOK
    <3>3. m.status = mem.status
      BY <1>m, <3>1 DEF Of, Audited, BatchType
    <3>4. \E q : Record(m, q)
      BY <2>3, <3>1 DEF SendAudit, Sends
    <3> QED BY <1>0, <2>0, <3>0, <3>2, <3>3, <3>4 DEF Works, CountsAudit, WorkStep, Ordinary
  <2> QED BY <1>2, <2>1, <2>2, <2>3
<1> QED BY <1>1, <1>2 DEF Prompts

\* The answers to every prompt but the final audit's.
LEMMA ReturnsOrdinary ==
  ASSUME IInv, PromptInv, Raises \/ PlanReturns \/ BuilderReturns \/ AuditReturns
  PROVE  Ordinary
<1>0. StateInv /\ UNCHANGED <<lastId, fixes>> /\ pc = "prompt"
  BY DEF IInv, Raises, PlanReturns, BuilderReturns, AuditReturns, Answer
<1>m. Keeps(mem) /\ Of(mem) /\ mem \in BatchType
  BY <1>0, StatusKept DEF Keeps, Of
<1>1. CASE Raises
  <2>1. PICK m : m = mem
    OBVIOUS
  <2>2. FailHard(m)
    BY <1>1, <2>1 DEF Raises
  <2> QED BY <1>0, <1>m, <2>1, <2>2, LostEnds DEF Ordinary
<1>2. CASE PlanReturns
  <2>1. mem.id # NoBatch
    BY <1>0, <1>2 DEF IInv, UnitInv, PlanReturns
  <2>p. PICK m \in {Planned(mem), WithStatus(mem, "FAILED"), WithStatus(mem, "BLOCKED")} :
          \E q : (Record(m, q) \/ EnterIfLegal(m, q)) /\ (WorkerEnds \/ ToHead)
    BY <1>2 DEF PlanReturns
  <2>2. PICK q : (Record(m, q) \/ EnterIfLegal(m, q)) /\ (WorkerEnds \/ ToHead)
    BY <2>p
  <2>3. Keeps(m)
    BY <1>0, <2>1, StatusKept DEF BatchStatuses
  <2> QED BY <1>0, <2>2, <2>3, EndRests, KeptEnds DEF Ordinary
<1>3. CASE BuilderReturns
  <2>0. HasWork /\ Clean /\ mem.planned /\ mem.task[Cur] \in {"RUNNING", "RUNNING_FIX"}
    BY <1>0, <1>3, CurIsNext DEF BuilderReturns, IInv, UnitInv, Clean, TaskUnits, PromptInv
  <2>1. PICK a : a = WithTask(mem, Cur, "AUDITING")
    OBVIOUS
  <2>2. /\ Of(a) /\ a.planned /\ a.rounds = mem.rounds
        /\ a.task = [mem.task EXCEPT ![Cur] = "AUDITING"]
        /\ a.status = "COMPLETE" => mem.status = "COMPLETE"
    BY <1>0, <1>m, <2>0, <2>1, MovedTask DEF TaskStates
  <2>3. Allowed("AUDITING")
    BY <2>0 DEF Allowed
  <2>4. CASE MustEnter(a, "AUDITING_TASK")
    <3>1. pc' \notin Places
      BY <2>4, MustEnterRecords, EndRests
    <3> QED BY <1>0, <2>0, <2>2, <2>3, <2>4, <3>1, WorkEnds DEF Ordinary
  <2>5. CASE FailTask(mem, Cur)
    <3>1. PICK m : m = mem
      OBVIOUS
    <3>2. FailTask(m, Cur)
      BY <2>5, <3>1
    <3> QED BY <1>0, <1>m, <2>0, <3>1, <3>2, TaskEnds DEF Ordinary
  <2> QED BY <1>3, <2>1, <2>4, <2>5 DEF BuilderReturns
<1>4. CASE AuditReturns
  <2>0. /\ HasWork /\ Clean /\ mem.planned /\ mem.task[Cur] = "AUDITING"
        /\ fixes[mem.id][Cur] < mem.rounds[Cur] /\ Cur \in Tasks
    BY <1>0, <1>4, CurIsNext DEF AuditReturns, IInv, UnitInv, Clean, TaskUnits, PromptInv
  <2>j. ASSUME NEW v \in Verdicts
        PROVE  /\ Of(Judged(mem, v)) /\ Judged(mem, v).task = mem.task
               /\ Judged(mem, v).rounds = mem.rounds /\ Judged(mem, v).planned
               /\ Judged(mem, v).status = mem.status
    BY <1>m, <2>0 DEF Of, BatchType, Judged
  <2>1. CASE /\ Record(WithTask(Judged(mem, "PASS"), Cur, "APPROVED"), phase)
             /\ UNCHANGED resumeTo /\ GoOn("approved")
    <3>1. PICK j : j = Judged(mem, "PASS")
      OBVIOUS
    <3>2. PICK m : m = WithTask(j, Cur, "APPROVED")
      OBVIOUS
    <3>3. Of(j) /\ j.task = mem.task /\ j.rounds = mem.rounds /\ j.planned /\ j.status = mem.status
      BY <2>j, <3>1 DEF Verdicts
    <3>4. /\ Of(m) /\ m.planned /\ m.rounds = mem.rounds
          /\ m.task = [mem.task EXCEPT ![Cur] = "APPROVED"]
          /\ m.status = "COMPLETE" => mem.status = "COMPLETE"
      BY <1>0, <2>0, <3>2, <3>3, MovedTask DEF TaskStates
    <3>5. MovesTo(m, "APPROVED") /\ "APPROVED" \in TaskStates
      BY <1>0, <2>0, <3>4 DEF MovesTo, Allowed, TaskStates
    <3>6. Record(m, phase) /\ pc' \notin Places
      BY <2>1, <3>1, <3>2 DEF GoOn, Places
    <3> QED BY <1>0, <2>0, <3>4, <3>5, <3>6 DEF Works, WorkStep, Ordinary
  <2>2. CASE ~CapReached /\ MustEnter(WithTask(Judged(mem, "NEEDS_FIX"), Cur, "FIX_REQUIRED"),
                                      "FIX_REQUIRED")
    <3>1. PICK j : j = Judged(mem, "NEEDS_FIX")
      OBVIOUS
    <3>2. PICK m : m = WithTask(j, Cur, "FIX_REQUIRED")
      OBVIOUS
    <3>3. Of(j) /\ j.task = mem.task /\ j.rounds = mem.rounds /\ j.planned /\ j.status = mem.status
      BY <2>j, <3>1 DEF Verdicts
    <3>4. /\ Of(m) /\ m.planned /\ m.rounds = mem.rounds
          /\ m.task = [mem.task EXCEPT ![Cur] = "FIX_REQUIRED"]
          /\ m.status = "COMPLETE" => mem.status = "COMPLETE"
      BY <1>0, <2>0, <3>2, <3>3, MovedTask DEF TaskStates
    <3>5. Allowed("FIX_REQUIRED") /\ MustEnter(m, "FIX_REQUIRED")
      BY <2>0, <2>2, <3>1, <3>2 DEF Allowed
    <3>6. pc' \notin Places
      BY <3>5, MustEnterRecords, EndRests
    <3> QED BY <1>0, <2>0, <3>4, <3>5, <3>6, WorkEnds DEF Ordinary
  <2>3. CASE \/ BlockTask(Judged(mem, "NEEDS_FIX"), Cur) \/ BlockTask(Judged(mem, "BLOCKED"), Cur)
             \/ BlockTask(mem, Cur) \/ FailTask(mem, Cur)
    <3>1. PICK m \in {mem, Judged(mem, "NEEDS_FIX"), Judged(mem, "BLOCKED")} :
            BlockTask(m, Cur) \/ FailTask(m, Cur)
      BY <2>3
    <3>2. Of(m) /\ m.task = mem.task /\ m.rounds = mem.rounds /\ m.planned /\ m.status = mem.status
      BY <1>m, <2>0, <2>j, <3>1 DEF Verdicts
    <3> QED BY <1>0, <2>0, <3>1, <3>2, TaskEnds DEF Ordinary
  <2> QED BY <1>4, <2>1, <2>2, <2>3 DEF AuditReturns
<1> QED BY <1>1, <1>2, <1>3, <1>4

\* What follows an approval, and what a batch that cannot complete becomes.
LEMMA CommitsOrdinary ==
  ASSUME IInv, VerdictInv,
         AfterApproval \/ (CompleteBatch /\ ~CanGoTo(phase, "BATCH_COMPLETE"))
  PROVE  Ordinary
<1>0. StateInv /\ UNCHANGED <<lastId, fixes>>
  BY DEF IInv, AfterApproval, CompleteBatch
<1>m. mem \in BatchType
  BY <1>0 DEF StateInv, BatchOK
<1>1. CASE AfterApproval
  <2>p. PICK m \in {mem, WithStatus(mem, "READY_FOR_FINAL_AUDIT")} : \E q : MustEnter(m, q)
    BY <1>1 DEF AfterApproval
  <2>1. PICK q : MustEnter(m, q)
    BY <2>p
  <2>2. Keeps(m) /\ Of(m) /\ m.planned = mem.planned
    BY <1>0, <1>m, StatusKept DEF BatchStatuses, Keeps, WithStatus, BatchType
  <2>3. CASE FailHard(m)
    BY <1>0, <2>2, <2>3, LostEnds DEF Ordinary, Keeps
  <2>4. CASE \E p : Record(m, p)
    <3>1. Rests
      BY <2>1, MustEnterRecords, EndRests
    <3> QED BY <1>0, <2>2, <2>4, <3>1 DEF KeptStep, Ordinary
  <2> QED BY <2>1, <2>3, <2>4, MustEnterRecords
<1>2. CASE CompleteBatch /\ ~CanGoTo(phase, "BATCH_COMPLETE")
  <2>1. PICK m : m = WithStatus(mem, "COMPLETE")
    OBVIOUS
  <2>2. FailHard(m) /\ mem.planned
    BY <1>2, <2>1 DEF CompleteBatch, VerdictInv, AllApproved
  <2>3. Of(m) /\ m.task = mem.task /\ m.rounds = mem.rounds /\ m.planned = mem.planned
    BY <1>m, <2>1 DEF Of, WithStatus, BatchType, BatchStatuses
  <2> QED BY <1>0, <2>2, <2>3, LostEnds DEF Ordinary
<1> QED BY <1>1, <1>2

\* The runners, between batches, and the last transaction of a handoff.
LEMMA RunnersOrdinary ==
  ASSUME IInv, LoopDecides \/ AfterPass \/ SaveTasks PROVE Ordinary
<1>1. CASE LoopDecides \/ AfterPass
  <2>1. UNCHANGED <<phase, mem, durable, lastId, fixes>> /\ pc \notin Unsaved
    BY <1>1 DEF LoopDecides, AfterPass, Unsaved
  <2>2. WorkerEnds \/ pc' \in {"claim", "handoff"}
    BY <1>1 DEF LoopDecides, AfterPass, GoOn
  <2> QED BY <2>1, <2>2, EndRests DEF Rests, Places, Quiet, Ordinary
<1>2. CASE SaveTasks
  <2>1. Keeps(mem)
    BY StatusKept DEF IInv
  <2>2. Rests
    BY <1>2, EndRests DEF SaveTasks, HandoffEnds, Rests, Places
  <2> QED BY <1>2, <2>1, <2>2 DEF SaveTasks, KeptStep, Ordinary
<1> QED BY <1>1, <1>2

\* The operator changes the status of a batch, or starts one.
LEMMA OperatorOrdinary ==
  ASSUME IInv, Operator \/ UiActs PROVE Ordinary
<1>0. StateInv
  BY DEF IInv
<1>1. CASE ClickStart \/ ClickContinue \/ ClickFinalAudit \/ ClickNextBatch
  <2>1. /\ UNCHANGED <<phase, mem, durable, lastId, fixes>>
        /\ pc \notin Unsaved /\ pc' \in {"enter", "claim", "handoff"}
    BY <1>1 DEF ClickStart, ClickContinue, ClickFinalAudit, ClickNextBatch, StartWorker,
                NoWorker, Unsaved
  <2> QED BY <2>1 DEF Rests, Places, Quiet, Ordinary
<1>2. CASE ClickStop \/ ClickPause
  BY <1>2 DEF ClickStop, ClickPause, worker, Rests, Quiet, Ordinary
<1>3. CASE UiActs
  <2>1. UNCHANGED <<lastId, fixes>> /\ pc' = pc /\ Rests
    BY <1>3 DEF UiActs, worker, Rests
  <2>2. CASE RequestStop \/ RequestPause
    <3>p. PICK s \in {"STOPPED", "PAUSED"} : \E q : Record(WithStatus(mem, s), q)
      BY <2>2 DEF RequestStop, RequestPause, Enter
    <3>1. PICK q : Record(WithStatus(mem, s), q)
      BY <3>p
    <3>2. Keeps(WithStatus(mem, s))
      BY <1>0, StatusKept DEF BatchStatuses
    <3> QED BY <2>1, <3>1, <3>2 DEF KeptStep, Ordinary
  <2>3. CASE UNCHANGED <<phase, resumeTo, mem, durable>>
    BY <2>1, <2>3 DEF Quiet, Ordinary
  <2> QED BY <1>3, <2>2, <2>3 DEF UiActs
<1>4. CASE ClickNewBatch
  <2>1. pc' = pc /\ pc \notin ClaimedAt \union {"consume", "saveTasks"}
    BY <1>4 DEF ClickNewBatch, HoldsBatch, IsRunning, worker
  <2> QED BY <1>4, <2>1 DEF ClickNewBatch, ClaimedAt, Places, NewStep, Ordinary
<1>6. CASE ClickResume /\ UNCHANGED <<phase, resumeTo, mem, durable>>
  BY <1>6 DEF ClickResume, worker, Rests, Quiet, Ordinary
<1>5. CASE ClickResume /\ RequestResume
  <2>1. PICK m : m = WithStatus(mem, "RUNNING")
    OBVIOUS
  <2>2. \E q : Record(m, q)
    BY <1>5, <2>1 DEF RequestResume, Enter
  <2>3. Keeps(m)
    BY <1>0, <2>1, StatusKept DEF BatchStatuses
  <2> QED BY <1>5, <2>2, <2>3 DEF ClickResume, worker, Rests, KeptStep, Ordinary
<1> QED BY <1>1, <1>2, <1>3, <1>4, <1>5, <1>6 DEF Operator, ClickResume

\* The answers of the final audit that say something: a PASS whose plan is saved,
\* and a refusal, which is recorded only over an edge of the phase graph.
SavesPlan ==
  /\ pc = "prompt" /\ pc' = "planSaved" /\ plans' = WithPlanOf(mem.id)
  /\ AllApproved(mem) /\ UNCHANGED <<phase, mem, disk, final, usedBy, lastId, fixes>>

Refuses ==
  /\ pc' \in {"needsFix", "blocked"} /\ AllApproved(mem) /\ UNCHANGED <<lastId, fixes>>
  /\ \E m : /\ Keeps(m) /\ m.status # "COMPLETE"
            /\ \/ \E q : Record(m, q)
               \/ mem' = m /\ UNCHANGED <<phase, durable>>

\* The last transaction of a PASS.
Completes ==
  /\ pc = "auditSaved" /\ pc' \notin Places /\ UNCHANGED <<lastId, fixes>>
  /\ \E q : Record(WithStatus(mem, "COMPLETE"), q)

\* BATCH_COMPLETE is left for the handoff.
Leaves ==
  /\ OpenPlans # {} /\ pc' = "newBatch" /\ UNCHANGED <<lastId, fixes>>
  /\ pc \notin Unsaved
  /\ (\E q : Record(mem, q)) \/ UNCHANGED <<phase, mem, durable>>

\* The batch a plan becomes.
Begins ==
  RequestStart /\ UNCHANGED fixes /\ pc = "newBatch" /\ pc' = "consume"

Special == SavesPlan \/ Refuses \/ SaveRefusal \/ SaveVerdict \/ Completes
           \/ Leaves \/ Begins \/ ConsumePlan \/ Crash

\* The final audit answers.
LEMMA FinalClassified ==
  ASSUME IInv, FinalReturns PROVE Ordinary \/ SavesPlan \/ Refuses
<1>0. StateInv /\ AllApproved(mem) /\ UNCHANGED <<lastId, fixes>> /\ pc = "prompt"
  BY DEF IInv, UnitInv, FinalReturns, Answer
<1>b. PICK b : b = WithStatus(mem, "BLOCKED")
  OBVIOUS
<1>1. Keeps(mem) /\ Keeps(b)
  BY <1>0, <1>b, StatusKept DEF BatchStatuses
<1>2. b.status # "COMPLETE"
  BY <1>0, <1>b DEF WithStatus, StateInv, BatchOK, BatchType, AllApproved
<1>3. CASE SavesPlan
  BY <1>3
<1>4. CASE /\ pc' \in {"needsFix", "blocked"}
           /\ Enter(b, "BLOCKED") \/ (mem' = b /\ UNCHANGED <<phase, resumeTo, durable>>)
  <2>1. (\E q : Record(b, q)) \/ (mem' = b /\ UNCHANGED <<phase, durable>>)
    BY <1>4 DEF Enter
  <2> QED BY <1>0, <1>1, <1>2, <1>4, <2>1 DEF Refuses
<1>5. CASE (EnterIfLegal(b, "BLOCKED") \/ EnterIfLegal(mem, "FAILED")) /\ WorkerEnds
  BY <1>0, <1>1, <1>5, EndRests, KeptEnds DEF Ordinary
<1> QED BY <1>0, <1>b, <1>3, <1>4, <1>5 DEF FinalReturns, SavesPlan, GoOn

\* Every step is one of the five ordinary ones, or one of nine.
LEMMA Classified ==
  ASSUME IInv, PromptInv, VerdictInv, [Next]_vars PROVE Ordinary \/ Special
<1>1. CASE CompleteBatch
  <2>1. CASE CanGoTo(phase, "BATCH_COMPLETE")
    <3>1. pc' \notin Places
      BY <1>1, <2>1 DEF CompleteBatch, GoOn, WorkerEnds, Places
    <3>2. Completes
      BY <1>1, <2>1, <3>1 DEF CompleteBatch, Enter, Completes
    <3> QED BY <3>2 DEF Special
  <2> QED BY <1>1, <2>1, CommitsOrdinary
<1>2. CASE LeaveCompleted
  <2>1. pc = "handoff" /\ UNCHANGED <<lastId, fixes>>
    BY <1>2 DEF LeaveCompleted
  <2>2. CASE WorkerEnds /\ UNCHANGED <<phase, resumeTo, mem, durable>>
    BY <2>1, <2>2, EndRests DEF Quiet, Unsaved, Ordinary
  <2>3. CASE GoOn("newBatch") /\ OpenPlans # {}
    <3>1. (\E q : Record(mem, q)) \/ UNCHANGED <<phase, mem, durable>>
      BY <1>2, <2>3 DEF LeaveCompleted, Enter, GoOn, WorkerEnds
    <3> QED BY <2>1, <2>3, <3>1 DEF Leaves, GoOn, Unsaved, Special
  <2> QED BY <1>2, <2>2, <2>3 DEF LeaveCompleted
<1>3. CASE StartFromPlan
  <2>1. CASE RequestStart /\ GoOn("consume")
    BY <1>3, <2>1 DEF StartFromPlan, GoOn, Begins, Special
  <2>2. CASE WorkerEnds /\ UNCHANGED <<phase, resumeTo, mem, durable, lastId>>
    BY <1>3, <2>2, EndRests DEF StartFromPlan, Quiet, Unsaved, Ordinary
  <2> QED BY <1>3, <2>1, <2>2 DEF StartFromPlan
<1>4. CASE FinalReturns
  BY <1>4, FinalClassified DEF Special
<1>5. CASE BetweenUnits \/ Gate \/ Prompts \/ Operator \/ UiActs
  BY <1>5, BetweenUnitsOrdinary, GateOrdinary, PromptsOrdinary, OperatorOrdinary
<1>6. CASE Raises \/ PlanReturns \/ BuilderReturns \/ AuditReturns
  BY <1>6, ReturnsOrdinary
<1>7. CASE AfterApproval \/ LoopDecides \/ AfterPass \/ SaveTasks
  BY <1>7, CommitsOrdinary, RunnersOrdinary
<1>8. CASE SaveRefusal \/ SaveVerdict \/ ConsumePlan \/ Crash
  BY <1>8 DEF Special
<1>9. CASE UNCHANGED vars
  BY <1>9 DEF vars, worker, Quiet, Rests, Ordinary
<1> QED BY <1>1, <1>2, <1>3, <1>4, <1>5, <1>6, <1>7, <1>8, <1>9
        DEF Next, WorkerStep, Returns, Commits, Continuous, Handoff

-----------------------------------------------------------------------------
(* The rows *)

\* What a record of the batch in memory leaves in the rows.
LEMMA Rowed ==
  ASSUME StateInv, NEW m, Of(m), NEW q, Record(m, q)
  PROVE  /\ mem' = m /\ phase' = q /\ UNCHANGED <<final, plans, usedBy>>
         /\ mem.id = NoBatch => UNCHANGED disk
         /\ mem.id # NoBatch =>
              /\ mem.id \in Batches
              /\ disk' = [disk EXCEPT ![mem.id] = [phase |-> q, batch |-> m]]
              /\ disk'[mem.id] = [phase |-> q, batch |-> m]
              /\ \A b \in Batches : b # mem.id => disk'[b] = disk[b]
<1>1. mem.id # NoBatch => mem.id \in Batches
  BY PipelineAssumption DEF StateInv, BatchOK, BatchType, Batches, NoBatch
<1>2. disk = [b \in Batches |-> disk[b]]
  BY DEF StateInv
<1>3. mem' = m /\ phase' = q /\ UNCHANGED <<final, plans, usedBy>> /\ disk' = Saved(m, q)
  BY DEF Record
<1> QED BY <1>1, <1>2, <1>3 DEF Of, Saved

\* What a record of a new batch leaves there.
LEMMA Created ==
  ASSUME StateInv, RequestStart
  PROVE  /\ lastId' = lastId + 1 /\ lastId' \in Batches /\ lastId \in Nat
         /\ mem' = EmptyBatch(lastId') /\ mem'.id = lastId' /\ UNCHANGED <<final, plans, usedBy>>
         /\ disk'[lastId'] = [phase |-> phase', batch |-> mem']
         /\ \A b \in Batches : b # lastId' => disk'[b] = disk[b]
         /\ disk' = [disk EXCEPT ![lastId'] = [phase |-> phase', batch |-> mem']]
<1>0. PICK n : n = EmptyBatch(lastId + 1)
  OBVIOUS
<1>1. lastId + 1 \in Batches /\ lastId' = lastId + 1 /\ lastId \in Nat
  BY PipelineAssumption DEF RequestStart, StateInv, Batches
<1>2. /\ mem' = n /\ n.id = lastId + 1 /\ UNCHANGED <<final, plans, usedBy>>
      /\ disk' = Saved(n, phase')
  BY <1>0 DEF RequestStart, Enter, Record, EmptyBatch
<1>3. disk = [b \in Batches |-> disk[b]]
  BY DEF StateInv
<1>4. disk' = [disk EXCEPT ![lastId'] = [phase |-> phase', batch |-> n]]
  BY <1>1, <1>2 DEF Saved, NoBatch
<1> QED BY <1>0, <1>1, <1>2, <1>3, <1>4

\* After a record the row is what memory holds.
LEMMA RowAfterRecord ==
  ASSUME StateInv, RowInv, NEW m, Of(m), NEW q, Record(m, q), UNCHANGED lastId
  PROVE  RowInv'
<1>1. mem' = m /\ phase' = q /\ m.id = mem.id /\ mem.id <= lastId
  BY Rowed DEF Of, StateInv
<1>2. CASE mem.id = NoBatch
  BY <1>1, <1>2, Rowed DEF RowInv, RowIsCurrent
<1>3. CASE mem.id # NoBatch
  <2>1. /\ mem.id \in Batches /\ disk'[mem.id] = [phase |-> q, batch |-> m]
        /\ \A b \in Batches : b # mem.id => disk'[b] = disk[b]
    BY <1>3, Rowed
  <2>2. RowIsCurrent'
    BY <1>1, <2>1 DEF RowIsCurrent
  <2>3. \A b \in Batches : b > lastId' => disk'[b] = Absent
    BY <1>1, <2>1 DEF RowInv, StateInv, Batches
  <2> QED BY <1>1, <2>1, <2>2, <2>3 DEF RowInv
<1> QED BY <1>2, <1>3

\* A batch that has just been created has its row.
LEMMA RowNew ==
  ASSUME StateInv, RowInv, RequestStart PROVE RowInv'
<1>1. RowIsCurrent'
  BY Created DEF RowIsCurrent
<1>2. \A b \in Batches : b > lastId' => disk'[b] = Absent
  BY Created DEF RowInv, StateInv, Batches
<1>3. mem'.id # NoBatch => /\ disk'[mem'.id].batch.task = mem'.task
                           /\ disk'[mem'.id].batch.rounds = mem'.rounds
  BY Created
<1> QED BY <1>1, <1>2, <1>3 DEF RowInv

\* A batch changed in memory only, at a place that says so.
LEMMA RowBehind ==
  ASSUME RowInv, pc' \in Unsaved, UNCHANGED <<disk, lastId>>,
         mem'.id = mem.id, mem'.task = mem.task, mem'.rounds = mem.rounds
  PROVE  RowInv'
BY DEF RowInv, RowIsCurrent, Unsaved

\* What a crash loads is a row.
LEMMA RowLoaded ==
  ASSUME IInv, RowInv, Crash PROVE RowInv'
<1>0. /\ UNCHANGED <<disk, lastId>> /\ StateInv /\ lastId \in 0..MaxBatches /\ MaxBatches \in Nat
  BY PipelineAssumption DEF Crash, IInv, StateInv, durable
<1>1. PICK r : r = Restored
  OBVIOUS
<1>2. phase' = r.phase /\ mem' = r.batch
  BY <1>1 DEF Crash
<1>3. CASE Restorable = {}
  <2>1. mem'.id = NoBatch
    BY <1>1, <1>2, <1>3 DEF Restored, Absent, EmptyBatch
  <2> QED BY <1>0, <2>1 DEF RowInv, RowIsCurrent
<1>4. CASE Restorable # {}
  <2>1. PICK b : b = Newest(Restorable)
    OBVIOUS
  <2>2. b \in 1..lastId
    <3>1. Restorable \in SUBSET (1..lastId)
      BY DEF Restorable
    <3>2. lastId \in Nat
      BY <1>0
    <3>3. Newest(Restorable) \in Restorable
      BY <1>4, <3>1, <3>2, NewestIsGreatest
    <3> QED BY <2>1, <3>1, <3>3
  <2>3. b \in Batches /\ b <= lastId /\ r = disk[b]
    BY <1>0, <1>1, <1>4, <2>1, <2>2 DEF Restored, Batches
  <2>4. disk[b] = [phase |-> disk[b].phase, batch |-> disk[b].batch] /\ disk[b].batch.id = b
    BY <1>0, <2>3 DEF StateInv, RowOK
  <2>5. RowIsCurrent'
    BY <1>0, <1>2, <2>3, <2>4 DEF RowIsCurrent
  <2>6. disk'[mem'.id] = disk[b] /\ mem' = disk[b].batch
    BY <1>0, <1>2, <2>3, <2>4
  <2> QED BY <1>0, <2>5, <2>6 DEF RowInv
<1> QED BY <1>3, <1>4

\* Every step keeps the rows and the memory together.
LEMMA RowStep ==
  ASSUME IInv, RowInv, Ordinary \/ Special PROVE RowInv'
<1>0. StateInv
  BY DEF IInv
<1>1. CASE Quiet
  BY <1>1 DEF Quiet, durable, Unsaved, RowInv, RowIsCurrent
<1>2. CASE KeptStep \/ WorkStep \/ LostStep
  <2>1. PICK m, q : Of(m) /\ Record(m, q)
    BY <1>2 DEF KeptStep, WorkStep, LostStep, Keeps, Works, WritesOff
  <2> QED BY <1>0, <1>2, <2>1, RowAfterRecord DEF KeptStep, WorkStep, LostStep
<1>3. CASE NewStep \/ Begins
  BY <1>0, <1>3, RowNew DEF NewStep, Begins
<1>4. CASE SavesPlan
  BY <1>4 DEF SavesPlan, RowInv, RowIsCurrent
<1>5. CASE Refuses
  <2>1. PICK m : /\ Keeps(m)
                 /\ (\E q : Record(m, q)) \/ (mem' = m /\ UNCHANGED <<phase, durable>>)
    BY <1>5 DEF Refuses
  <2>2. CASE \E q : Record(m, q)
    BY <1>0, <1>5, <2>1, <2>2, RowAfterRecord DEF Refuses, Keeps
  <2>3. CASE mem' = m /\ UNCHANGED <<phase, durable>>
    BY <1>5, <2>1, <2>3, RowBehind DEF Refuses, Keeps, Of, durable, Unsaved
  <2> QED BY <2>1, <2>2, <2>3
<1>6. CASE SaveRefusal
  <2>1. disk' = Saved(mem, phase) /\ UNCHANGED <<phase, mem, lastId>> /\ mem.id <= lastId
    BY <1>0, <1>6 DEF SaveRefusal, StateInv
  <2>2. mem.id # NoBatch => mem.id \in Batches
    BY <1>0, PipelineAssumption DEF StateInv, BatchOK, BatchType, Batches, NoBatch
  <2>3. disk = [b \in Batches |-> disk[b]] /\ lastId \in Nat
    BY <1>0, PipelineAssumption DEF StateInv
  <2>4. \A b \in Batches : b > lastId => disk'[b] = disk[b]
    BY <2>1, <2>2, <2>3 DEF Saved, Batches
  <2>5. mem.id # NoBatch => disk'[mem.id] = [phase |-> phase, batch |-> mem]
    BY <2>1, <2>2, <2>3 DEF Saved
  <2> QED BY <2>1, <2>4, <2>5 DEF RowInv, RowIsCurrent
<1>7. CASE SaveVerdict
  BY <1>7 DEF SaveVerdict, RowInv, RowIsCurrent
<1>8. CASE Completes
  <2>1. PICK q : Record(WithStatus(mem, "COMPLETE"), q)
    BY <1>8 DEF Completes
  <2>2. Of(WithStatus(mem, "COMPLETE"))
    BY <1>0 DEF Of, StateInv, BatchOK, BatchType, WithStatus, BatchStatuses
  <2> QED BY <1>0, <1>8, <2>1, <2>2, RowAfterRecord DEF Completes
<1>9. CASE Leaves
  <2>1. Of(mem)
    BY <1>0 DEF Of, StateInv, BatchOK
  <2>2. CASE \E q : Record(mem, q)
    BY <1>0, <1>9, <2>1, <2>2, RowAfterRecord DEF Leaves
  <2>3. CASE UNCHANGED <<phase, mem, durable>>
    BY <1>9, <2>3 DEF Leaves, Unsaved, durable, RowInv, RowIsCurrent
  <2> QED BY <1>9, <2>2, <2>3 DEF Leaves
<1>10. CASE ConsumePlan
  <2>1. mem'.id = mem.id /\ mem'.task = mem.task /\ mem'.rounds = mem.rounds
    BY <1>0, <1>10 DEF ConsumePlan, Planned, StateInv, BatchOK, BatchType
  <2> QED BY <1>10, <2>1, RowBehind DEF ConsumePlan, GoOn, Unsaved
<1>11. CASE Crash
  BY <1>11, RowLoaded
<1> QED BY <1>1, <1>2, <1>3, <1>4, <1>5, <1>6, <1>7, <1>8, <1>9, <1>10, <1>11
        DEF Ordinary, Special

-----------------------------------------------------------------------------
(* The plans *)

\* Steps that leave plans, batches and the worker's place alone.
LEMMA PlanFrame ==
  ASSUME PlanInv, MaxBatches \in Nat, UNCHANGED <<plans, usedBy>>, Rests,
         \/ UNCHANGED lastId /\ mem'.id = mem.id
         \/ pc' = "none" /\ UNCHANGED lastId
         \/ /\ lastId' = lastId + 1 /\ lastId \in Nat
            /\ pc' \notin Places \/ (pc = "newBatch" /\ pc' = "newBatch")
            /\ usedBy \in [Batches -> 0..MaxBatches] /\ Saves \in SUBSET Batches
  PROVE  PlanInv'
<1>1. PlanUsedOnce'
  BY DEF PlanInv, PlanUsedOnce
<1>2. Saves' = Saves /\ OpenPlans' = OpenPlans
  BY DEF Saves, OpenPlans
<1>3. (\A b \in Saves : b <= lastId') /\ (\A b \in Batches : usedBy[b] <= lastId')
  BY DEF PlanInv, Batches
<1>4. /\ pc' \in {"newBatch", "consume"} => pc \in {"newBatch", "consume"}
      /\ pc' = "consume" => pc = "consume" /\ UNCHANGED lastId /\ mem'.id = mem.id
  BY DEF Rests, Places
<1> QED BY <1>1, <1>2, <1>3, <1>4 DEF PlanInv

\* The plan that is consumed is an open one of an older batch.
LEMMA OpenPlanIsOpen ==
  ASSUME BookInv, OpenPlans # {}
  PROVE  OpenPlan \in Saves /\ OpenPlan \in Batches /\ usedBy[OpenPlan] = NoBatch
<1>1. Len(plans) \in Nat /\ OpenPlans \in SUBSET (1..Len(plans))
  BY DEF BookInv, OpenPlans
<1>2. PICK i : i = Newest(OpenPlans)
  OBVIOUS
<1>3. i \in OpenPlans
  BY <1>1, <1>2, NewestIsGreatest
<1>4. i \in 1..Len(plans) /\ usedBy[plans[i]] = NoBatch /\ OpenPlan = plans[i]
  BY <1>2, <1>3 DEF OpenPlans, OpenPlan
<1> QED BY <1>4 DEF BookInv, Saves

\* Saved plans are those of batches.
LEMMA SavesAreBatches ==
  ASSUME BookInv PROVE Saves \in SUBSET Batches
BY DEF BookInv, Saves

\* A plan saved once more, or for the first time, is one of the saved.
LEMMA PlanAdded ==
  ASSUME BookInv, NEW b \in Batches, plans' = WithPlanOf(b)
  PROVE  Saves' = Saves \cup {b}
<1>1. plans \in Seq(Batches) /\ Len(plans) \in Nat
  BY DEF BookInv
<1>2. CASE \E i \in 1..Len(plans) : plans[i] = b
  BY <1>2 DEF WithPlanOf, Saves
<1>3. CASE ~ \E i \in 1..Len(plans) : plans[i] = b
  <2>1. plans' = Append(plans, b)
    BY <1>3 DEF WithPlanOf
  <2>2. /\ Len(plans') = Len(plans) + 1 /\ plans'[Len(plans) + 1] = b
        /\ \A i \in 1..Len(plans) : plans'[i] = plans[i]
    BY <1>1, <2>1
  <2>3. \A x \in Saves' : x \in Saves \cup {b}
    BY <1>1, <2>2 DEF Saves
  <2>4. \A x \in Saves \cup {b} : x \in Saves'
    BY <1>1, <2>2 DEF Saves
  <2> QED BY <2>3, <2>4
<1> QED BY <1>2, <1>3

\* Every step keeps what is known of the plans.
LEMMA PlanStep ==
  ASSUME IInv, PlanInv, Ordinary \/ Special PROVE PlanInv'
<1>0. StateInv /\ BookInv /\ Saves \in SUBSET Batches /\ MaxBatches \in Nat
      /\ usedBy \in [Batches -> 0..MaxBatches]
  BY SavesAreBatches, PipelineAssumption DEF IInv, BookInv
<1>1. CASE Quiet
  BY <1>0, <1>1, PlanFrame DEF Quiet, durable
<1>2. CASE KeptStep \/ WorkStep \/ LostStep
  <2>1. PICK m, q : Of(m) /\ Record(m, q)
    BY <1>2 DEF KeptStep, WorkStep, LostStep, Keeps, Works, WritesOff
  <2>2. UNCHANGED <<plans, usedBy, lastId>> /\ mem'.id = mem.id /\ Rests
    BY <1>2, <2>1 DEF Record, Of, Rests, KeptStep, WorkStep, LostStep
  <2> QED BY <1>0, <2>2, PlanFrame
<1>3. CASE NewStep
  BY <1>0, <1>3, Created, PlanFrame DEF NewStep, Rests
<1>4. CASE SavesPlan
  <2>1. mem.id \in Batches /\ mem.id <= lastId
    BY <1>0, <1>4 DEF SavesPlan, AllApproved, StateInv, BatchOK, BatchType, Batches, NoBatch
  <2>2. Saves' = Saves \cup {mem.id}
    BY <1>0, <1>4, <2>1, PlanAdded DEF SavesPlan
  <2> QED BY <1>4, <2>1, <2>2 DEF SavesPlan, PlanInv, PlanUsedOnce
<1>5. CASE Refuses
  <2>1. UNCHANGED <<plans, usedBy, lastId>>
    BY <1>5 DEF Refuses, Record, durable
  <2>2. mem'.id = mem.id
    BY <1>5 DEF Refuses, Record, Keeps, Of
  <2>3. pc' \notin {"newBatch", "consume"}
    BY <1>5 DEF Refuses
  <2> QED BY <2>1, <2>2, <2>3 DEF PlanInv, PlanUsedOnce, Saves
<1>6. CASE SaveRefusal \/ SaveVerdict
  <2>1. UNCHANGED <<plans, usedBy, lastId, mem>> /\ pc' \notin {"newBatch", "consume"}
    BY <1>6 DEF SaveRefusal, SaveVerdict, WorkerEnds, GoOn
  <2> QED BY <2>1 DEF PlanInv, PlanUsedOnce, Saves
<1>7. CASE Completes
  <2>1. UNCHANGED <<plans, usedBy, lastId>> /\ pc' \notin {"newBatch", "consume"}
    BY <1>7 DEF Completes, Record, Places
  <2> QED BY <2>1 DEF PlanInv, PlanUsedOnce, Saves
<1>8. CASE Leaves
  <2>1. UNCHANGED <<plans, usedBy, lastId>> /\ pc' = "newBatch" /\ OpenPlans # {}
    BY <1>8 DEF Leaves, Record, durable
  <2> QED BY <2>1 DEF PlanInv, PlanUsedOnce, Saves, OpenPlans
<1>9. CASE Begins
  <2>1. /\ UNCHANGED <<plans, usedBy>> /\ lastId' = lastId + 1 /\ mem'.id = lastId'
        /\ lastId \in Nat /\ pc = "newBatch" /\ pc' = "consume"
    BY <1>0, <1>9, Created DEF Begins
  <2>2. Saves' = Saves /\ OpenPlans' = OpenPlans /\ PlanUsedOnce'
    BY <2>1 DEF Saves, OpenPlans, PlanInv, PlanUsedOnce
  <2>3. \A b \in Saves : b <= lastId /\ b \in Nat
    BY <1>0 DEF PlanInv, Batches
  <2>4. \A b \in Batches : usedBy[b] <= lastId /\ usedBy[b] \in Nat
    BY <1>0 DEF PlanInv
  <2> QED BY <2>1, <2>2, <2>3, <2>4 DEF PlanInv
<1>10. CASE ConsumePlan
  <2>1. PICK p : p = OpenPlan
    OBVIOUS
  <2>2. /\ pc = "consume" /\ pc' = "saveTasks" /\ UNCHANGED <<plans, lastId>>
        /\ usedBy' = [usedBy EXCEPT ![p] = mem.id] /\ mem.id = lastId
    BY <1>10, <2>1 DEF ConsumePlan, GoOn, PlanInv
  <2>3. p \in Saves /\ p \in Batches /\ usedBy[p] = NoBatch /\ p < lastId
    BY <1>0, <1>10, <2>1, <2>2, OpenPlanIsOpen DEF PlanInv
  <2>4. /\ usedBy'[p] = lastId
        /\ \A b \in Batches : b # p => usedBy'[b] = usedBy[b]
        /\ \A b \in Batches : usedBy[b] # lastId
    BY <1>0, <2>2, <2>3 DEF PlanInv
  <2>5. PlanUsedOnce'
    BY <2>3, <2>4 DEF PlanInv, PlanUsedOnce
  <2>6. \A b \in Batches : usedBy'[b] <= lastId
    BY <1>0, <2>4 DEF PlanInv, StateInv
  <2> QED BY <2>2, <2>5, <2>6 DEF PlanInv, Saves
<1>11. CASE Crash
  <2>1. UNCHANGED <<plans, usedBy, lastId>> /\ pc' = "none"
    BY <1>11 DEF Crash, durable
  <2> QED BY <2>1 DEF PlanInv, PlanUsedOnce, Saves
<1> QED BY <1>1, <1>2, <1>3, <1>4, <1>5, <1>6, <1>7, <1>8, <1>9, <1>10, <1>11
        DEF Ordinary, Special

-----------------------------------------------------------------------------
(* The verdicts *)

\* A COMPLETE row, and a COMPLETE batch in memory, are earned.
AllEarned == CompleteOnlyIfAudited /\ (mem.status = "COMPLETE" => Earned(mem))

\* A record that makes nothing COMPLETE keeps what COMPLETE batches have earned.
LEMMA EarnedKept ==
  ASSUME StateInv, AllEarned, NEW m, Of(m), NEW q, Record(m, q),
         m.status = "COMPLETE" => mem.status = "COMPLETE" /\ AllApproved(m)
  PROVE  AllEarned'
<1>1. /\ mem' = m /\ UNCHANGED <<final, plans>> /\ Saves' = Saves /\ m.id = mem.id
  BY Rowed DEF Saves, Of
<1>2. m.status = "COMPLETE" => Earned(m)'
  BY <1>1 DEF AllEarned, Earned, AllApproved
<1>3. ASSUME NEW b \in Batches, disk'[b].batch.status = "COMPLETE"
      PROVE  AllApproved(disk'[b].batch) /\ final'[b] = "PASS" /\ b \in Saves'
  <2>1. CASE b = mem.id /\ mem.id # NoBatch
    <3>1. disk'[b] = [phase |-> q, batch |-> m]
      BY <2>1, Rowed
    <3> QED BY <1>1, <1>2, <1>3, <2>1, <3>1 DEF Earned, AllApproved
  <2>2. CASE b # mem.id \/ mem.id = NoBatch
    <3>1. disk'[b] = disk[b]
      BY <2>2, Rowed
    <3> QED BY <1>1, <1>3, <3>1 DEF AllEarned, CompleteOnlyIfAudited, Saves
  <2> QED BY <2>1, <2>2
<1> QED BY <1>1, <1>2, <1>3 DEF AllEarned, CompleteOnlyIfAudited, Saves

\* A batch with work left is not COMPLETE, so moving or losing a task of it
\* makes nothing COMPLETE.
LEMMA WorkNotComplete ==
  ASSUME StateInv, AllEarned, NEW m, Works(m) \/ WritesOff(m)
  PROVE  Of(m) /\ m.status # "COMPLETE"
<1>1. CASE WritesOff(m)
  BY <1>1 DEF WritesOff
<1>2. CASE Works(m)
  <2>1. Cur \in Tasks /\ mem.task[Cur] # "APPROVED"
    BY <1>2, CurIsNext DEF Works
  <2> QED BY <1>2, <2>1 DEF Works, AllEarned, Earned, AllApproved
<1> QED BY <1>1, <1>2

\* What the worker knows at its places outlives every step that leaves it there.
LEMMA PlacesKept ==
  ASSUME StateInv, VerdictInv, Rests, UNCHANGED <<final, plans>>, AllEarned',
         \/ UNCHANGED mem
         \/ \E m : Keeps(m) /\ mem' = m
         \/ pc' \notin Places
  PROVE  VerdictInv'
<1>1. Saves' = Saves
  BY DEF Saves
<1>2. CASE pc' \notin Places
  BY <1>2 DEF VerdictInv, AllEarned, Places
<1>3. CASE pc' = pc /\ (UNCHANGED mem \/ \E m : Keeps(m) /\ mem' = m)
  <2>1. /\ mem'.id = mem.id
        /\ mem'.status = "COMPLETE" => mem.status = "COMPLETE"
        /\ AllApproved(mem) => AllApproved(mem')
    BY <1>3 DEF Keeps, Of, AllApproved
  <2> QED BY <1>1, <1>3, <2>1 DEF VerdictInv, AllEarned
<1> QED BY <1>2, <1>3 DEF Rests

\* Every step keeps what is known of the verdicts.
LEMMA VerdictStep ==
  ASSUME IInv, RowInv, VerdictInv, Ordinary \/ Special PROVE VerdictInv'
<1>0. StateInv /\ BookInv /\ AllEarned /\ mem \in BatchType
      /\ disk = [b \in Batches |-> disk[b]]
  BY DEF IInv, VerdictInv, AllEarned, StateInv, BatchOK
<1>1. CASE Quiet
  <2>1. UNCHANGED <<mem, disk, final, plans>> /\ Rests
    BY <1>1 DEF Quiet, durable
  <2>2. AllEarned'
    BY <1>0, <2>1 DEF AllEarned, CompleteOnlyIfAudited, Earned, Saves
  <2> QED BY <1>0, <2>1, <2>2, PlacesKept
<1>2. CASE KeptStep
  <2>1. PICK m, q : Keeps(m) /\ Record(m, q)
    BY <1>2 DEF KeptStep
  <2>2. AllEarned'
    BY <1>0, <2>1, EarnedKept DEF Keeps, AllEarned, Earned, AllApproved
  <2>3. mem' = m /\ UNCHANGED <<final, plans>> /\ Rests
    BY <1>2, <2>1 DEF Record, KeptStep
  <2> QED BY <1>0, <2>1, <2>2, <2>3, PlacesKept
<1>3. CASE WorkStep \/ LostStep
  <2>1. PICK m, q : (Works(m) \/ WritesOff(m)) /\ Record(m, q)
    BY <1>3 DEF WorkStep, LostStep
  <2>2. AllEarned'
    BY <1>0, <2>1, WorkNotComplete, EarnedKept
  <2>3. UNCHANGED <<final, plans>> /\ pc' \notin Places /\ Rests
    BY <1>3, <2>1 DEF Record, WorkStep, LostStep, Rests
  <2> QED BY <1>0, <2>2, <2>3, PlacesKept
<1>4. CASE NewStep \/ Begins
  <2>1. /\ UNCHANGED <<final, plans>> /\ Saves' = Saves
        /\ mem' = EmptyBatch(lastId') /\ disk'[lastId'].batch = mem'
        /\ \A b \in Batches : b # lastId' => disk'[b] = disk[b]
    BY <1>0, <1>4, Created DEF NewStep, Begins, Saves
  <2>2. mem'.status # "COMPLETE" /\ ~AllApproved(mem')
    BY <2>1 DEF EmptyBatch, AllApproved
  <2>3. CompleteOnlyIfAudited'
    BY <1>0, <2>1, <2>2 DEF AllEarned, CompleteOnlyIfAudited
  <2>4. pc' \notin Places \ {"newBatch", "consume"}
    BY <1>4 DEF NewStep, Begins, Places
  <2> QED BY <2>1, <2>2, <2>3, <2>4 DEF VerdictInv, Places
<1>5. CASE SavesPlan
  <2>1. mem.id \in Batches
    BY <1>0, <1>5 DEF SavesPlan, AllApproved, StateInv, BatchOK, BatchType, Batches, NoBatch
  <2>2. /\ Saves' = Saves \cup {mem.id} /\ UNCHANGED <<mem, disk, final>>
        /\ pc' = "planSaved" /\ AllApproved(mem)
    BY <1>0, <1>5, <2>1, PlanAdded DEF SavesPlan
  <2>3. CompleteOnlyIfAudited'
    BY <1>0, <2>2 DEF AllEarned, CompleteOnlyIfAudited, Saves
  <2>4. mem'.status = "COMPLETE" => Earned(mem)'
    BY <1>0, <2>2 DEF AllEarned, Earned
  <2> QED BY <2>2, <2>3, <2>4 DEF VerdictInv
<1>6. CASE Refuses
  <2>1. PICK m : /\ Keeps(m) /\ m.status # "COMPLETE"
                 /\ (\E q : Record(m, q)) \/ (mem' = m /\ UNCHANGED <<phase, durable>>)
    BY <1>6 DEF Refuses
  <2>2. mem' = m /\ UNCHANGED <<final, plans>>
    BY <2>1 DEF Record, durable
  <2>3. CompleteOnlyIfAudited'
    <3>1. CASE \E q : Record(m, q)
      BY <1>0, <2>1, <3>1, EarnedKept DEF Keeps, AllEarned
    <3>2. CASE UNCHANGED <<phase, durable>>
      BY <1>0, <3>2 DEF AllEarned, CompleteOnlyIfAudited, durable
    <3> QED BY <2>1, <3>1, <3>2
  <2>4. AllApproved(mem') /\ mem'.status # "COMPLETE"
    BY <1>6, <2>1, <2>2 DEF Refuses, Keeps, AllApproved
  <2>5. pc' \in {"needsFix", "blocked"}
    BY <1>6 DEF Refuses
  <2> QED BY <2>3, <2>4, <2>5 DEF VerdictInv
<1>7. CASE SaveRefusal
  <2>1. /\ mem.status # "COMPLETE" /\ UNCHANGED <<mem, plans>> /\ pc' = "none"
        /\ disk' = Saved(mem, phase)
        /\ \E v \in Verdicts : final' = [final EXCEPT ![mem.id] = v]
    BY <1>7 DEF VerdictInv, SaveRefusal, WorkerEnds, Verdicts
  <2>2. mem.id \in Batches
    BY <1>0, <1>7 DEF SaveRefusal, VerdictInv, AllApproved, StateInv, BatchOK, BatchType,
                      Batches, NoBatch
  <2>3. disk' = [disk EXCEPT ![mem.id] = [phase |-> phase, batch |-> mem]]
    BY <2>1, <2>2, PipelineAssumption DEF Saved, Batches, NoBatch
  <2>4. CompleteOnlyIfAudited'
    <3> SUFFICES ASSUME NEW b \in Batches, disk'[b].batch.status = "COMPLETE"
                 PROVE  /\ AllApproved(disk'[b].batch) /\ final'[b] = "PASS"
                        /\ b \in {plans'[i] : i \in 1..Len(plans')}
      BY DEF CompleteOnlyIfAudited, AllApproved
    <3>1. b # mem.id
      BY <1>0, <2>1, <2>2, <2>3
    <3>2. disk'[b] = disk[b] /\ final'[b] = final[b]
      BY <1>0, <2>1, <2>3, <3>1 DEF BookInv
    <3> QED BY <1>0, <2>1, <3>2 DEF AllEarned, CompleteOnlyIfAudited
  <2> QED BY <2>1, <2>4 DEF VerdictInv
<1>8. CASE SaveVerdict
  <2>1. /\ AllApproved(mem) /\ mem.id \in Saves /\ UNCHANGED <<mem, plans, disk>>
        /\ pc' = "auditSaved" /\ final' = [final EXCEPT ![mem.id] = "PASS"]
    BY <1>8 DEF VerdictInv, SaveVerdict, GoOn
  <2>2. mem.id \in Batches /\ Saves' = Saves
    BY <1>0, <2>1 DEF AllApproved, StateInv, BatchOK, BatchType, Batches, NoBatch, Saves
  <2>3. final'[mem.id] = "PASS" /\ \A b \in Batches : final[b] = "PASS" => final'[b] = "PASS"
    BY <1>0, <2>1, <2>2 DEF BookInv
  <2>4. CompleteOnlyIfAudited'
    BY <1>0, <2>1, <2>3 DEF AllEarned, CompleteOnlyIfAudited
  <2> QED BY <2>1, <2>2, <2>3, <2>4 DEF VerdictInv, Earned
<1>9. CASE Completes
  <2>1. PICK m : m = WithStatus(mem, "COMPLETE")
    OBVIOUS
  <2>2. PICK q : Record(m, q)
    BY <1>9, <2>1 DEF Completes
  <2>3. AllApproved(mem) /\ mem.id \in Saves /\ final[mem.id] = "PASS"
    BY <1>9 DEF Completes, VerdictInv
  <2>4. Of(m) /\ AllApproved(m)
    BY <1>0, <2>1, <2>3 DEF Of, BatchType, WithStatus, AllApproved, BatchStatuses
  <2>5. mem.id \in Batches /\ mem.id # NoBatch
    BY <1>0, <2>3, PipelineAssumption
       DEF AllApproved, StateInv, BatchOK, BatchType, Batches, NoBatch
  <2>6. /\ mem' = m /\ UNCHANGED <<final, plans>> /\ Saves' = Saves
        /\ disk'[mem.id] = [phase |-> q, batch |-> m]
        /\ \A b \in Batches : b # mem.id => disk'[b] = disk[b]
    BY <1>0, <2>2, <2>4, <2>5, Rowed DEF Saves
  <2>7. CompleteOnlyIfAudited'
    BY <1>0, <2>3, <2>4, <2>6 DEF AllEarned, CompleteOnlyIfAudited, Saves
  <2>8. Earned(mem)' /\ pc' \notin Places
    BY <1>9, <2>3, <2>4, <2>6 DEF Earned, Of, Completes
  <2> QED BY <2>7, <2>8 DEF VerdictInv, Places
<1>10. CASE Leaves
  <2>1. Keeps(mem)
    BY <1>0, StatusKept
  <2>2. AllEarned'
    <3>1. CASE \E q : Record(mem, q)
      BY <1>0, <2>1, <3>1, EarnedKept DEF Keeps, AllEarned, Earned
    <3>2. CASE UNCHANGED <<phase, mem, durable>>
      BY <1>0, <3>2 DEF AllEarned, CompleteOnlyIfAudited, Earned, Saves, durable
    <3> QED BY <1>10, <3>1, <3>2 DEF Leaves
  <2>3. pc' = "newBatch"
    BY <1>10 DEF Leaves
  <2> QED BY <2>2, <2>3 DEF AllEarned, VerdictInv
<1>11. CASE ConsumePlan
  <2>1. /\ UNCHANGED <<disk, final, plans>> /\ pc' = "saveTasks"
        /\ mem'.status = mem.status /\ mem'.id = mem.id /\ mem'.task = mem.task /\ mem'.planned
    BY <1>0, <1>11 DEF ConsumePlan, Planned, GoOn, BatchType
  <2> QED BY <1>0, <2>1 DEF VerdictInv, AllEarned, CompleteOnlyIfAudited, Earned, AllApproved, Saves
<1>12. CASE Crash
  <2>1. UNCHANGED <<disk, final, plans, lastId>> /\ pc' = "none" /\ mem' = Restored.batch
    BY <1>12 DEF Crash, durable
  <2>2. mem'.status # "COMPLETE"
    <3>1. CASE Restorable = {}
      BY <2>1, <3>1 DEF Restored, Absent, EmptyBatch
    <3>2. CASE Restorable # {}
      <4>1. Restorable \in SUBSET (1..lastId) /\ lastId \in Nat
        BY <1>0, PipelineAssumption DEF Restorable, StateInv
      <4>2. Newest(Restorable) \in Restorable
        BY <3>2, <4>1, NewestIsGreatest
      <4> QED BY <2>1, <3>2, <4>2 DEF Restored, Restorable, EndedStatuses
    <3> QED BY <3>1, <3>2
  <2>3. CompleteOnlyIfAudited'
    BY <1>0, <2>1 DEF AllEarned, CompleteOnlyIfAudited
  <2> QED BY <2>1, <2>2, <2>3 DEF VerdictInv
<1> QED BY <1>1, <1>2, <1>3, <1>4, <1>5, <1>6, <1>7, <1>8, <1>9, <1>10, <1>11, <1>12
        DEF Ordinary, Special

-----------------------------------------------------------------------------
(* The task under work while its prompt is out *)

\* A prompt goes out with the task under work in the state it is for.
LEMMA PromptSent ==
  ASSUME IInv, Prompts PROVE PromptInv'
<1>0. StateInv /\ pc = "gate" /\ pc' = "prompt" /\ op' = op /\ StateInv' /\ mem \in BatchType
  <2>1. IInv'
    BY SendPlanStep, SendBuildStep, SendAuditStep, SendFixStep, SendFinalStep DEF Prompts
  <2> QED BY <2>1 DEF IInv, StateInv, BatchOK, Prompts, SendPlan, SendBuild, SendAudit, SendFix,
                      SendFinal, Sends, GoOn
<1>1. CASE SendPlan \/ SendFinal
  BY <1>0, <1>1 DEF SendPlan, SendFinal, MayPlan, MayFinal, PromptInv
<1>2. ASSUME HasWork, NEW s \in {"RUNNING", "RUNNING_FIX"},
             mem' = Running(WithTask(mem, Cur, s))
      PROVE  mem'.task[Cur'] = s
  <2>1. Cur \in Tasks /\ mem.planned
    BY <1>0, <1>2, CurIsNext
  <2>2. mem'.task = [mem.task EXCEPT ![Cur] = s] /\ mem'.planned
    BY <1>0, <1>2, <2>1 DEF Running, WithTask, BatchType
  <2>3. Cur' = Cur
    BY <1>0, <1>2, <2>2, StillUndone DEF TaskStates
  <2> QED BY <1>0, <2>1, <2>2, <2>3 DEF BatchType
<1>3. CASE SendBuild
  BY <1>0, <1>2, <1>3 DEF SendBuild, MayBuild, Sends, Record, PromptInv
<1>4. CASE SendFix
  BY <1>0, <1>2, <1>4 DEF SendFix, MayFix, Sends, Record, PromptInv
<1>5. CASE SendAudit
  <2>1. mem' = Audited(mem) /\ mem.task[Cur] = "AUDITING" /\ op = "AUDIT"
    BY <1>5 DEF SendAudit, MayAudit, Sends, Record
  <2>2. mem'.task = mem.task /\ mem'.planned = mem.planned
    BY <1>0, <2>1 DEF Audited, BatchType
  <2> QED BY <1>0, <2>1, <2>2, SameWork DEF PromptInv
<1> QED BY <1>1, <1>3, <1>4, <1>5 DEF Prompts

\* No other step sends a prompt, and none that leaves it out touches its task.
LEMMA PromptStep ==
  ASSUME IInv, PromptInv, [Next]_vars PROVE PromptInv'
<1>0. StateInv /\ StateInv'
  BY NextOK DEF IInv
<1>1. CASE Prompts
  BY <1>1, PromptSent
<1>2. CASE /\ UNCHANGED <<pc, op>>
           /\ mem' = mem \/ \E s \in {"STOPPED", "PAUSED", "RUNNING"} : mem' = WithStatus(mem, s)
  <2>1. mem'.task = mem.task /\ mem'.planned = mem.planned
    BY <1>0, <1>2 DEF WithStatus, StateInv, BatchOK, BatchType
  <2> QED BY <1>0, <1>2, <2>1, SameWork DEF PromptInv
<1>3. CASE pc' # "prompt"
  BY <1>3 DEF PromptInv
<1>4. CASE BetweenUnits \/ Gate
  <2>1. pc' # "prompt"
    BY <1>4 DEF BetweenUnits, EnterRun, StopAtBoundary, PauseAtBoundary, Dispatch, Claim, Gate,
                GateRefuses, GateBlocks, PreflightRefuses, WorkerEnds, ToHead, GoOn, RunIsReady
  <2> QED BY <1>3, <2>1
<1>5. CASE Returns
  <2>1. pc' # "prompt"
    BY <1>5 DEF Returns, Raises, PlanReturns, BuilderReturns, AuditReturns, FinalReturns, FailHard,
                FailTask, BlockTask, MustEnter, WorkerEnds, ToHead, GoOn
  <2> QED BY <1>3, <2>1
<1>6. CASE Commits \/ Continuous \/ Handoff
  <2>1. pc' # "prompt"
    BY <1>6 DEF Commits, AfterApproval, SaveRefusal, SaveVerdict, CompleteBatch, Continuous,
                LoopDecides, AfterPass, Handoff, LeaveCompleted, StartFromPlan, ConsumePlan,
                SaveTasks, HandoffEnds, FailHard, MustEnter, WorkerEnds, ToHead, GoOn
  <2> QED BY <1>3, <2>1
<1>7. CASE ClickStart \/ ClickContinue \/ ClickFinalAudit \/ ClickNextBatch
  <2>1. pc' # "prompt"
    BY <1>7 DEF ClickStart, ClickContinue, ClickFinalAudit, ClickNextBatch, StartWorker
  <2> QED BY <1>3, <2>1
<1>8. CASE ClickStop \/ ClickPause \/ UiActs \/ ClickResume
  <2>1. /\ UNCHANGED <<pc, op>>
        /\ mem' = mem \/ \E s \in {"STOPPED", "PAUSED", "RUNNING"} : mem' = WithStatus(mem, s)
    BY <1>8 DEF ClickStop, ClickPause, UiActs, ClickResume, RequestStop, RequestPause,
                RequestResume, Enter, Record, worker
  <2> QED BY <1>2, <2>1
<1>9. CASE ClickNewBatch \/ Crash
  <2>1. pc' # "prompt"
    BY <1>9 DEF ClickNewBatch, Crash, HoldsBatch, IsRunning, ClaimedAt, worker
  <2> QED BY <1>3, <2>1
<1>10. CASE UNCHANGED vars
  BY <1>2, <1>10 DEF vars, worker
<1> QED BY <1>1, <1>4, <1>5, <1>6, <1>7, <1>8, <1>9, <1>10 DEF Next, WorkerStep, Operator

-----------------------------------------------------------------------------
(* The invariant of the records *)

\* Nothing is recorded at the start.
LEMMA RecordsInit ==
  ASSUME Init PROVE RecordsInv
<1>0. MaxBatches \in Nat
  BY PipelineAssumption
<1>1. /\ mem.id = NoBatch /\ mem.status = "CREATED" /\ pc = "none" /\ lastId = 0
      /\ \A b \in Batches : disk[b] = Absent /\ disk[b].batch.status = "CREATED"
      /\ \A b \in Batches : usedBy[b] = NoBatch
      /\ Saves = {}
  BY DEF Init, EmptyBatch, Absent, Saves
<1>2. RowInv
  BY <1>1 DEF RowInv, RowIsCurrent
<1>3. PlanInv
  BY <1>0, <1>1 DEF PlanInv, PlanUsedOnce, NoBatch
<1>4. VerdictInv
  BY <1>1 DEF VerdictInv, CompleteOnlyIfAudited
<1>5. PromptInv
  BY <1>1 DEF PromptInv
<1> QED BY <1>2, <1>3, <1>4, <1>5 DEF RecordsInv

\* Every step of the program keeps it.
LEMMA RecordsNext ==
  ASSUME IInv, RecordsInv, [Next]_vars PROVE RecordsInv'
<1>1. Ordinary \/ Special
  BY Classified DEF RecordsInv
<1>2. RowInv' /\ PlanInv' /\ VerdictInv' /\ PromptInv'
  BY <1>1, RowStep, PlanStep, VerdictStep, PromptStep DEF RecordsInv
<1> QED BY <1>2 DEF RecordsInv

\* What the records hold is true of every reachable state.
THEOREM RecordsInvariance == Spec => []RecordsInv
<1>1. Init => RecordsInv
  BY RecordsInit
<1>2. IInv /\ RecordsInv /\ [Next]_vars => RecordsInv'
  BY RecordsNext
<1> QED BY <1>1, <1>2, Invariance, PTL DEF Spec

\* Away from the commits that take several transactions the row of the batch in
\* memory is what memory holds: a crash loses nothing but the step under way.
THEOREM RowCurrentCorrect == Spec => []RowIsCurrent
<1>1. RecordsInv => RowIsCurrent
  BY DEF RecordsInv, RowInv
<1> QED BY <1>1, RecordsInvariance, PTL

\* A row says COMPLETE only of a batch whose every task was approved, whose final
\* audit is recorded as a PASS and whose next plan is kept, wherever the process
\* died between the three transactions of a PASS.
THEOREM CompleteCorrect == Spec => []CompleteOnlyIfAudited
<1>1. RecordsInv => CompleteOnlyIfAudited
  BY DEF RecordsInv, VerdictInv
<1> QED BY <1>1, RecordsInvariance, PTL

\* A persisted plan becomes at most one batch, a later one than its source, and
\* no batch is made from two plans, however often START NEXT BATCH is pressed or
\* the process dies in the middle of the handoff.
THEOREM PlanOnceCorrect == Spec => []PlanUsedOnce
<1>1. RecordsInv => PlanUsedOnce
  BY DEF RecordsInv, PlanInv
<1> QED BY <1>1, RecordsInvariance, PTL

-----------------------------------------------------------------------------
(* The rows follow the ledger *)

Stage  == [b \in Batches |-> disk[b].batch.task]
Audits == [b \in Batches |-> disk[b].batch.rounds]

\* A record changes the ledger's entry of the batch in memory, and no other.
LEMMA LedgerEntry ==
  ASSUME StateInv, RowInv, NEW m, Of(m), NEW q, Record(m, q)
  PROVE  /\ mem.id = NoBatch => UNCHANGED <<Stage, Audits>>
         /\ mem.id # NoBatch =>
              /\ mem.id \in Batches
              /\ Stage[mem.id] = mem.task /\ Audits[mem.id] = mem.rounds
              /\ Stage' = [Stage EXCEPT ![mem.id] = m.task]
              /\ Audits' = [Audits EXCEPT ![mem.id] = m.rounds]
         /\ m.task = mem.task => UNCHANGED Stage
         /\ m.rounds = mem.rounds => UNCHANGED Audits
<1>1. CASE mem.id = NoBatch
  BY <1>1, Rowed DEF Stage, Audits
<1>2. CASE mem.id # NoBatch
  <2>1. /\ mem.id \in Batches /\ disk'[mem.id] = [phase |-> q, batch |-> m]
        /\ \A b \in Batches : b # mem.id => disk'[b] = disk[b]
    BY <1>2, Rowed
  <2>2. disk[mem.id].batch.task = mem.task /\ disk[mem.id].batch.rounds = mem.rounds
    BY <1>2 DEF RowInv
  <2>r. \A b \in Batches :
          /\ Stage'[b] = (IF b = mem.id THEN m.task ELSE Stage[b])
          /\ Audits'[b] = (IF b = mem.id THEN m.rounds ELSE Audits[b])
    BY <2>1 DEF Stage, Audits
  <2>f. /\ Stage = [b \in Batches |-> Stage[b]] /\ Stage' = [b \in Batches |-> Stage'[b]]
        /\ Audits = [b \in Batches |-> Audits[b]] /\ Audits' = [b \in Batches |-> Audits'[b]]
    BY DEF Stage, Audits
  <2>3. Stage' = [Stage EXCEPT ![mem.id] = m.task]
    BY <2>r, <2>f
  <2>4. Audits' = [Audits EXCEPT ![mem.id] = m.rounds]
    BY <2>r, <2>f
  <2>5. Stage[mem.id] = mem.task /\ Audits[mem.id] = mem.rounds
    BY <2>1, <2>2 DEF Stage, Audits
  <2>6. Stage \in [Batches -> [Tasks -> TaskStates]] /\ Audits \in [Batches -> [Tasks -> Nat]]
    BY DEF StateInv, RowOK, BatchOK, BatchType, Stage, Audits
  <2> QED BY <1>2, <2>1, <2>3, <2>4, <2>5, <2>6
<1> QED BY <1>1, <1>2

\* The task under work, in the words of the ledger: the one whose turn it is.
LEMMA LedgerTurn ==
  ASSUME StateInv, RowInv, HasWork, Clean
  PROVE  /\ mem.id \in Batches /\ mem.id # NoBatch
         /\ Cur \in Ledger!LTasks /\ Ledger!Turn(mem.id, Cur)
         /\ Stage[mem.id][Cur] = mem.task[Cur] /\ Audits[mem.id][Cur] = mem.rounds[Cur]
         /\ mem.task[Cur] # "APPROVED"
         /\ mem.rounds[Cur] \in Nat /\ fixes[mem.id][Cur] \in Nat
<1>1. /\ Cur \in Tasks /\ mem.id \in Batches /\ mem.task[Cur] # "APPROVED"
      /\ \A u \in 1..(Cur - 1) : mem.task[u] = "APPROVED"
  BY CurIsNext DEF Clean
<1>2. mem.id # NoBatch
  BY <1>1, PipelineAssumption DEF Batches, NoBatch
<1>3. disk[mem.id].batch.task = mem.task /\ disk[mem.id].batch.rounds = mem.rounds
  BY <1>2 DEF RowInv
<1>4. Cur \in Ledger!LTasks /\ Ledger!Turn(mem.id, Cur)
  BY <1>1, <1>3 DEF Ledger!LTasks, Ledger!Turn, Tasks
<1>5. Stage[mem.id] = mem.task /\ Audits[mem.id] = mem.rounds
  BY <1>1, <1>3 DEF Stage, Audits
<1>6. mem.rounds[Cur] \in Nat /\ fixes[mem.id][Cur] \in Nat
  BY <1>1 DEF StateInv, BatchOK, BatchType
<1> QED BY <1>1, <1>2, <1>4, <1>5, <1>6

\* Stage, audits and repairs together are what the ledger's variables stand for.
LEMMA LedgerStays ==
  ASSUME UNCHANGED <<Stage, Audits, fixes>> PROVE UNCHANGED Ledger!ledger
BY DEF Ledger!ledger, Stage, Audits

\* A move of one task is a Move of the ledger.
LEMMA LedgerMoves ==
  ASSUME NEW b \in Batches, NEW t, NEW s, Ledger!Turn(b, t),
         Stage' = [Stage EXCEPT ![b][t] = s]
  PROVE  Ledger!Move(b, t, Stage[b][t], s)
BY DEF Ledger!Move, Stage

\* What the worker records of the task under work is a step of the ledger.
LEMMA WorkFollows ==
  ASSUME IInv, RowInv, WorkStep PROVE [Ledger!LedgerNext]_(Ledger!ledger)
<1>0. StateInv /\ MaxAuditRounds \in Nat
  BY PipelineAssumption DEF IInv
<1>1. PICK m, q : Works(m) /\ Record(m, q)
  BY DEF WorkStep
<1>2. Of(m) /\ HasWork /\ Clean
  BY <1>1 DEF Works
<1>b. PICK b : b = mem.id
  OBVIOUS
<1>t. PICK t : t = Cur
  OBVIOUS
<1>3. /\ b \in Batches /\ b # NoBatch /\ t \in Ledger!LTasks /\ Ledger!Turn(b, t)
      /\ Stage[b][t] = mem.task[t] /\ Audits[b][t] = mem.rounds[t] /\ mem.task[t] # "APPROVED"
      /\ mem.rounds[t] \in Nat /\ fixes[b][t] \in Nat
  BY <1>0, <1>2, <1>b, <1>t, LedgerTurn
<1>4. /\ Stage[b] = mem.task /\ Audits[b] = mem.rounds
      /\ Stage' = [Stage EXCEPT ![b] = m.task] /\ Audits' = [Audits EXCEPT ![b] = m.rounds]
      /\ m.task = mem.task => UNCHANGED Stage
      /\ m.rounds = mem.rounds => UNCHANGED Audits
  BY <1>0, <1>1, <1>2, <1>3, <1>b, LedgerEntry
<1>5. CASE CountsAudit(m)
  <2>1. /\ UNCHANGED <<Stage, fixes>> /\ mem.task[t] = "AUDITING"
        /\ mem.rounds[t] < MaxAuditRounds
        /\ Audits' = [Audits EXCEPT ![b][t] = @ + 1]
    BY <1>0, <1>3, <1>4, <1>5, <1>t DEF CountsAudit, CapReached
  <2>2. Ledger!Audit(b, t)
    BY <1>3, <2>1 DEF Ledger!Audit, Stage, Audits
  <2> QED BY <1>3, <2>2 DEF Ledger!LedgerNext
<1>6. ASSUME NEW s \in TaskStates, MovesTo(m, s)
      PROVE  [Ledger!LedgerNext]_(Ledger!ledger)
  <2>1. /\ Allowed(s) /\ UNCHANGED Audits
        /\ Stage' = [Stage EXCEPT ![b][t] = s]
        /\ fixes' = IF s = "RUNNING_FIX" THEN [fixes EXCEPT ![b][t] = @ + 1] ELSE fixes
    BY <1>4, <1>6, <1>b, <1>t DEF MovesTo
  <2>2. Ledger!Move(b, t, mem.task[t], s)
    BY <1>3, <2>1, LedgerMoves
  <2>3. CASE s = "RUNNING" /\ mem.task[t] = "RUNNING"
    <3>1. m.task = mem.task
      BY <1>0, <1>6, <1>t, <2>3 DEF MovesTo, StateInv, BatchOK, BatchType
    <3> QED BY <1>4, <2>1, <2>3, <3>1, LedgerStays
  <2>4. CASE s = "RUNNING" /\ mem.task[t] = "PENDING"
    <3>1. Ledger!StartBuild(b, t)
      BY <2>1, <2>2, <2>4 DEF Ledger!StartBuild, Audits
    <3> QED BY <1>3, <3>1 DEF Ledger!LedgerNext
  <2>5. CASE s = "AUDITING"
    <3>1. Ledger!EndBuild(b, t) \/ Ledger!EndFix(b, t)
      BY <2>1, <2>2, <2>5, <1>t DEF Ledger!EndBuild, Ledger!EndFix, Audits, Allowed
    <3> QED BY <1>3, <3>1 DEF Ledger!LedgerNext
  <2>6. CASE s = "APPROVED"
    <3>1. Audits[b][t] > fixes[b][t] /\ mem.task[t] = "AUDITING" /\ UNCHANGED fixes
      BY <1>3, <1>b, <1>t, <2>1, <2>6 DEF Allowed
    <3>2. Ledger!Approve(b, t)
      BY <2>1, <2>2, <2>6, <3>1 DEF Ledger!Approve, Audits
    <3> QED BY <1>3, <3>2 DEF Ledger!LedgerNext
  <2>7. CASE s = "FIX_REQUIRED"
    <3>1. /\ Audits[b][t] > fixes[b][t] /\ Audits[b][t] < MaxAuditRounds
          /\ mem.task[t] = "AUDITING" /\ UNCHANGED fixes
      BY <1>0, <1>3, <1>b, <1>t, <2>1, <2>7 DEF Allowed, CapReached
    <3>2. Ledger!DemandFix(b, t)
      BY <2>1, <2>2, <2>7, <3>1 DEF Ledger!DemandFix, Audits
    <3> QED BY <1>3, <3>2 DEF Ledger!LedgerNext
  <2>8. CASE s = "RUNNING_FIX"
    <3>1. Ledger!StartFix(b, t)
      BY <2>1, <2>2, <2>8, <1>t DEF Ledger!StartFix, Audits, Allowed
    <3> QED BY <1>3, <3>1 DEF Ledger!LedgerNext
  <2>9. CASE s \in {"FAILED", "BLOCKED"}
    <3>1. Ledger!GiveUp(b, t)
      BY <1>3, <2>1, <2>9 DEF Ledger!GiveUp, Stage, Audits
    <3> QED BY <1>3, <3>1 DEF Ledger!LedgerNext
  <2> QED BY <2>1, <2>3, <2>4, <2>5, <2>6, <2>7, <2>8, <2>9, <1>t DEF Allowed
<1> QED BY <1>1, <1>5, <1>6 DEF Works

\* So is the write-off of the last task.
LEMMA LostFollows ==
  ASSUME IInv, RowInv, LostStep PROVE Ledger!LedgerNext
<1>0. StateInv
  BY DEF IInv
<1>1. PICK m, q : WritesOff(m) /\ Record(m, q)
  BY DEF LostStep
<1>b. PICK b : b = mem.id
  OBVIOUS
<1>2. b \in Batches /\ b # NoBatch
  BY <1>0, <1>1, <1>b, PipelineAssumption DEF WritesOff, StateInv, BatchOK, BatchType, Batches, NoBatch
<1>3. /\ Stage[b] = mem.task /\ Stage' = [Stage EXCEPT ![b] = m.task]
      /\ UNCHANGED <<Audits, fixes>>
  BY <1>0, <1>1, <1>2, <1>b, LedgerEntry DEF WritesOff, LostStep
<1>4. CASE m.task = [mem.task EXCEPT ![TasksPerBatch] = "FAILED"]
  <2>1. Stage' = [Stage EXCEPT ![b][TasksPerBatch] = "FAILED"]
    BY <1>3, <1>4
  <2>2. Ledger!WriteOff(b)
    BY <1>3, <2>1 DEF Ledger!WriteOff, Stage, Audits
  <2> QED BY <1>2, <2>2 DEF Ledger!LedgerNext
<1>5. ASSUME HasWork, Clean, NEW s \in {"FAILED", "AUDITING", "FIX_REQUIRED"}, Allowed(s),
             m.task = [mem.task EXCEPT ![Cur] = s, ![TasksPerBatch] = "FAILED"]
      PROVE  Ledger!LedgerNext
  <2>t. PICK t : t = Cur
    OBVIOUS
  <2>1. /\ t \in Ledger!LTasks /\ Ledger!Turn(b, t)
        /\ Stage[b][t] = mem.task[t] /\ mem.task[t] # "APPROVED"
    BY <1>0, <1>5, <1>b, <2>t, LedgerTurn
  <2>2. Stage' = [Stage EXCEPT ![b][t] = s, ![b][TasksPerBatch] = "FAILED"]
    BY <1>2, <1>3, <1>5, <2>t DEF Stage
  <2>3. /\ s = "AUDITING"     => Stage[b][t] \in {"RUNNING", "RUNNING_FIX"}
        /\ s = "FIX_REQUIRED" => Stage[b][t] = "AUDITING"
        /\ s = "FAILED"       => Stage[b][t] # "APPROVED"
    BY <1>5, <2>1, <2>t DEF Allowed
  <2>4. Ledger!WriteOff(b)
    <3>1. /\ Stage[b][t] = disk[b].batch.task[t] /\ UNCHANGED <<Audits, fixes>>
      BY <1>2, <1>3 DEF Stage
    <3> QED BY <2>1, <2>2, <2>3, <3>1 DEF Ledger!WriteOff, Stage, Audits
  <2> QED BY <1>2, <2>4 DEF Ledger!LedgerNext
<1> QED BY <1>1, <1>4, <1>5 DEF WritesOff

\* A new batch takes the place of an empty row.
LEMMA NewFollows ==
  ASSUME StateInv, RowInv, RequestStart PROVE UNCHANGED <<Stage, Audits>>
<1>1. /\ lastId' \in Batches /\ disk'[lastId'].batch = EmptyBatch(lastId')
      /\ \A b \in Batches : b # lastId' => disk'[b] = disk[b]
      /\ lastId' > lastId
  BY Created
<1>2. disk[lastId'].batch = EmptyBatch(NoBatch)
  BY <1>1 DEF RowInv, Absent
<1>3. \A b \in Batches : /\ disk'[b].batch.task = disk[b].batch.task
                         /\ disk'[b].batch.rounds = disk[b].batch.rounds
  BY <1>1, <1>2 DEF EmptyBatch
<1> QED BY <1>3 DEF Stage, Audits

\* Every other step leaves the ledger alone.
LEMMA RecordsFollow ==
  ASSUME IInv, RowInv, Ordinary \/ Special PROVE [Ledger!LedgerNext]_(Ledger!ledger)
<1>0. StateInv
  BY DEF IInv
<1>1. CASE UNCHANGED <<disk, fixes>>
  BY <1>1, LedgerStays DEF Stage, Audits
<1>2. CASE UNCHANGED fixes /\ \E m, q : Of(m) /\ m.task = mem.task /\ m.rounds = mem.rounds
                                         /\ Record(m, q)
  BY <1>0, <1>2, LedgerEntry, LedgerStays
<1>3. CASE Quiet \/ SavesPlan \/ SaveVerdict \/ ConsumePlan \/ Crash
  BY <1>1, <1>3 DEF Quiet, SavesPlan, SaveVerdict, ConsumePlan, Crash, durable
<1>4. CASE KeptStep
  BY <1>2, <1>4 DEF KeptStep, Keeps
<1>5. CASE WorkStep
  BY <1>5, WorkFollows
<1>6. CASE LostStep
  BY <1>6, LostFollows
<1>7. CASE NewStep \/ Begins
  <2>1. UNCHANGED <<Stage, Audits>> /\ UNCHANGED fixes
    BY <1>0, <1>7, NewFollows DEF NewStep, Begins
  <2> QED BY <2>1, LedgerStays
<1>8. CASE Refuses
  BY <1>1, <1>2, <1>8 DEF Refuses, Keeps, durable
<1>9. CASE SaveRefusal
  <2>1. disk' = Saved(mem, phase) /\ UNCHANGED fixes
    BY <1>9 DEF SaveRefusal
  <2>2. mem.id # NoBatch => mem.id \in Batches
    BY <1>0, PipelineAssumption DEF StateInv, BatchOK, BatchType, Batches, NoBatch
  <2>3. \A b \in Batches : /\ disk'[b].batch.task = disk[b].batch.task
                           /\ disk'[b].batch.rounds = disk[b].batch.rounds
    BY <1>0, <2>1, <2>2 DEF Saved, RowInv, StateInv
  <2> QED BY <2>1, <2>3, LedgerStays DEF Stage, Audits
<1>10. CASE Completes
  <2>1. PICK q : Record(WithStatus(mem, "COMPLETE"), q)
    BY <1>10 DEF Completes
  <2>2. /\ Of(WithStatus(mem, "COMPLETE")) /\ WithStatus(mem, "COMPLETE").task = mem.task
        /\ WithStatus(mem, "COMPLETE").rounds = mem.rounds
    BY <1>0 DEF Of, StateInv, BatchOK, BatchType, WithStatus, BatchStatuses
  <2> QED BY <1>2, <1>10, <2>1, <2>2 DEF Completes
<1>11. CASE Leaves
  <2>1. Of(mem)
    BY <1>0 DEF Of, StateInv, BatchOK
  <2> QED BY <1>1, <1>2, <1>11, <2>1 DEF Leaves, durable
<1> QED BY <1>3, <1>4, <1>5, <1>6, <1>7, <1>8, <1>9, <1>10, <1>11 DEF Ordinary, Special

\* The rows start as the ledger does.
LEMMA LedgerStarts ==
  ASSUME Init PROVE Ledger!LedgerInit
BY DEF Init, Absent, EmptyBatch, Ledger!LedgerInit, Ledger!LTasks, Tasks

\* What can be read of the tasks in the database follows the life of a task that
\* TaskLedger describes, through stops, pauses, resumes, unexpected errors and
\* crashes between any two steps: the executor implements the ledger.
THEOREM RowsFollowLedger == Spec => ImplementsLedger
<1>1. Init => Ledger!LedgerInit
  BY LedgerStarts
<1>2. IInv /\ RecordsInv /\ [Next]_vars => [Ledger!LedgerNext]_(Ledger!ledger)
  BY Classified, RecordsFollow DEF RecordsInv
<1> QED BY <1>1, <1>2, Invariance, RecordsInvariance, PTL
        DEF Spec, ImplementsLedger, Ledger!LedgerSpec
=============================================================================
