----------------------------- MODULE TaskLedger -----------------------------
(***************************************************************************)
(* What the pipeline promises about the tasks of a batch, as they can be   *)
(* read in the database at any time, after any crash: tasks are taken up   *)
(* one at a time and in order, each goes to the auditor after its build    *)
(* and after each fix, is approved only by an audit, is audited at most    *)
(* MaxAuditRounds times, and every fix answers an audit of its own.        *)
(***************************************************************************)
EXTENDS Naturals

CONSTANTS Batches, TasksPerBatch, MaxAuditRounds

VARIABLES
  stage,    \* stage[b][t]: where the task stands
  audits,   \* audits[b][t]: audits begun
  repairs   \* repairs[b][t]: fixes begun

ledger == <<stage, audits, repairs>>

LTasks == 1..TasksPerBatch

Stages == {"PENDING", "RUNNING", "AUDITING", "FIX_REQUIRED", "RUNNING_FIX",
           "APPROVED", "FAILED", "BLOCKED"}

LedgerInit ==
  /\ stage = [b \in Batches |-> [t \in LTasks |-> "PENDING"]]
  /\ audits = [b \in Batches |-> [t \in LTasks |-> 0]]
  /\ repairs = [b \in Batches |-> [t \in LTasks |-> 0]]

\* Every task before t is approved: t is the one that may be worked on.
Turn(b, t) == \A u \in 1..(t - 1) : stage[b][u] = "APPROVED"

Move(b, t, from, to) ==
  /\ stage[b][t] = from /\ Turn(b, t)
  /\ stage' = [stage EXCEPT ![b][t] = to]

StartBuild(b, t) == Move(b, t, "PENDING", "RUNNING") /\ UNCHANGED <<audits, repairs>>
EndBuild(b, t)   == Move(b, t, "RUNNING", "AUDITING") /\ UNCHANGED <<audits, repairs>>

\* An audit begins; one that was cut short by a crash counts.
Audit(b, t) ==
  /\ stage[b][t] = "AUDITING" /\ Turn(b, t) /\ audits[b][t] < MaxAuditRounds
  /\ audits' = [audits EXCEPT ![b][t] = @ + 1]
  /\ UNCHANGED <<stage, repairs>>

Approve(b, t) ==
  /\ audits[b][t] > repairs[b][t]
  /\ Move(b, t, "AUDITING", "APPROVED")
  /\ UNCHANGED <<audits, repairs>>

\* A fix is asked for only when the audit after it is still within the cap.
DemandFix(b, t) ==
  /\ audits[b][t] > repairs[b][t] /\ audits[b][t] < MaxAuditRounds
  /\ Move(b, t, "AUDITING", "FIX_REQUIRED")
  /\ UNCHANGED <<audits, repairs>>

StartFix(b, t) ==
  /\ Move(b, t, "FIX_REQUIRED", "RUNNING_FIX")
  /\ repairs' = [repairs EXCEPT ![b][t] = @ + 1]
  /\ UNCHANGED audits

EndFix(b, t) == Move(b, t, "RUNNING_FIX", "AUDITING") /\ UNCHANGED <<audits, repairs>>

\* A task that is not approved is given up.
GiveUp(b, t) ==
  /\ stage[b][t] # "APPROVED" /\ Turn(b, t)
  /\ \E s \in {"FAILED", "BLOCKED"} : stage' = [stage EXCEPT ![b][t] = s]
  /\ UNCHANGED <<audits, repairs>>

\* An unexpected error writes off the last task of the batch, whatever its
\* stage; the step of the task under work that it interrupts may show as well.
WriteOff(b) ==
  /\ \/ stage' = [stage EXCEPT ![b][TasksPerBatch] = "FAILED"]
     \/ \E t \in LTasks :
          /\ Turn(b, t)
          /\ \E s \in {"FAILED", "AUDITING", "FIX_REQUIRED"} :
               /\ s = "AUDITING"     => stage[b][t] \in {"RUNNING", "RUNNING_FIX"}
               /\ s = "FIX_REQUIRED" => stage[b][t] = "AUDITING"
               /\ s = "FAILED"       => stage[b][t] # "APPROVED"
               /\ stage' = [stage EXCEPT ![b][t] = s, ![b][TasksPerBatch] = "FAILED"]
  /\ UNCHANGED <<audits, repairs>>

LedgerNext ==
  \E b \in Batches :
    \/ WriteOff(b)
    \/ \E t \in LTasks :
         \/ StartBuild(b, t) \/ EndBuild(b, t)
         \/ Audit(b, t) \/ Approve(b, t) \/ DemandFix(b, t)
         \/ StartFix(b, t) \/ EndFix(b, t) \/ GiveUp(b, t)

LedgerSpec == LedgerInit /\ [][LedgerNext]_ledger
=============================================================================
