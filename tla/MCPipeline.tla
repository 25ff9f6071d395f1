----------------------------- MODULE MCPipeline -----------------------------
(***************************************************************************)
(* Model-checking instance of Pipeline, and the mapping under which it     *)
(* implements TaskLedger: the ledger is what the task rows say.            *)
(***************************************************************************)
EXTENDS Pipeline

Ledger == INSTANCE TaskLedger WITH
  stage   <- [b \in Batches |-> disk[b].batch.task],
  audits  <- [b \in Batches |-> disk[b].batch.rounds],
  repairs <- fixes

\* The rows of the database follow the life of a task that TaskLedger
\* describes, through crashes, restarts, stops and resumes.
ImplementsLedger == Ledger!LedgerSpec

\* Bounds the chains of batches to those where no batch was abandoned half way:
\* every batch but the newest is COMPLETE, or STOPPED before it had any task.
ChainOfBatches ==
  /\ \A b \in 1..lastId : disk[b].batch.status \notin {"FAILED", "BLOCKED", "PAUSED"}
  /\ \A b \in 1..(lastId - 1) :
       disk[b].batch.status = "COMPLETE" \/ ~disk[b].batch.planned
=============================================================================
