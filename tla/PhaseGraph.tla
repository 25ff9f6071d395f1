----------------------------- MODULE PhaseGraph -----------------------------
(***************************************************************************)
(* The phase graph of the pipeline (domain/state_machine.py): which phase  *)
(* may follow which.  It is data shared by the controller, the executor    *)
(* and the runners; every move of the pipeline is checked against it,      *)
(* except StateMachine.reset, the operator's escape hatch to IDLE.         *)
(***************************************************************************)

\* The seven phases in which a batch is being worked on; they are also the
\* phases a paused pipeline may resume into.
ActivePhases ==
  {"PLANNING_BATCH", "RUNNING_TASK", "AUDITING_TASK", "FIX_REQUIRED",
   "RUNNING_FIX", "READY_FOR_FINAL_AUDIT", "FINAL_AUDIT_RUNNING"}

Phases == ActivePhases \union {"IDLE", "BATCH_COMPLETE", "PAUSED", "BLOCKED", "FAILED"}

\* The moves of a batch that is being worked on.
WorkEdges ==
  {<<"PLANNING_BATCH", "RUNNING_TASK">>,
   <<"RUNNING_TASK", "AUDITING_TASK">>,
   <<"AUDITING_TASK", "FIX_REQUIRED">>,
   <<"AUDITING_TASK", "RUNNING_TASK">>,
   <<"AUDITING_TASK", "READY_FOR_FINAL_AUDIT">>,
   <<"FIX_REQUIRED", "RUNNING_FIX">>,
   <<"RUNNING_FIX", "AUDITING_TASK">>,
   <<"READY_FOR_FINAL_AUDIT", "FINAL_AUDIT_RUNNING">>,
   <<"FINAL_AUDIT_RUNNING", "BATCH_COMPLETE">>,
   <<"FINAL_AUDIT_RUNNING", "FIX_REQUIRED">>}

\* Into and out of the phases at rest, and of a pause.
RestEdges ==
  {<<"IDLE", "PLANNING_BATCH">>,
   <<"BATCH_COMPLETE", "IDLE">>, <<"BATCH_COMPLETE", "PLANNING_BATCH">>,
   <<"BLOCKED", "IDLE">>, <<"BLOCKED", "PLANNING_BATCH">>,
   <<"BLOCKED", "PAUSED">>, <<"BLOCKED", "FAILED">>,
   <<"PAUSED", "FAILED">>, <<"FAILED", "IDLE">>}

CanGoTo(p, q) ==
  \/ <<p, q>> \in WorkEdges \union RestEdges
  \/ p \in ActivePhases /\ q \in {"PAUSED", "BLOCKED", "FAILED"}
  \/ p = "PAUSED" /\ q \in ActivePhases

=============================================================================
