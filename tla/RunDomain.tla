------------------------------ MODULE RunDomain ------------------------------
(***************************************************************************)
(* The vocabulary of packages/domain: the status a run may have, the state *)
(* one of its attempts may have, and which of them are terminal.           *)
(***************************************************************************)

TerminalRunStatuses ==
  {"completed", "completed_with_warning", "save_failed_after_apply",
   "failed", "cancelled"}

\* The five statuses a worker's progress moves a run through.
ProgressStatuses ==
  {"planning", "executing", "awaiting_apply_ack", "saving", "finalizing"}

RunStatuses ==
  {"enqueue_pending", "planning_queued", "plan_ready", "cancel_requested"}
    \cup ProgressStatuses \cup TerminalRunStatuses

TerminalAttemptStates == {"succeeded", "failed", "cancelled"}

AttemptStates ==
  {"enqueued", "dequeued", "hydrating", "running", "awaiting_ack",
   "retry_waiting", "finalizing", "cancel_requested"} \cup TerminalAttemptStates

\* runFinalizeService.mapFinalStatusToAttemptState
AttemptStateOf(finalStatus) ==
  CASE finalStatus \in {"completed", "completed_with_warning"} -> "succeeded"
    [] finalStatus = "cancelled" -> "cancelled"
    [] OTHER -> "failed"

\* The SSE event finalizeRun publishes for a final status.
TerminalEventOf(finalStatus) ==
  CASE finalStatus = "failed" -> "run.failed"
    [] finalStatus = "cancelled" -> "run.cancelled"
    [] OTHER -> "run.completed"

TerminalEvents == {"run.completed", "run.failed", "run.cancelled"}

\* runRecoveryService.mapPhaseToRunStatus
StatusOfPhase(phase) ==
  CASE phase = "planning" -> "planning"
    [] phase = "executing" -> "executing"
    [] phase = "applying" -> "awaiting_apply_ack"
    [] phase = "saving" -> "saving"

Phases == {"planning", "executing", "applying", "saving"}
==============================================================================
