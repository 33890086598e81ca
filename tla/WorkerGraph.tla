------------------------------ MODULE WorkerGraph ------------------------------
(***************************************************************************)
(* One attempt of a run as the worker executes it: the LangGraph nodes from *)
(* hydrate_input to send_finalize, the callbacks they make to the agent     *)
(* API, and what of the API, the client and the editor they depend on.      *)
(*                                                                         *)
(* Grain of atomicity.  The worker awaits every callback, so between two of *)
(* them the client may cancel, the editor may acknowledge and the watchdog  *)
(* may close the run: one action per callback, which is also one request    *)
(* handler of the API (see RunLifecycle), followed by the node's code up to *)
(* the next callback.  `at' names the next callback as <<node, step>>.      *)
(* Nodes without a callback are folded into the action before them.         *)
(***************************************************************************)
EXTENDS Naturals, Sequences, FiniteSetsExt

CONSTANTS
  MaxPrior,      \* bound: mutations an earlier attempt left in the ledger
  MaxMutations,  \* bound: rows of the run's ledger
  Batches        \* the stages emitSkeletonMutations may return, in order

ASSUME BoundsAssumption == MaxPrior \in Nat /\ MaxMutations \in Nat
ASSUME BatchesAssumption ==
  Batches \subseteq Seq({"foundation", "photo", "copy", "polish"}) \ {<<>>}

VARIABLES
  run,           \* the run row, as this attempt's callbacks find it
  ledger,        \* mutation rows in seq order: [own, kind, dependsOn, ack, evidence]
  at,            \* the worker's next callback
  stop,          \* cooperativeStopRequested
  verdict,       \* ruleJudgeVerdict.recommendation
  readiness,     \* representativeReadiness.overallStatus
  judge,         \* judgePlan.recommendation
  batch,         \* skeletonBatch.proposals, by their stageLabel
  stage,         \* currentStageIndex, from 1
  mutation,      \* seq of the row of currentMutationId, 0 when it is null
  lastAck,       \* lastMutationAck
  assigned,      \* assignedSeqs
  history,       \* seqs of the rows with a record in stageAckHistory
  refineAttempt,
  draft          \* finalizeDraft.request

backendVars == <<run, ledger>>
planVars == <<verdict, readiness>>
stageVars == <<batch, stage>>
ackVars == <<mutation, lastAck, assigned, history>>
vars == <<backendVars, at, stop, planVars, judge, stageVars, ackVars,
          refineAttempt, draft>>

-------------------------------------------------------------------------------
Kinds == {"foundation", "photo", "copy", "polish", "refine", "save"}
Rows == [own: BOOLEAN, kind: Kinds, dependsOn: Nat,
         ack: {"none", "acked", "rejected"}, evidence: BOOLEAN]

NoAck == [status |-> "null", seq |-> 0, evidence |-> FALSE]
Cancelled == [status |-> "cancelled", seq |-> 0, evidence |-> FALSE]
AckStatuses == {"null", "acked", "rejected", "timed_out", "cancelled"}

CompletedStatuses == {"completed", "completed_with_warning"}
FinalStatuses ==
  CompletedStatuses \cup {"save_failed_after_apply", "failed", "cancelled"}

NoDraft == [final |-> "none", lastAcked |-> 0, range |-> {}, created |-> {}]

\* Acknowledgements and drafts of a run whose ledger has n rows.
Acks(n) == [status: AckStatuses, seq: 0 .. n, evidence: BOOLEAN]
Drafts(n) == [final: FinalStatuses \cup {"none"}, lastAcked: 0 .. n,
              range: SUBSET Nat, created: SUBSET (1 .. n)]

\* The callbacks of the planning nodes, and which may follow which: a recovery
\* log, a planner fallback and the source logs depend on data left out, and so
\* does whether the planner had a draft to persist.
PlanningPath ==
  LET hydrate(step) == <<"hydrate_input", step>>
      intent(step)  == <<"plan_intent_draft", step>>
      select(step)  == <<"persist_selection_artifacts", step>>
  IN
  ({hydrate("event"), hydrate("recovery_log")}
      \X {intent("fallback_log"), intent("draft_log"), <<"normalize_intent", "log">>})
  \cup
  {<<hydrate("heartbeat"), hydrate("event")>>,
   <<hydrate("event"), hydrate("recovery_log")>>,
   <<intent("fallback_log"), intent("draft_log")>>,
   <<intent("draft_log"), <<"normalize_intent", "log">>>>,
   <<<<"normalize_intent", "log">>, <<"gate_scope", "log">>>>,
   <<<<"normalize_intent", "log">>, <<"build_template_prior_summary", "log">>>>,
   <<<<"gate_scope", "log">>, <<"gate_scope", "heartbeat">>>>,
   <<<<"build_template_prior_summary", "log">>, <<"build_search_profile", "log">>>>,
   <<<<"build_search_profile", "log">>, <<"assemble_candidates", "log">>>>,
   <<<<"build_search_profile", "log">>, select("source_log")>>,
   <<<<"build_search_profile", "log">>, select("selection_log")>>,
   <<<<"assemble_candidates", "log">>, <<"assemble_candidates", "heartbeat">>>>,
   <<select("source_log"), select("selection_log")>>}

\* Where a worker with nothing left to do ends: its graph ran through, or threw.
Ended == {<<"end", "done">>, <<"end", "thrown">>}

Points ==
  {edge[1] : edge \in PlanningPath} \cup {edge[2] : edge \in PlanningPath} \cup
  {<<"rule_judge", "log">>,
   <<"prepare_execution", "heartbeat">>, <<"prepare_execution", "event">>,
   <<"emit_stage", "log">>, <<"emit_stage", "photo_log">>, <<"emit_stage", "mutation">>,
   <<"await_stage_ack", "fail_fast_log">>, <<"decide_refine", "judge">>,
   <<"emit_refinement_patch", "heartbeat">>, <<"emit_refinement_patch", "log">>,
   <<"emit_refinement_patch", "mutation">>,
   <<"emit_save_stage", "log">>, <<"emit_save_stage", "mutation">>,
   <<"prepare_finalize", "heartbeat">>, <<"send_finalize", "finalize">>} \cup
  ({"await_stage_ack", "await_refinement_ack", "await_save_ack"}
     \X {"wait", "polling", "log"}) \cup Ended

TypeOK ==
  /\ run \in {"open", "cancel_requested", "cancelled", "closed", "superseded"}
  /\ ledger \in Seq(Rows)
  /\ at \in Points
  /\ stop \in BOOLEAN
  /\ verdict \in {"null", "keep", "refine", "refuse"}
  /\ readiness \in {"null", "met", "degraded", "failed"}
  /\ judge \in {"null", "keep", "refine", "warn_only"}
  /\ batch \in Batches \cup {<<>>}
  /\ stage \in Nat
  /\ mutation \in 0 .. Len(ledger)
  /\ lastAck \in Acks(Len(ledger))
  /\ assigned \subseteq 1 .. Len(ledger)
  /\ history \subseteq 1 .. Len(ledger)
  /\ refineAttempt \in {0, 1}
  /\ draft \in Drafts(Len(ledger))

\* What an earlier attempt left behind: mutations proposed and, since the run was
\* retried, none acknowledged when it was (RunLifecycle.CanRetry).
PriorRow == [own |-> FALSE, kind |-> "foundation", dependsOn |-> 0,
             ack |-> "none", evidence |-> FALSE]

Init ==
  /\ run = "open"
  /\ \E n \in 0 .. MaxPrior : ledger = [m \in 1 .. n |-> PriorRow]
  /\ at = <<"hydrate_input", "heartbeat">>
  /\ stop = FALSE
  /\ verdict = "null" /\ readiness = "null" /\ judge = "null"
  /\ batch = <<>> /\ stage = 1
  /\ mutation = 0 /\ lastAck = NoAck /\ assigned = {} /\ history = {}
  /\ refineAttempt = 0
  /\ draft = NoDraft

-------------------------------------------------------------------------------
(* What the API answers *)

\* findRunAndAttempt accepts the callback, and whether the answer carries
\* cancelRequested (and, for a heartbeat, stopAfterCurrentAction).
Served == run \in {"open", "cancel_requested"}
CancelRequested == run = "cancel_requested"

Own(m) == ledger[m].own
OwnRows == {m \in DOMAIN ledger : Own(m)}

\* mutationLedgerRepository.recordProposal: the row gets the run's next seq, and
\* keeps the dependsOnSeq the worker wrote.
Record(kind, dependsOn) ==
  /\ Len(ledger) < MaxMutations
  /\ ledger' = Append(ledger, [own |-> TRUE, kind |-> kind, dependsOn |-> dependsOn,
                               ack |-> "none", evidence |-> FALSE])

\* nextSequence; as a seeded fault, counted after the row is in the ledger.
CountedLate == Len(ledger) + 2
NextSeq == Len(ledger) + 1

AckOf(m) ==
  [status |-> ledger[m].ack, seq |-> m, evidence |-> ledger[m].evidence]

-------------------------------------------------------------------------------
(* phases/finalizeRun *)

\* Seeded fault: the stop flag is left out of the result.
StatusOfAck(stopped, ack) ==
  IF ack.status = "cancelled" THEN "cancelled"
  ELSE IF ack.status \in {"rejected", "timed_out"} THEN "failed"
  ELSE "completed"

\* What the stop flag and the last acknowledgement make of the run.
ObservedStatus(stopped, ack) ==
  IF stopped \/ ack.status = "cancelled" THEN "cancelled"
  ELSE IF ack.status \in {"rejected", "timed_out"} THEN "failed"
  ELSE "completed"

\* Seeded fault: completion claimed on any acknowledgement.
TrustAnyAck(final, warned, ack) ==
  IF final = "completed" /\ warned THEN "completed_with_warning" ELSE final

\* Completion needs the save evidence of the last acknowledgement.
DurableStatus(final, warned, ack) ==
  IF final # "completed" THEN final
  ELSE IF ~ack.evidence THEN "save_failed_after_apply"
  ELSE IF warned THEN "completed_with_warning"
  ELSE "completed"

SourceMutationRange == IF assigned = {} THEN {} ELSE Min(assigned) .. Max(assigned)

FinalizeDraft(final, ack) ==
  [final     |-> final,
   lastAcked |-> IF ack.status = "acked" THEN ack.seq ELSE 0,
   range     |-> SourceMutationRange,
   created   |-> IF final \in CompletedStatuses
                   THEN {m \in history : ledger[m].kind # "save"} ELSE {}]

\* buildCombinedWarningSummary, as whether there are warnings.
Warned ==
  \/ judge \in {"refine", "warn_only"}
  \/ judge \in {"null", "keep"} /\ verdict = "refine"
  \/ readiness = "degraded"

\* The rule judge's refusal or failed source readiness override the result.
Overridden == verdict = "refuse" \/ readiness = "failed"

-------------------------------------------------------------------------------
(* Planning nodes *)

\* shouldStopAfterCurrentAction
ObserveCancel == stop' = (stop \/ CancelRequested)

PlanningCallback ==
  /\ Served
  /\ \E edge \in PlanningPath : at = edge[1] /\ at' = edge[2]
  /\ ObserveCancel
  /\ UNCHANGED <<backendVars, planVars, judge, stageVars, ackVars, refineAttempt,
                 draft>>

\* gate_scope and buildSpringActivationFailureFinalizeDraft: the run is out of
\* scope, or the asset source cannot be used; failed, whatever the stop flag.
PlanningFails ==
  /\ Served
  /\ at \in {<<"gate_scope", "heartbeat">>, <<"assemble_candidates", "heartbeat">>}
  /\ ObserveCancel
  /\ draft' = FinalizeDraft("failed", NoAck)
  /\ at' = <<"send_finalize", "finalize">>
  /\ UNCHANGED <<backendVars, planVars, judge, stageVars, ackVars, refineAttempt>>

PersistSelection ==
  /\ Served
  /\ at = <<"persist_selection_artifacts", "selection_log">>
  /\ ObserveCancel
  /\ readiness' \in {"met", "degraded", "failed"}
  /\ at' = <<"rule_judge", "log">>
  /\ UNCHANGED <<backendVars, verdict, judge, stageVars, ackVars, refineAttempt,
                 draft>>

RuleJudge ==
  /\ Served
  /\ at = <<"rule_judge", "log">>
  /\ ObserveCancel
  /\ verdict' \in {"keep", "refine", "refuse"}
  /\ at' = IF verdict' = "refuse" THEN <<"prepare_finalize", "heartbeat">>
                                  ELSE <<"prepare_execution", "heartbeat">>
  /\ UNCHANGED <<backendVars, readiness, judge, stageVars, ackVars, refineAttempt,
                 draft>>

-------------------------------------------------------------------------------
(* Execution nodes *)

PrepareExecutionHeartbeat ==
  /\ Served
  /\ at = <<"prepare_execution", "heartbeat">>
  /\ ObserveCancel
  /\ at' = <<"prepare_execution", "event">>
  /\ UNCHANGED <<backendVars, planVars, judge, stageVars, ackVars, refineAttempt,
                 draft>>

\* The one place the stop flag is looked at before the canvas is touched.
PrepareExecution ==
  /\ Served
  /\ at = <<"prepare_execution", "event">>
  /\ ObserveCancel
  /\ IF stop' THEN /\ lastAck' = Cancelled
                   /\ at' = <<"decide_refine", "judge">>
                   /\ UNCHANGED batch
              ELSE /\ batch' \in Batches
                   /\ at' = <<"emit_stage", "log">>
                   /\ UNCHANGED lastAck
  /\ UNCHANGED <<backendVars, planVars, judge, stage, mutation, assigned, history,
                 refineAttempt, draft>>

\* A log answered with cancelRequested ends the stages with nothing proposed; as a
\* seeded fault, the stop is noted and the proposal made all the same.
GoOnToMutation(next) ==
  /\ stop' = (stop \/ CancelRequested)
  /\ at' = next
  /\ UNCHANGED lastAck

StopOrGoOn(next) ==
  IF CancelRequested
    THEN /\ stop' = TRUE
         /\ lastAck' = Cancelled
         /\ at' = <<"decide_refine", "judge">>
    ELSE /\ at' = next
         /\ UNCHANGED <<stop, lastAck>>

StageLog ==
  /\ Served
  /\ at = <<"emit_stage", "log">>
  /\ StopOrGoOn(IF batch[stage] = "photo" THEN <<"emit_stage", "photo_log">>
                                          ELSE <<"emit_stage", "mutation">>)
  /\ UNCHANGED <<backendVars, planVars, judge, stageVars, mutation, assigned,
                 history, refineAttempt, draft>>

PhotoLog ==
  /\ Served
  /\ at = <<"emit_stage", "photo_log">>
  /\ StopOrGoOn(<<"emit_stage", "mutation">>)
  /\ UNCHANGED <<backendVars, planVars, judge, stageVars, mutation, assigned,
                 history, refineAttempt, draft>>

\* The row is recorded and published either way; answered with cancelRequested,
\* the worker keeps no seq of it.
Emitted(afterward, stopped) ==
  IF CancelRequested
    THEN /\ stop' = TRUE
         /\ lastAck' = Cancelled
         /\ mutation' = 0
         /\ at' = stopped
         /\ UNCHANGED assigned
    ELSE /\ mutation' = NextSeq
         /\ assigned' = assigned \cup {NextSeq}
         /\ at' = afterward
         /\ UNCHANGED <<stop, lastAck>>

\* emitSkeletonMutations numbers the stages of a batch from 1, and the dependency
\* of each is the one before it.
EmitStage ==
  /\ Served
  /\ at = <<"emit_stage", "mutation">>
  /\ Record(batch[stage], stage - 1)
  /\ Emitted(<<"await_stage_ack", "wait">>, <<"decide_refine", "judge">>)
  /\ UNCHANGED <<run, planVars, judge, stageVars, history, refineAttempt, draft>>

-------------------------------------------------------------------------------
(* The long poll: waitForMutationAck, for the three nodes that await one *)

Awaiting == {"await_stage_ack", "await_refinement_ack", "await_save_ack"}

\* A stage and a save take a cancelled wait for a stop; a refinement does not.
Awaited(node, ack) ==
  /\ lastAck' = ack
  /\ stop' = (stop \/ (node # "await_refinement_ack" /\ ack.status = "cancelled"))
  /\ at' = <<node, "log">>

\* The request reads the run's status once; the wait needs no open run.
WaitForAck(node) ==
  /\ at = <<node, "wait">>
  /\ IF ledger[mutation].ack # "none"
       THEN Awaited(node, AckOf(mutation))
       ELSE IF run \in {"cancel_requested", "cancelled"}
              THEN Awaited(node, [status |-> "cancelled", seq |-> mutation,
                                  evidence |-> FALSE])
              ELSE at' = <<node, "polling">> /\ UNCHANGED <<stop, lastAck>>
  /\ UNCHANGED <<backendVars, planVars, judge, stageVars, mutation, assigned, history,
                 refineAttempt, draft>>

PollFindsAck(node) ==
  /\ at = <<node, "polling">>
  /\ ledger[mutation].ack # "none"
  /\ Awaited(node, AckOf(mutation))
  /\ UNCHANGED <<backendVars, planVars, judge, stageVars, mutation, assigned, history,
                 refineAttempt, draft>>

\* waitMs have passed; the acknowledgement may still come.
\*
\* Seeded fault: a poll that never gives up.
PollForever(node) == FALSE /\ UNCHANGED vars

PollTimesOut(node) ==
  /\ at = <<node, "polling">>
  /\ ledger[mutation].ack = "none"
  /\ Awaited(node, [status |-> "timed_out", seq |-> mutation, evidence |-> FALSE])
  /\ UNCHANGED <<backendVars, planVars, judge, stageVars, mutation, assigned, history,
                 refineAttempt, draft>>

-------------------------------------------------------------------------------
(* After a stage's acknowledgement *)

\* advance_after_ack and its edge, on the acknowledgement of the stage.
AdvanceAfterAck(ack) ==
  /\ mutation' = 0
  /\ IF ack.status = "acked"
       THEN /\ stage' = stage + 1
            /\ at' = IF stop' \/ stage = Len(batch) THEN <<"decide_refine", "judge">>
                                                    ELSE <<"emit_stage", "log">>
       ELSE /\ at' = <<"decide_refine", "judge">>
            /\ UNCHANGED stage

StageAckLog ==
  /\ Served
  /\ at = <<"await_stage_ack", "log">>
  /\ stop' = (stop \/ CancelRequested)
  /\ lastAck' = IF CancelRequested THEN Cancelled ELSE lastAck
  /\ IF lastAck'.status = "acked"
       THEN /\ history' = history \cup {mutation}
            /\ AdvanceAfterAck(lastAck')
       ELSE /\ at' = <<"await_stage_ack", "fail_fast_log">>
            /\ UNCHANGED <<history, mutation, stage>>
  /\ UNCHANGED <<backendVars, planVars, judge, batch, assigned, refineAttempt, draft>>

FailFastLog ==
  /\ Served
  /\ at = <<"await_stage_ack", "fail_fast_log">>
  /\ ObserveCancel
  /\ history' = history \cup {mutation}
  /\ AdvanceAfterAck(lastAck)
  /\ UNCHANGED <<backendVars, planVars, judge, batch, lastAck, assigned,
                 refineAttempt, draft>>

-------------------------------------------------------------------------------
(* Refinement nodes *)

CountRefineAttempt == refineAttempt' = 1

\* buildJudgePlan recommends a refinement in the first pass only.  Of its issues
\* it matters here whether there are any, and whether buildRefineDecision finds
\* operations for them.
Recommendations ==
  {"keep", "warn_only"} \cup (IF refineAttempt = 0 THEN {"refine"} ELSE {})

\* build_execution_scene_summary, build_judge_plan, decide_refine and its edge.
\*
\* Seeded fault: the stages are saved whatever became of the last of them.
MaySaveAnyway == ~stop
MaySave == lastAck.status = "acked" /\ ~stop

DecideRefine ==
  /\ at = <<"decide_refine", "judge">>
  /\ judge' \in Recommendations
  /\ \/ judge' = "refine" /\ at' = <<"emit_refinement_patch", "heartbeat">>
     \/ at' = IF MaySave THEN <<"emit_save_stage", "log">>
                         ELSE <<"prepare_finalize", "heartbeat">>
  /\ UNCHANGED <<backendVars, stop, planVars, stageVars, ackVars, refineAttempt,
                 draft>>

RefinementHeartbeat ==
  /\ Served
  /\ at = <<"emit_refinement_patch", "heartbeat">>
  /\ ObserveCancel
  /\ at' = <<"emit_refinement_patch", "log">>
  /\ UNCHANGED <<backendVars, planVars, judge, stageVars, ackVars, refineAttempt,
                 draft>>

\* emitRefinementMutations has a proposal only on top of an acknowledged mutation,
\* and then only if some layer to patch is known.
MayPatch == lastAck.status = "acked"

RefinementReady ==
  /\ Served
  /\ at = <<"emit_refinement_patch", "log">>
  /\ MayPatch
  /\ ObserveCancel
  /\ at' = <<"emit_refinement_patch", "mutation">>
  /\ UNCHANGED <<backendVars, planVars, judge, stageVars, ackVars, refineAttempt,
                 draft>>

NothingToRefine ==
  /\ Served
  /\ at = <<"emit_refinement_patch", "log">>
  /\ ObserveCancel
  /\ mutation' = 0
  /\ CountRefineAttempt
  /\ at' = <<"prepare_finalize", "heartbeat">>
  /\ UNCHANGED <<backendVars, planVars, judge, stageVars, lastAck, assigned, history,
                 draft>>

\* The stop flag the heartbeat and the log may have raised is not looked at.
EmitRefinement ==
  /\ Served
  /\ at = <<"emit_refinement_patch", "mutation">>
  /\ Record("refine", lastAck.seq)
  /\ Emitted(<<"await_refinement_ack", "wait">>, <<"prepare_finalize", "heartbeat">>)
  /\ IF CancelRequested THEN CountRefineAttempt ELSE UNCHANGED refineAttempt
  /\ UNCHANGED <<run, planVars, judge, stageVars, history, draft>>

RefinementAckLog ==
  /\ Served
  /\ at = <<"await_refinement_ack", "log">>
  /\ ObserveCancel
  /\ history' = history \cup {mutation}
  /\ mutation' = 0
  /\ CountRefineAttempt
  /\ at' = <<"decide_refine", "judge">>
  /\ UNCHANGED <<backendVars, planVars, judge, stageVars, lastAck, assigned, draft>>

-------------------------------------------------------------------------------
(* The save stage and finalization *)

SaveLog ==
  /\ Served
  /\ at = <<"emit_save_stage", "log">>
  /\ IF CancelRequested
       THEN /\ stop' = TRUE
            /\ lastAck' = Cancelled
            /\ mutation' = 0
            /\ at' = <<"prepare_finalize", "heartbeat">>
       ELSE /\ at' = <<"emit_save_stage", "mutation">>
            /\ UNCHANGED <<stop, lastAck, mutation>>
  /\ UNCHANGED <<backendVars, planVars, judge, stageVars, assigned, history,
                 refineAttempt, draft>>

EmitSave ==
  /\ Served
  /\ at = <<"emit_save_stage", "mutation">>
  /\ Record("save", lastAck.seq)
  /\ Emitted(<<"await_save_ack", "wait">>, <<"prepare_finalize", "heartbeat">>)
  /\ UNCHANGED <<run, planVars, judge, stageVars, history, refineAttempt, draft>>

\* A save acknowledged before a cancel is seen is reported as cancelled.
SaveAckLog ==
  /\ Served
  /\ at = <<"await_save_ack", "log">>
  /\ ObserveCancel
  /\ lastAck' = IF CancelRequested THEN Cancelled ELSE lastAck
  /\ history' = history \cup {mutation}
  /\ mutation' = 0
  /\ at' = <<"prepare_finalize", "heartbeat">>
  /\ UNCHANGED <<backendVars, planVars, judge, stageVars, assigned, refineAttempt,
                 draft>>

PrepareFinalize ==
  /\ Served
  /\ at = <<"prepare_finalize", "heartbeat">>
  /\ ObserveCancel
  /\ draft' = FinalizeDraft(
                IF Overridden THEN "failed"
                ELSE DurableStatus(ObservedStatus(stop', lastAck), Warned, lastAck),
                lastAck)
  /\ at' = <<"send_finalize", "finalize">>
  /\ UNCHANGED <<backendVars, planVars, judge, stageVars, ackVars, refineAttempt>>

\* finalizeRun binds the draft's status, or answers what a closed run already is.
SendFinalize ==
  /\ at = <<"send_finalize", "finalize">>
  /\ run # "superseded"
  /\ run' = IF Served
              THEN IF draft.final = "cancelled" THEN "cancelled" ELSE "closed"
              ELSE run
  /\ at' = <<"end", "done">>
  /\ UNCHANGED <<ledger, stop, planVars, judge, stageVars, ackVars, refineAttempt,
                 draft>>

-------------------------------------------------------------------------------
(* What else happens to the attempt *)

\* Every callback but the long poll is answered with 409 once the run is closed,
\* or the attempt is no longer its active one; so is a finalize after a retry.
CallbackRefused ==
  /\ at \notin Ended
  /\ at \notin Awaiting \X {"wait", "polling"}
  /\ IF at = <<"send_finalize", "finalize">> THEN run = "superseded" ELSE ~Served
  /\ at # <<"decide_refine", "judge">>
  /\ at' = <<"end", "thrown">>
  /\ UNCHANGED <<backendVars, stop, planVars, judge, stageVars, ackVars, refineAttempt,
                 draft>>

\* A node throws, the process dies, or an answer is lost: nothing is retried.
WorkerThrows ==
  /\ at \notin Ended
  /\ at' = <<"end", "thrown">>
  /\ UNCHANGED <<backendVars, stop, planVars, judge, stageVars, ackVars, refineAttempt,
                 draft>>

\* acceptCancel raises the fence.
CancelAccepted ==
  /\ run = "open"
  /\ run' = "cancel_requested"
  /\ UNCHANGED <<ledger, at, stop, planVars, judge, stageVars, ackVars, refineAttempt,
                 draft>>

\* The watchdog closes the run, or retries it with another attempt.
RunTaken ==
  /\ Served
  /\ run' \in {"closed", "superseded"} \cup
              (IF CancelRequested THEN {"cancelled"} ELSE {})
  /\ UNCHANGED <<ledger, at, stop, planVars, judge, stageVars, ackVars, refineAttempt,
                 draft>>

\* The editor applies or rejects a mutation it received, once, at any later time;
\* of a save it may or may not send the evidence.
EditorAcks(m) ==
  /\ m \in DOMAIN ledger
  /\ ledger[m].ack = "none"
  /\ \E verdictOfEditor \in {"acked", "rejected"}, evidence \in BOOLEAN :
       /\ evidence => ledger[m].kind = "save" /\ verdictOfEditor = "acked"
       /\ ledger' = [ledger EXCEPT ![m].ack = verdictOfEditor,
                                   ![m].evidence = evidence]
  /\ UNCHANGED <<run, at, stop, planVars, judge, stageVars, ackVars, refineAttempt,
                 draft>>

-------------------------------------------------------------------------------
Planning ==
  PlanningCallback \/ PlanningFails \/ PersistSelection \/ RuleJudge

Execution ==
  \/ PrepareExecutionHeartbeat \/ PrepareExecution
  \/ StageLog \/ PhotoLog \/ EmitStage \/ StageAckLog \/ FailFastLog

LongPoll ==
  \E node \in Awaiting : WaitForAck(node) \/ PollFindsAck(node) \/ PollTimesOut(node)

Refinement ==
  \/ DecideRefine \/ RefinementHeartbeat \/ RefinementReady \/ NothingToRefine
  \/ EmitRefinement \/ RefinementAckLog

Finalization ==
  SaveLog \/ EmitSave \/ SaveAckLog \/ PrepareFinalize \/ SendFinalize

Worker ==
  Planning \/ Execution \/ LongPoll \/ Refinement \/ Finalization \/ CallbackRefused

Environment ==
  \/ WorkerThrows \/ CancelAccepted \/ RunTaken
  \/ \E m \in 1 .. MaxMutations : EditorAcks(m)

Next == Worker \/ Environment

Spec == Init /\ [][Next]_vars

(***************************************************************************)
(* Fairness: a worker that is not dead makes its next callback, the API     *)
(* answers it, and the long poll gives up after waitMs.  Nothing is assumed *)
(* of the client, the watchdog and the editor.                              *)
(***************************************************************************)
FairSpec == Spec /\ WF_vars(Worker)

-------------------------------------------------------------------------------
(* What the attempt promises *)

\* A run is reported completed only if its draft is durable as the worker left it:
\* every mutation it published was acknowledged as applied, the last one is the save
\* and came with evidence, and the range and the layers it reports are exactly these
\* mutations (finalizeRun trusts the last acknowledgement and the seqs the graph
\* state kept).
CompletedIsSaved ==
  draft.final \in CompletedStatuses =>
    /\ OwnRows # {}
    /\ \A m \in OwnRows : ledger[m].ack = "acked"
    /\ ledger[Len(ledger)].kind = "save" /\ ledger[Len(ledger)].evidence
    /\ draft.range = OwnRows
    /\ draft.lastAcked = Len(ledger)
    /\ draft.created = {m \in OwnRows : ledger[m].kind # "save"}

\* A stop the worker has seen is reported as a cancel, or as the failure that
\* overrides the result, never as a completion or a lost save; and a cancel is
\* reported only of a run whose cancel was requested.
StopIsReported ==
  draft # NoDraft =>
    /\ stop => draft.final \in {"cancelled", "failed"}
    /\ draft.final = "cancelled" => run # "open"

\* Mutations are published in lockstep: none before the editor has applied all the
\* earlier ones of the attempt.
PublishedInLockstep ==
  [][Len(ledger') > Len(ledger) => \A m \in OwnRows : ledger[m].ack = "acked"]_ledger

\* After the worker has seen a stop it starts no stage and no save.
NoStageAfterStop ==
  [][stop /\ Len(ledger') > Len(ledger) => ledger'[Len(ledger')].kind = "refine"]_ledger

\* Every attempt comes to its end.
AttemptEnds == <>(at \in Ended)

(* What the documents say and the code does not keep (README, section 5) *)

\* A mutation is started only when the one it depends on has been acknowledged:
\* dependsOnSeq names an earlier mutation of the run that was applied.
DependencyAcked ==
  [][Len(ledger') > Len(ledger) =>
       LET row == ledger'[Len(ledger')] IN
         row.dependsOn # 0 =>
           /\ row.dependsOn \in OwnRows
           /\ ledger[row.dependsOn].ack = "acked"]_ledger

\* A run the worker closed as cancelled has no mutation left open.
CancelledLeavesNothingOpen ==
  at = <<"end", "done">> /\ draft.final = "cancelled" /\ run = "cancelled" =>
    \A m \in OwnRows : ledger[m].ack # "none"

\* A batch whose stages were all applied reaches the save stage unless the run was
\* stopped, refused or overridden.
AppliedIsSaved ==
  draft.final = "save_failed_after_apply" =>
    \E m \in OwnRows : ledger[m].kind = "save"

===============================================================================
