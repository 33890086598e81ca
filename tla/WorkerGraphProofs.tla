--------------------------- MODULE WorkerGraphProofs ---------------------------
(* The safety properties of WorkerGraph, for any batches and any bounds. *)
EXTENDS WorkerGraph, TLAPS

(***************************************************************************)
(* The inductive invariant                                                 *)
(***************************************************************************)
Staging == {"emit_stage"} \X {"log", "photo_log", "mutation"}
Saving == {"emit_save_stage"} \X {"log", "mutation"}
Polling == Awaiting \X {"wait", "polling"}
Judging == <<"decide_refine", "judge">>
Patching == <<"emit_refinement_patch", "mutation">>
Sending == <<"send_finalize", "finalize">>
Thrown == <<"end", "thrown">>

\* A mutation was published and its record in the history is still to be made.
InFlight == (Awaiting \X {"wait", "polling", "log"})
              \cup {<<"await_stage_ack", "fail_fast_log">>}

\* The nodes before the canvas is touched.
PlanningNodes ==
  {"hydrate_input", "plan_intent_draft", "normalize_intent", "gate_scope",
   "build_template_prior_summary", "build_search_profile", "assemble_candidates",
   "persist_selection_artifacts", "rule_judge", "prepare_execution"}

\* Where a stage of the batch is worked at.
InBatch == Staging \cup ({"await_stage_ack"} \X {"wait", "polling", "log", "fail_fast_log"})

AllApplied(S) == \A m \in S : ledger[m].ack = "acked"

\* The rows of the attempt are the last of the ledger; evidence comes with a save.
LedgerPart ==
  /\ \E p \in 0 .. Len(ledger) : OwnRows = (p + 1) .. Len(ledger)
  /\ \A m \in DOMAIN ledger :
       ledger[m].evidence => ledger[m].kind = "save" /\ ledger[m].ack = "acked"

\* What the graph state counts: the attempt's rows, unless a stop was seen; the
\* newest of them has no record before its acknowledgement was taken in.
CountPart ==
  /\ assigned # {} => /\ \E n \in assigned : \A m \in assigned : n <= m
                      /\ \E n \in assigned : \A m \in assigned : m <= n
  /\ ~stop => assigned = OwnRows
  /\ ~stop /\ at # Thrown =>
       history = OwnRows \ (IF at \in InFlight THEN {Len(ledger)} ELSE {})
  /\ at \in InFlight => mutation = Len(ledger) /\ mutation \in OwnRows

\* Nothing is published before there is a batch; then the index is one of its stages.
BatchPart ==
  /\ at[1] \in PlanningNodes => OwnRows = {} /\ stage = 1
  /\ at \in InBatch => batch \in Batches /\ stage \in DOMAIN batch

\* A last acknowledgement that is positive is the one of the newest row, and it says
\* that everything was applied; where it is out of date, something is in flight.
AckPart ==
  /\ lastAck.evidence => lastAck.status = "acked"
  /\ lastAck.status = "acked" /\ at \notin Polling \cup {Thrown} =>
       /\ lastAck.seq = Len(ledger) /\ lastAck.seq \in OwnRows
       /\ lastAck.evidence = ledger[lastAck.seq].evidence
       /\ AllApplied(OwnRows)
  /\ at \in Staging => AllApplied(OwnRows)
  /\ at \in InFlight => AllApplied(OwnRows \ {Len(ledger)})
  /\ at \in Saving \cup {Patching} => lastAck.status = "acked"

\* A stop has a cause, and stages and saves end with it.
StopPart ==
  /\ stop \/ lastAck.status = "cancelled" => run # "open"
  /\ at \in Staging \cup Saving => ~stop

\* The draft is made once, at the end.
DraftPart ==
  /\ draft # NoDraft => at \in Ended \cup {Sending}
  /\ CompletedIsSaved
  /\ StopIsReported

IInv ==
  /\ TypeOK /\ LedgerPart /\ CountPart /\ BatchPart /\ AckPart /\ StopPart /\ DraftPart

-------------------------------------------------------------------------------
(* The worker's steps that neither publish nor end *)

\* where the planning path leads
LEMMA PathPoints ==
  ASSUME NEW edge \in PlanningPath
  PROVE  /\ edge[1] \in Points /\ edge[2] \in Points
         /\ edge[1] \notin InFlight \cup InBatch \cup Saving \cup Ended
         /\ edge[2] \notin InFlight \cup InBatch \cup Saving
         /\ edge[1] \notin {Sending, Patching}
         /\ edge[2] # Patching
         /\ edge[1][1] \in PlanningNodes
<1>1. edge[1] \in Points
  BY Zenon DEF Points
<1>2. edge[2] \in Points
  BY Zenon DEF Points
<1>3. /\ edge[1] \notin InFlight \cup InBatch \cup Saving \cup Ended
      /\ edge[1] \notin {Sending, Patching}
  BY DEF PlanningPath, InFlight, InBatch, Saving, Ended, Sending, Patching, Staging,
         Awaiting
<1>4. /\ edge[2] \notin InFlight \cup InBatch \cup Saving
      /\ edge[2] # Patching
  BY DEF PlanningPath, InFlight, InBatch, Saving, Patching, Staging, Awaiting
<1>5. edge[1][1] \in PlanningNodes
  BY DEF PlanningPath, PlanningNodes
<1>. QED
  BY <1>1, <1>2, <1>3, <1>4, <1>5

\* there is no finalize draft before prepare_finalize, or a planning failure, made one
LEMMA NothingDrafted ==
  ASSUME IInv, at \notin Ended \cup {Sending}
  PROVE  draft = NoDraft
BY DEF IInv, DraftPart

\* Where the steps of the graph lead.
LEMMA NextPoints ==
  /\ <<"rule_judge", "log">> \in Points
  /\ <<"prepare_execution", "heartbeat">> \in Points
  /\ <<"prepare_execution", "event">> \in Points
  /\ \A step \in {"log", "photo_log", "mutation"} : <<"emit_stage", step>> \in Points
  /\ \A node \in Awaiting, step \in {"wait", "polling", "log"} : <<node, step>> \in Points
  /\ <<"await_stage_ack", "fail_fast_log">> \in Points
  /\ <<"decide_refine", "judge">> \in Points
  /\ \A step \in {"heartbeat", "log", "mutation"} :
       <<"emit_refinement_patch", step>> \in Points
  /\ \A step \in {"log", "mutation"} : <<"emit_save_stage", step>> \in Points
  /\ <<"prepare_finalize", "heartbeat">> \in Points
  /\ <<"send_finalize", "finalize">> \in Points
  /\ <<"end", "done">> \in Points /\ <<"end", "thrown">> \in Points
BY DEF Points, Awaiting, Ended

\* What a step leaves alone when it touches neither the backend nor the draft.
LEMMA QuietStep ==
  ASSUME IInv, at \notin Ended \cup {Sending}, UNCHANGED <<run, ledger, draft>>
  PROVE  LedgerPart' /\ DraftPart'
<1>1. LedgerPart'
  BY DEF IInv, LedgerPart, OwnRows, Own
<1>2. DraftPart'
  BY NothingDrafted DEF DraftPart, CompletedIsSaved, StopIsReported, NoDraft, CompletedStatuses
<1>. QED
  BY <1>1, <1>2

\* the acks a run of n mutations can give
LEMMA AckTypes ==
  ASSUME NEW n \in Nat
  PROVE  /\ NoAck \in Acks(n) /\ Cancelled \in Acks(n)
         /\ \A ack \in Acks(n) : ack \in Acks(n + 1)
         /\ \A m \in 0 .. n :
              /\ [status |-> "cancelled", seq |-> m, evidence |-> FALSE] \in Acks(n)
              /\ [status |-> "timed_out", seq |-> m, evidence |-> FALSE] \in Acks(n)
<1>1. NoAck \in Acks(n) /\ Cancelled \in Acks(n)
  BY DEF Acks, NoAck, Cancelled, AckStatuses
<1>2. ASSUME NEW ack \in Acks(n) PROVE ack \in Acks(n + 1)
  BY DEF Acks
<1>3. ASSUME NEW m \in 0 .. n
      PROVE  /\ [status |-> "cancelled", seq |-> m, evidence |-> FALSE] \in Acks(n)
             /\ [status |-> "timed_out", seq |-> m, evidence |-> FALSE] \in Acks(n)
  BY DEF Acks, AckStatuses
<1>. QED
  BY <1>1, <1>2, <1>3

\* the fields of a row
LEMMA RowTypes ==
  ASSUME TypeOK, NEW m \in DOMAIN ledger
  PROVE  /\ m \in 1 .. Len(ledger) /\ Len(ledger) \in Nat
         /\ ledger[m] \in Rows
         /\ ledger[m].ack \in {"none", "acked", "rejected"}
         /\ ledger[m].evidence \in BOOLEAN
         /\ ledger[m].ack # "none" => AckOf(m) \in Acks(Len(ledger))
<1>1. m \in 1 .. Len(ledger) /\ Len(ledger) \in Nat /\ ledger[m] \in Rows
  BY DEF TypeOK
<1>2. ledger[m].ack \in {"none", "acked", "rejected"} /\ ledger[m].evidence \in BOOLEAN
  BY <1>1 DEF Rows
<1>3. ASSUME ledger[m].ack # "none"
      PROVE  AckOf(m) \in Acks(Len(ledger))
  <2>1. ledger[m].ack \in AckStatuses
    BY <1>2, <1>3 DEF AckStatuses
  <2>. QED
    BY <1>1, <1>2, <2>1 DEF AckOf, Acks
<1>. QED
  BY <1>1, <1>2, <1>3

\* planning stages nothing
LEMMA PlanningCallbackStep ==
  ASSUME IInv, PlanningCallback
  PROVE  IInv'
<1>. USE DEF PlanningCallback, ObserveCancel, backendVars, planVars, stageVars, ackVars
<1>1. PICK edge \in PlanningPath : at = edge[1] /\ at' = edge[2]
  BY DEF PlanningCallback
<1>2. /\ at' \in Points /\ at[1] \in PlanningNodes
      /\ at \notin InFlight \cup InBatch \cup Saving \cup Ended \cup {Sending, Patching}
      /\ at' \notin InFlight \cup InBatch \cup Saving \cup {Patching}
  BY <1>1, PathPoints
<1>3. at \notin Polling /\ at' \notin Staging /\ at # Thrown
  BY <1>2 DEF Polling, InFlight, Awaiting, InBatch, Ended, Thrown
<1>4. TypeOK'
  BY <1>2 DEF IInv, TypeOK
<1>5. CountPart' /\ BatchPart'
  BY <1>2, <1>3 DEF IInv, CountPart, BatchPart, OwnRows, Own
<1>6. AckPart'
  BY <1>2, <1>3 DEF IInv, AckPart, AllApplied, OwnRows, Own
<1>7. StopPart'
  BY <1>2, <1>3 DEF IInv, StopPart, CancelRequested
<1>. QED
  BY <1>2, <1>4, <1>5, <1>6, <1>7, QuietStep DEF IInv

\* with a stop seen, nothing is staged
LEMMA PrepareExecutionStep ==
  ASSUME IInv, PrepareExecution
  PROVE  IInv'
<1>. USE DEF PrepareExecution, ObserveCancel, backendVars, planVars, stageVars, ackVars
<1>1. /\ Len(ledger) \in Nat /\ OwnRows' = OwnRows /\ stop' \in BOOLEAN
      /\ OwnRows = {} /\ stage = 1 /\ (stop' => run # "open")
  BY DEF IInv, TypeOK, OwnRows, Own, BatchPart, PlanningNodes, StopPart, CancelRequested
<1>2. CASE stop'
  <2>. USE <1>2
  <2>1. lastAck' = Cancelled /\ at' = Judging /\ batch' = batch
    BY DEF Judging
  <2>2. TypeOK'
    BY <1>1, <2>1, NextPoints, AckTypes, SMTT(20) DEF IInv, TypeOK, Judging
  <2>3. CountPart' /\ BatchPart'
    BY <1>1, <2>1 DEF IInv, CountPart, BatchPart, InFlight, Awaiting, Thrown, InBatch, Staging,
                      Judging, PlanningNodes
  <2>4. AckPart'
    BY <1>1, <2>1 DEF IInv, AckPart, Cancelled, Staging, InFlight, Awaiting, Saving, Patching,
                      Judging
  <2>5. StopPart'
    BY <1>1, <2>1 DEF IInv, StopPart, Judging, Staging, Saving, CancelRequested
  <2>. QED
    BY <2>2, <2>3, <2>4, <2>5, QuietStep DEF IInv, Ended, Sending
<1>3. CASE ~stop'
  <2>. USE <1>3
  <2>1. /\ lastAck' = lastAck /\ at' = <<"emit_stage", "log">>
        /\ batch' \in Batches /\ UNCHANGED stage
    OBVIOUS
  <2>2. TypeOK'
    BY <1>1, <2>1, NextPoints DEF IInv, TypeOK
  <2>3. CountPart'
    BY <1>1, <2>1 DEF IInv, CountPart, InFlight, Awaiting, Thrown
  <2>4. BatchPart'
    <3>1. 1 \in DOMAIN batch'
      BY <2>1, BatchesAssumption
    <3>. QED
      BY <1>1, <2>1, <3>1 DEF BatchPart
  <2>5. AckPart'
    BY <1>1, <2>1 DEF IInv, AckPart, AllApplied, Staging, InFlight, Awaiting, Saving, Patching,
                      Polling, Thrown
  <2>6. StopPart'
    BY <1>1, <2>1 DEF IInv, StopPart, Saving, CancelRequested
  <2>. QED
    BY <2>2, <2>3, <2>4, <2>5, <2>6, QuietStep DEF IInv, Ended, Sending
<1>. QED
  BY <1>1, <1>2, <1>3

\* what a planning or judging node writes is of its type
PlanTypes ==
  /\ verdict \in {"null", "keep", "refine", "refuse"}
  /\ readiness \in {"null", "met", "degraded", "failed"}
  /\ judge \in {"null", "keep", "refine", "warn_only"}
  /\ refineAttempt \in {0, 1}

\* The types of a step that stages nothing and touches neither the backend nor the
\* draft: those of what it does write.
LEMMA TypesKept ==
  ASSUME TypeOK, UNCHANGED <<run, ledger, batch, stage, assigned, draft>>,
         history' \subseteq 1 .. Len(ledger), at' \in Points, stop' \in BOOLEAN, PlanTypes',
         lastAck' \in Acks(Len(ledger)), mutation' \in 0 .. Len(ledger)
  PROVE  TypeOK'
BY DEF TypeOK, PlanTypes

\* storing the selection stages nothing
LEMMA PersistSelectionStep ==
  ASSUME IInv, PersistSelection
  PROVE  IInv'
<1>. USE DEF PersistSelection, ObserveCancel, backendVars, planVars, stageVars, ackVars
<1>1. /\ Len(ledger) \in Nat /\ 0 \in 0 .. Len(ledger)
      /\ at \in InFlight => mutation \in 1 .. Len(ledger)
  BY DEF IInv, TypeOK, CountPart, OwnRows
<1>2. TypeOK'
  <2>1. at' \in Points
    BY NextPoints DEF IInv, TypeOK, InFlight, Awaiting
  <2>2. lastAck' \in Acks(Len(ledger)) /\ mutation' \in 0 .. Len(ledger)
    BY <1>1, AckTypes DEF IInv, TypeOK
  <2>3. stop' \in BOOLEAN
    BY DEF IInv, TypeOK
  <2>4. PlanTypes'
    BY DEF IInv, TypeOK, PlanTypes
  <2>5. TypeOK /\ UNCHANGED <<run, ledger, batch, stage, assigned, draft>>
    BY DEF IInv
  <2>6. history' \subseteq 1 .. Len(ledger)
    BY <1>1 DEF IInv, TypeOK, InFlight, Awaiting
  <2>. HIDE DEF PersistSelection
  <2>. QED
    BY <2>1, <2>2, <2>3, <2>4, <2>5, <2>6, TypesKept
<1>3. CountPart'
  BY <1>1 DEF IInv, CountPart, OwnRows, Own, InFlight, Awaiting, Thrown
<1>4. BatchPart'
  BY <1>1 DEF IInv, BatchPart, OwnRows, Own, InBatch, Staging, PlanningNodes
<1>5. AckPart'
  BY <1>1 DEF IInv, CountPart, AckPart, AllApplied, OwnRows, Own, Cancelled, Staging, InFlight,
         Saving, Patching, Polling, Awaiting, Thrown
<1>6. StopPart'
  BY <1>1 DEF IInv, StopPart, Cancelled, CancelRequested, Staging, Saving
<1>. QED
  BY <1>2, <1>3, <1>4, <1>5, <1>6, QuietStep DEF IInv, Ended, Sending

\* nor does the verdict on the plan
LEMMA RuleJudgeStep ==
  ASSUME IInv, RuleJudge
  PROVE  IInv'
<1>. USE DEF RuleJudge, ObserveCancel, backendVars, planVars, stageVars, ackVars
<1>1. /\ Len(ledger) \in Nat /\ 0 \in 0 .. Len(ledger)
      /\ at \in InFlight => mutation \in 1 .. Len(ledger)
  BY DEF IInv, TypeOK, CountPart, OwnRows
<1>2. TypeOK'
  <2>1. at' \in Points
    BY NextPoints DEF IInv, TypeOK, InFlight, Awaiting
  <2>2. lastAck' \in Acks(Len(ledger)) /\ mutation' \in 0 .. Len(ledger)
    BY <1>1, AckTypes DEF IInv, TypeOK
  <2>3. stop' \in BOOLEAN
    BY DEF IInv, TypeOK
  <2>4. PlanTypes'
    BY DEF IInv, TypeOK, PlanTypes
  <2>5. TypeOK /\ UNCHANGED <<run, ledger, batch, stage, assigned, draft>>
    BY DEF IInv
  <2>6. history' \subseteq 1 .. Len(ledger)
    BY <1>1 DEF IInv, TypeOK, InFlight, Awaiting
  <2>. HIDE DEF RuleJudge
  <2>. QED
    BY <2>1, <2>2, <2>3, <2>4, <2>5, <2>6, TypesKept
<1>3. CountPart'
  BY <1>1 DEF IInv, CountPart, OwnRows, Own, InFlight, Awaiting, Thrown
<1>4. BatchPart'
  BY <1>1 DEF IInv, BatchPart, OwnRows, Own, InBatch, Staging, PlanningNodes
<1>5. AckPart'
  BY <1>1 DEF IInv, CountPart, AckPart, AllApplied, OwnRows, Own, Cancelled, Staging, InFlight,
         Saving, Patching, Polling, Awaiting, Thrown
<1>6. StopPart'
  BY <1>1 DEF IInv, StopPart, Cancelled, CancelRequested, Staging, Saving
<1>. QED
  BY <1>2, <1>3, <1>4, <1>5, <1>6, QuietStep DEF IInv, Ended, Sending

\* a heartbeat may bring a stop, and nothing else
LEMMA PrepareExecutionHeartbeatStep ==
  ASSUME IInv, PrepareExecutionHeartbeat
  PROVE  IInv'
<1>. USE DEF PrepareExecutionHeartbeat, ObserveCancel, backendVars, planVars, stageVars, ackVars
<1>1. /\ Len(ledger) \in Nat /\ 0 \in 0 .. Len(ledger)
      /\ at \in InFlight => mutation \in 1 .. Len(ledger)
  BY DEF IInv, TypeOK, CountPart, OwnRows
<1>2. TypeOK'
  <2>1. at' \in Points
    BY NextPoints DEF IInv, TypeOK, InFlight, Awaiting
  <2>2. lastAck' \in Acks(Len(ledger)) /\ mutation' \in 0 .. Len(ledger)
    BY <1>1, AckTypes DEF IInv, TypeOK
  <2>3. stop' \in BOOLEAN
    BY DEF IInv, TypeOK
  <2>4. PlanTypes'
    BY DEF IInv, TypeOK, PlanTypes
  <2>5. TypeOK /\ UNCHANGED <<run, ledger, batch, stage, assigned, draft>>
    BY DEF IInv
  <2>6. history' \subseteq 1 .. Len(ledger)
    BY <1>1 DEF IInv, TypeOK, InFlight, Awaiting
  <2>. HIDE DEF PrepareExecutionHeartbeat
  <2>. QED
    BY <2>1, <2>2, <2>3, <2>4, <2>5, <2>6, TypesKept
<1>3. CountPart'
  BY <1>1 DEF IInv, CountPart, OwnRows, Own, InFlight, Awaiting, Thrown
<1>4. BatchPart'
  BY <1>1 DEF IInv, BatchPart, OwnRows, Own, InBatch, Staging, PlanningNodes
<1>5. AckPart'
  BY <1>1 DEF IInv, CountPart, AckPart, AllApplied, OwnRows, Own, Cancelled, Staging, InFlight,
         Saving, Patching, Polling, Awaiting, Thrown
<1>6. StopPart'
  BY <1>1 DEF IInv, StopPart, Cancelled, CancelRequested, Staging, Saving
<1>. QED
  BY <1>2, <1>3, <1>4, <1>5, <1>6, QuietStep DEF IInv, Ended, Sending

\* a log entry may bring a stop, and nothing else
LEMMA StageLogStep ==
  ASSUME IInv, StageLog
  PROVE  IInv'
<1>. USE DEF StageLog, StopOrGoOn, backendVars, planVars, stageVars, ackVars
<1>1. /\ Len(ledger) \in Nat /\ 0 \in 0 .. Len(ledger)
      /\ at \in InFlight => mutation \in 1 .. Len(ledger)
  BY DEF IInv, TypeOK, CountPart, OwnRows
<1>2. TypeOK'
  <2>1. at' \in Points
    BY NextPoints DEF IInv, TypeOK, InFlight, Awaiting
  <2>2. lastAck' \in Acks(Len(ledger)) /\ mutation' \in 0 .. Len(ledger)
    BY <1>1, AckTypes DEF IInv, TypeOK
  <2>3. stop' \in BOOLEAN
    BY DEF IInv, TypeOK
  <2>4. PlanTypes'
    BY DEF IInv, TypeOK, PlanTypes
  <2>5. TypeOK /\ UNCHANGED <<run, ledger, batch, stage, assigned, draft>>
    BY DEF IInv
  <2>6. history' \subseteq 1 .. Len(ledger)
    BY <1>1 DEF IInv, TypeOK, InFlight, Awaiting
  <2>. HIDE DEF StageLog
  <2>. QED
    BY <2>1, <2>2, <2>3, <2>4, <2>5, <2>6, TypesKept
<1>3. CountPart'
  BY <1>1 DEF IInv, CountPart, OwnRows, Own, InFlight, Awaiting, Thrown
<1>4. BatchPart'
  BY <1>1 DEF IInv, BatchPart, OwnRows, Own, InBatch, Staging, PlanningNodes
<1>5. AckPart'
  BY <1>1 DEF IInv, CountPart, AckPart, AllApplied, OwnRows, Own, Cancelled, Staging, InFlight,
         Saving, Patching, Polling, Awaiting, Thrown
<1>6. StopPart'
  BY <1>1 DEF IInv, StopPart, Cancelled, CancelRequested, Staging, Saving
<1>. QED
  BY <1>2, <1>3, <1>4, <1>5, <1>6, QuietStep DEF IInv, Ended, Sending

\* the second log entry of a photo stage likewise
LEMMA PhotoLogStep ==
  ASSUME IInv, PhotoLog
  PROVE  IInv'
<1>. USE DEF PhotoLog, StopOrGoOn, backendVars, planVars, stageVars, ackVars
<1>1. /\ Len(ledger) \in Nat /\ 0 \in 0 .. Len(ledger)
      /\ at \in InFlight => mutation \in 1 .. Len(ledger)
  BY DEF IInv, TypeOK, CountPart, OwnRows
<1>2. TypeOK'
  <2>1. at' \in Points
    BY NextPoints DEF IInv, TypeOK, InFlight, Awaiting
  <2>2. lastAck' \in Acks(Len(ledger)) /\ mutation' \in 0 .. Len(ledger)
    BY <1>1, AckTypes DEF IInv, TypeOK
  <2>3. stop' \in BOOLEAN
    BY DEF IInv, TypeOK
  <2>4. PlanTypes'
    BY DEF IInv, TypeOK, PlanTypes
  <2>5. TypeOK /\ UNCHANGED <<run, ledger, batch, stage, assigned, draft>>
    BY DEF IInv
  <2>6. history' \subseteq 1 .. Len(ledger)
    BY <1>1 DEF IInv, TypeOK, InFlight, Awaiting
  <2>. HIDE DEF PhotoLog
  <2>. QED
    BY <2>1, <2>2, <2>3, <2>4, <2>5, <2>6, TypesKept
<1>3. CountPart'
  BY <1>1 DEF IInv, CountPart, OwnRows, Own, InFlight, Awaiting, Thrown
<1>4. BatchPart'
  BY <1>1 DEF IInv, BatchPart, OwnRows, Own, InBatch, Staging, PlanningNodes
<1>5. AckPart'
  BY <1>1 DEF IInv, CountPart, AckPart, AllApplied, OwnRows, Own, Cancelled, Staging, InFlight,
         Saving, Patching, Polling, Awaiting, Thrown
<1>6. StopPart'
  BY <1>1 DEF IInv, StopPart, Cancelled, CancelRequested, Staging, Saving
<1>. QED
  BY <1>2, <1>3, <1>4, <1>5, <1>6, QuietStep DEF IInv, Ended, Sending

\* the decision stages nothing
LEMMA DecideRefineStep ==
  ASSUME IInv, DecideRefine
  PROVE  IInv'
<1>. USE DEF DecideRefine, Recommendations, MaySave, backendVars, planVars, stageVars, ackVars
<1>1. /\ Len(ledger) \in Nat /\ 0 \in 0 .. Len(ledger)
      /\ at \in InFlight => mutation \in 1 .. Len(ledger)
  BY DEF IInv, TypeOK, CountPart, OwnRows
<1>2. TypeOK'
  <2>1. at' \in Points
    BY NextPoints DEF IInv, TypeOK, InFlight, Awaiting
  <2>2. lastAck' \in Acks(Len(ledger)) /\ mutation' \in 0 .. Len(ledger)
    BY <1>1, AckTypes DEF IInv, TypeOK
  <2>3. stop' \in BOOLEAN
    BY DEF IInv, TypeOK
  <2>4. PlanTypes'
    BY DEF IInv, TypeOK, PlanTypes
  <2>5. TypeOK /\ UNCHANGED <<run, ledger, batch, stage, assigned, draft>>
    BY DEF IInv
  <2>6. history' \subseteq 1 .. Len(ledger)
    BY <1>1 DEF IInv, TypeOK, InFlight, Awaiting
  <2>. HIDE DEF DecideRefine
  <2>. QED
    BY <2>1, <2>2, <2>3, <2>4, <2>5, <2>6, TypesKept
<1>3. CountPart'
  BY <1>1 DEF IInv, CountPart, OwnRows, Own, InFlight, Awaiting, Thrown
<1>4. BatchPart'
  BY <1>1 DEF IInv, BatchPart, OwnRows, Own, InBatch, Staging, PlanningNodes
<1>5. AckPart'
  BY <1>1 DEF IInv, CountPart, AckPart, AllApplied, OwnRows, Own, Cancelled, Staging, InFlight,
         Saving, Patching, Polling, Awaiting, Thrown
<1>6. StopPart'
  BY <1>1 DEF IInv, StopPart, Cancelled, CancelRequested, Staging, Saving
<1>. QED
  BY <1>2, <1>3, <1>4, <1>5, <1>6, QuietStep DEF IInv, Ended, Sending

\* a heartbeat may bring a stop, and nothing else
LEMMA RefinementHeartbeatStep ==
  ASSUME IInv, RefinementHeartbeat
  PROVE  IInv'
<1>. USE DEF RefinementHeartbeat, ObserveCancel, backendVars, planVars, stageVars, ackVars
<1>1. /\ Len(ledger) \in Nat /\ 0 \in 0 .. Len(ledger)
      /\ at \in InFlight => mutation \in 1 .. Len(ledger)
  BY DEF IInv, TypeOK, CountPart, OwnRows
<1>2. TypeOK'
  <2>1. at' \in Points
    BY NextPoints DEF IInv, TypeOK, InFlight, Awaiting
  <2>2. lastAck' \in Acks(Len(ledger)) /\ mutation' \in 0 .. Len(ledger)
    BY <1>1, AckTypes DEF IInv, TypeOK
  <2>3. stop' \in BOOLEAN
    BY DEF IInv, TypeOK
  <2>4. PlanTypes'
    BY DEF IInv, TypeOK, PlanTypes
  <2>5. TypeOK /\ UNCHANGED <<run, ledger, batch, stage, assigned, draft>>
    BY DEF IInv
  <2>6. history' \subseteq 1 .. Len(ledger)
    BY <1>1 DEF IInv, TypeOK, InFlight, Awaiting
  <2>. HIDE DEF RefinementHeartbeat
  <2>. QED
    BY <2>1, <2>2, <2>3, <2>4, <2>5, <2>6, TypesKept
<1>3. CountPart'
  BY <1>1 DEF IInv, CountPart, OwnRows, Own, InFlight, Awaiting, Thrown
<1>4. BatchPart'
  BY <1>1 DEF IInv, BatchPart, OwnRows, Own, InBatch, Staging, PlanningNodes
<1>5. AckPart'
  BY <1>1 DEF IInv, CountPart, AckPart, AllApplied, OwnRows, Own, Cancelled, Staging, InFlight,
         Saving, Patching, Polling, Awaiting, Thrown
<1>6. StopPart'
  BY <1>1 DEF IInv, StopPart, Cancelled, CancelRequested, Staging, Saving
<1>. QED
  BY <1>2, <1>3, <1>4, <1>5, <1>6, QuietStep DEF IInv, Ended, Sending

\* an attempt to refine proposes nothing yet
LEMMA RefinementReadyStep ==
  ASSUME IInv, RefinementReady
  PROVE  IInv'
<1>. USE DEF RefinementReady, ObserveCancel, MayPatch, backendVars, planVars, stageVars, ackVars
<1>1. /\ Len(ledger) \in Nat /\ 0 \in 0 .. Len(ledger)
      /\ at \in InFlight => mutation \in 1 .. Len(ledger)
  BY DEF IInv, TypeOK, CountPart, OwnRows
<1>2. TypeOK'
  <2>1. at' \in Points
    BY NextPoints DEF IInv, TypeOK, InFlight, Awaiting
  <2>2. lastAck' \in Acks(Len(ledger)) /\ mutation' \in 0 .. Len(ledger)
    BY <1>1, AckTypes DEF IInv, TypeOK
  <2>3. stop' \in BOOLEAN
    BY DEF IInv, TypeOK
  <2>4. PlanTypes'
    BY DEF IInv, TypeOK, PlanTypes
  <2>5. TypeOK /\ UNCHANGED <<run, ledger, batch, stage, assigned, draft>>
    BY DEF IInv
  <2>6. history' \subseteq 1 .. Len(ledger)
    BY <1>1 DEF IInv, TypeOK, InFlight, Awaiting
  <2>. HIDE DEF RefinementReady
  <2>. QED
    BY <2>1, <2>2, <2>3, <2>4, <2>5, <2>6, TypesKept
<1>3. CountPart'
  BY <1>1 DEF IInv, CountPart, OwnRows, Own, InFlight, Awaiting, Thrown
<1>4. BatchPart'
  BY <1>1 DEF IInv, BatchPart, OwnRows, Own, InBatch, Staging, PlanningNodes
<1>5. AckPart'
  BY <1>1 DEF IInv, CountPart, AckPart, AllApplied, OwnRows, Own, Cancelled, Staging, InFlight,
         Saving, Patching, Polling, Awaiting, Thrown
<1>6. StopPart'
  BY <1>1 DEF IInv, StopPart, Cancelled, CancelRequested, Staging, Saving
<1>. QED
  BY <1>2, <1>3, <1>4, <1>5, <1>6, QuietStep DEF IInv, Ended, Sending

\* a skipped refinement proposes nothing at all
LEMMA NothingToRefineStep ==
  ASSUME IInv, NothingToRefine
  PROVE  IInv'
<1>. USE DEF NothingToRefine, ObserveCancel, CountRefineAttempt, backendVars, planVars,
             stageVars, ackVars
<1>1. /\ Len(ledger) \in Nat /\ 0 \in 0 .. Len(ledger)
      /\ at \in InFlight => mutation \in 1 .. Len(ledger)
  BY DEF IInv, TypeOK, CountPart, OwnRows
<1>2. TypeOK'
  <2>1. at' \in Points
    BY NextPoints DEF IInv, TypeOK, InFlight, Awaiting
  <2>2. lastAck' \in Acks(Len(ledger)) /\ mutation' \in 0 .. Len(ledger)
    BY <1>1, AckTypes DEF IInv, TypeOK
  <2>3. stop' \in BOOLEAN
    BY DEF IInv, TypeOK
  <2>4. PlanTypes'
    BY DEF IInv, TypeOK, PlanTypes
  <2>5. TypeOK /\ UNCHANGED <<run, ledger, batch, stage, assigned, draft>>
    BY DEF IInv
  <2>6. history' \subseteq 1 .. Len(ledger)
    BY <1>1 DEF IInv, TypeOK, InFlight, Awaiting
  <2>. HIDE DEF NothingToRefine
  <2>. QED
    BY <2>1, <2>2, <2>3, <2>4, <2>5, <2>6, TypesKept
<1>3. CountPart'
  BY <1>1 DEF IInv, CountPart, OwnRows, Own, InFlight, Awaiting, Thrown
<1>4. BatchPart'
  BY <1>1 DEF IInv, BatchPart, OwnRows, Own, InBatch, Staging, PlanningNodes
<1>5. AckPart'
  BY <1>1 DEF IInv, CountPart, AckPart, AllApplied, OwnRows, Own, Cancelled, Staging, InFlight,
         Saving, Patching, Polling, Awaiting, Thrown
<1>6. StopPart'
  BY <1>1 DEF IInv, StopPart, Cancelled, CancelRequested, Staging, Saving
<1>. QED
  BY <1>2, <1>3, <1>4, <1>5, <1>6, QuietStep DEF IInv, Ended, Sending

\* an answered refinement is no longer the pending mutation
LEMMA RefinementAckLogStep ==
  ASSUME IInv, RefinementAckLog
  PROVE  IInv'
<1>. USE DEF RefinementAckLog, ObserveCancel, CountRefineAttempt, backendVars, planVars,
             stageVars, ackVars
<1>1. /\ Len(ledger) \in Nat /\ 0 \in 0 .. Len(ledger)
      /\ at \in InFlight => mutation \in 1 .. Len(ledger)
  BY DEF IInv, TypeOK, CountPart, OwnRows
<1>2. TypeOK'
  <2>1. at' \in Points
    BY NextPoints DEF IInv, TypeOK, InFlight, Awaiting
  <2>2. lastAck' \in Acks(Len(ledger)) /\ mutation' \in 0 .. Len(ledger)
    BY <1>1, AckTypes DEF IInv, TypeOK
  <2>3. stop' \in BOOLEAN
    BY DEF IInv, TypeOK
  <2>4. PlanTypes'
    BY DEF IInv, TypeOK, PlanTypes
  <2>5. TypeOK /\ UNCHANGED <<run, ledger, batch, stage, assigned, draft>>
    BY DEF IInv
  <2>6. history' \subseteq 1 .. Len(ledger)
    BY <1>1 DEF IInv, TypeOK, InFlight, Awaiting
  <2>. HIDE DEF RefinementAckLog
  <2>. QED
    BY <2>1, <2>2, <2>3, <2>4, <2>5, <2>6, TypesKept
<1>3. CountPart'
  BY <1>1 DEF IInv, CountPart, OwnRows, Own, InFlight, Awaiting, Thrown
<1>4. BatchPart'
  BY <1>1 DEF IInv, BatchPart, OwnRows, Own, InBatch, Staging, PlanningNodes
<1>5. AckPart'
  BY <1>1 DEF IInv, CountPart, AckPart, AllApplied, OwnRows, Own, Cancelled, Staging, InFlight,
         Saving, Patching, Polling, Awaiting, Thrown
<1>6. StopPart'
  BY <1>1 DEF IInv, StopPart, Cancelled, CancelRequested, Staging, Saving
<1>. QED
  BY <1>2, <1>3, <1>4, <1>5, <1>6, QuietStep DEF IInv, Ended, Sending

\* the save is given up when its log finds the run cancelled
LEMMA SaveLogStep ==
  ASSUME IInv, SaveLog
  PROVE  IInv'
<1>. USE DEF SaveLog, backendVars, planVars, stageVars, ackVars
<1>1. /\ Len(ledger) \in Nat /\ 0 \in 0 .. Len(ledger)
      /\ at \in InFlight => mutation \in 1 .. Len(ledger)
  BY DEF IInv, TypeOK, CountPart, OwnRows
<1>2. TypeOK'
  <2>1. at' \in Points
    BY NextPoints DEF IInv, TypeOK, InFlight, Awaiting
  <2>2. lastAck' \in Acks(Len(ledger)) /\ mutation' \in 0 .. Len(ledger)
    BY <1>1, AckTypes DEF IInv, TypeOK
  <2>3. stop' \in BOOLEAN
    BY DEF IInv, TypeOK
  <2>4. PlanTypes'
    BY DEF IInv, TypeOK, PlanTypes
  <2>5. TypeOK /\ UNCHANGED <<run, ledger, batch, stage, assigned, draft>>
    BY DEF IInv
  <2>6. history' \subseteq 1 .. Len(ledger)
    BY <1>1 DEF IInv, TypeOK, InFlight, Awaiting
  <2>. HIDE DEF SaveLog
  <2>. QED
    BY <2>1, <2>2, <2>3, <2>4, <2>5, <2>6, TypesKept
<1>3. CountPart'
  BY <1>1 DEF IInv, CountPart, OwnRows, Own, InFlight, Awaiting, Thrown
<1>4. BatchPart'
  BY <1>1 DEF IInv, BatchPart, OwnRows, Own, InBatch, Staging, PlanningNodes
<1>5. AckPart'
  BY <1>1 DEF IInv, CountPart, AckPart, AllApplied, OwnRows, Own, Cancelled, Staging, InFlight,
         Saving, Patching, Polling, Awaiting, Thrown
<1>6. StopPart'
  BY <1>1 DEF IInv, StopPart, Cancelled, CancelRequested, Staging, Saving
<1>. QED
  BY <1>2, <1>3, <1>4, <1>5, <1>6, QuietStep DEF IInv, Ended, Sending

\* a cancel found after the save replaces its ack
LEMMA SaveAckLogStep ==
  ASSUME IInv, SaveAckLog
  PROVE  IInv'
<1>. USE DEF SaveAckLog, ObserveCancel, backendVars, planVars, stageVars, ackVars
<1>1. /\ Len(ledger) \in Nat /\ 0 \in 0 .. Len(ledger)
      /\ at \in InFlight => mutation \in 1 .. Len(ledger)
  BY DEF IInv, TypeOK, CountPart, OwnRows
<1>2. TypeOK'
  <2>1. at' \in Points
    BY NextPoints DEF IInv, TypeOK, InFlight, Awaiting
  <2>2. lastAck' \in Acks(Len(ledger)) /\ mutation' \in 0 .. Len(ledger)
    BY <1>1, AckTypes DEF IInv, TypeOK
  <2>3. stop' \in BOOLEAN
    BY DEF IInv, TypeOK
  <2>4. PlanTypes'
    BY DEF IInv, TypeOK, PlanTypes
  <2>5. TypeOK /\ UNCHANGED <<run, ledger, batch, stage, assigned, draft>>
    BY DEF IInv
  <2>6. history' \subseteq 1 .. Len(ledger)
    BY <1>1 DEF IInv, TypeOK, InFlight, Awaiting
  <2>. HIDE DEF SaveAckLog
  <2>. QED
    BY <2>1, <2>2, <2>3, <2>4, <2>5, <2>6, TypesKept
<1>3. CountPart'
  BY <1>1 DEF IInv, CountPart, OwnRows, Own, InFlight, Awaiting, Thrown
<1>4. BatchPart'
  BY <1>1 DEF IInv, BatchPart, OwnRows, Own, InBatch, Staging, PlanningNodes
<1>5. AckPart'
  BY <1>1 DEF IInv, CountPart, AckPart, AllApplied, OwnRows, Own, Cancelled, Staging, InFlight,
         Saving, Patching, Polling, Awaiting, Thrown
<1>6. StopPart'
  BY <1>1 DEF IInv, StopPart, Cancelled, CancelRequested, Staging, Saving
<1>. QED
  BY <1>2, <1>3, <1>4, <1>5, <1>6, QuietStep DEF IInv, Ended, Sending

-------------------------------------------------------------------------------
(* After the acknowledgement of a stage *)

\* whatever the ack was, it becomes the last one and the mutation is counted
LEMMA AdvanceStep ==
  ASSUME IInv, at \in {"await_stage_ack"} \X {"log", "fail_fast_log"},
         history' = history \cup {mutation}, AdvanceAfterAck(lastAck), ObserveCancel,
         UNCHANGED <<run, ledger, verdict, readiness, judge, batch, lastAck, assigned,
                     refineAttempt,
                     draft>>
  PROVE  IInv'
<1>. USE DEF AdvanceAfterAck, ObserveCancel
<1>1. /\ 0 \in 0 .. Len(ledger) /\ mutation = Len(ledger) /\ mutation \in OwnRows
      /\ OwnRows' = OwnRows /\ OwnRows \subseteq 1 .. Len(ledger)
      /\ at \in InFlight /\ at \in InBatch /\ at \notin Polling \cup {Thrown}
      /\ at \notin Ended \cup {Sending}
      /\ (stop' => run # "open") /\ (~stop' => ~stop)
  BY DEF IInv, TypeOK, CountPart, OwnRows, Own, InFlight, InBatch, Polling, Awaiting, Thrown,
         Ended, Sending, StopPart, CancelRequested
<1>2. /\ mutation' = 0
      /\ \/ at' = Judging /\ stage' \in {stage, stage + 1}
         \/ /\ at' = <<"emit_stage", "log">> /\ ~stop' /\ lastAck.status = "acked"
            /\ stage # Len(batch)
            /\ stage' = stage + 1
  BY DEF Judging
<1>3. TypeOK'
  <2>1. at' \in Points
    BY <1>2, NextPoints DEF Judging
  <2>2. stage' \in Nat
    BY <1>2 DEF IInv, TypeOK
  <2>. QED
    BY <1>1, <1>2, <2>1, <2>2, ZenonT(30) DEF IInv, TypeOK
<1>4. at' \notin InFlight \cup Saving \cup {Thrown, Patching} \cup Polling
  BY <1>2 DEF Judging, InFlight, Awaiting, Saving, Thrown, Patching, Polling
<1>5. CountPart'
  BY <1>1, <1>2, <1>4 DEF IInv, CountPart
<1>6. BatchPart'
  <2>1. /\ at'[1] \notin PlanningNodes
        /\ at' \in InBatch => stage # Len(batch) /\ stage' = stage + 1
    BY <1>2 DEF Judging, InBatch, Staging, PlanningNodes
  <2>2. batch \in Batches /\ stage \in DOMAIN batch
    BY <1>1 DEF IInv, BatchPart
  <2>3. Len(batch) \in Nat /\ DOMAIN batch = 1 .. Len(batch)
    BY <2>2, BatchesAssumption
  <2>. QED
    BY <2>1, <2>2, <2>3 DEF BatchPart
<1>7. AckPart'
  BY <1>1, <1>2, <1>4 DEF IInv, AckPart, AllApplied, Judging, Staging
<1>8. StopPart'
  BY <1>1, <1>2, <1>4 DEF IInv, StopPart, Judging, Staging
<1>. QED
  BY <1>1, <1>3, <1>5, <1>6, <1>7, <1>8, QuietStep DEF IInv

\* after a stage that was not acked the batch ends
LEMMA FailFastLogStep ==
  ASSUME IInv, FailFastLog
  PROVE  IInv'
BY AdvanceStep DEF FailFastLog, backendVars, planVars

\* after an acked stage the next one may be staged, unless a stop was seen
LEMMA StageAckLogStep ==
  ASSUME IInv, StageAckLog
  PROVE  IInv'
<1>. USE DEF StageAckLog, backendVars, planVars
<1>1. CASE lastAck'.status = "acked"
  <2>1. ~CancelRequested /\ lastAck' = lastAck
    BY <1>1 DEF Cancelled
  <2>. QED
    BY <1>1, <2>1, AdvanceStep DEF ObserveCancel
<1>2. CASE lastAck'.status # "acked"
  <2>. USE <1>2
  <2>1. /\ at = <<"await_stage_ack", "log">> /\ at' = <<"await_stage_ack", "fail_fast_log">>
        /\ UNCHANGED <<history, mutation, stage, assigned, ledger>>
    OBVIOUS
  <2>2. (lastAck' = Cancelled /\ CancelRequested) \/ lastAck' = lastAck
    OBVIOUS
  <2>3. /\ Len(ledger) \in Nat /\ OwnRows' = OwnRows
        /\ (stop' => run # "open") /\ (~stop' => ~stop)
    BY DEF IInv, TypeOK, OwnRows, Own, StopPart, CancelRequested
  <2>4. TypeOK'
    BY <2>1, <2>2, <2>3, NextPoints, AckTypes, SMTT(20) DEF IInv, TypeOK
  <2>5. CountPart'
    BY <2>1, <2>3 DEF IInv, CountPart, InFlight, Awaiting, Thrown
  <2>6. BatchPart'
    BY <2>1 DEF IInv, BatchPart, InBatch, PlanningNodes
  <2>7. AckPart'
    <3>1. at \in InFlight /\ at' \notin Staging \cup Saving \cup {Patching}
      BY <2>1 DEF InFlight, Awaiting, Staging, Saving, Patching
    <3>. QED
      BY <1>2, <2>1, <2>2, <2>3, <3>1 DEF IInv, AckPart, AllApplied, Cancelled
  <2>8. StopPart'
    BY <2>1, <2>2, <2>3 DEF IInv, StopPart, Cancelled, CancelRequested, Staging, Saving
  <2>. QED
    BY <2>1, <2>4, <2>5, <2>6, <2>7, <2>8, QuietStep DEF IInv, Ended, Sending
<1>. QED
  BY <1>1, <1>2

-------------------------------------------------------------------------------
(* The long poll *)

\* an awaited ack that is positive is the answer of the newest row
LEMMA AwaitedStep ==
  ASSUME IInv, NEW node \in Awaiting, at \in {<<node, "wait">>, <<node, "polling">>},
         NEW ack \in Acks(Len(ledger)), Awaited(node, ack),
         ack.status = "acked" => ack = AckOf(mutation),
         ack.evidence => ack.status = "acked",
         ack.status = "cancelled" => run # "open",
         UNCHANGED <<run, ledger, verdict, readiness, judge, batch, stage, mutation, assigned,
                     history,
                     refineAttempt, draft>>
  PROVE  IInv'
<1>. USE DEF Awaited
<1>1. /\ at \in Polling /\ at \in InFlight /\ at \notin Ended \cup {Sending} /\ at # Thrown
      /\ at' \in InFlight /\ at' \notin Polling \cup Staging \cup Saving \cup {Patching, Thrown}
      /\ at' \in InBatch => at \in InBatch
      /\ at'[1] \notin PlanningNodes /\ at' \in Points
  BY NextPoints DEF Polling, InFlight, Awaiting, Ended, Sending, Thrown, Staging, Saving,
                    Patching, InBatch,
       PlanningNodes
<1>2. /\ OwnRows' = OwnRows /\ stop' \in BOOLEAN
      /\ (stop' => run # "open") /\ (~stop' => ~stop)
      /\ mutation = Len(ledger) /\ mutation \in OwnRows /\ OwnRows \subseteq DOMAIN ledger
  BY <1>1 DEF IInv, TypeOK, OwnRows, Own, StopPart, CountPart
<1>3. TypeOK'
  BY <1>1, <1>2 DEF IInv, TypeOK
<1>4. CountPart'
  BY <1>1, <1>2 DEF IInv, CountPart
<1>5. BatchPart'
  BY <1>1, <1>2 DEF IInv, BatchPart
<1>6. AckPart'
  <2>1. AllApplied(OwnRows \ {Len(ledger)})
    BY <1>1 DEF IInv, AckPart
  <2>2. ASSUME ack.status = "acked"
        PROVE  /\ ack.seq = mutation /\ ledger[mutation].ack = "acked"
               /\ ack.evidence = ledger[mutation].evidence
    BY <2>2 DEF AckOf
  <2>3. ack.status = "acked" => AllApplied(OwnRows)
    BY <1>2, <2>1, <2>2 DEF AllApplied
  <2>. QED
    BY <1>1, <1>2, <2>1, <2>2, <2>3 DEF AckPart, AllApplied
<1>7. StopPart'
  BY <1>1, <1>2 DEF IInv, StopPart
<1>. QED
  BY <1>1, <1>3, <1>4, <1>5, <1>6, <1>7, QuietStep DEF IInv

\* the long poll ends with the answer of its row, a cancel or a timeout
LEMMA LongPollStep ==
  ASSUME IInv, NEW node \in Awaiting,
         WaitForAck(node) \/ PollFindsAck(node) \/ PollTimesOut(node)
  PROVE  IInv'
<1>. USE DEF backendVars, planVars, stageVars
<1>1. at \in {<<node, "wait">>, <<node, "polling">>} /\ at \in InFlight
  BY DEF WaitForAck, PollFindsAck, PollTimesOut, InFlight
<1>2. /\ mutation \in 0 .. Len(ledger) /\ mutation \in DOMAIN ledger /\ Len(ledger) \in Nat
      /\ ledger[mutation].ack \in {"none", "acked", "rejected"}
      /\ ledger[mutation].ack # "none" => AckOf(mutation) \in Acks(Len(ledger))
  <2>1. mutation \in DOMAIN ledger
    BY <1>1 DEF IInv, CountPart, OwnRows
  <2>. QED
    BY <2>1, RowTypes DEF IInv
<1>3. /\ AckOf(mutation).status = ledger[mutation].ack
      /\ AckOf(mutation).evidence => ledger[mutation].ack = "acked"
  BY <1>2 DEF AckOf, IInv, LedgerPart
<1>4. CASE ledger[mutation].ack # "none" /\ Awaited(node, AckOf(mutation))
  BY <1>1, <1>2, <1>3, <1>4, AwaitedStep DEF WaitForAck, PollFindsAck, PollTimesOut
<1>5. CASE /\ run \in {"cancel_requested", "cancelled"}
           /\ Awaited(node, [status |-> "cancelled", seq |-> mutation, evidence |-> FALSE])
  BY <1>1, <1>2, <1>5, AckTypes, AwaitedStep DEF WaitForAck, PollFindsAck, PollTimesOut
<1>6. CASE Awaited(node, [status |-> "timed_out", seq |-> mutation, evidence |-> FALSE])
  BY <1>1, <1>2, <1>6, AckTypes, AwaitedStep DEF WaitForAck, PollFindsAck, PollTimesOut
<1>7. CASE /\ at = <<node, "wait">> /\ at' = <<node, "polling">>
           /\ UNCHANGED <<run, ledger, stop, verdict, readiness, judge, batch, stage, mutation,
                          lastAck,
                          assigned, history, refineAttempt, draft>>
  <2>1. /\ at \in Polling /\ at # Thrown /\ at \notin Ended \cup {Sending}
        /\ at' \in InFlight /\ at' \in Polling
        /\ at' \notin Staging \cup Saving \cup {Patching, Thrown}
        /\ at' \in InBatch => at \in InBatch
        /\ at'[1] \notin PlanningNodes /\ at' \in Points
    BY <1>7, NextPoints DEF Polling, InFlight, Awaiting, Ended, Sending, Thrown, Staging,
                            Saving, Patching, InBatch,
       PlanningNodes
  <2>2. TypeOK'
    BY <1>7, <2>1 DEF IInv, TypeOK
  <2>3. CountPart' /\ BatchPart'
    BY <1>1, <1>7, <2>1 DEF IInv, CountPart, BatchPart, OwnRows, Own
  <2>4. AckPart' /\ StopPart'
    BY <1>1, <1>7, <2>1 DEF IInv, AckPart, StopPart, OwnRows, Own, AllApplied
  <2>. QED
    BY <1>7, <2>1, <2>2, <2>3, <2>4, QuietStep DEF IInv
<1>. QED
  BY <1>4, <1>5, <1>6, <1>7 DEF WaitForAck, PollFindsAck, PollTimesOut

-------------------------------------------------------------------------------
(* Publishing a mutation *)

\* a recorded mutation is a row at the end of the ledger
LEMMA RecordLedger ==
  ASSUME TypeOK, NEW kind \in Kinds, NEW dependsOn \in Nat, Record(kind, dependsOn)
  PROVE  /\ ledger' \in Seq(Rows)
         /\ Len(ledger) \in Nat /\ Len(ledger') = Len(ledger) + 1
         /\ DOMAIN ledger = 1 .. Len(ledger) /\ DOMAIN ledger' = 1 .. Len(ledger) + 1
         /\ \A m \in DOMAIN ledger : ledger'[m] = ledger[m]
         /\ ledger'[Len(ledger) + 1].kind = kind
         /\ ledger'[Len(ledger) + 1].evidence = FALSE
         /\ OwnRows' = OwnRows \cup {Len(ledger) + 1}
         /\ OwnRows \subseteq 1 .. Len(ledger)
<1>. DEFINE row == [own |-> TRUE, kind |-> kind, dependsOn |-> dependsOn,
                    ack |-> "none", evidence |-> FALSE]
<1>1. ledger' = Append(ledger, row)
  BY DEF Record
<1>2. row \in Rows
  BY DEF Rows
<1>3. row.own = TRUE /\ row.kind = kind /\ row.evidence = FALSE
  OBVIOUS
<1>. HIDE DEF row
<1>4. /\ ledger' \in Seq(Rows)
      /\ Len(ledger) \in Nat /\ Len(ledger') = Len(ledger) + 1
      /\ DOMAIN ledger = 1 .. Len(ledger) /\ DOMAIN ledger' = 1 .. Len(ledger) + 1
      /\ \A m \in DOMAIN ledger : ledger'[m] = ledger[m]
      /\ ledger'[Len(ledger) + 1] = row
  BY <1>1, <1>2 DEF TypeOK
<1>5. OwnRows' = OwnRows \cup {Len(ledger) + 1} /\ OwnRows \subseteq 1 .. Len(ledger)
  BY <1>3, <1>4 DEF OwnRows, Own
<1>. QED
  BY <1>3, <1>4, <1>5

\* The three nodes that publish do it only when all before was applied, and the
\* answer decides whether the worker knows of the row.
LEMMA PublishStep ==
  ASSUME IInv, at \in Staging \cup Saving \cup {Patching}, AllApplied(OwnRows),
         NEW kind \in Kinds, NEW dependsOn \in Nat, Record(kind, dependsOn),
         NEW afterward \in Awaiting \X {"wait"},
         afterward \in InBatch => at \in InBatch,
         NEW stopped \in {Judging, <<"prepare_finalize", "heartbeat">>},
         Emitted(afterward, stopped), refineAttempt' \in {0, 1},
         UNCHANGED <<run, verdict, readiness, judge, batch, stage, history, draft>>
  PROVE  IInv'
<1>1. /\ Len(ledger) \in Nat /\ Len(ledger') = Len(ledger) + 1
      /\ Len(ledger') \in Nat
      /\ ledger' \in Seq(Rows) /\ DOMAIN ledger' = 1 .. Len(ledger')
      /\ DOMAIN ledger = 1 .. Len(ledger)
      /\ \A m \in DOMAIN ledger : ledger'[m] = ledger[m]
      /\ OwnRows' = OwnRows \cup {Len(ledger')} /\ OwnRows \subseteq 1 .. Len(ledger)
      /\ ledger'[Len(ledger')].evidence = FALSE
  <2>1. /\ ledger' \in Seq(Rows)
        /\ Len(ledger) \in Nat /\ Len(ledger') = Len(ledger) + 1
        /\ DOMAIN ledger = 1 .. Len(ledger) /\ DOMAIN ledger' = 1 .. Len(ledger) + 1
        /\ \A m \in DOMAIN ledger : ledger'[m] = ledger[m]
        /\ ledger'[Len(ledger) + 1].evidence = FALSE
        /\ OwnRows' = OwnRows \cup {Len(ledger) + 1}
        /\ OwnRows \subseteq 1 .. Len(ledger)
    <3>1. TypeOK
      BY DEF IInv
    <3>. QED
      BY <3>1, RecordLedger, Zenon
  <2>. HIDE DEF IInv
  <2>. QED
    BY <2>1
<1>2. /\ at \notin InFlight /\ at \notin Polling \cup {Thrown} /\ at \notin Ended \cup {Sending}
      /\ at[1] \notin PlanningNodes
      /\ afterward \in Points /\ afterward \in InFlight /\ afterward \in Polling
      /\ afterward \notin Staging \cup Saving \cup {Patching, Thrown}
      /\ afterward[1] \notin PlanningNodes
      /\ stopped \in Points /\ stopped \notin Staging \cup Saving \cup {Patching, Thrown}
      /\ stopped \notin InFlight \cup InBatch \cup Polling
      /\ stopped[1] \notin PlanningNodes
  BY NextPoints, SMTT(20) DEF Staging, Saving, Patching, InFlight, Awaiting, Polling, Thrown, Ended,
                    Sending,
                    PlanningNodes, Judging, InBatch
<1>3. draft = NoDraft /\ draft' = NoDraft
  BY <1>2, NothingDrafted
<1>4. \/ /\ CancelRequested /\ stop' = TRUE /\ lastAck' = Cancelled /\ mutation' = 0
         /\ at' = stopped /\ assigned' = assigned
      \/ /\ mutation' = Len(ledger') /\ assigned' = assigned \cup {Len(ledger')}
         /\ at' = afterward /\ stop' = stop /\ lastAck' = lastAck
  BY <1>1 DEF Emitted, NextSeq
<1>5. TypeOK'
  <2>1. lastAck' \in Acks(Len(ledger'))
    BY <1>1, <1>4, AckTypes DEF IInv, TypeOK
  <2>2. draft' \in Drafts(Len(ledger'))
    BY <1>1, <1>3 DEF Drafts, NoDraft
  <2>3. /\ assigned \subseteq 1 .. Len(ledger) /\ history \subseteq 1 .. Len(ledger)
        /\ stop \in BOOLEAN
    BY DEF IInv, TypeOK
  <2>4. stop' \in BOOLEAN /\ at' \in Points
    BY <1>2, <1>4, <2>3
  <2>7. mutation' \in 0 .. Len(ledger')
    BY <1>1, <1>4
  <2>5. 1 .. Len(ledger) \subseteq 1 .. Len(ledger') /\ Len(ledger') \in 1 .. Len(ledger')
    BY <1>1
  <2>6. assigned' \subseteq 1 .. Len(ledger') /\ history' \subseteq 1 .. Len(ledger')
    BY <1>4, <2>3, <2>5, Zenon
  <2>. QED
    BY <1>1, <2>1, <2>2, <2>4, <2>6, <2>7 DEF IInv, TypeOK
<1>6. LedgerPart'
  <2>1. PICK p \in 0 .. Len(ledger) : OwnRows = (p + 1) .. Len(ledger)
    BY DEF IInv, LedgerPart
  <2>2. p \in 0 .. Len(ledger') /\ OwnRows' = (p + 1) .. Len(ledger')
    BY <1>1, <2>1
  <2>3. \A m \in DOMAIN ledger' :
          ledger'[m].evidence => ledger'[m].kind = "save" /\ ledger'[m].ack = "acked"
    BY <1>1 DEF IInv, LedgerPart
  <2>. QED
    BY <2>2, <2>3 DEF LedgerPart
<1>7. CountPart'
  <2>1. assigned \subseteq 1 .. Len(ledger) /\ history \subseteq 1 .. Len(ledger)
    BY DEF IInv, TypeOK
  <2>2. assigned' # {} => /\ \E n \in assigned' : \A m \in assigned' : n <= m
                          /\ \E n \in assigned' : \A m \in assigned' : m <= n
    <3>1. CASE assigned' = assigned
      BY <3>1 DEF IInv, CountPart
    <3>2. CASE assigned' = assigned \cup {Len(ledger')}
      <4>1. \A m \in assigned' : m <= Len(ledger')
        BY <1>1, <2>1, <3>2
      <4>2. CASE assigned = {}
        BY <1>1, <3>2, <4>2
      <4>3. CASE assigned # {}
        <5>1. PICK n \in assigned : \A m \in assigned : n <= m
          BY <4>3 DEF IInv, CountPart
        <5>2. n \in assigned' /\ \A m \in assigned' : n <= m
          BY <1>1, <2>1, <3>2, <5>1
        <5>. QED
          BY <3>2, <4>1, <5>2
      <4>. QED
        BY <4>2, <4>3
    <3>. QED
      BY <1>4, <3>1, <3>2
  <2>3. ~stop' => assigned' = OwnRows'
    BY <1>1, <1>4 DEF IInv, CountPart
  <2>4. ~stop' /\ at' # Thrown =>
          history' = OwnRows' \ (IF at' \in InFlight THEN {Len(ledger')} ELSE {})
    BY <1>1, <1>2, <1>4, <2>1 DEF IInv, CountPart
  <2>5. at' \in InFlight => mutation' = Len(ledger') /\ mutation' \in OwnRows'
    BY <1>1, <1>2, <1>4
  <2>. QED
    BY <2>2, <2>3, <2>4, <2>5 DEF CountPart
<1>8. BatchPart'
  BY <1>2, <1>4 DEF IInv, BatchPart
<1>9. AckPart'
  <2>1. \A m \in OwnRows' \ {Len(ledger')} : ledger'[m].ack = "acked"
    BY <1>1 DEF AllApplied
  <2>2. lastAck'.evidence => lastAck'.status = "acked"
    BY <1>4 DEF IInv, AckPart, Cancelled
  <2>3. lastAck'.status = "acked" => at' = afterward
    BY <1>4 DEF Cancelled
  <2>. QED
    BY <1>1, <1>2, <1>4, <2>1, <2>2, <2>3 DEF AckPart, AllApplied
<1>10. StopPart'
  BY <1>2, <1>4 DEF IInv, StopPart, CancelRequested
<1>11. DraftPart'
  BY <1>3 DEF DraftPart, CompletedIsSaved, StopIsReported, NoDraft, CompletedStatuses
<1>. QED
  BY <1>5, <1>6, <1>7, <1>8, <1>9, <1>10, <1>11 DEF IInv

\* a stage is staged only when all rows before it were applied and no stop was seen
LEMMA EmitStageStep ==
  ASSUME IInv, EmitStage
  PROVE  IInv' /\ AllApplied(OwnRows) /\ ~stop
<1>. USE DEF EmitStage, planVars, stageVars
<1>1. at \in Staging /\ at \in InBatch
  BY DEF Staging, InBatch
<1>2. batch[stage] \in Kinds /\ stage - 1 \in Nat
  <2>1. batch \in Seq({"foundation", "photo", "copy", "polish"}) /\ stage \in DOMAIN batch
    BY <1>1, BatchesAssumption DEF IInv, BatchPart
  <2>2. batch[stage] \in {"foundation", "photo", "copy", "polish"} /\ stage - 1 \in Nat
    BY <2>1
  <2>. QED
    BY <2>2 DEF Kinds
<1>3. AllApplied(OwnRows) /\ ~stop
  BY <1>1 DEF IInv, AckPart, StopPart
<1>4. IInv'
  BY <1>1, <1>2, <1>3, PublishStep DEF IInv, TypeOK, Awaiting, Judging
<1>. QED
  BY <1>3, <1>4

\* so is the save
LEMMA EmitSaveStep ==
  ASSUME IInv, EmitSave
  PROVE  IInv' /\ AllApplied(OwnRows) /\ ~stop
<1>. USE DEF EmitSave, planVars, stageVars
<1>1. at \in Saving /\ at \notin Polling \cup {Thrown}
  BY DEF Saving, Polling, Awaiting, Thrown
<1>2. AllApplied(OwnRows) /\ ~stop
  BY <1>1 DEF IInv, AckPart, StopPart
<1>3. lastAck.seq \in Nat
  BY DEF IInv, TypeOK, Acks
<1>4. <<"await_save_ack", "wait">> \notin InBatch
  BY DEF InBatch, Staging
<1>5. IInv'
  BY <1>1, <1>2, <1>3, <1>4, PublishStep DEF IInv, TypeOK, Awaiting, Kinds
<1>. QED
  BY <1>2, <1>5

\* a refinement is staged only when all rows before it were applied
LEMMA EmitRefinementStep ==
  ASSUME IInv, EmitRefinement
  PROVE  IInv' /\ AllApplied(OwnRows)
<1>. USE DEF EmitRefinement, CountRefineAttempt, planVars, stageVars
<1>1. at = Patching /\ at \notin Polling \cup {Thrown}
  BY DEF Patching, Polling, Awaiting, Thrown
<1>2. AllApplied(OwnRows)
  BY <1>1 DEF IInv, AckPart
<1>3. lastAck.seq \in Nat
  BY DEF IInv, TypeOK, Acks
<1>4. <<"await_refinement_ack", "wait">> \notin InBatch
  BY DEF InBatch, Staging
<1>5. IInv'
  BY <1>1, <1>2, <1>3, <1>4, PublishStep DEF IInv, TypeOK, Awaiting, Kinds
<1>. QED
  BY <1>2, <1>5

-------------------------------------------------------------------------------
(* The finalize draft *)

\* the ends of a set of numbers that has them
LEMMA EndsOfRange ==
  ASSUME NEW S, \A m \in S : m \in Nat,
         \E n \in S : \A m \in S : n <= m, \E n \in S : \A m \in S : m <= n
  PROVE  /\ Min(S) \in S /\ \A m \in S : Min(S) <= m
         /\ Max(S) \in S /\ \A m \in S : m <= Max(S)
<1>1. Min(S) \in S /\ \A m \in S : Min(S) <= m
  BY DEF Min
<1>2. \E n \in S : \A m \in S : n >= m
  OBVIOUS
<1>3. Max(S) \in S /\ \A m \in S : Max(S) >= m
  BY <1>2 DEF Max
<1>. QED
  BY <1>1, <1>3

\* a range is the numbers between its ends
LEMMA RangeOfRows ==
  ASSUME NEW p \in Nat, NEW n \in Nat, p < n
  PROVE  Min((p + 1) .. n) .. Max((p + 1) .. n) = (p + 1) .. n
<1>. DEFINE S == (p + 1) .. n
<1>1. /\ p + 1 \in S /\ n \in S /\ \A m \in S : m \in Nat
      /\ \A m \in S : p + 1 <= m /\ m <= n
  OBVIOUS
<1>. HIDE DEF S
<1>2. /\ Min(S) \in S /\ \A m \in S : Min(S) <= m
      /\ Max(S) \in S /\ \A m \in S : m <= Max(S)
  BY <1>1, EndsOfRange
<1>3. Min(S) \in Nat /\ Max(S) \in Nat
  BY <1>1, <1>2, Zenon
<1>5. Min(S) <= p + 1 /\ n <= Max(S)
  BY <1>1, <1>2, Zenon
<1>6. p + 1 <= Min(S) /\ Max(S) <= n
  BY <1>1, <1>2, Zenon
<1>4. Min(S) = p + 1 /\ Max(S) = n
  BY <1>3, <1>5, <1>6
<1>. QED
  BY <1>4 DEF S

\* a finalize draft is one of the drafts of its ledger
LEMMA DraftTypes ==
  ASSUME TypeOK, CountPart, NEW final \in FinalStatuses, NEW ack \in Acks(Len(ledger))
  PROVE  FinalizeDraft(final, ack) \in Drafts(Len(ledger))
<1>1. /\ Len(ledger) \in Nat
      /\ assigned \subseteq 1 .. Len(ledger)
      /\ history \subseteq 1 .. Len(ledger)
  BY DEF TypeOK
<1>2. SourceMutationRange \in SUBSET Nat
  <2>1. CASE assigned = {}
    BY <2>1 DEF SourceMutationRange
  <2>2. CASE assigned # {}
    <3>1. \A m \in assigned : m \in Nat
      BY <1>1
    <3>2. /\ \E n \in assigned : \A m \in assigned : n <= m
          /\ \E n \in assigned : \A m \in assigned : m <= n
      BY <2>2 DEF CountPart
    <3>3. Min(assigned) \in Nat /\ Max(assigned) \in Nat
      BY <3>1, <3>2, EndsOfRange, Zenon
    <3>. QED
      BY <2>2, <3>3 DEF SourceMutationRange
  <2>. QED
    BY <2>1, <2>2
<1>. DEFINE last == IF ack.status = "acked" THEN ack.seq ELSE 0
            made == IF final \in CompletedStatuses
                      THEN {m \in history : ledger[m].kind # "save"} ELSE {}
<1>3. last \in 0 .. Len(ledger)
  BY <1>1 DEF Acks
<1>4. made \in SUBSET (1 .. Len(ledger))
  BY <1>1
<1>. HIDE DEF last, made
<1>5. [final |-> final, lastAcked |-> last, range |-> SourceMutationRange, created |-> made]
        \in Drafts(Len(ledger))
  BY <1>2, <1>3, <1>4 DEF Drafts
<1>. QED
  BY <1>5 DEF FinalizeDraft, last, made

\* What the status of a draft says of the stop flag and of the acknowledgement.
LEMMA StatusSays ==
  ASSUME NEW stopped \in BOOLEAN, NEW warned \in BOOLEAN, NEW n \in Nat, NEW ack \in Acks(n),
         NEW final, final = DurableStatus(ObservedStatus(stopped, ack), warned, ack)
  PROVE  /\ final \in FinalStatuses
         /\ final \in CompletedStatuses => ~stopped /\ ack.evidence
         /\ stopped => final = "cancelled"
         /\ final = "cancelled" => stopped \/ ack.status = "cancelled"
BY DEF DurableStatus, ObservedStatus, FinalStatuses, CompletedStatuses, Acks

\* a draft that says completed has its save, and one after a stop reports it
LEMMA PrepareFinalizeStep ==
  ASSUME IInv, PrepareFinalize
  PROVE  IInv'
<1>. DEFINE final == IF Overridden THEN "failed"
                     ELSE DurableStatus(ObservedStatus(stop', lastAck), Warned, lastAck)
<1>1. /\ at = <<"prepare_finalize", "heartbeat">> /\ at' = Sending
      /\ stop' = (stop \/ CancelRequested)
      /\ UNCHANGED <<run, ledger, verdict, readiness, judge, batch, stage, mutation, lastAck,
                     assigned,
                     history, refineAttempt>>
      /\ draft' = FinalizeDraft(final, lastAck)
  BY DEF PrepareFinalize, ObserveCancel, Sending, backendVars, planVars, stageVars, ackVars
<1>2. /\ at \notin InFlight /\ at \notin Polling \cup {Thrown}
      /\ at' \notin InFlight \cup InBatch \cup Staging \cup Saving \cup Polling
                 \cup {Patching, Thrown}
      /\ at'[1] \notin PlanningNodes
      /\ at' \in Points /\ at' \in Ended \cup {Sending}
  BY <1>1, NextPoints DEF InFlight, InBatch, Staging, Saving, Patching, Polling, Awaiting, Thrown,
       PlanningNodes, Sending
<1>3. /\ Len(ledger) \in Nat /\ lastAck \in Acks(Len(ledger)) /\ OwnRows' = OwnRows
      /\ OwnRows \subseteq 1 .. Len(ledger)
      /\ stop' \in BOOLEAN /\ Warned \in BOOLEAN
      /\ (stop' => run # "open") /\ (~stop' => ~stop)
  BY <1>1 DEF IInv, TypeOK, OwnRows, Own, StopPart, CancelRequested, Warned
<1>4. /\ final \in FinalStatuses
      /\ final \in CompletedStatuses => ~stop' /\ lastAck.evidence
      /\ stop' => final \in {"cancelled", "failed"}
      /\ final = "cancelled" => stop' \/ lastAck.status = "cancelled"
  <2>1. CASE Overridden
    BY <2>1 DEF FinalStatuses, CompletedStatuses
  <2>2. CASE ~Overridden
    <3>1. final = DurableStatus(ObservedStatus(stop', lastAck), Warned, lastAck)
      BY <2>2
    <3>. HIDE DEF final
    <3>. QED
      BY <1>3, <3>1, StatusSays
  <2>. QED
    BY <2>1, <2>2
<1>. HIDE DEF final
<1>5. draft'.final = final
  BY <1>1 DEF FinalizeDraft
<1>6. TypeOK'
  <2>1. draft' \in Drafts(Len(ledger'))
    BY <1>1, <1>3, <1>4, DraftTypes DEF IInv
  <2>. QED
    BY <1>1, <1>2, <1>3, <2>1 DEF IInv, TypeOK
<1>7. LedgerPart' /\ CountPart' /\ BatchPart'
  BY <1>1, <1>2, <1>3 DEF IInv, LedgerPart, CountPart, BatchPart
<1>8. AckPart' /\ StopPart'
  BY <1>1, <1>2, <1>3 DEF IInv, AckPart, StopPart, AllApplied
<1>9. CompletedIsSaved'
  <2>1. SUFFICES ASSUME final \in CompletedStatuses
                 PROVE  /\ OwnRows # {} /\ AllApplied(OwnRows)
                        /\ ledger[Len(ledger)].kind = "save" /\ ledger[Len(ledger)].evidence
                        /\ draft'.range = OwnRows
                        /\ draft'.lastAcked = Len(ledger)
                        /\ draft'.created = {m \in OwnRows : ledger[m].kind # "save"}
    BY <1>1, <1>3, <1>5 DEF CompletedIsSaved, AllApplied
  <2>2. ~stop /\ lastAck.evidence /\ lastAck.status = "acked"
    BY <1>3, <1>4, <2>1 DEF IInv, AckPart
  <2>3. /\ lastAck.seq = Len(ledger) /\ Len(ledger) \in OwnRows /\ AllApplied(OwnRows)
        /\ ledger[Len(ledger)].evidence
    BY <1>2, <2>2 DEF IInv, AckPart
  <2>4. assigned = OwnRows /\ history = OwnRows
    BY <1>2, <2>2 DEF IInv, CountPart
  <2>5. ledger[Len(ledger)].kind = "save"
    BY <2>3 DEF IInv, LedgerPart, OwnRows
  <2>6. SourceMutationRange = OwnRows
    <3>1. PICK p \in 0 .. Len(ledger) : OwnRows = (p + 1) .. Len(ledger)
      BY DEF IInv, LedgerPart
    <3>2. p \in Nat /\ p < Len(ledger)
      BY <1>3, <2>3, <3>1
    <3>. QED
      BY <1>3, <2>3, <2>4, <3>1, <3>2, RangeOfRows DEF SourceMutationRange
  <2>7. /\ draft'.range = SourceMutationRange /\ draft'.lastAcked = lastAck.seq
        /\ draft'.created = {m \in history : ledger[m].kind # "save"}
    BY <1>1, <2>1, <2>2 DEF FinalizeDraft
  <2>. QED
    BY <2>3, <2>4, <2>5, <2>6, <2>7
<1>10. StopIsReported'
  BY <1>1, <1>3, <1>4, <1>5 DEF IInv, StopPart, StopIsReported
<1>. QED
  BY <1>2, <1>6, <1>7, <1>8, <1>9, <1>10 DEF IInv, DraftPart

\* a planning failure drafts a failure of an empty ledger
LEMMA PlanningFailsStep ==
  ASSUME IInv, PlanningFails
  PROVE  IInv'
<1>1. /\ at \in {<<"gate_scope", "heartbeat">>, <<"assemble_candidates", "heartbeat">>}
      /\ at' = Sending
      /\ stop' = (stop \/ CancelRequested)
      /\ UNCHANGED <<run, ledger, verdict, readiness, judge, batch, stage, mutation, lastAck,
                     assigned,
                     history, refineAttempt>>
      /\ draft' = FinalizeDraft("failed", NoAck)
  BY DEF PlanningFails, ObserveCancel, Sending, backendVars, planVars, stageVars, ackVars
<1>2. /\ at \notin InFlight /\ at \notin Polling \cup {Thrown}
      /\ at' \notin InFlight \cup InBatch \cup Staging \cup Saving \cup Polling
                 \cup {Patching, Thrown}
      /\ at'[1] \notin PlanningNodes
      /\ at' \in Points /\ at' \in Ended \cup {Sending}
  BY <1>1, NextPoints DEF InFlight, InBatch, Staging, Saving, Patching, Polling, Awaiting, Thrown,
       PlanningNodes, Sending
<1>3. /\ Len(ledger) \in Nat /\ OwnRows' = OwnRows /\ stop' \in BOOLEAN
      /\ (stop' => run # "open") /\ (~stop' => ~stop)
  BY <1>1 DEF IInv, TypeOK, OwnRows, Own, StopPart, CancelRequested
<1>4. draft'.final = "failed"
  BY <1>1 DEF FinalizeDraft
<1>5. TypeOK'
  <2>1. draft' \in Drafts(Len(ledger'))
    BY <1>1, <1>3, AckTypes, DraftTypes DEF IInv, FinalStatuses
  <2>. QED
    BY <1>1, <1>2, <1>3, <2>1 DEF IInv, TypeOK
<1>6. LedgerPart' /\ CountPart' /\ BatchPart'
  BY <1>1, <1>2, <1>3 DEF IInv, LedgerPart, CountPart, BatchPart
<1>7. AckPart' /\ StopPart'
  BY <1>1, <1>2, <1>3 DEF IInv, AckPart, StopPart, AllApplied
<1>8. DraftPart'
  BY <1>2, <1>4 DEF DraftPart, CompletedIsSaved, StopIsReported, CompletedStatuses
<1>. QED
  BY <1>5, <1>6, <1>7, <1>8 DEF IInv

-------------------------------------------------------------------------------
(* The end of the attempt, and its environment *)

\* what ends the run at the worker changes no row
LEMMA EndStep ==
  ASSUME IInv, SendFinalize \/ CallbackRefused \/ WorkerThrows
  PROVE  IInv'
<1>1. /\ at' \in Ended /\ at \notin Ended
      /\ at' # Thrown => at \notin InFlight
      /\ run' = run \/ run' \in {"cancelled", "closed"}
      /\ UNCHANGED <<ledger, stop, verdict, readiness, judge, batch, stage, mutation, lastAck,
                     assigned,
                     history, refineAttempt, draft>>
  BY DEF SendFinalize, CallbackRefused, WorkerThrows, Ended, Thrown, InFlight, Awaiting,
         backendVars,
         planVars, stageVars, ackVars
<1>2. /\ at' \notin InFlight \cup InBatch \cup Staging \cup Saving \cup Polling \cup {Patching}
      /\ at'[1] \notin PlanningNodes /\ at' \in Points
  BY <1>1, NextPoints DEF Ended, InFlight, InBatch, Staging, Saving, Patching, Polling, Awaiting,
       PlanningNodes
<1>3. at' # Thrown => at \notin Polling \cup {Thrown}
  BY <1>1 DEF InFlight, Polling, Ended, Thrown
<1>4. TypeOK'
  BY <1>1, <1>2 DEF IInv, TypeOK
<1>5. LedgerPart' /\ CountPart' /\ BatchPart'
  BY <1>1, <1>2, <1>3 DEF IInv, LedgerPart, CountPart, BatchPart, OwnRows, Own
<1>6. AckPart' /\ StopPart'
  BY <1>1, <1>2, <1>3 DEF IInv, AckPart, StopPart, AllApplied, OwnRows, Own
<1>7. DraftPart'
  BY <1>1 DEF IInv, DraftPart, CompletedIsSaved, StopIsReported, OwnRows, Own
<1>. QED
  BY <1>4, <1>5, <1>6, <1>7 DEF IInv

\* the API only moves the run forward
LEMMA RunStep ==
  ASSUME IInv, CancelAccepted \/ RunTaken
  PROVE  IInv'
<1>1. /\ run' \in {"cancel_requested", "closed", "superseded", "cancelled"}
      /\ UNCHANGED <<ledger, at, stop, verdict, readiness, judge, batch, stage, mutation,
                     lastAck, assigned,
                     history, refineAttempt, draft>>
  BY DEF CancelAccepted, RunTaken, planVars, stageVars, ackVars
<1>2. TypeOK'
  BY <1>1 DEF IInv, TypeOK
<1>3. LedgerPart' /\ CountPart' /\ BatchPart'
  BY <1>1 DEF IInv, LedgerPart, CountPart, BatchPart, OwnRows, Own
<1>4. AckPart' /\ StopPart'
  BY <1>1 DEF IInv, AckPart, StopPart, AllApplied, OwnRows, Own
<1>5. DraftPart'
  BY <1>1 DEF IInv, DraftPart, CompletedIsSaved, StopIsReported, OwnRows, Own
<1>. QED
  BY <1>2, <1>3, <1>4, <1>5 DEF IInv

\* The editor answers a row once: what was applied stays applied.
LEMMA EditorAcksStep ==
  ASSUME IInv, NEW x \in DOMAIN ledger, EditorAcks(x)
  PROVE  IInv'
<1>1. PICK answer \in {"acked", "rejected"}, evidence \in BOOLEAN :
        /\ evidence => ledger[x].kind = "save" /\ answer = "acked"
        /\ ledger' = [ledger EXCEPT ![x].ack = answer, ![x].evidence = evidence]
  BY DEF EditorAcks
<1>. DEFINE row == [ledger[x] EXCEPT !.ack = answer, !.evidence = evidence]
<1>2. ledger \in Seq(Rows) /\ x \in 1 .. Len(ledger) /\ Len(ledger) \in Nat /\ ledger[x] \in Rows
      /\ DOMAIN ledger = 1 .. Len(ledger)
  BY RowTypes DEF IInv, TypeOK
<1>3. /\ row \in Rows /\ row.own = ledger[x].own /\ row.kind = ledger[x].kind
      /\ row.ack = answer /\ row.evidence = evidence
  BY <1>2 DEF Rows
<1>4. ledger' = [ledger EXCEPT ![x] = row]
  BY <1>1, <1>2
<1>. HIDE DEF row
<1>5. /\ ledger' \in Seq(Rows) /\ Len(ledger') = Len(ledger) /\ DOMAIN ledger' = DOMAIN ledger
      /\ \A m \in DOMAIN ledger : m # x => ledger'[m] = ledger[m]
      /\ ledger'[x] = row
  BY <1>2, <1>3, <1>4
<1>6. /\ UNCHANGED <<run, at, stop, verdict, readiness, judge, batch, stage, mutation, lastAck,
                     assigned,
                     history, refineAttempt, draft>>
      /\ ledger[x].ack = "none"
  BY DEF EditorAcks, planVars, stageVars, ackVars
<1>7. /\ OwnRows' = OwnRows /\ OwnRows \subseteq DOMAIN ledger
      /\ \A m \in DOMAIN ledger : ledger'[m].kind = ledger[m].kind
  BY <1>3, <1>5 DEF OwnRows, Own
<1>8. \A m \in DOMAIN ledger : ledger[m].ack = "acked" => m # x /\ ledger'[m] = ledger[m]
  BY <1>5, <1>6
<1>9. TypeOK'
  BY <1>5, <1>6 DEF IInv, TypeOK
<1>10. LedgerPart'
  BY <1>1, <1>3, <1>5, <1>7 DEF IInv, LedgerPart
<1>11. CountPart' /\ BatchPart' /\ StopPart'
  BY <1>5, <1>6, <1>7 DEF IInv, CountPart, BatchPart, StopPart
<1>12. AckPart'
  <2>1. \A S \in SUBSET DOMAIN ledger : AllApplied(S) => \A m \in S : ledger'[m].ack = "acked"
    BY <1>8 DEF AllApplied
  <2>2. ASSUME lastAck.status = "acked", at \notin Polling \cup {Thrown}
        PROVE  /\ lastAck.seq = Len(ledger) /\ lastAck.seq \in OwnRows
               /\ lastAck.evidence = ledger'[lastAck.seq].evidence
               /\ \A m \in OwnRows : ledger'[m].ack = "acked"
    <3>1. /\ lastAck.seq = Len(ledger) /\ lastAck.seq \in OwnRows
          /\ lastAck.evidence = ledger[lastAck.seq].evidence
          /\ AllApplied(OwnRows)
      BY <2>2 DEF IInv, AckPart
    <3>. QED
      BY <1>7, <1>8, <3>1 DEF AllApplied
  <2>3. at \in Staging => \A m \in OwnRows : ledger'[m].ack = "acked"
    BY <1>7, <2>1 DEF IInv, AckPart
  <2>4. at \in InFlight => \A m \in OwnRows \ {Len(ledger)} : ledger'[m].ack = "acked"
    BY <1>7, <2>1 DEF IInv, AckPart
  <2>5. /\ lastAck.evidence => lastAck.status = "acked"
        /\ at \in Saving \cup {Patching} => lastAck.status = "acked"
    BY DEF IInv, AckPart
  <2>. QED
    BY <1>5, <1>6, <1>7, <2>2, <2>3, <2>4, <2>5 DEF AckPart, AllApplied
<1>13. DraftPart'
  <2>1. CompletedIsSaved'
    <3>1. SUFFICES ASSUME draft.final \in CompletedStatuses
                   PROVE  CompletedIsSaved'
      BY <1>6 DEF CompletedIsSaved
    <3>2. /\ OwnRows # {} /\ \A m \in OwnRows : ledger[m].ack = "acked"
          /\ ledger[Len(ledger)].kind = "save" /\ ledger[Len(ledger)].evidence
          /\ draft.range = OwnRows /\ draft.lastAcked = Len(ledger)
          /\ draft.created = {m \in OwnRows : ledger[m].kind # "save"}
      BY <3>1 DEF IInv, DraftPart, CompletedIsSaved
    <3>3. Len(ledger) \in DOMAIN ledger
      BY <1>2
    <3>4. ledger[Len(ledger)].ack = "acked"
      BY <3>2, <3>3 DEF IInv, LedgerPart
    <3>5. /\ ledger'[Len(ledger)] = ledger[Len(ledger)]
          /\ \A m \in OwnRows : ledger'[m] = ledger[m]
      BY <1>7, <1>8, <3>2, <3>3, <3>4
    <3>6. {m \in OwnRows : ledger'[m].kind # "save"} = {m \in OwnRows : ledger[m].kind # "save"}
      BY <3>5
    <3>. QED
      BY <1>5, <1>6, <1>7, <3>2, <3>5, <3>6 DEF CompletedIsSaved
  <2>. QED
    BY <1>6, <2>1 DEF IInv, DraftPart, StopIsReported
<1>. QED
  BY <1>9, <1>10, <1>11, <1>12, <1>13 DEF IInv

-------------------------------------------------------------------------------
(* The theorems *)

\* an empty ledger
LEMMA InitIInv ==
  ASSUME Init
  PROVE  IInv
<1>1. PICK n \in 0 .. MaxPrior : ledger = [m \in 1 .. n |-> PriorRow]
  BY DEF Init
<1>2. n \in Nat /\ PriorRow \in Rows
  BY BoundsAssumption DEF PriorRow, Rows, Kinds
<1>3. /\ ledger \in Seq(Rows) /\ Len(ledger) = n /\ DOMAIN ledger = 1 .. n
      /\ \A m \in DOMAIN ledger : ledger[m] = PriorRow
  BY <1>1, <1>2
<1>4. OwnRows = {}
  BY <1>3 DEF OwnRows, Own, PriorRow
<1>5. at \in Points
  <2>1. <<<<"hydrate_input", "heartbeat">>, <<"hydrate_input", "event">>>> \in PlanningPath
    BY DEF PlanningPath
  <2>2. <<<<"hydrate_input", "heartbeat">>, <<"hydrate_input", "event">>>>[1] \in Points
    BY <2>1, PathPoints, Zenon
  <2>. QED
    BY <2>2 DEF Init
<1>6. TypeOK
  <2>1. lastAck \in Acks(Len(ledger))
    BY <1>2, <1>3, AckTypes DEF Init
  <2>2. draft \in Drafts(Len(ledger))
    BY <1>2, <1>3 DEF Init, Drafts, NoDraft, FinalStatuses
  <2>3. 0 \in 0 .. Len(ledger) /\ mutation = 0
    BY <1>2, <1>3 DEF Init
  <2>. QED
    BY <1>2, <1>3, <1>5, <2>1, <2>2, <2>3 DEF Init, TypeOK
<1>7. LedgerPart
  <2>1. n \in 0 .. Len(ledger) /\ OwnRows = (n + 1) .. Len(ledger)
    BY <1>2, <1>3, <1>4
  <2>. QED
    BY <1>3, <2>1 DEF LedgerPart, PriorRow
<1>8. CountPart /\ BatchPart
  BY <1>4 DEF Init, CountPart, BatchPart, InFlight, InBatch, Staging, Awaiting
<1>9. AckPart /\ StopPart
  BY <1>4 DEF Init, AckPart, StopPart, NoAck, AllApplied, InFlight, Staging, Saving, Patching,
              Awaiting
<1>10. DraftPart
  BY DEF Init, DraftPart, CompletedIsSaved, StopIsReported, NoDraft, CompletedStatuses
<1>. QED
  BY <1>6, <1>7, <1>8, <1>9, <1>10 DEF IInv

\* every step keeps the invariant
LEMMA StepIInv ==
  ASSUME IInv, [Next]_vars
  PROVE  IInv'
<1>1. CASE Planning
  BY <1>1, PlanningCallbackStep, PlanningFailsStep, PersistSelectionStep,
     RuleJudgeStep DEF Planning
<1>2. CASE Execution
  BY <1>2, PrepareExecutionHeartbeatStep, PrepareExecutionStep, StageLogStep, PhotoLogStep,
     EmitStageStep, StageAckLogStep, FailFastLogStep DEF Execution
<1>3. CASE LongPoll
  BY <1>3, LongPollStep DEF LongPoll
<1>4. CASE Refinement
  BY <1>4, DecideRefineStep, RefinementHeartbeatStep, RefinementReadyStep, NothingToRefineStep,
     EmitRefinementStep, RefinementAckLogStep DEF Refinement
<1>5. CASE Finalization
  BY <1>5, SaveLogStep, EmitSaveStep, SaveAckLogStep, PrepareFinalizeStep,
     EndStep DEF Finalization
<1>6. CASE CallbackRefused
  BY <1>6, EndStep
<1>7. CASE Environment
  <2>1. CASE \E m \in 1 .. MaxMutations : EditorAcks(m)
    BY <2>1, EditorAcksStep DEF EditorAcks
  <2>. QED
    BY <1>7, <2>1, EndStep, RunStep DEF Environment
<1>8. CASE UNCHANGED vars
  <2>. USE <1>8 DEF vars, backendVars, planVars, stageVars, ackVars
  <2>1. TypeOK' /\ LedgerPart' /\ CountPart' /\ BatchPart'
    BY DEF IInv, TypeOK, LedgerPart, CountPart, BatchPart, OwnRows, Own
  <2>2. AckPart' /\ StopPart'
    BY DEF IInv, AckPart, StopPart, AllApplied, OwnRows, Own
  <2>3. DraftPart'
    BY DEF IInv, DraftPart, CompletedIsSaved, StopIsReported, OwnRows, Own
  <2>. QED
    BY <2>1, <2>2, <2>3 DEF IInv
<1>. QED
  BY <1>1, <1>2, <1>3, <1>4, <1>5, <1>6, <1>7, <1>8 DEF Next, Worker

\* the invariant holds in every reachable state
LEMMA Invariance == Spec => []IInv
<1>1. Init => IInv
  BY InitIInv
<1>2. IInv /\ [Next]_vars => IInv'
  BY StepIInv
<1>. QED
  BY <1>1, <1>2, PTL DEF Spec

\* The type invariant of the attempt.
THEOREM AttemptTypeCorrect == Spec => []TypeOK
<1>1. IInv => TypeOK
  BY DEF IInv
<1>. QED
  BY <1>1, Invariance, PTL

\* finalizeRun claims a completed run only of a draft that is applied, saved with
\* evidence, and reported as it is.
THEOREM CompletedDraftIsSaved == Spec => []CompletedIsSaved
<1>1. IInv => CompletedIsSaved
  BY DEF IInv, DraftPart
<1>. QED
  BY <1>1, Invariance, PTL

\* A stop the graph has seen ends as a cancel or a failure, and no run is cancelled
\* that nobody asked to.
THEOREM StopsAreReported == Spec => []StopIsReported
<1>1. IInv => StopIsReported
  BY DEF IInv, DraftPart
<1>. QED
  BY <1>1, Invariance, PTL

\* Only the three publishing nodes make the ledger longer.
LEMMA WhoPublishes ==
  ASSUME IInv, [Next]_vars, Len(ledger') > Len(ledger)
  PROVE  EmitStage \/ EmitRefinement \/ EmitSave
<1>1. Len(ledger) \in Nat /\ ledger \in Seq(Rows)
  BY DEF IInv, TypeOK
<1>2. ASSUME NEW m \in 1 .. MaxMutations, EditorAcks(m)
      PROVE  Len(ledger') = Len(ledger)
  BY <1>1, <1>2 DEF EditorAcks
<1>3. UNCHANGED ledger => Len(ledger') = Len(ledger)
  OBVIOUS
<1>. QED
  BY <1>1, <1>2, <1>3 DEF Next, Worker, Planning, Execution, LongPoll, Refinement, Finalization,
     Environment, PlanningCallback, PlanningFails, PersistSelection, RuleJudge,
     PrepareExecutionHeartbeat, PrepareExecution, StageLog, PhotoLog, StageAckLog, FailFastLog,
     WaitForAck, PollFindsAck, PollTimesOut, DecideRefine, RefinementHeartbeat, RefinementReady,
     NothingToRefine, RefinementAckLog, SaveLog, SaveAckLog, PrepareFinalize, SendFinalize,
     CallbackRefused, WorkerThrows, CancelAccepted, RunTaken, backendVars, vars

\* A mutation is published only after every earlier one of the attempt was applied,
\* refinements of a run being stopped included.
THEOREM MutationsInLockstep == Spec => PublishedInLockstep
<1>1. IInv /\ [Next]_vars =>
        [Len(ledger') > Len(ledger) => \A m \in OwnRows : ledger[m].ack = "acked"]_ledger
  BY WhoPublishes, EmitStageStep, EmitRefinementStep, EmitSaveStep DEF AllApplied
<1>. QED
  BY <1>1, Invariance, PTL DEF Spec, PublishedInLockstep

\* No stage and no save of a run is published once the graph has seen a stop.
THEOREM NothingStagedAfterStop == Spec => NoStageAfterStop
<1>1. ASSUME IInv, [Next]_vars, stop, Len(ledger') > Len(ledger)
      PROVE  ledger'[Len(ledger')].kind = "refine"
  <2>1. EmitRefinement
    BY <1>1, WhoPublishes, EmitStageStep, EmitSaveStep
  <2>2. lastAck.seq \in Nat /\ Record("refine", lastAck.seq) /\ TypeOK
    BY <1>1, <2>1 DEF EmitRefinement, IInv, TypeOK, Acks
  <2>. QED
    BY <2>2, RecordLedger DEF Kinds
<1>2. IInv /\ [Next]_vars =>
        [stop /\ Len(ledger') > Len(ledger) => ledger'[Len(ledger')].kind = "refine"]_ledger
  BY <1>1
<1>. QED
  BY <1>2, Invariance, PTL DEF Spec, NoStageAfterStop

================================================================================
