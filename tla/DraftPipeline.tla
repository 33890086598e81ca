---------------------------- MODULE DraftPipeline ----------------------------
(***************************************************************************)
(* One draft from the brief to the stored record: the worker plans, sends  *)
(* the draft to the editor stage by stage, looks at the scene it made,     *)
(* patches it at most once, saves and finalizes; the API projects the      *)
(* mutation ledger into the draft's record.  WorkerGraph has the same      *)
(* graph with its polling, sequence numbers and cancellations; here a      *)
(* stage is one step whose answer is any of the editor's, and what counts  *)
(* is the content: which layers, where, with which identity.               *)
(***************************************************************************)
EXTENDS TemplatePlan, SequencesExt

CONSTANT Briefs

ASSUME BriefsAssumption == \A b \in Briefs : b \in BriefRecords

VARIABLES
  brief,         \* what was asked for
  plan,          \* copyPlan, assetPlan, concreteLayoutPlan and the executable plan
  pc,            \* the next node of the worker's graph
  proposals,     \* skeletonBatch.proposals
  history,       \* stageAckHistory; the API's mutation ledger holds the same rows
  refineAttempt,
  judge,         \* judgePlan and refineDecision of the last pass
  request,       \* the finalize request
  record         \* the completion record and the run row the API stores

vars == <<brief, plan, pc, proposals, history, refineAttempt, judge, request, record>>

None == "none"
Answers == {"acked", "rejected", "timed_out", "cancelled"}
Layer(seq, key) == [seq |-> seq, key |-> key]
NoLayer == Layer(0, None)

(* --- Commands ------------------------------------------------------------ *)

\* buildCreateLayerCommand.  The commands of a proposal are a set: no step below
\* depends on their order within one proposal
Create(key, slotKey, executionSlotKey, role, box) ==
  [op |-> "createLayer", key |-> key, slotKey |-> slotKey,
   executionSlotKey |-> executionSlotKey, role |-> role, box |-> box, target |-> NoLayer]

\* toCompatSlotKey
CompatSlotKey(executionSlotKey) ==
  CASE executionSlotKey = "subheadline" -> "supporting_copy"
    [] executionSlotKey = "badge_text"  -> "badge"
    [] executionSlotKey \in {"offer_line", "footer_note"} -> None
    [] OTHER -> executionSlotKey

\* deriveExecutionSlotKey
ExecutionSlotOf(slotKey, role) ==
  CASE slotKey \in {"background", "headline", "hero_image"} -> slotKey
    [] slotKey = "supporting_copy" -> "subheadline"
    [] slotKey = "cta" -> IF role = "cta" THEN "cta" ELSE None
    [] slotKey = "badge" -> "badge_text"
    [] slotKey = None /\ role = "price_callout" -> "offer_line"
    [] slotKey = None /\ role = "footer_note" -> "footer_note"
    [] OTHER -> None

\* isExecutionIdentityValid
IdentityValid(command) ==
  IF command.executionSlotKey = None
  THEN command.role \notin {"background", "headline", "supporting_copy", "price_callout",
                            "cta", "footer_note", "badge", "hero_image"}
  ELSE \/ ExecutionSlotOf(command.slotKey, command.role) = command.executionSlotKey
       \/ command.slotKey = CompatSlotKey(command.executionSlotKey)

(* --- The skeleton: emitSkeletonMutations.ts ------------------------------ *)

CopyBox(p, slot) == CopySlotBox(p.page, p.anchors, p.planned, slot)

FoundationCommands(p) ==
  {Create("background", "background", "background", "background",
          Box(0, 0, p.page.width, p.page.height))}
  \cup When(p.includeHeroPanel,
            LET stack == p.page.mode = "center_stack"
            IN  {Create("hero_panel", IF stack THEN None ELSE "hero_image", None,
                        IF stack THEN "spotlight_panel" ELSE "hero_panel",
                        LayoutBox(p.page, "heroPanel"))})
  \cup When(p.includeBadge,
            {Create("badge", "badge", "badge_text", "badge", CopyBox(p, "badge_text"))})
  \cup When(p.includeRibbon,
            {Create("ribbon_strip", None, None, "ribbon_strip", LayoutBox(p.page, "ribbon"))})
  \cup When(p.includeFrame, {Create("frame", None, None, "frame", LayoutBox(p.page, "frame"))})

PhotoCommands(p) == {Create("hero_image", "hero_image", "hero_image", "hero_image", p.heroImage)}

CopyCommands(p) ==
  {Create("headline", "headline", "headline", "headline", CopyBox(p, "headline")),
   Create("supporting_copy", "supporting_copy", "subheadline", "supporting_copy",
          CopyBox(p, "subheadline")),
   Create("price_callout", None, "offer_line", "price_callout", CopyBox(p, "offer_line"))}
  \cup When(p.includeHeroCaption,
            {Create("hero_caption", None, None, "hero_caption", CopyBox(p, "subheadline"))})

\* Seeded fault: the accent is not marked as the decoration.
UnmarkedAccent(role) == IF role = "cta_container" THEN "cta" ELSE None

\* the compat slot key of a graphic role
RoleSlotKey(role) ==
  CASE role = "primary_accent" -> "decoration"
    [] role = "cta_container"  -> "cta"
    [] OTHER -> None

\* buildGraphicRoleCommands; the single decoration of a plan without roles is left
\* out, every plan has some
RoleCommands(p) ==
  LET BoxOf(role, zone) == GraphicBox(p.page, p.zones, role, zone, CopyBox(p, "cta"))
  IN  {Create(role, RoleSlotKey(role), None, role, BoxOf(role, p.hints[role])) : role \in p.roles}
      \cup When(p.ctaContainerExpected /\ "cta_container" \notin p.roles,
                {Create("cta_container_fallback", None, None, "cta_container",
                        BoxOf("cta_container", "bottom_strip"))})

\* the underline bar goes with two decoration modes no plan of four roles has
PolishCommands(p) ==
  {Create("cta", "cta", "cta", "cta", CopyBox(p, "cta")),
   Create("footer_note", None, "footer_note", "footer_note", CopyBox(p, "footer_note"))}
  \cup RoleCommands(p)

Skeleton(p) ==
  LET foundation == [stage |-> "foundation", commands |-> FoundationCommands(p)]
      photo == [stage |-> "photo", commands |-> PhotoCommands(p)]
      copy == [stage |-> "copy", commands |-> CopyCommands(p)]
      polish == [stage |-> "polish", commands |-> PolishCommands(p)]
  IN  IF p.photo THEN <<foundation, photo, copy, polish>> ELSE <<foundation, copy, polish>>

(* --- The scene: buildExecutionSceneSummary.ts ---------------------------- *)

\* Seeded fault: an update counts as the layer of its own row.
LayerOfRow(rows, i, command) ==
  IF rows[i].named THEN Layer(i, command.key) ELSE command.target

\* Seeded fault: an update that was not acked has no layer.
AckedLayerOf(rows, i, command) ==
  IF ~rows[i].named THEN NoLayer
  ELSE IF command.op = "createLayer" THEN Layer(i, command.key) ELSE command.target

\* resolveCommandLayerId: the id the ack of the row gave the key, or the target
LayerOf(rows, i, command) ==
  IF command.op = "createLayer" /\ rows[i].named THEN Layer(i, command.key) ELSE command.target

\* findLatestCommandByExecutionSlot and findLatestGraphicCommandByRole: the last
\* row with a command whose field has the value, whatever its answer was
Latest(rows, field, value) ==
  LET found == {i \in DOMAIN rows : \E c \in rows[i].commands : c[field] = value}
  IN  IF found = {} THEN [observed |-> FALSE, layer |-> NoLayer, box |-> Box(0, 0, 1, 1)]
      ELSE LET i == Max(found)
               command == CHOOSE c \in rows[i].commands : c[field] = value
           IN  [observed |-> TRUE, layer |-> LayerOf(rows, i, command), box |-> command.box]

SceneOf(p, rows) ==
  [copy |-> [slot \in p.slots |-> Latest(rows, "executionSlotKey", slot)],
   graphic |-> [role \in p.roles |-> Latest(rows, "role", role).layer],
   photo |-> Latest(rows, "executionSlotKey", "hero_image").layer]

(* --- The judge and the decision: buildJudgePlan.ts, buildRefineDecision.ts *)

Visible(scene, slot) == scene.copy[slot].layer # NoLayer

\* hasCopyBoundsConflict
CopyConflict(scene) ==
  \E a, b \in DOMAIN scene.copy :
    /\ a # b /\ Visible(scene, a) /\ Visible(scene, b)
    /\ BoundsOverlap(scene.copy[a].box, scene.copy[b].box)

CtaContainerResolved(scene) ==
  "cta_container" \in DOMAIN scene.graphic /\ scene.graphic["cta_container"] # NoLayer

\* mapPreflightIssues passes these on, the others are dropped
MappedIssues == {"cta_missing_or_weak", "headline_overflow_risk",
                 "concrete_layout_slot_conflict", "cta_copy_overlap_risk",
                 "excessive_empty_space"}

JudgeIssues(p, scene) ==
  (p.preflight \cap MappedIssues)
  \cup When(\E slot \in p.required : ~scene.copy[slot].observed,
            {"execution_slot_identity_missing"})
  \cup When(\E slot \in p.required : scene.copy[slot].observed /\ ~Visible(scene, slot),
            {"slot_materialization_missing"})
  \cup When(CopyConflict(scene), {"topology_bounds_conflict"})
  \cup When(p.ctaContainerExpected /\ ~CtaContainerResolved(scene),
            {"cta_container_missing_after_execution"})
  \cup When(/\ p.density = "dense"
            /\ Cardinality({slot \in p.slots : Visible(scene, slot)}) >= 4,
            {"copy_stack_spacing_weak"})
  \cup When("badge_text" \in p.slots /\ ~Visible(scene, "badge_text"), {"badge_zone_mismatch"})
  \cup When("footer_note" \in p.slots /\ ~Visible(scene, "footer_note"), {"footer_zone_mismatch"})

\* the issues with patchable: false
Unpatchable == {"execution_slot_identity_missing", "slot_materialization_missing",
                "badge_zone_mismatch", "footer_zone_mismatch"}

Recommendation(issues, attempt) ==
  CASE issues = {} -> "keep"
    [] issues # {} /\ issues \ Unpatchable # {} /\ attempt = 0 -> "refine"
    [] OTHER -> "warn_only"

\* the operations of the patch plan; a second pass never gets any
PatchOperations(issues, attempt, spacing) ==
  When(Recommendation(issues, attempt) = "refine" /\ attempt = 0,
       When("cta_missing_or_weak" \in issues, {"rewrite_cta"})
       \cup When("headline_overflow_risk" \in issues, {"rewrite_headline"})
       \cup When(issues \cap {"concrete_layout_slot_conflict", "cta_copy_overlap_risk",
                             "topology_bounds_conflict"} # {},
                 {"cta_to_bottom_center", "spacing_balanced"})
       \cup When(issues \cap {"excessive_empty_space", "copy_stack_spacing_weak"} # {},
                 {IF spacing = "dense" THEN "spacing_balanced" ELSE "spacing_airy"})
       \cup When("cta_container_missing_after_execution" \in issues, {"expect_cta_container"}))

(* --- The refinement: emitRefinementMutations.ts -------------------------- *)

\* applyPatchPlanToExecutablePlan: the rewritten texts leave no trace here, no
\* box or identity depends on them
ApplyPatch(p, operations) ==
  [p EXCEPT !.anchors = IF "cta_to_bottom_center" \in operations
                        THEN [@ EXCEPT !["cta"] = "bottom_center"] ELSE @,
            !.page.spacing = CASE "spacing_balanced" \in operations -> "balanced"
                               [] "spacing_airy" \in operations -> "airy"
                               [] OTHER -> @,
            !.ctaContainerExpected = @ \/ "expect_cta_container" \in operations]

\* resolveExistingLayerId
ExistingLayer(scene, command) ==
  LET slot == command.executionSlotKey
      byRole == IF command.role \in DOMAIN scene.graphic THEN scene.graphic[command.role]
                ELSE NoLayer
  IN CASE slot = "hero_image" -> scene.photo
       [] slot \in DOMAIN scene.copy /\ Visible(scene, slot) -> scene.copy[slot].layer
       [] OTHER -> byRole

\* convertCreateCommandsToPatchCommands: what has a layer is updated, of the rest
\* only the container of the cta is created again
PatchCommands(scene, commands) ==
  {[c EXCEPT !.op = "updateLayer", !.target = ExistingLayer(scene, c)] :
     c \in {d \in commands : ExistingLayer(scene, d) # NoLayer}}
  \cup {c \in commands : ExistingLayer(scene, c) = NoLayer /\ c.role = "cta_container"}

\* buildRefinementProposal
RefinementCommands(p, scene) ==
  PatchCommands(scene, CopyCommands(p)) \cup PatchCommands(scene, PolishCommands(p))

(* --- The nodes of the graph ---------------------------------------------- *)

\* buildStageAckRecord, and the ledger row the API keeps of the same mutation
Row(stage, commands, answer) ==
  [stage |-> stage, commands |-> commands, answer |-> answer,
   named |-> answer = "acked" /\ brief.names]

LastAnswer == Last(history).answer
Revision == Cardinality({i \in DOMAIN history : history[i].answer = "acked"})

Init ==
  /\ brief \in Briefs
  /\ plan = << >> /\ proposals = << >> /\ history = << >>
  /\ pc = "plan" /\ refineAttempt = 0
  /\ judge = [recommendation |-> None, issues |-> {}, operations |-> {}]
  /\ request = << >> /\ record = << >>

\* build_copy_and_abstract_layout_plan ... rule_judge
BuildPlan ==
  /\ pc = "plan"
  /\ plan' = TemplatePlan(brief)
  /\ pc' = "prepare_execution"
  /\ UNCHANGED <<brief, proposals, history, refineAttempt, judge, request, record>>

\* prepare_execution: buildCreateLayerCommand throws on an invalid identity
PrepareExecution ==
  /\ pc = "prepare_execution"
  /\ proposals' = Skeleton(plan)
  /\ pc' = IF \A i \in DOMAIN proposals' : \A c \in proposals'[i].commands : IdentityValid(c)
           THEN "emit_stage" ELSE "threw"
  /\ UNCHANGED <<brief, plan, history, refineAttempt, judge, request, record>>

\* Seeded fault: only a cancel ends the stages.
GoOnUnlessCancelled(answer, rows) ==
  IF answer # "cancelled" /\ Len(rows) < Len(proposals) THEN "emit_stage" ELSE "judge"

\* the edge out of advance_after_ack
AfterAck(answer, rows) ==
  IF answer = "acked" /\ Len(rows) < Len(proposals) THEN "emit_stage" ELSE "judge"

\* emit_stage, await_stage_ack, advance_after_ack
RunStage ==
  /\ pc = "emit_stage"
  /\ \E answer \in Answers :
       LET next == proposals[Len(history) + 1]
       IN  /\ history' = Append(history, Row(next.stage, next.commands, answer))
           /\ pc' = AfterAck(answer, history')
  /\ UNCHANGED <<brief, plan, proposals, refineAttempt, judge, request, record>>

\* the edge out of decide_refine
AfterDecision(operations) ==
  IF operations # {} THEN "emit_refinement_patch"
  ELSE IF LastAnswer = "acked" THEN "emit_save_stage" ELSE "prepare_finalize"

\* build_execution_scene_summary, build_judge_plan, decide_refine
JudgeScene ==
  /\ pc = "judge"
  /\ LET issues == JudgeIssues(plan, SceneOf(plan, history))
         operations == PatchOperations(issues, refineAttempt, plan.page.spacing)
     IN  /\ judge' = [recommendation |-> Recommendation(issues, refineAttempt),
                      issues |-> issues, operations |-> operations]
         /\ pc' = AfterDecision(operations)
  /\ UNCHANGED <<brief, plan, proposals, history, refineAttempt, request, record>>

\* emit_refinement_patch and await_refinement_ack: there is nothing to send after a
\* stage that was not acked, and then the draft is not saved either
EmitRefinement ==
  /\ pc = "emit_refinement_patch"
  /\ refineAttempt' = 1
  /\ IF LastAnswer # "acked"
     THEN pc' = "prepare_finalize" /\ UNCHANGED <<plan, history>>
     ELSE LET refined == ApplyPatch(plan, judge.operations)
              commands == RefinementCommands(refined, SceneOf(plan, history))
          IN  /\ plan' = refined
              /\ IF commands = {}
                 THEN pc' = "prepare_finalize" /\ UNCHANGED history
                 ELSE \E answer \in Answers :
                        /\ history' = Append(history, Row("refine", commands, answer))
                        /\ pc' = "judge"
  /\ UNCHANGED <<brief, proposals, judge, request, record>>

\* emit_save_stage and await_save_ack: the save touches no layer
SaveDraft ==
  /\ pc = "emit_save_stage"
  /\ \E answer \in Answers : history' = Append(history, Row("save", {}, answer))
  /\ pc' = "prepare_finalize"
  /\ UNCHANGED <<brief, plan, proposals, refineAttempt, judge, request, record>>

\* Seeded fault: only a verdict that asks for a patch warns.
WarnBeforePatch == IF judge.recommendation = "refine" THEN judge.issues ELSE {}

\* buildCombinedWarningSummary
Warnings ==
  IF judge.recommendation # "keep" THEN judge.issues ELSE plan.preflight

\* finalizeRun
FinalStatus(warnings, evidence) ==
  CASE LastAnswer = "cancelled" -> "cancelled"
    [] LastAnswer \in {"rejected", "timed_out"} -> "failed"
    [] LastAnswer = "acked" /\ ~evidence -> "save_failed_after_apply"
    [] LastAnswer = "acked" /\ evidence ->
         IF warnings # {} THEN "completed_with_warning" ELSE "completed"

\* prepare_finalize: an acked save may still come back without its evidence
PrepareFinalize ==
  /\ pc = "prepare_finalize"
  /\ \E evidence \in BOOLEAN :
       /\ evidence => LastAnswer = "acked" /\ Last(history).stage = "save"
       /\ request' = [status |-> FinalStatus(Warnings, evidence), warnings |-> Warnings,
                      finalRevision |-> IF LastAnswer = "acked" THEN Revision ELSE 0,
                      evidence |-> evidence
                                   /\ FinalStatus(Warnings, evidence)
                                        \in {"completed", "completed_with_warning"}]
  /\ pc' = "finalize"
  /\ UNCHANGED <<brief, plan, proposals, history, refineAttempt, judge, record>>

(* --- The record: agent-api, runFinalizeLedger.ts, runFinalizeMaterializer.ts *)

\* buildSlotBindings: the last createLayer of an execution slot, under the id its
\* ack gave it or under its own key
CreatesSlot(row, slot) ==
  \E c \in row.commands : c.op = "createLayer" /\ c.executionSlotKey = slot

BindingSlots(rows) ==
  {slot \in CopySlots \cup {"background", "hero_image"} :
     \E i \in DOMAIN rows : CreatesSlot(rows[i], slot)}

SlotBindings(rows) ==
  [slot \in BindingSlots(rows) |->
     LET i == Max({j \in DOMAIN rows : CreatesSlot(rows[j], slot)})
         command == CHOOSE c \in rows[i].commands : c.executionSlotKey = slot
     IN  IF rows[i].named THEN Layer(i, command.key) ELSE Layer(0, command.key)]

REQUIRED_SLOTS == {"background", "headline", "supporting_copy", "cta", "decoration"}

\* resolveRequiredCompatSlot
RequiredSlot(command) ==
  IF command.executionSlotKey \in {"background", "headline", "subheadline", "cta"}
  THEN CompatSlotKey(command.executionSlotKey) ELSE command.slotKey

\* hasMinimumRequiredSlots
MinimumDraft(rows) ==
  \A slot \in REQUIRED_SLOTS :
    \E i \in DOMAIN rows : \E c \in rows[i].commands :
      c.op = "createLayer" /\ RequiredSlot(c) = slot

\* enforceMinimumDraft
TerminalStatus(status, minimum) ==
  IF ~minimum /\ status \in {"completed", "completed_with_warning"} THEN "failed" ELSE status

\* RunFinalizeService: the record takes the corrected status, the run row and the
\* run.completed event keep the one of the request
Finalize ==
  /\ pc = "finalize"
  /\ LET minimum == MinimumDraft(history)
         saved == /\ request.evidence
                  /\ TerminalStatus(request.status, minimum) = request.status
     IN  record' = [terminalStatus |-> TerminalStatus(request.status, minimum),
                    minimumDraftSatisfied |-> minimum, saved |-> saved,
                    slotBindings |-> SlotBindings(history),
                    runStatus |-> request.status,
                    latestSavedRevision |-> IF saved THEN request.finalRevision ELSE 0]
  /\ pc' = "done"
  /\ UNCHANGED <<brief, plan, proposals, history, refineAttempt, judge, request>>

Next ==
  \/ BuildPlan \/ PrepareExecution \/ RunStage \/ JudgeScene \/ EmitRefinement
  \/ SaveDraft \/ PrepareFinalize \/ Finalize

Spec == Init /\ [][Next]_vars

(* --- Properties ---------------------------------------------------------- *)

Statuses == {"completed", "completed_with_warning", "save_failed_after_apply",
             "failed", "cancelled"}
Completed(status) == status \in {"completed", "completed_with_warning"}
Applied(i) == history[i].answer = "acked"

PresetCanvas == CanvasPreset(brief.width, brief.height) # "custom"

\* what the editor shows: the box of the last acked command of each key
ShownKeys == {c.key : c \in UNION {history[i].commands : i \in {j \in DOMAIN history : Applied(j)}}}
ShownBox(key) ==
  LET HasKey(i) == \E c \in history[i].commands : c.key = key
      i == Max({j \in DOMAIN history : Applied(j) /\ HasKey(j)})
  IN  (CHOOSE c \in history[i].commands : c.key = key).box

\* TypeOK: the type invariant: every node of the graph leaves a plan of one of the
\* families, rows of known stages and answers, and a request and a record of known
\* statuses
TypeOK ==
  /\ pc \in {"plan", "prepare_execution", "emit_stage", "judge", "emit_refinement_patch",
             "emit_save_stage", "prepare_finalize", "finalize", "done", "threw"}
  /\ pc # "plan" => /\ plan.page.profile \in Families /\ plan.page.mode \in Modes
                    /\ plan.page.spacing \in Densities
                    /\ plan.slots \subseteq CopySlots
                    /\ \A role \in plan.roles : plan.hints[role] \in plan.zones
  /\ refineAttempt \in {0, 1}
  /\ \A i \in DOMAIN history :
       /\ history[i].stage \in {"foundation", "photo", "copy", "polish", "refine", "save"}
       /\ history[i].answer \in Answers
  /\ judge.recommendation \in {None, "keep", "refine", "warn_only"}
  /\ pc \in {"finalize", "done"} => request.status \in Statuses
  /\ pc = "done" => record.terminalStatus \in Statuses

\* EmissionNeverThrows: whatever the brief, every command of the skeleton has an
\* execution identity buildCreateLayerCommand accepts, so prepare_execution and the
\* refinement never throw
EmissionNeverThrows == pc # "threw"

\* GraphicPlansAreFull: a graphic plan has its four basic roles however few distinct
\* decoration candidates the catalogue returned, so the cta has a container, the
\* draft its decoration, and the warnings about thin plans never come up
GraphicPlansAreFull ==
  pc # "plan" /\ ~plan.photo
    => /\ {"primary_accent", "cta_container", "secondary_accent", "corner_accent"}
            \subseteq plan.roles
       /\ plan.preflight \cap {"cta_copy_overlap_risk", "excessive_empty_space"} = {}

\* NamedLayersAreUnique: when the client names the layers it makes, no key is created
\* twice over all stages and the refinement: a second create would leave two layers
\* of one part in the draft
CreatedTwice ==
  \E i, j \in DOMAIN history : i < j /\
    \E c \in history[i].commands : \E d \in history[j].commands :
      c.op = "createLayer" /\ d.op = "createLayer" /\ c.key = d.key

NamedLayersAreUnique == brief.names => ~CreatedTwice

\* RecordedDraftIsComplete: a draft recorded as completed had every stage of its
\* skeleton, its refinement and its save acked, and binds every copy slot of the
\* copy plan and the background to a layer
RecordedDraftIsComplete ==
  pc = "done" /\ Completed(record.terminalStatus)
    => /\ \A i \in DOMAIN history : Applied(i)
       /\ \A i \in DOMAIN proposals : history[i].stage = proposals[i].stage
       /\ Last(history).stage = "save" /\ record.saved
       /\ plan.slots \cup {"background"} \subseteq DOMAIN record.slotBindings

\* GraphicRecordAgrees: for a graphic draft the completion record says what the run
\* row and the run.completed event say, and a completed run has a saved revision to
\* restore
GraphicRecordAgrees ==
  pc = "done" /\ ~plan.photo
    => /\ record.terminalStatus = record.runStatus
       /\ Completed(record.runStatus) => record.latestSavedRevision > 0

\* SceneMatchesManifest: the layers the worker judged are the layers the API's
\* manifest binds to the same slots: the one reads acks and targets backwards, the
\* other creates forwards, and they agree even after a refinement was refused
SceneMatchesManifest ==
  pc = "done"
    => \A slot \in plan.slots \cap DOMAIN record.slotBindings :
         LET seen == SceneOf(plan, history).copy[slot].layer
             bound == record.slotBindings[slot]
         IN  IF bound.seq = 0 THEN seen = NoLayer ELSE seen = bound

\* PatchWorsensNothing: after the one refinement, acked or refused, the judge never
\* reports an issue it did not report before it
PatchWorsensNothing ==
  [][pc = "judge" /\ refineAttempt = 1 => judge'.issues \subseteq judge.issues]_vars

\* CtaStaysOnItsContainer: on the canvas, through stages and refinement, the
\* container of the cta encloses the cta's box, also when the editor got the new
\* box of only one of them
Encloses(outer, inner) ==
  /\ outer.x <= inner.x /\ inner.x + inner.w <= outer.x + outer.w
  /\ outer.y <= inner.y /\ inner.y + inner.h <= outer.y + outer.h

CtaStaysOnItsContainer ==
  {"cta", "cta_container"} \subseteq ShownKeys
    => Encloses(ShownBox("cta_container"), ShownBox("cta"))

\* LayersOnCanvas: whatever the canvas, the families' boxes, the moves that follow
\* them and the patches, nothing the editor was sent sticks out of the canvas; only
\* the container of the cta, which grows around a fitted box, may
LayersOnCanvas ==
  \A i \in DOMAIN history : \A c \in history[i].commands :
    c.role # "cta_container" => OnCanvas(c.box, brief.width, brief.height)

\* CopyStackClear: on the preset canvases a headline of one line leaves the planned
\* copy boxes apart, whatever family, slots and density; only an airy stack is too
\* tall for the wide canvas
CopyStackClear ==
  pc # "plan" /\ PresetCanvas /\ brief.headline <= 24
    /\ ~(plan.density = "airy" /\ brief.height = 628)
    => \A a, b \in DOMAIN plan.planned :
         a # b => ~BoundsOverlap(plan.planned[a], plan.planned[b])

\* CompletedIsClean: a run that ends as completed, without a warning, shows every
\* drafted copy slot, apart from the others, and the container of its cta
SlotKey(slot) ==
  CASE slot = "subheadline" -> "supporting_copy"
    [] slot = "offer_line"  -> "price_callout"
    [] slot = "badge_text"  -> "badge"
    [] OTHER -> slot

CompletedIsClean ==
  pc = "finalize" /\ request.status = "completed"
    => /\ {SlotKey(slot) : slot \in plan.slots} \cup {"cta_container"} \subseteq ShownKeys
       /\ \A a, b \in plan.slots :
            a # b => ~BoundsOverlap(ShownBox(SlotKey(a)), ShownBox(SlotKey(b)))

(* --- What the documents say and the code does not keep (README, section 5) - *)

\* RecordAgrees: the completion record and the run row tell the same outcome, for a
\* photo draft too
RecordAgrees == pc = "done" => record.terminalStatus = record.runStatus
=============================================================================
