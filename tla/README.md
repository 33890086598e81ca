# The agent runtime, specified

TLA+ specifications of the Tooldi agent runtime (`src/tooldi-agent-runtime`): an
HTTP API that accepts a run, hands it to a queue, and closes it, and a worker
process that plans a template draft, proposes canvas mutations one by one, waits
for the editor to acknowledge them and finalizes the run. Paths below are
relative to `src/tooldi-agent-runtime`; API stands for `apps/agent-api/src`, WK
for `apps/agent-worker/src`.

## 1. Inventory

| Component | State | Operations | Interacts with |
| --- | --- | --- | --- |
| `API/services/runBootstrapService` | request, run and attempt rows | `startRun` (dedupe, create rows, enqueue, activate) | queue, watchdog, SSE log |
| `API/services/runCancelService` | `run.status`, `run.cancelRequestedAt` | `acceptCancel` | watchdog |
| `API/services/runAckService` | ledger ack, `run.lastAckedSeq` | `acceptMutationAck` | editor, ledger |
| `API/services/runWatchdogService` | pickup and finalize-grace timers | `trackEnqueuedAttempt`, `observeSignal`, `handleCancelRequested`, two timer handlers, `retryOrFail`/`scheduleRetry` | queue, finalize, SSE log |
| `API/services/runRecoveryService` | lease, heartbeat, attempt state, ledger rows | `acceptHeartbeat`, `appendWorkerEvent`, `waitForMutationAck` | worker |
| `API/services/runFinalize*` | terminal status, bundle and completion rows, objects | `finalizeRun`, materialization | worker, watchdog, object store |
| `API/repositories/*` | JavaScript Maps, one record each per key | create, find, update | all services |
| `API/plugins/queue` | BullMQ queue, or an in-memory list | `enqueueRunJob`, `tryRemoveQueuedJob`, transport signals | Redis, watchdog |
| `API/plugins/sseHub`, `routes/public/run-events.sse` | event log, subscribers | publish, replay, subscribe | clients |
| `WK/lib/runQueueConsumer`, `jobs/processRunJob` | the job in execution | take a job, run the graph | queue |
| `WK/graph/*` | LangGraph state of one run | plan, emit stage, await ack, judge, refine, save, finalize nodes | API callbacks |
| `WK/phases/selectTemplateComposition`, `buildCopyAndAbstractLayoutPlan`, `buildConcreteLayoutPlan`, `layoutGeometry`, `buildExecutablePlan`, `ruleJudge*` | none (pure functions) | from a brief to a plan: layout mode, roles, slots, boxes, preflight verdict | graph nodes |
| `WK/phases/emitSkeletonMutations`, `emitRefinementMutations`, `buildExecutionSceneSummary`, `buildJudgePlan`, `buildRefineDecision` | `stageAckHistory` in the graph's state | stages, scene, verdict, patch | graph nodes, editor |
| `WK/phases/resolvePlannerDraft`, `normalizeTemplateIntent`, `intentRepairPipeline`, `intentInference`, with `packages/agent-llm`'s planners and asset policy | draft, intent and report in the graph's state | draft an intent by model or heuristic, repair it against the prompt | language model, graph nodes |
| `WK/phases/buildTemplatePriorSummary`, `buildSearchProfile`, `candidateSearchers`, `assembleTemplateCandidates` | template prior, search profile | queries of two catalogue surfaces, searched side by side | catalogues, graph nodes |
| `WK/phases/*`, the others | none | candidate scoring, typography, texts of issues | graph nodes |
| `packages/domain` | none | statuses, attempt states, ids | everything |
| `packages/contracts`, `config`, `observability`, `testkit` | none | schemas, environment, logs, doubles | everything |
| the rest of `packages/agent-llm`, `tool-adapters`, `tool-registry`, `agent-graph`, `persistence` | external services | planner calls, catalogue calls, object store | graph nodes, API |

### What is hard

* *Interleaving of handlers.* The API is one Node process and every repository
  is an in-memory Map, so a handler is interrupted only where it awaits Redis or
  the object store. There it resumes with the run it read before
  (`scheduleRetry`, `handleCancelRequested`, `startRun`, `finalizeRun`).
* *Several requests at once.* Deduplication looks a key up after two writes to
  the object store; a repeated request may be answered with a run that is still
  being enqueued and may yet fail.
* *Two readers of one growing log.* The SSE route subscribes, lists and replays,
  while events are stored and published one after the other and connections are
  lost.
* *Documents of a run that goes on.* A finalize reads the ledger once, puts two
  objects, and only then writes the rows; acknowledgements, a retry and the
  retry's own finalize come in between, under the same keys.
* *Timeouts and retries.* Pickup timer, enqueue timeout, finalize-grace timer,
  failed and stalled signals, all able to act on the same attempt; a retry
  budget checked before the awaits.
* *Unreliable peers.* Workers die, go on after their run was retried or closed,
  lose their finalize; jobs land after their enqueue was given up;
  acknowledgements come late, twice, or out of order.
* *Things that must happen.* A run that a client started has to be closed,
  whatever its workers do.
* *Views of one draft.* The plan, the acknowledged rows, the scene the worker
  reads back, the patch, and the record the API projects from its ledger are
  computed apart from each other, from the same commands, after stages that may
  have been refused; the boxes come from fixed offsets and percentages.
* *Drafts nobody vouches for.* A language model answers any combination of enum
  values, keywords and policies. The repair goes facet by facet, each from other
  signals of the prompt, and what one facet lost another may keep; the policy is
  normalized at four places by a function that is not idempotent.

### What makes each component correct

* Lifecycle: one attempt row per attempt, a bounded number of attempts, no
  restart once the user has seen something or asked to stop, one terminal
  status that stays, one terminal event that agrees with it, and no run
  forgotten.
* Callbacks: only the active attempt's worker changes the run; the ledger lists
  the attempts' mutations attempt by attempt; a cancel stops proposals.
* Admission: objects and rows before the job that refers to them, one open run
  for the first request of a key, an answer to every request.
* Event stream: every event of the run, once and in order, over all connections.
* Finalize documents: references that resolve, a saved revision only on the
  editor's evidence, a completed bundle that nothing changes any more.
* Worker graph: one mutation at a time, one refinement, nothing after a stop,
  a completion only with a save, an end.
* Front end: an intent whose facets, keywords and queries agree with each other
  and with the prompt; a planner that never leaves a run without a draft.
* Draft: layers inside the canvas and apart, no part made twice, a patch that
  makes nothing worse, a scene that is the draft, a record that is complete and
  says what the run says.

## 2. Modules

| Module | Models | Theorems |
| --- | --- | --- |
| `RunDomain` | `packages/domain`: statuses, attempt states, and the maps between them that the services use | |
| `RunLifecycle` | one run in the API: bootstrap, cancel, ack, watchdog, callbacks, finalize, with queue, workers, editor and client as environment | |
| `RunContract` | abstract: what a client is promised of one run | |
| `RunLifecycleMC` | values of the constants for TLC | |
| `RunLifecycleProofs` | | 15 |
| `RunAdmission` | `startRun` over several requests: objects, rows, deduplication, enqueue, answers | |
| `RunAdmissionMC` | values of the constants for TLC | |
| `RunAdmissionProofs` | | 5 |
| `Positions` | listing a set in order, picking positions of a sequence, filtering it | |
| `PositionsProofs` | lemmas: what these return, for sequences of any length | |
| `EventStream` | the event log, the hub's listeners and the SSE route, with clients that lose their connections | |
| `EventStreamMC` | values of the constants for TLC | |
| `EventStreamProofs` | | 3 |
| `FinalizeDocuments` | bundle, checkpoint, completion row and run references, with the worker's report they are made from | |
| `FinalizeDocumentsMC` | the instance for TLC | |
| `FinalizeDocumentsProofs` | | 5 |
| `WorkerGraph` | one attempt as the worker's graph executes it, with the ledger and the long poll it depends on | |
| `WorkerGraphMC` | values of the constants for TLC | |
| `WorkerGraphProofs` | | 5 |
| `LayoutGeometry` | `layoutGeometry.ts`: the box of every part, preset, anchor and zone | |
| `TemplatePlan` | selection, drafts, concrete layout, preflight and executable plan, as one function of a brief | |
| `DraftPipeline` | one draft: plan, stages, scene, judge, patch, save, finalize, and the record the API stores | |
| `DraftPipelineMC` | the briefs for TLC | |
| `DraftPipelineProofs` | with the lemmas about the boxes of `LayoutGeometry` | 12 |
| `AssetPolicy` | `templatePlannerAssetPolicy.ts`: normalization of a policy | |
| `IntentRepair` | both planners' drafts and their repair | |
| `SearchPlan` | template prior, search profile, and the judge's comparison of it | |
| `PlanningFrontEnd` | the planning nodes up to the candidates, with the two searches | |
| `PlanningFrontEndMC` | the requests for TLC | |
| `PlanningFrontEndProofs` | with the lemmas about policies, keywords, repair and search profile | 4 |

### RunLifecycle and the code

* `status`, `active`, `cancelAt`, `lastAcked` are the fields of the run row that
  any handler reads; `run.queueJobId` is the job of attempt `active`
  (`createQueueJobId` derives it from run and attempt number), so attempts are
  named by their number everywhere.
* `records[s]` counts the rows with attemptSeq `s`, since nothing in
  `runAttemptRepository.create` forbids a second one; `attemptState[s]` is the
  state of the first, the one every lookup returns. `leased` is
  `leaseRecognizedAt # null`.
* `handler` holds what a suspended handler resumes with: the continuation after
  `tryRemoveQueuedJob` or `enqueueRunJob` or `materializeRunArtifacts`.
* `job`, `orphans`, `signals`, `worker` are the environment: BullMQ's view of a
  job, adds whose timeout was reported but which may still land, QueueEvents not
  yet delivered, and the process executing the job.
* `dropped` is history no action reads: the attempts whose retry or forced close
  ended in a remove that threw. Nothing in the API remembers them.
* `terminalEvents` is the part of the run's SSE log that says it ended.

*Grain of atomicity.* A handler that awaits repositories only is one action. A
handler that awaits Redis or the store is split there. `LoopFree` lets a new request,
timer or signal in only when every handler in progress has given the loop up, and
`QueueOpsYield` and `StoreOpsYield` say whether handlers in progress do so at such an
await. In memory they never do, the promises are resolved already; for BullMQ and the
filesystem, FALSE selects the schedules in which each answer arrives before the next
request, timer or signal.

*Two queues.* `UsesBullmq` says which producer the API has. BullMQ's may reject an add,
time out and let the add land later, and lose a worker's lock; its
`tryRemoveQueuedJob` asks Redis three times and catches nothing, so it may throw in any
state of the job (`RemoveThrows`). The in-memory producer does none of this: it takes
every job, removes any it has, and never calls its observers, so that no action
produces a signal, and `Fairness` promises no end of a job, unless `UsesBullmq`.

*Abstractions.* A deadline is a choice (`inTime`), since it is only compared
with the clock. The delay of a retry and the length of timers are left out,
except for one fact: a lock lasts longer (30 s) than an enqueue is waited for
(2 s). The three round trips of BullMQ's `tryRemoveQueuedJob` are one step that
may answer, find nothing, or throw and leave the job where it is. A heartbeat may come
with a phase or without one (`StatusOfBeat`). Two continuations resolved in the same tick
are not interleaved further. A restart of the API is not modelled: nothing it
keeps survives one. Callers name the run, trace and job they were given: the
mismatch errors (404, 409) change nothing and are the guards of the callbacks.

### RunContract and its implementation

`RunContract` has no handlers, timers or workers: a run is accepted, executed at
most `MaxExecutions` times and not again once its user saw something or asked to
stop, and closed once, with one announcement that says what the run says.
`RunLifecycle` states the refinement mapping (`Contract`): `PhaseOfRun` of the
status, the active attempt, `lastAckedSeq` and the terminal events of the log. Any
other step, of a timer, a signal or a callback, is a stutter. That one property
stands for a list of single ones, which `RunLifecycleProofs` still proves one by
one: final terminal statuses, cancels that stick, no retry after a visible
acknowledgement or an accepted cancel, one terminal event.

### RunAdmission and the code

* A request is a number, its `requestId` and `runId` as well; `key` is the dedupe
  key it came with. `call[r]` is the await its handler is suspended at: the put of
  the request object, the put of the snapshot, the enqueue (`landed` once the job
  is in the queue), or `done` and `refused`.
* `rows` is the Map of request rows in its insertion order, which
  `findByDedupeKey` walks; `status` the run rows; `watched` the runs with an
  attempt row and an armed pickup timer, which `startRun` makes in one step.
* `CreateRun` is everything between the snapshot's put and the enqueue: the lookup,
  the rows and the call of the queue, without an await that yields.
* A put may fail, an add may fail, time out, or land after it was given up (`late`).
* A run's further life is `RunLifecycle`'s: here it ends at any time once it was
  enqueued (`RunCloses`), and says so on its log. Where awaits yield, a handler that
  resumes may close a run that is closed already, or a retry open it again
  (`RunReopens`), as `run_forgotten` shows that the code does.

### EventStream and the code

* `log` is `runEventRepository.records`, one log for all runs; an event's id is its
  offset. `unpublished` are events stored whose `sseHub.publish` is the next step of
  `RunEventService`.
* `Connect` is the route up to `await listAfter`, which reads the Map before it
  yields: cursor, subscription, list. `Replay` is the rest. `delivered` is
  `deliveredEventIds`.
* `wire` is what was written and not read yet. `Drop` loses it; the client connects
  again with the last id it read.
* `AwaitsYield` FALSE is the code as it is: the repository is in memory, and the
  promises awaited are resolved already. TRUE lets other handlers run there:
  nothing is missed then either (`NothingMissed`), but it may come out of order.
* `InOrder` (`Positions`) lists a set of offsets the way a filter of the log does.
* Left out: the hub's own buffer, which no route reads, and keep-alive comments. A
  listener that a lost connection left behind writes where nobody reads.

### FinalizeDocuments and the code

* `worker`, `assigned`, `last` are what `finalizeRun` of the worker reads
  (`assignedSeqs`, `lastMutationAck`); `Reported`, `SourceMutationRange` and
  `ReconciledThroughSeq` are what it sends. `Normalized` and `MinimumDraft` are what
  the API makes of it (`normalizeFinalizeInput`, `enforceMinimumDraft`).
* `handler[s]` is where the finalize of attempt `s` is suspended: at the put of the
  checkpoint, of the bundle's file, or of its metadata; `Bind` writes both rows and
  the run's references.
* `doc` is the one document all of these are views of: the status the run takes, the
  one the record has, the evidence, and the ledger's answers in the range.
* `checkpoint` and `bundleObject` are single: their keys are made of the run's id.

*Abstractions.* The filesystem store, with whole-file writes. Three stages stand
for the worker's six (`WorkerGraph` has them all): with fewer there would be no
stage that is neither first nor last. Whether the stages draw the decoration is a
choice made once. A retry is one step: nothing here depends on the queue. The
worker's override by a refused plan, which only makes the reported status worse,
is `WorkerGraph`'s.

### WorkerGraph and the code

`RunLifecycle` lets a worker call back anything at any time; `WorkerGraph` says
what it does call. The two meet in the callbacks' guards: `Served` is
`findRunAndAttempt` seen from this attempt, and `run` is the little of the run
row that its answers show.

* `at` is the next callback, as `<<node, step>>`. Every heartbeat, log, phase,
  proposal, acknowledgement wait and finalize is an action, followed by the
  node's code up to the next one; nodes without a callback are folded into it.
* `stop`, `stage`, `mutation`, `lastAck`, `assigned`, `history`,
  `refineAttempt`, `verdict`, `judge`, `readiness`, `draft` are the LangGraph
  state's fields that an edge or `finalizeRun` reads; nodes write them back
  when they return, and no node reads them in between.
* `ledger` is the run's mutation ledger, with the rows an earlier attempt left.
  They are unacknowledged when the retry starts, since `canRetry` asks for that;
  the editor may still acknowledge them.
* `WaitForAck` reads the run's status once, `polling` is the loop of
  `waitForAck`, and it ends with an acknowledgement or with the timeout, never
  with a cancel that came after it began.

*Abstractions.* What the judges find is a choice among their recommendations;
whether a patch has commands is a choice, since it depends on the layers the
editor named. The two sorts of planning failure, and the source logs of
`persist_selection_artifacts`, whose number depends on the data, are one step
each. Whether a planner had a draft is not related to whether the scope is
supported. `emittedMutationIds` feeds a log only and is left out. The editor
answers a mutation once: a repeated acknowledgement with the same outcome
changes nothing here. A thrown node ends the attempt (`processRunJob` retries
nothing); what becomes of the run then is `RunLifecycle`'s.

### The draft: LayoutGeometry, TemplatePlan, DraftPipeline

`WorkerGraph` leaves open what the judge finds and whether a patch has commands;
`DraftPipeline` computes it, and in turn takes a stage, its polling and its
answer as one step. The two agree on the edges of `runJobGraphEdges.ts`.

* A *brief* holds what other programs decide: canvas, asset policy, intent, the
  best photo candidate, how many distinct decorations the catalogue returned,
  the family, density and slots of the drafts, the length of the headline, and
  whether the client names its layers in its acks (`resolvedLayerIds` is optional
  in the contract). `TemplatePlan(brief)` is what the build nodes make of it.
* `plan` is the executable plan with the copy, asset and concrete layout plans
  it is made from; only `applyPatchPlanToExecutablePlan` changes it.
* `proposals` is `skeletonBatch.proposals`; a command is the record of what the
  later readers look at: operation, client key, both slot keys, role, box,
  target. The commands of a proposal are a set, nothing depends on their order.
* `history` is `stageAckHistory` and, row for row, the API's mutation ledger of
  the attempt; `SceneOf` reads it backwards for the worker, `SlotBindings`
  forwards for the API. A layer is named by the row and key that created it.
* `judge`, `request` and `record` are the decision, the finalize request and
  what `RunFinalizeService` stores.

*Abstractions.* Texts, colours, fonts and scores are left out; a text counts by
its length, in the headline, or as one the preflight calls weak
(`copy_cta_subject_mismatch` and `copy_subject_leakage` are patched the way
`cta_missing_or_weak` and `headline_overflow_risk` are). The underline bar and
the single decoration are left out: no plan has them, since every plan has at
least three roles or a photo. A cancel seen between stages, sequence numbers and
a retry are `WorkerGraph`'s; a run that fails before its first mutation leaves
no record and is `RunLifecycle`'s. Which slots are required is fixed as the fallback
draft has it, headline and cta are always there and the headline's limit is the
fallback's 28, although a drafted plan may choose flags and a limit (4 to 80) of its own
and lose an optional headline that trims to nothing. The client names the layers of
every stage or of none, so a history that is named in part is not exercised, and an
update is taken to keep its target, although an ack may name the layer again. The
warnings about degraded sources (`representativeWarnings`) are left out: they only add
to what `Warnings` has.

### The front end: AssetPolicy, IntentRepair, SearchPlan, PlanningFrontEnd

`DraftPipeline` begins with a brief; these modules say where its intent comes
from. Every `VARIABLE` of `PlanningFrontEnd` but `request` and `node` is a field
of the graph's state; an action is a node, except that `assemble_candidates` has
a step per answer of the catalogue, since `Promise.all` runs both ladders at once
and leaves one running when the other fails.

Texts are sequences of words, and the code sees a word only through its tables
(exact match) and patterns (occurrence). `Vocabulary` has one word for each of the ways
they answer that the properties tell apart:

| Word | Stands for |
| --- | --- |
| `spring`, `sale`, `coupon`, `event`, `promotion` | 봄; 세일, 할인; 쿠폰; 이벤트, 오픈; 프로모션 |
| `new-menu`, `new-item`, `launch`, `launching` | 신메뉴, 계절메뉴; 신상; 출시; 런칭, 론칭 (which the planner's own list lacks) |
| `diner`, `cafe`, `fashion`, `style` | 식당; 카페; 패션; 스타일, 쇼핑 (a keyword only) |
| `drink`, `latte`, `menu`, `brunch` | 음료, 커피; 라떼 (no signal of a prompt); 메뉴, 요리; 브런치 (no menu to the planner) |
| `icon`, `bitmap`, `calligraphy`, `ai-made`, `creator` | the cues of the graphic's type, category and method |
| `menu!`, `--`, `spring-menu`, `overlong`, `plain` | punctuation, nothing but punctuation, a compound (봄메뉴), more than 20 characters, none of these |

Words that differ from these in one list only are left out: synonyms in the sale and
event lists (특가, 행사), 브랜드, meal words that only the menu pattern knows, food words that
only `hasMenuSignal` and the frame's category know (차, food). So are tone, colours, fonts, texts for people, and the draft's
copy and layout plans (`TemplatePlan` starts from those). A theme, price or owner is
never set by this version of the profile.

## 3. Runs

| Run | Configuration | Question |
| --- | --- | --- |
| `lifecycle_local` | BullMQ, no handler interrupted, 2 handlers, 2 attempts, 2 mutations | is the lifecycle one of the contract's when no handler is interrupted, and do its rows, ledger and attempt states stay in step? |
| `lifecycle_bullmq` | BullMQ and a yielding store, 2 handlers, 2 attempts, 1 mutation | which promises survive interleaved handlers? |
| `lifecycle_liveness` | BullMQ, handlers interrupted at the store only, fairness | is every accepted run closed for good, unless a remove threw? |
| `run_forgotten` | BullMQ, handlers interrupted at Redis, no mutations, fairness | the same: it is not (section 5) |
| `run_admission` | filesystem store, BullMQ, 2 keys of one page, 3 requests, fairness | what exists at every await of requests that repeat, overlap and fail half way, and of runs closed and reopened, and are they answered? |
| `event_stream` | 2 clients, 2 runs, 4 events, 2 losses each, fairness | does a client read its run's log without gap or repetition, and to its end? |
| `finalize_documents` | 3 attempts | what do bundle, checkpoint, rows and ledger say of each other? |
| `worker_attempt` | first attempt or retry, 3 or 4 stages, 7 rows, fairness | does the worker publish in lockstep, stop when told, report no more than it has, and end? |
| `worker_unsaved_draft` | as `worker_attempt` | a documented promise the worker does not keep (section 5) |
| `draft_pipeline` | 3,118 briefs | do plan, stages, scene, patch, save and record fit together, and the layers on the canvas? |
| `planning_front_end` | 18,828 requests | do intent, keywords, policy and queries agree, whatever a planner answered? |
| `planner_fallback` | as `planning_front_end` | a documented promise the fallback does not keep (section 5) |

A property that a theorem states for every value of the constants, or that
`ImplementsContract` contains, is not run a second time, unless it is the subject of
the run: so the type invariants but for `WorkerGraph`'s, `EmissionNeverThrows` and
`GraphicPlansAreFull`.

*Bounds.* `MaxQueueAttempts` is the code's default, 2: a first attempt, its
retry, and the number past the budget (`Seqs`) so that exceeding it is a
reachable state. Two suspended handlers are enough for every pair of handlers
to overlap; an overlap of three adds no new pair. Mutations bound the ledger:
two let an acknowledgement be late or out of order and let two attempts propose;
the BullMQ run keeps one, since its properties do not look at the ledger. Beats,
phases and outcomes are one representative of each way the API treats them; in
`lifecycle_bullmq` there are no beats or phases besides log lines and mutations, since
all of them prove the lease the same way and its properties look at nothing else of
them. All lifecycle runs use BullMQ: the in-memory queue has fewer behaviours of the
queue and the same handlers, and the theorems speak of both.

`lifecycle_bullmq` uses a VIEW that keeps only the last terminal event: no
action reads the list and that run's properties read its end only. Handlers are
interchangeable (`SYMMETRY`), except in the liveness runs.

The worker publishes at most four stages, one patch and one save; with one row
of an earlier attempt that is 7 rows (`MaxMutations`), so the bound is never
reached. `MCBatches` are the two batches `emitSkeletonMutations` can return.
One earlier row is enough for the ledger's numbers to differ from the batch's.

The product of all briefs is out of reach, and not needed: what the selection,
the layout and the client look at overlap in few fields. `SelectionBriefs` varies
canvas, policy, domain, intent and photo; `LayoutBriefs` canvas, family, density,
slots, headline and photo; `ClientBriefs` the number of candidates, the warnings
and the client's names. The canvases are the three presets, a custom one, and
one smaller than any layout was made for (320 by 240), which the boxes have to
survive. Headlines have one or two lines, or more than are read. In each, every
stage, patch and save may be acked, rejected, time out or be cancelled.

The requests vary what one part of the front end looks at: `FacetRequests` every
facet of an answer against prompts of one and two words, `KeywordRequests` every
pair of keywords (beside the heuristic's five), `PolicyRequests` every policy
without repetitions, `PromptRequests` prompts at the limits and no answer, and
`SearchRequests` the catalogue, whose ladders have at most five queries and may
hit, miss or fail at each.

`RunAdmission` needs two requests of one key to repeat and overlap, and a third,
of the same key or of another key of the page, to come after both; a fourth only
repeats these. In `EventStream` two losses let a client resume twice, before,
during and after the events of four; two clients share the log with another run's
events, so that offsets and the run's own count differ. Three attempts in
`FinalizeDocuments` let the finalizes of two overlap while a third is at work: 2.3
million states.

Deadlock is not checked: a closed run with nothing left to deliver stops, and so
does the front end at `select_composition`.

*Fairness* (`FairSpec`). Suspended handlers resume (Redis and the file system answer,
or the enqueue timeout does), timers fire and QueueEvents are delivered, and a job
that a worker took ends (the graph is bounded by its recursion limit, and the lock of
a dead worker expires). Nothing is assumed of clients, of the editor, of a worker
picking a job up, or of what a worker calls back. In `RunAdmission`, the file system
answers, and the queue or its timeout does. In `EventStream`, the API's own
continuations run, an established connection transmits, and a client that lost its
connection opens another, as `EventSource` does; how often it is lost is bounded, so
that an event arrives in the end. In `WorkerGraph`, `FairSpec` is weak fairness of
the worker's steps: its process runs, the API answers, and the long poll ends after
`waitMs`. Actions are grouped per handler and per attempt because a handler's
continuation and its timeout race each other; only that one of them happens is
certain. In the run lifecycle the end of a job is fair only with BullMQ: in memory there is
neither a lock nor a signal.

## 4. Theorems

`RunLifecycleProofs` proves, for every value of the constants (any retry budget,
any number of handlers suspended at once, any number of mutations, yielding or
not):

* `TypeCorrect`, by `TypeInv`: the types and what each suspended handler carries
  (`HandlersCarry`: a retry in progress is below the budget, a finalize resumes
  with a terminal status). Without it neither the next attempt's number nor the
  status a finalize binds is known to be in range.
* `RetryBudgetHolds`, by `BudgetInv`: neither rows, jobs, the active number nor
  the adds still in flight exceed the budget.
* `TerminalIsAnnounced`: the log ends with the event of the run's status.

And for handlers that are never interrupted (`HandlersAtomic`): one terminal
event, run and attempt closed together, one row per attempt, the ledger in order
of attempts, terminal statuses final, cancels that stick, no retry after a
visible ack or an accepted cancel. The invariant is `AtomicInv`: at most one
handler is suspended (`Solo`), what it read still holds (`StillTrue`), rows
exist for exactly the attempts up to the active one (`Rows`), and the cancel
fence is up from the accepted cancel to the close (`Fenced`). Every step then
either closes the run, together with its attempt and its one event (`Closes`),
or leaves a closed run alone (`Keeps`); the theorems are read off that lemma.
The assumption is needed: each of these properties except the budget fails when
an await yields, as section 5 says of most of them.

*A run is watched until it is closed* (`WatchedUntilClosed`): `NoRunIsForgotten`
proves it for either queue, any handlers in any order, with the default budget of two
attempts, and `AtomicForgetsNoRun` for any budget when handlers are not interrupted.
The property names the two ways in which the code does lose an open run: a remove that
threw while the watchdog was giving its active attempt up (`dropped`), and, in memory,
a leased attempt, of which no queue reports anything. What is proved is that there is
no third one.
`WatchInv` is three parts. `RowsPart` says which rows there are and
which a suspended handler relies on; `JobsPart`, that a job or worker without a row has its enqueue
still in progress; `WatchPart`, that an open run has a handler that will act on
its active attempt (`Works`), or a job whose end will be heard (`Tracked`), or a
timer of an attempt that no worker holds (`Awaited`), or was let go in one of the two
ways (`LetGo`). The property alone is not
inductive: it says nothing of the handler that a timer has been traded for. All
parts are needed only while no terminal event was written. With three attempts
and BullMQ it is false, and the proof shows where: it needs the active attempt to
be the newest (`Newest`). TLC finds 21 states in which both failures of attempt 1
are being retried, one of them moves the run to attempt 2 and on to 3, and the
other resumes and makes attempt 2, which has ended, the active one again.

*An attempt that ended stays ended* (`AtomicEndedStaysEnded`), for atomic
handlers and for workers whose heartbeats carry the states of an attempt at work
(`BeatsAtWork`), which are the four the worker's nodes send. `EndedPart` says that
the active attempt of an open run has ended only while its retry is under way, or when
that retry was dropped by a remove that threw; such an attempt is excepted, since its
worker is still served and its next heartbeat does show it at work.

Assumptions are the named ones of `RunLifecycle`, which TLC evaluates in every
run: at least one attempt, BOOLEAN switches, and beats, phases and outcomes
drawn from the domain's sets.

`AtomicImplementsContract` follows from the same invariant:
every step of `RunLifecycle` with atomic handlers is a step of `RunContract` or
leaves what a client sees unchanged. Lemmas of its own say which steps move the active
attempt (only two, by one, below the budget and before anything was seen), and
which move `lastAckedSeq` (an acknowledgement of a row of the ledger, upwards). The
assumption `HandlersAtomic` cannot be dropped: with BullMQ the refinement fails.

`RunAdmissionProofs` proves, for any number of keys, pages and requests and any
store and queue, its type invariant (`AdmissionTypeCorrect`), `QueuedJobsAreReadable`,
`AnswersAreFollowed`, `FirstRunHasItsKey` and `OpenRunsAreWatched`. `AdmissionInv` says
what a handler has done by where it is suspended (`CallsPart`), what a run row stands
for (`RunsPart`), that answers name runs of their key (`AnswersPart`), and that a key
with several rows has a first one that has announced its end (`RowsPart`): without the
last one the lookup, which sees the first row only, would say nothing of the others.
`FirstRunHasItsKey` cannot say that the first run is still closed then: a retry that
resumes late may have opened it again beside the second.

`EventStreamProofs` proves `NothingMissed`, whether or not the awaits yield and with
any number of runs, clients and events: what a connection owes its client is
written, or in the list it is about to write (`Owed`). `TypeCorrect` is its type
invariant.

`LogIsReadInOrder` proves `ReadsTheLog`: a client reads the events of its run in the
order of the log, none twice, through any number of lost connections. It assumes
what the code does, that the repository's promises are resolved when they are
awaited (`~AwaitsYield`), and that the URL carries no cursor. Neither can be dropped:
with awaits that yield TLC finds an event published during the replay and written
before older ones (5 states), and for the cursor see section 5. `OrderInv` adds to
`StreamInv` that what a client read, followed by what is on the wire, is the log's
events of its run up to some point, to which a list adds the rest and a live
subscription has no gap (`Follow`), and that only the newest event can be stored and
not yet published, while no list is being read (`Flow`). The lemmas about `Rank` and
`InOrder` (`PositionsProofs`: what is listed, how long, what comes after a prefix)
replace an induction over the log. That events arrive stays with TLC.

`WorkerGraphProofs` proves, for any batches, any number of rows an earlier attempt
left, any refinements and any editor: `AttemptTypeCorrect`, `CompletedDraftIsSaved`,
`StopsAreReported`, and the two action properties `MutationsInLockstep` and
`NothingStagedAfterStop`. A completion rests on three variables that are written
in different nodes (`stop`, `lastAck`, `draft`), so `IInv` ties them to the ledger.
`AckPart`: a positive last acknowledgement is the one of the newest row, and it
stands for all rows of the attempt; where it is out of date, a mutation is in
flight. `CountPart`: what the graph state counts as assigned are the attempt's own
rows, unless a stop was seen, when a published row may be missing in it.
`BatchPart`: nothing is published before there is a batch. `StopPart`: a stop has a
cause in the run, and no stage or save begins after it. Two lemmas do most of the
work: a step that neither publishes nor ends keeps all parts, and a row is
appended in three actions only (`WhoPublishes`).

`FinalizeDocumentsProofs` proves, for any number of attempts, `DocumentsTypeCorrect`,
`ReferencesResolve`, `SavedOnEvidence`, `CompletedIsFinal` and `OneAttemptPerBundle`. Its
`IInv` relates the ledger, the worker and the documents: the ledger is filled
attempt by attempt (`LedgerInOrder`), a worker's assigned rows are its own and, while
it goes on, all of them (`AssignedIsOwn`), all but its newest are answered
(`TakenSoFar`), a document says what the ledger says and a completed one will go on
doing so (`DocsHold`), and what a finalize is past, or the run bound to, is in the
store (`PutsAreThere`, `BoundIsThere`). `DocsHold` is stated of every document in
flight, since a second finalize may put its own under the first one's key.

`DraftPipelineProofs` proves, for every set of briefs, hence every canvas, length
of headline and number of candidates:

* `DraftTypeCorrect`.
* `EmissionNeverFails`: every command passes the identity check that would throw.
* `GraphicsAreFull`: no number of candidates makes a graphic plan lose one of its
  four basic roles; the lemma behind it goes through how roles are dealt.
* `EverythingFits`: every layer but the cta's container is inside the canvas. The
  lemmas about `LayoutGeometry` type every box (widths may be negative before
  they are fitted) and carry `FitBoundsFits` through presets, anchors and zones.
* `CompletedDraftIsWhole`: recorded as completed means fully acked and bound.

The invariant is `DraftInv`, four conjuncts: the plan is one some brief leads to,
up to what a patch may change (`PlanPart`); the rows are the proposals sent so
far, all of them acked but the last (`RowsPart`); a patch comes once and only from
the judge (`JudgePart`); request and record follow from the last answer
(`OutcomePart`). Without `RowsPart` a completed record would say nothing of the
stages before the save; without `PlanPart` nothing is known of the boxes. `DraftInv` is not run
by TLC: it quantifies over all pages. The one assumption, `BriefsAssumption`, types
the briefs.

Seven more theorems say what is in the draft, and what the judge and the record
say of it:

* `LayersAreUnique`: with a client that names its layers, no part is made twice.
* `PatchIsHarmless`: a refinement brings no issue that was not there before.
* `CtaIsContained`, `CopyStackIsClear`: the cta on its container, copy apart.
* `ManifestIsTheScene`: where a record binds a copy slot, it names the layer the
  worker saw there.
* `GraphicRecordsAgree`, `CompletedRunIsClean`: record and run row agree on a graphic
  draft; what is finalized as completed has all parts and no overlap.

They need `ContentInv`, `DraftInv` with five parts more. `StagesPart`: the stages
proposed are the plan's, each client key is made by one of them, at the box
planned. `LayersPart`: a row names layers exactly if it was acked and the client
names them, and after the stages come at most one refinement, whose commands stand
for the layers their stage made, and a save, which has no commands. `PassPart`: a
refinement is of a draft that is settled, for the issues its plan has. `VerdictPart`:
a draft that the judge keeps and whose rows are acked has everything it should.
`RecordPart`: request and record are functions of the rows. The parts were run by
TLC before they were proved. `PatchIsHarmless` turned out to hold for a stronger
reason than expected (`SettledJudgement`): of a settled draft the judge finds the
same with and without the refinement, since what it patches is overruled when
boxes are read. `CopyStackIsClear` is arithmetic over the three preset canvases:
`StackIsOrdered` orders the parts of each preset from top to bottom.

`PlanningFrontEndProofs` proves, for every request, so for every prompt, every answer
of a model that parses and any catalogue: `FrontEndTypeCorrect`, `FashionOffersNoMenu`,
`GenericPromoHasNoSubject` and `ProfileAgreesWithIntent`. The state machine is the
small part. `FrontInv` says in which order the artifacts appear (`Control`), what each
was made from (`PriorPart`, `ProfilePart`) and what is known of it (`DraftPart`,
`IntentPart`, `AttemptPart`); one lemma per node keeps it. The work is in the functions:

* *Policies.* What normalizing returns (`Normal`), and that it is not idempotent: a
  balanced policy that allows no family it prefers gets its preferences only the
  second time. `Settled` are the policies that normalizing leaves as they are
  (`SettledStays`), a second normalization reaches them (`TwiceIsSettled`), and the
  repair always is the second one: the draft has been normalized by its planner. So
  the profile, which normalizes a third time, agrees with the intent.
* *Keywords.* Of five at most, none is blocked (`KeywordFacts`), and one remains,
  since every heuristic draft has the word for spring, which no table blocks.
* *Repair.* `Repaired` and `Subjectless`: what an intent for fashion retail and one for
  a generic promotion do not contain, whatever was drafted (`RepairFacts`).
* *Queries.* Which words a ladder may ask for, and which one it begins with
  (`ProfileFacts`), by cases on the domain.

Filters and lists without repetitions are written with the positions they keep
(`Picked`), which makes the lemmas of `PositionsProofs` apply to lists of any length
without an induction over them. The only assumption, `RequestsAssumption`, types the
requests: a model's answer is what `TemplateIntentDraftSchema` lets through, with lists
of any length.

Model-checked only: `AcceptedRunClosesUnlessDropped`, `AttemptEnds`, `RequestIsAnswered` and
`EventsArrive` (liveness under fairness).

## 5. Where the code and its documents disagree

Each violation run checks one sentence of the documents; `PROJECT.json` quotes it.
The other disagreements are stated as properties of their modules too, under
"What the documents say and the code does not keep"; TLC finds each of them
violated when it is added to the configuration named here.

*The lifecycle* (a handler resumes with what it read before its await).
`run_forgotten`: a pickup timeout and a transport failure of attempt 1 both schedule
its retry; the first retry runs and closes the run, the second makes it open again,
with no timer, job or worker left. The promise itself, `AcceptedRunCloses`, fails even
where no handler is interrupted (`RunLifecycleLiveness.cfg`): an error reply of Redis
rejects `tryRemoveQueuedJob` (`queue.ts:191-204`), the retry or forced close it was part
of ends in `runBackground` (`runWatchdogService.ts:375`, `:148`, `:760`), and the pickup
timer that started it is used up, so that a job still waiting, or gone, leaves the run
open for ever; `run_forgotten` therefore checks the weaker
`AcceptedRunClosesUnlessDropped`. If the worker of such an attempt is alive, its next
heartbeat puts the failed attempt back to work. With the in-memory queue
(`queue.ts:57-100`) nothing closes a leased attempt whose worker dies, since its
observers are never called. Under `RunLifecycleBullmq.cfg` there fail besides: `TerminalIsFinal`, as a retry overwrites a run that a cancel closed
meanwhile (`functional-spec-to-be.md:274`); `OneRowPerAttempt`, two rows with one
`attemptSeq` and `queueJobId` (`backend-boundary.md:610`); `CancelSticks`, when
`startRun` overwrites a cancel accepted during its enqueue; `NoRetryAfterVisibleAck`
and `NoRetryAfterCancel`, when either arrives while a retry awaits Redis;
`OneTerminalEvent`, when a finalize writes its artifacts while the watchdog closes the
run; and, with beats in the instance (`Beats <- OneBeat`), `EndedAttemptStaysEnded`: a
heartbeat accepted while a retry awaits Redis shows the failed attempt at work again
(`runAttemptRepository.ts:67`, against `backend-boundary.md:828`).

*Admission* (`RunAdmission.cfg`). `OneOpenRunPerKey`: `findByDedupeKey` returns the
first row of the key, and `startRun` reuses it only while that run is open; after
it ended, a third request does not see the open run of the second, and a first run that
a late retry opens again is open beside the second (`backend-boundary.md:224`). `OneOpenRunPerPage`: `startRun` makes a `pageLockToken` and
looks for none (`backend-boundary.md:227`).

*Events* (`EventStream.cfg` with `UrlCursor = 1`). `ResumesAfterLastRead`: `afterEventId`
of the URL wins over `Last-Event-ID`, and a browser reconnects to the same URL, so
that it is sent again what it read (`backend-boundary.md:477`).

*Finalize* (`FinalizeDocuments.cfg`). `PayloadIsReconciled`: `lastAckedSeq` is the last
acknowledgement's or 0, while the range reaches to the last assigned seq, so a stage
that timed out is committed beyond `reconciledThroughSeq` (`architecture.md:3318`).
`BundleProjectsLedger`: acknowledgements are recorded after the commit as well, and a
bundle committed as failed or cancelled keeps an entry as unanswered that the ledger
has as applied (`backend-boundary.md:992`). `BundleObjectIsItsRow`: finalizes of two
attempts put one key, and the first one's row may point to the second one's object
(`architecture.md:3312`). The first two hold of a completed bundle
(`CompletedBundleIsFinal`).

*The worker* (`WorkerGraph.cfg`). `DependencyAcked`: stages are
numbered from 1 in every attempt while the ledger goes on counting, so after a
retry `dependsOnSeq` names the abandoned attempt's rows.
`CancelledLeavesNothingOpen`: a proposal answered with `cancelRequested` stays
published, nobody waits for it, and the run is closed as cancelled. `appendWorkerEvent` records and publishes
every proposal, whatever the cancel fence, and `emit_refinement_patch` even makes
one after it has noted the stop, which is why `NoStageAfterStop` excepts it and no property covers that hazard.
`worker_unsaved_draft`: a patch without commands leads to `prepare_finalize`, and
an applied draft is never saved.

*The draft* (`DraftPipeline.cfg`). `RecordAgrees`, where a photo draft lacks the slot `decoration`, its
record is corrected to `failed` and the run row is not. Met on the way, without a
run: the patch writes an anchor for the cta that the boxes planned before overrule
(`layoutGeometry.ts:143`), so that an overlap is reported, patched, acked and
reported again (`PatchWorsensNothing` holds: nothing new appears either);
`decoration`
is required of the ledger but never bound in the manifest, which knows execution
slots only; `offer_line`, `subheadline` and `footer_note` are drawn with default
texts when the copy plan has no such slot; the checkpoint's `latestAckedSeq` is
`finalRevision`, a revision and not a sequence number; every badge-led brief is
warned of `layout_intent_mismatch`, since its preferred mode is never `badge_led`;
a client that does not name its layers gets the cta's container created a second
time by the patch, which is why `NamedLayersAreUnique` asks for names; an airy stack
does not fit the wide preset, which `CopyStackClear` excepts.

*The front end.* `planner_fallback`, where the fallback's draft is made from the
whole prompt and refused by the schema's limits, so that a failing model ends the
attempt. Met on the way: the blocked tables match whole keywords, so a compound
(`spring-menu`) passes into a fashion intent and its fallback queries, which is why
`FashionStaysFashion` speaks of whole blocked keywords and of the first query of a surface; a reset `goalSummary`
is the prompt, menu words included; the graphic ladder is built and searched when
the policy allows no graphic; the picture ladder may send one query twice; a policy
that allows the background only keeps a primary policy for another family, which
`TemplateAssetPolicySchema` forbids but nothing parses with it (`PolicyOK`); the
repair is not idempotent, since it decides on a promotion by the drafted style and
replaces that style afterwards.

`ClosedTogether` and, with three or more attempts, `LedgerByAttempt` and
`WatchedUntilClosed` do not hold with BullMQ either: two retries of one attempt can
make a superseded attempt's row the active one. No document claims them. With the
default budget of two attempts a run is watched until it is first closed, unless a remove
threw, which `lifecycle_bullmq` checks and `NoRunIsForgotten` proves; `run_forgotten` is
about the time after that.

## 6. Plan

1. `RunLifecycle` and its proofs (done).
2. `WorkerGraph` and its proofs (done).
3. `LayoutGeometry`, `TemplatePlan`, `DraftPipeline` and their proofs (done).
4. `RunContract`, implemented by `RunLifecycle` with atomic handlers (done, proved);
   next a weaker contract that the lifecycle with BullMQ implements.
5. `RunAdmission` and its proofs (done).
6. `EventStream` and its proofs (done).
7. `FinalizeDocuments` and its proofs (done).
8. The front end (`PlanningFrontEnd`) and its proofs (done).
9. Candidate selection: policy filters, the photo gate's scores, source readiness.

Not planned: HTTP wiring and schemas, logging, the clients of the language models
and catalogues (external services), the SQL schema, which nothing uses yet, and the
smoke scripts.
