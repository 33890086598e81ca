----------------------------- MODULE RunLifecycle -----------------------------
(***************************************************************************)
(* One run as the agent API sees it: the run row, its attempt rows, the    *)
(* mutation ledger, the watchdog's timers and the terminal events on the   *)
(* run's SSE log, under the HTTP handlers, timers and queue signals that   *)
(* change them, with the queue, the worker processes, the editor and the   *)
(* client as the environment.                                              *)
(*                                                                         *)
(* Grain of atomicity.  The API is one Node process and its repositories   *)
(* are in-memory Maps: a handler that awaits only repositories runs to its *)
(* end before the event loop takes the next request, timer or signal, so   *)
(* it is ONE action here.  A handler gives the loop up only where it       *)
(* awaits Redis (enqueueRunJob, tryRemoveQueuedJob) or the object store    *)
(* (materializeRunArtifacts): there it is split in two actions, and a      *)
(* record in `handler' keeps what it resumes with.                         *)
(*                                                                         *)
(* UsesBullmq says which queue the API has.  The in-memory one is a list:  *)
(* whoever reads it may execute a job, and nobody reports how that ended.  *)
(* QueueOpsYield and StoreOpsYield say whether other handlers come in at   *)
(* an await.  FALSE is how it always is in memory; for BullMQ and the      *)
(* filesystem it selects the schedules in which each answer arrives before *)
(* the next request, timer or signal does.                                 *)
(***************************************************************************)
EXTENDS Naturals, Sequences, RunDomain

CONSTANTS
  MaxQueueAttempts,  \* runWatchdogService policy, 2 by default
  MaxMutations,      \* bound: mutations the workers of the run may propose
  Handlers,          \* bound: handlers suspended at the same time
  UsesBullmq,        \* TRUE: BullMqRunQueueProducer, FALSE: InMemoryRunQueueProducer
  QueueOpsYield,     \* other handlers come in while the queue is asked
  StoreOpsYield,     \* other handlers come in while the object store is
  Beats,             \* the heartbeats workers send: [state, phase or "none"]
  PhaseEvents,       \* the phases they append
  Outcomes           \* the finalize callbacks they send: [final, bundle]

ASSUME MaxAttemptsAssumption == MaxQueueAttempts \in Nat \ {0}
ASSUME BoundsAssumption == MaxMutations \in Nat
ASSUME YieldAssumption ==
  /\ UsesBullmq \in BOOLEAN /\ QueueOpsYield \in BOOLEAN /\ StoreOpsYield \in BOOLEAN
  /\ QueueOpsYield => UsesBullmq
ASSUME BeatsAssumption ==
  Beats \subseteq [state: AttemptStates, phase: Phases \cup {"none"}]
ASSUME PhaseEventsAssumption == PhaseEvents \subseteq Phases
ASSUME OutcomesAssumption ==
  Outcomes \subseteq [final: TerminalRunStatuses, bundle: {"with", "without"}]

\* One number past the budget, so that exceeding it is a state, not an error.
Seqs == 1 .. (MaxQueueAttempts + 1)

VARIABLES
  status,         \* run.status, "absent" before startRun creates the row
  active,         \* run.attemptSeq; run.queueJobId is the job of this number,
                  \* null exactly when it is 0
  cancelAt,       \* run.cancelRequestedAt: "null" or "set"
  lastAcked,      \* run.lastAckedSeq
  records,        \* how many attempt rows carry each attemptSeq
  attemptState,   \* attemptState of the first of them, "absent" when none
  leased,         \* attempts whose leaseRecognizedAt is set
  ledger,         \* mutation rows in seq order: [attempt, ack]
  pickupTimers,   \* attempts with an armed pickup timer
  finalizeTimers, \* attempts with an armed finalize-grace timer
  terminalEvents, \* terminal SSE events in publication order
  handler,        \* suspended handlers of the API
  job,            \* state of each attempt's job in the queue
  orphans,        \* adds still in flight after their enqueue timed out
  signals,        \* QueueEvents not yet observed: <<attempt, state>>
  worker,         \* the worker process executing each attempt's job
  dropped         \* history, read by no action: the attempts whose retry or
                  \* forced close ended in a remove that threw

runVars == <<status, active, cancelAt, lastAcked>>
attemptVars == <<records, attemptState, leased>>
timerVars == <<pickupTimers, finalizeTimers>>
transportVars == <<job, orphans, signals>>
vars == <<runVars, attemptVars, ledger, timerVars, terminalEvents, handler,
          transportVars, worker, dropped>>

-------------------------------------------------------------------------------
(* Suspended handlers *)

Idle == [kind |-> "idle", seq |-> 1, note |-> "none"]

Kinds == {"idle", "bootstrap", "cancel_remove", "retry_remove",
          "retry_enqueue", "materialize"}

\* note: "sent"/"landed" for the two enqueues, whether a cancel was told to
\* force the close, the final status a finalize resumes with.
Notes == {"none", "sent", "landed", "force", "plain"} \cup TerminalRunStatuses

Continuations == [kind: Kinds, seq: Seqs, note: Notes]

Yields(kind) == IF kind = "materialize" THEN StoreOpsYield ELSE QueueOpsYield

\* The event loop takes a new request, timer or signal only when every handler
\* in progress has given the loop up.
LoopFree == \A h \in Handlers : handler[h] = Idle \/ Yields(handler[h].kind)

Suspend(h, kind, seq, note) ==
  /\ handler[h] = Idle
  /\ handler' = [handler EXCEPT ![h] = [kind |-> kind, seq |-> seq, note |-> note]]

Finish(h) == handler' = [handler EXCEPT ![h] = Idle]

IsTerminal == status \in TerminalRunStatuses

\* Seeded fault: the attempt row is left as it was.
LeaveAttemptState(s, state) == UNCHANGED attemptState

\* runAttemptRepository.updateAttemptState: no row, no effect.
SetAttemptState(s, state) ==
  attemptState' =
    IF records[s] > 0 THEN [attemptState EXCEPT ![s] = state] ELSE attemptState

\* runAttemptRepository.create, the first row of a number being the one found.

CreateAttempt(s, state) ==
  /\ records' = [records EXCEPT ![s] = @ + 1]
  /\ attemptState' = IF records[s] > 0 THEN attemptState
                     ELSE [attemptState EXCEPT ![s] = state]
  /\ UNCHANGED leased

\* runWatchdogService.trackEnqueuedAttempt and trackFinalizeGrace; a seeded fault
\* in each forgets the timer.
ForgetEnqueuedAttempt(s) == UNCHANGED pickupTimers
TrackEnqueuedAttempt(s) == pickupTimers' = pickupTimers \cup {s}
ForgetFinalizeGrace(s) == UNCHANGED finalizeTimers
TrackFinalizeGrace(s) == finalizeTimers' = finalizeTimers \cup {s}

\* Seeded fault: a log that takes one terminal event and drops the others.
AnnounceOnce(event) ==
  terminalEvents' = IF terminalEvents = <<>> THEN <<event>> ELSE terminalEvents

Announce(event) == terminalEvents' = Append(terminalEvents, event)

-------------------------------------------------------------------------------
TypeOK ==
  /\ status \in RunStatuses \cup {"absent"}
  /\ active \in 0 .. (MaxQueueAttempts + 1)
  /\ cancelAt \in {"null", "set"}
  /\ lastAcked \in 0 .. MaxMutations
  /\ records \in [Seqs -> Nat]
  /\ attemptState \in [Seqs -> AttemptStates \cup {"absent"}]
  /\ leased \subseteq Seqs
  /\ ledger \in Seq([attempt: Seqs, ack: {"none", "acked", "rejected"}])
  /\ Len(ledger) <= MaxMutations
  /\ pickupTimers \subseteq Seqs
  /\ finalizeTimers \subseteq Seqs
  /\ terminalEvents \in Seq(TerminalEvents)
  /\ handler \in [Handlers -> Continuations]
  /\ job \in [Seqs -> {"absent", "waiting", "active", "completed", "failed"}]
  /\ orphans \subseteq Seqs
  /\ signals \subseteq Seqs \X {"completed", "failed", "stalled"}
  /\ worker \in [Seqs -> {"none", "running", "finalizing", "returned", "ended"}]
  /\ dropped \subseteq Seqs

Init ==
  /\ status = "absent" /\ active = 0 /\ cancelAt = "null" /\ lastAcked = 0
  /\ records = [s \in Seqs |-> 0]
  /\ attemptState = [s \in Seqs |-> "absent"]
  /\ leased = {}
  /\ ledger = <<>>
  /\ pickupTimers = {} /\ finalizeTimers = {}
  /\ terminalEvents = <<>>
  /\ handler = [h \in Handlers |-> Idle]
  /\ job = [s \in Seqs |-> "absent"]
  /\ orphans = {}
  /\ signals = {}
  /\ worker = [s \in Seqs |-> "none"]
  /\ dropped = {}

-------------------------------------------------------------------------------
(* RunBootstrapService.startRun *)

\* The request and run rows are created and the first job is sent to the queue;
\* the attempt row does not exist yet.
StartRun(h) ==
  /\ LoopFree
  /\ status = "absent"
  /\ status' = "enqueue_pending"
  /\ Suspend(h, "bootstrap", 1, "sent")
  /\ UNCHANGED <<dropped, active, cancelAt, lastAcked, attemptVars, ledger, timerVars,
                 terminalEvents, transportVars, worker>>

\* The queue accepted the job: the attempt row is created and activated, with
\* no look at what became of the run meanwhile.
BootstrapEnqueued(h) ==
  /\ handler[h].kind = "bootstrap" /\ handler[h].note = "landed"
  /\ CreateAttempt(1, "enqueued")
  /\ active' = 1
  /\ status' = "planning_queued"
  /\ TrackEnqueuedAttempt(1)
  /\ Finish(h)
  /\ UNCHANGED <<dropped, cancelAt, lastAcked, ledger, finalizeTimers,
                 terminalEvents, transportVars, worker>>

\* Which attempt an enqueue in progress would create; as a seeded fault, a retry
\* that uses the failed attempt's number again.
ReusedTarget(h) == handler[h].seq

EnqueueTarget(h) ==
  IF handler[h].kind = "bootstrap" THEN 1 ELSE handler[h].seq + 1

Enqueues(h) == handler[h].kind \in {"bootstrap", "retry_enqueue"}

\* The add was rejected, or ENQUEUE_TIMEOUT_MS / enqueueTimeoutMs won the race
\* against it; in the second case the add may still land, or has landed.  The
\* in-memory queue takes every job.
EnqueueFailed(h) ==
  /\ UsesBullmq /\ Enqueues(h)
  /\ \/ handler[h].note = "sent" /\ UNCHANGED orphans
     \/ handler[h].note = "sent" /\ orphans' = orphans \cup {EnqueueTarget(h)}
     \/ handler[h].note = "landed" /\ UNCHANGED orphans
  /\ status' = "failed"
  /\ Announce("run.failed")
  /\ Finish(h)
  /\ UNCHANGED <<dropped, active, cancelAt, lastAcked, attemptVars, ledger, timerVars,
                 job, signals, worker>>

-------------------------------------------------------------------------------
(* RunCancelService.acceptCancel and RunWatchdogService.handleCancelRequested *)

Unproven(s) == s \in Seqs /\ records[s] > 0 /\ s \notin leased

\* A cancel request on a run with no attempt, or whose worker has proven its
\* lease, only raises the fence.
CancelFences ==
  /\ LoopFree
  /\ status \notin TerminalRunStatuses \cup {"absent"}
  /\ status # "cancel_requested" \/ cancelAt = "null"
  /\ ~Unproven(active)
  /\ status' = "cancel_requested" /\ cancelAt' = "set"
  /\ UNCHANGED <<dropped, active, lastAcked, attemptVars, ledger, timerVars,
                 terminalEvents, handler, transportVars, worker>>

\* Otherwise it also goes to the queue to take the job back.
CancelRemoves(h) ==
  /\ LoopFree
  /\ status \notin TerminalRunStatuses \cup {"absent"}
  /\ status # "cancel_requested" \/ cancelAt = "null"
  /\ Unproven(active)
  /\ status' = "cancel_requested" /\ cancelAt' = "set"
  /\ Suspend(h, "cancel_remove", active, "plain")
  /\ UNCHANGED <<dropped, active, lastAcked, attemptVars, ledger, timerVars,
                 terminalEvents, transportVars, worker>>

\* tryRemoveQueuedJob answers TRUE and takes the job away, or answers FALSE for
\* a job it does not find in its place: BullMQ looks for a waiting or delayed
\* job, the in-memory list forgets a job only by removing it.  BullMQ's version
\* asks Redis three times and catches nothing: an error reply rejects it whatever
\* the state of the job, and so does a worker that takes it before the remove.
Removable(s) ==
  IF UsesBullmq THEN job[s] = "waiting" ELSE job[s] # "absent"

Removed(s) == Removable(s) /\ job' = [job EXCEPT ![s] = "absent"]
NotRemoved(s) == ~Removable(s) /\ UNCHANGED job
RemoveThrows(s) == UsesBullmq /\ UNCHANGED job

Drop(s) == dropped' = dropped \cup {s}

\* closeCancelledBeforeProof, on the run and attempt read before the await.
CancelCloses(h) ==
  LET s == handler[h].seq IN
  /\ handler[h].kind = "cancel_remove"
  /\ Removed(s) \/ (NotRemoved(s) /\ handler[h].note = "force")
  /\ status' = "cancelled"
  /\ SetAttemptState(s, "cancelled")
  /\ Announce("run.cancelled")
  /\ pickupTimers' = pickupTimers \ {s}
  /\ finalizeTimers' = finalizeTimers \ {s}
  /\ Finish(h)
  /\ UNCHANGED <<dropped, active, cancelAt, lastAcked, records, leased, ledger,
                 orphans, signals, worker>>

CancelLeavesJob(h) ==
  LET s == handler[h].seq IN
  /\ handler[h].kind = "cancel_remove"
  /\ \/ NotRemoved(s) /\ handler[h].note = "plain" /\ UNCHANGED dropped
     \/ RemoveThrows(s) /\ handler[h].note = "plain" /\ UNCHANGED dropped
     \/ RemoveThrows(s) /\ handler[h].note = "force" /\ Drop(s)
  /\ Finish(h)
  /\ UNCHANGED <<runVars, attemptVars, ledger, timerVars, terminalEvents,
                 orphans, signals, worker>>

-------------------------------------------------------------------------------
(* RunWatchdogService.retryOrFail and scheduleRetry *)

\* canRetry.  Its other two conditions hold in every run startRun creates (a
\* non-empty page lock token, a retryable reason); the deadline is the clock's
\* choice, `inTime'.
\*
\* Seeded faults: the budget counted one too far, the cancel not asked about.
CanRetryPastBudget(s, inTime) ==
  cancelAt = "null" /\ lastAcked = 0 /\ s <= MaxQueueAttempts /\ inTime
CanRetryAfterCancel(s, inTime) ==
  lastAcked = 0 /\ s < MaxQueueAttempts /\ inTime

CanRetry(s, inTime) ==
  cancelAt = "null" /\ lastAcked = 0 /\ s < MaxQueueAttempts /\ inTime

\* The retry branch records the decision, fails the attempt and goes to the
\* queue to remove the old job.
RetryStarts(h, s) ==
  /\ \E inTime \in BOOLEAN : CanRetry(s, inTime)
  /\ SetAttemptState(s, "failed")
  /\ Suspend(h, "retry_remove", s, "none")
  /\ UNCHANGED <<runVars, terminalEvents, finalizeTimers>>

\* The other branch closes the run.
RetryRefused(s) ==
  /\ \E inTime \in BOOLEAN : ~CanRetry(s, inTime)
  /\ SetAttemptState(s, "failed")
  /\ status' = "failed"
  /\ Announce("run.failed")
  /\ finalizeTimers' = finalizeTimers \ {s}
  /\ UNCHANGED <<active, cancelAt, lastAcked, handler>>

RetryOrFail(s) == (\E h \in Handlers : RetryStarts(h, s)) \/ RetryRefused(s)

\* handleCancelRequested({forceCloseIfUnproven: true}) on attempt s.
ForceCancel(s) ==
  /\ \E h \in Handlers : Suspend(h, "cancel_remove", s, "force")
  /\ UNCHANGED <<runVars, attemptState, terminalEvents, finalizeTimers>>

\* The answer to tryRemoveQueuedJob is only logged; the new job is sent.
RetryEnqueues(h) ==
  LET s == handler[h].seq IN
  /\ handler[h].kind = "retry_remove"
  /\ Removed(s) \/ NotRemoved(s)
  /\ handler' = [handler EXCEPT ![h] =
                   [kind |-> "retry_enqueue", seq |-> s, note |-> "sent"]]
  /\ UNCHANGED <<dropped, runVars, attemptVars, ledger, timerVars, terminalEvents,
                 orphans, signals, worker>>

\* A throwing remove ends the background task, or the observer of the signal:
\* no retry is sent.
RetryAbandoned(h) ==
  /\ handler[h].kind = "retry_remove"
  /\ RemoveThrows(handler[h].seq)
  /\ Drop(handler[h].seq)
  /\ Finish(h)
  /\ UNCHANGED <<runVars, attemptVars, ledger, timerVars, terminalEvents,
                 orphans, signals, worker>>

\* The retry's row is created and activated, with no look at what became of the run meanwhile.
RetryEnqueued(h) ==
  LET n == EnqueueTarget(h) IN
  /\ handler[h].kind = "retry_enqueue" /\ handler[h].note = "landed"
  /\ CreateAttempt(n, "retry_waiting")
  /\ active' = n
  /\ status' = "planning_queued"
  /\ TrackEnqueuedAttempt(n)
  /\ Finish(h)
  /\ UNCHANGED <<dropped, cancelAt, lastAcked, ledger, finalizeTimers,
                 terminalEvents, transportVars, worker>>

-------------------------------------------------------------------------------
(* The watchdog's timers and the queue signals it observes *)

\* handlePickupTimeout's early returns.

PickupTimeoutMoot(s) ==
  IsTerminal \/ records[s] = 0 \/ active # s \/ s \in leased

HandlePickupTimeout(s) ==
  /\ LoopFree
  /\ s \in pickupTimers
  /\ pickupTimers' = pickupTimers \ {s}
  /\ IF PickupTimeoutMoot(s)
       THEN UNCHANGED <<runVars, attemptState, terminalEvents, finalizeTimers,
                        handler>>
       ELSE IF status = "cancel_requested" THEN ForceCancel(s) ELSE RetryOrFail(s)
  /\ UNCHANGED <<dropped, records, leased, ledger, transportVars, worker>>

\* observeSignal looks the attempt up by its job and ignores a superseded one.
SignalIsStale(s) == records[s] = 0 \/ active # s

ObserveCompleted(s) ==
  /\ LoopFree
  /\ <<s, "completed">> \in signals
  /\ signals' = signals \ {<<s, "completed">>}
  /\ IF SignalIsStale(s) THEN UNCHANGED finalizeTimers ELSE TrackFinalizeGrace(s)
  /\ UNCHANGED <<dropped, runVars, attemptVars, ledger, pickupTimers, terminalEvents,
                 handler, job, orphans, worker>>

\* reconcileTransportFailure
ObserveFailure(s, kind) ==
  /\ LoopFree
  /\ <<s, kind>> \in signals
  /\ signals' = signals \ {<<s, kind>>}
  /\ pickupTimers' = IF SignalIsStale(s) THEN pickupTimers ELSE pickupTimers \ {s}
  /\ IF SignalIsStale(s) \/ IsTerminal
       THEN UNCHANGED <<runVars, attemptState, terminalEvents, finalizeTimers,
                        handler>>
       ELSE IF status = "cancel_requested" /\ s \notin leased
              THEN ForceCancel(s)
              ELSE RetryOrFail(s)
  /\ UNCHANGED <<dropped, records, leased, ledger, job, orphans, worker>>

\* synthesizeMissingFinalizeResult
MissingFinalizeStatus ==
  IF lastAcked > 0 THEN "save_failed_after_apply" ELSE "failed"

\* Its early returns.
FinalizeGraceMoot(s) == IsTerminal \/ active # s

\* handleFinalizeGraceExpiry; the synthesized result has no bundle, so
\* finalizeRun closes the run in the same step.
HandleFinalizeGraceExpiry(s) ==
  /\ LoopFree
  /\ s \in finalizeTimers
  /\ finalizeTimers' = finalizeTimers \ {s}
  /\ IF FinalizeGraceMoot(s)
       THEN UNCHANGED <<status, attemptState, terminalEvents>>
       ELSE /\ status' = MissingFinalizeStatus
            /\ SetAttemptState(s, AttemptStateOf(MissingFinalizeStatus))
            /\ Announce(TerminalEventOf(MissingFinalizeStatus))
  /\ UNCHANGED <<dropped, active, cancelAt, lastAcked, records, leased, ledger,
                 pickupTimers, handler, transportVars, worker>>

-------------------------------------------------------------------------------
(* Worker callbacks: RunRecoveryService and RunFinalizeService *)

\* findRunAndAttempt: the run's active attempt, and the run still open; as a
\* seeded fault, any attempt of an open run.
CallbackOfAnyAttempt(s) == ~IsTerminal /\ records[s] > 0

CallbackAccepted(s) == active = s /\ ~IsTerminal /\ records[s] > 0

\* updateRunStatusIfAllowed: progress does not overtake the fence.

UpdateRunStatusIfAllowed(next) ==
  status' = IF status = "cancel_requested" THEN status ELSE next

\* mapHeartbeatToRunStatus
StatusOfBeat(beat) ==
  IF beat.phase # "none" THEN StatusOfPhase(beat.phase)
  ELSE IF beat.state = "finalizing" THEN "finalizing" ELSE status

AcceptHeartbeat(s, beat) ==
  /\ LoopFree
  /\ worker[s] = "running"
  /\ CallbackAccepted(s)
  /\ leased' = leased \cup {s}
  /\ attemptState' = [attemptState EXCEPT ![s] = beat.state]
  /\ UpdateRunStatusIfAllowed(StatusOfBeat(beat))
  /\ UNCHANGED <<dropped, active, cancelAt, lastAcked, records, ledger, timerVars,
                 terminalEvents, handler, transportVars, worker>>

\* appendWorkerEvent of a phase.
AppendPhase(s, phase) ==
  /\ LoopFree
  /\ worker[s] = "running"
  /\ CallbackAccepted(s)
  /\ leased' = leased \cup {s}
  /\ UpdateRunStatusIfAllowed(StatusOfPhase(phase))
  /\ UNCHANGED <<dropped, active, cancelAt, lastAcked, records, attemptState, ledger,
                 timerVars, terminalEvents, handler, transportVars, worker>>

\* appendWorkerEvent of a log line or a tool result.
AppendLog(s) ==
  /\ LoopFree
  /\ worker[s] = "running"
  /\ CallbackAccepted(s)
  /\ leased' = leased \cup {s}
  /\ UNCHANGED <<dropped, runVars, records, attemptState, ledger, timerVars,
                 terminalEvents, handler, transportVars, worker>>

\* appendWorkerEvent of a mutation proposal: the ledger assigns the next seq.
AppendMutation(s) ==
  /\ LoopFree
  /\ worker[s] = "running"
  /\ CallbackAccepted(s)
  /\ Len(ledger) < MaxMutations
  /\ leased' = leased \cup {s}
  /\ ledger' = Append(ledger, [attempt |-> s, ack |-> "none"])
  /\ attemptState' = [attemptState EXCEPT ![s] = "awaiting_ack"]
  /\ UpdateRunStatusIfAllowed("awaiting_apply_ack")
  /\ UNCHANGED <<dropped, active, cancelAt, lastAcked, records, timerVars,
                 terminalEvents, handler, transportVars, worker>>

\* finalizeRun of a run that is already terminal answers what it is.
FinalizeRepeats(s) ==
  /\ LoopFree
  /\ worker[s] = "running"
  /\ active = s /\ IsTerminal
  /\ worker' = [worker EXCEPT ![s] = "returned"]
  /\ UNCHANGED <<dropped, runVars, attemptVars, ledger, timerVars, terminalEvents,
                 handler, transportVars>>

\* finalizeRun without a bundle to materialize.
FinalizeCloses(s, outcome) ==
  /\ LoopFree
  /\ worker[s] = "running"
  /\ CallbackAccepted(s)
  /\ outcome.bundle = "without"
  /\ status' = outcome.final
  /\ SetAttemptState(s, AttemptStateOf(outcome.final))
  /\ Announce(TerminalEventOf(outcome.final))
  /\ worker' = [worker EXCEPT ![s] = "returned"]
  /\ UNCHANGED <<dropped, active, cancelAt, lastAcked, records, leased, ledger,
                 timerVars, handler, transportVars>>

\* finalizeRun with one: the checks are made here, the objects are written, and
\* the run is closed when they are.
FinalizeMaterializes(h, s, outcome) ==
  /\ LoopFree
  /\ worker[s] = "running"
  /\ CallbackAccepted(s)
  /\ outcome.bundle = "with"
  /\ ledger # <<>>
  /\ Suspend(h, "materialize", s, outcome.final)
  /\ worker' = [worker EXCEPT ![s] = "finalizing"]
  /\ UNCHANGED <<dropped, runVars, attemptVars, ledger, timerVars, terminalEvents,
                 transportVars>>

FinalizeBinds(h) ==
  LET s == handler[h].seq
      final == handler[h].note
  IN
  /\ handler[h].kind = "materialize"
  /\ status' = final
  /\ SetAttemptState(s, AttemptStateOf(final))
  /\ Announce(TerminalEventOf(final))
  /\ Finish(h)
  /\ worker' = IF worker[s] = "finalizing"
                 THEN [worker EXCEPT ![s] = "returned"] ELSE worker
  /\ UNCHANGED <<dropped, active, cancelAt, lastAcked, records, leased, ledger,
                 timerVars, transportVars>>

\* An object could not be written: finalizeRun rejects, its caller is answered
\* with an error, and the run is left as it was.
FinalizeAbandoned(h) ==
  LET s == handler[h].seq IN
  /\ handler[h].kind = "materialize" /\ StoreOpsYield
  /\ Finish(h)
  /\ worker' = IF worker[s] = "finalizing"
                 THEN [worker EXCEPT ![s] = "running"] ELSE worker
  /\ UNCHANGED <<dropped, runVars, attemptVars, ledger, timerVars, terminalEvents,
                 transportVars>>

-------------------------------------------------------------------------------
(* RunAckService.acceptMutationAck *)

\* runRepository.setLastAckedSeq
SetLastAckedSeq(m) == lastAcked' = IF m > lastAcked THEN m ELSE lastAcked

\* The editor acknowledges a mutation it received, at any later time; the seq
\* it sends back is the one the ledger assigned.
AcceptMutationAck(m, verdict) ==
  /\ LoopFree
  /\ m \in 1 .. Len(ledger)
  /\ ledger' = [ledger EXCEPT ![m].ack = verdict]
  /\ SetLastAckedSeq(m)
  /\ UNCHANGED <<dropped, status, active, cancelAt, attemptVars, timerVars,
                 terminalEvents, handler, transportVars, worker>>

-------------------------------------------------------------------------------
(* The environment: the queue and the worker processes *)

\* An add reaches the queue; a job id that exists already is not added again.
Land(s) == job' = IF job[s] = "absent" THEN [job EXCEPT ![s] = "waiting"] ELSE job

AddLands(h) ==
  /\ Enqueues(h) /\ handler[h].note = "sent"
  /\ Land(EnqueueTarget(h))
  /\ handler' = [handler EXCEPT ![h].note = "landed"]
  /\ UNCHANGED <<dropped, runVars, attemptVars, ledger, timerVars, terminalEvents,
                 orphans, signals, worker>>

OrphanLands(s) ==
  /\ s \in orphans
  /\ orphans' = orphans \ {s}
  /\ Land(s)
  /\ UNCHANGED <<dropped, runVars, attemptVars, ledger, timerVars, terminalEvents,
                 handler, signals, worker>>

\* BullMQ gives the job to one worker; a job in the list stays where it is while
\* somebody executes it.
PickUp(s) ==
  /\ job[s] = "waiting" /\ worker[s] = "none"
  /\ job' = IF UsesBullmq THEN [job EXCEPT ![s] = "active"] ELSE job
  /\ worker' = [worker EXCEPT ![s] = "running"]
  /\ UNCHANGED <<dropped, runVars, attemptVars, ledger, timerVars, terminalEvents,
                 handler, orphans, signals>>

\* The processor threw: an internal error, or a callback answered with 409.
\* The lock may already be lost; then the queue has nothing left to report.  The
\* in-memory queue, whose jobs are never active, reports nothing at all.
WorkerThrows(s) ==
  /\ worker[s] = "running"
  /\ worker' = [worker EXCEPT ![s] = "ended"]
  /\ IF job[s] = "active"
       THEN /\ job' = [job EXCEPT ![s] = "failed"]
            /\ signals' = signals \cup {<<s, "failed">>}
       ELSE UNCHANGED <<job, signals>>
  /\ UNCHANGED <<dropped, runVars, attemptVars, ledger, timerVars, terminalEvents,
                 handler, orphans>>

\* The processor returned: after its finalize was answered or, as far as the
\* API may rely on it, without one.
WorkerReturns(s) ==
  /\ worker[s] \in {"running", "returned"}
  /\ worker' = [worker EXCEPT ![s] = "ended"]
  /\ IF job[s] = "active"
       THEN /\ job' = [job EXCEPT ![s] = "completed"]
            /\ signals' = signals \cup {<<s, "completed">>}
       ELSE UNCHANGED <<job, signals>>
  /\ UNCHANGED <<dropped, runVars, attemptVars, ledger, timerVars, terminalEvents,
                 handler, orphans>>

\* The process dies; the queue learns it when the lock expires.
WorkerCrashes(s) ==
  /\ worker[s] \in {"running", "finalizing", "returned"}
  /\ worker' = [worker EXCEPT ![s] = "ended"]
  /\ UNCHANGED <<dropped, runVars, attemptVars, ledger, timerVars, terminalEvents,
                 handler, transportVars>>

\* The lock of an active job expires, its process dead or only slow: with
\* maxStalledCount 0 the job fails; a stalled event may come with it.  The lock
\* lasts longer (leaseTtlMs, 30 s) than an enqueue may be waited for (2 s).
LockExpires(s) ==
  /\ job[s] = "active"
  /\ \A h \in Handlers : ~(Enqueues(h) /\ EnqueueTarget(h) = s)
  /\ job' = [job EXCEPT ![s] = "failed"]
  /\ \E kinds \in {{"failed"}, {"failed", "stalled"}} :
       signals' = signals \cup ({s} \X kinds)
  /\ UNCHANGED <<dropped, runVars, attemptVars, ledger, timerVars, terminalEvents,
                 handler, orphans, worker>>

-------------------------------------------------------------------------------
\* What the API does on its own once asked: every suspended handler resumes.
Resume(h) ==
  \/ BootstrapEnqueued(h) \/ EnqueueFailed(h)
  \/ CancelCloses(h) \/ CancelLeavesJob(h)
  \/ RetryEnqueues(h) \/ RetryAbandoned(h) \/ RetryEnqueued(h)
  \/ FinalizeBinds(h) \/ FinalizeAbandoned(h)

Watchdog(s) ==
  \/ HandlePickupTimeout(s)
  \/ ObserveCompleted(s)
  \/ \E kind \in {"failed", "stalled"} : ObserveFailure(s, kind)
  \/ HandleFinalizeGraceExpiry(s)

Callback(s) ==
  \/ \E beat \in Beats : AcceptHeartbeat(s, beat)
  \/ \E phase \in PhaseEvents : AppendPhase(s, phase)
  \/ AppendLog(s)
  \/ AppendMutation(s)
  \/ FinalizeRepeats(s)
  \/ \E outcome \in Outcomes :
       \/ FinalizeCloses(s, outcome)
       \/ \E h \in Handlers : FinalizeMaterializes(h, s, outcome)

Client ==
  \/ \E h \in Handlers : StartRun(h) \/ CancelRemoves(h)
  \/ CancelFences
  \/ \E m \in 1 .. MaxMutations, verdict \in {"acked", "rejected"} :
       AcceptMutationAck(m, verdict)

\* The end of an execution; BullMQ reports it, by the lock's expiry if by nothing
\* else.
JobEnds(s) == WorkerThrows(s) \/ WorkerReturns(s) \/ LockExpires(s)

Transport(s) == OrphanLands(s) \/ PickUp(s) \/ WorkerCrashes(s) \/ JobEnds(s)

Next ==
  \/ Client
  \/ \E h \in Handlers : Resume(h) \/ AddLands(h)
  \/ \E s \in Seqs : Watchdog(s) \/ Callback(s) \/ Transport(s)

Spec == Init /\ [][Next]_vars

(***************************************************************************)
(* Fairness.  Timers fire, Redis and the file system answer (or the        *)
(* enqueue timeout does), QueueEvents are delivered, and a job a worker    *)
(* took from BullMQ ends: the worker graph is bounded and a dead worker's  *)
(* lock expires.  In memory there is no lock and no signal, and a worker   *)
(* may stop without a word.  Nothing is assumed of the client, of the      *)
(* editor, of a worker picking a job up, or of what a worker calls back.   *)
(***************************************************************************)
Fairness ==
  /\ \A h \in Handlers : WF_vars(Resume(h) \/ AddLands(h))
  /\ \A s \in Seqs : WF_vars(Watchdog(s)) /\ (UsesBullmq => WF_vars(JobEnds(s)))

FairSpec == Spec /\ Fairness

-------------------------------------------------------------------------------
(* What the run lifecycle promises *)

Open == status \notin TerminalRunStatuses \cup {"absent"}

\* The retry budget: no attempt is queued, recorded or activated past
\* maxQueueAttempts, however timers, signals and late enqueues interleave
\* (runWatchdogService.canRetry is asked once, before the awaits).
AttemptBudget ==
  \A s \in Seqs : records[s] > 0 \/ job[s] # "absent" \/ active = s
                    => s <= MaxQueueAttempts

\* The SSE log and the run row agree: of a run that is closed, the last terminal
\* event published is the one of its status, whoever closed it (worker finalize,
\* watchdog, cancel, enqueue failure).
TerminalAnnounced ==
  IsTerminal =>
    /\ terminalEvents # <<>>
    /\ terminalEvents[Len(terminalEvents)] = TerminalEventOf(status)

\* One run is closed once: its log never carries a second terminal event.
OneTerminalEvent == Len(terminalEvents) <= 1

\* Every re-execution has an attempt row of its own: no two rows share an
\* attemptSeq (createQueueJobId derives the queue job's id from it).
OneRowPerAttempt == \A s \in Seqs : records[s] <= 1

\* The fence on stale attempts: the ledger's rows come from attempts in order, so
\* no mutation of a superseded attempt follows one of its successor.
LedgerByAttempt ==
  /\ \A m \in 1 .. Len(ledger) : ledger[m].attempt <= active
  /\ \A m, n \in 1 .. Len(ledger) :
       m <= n => ledger[m].attempt <= ledger[n].attempt

\* A closed run's active attempt row was closed with it and says the same.
ClosedTogether ==
  IsTerminal /\ active > 0 => attemptState[active] = AttemptStateOf(status)

\* A run is forgotten in two cases only.  Until it is first closed, a handler still
\* works on it, a timer of its active attempt is armed that will not find itself moot,
\* its job still has an ending to report - or else the remove threw by which the
\* watchdog was giving that attempt up, or the queue is the in-memory one, which
\* reports no endings, and the attempt is leased.  No other interleaving of enqueues,
\* retries, cancels and lost workers uses the last watch up.
WatchedUntilClosed ==
  Open /\ terminalEvents = <<>> =>
    \/ \E h \in Handlers : handler[h] # Idle
    \/ active \in pickupTimers \ leased
    \/ active \in finalizeTimers
    \/ active > 0 /\ job[active] = "active"
    \/ \E kind \in {"completed", "failed", "stalled"} : <<active, kind>> \in signals
    \/ active \in dropped
    \/ ~UsesBullmq /\ active \in leased

\* A terminal status is final: no retry, late finalize, cancel or bootstrap
\* resuming from an await changes it.
TerminalIsFinal == [][IsTerminal => status' = status]_status

\* An accepted cancel is never undone: from cancel_requested a run only closes.
CancelSticks ==
  [][status = "cancel_requested" => status' \in TerminalRunStatuses]_status

\* A later attempt starts a run over only while the user has seen nothing of it.
NoRetryAfterVisibleAck ==
  [][0 < active /\ active < active' => lastAcked = 0]_active

\* A run is not started over once its cancel was accepted.
NoRetryAfterCancel == [][0 < active /\ active < active' => cancelAt = "null"]_active

\* An attempt the watchdog gave up stays given up: no late heartbeat of its worker
\* shows it at work again (runAttemptRepository.heartbeat writes the state it is
\* sent), unless the remove threw with which the watchdog was giving it up.
EndedAttemptStaysEnded ==
  [][\A s \in Seqs \ dropped : attemptState[s] \in TerminalAttemptStates
                       => attemptState'[s] \in TerminalAttemptStates]_attemptState

\* The run as its client may see it.
PhaseOfRun ==
  CASE status = "absent" -> "none"
    [] status = "cancel_requested" -> "fenced"
    [] IsTerminal -> status
    [] OTHER -> "open"

Contract == INSTANCE RunContract WITH
  MaxExecutions <- MaxQueueAttempts,
  phase <- PhaseOfRun,
  executions <- active,
  seen <- lastAcked,
  announced <- terminalEvents

\* The whole lifecycle, with its queue, timers and workers, is a run of the
\* contract: every step of a handler, timer or signal is one of the contract's or
\* changes nothing a client can see.
ImplementsContract == Contract!Spec

\* What the documents say: every run a client started is closed, and stays closed.
AcceptedRunCloses == Open ~> []IsTerminal

\* What the code keeps when no handler is interrupted at a Redis await: an open run
\* comes to be closed for good, or was dropped by a remove that threw.  Overlapping
\* retries break even this: the second makes the run open that the first has closed.
AcceptedRunClosesUnlessDropped == Open ~> [](IsTerminal \/ active \in dropped)
===============================================================================
