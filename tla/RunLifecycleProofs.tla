-------------------------- MODULE RunLifecycleProofs --------------------------
(* What RunLifecycle promises, for every value of its constants. *)
EXTENDS RunLifecycle, TLAPS

USE MaxAttemptsAssumption, BoundsAssumption, YieldAssumption

\* What a suspended handler carries: a retry was allowed only below the budget,
\* and a finalize resumes with a final status.
Carried(c) ==
  /\ c.kind = "bootstrap" => c.seq = 1
  /\ c.kind \in {"retry_remove", "retry_enqueue"} => c.seq < MaxQueueAttempts
  /\ c.kind = "materialize" => c.note \in TerminalRunStatuses

HandlersCarry == \A h \in Handlers : Carried(handler[h])

TypeInv == TypeOK /\ HandlersCarry

\* The declared statuses contain every status an action assigns.
LEMMA StatusFacts ==
  /\ TerminalRunStatuses \subseteq RunStatuses
  /\ \A phase \in Phases : StatusOfPhase(phase) \in RunStatuses
  /\ "finalizing" \in RunStatuses
  /\ \A final \in TerminalRunStatuses :
       AttemptStateOf(final) \in AttemptStates /\ TerminalEventOf(final) \in TerminalEvents
BY DEF TerminalRunStatuses, RunStatuses, ProgressStatuses, Phases, StatusOfPhase,
       AttemptStateOf, TerminalEventOf, AttemptStates, TerminalAttemptStates,
       TerminalEvents
\* the numbers of attempts
LEMMA SeqsFacts ==
  /\ 1 \in Seqs
  /\ \A s \in Seqs : s \in Nat /\ s \in 0 .. (MaxQueueAttempts + 1)
  /\ \A s \in Seqs : s < MaxQueueAttempts => s + 1 \in Seqs
BY DEF Seqs

\* an idle handler carries nothing
LEMMA IdleIsContinuation == Idle \in Continuations /\ Carried(Idle)
BY SeqsFacts DEF Idle, Continuations, Kinds, Notes, Carried

\* A handler that suspends with, or resumes to, a proper continuation.
LEMMA HandlerUpdate ==
  ASSUME TypeInv, NEW h \in Handlers, NEW c \in Continuations, Carried(c),
         handler' = [handler EXCEPT ![h] = c]
  PROVE  handler' \in [Handlers -> Continuations] /\ HandlersCarry'
BY DEF TypeInv, TypeOK, HandlersCarry

\* a handler that ends carries nothing on
LEMMA FinishType ==
  ASSUME TypeInv, NEW h \in Handlers, Finish(h)
  PROVE  handler' \in [Handlers -> Continuations] /\ HandlersCarry'
BY IdleIsContinuation, HandlerUpdate DEF Finish

\* a terminal event is added to the log
LEMMA AnnounceType ==
  ASSUME TypeInv, NEW event \in TerminalEvents, Announce(event)
  PROVE  terminalEvents' \in Seq(TerminalEvents)
BY DEF TypeInv, TypeOK, Announce

\* a job that ends is completed or failed
LEMMA JobEndsType ==
  ASSUME TypeInv, NEW s \in Seqs, NEW state \in {"completed", "failed"},
         job' = [job EXCEPT ![s] = state]
  PROVE  job' \in [Seqs -> {"absent", "waiting", "active", "completed", "failed"}]
BY DEF TypeInv, TypeOK

\* RetryOrFail and ForceCancel keep the types of what they change.
LEMMA RetryOrFailType ==
  ASSUME TypeInv, NEW s \in Seqs, RetryOrFail(s) \/ ForceCancel(s)
  PROVE  /\ status' \in RunStatuses \cup {"absent"}
         /\ active' = active /\ cancelAt' = cancelAt /\ lastAcked' = lastAcked
         /\ attemptState' \in [Seqs -> AttemptStates \cup {"absent"}]
         /\ finalizeTimers' \subseteq Seqs
         /\ terminalEvents' \in Seq(TerminalEvents)
         /\ handler' \in [Handlers -> Continuations]
         /\ HandlersCarry'
<1>1. CASE \E h \in Handlers : RetryStarts(h, s)
  BY <1>1 DEF RetryStarts, CanRetry, SetAttemptState, Suspend, TypeInv, TypeOK, HandlersCarry,
     Carried, Continuations, Kinds, Notes, AttemptStates, TerminalAttemptStates, runVars
<1>2. CASE RetryRefused(s)
  <2>1. "failed" \in RunStatuses
    BY DEF RunStatuses, TerminalRunStatuses
  <2>2. terminalEvents' \in Seq(TerminalEvents)
    BY <1>2 DEF RetryRefused, Announce, TerminalEvents, TypeInv, TypeOK
  <2>. QED
    BY <1>2, <2>1, <2>2 DEF RetryRefused, SetAttemptState, TypeInv, TypeOK, HandlersCarry,
       Carried, AttemptStates, TerminalAttemptStates
<1>3. CASE ForceCancel(s)
  BY <1>3 DEF ForceCancel, Suspend, TypeInv, TypeOK, HandlersCarry, Carried,
     Continuations, Kinds, Notes, runVars
<1>. QED
  BY <1>1, <1>2, <1>3 DEF RetryOrFail
\* Every step keeps the types and what the suspended handlers carry.
LEMMA TypeStep == TypeInv /\ [Next]_vars => TypeInv'
<1>. SUFFICES ASSUME TypeInv, [Next]_vars PROVE TypeInv'
  OBVIOUS
<1>. USE StatusFacts
<1>1. ASSUME NEW h \in Handlers, StartRun(h) PROVE TypeInv'
  <2>. DEFINE c == [kind |-> "bootstrap", seq |-> 1, note |-> "sent"]
  <2>0. c \in Continuations /\ Carried(c) /\ handler' = [handler EXCEPT ![h] = c]
    BY <1>1, SeqsFacts DEF StartRun, Suspend, Carried, Continuations, Kinds,
       Notes
  <2>1. handler' \in [Handlers -> Continuations] /\ HandlersCarry'
    BY <2>0, HandlerUpdate
  <2>. QED
    BY <1>1, <2>1, SeqsFacts DEF StartRun, RunStatuses, TerminalRunStatuses,
       TypeInv, TypeOK, runVars, attemptVars, timerVars, transportVars
<1>2. ASSUME NEW h \in Handlers, BootstrapEnqueued(h) PROVE TypeInv'
  <2>1. handler' \in [Handlers -> Continuations] /\ HandlersCarry'
    BY <1>2, FinishType DEF BootstrapEnqueued
  <2>. QED
    BY <1>2, <2>1, SeqsFacts DEF BootstrapEnqueued, CreateAttempt,
       TrackEnqueuedAttempt, AttemptStates, TerminalAttemptStates,
       RunStatuses, TerminalRunStatuses, TypeInv, TypeOK, runVars,
       attemptVars, timerVars, transportVars
<1>3. ASSUME NEW h \in Handlers, EnqueueFailed(h) PROVE TypeInv'
  <2>1. handler' \in [Handlers -> Continuations] /\ HandlersCarry'
    BY <1>3, FinishType DEF EnqueueFailed
  <2>2. terminalEvents' \in Seq(TerminalEvents)
    BY <1>3, AnnounceType DEF EnqueueFailed, TerminalEvents
  <2>3. EnqueueTarget(h) \in Seqs
    BY <1>3, SeqsFacts DEF EnqueueFailed, Enqueues, EnqueueTarget, TypeInv, TypeOK,
       HandlersCarry, Carried, Continuations
  <2>4. orphans' \subseteq Seqs
    BY <1>3, <2>3 DEF EnqueueFailed, TypeInv, TypeOK
  <2>. QED
    BY <1>3, <2>1, <2>2, <2>4 DEF EnqueueFailed, TypeInv, TypeOK, attemptVars, timerVars,
       TerminalRunStatuses, RunStatuses
<1>4. ASSUME NEW h \in Handlers, CancelRemoves(h) PROVE TypeInv'
  <2>. DEFINE c == [kind |-> "cancel_remove", seq |-> active, note |-> "plain"]
  <2>0. c \in Continuations /\ Carried(c) /\ handler' = [handler EXCEPT ![h] = c]
    BY <1>4, SeqsFacts DEF CancelRemoves, Suspend, Unproven, Carried,
       Continuations, Kinds, Notes
  <2>1. handler' \in [Handlers -> Continuations] /\ HandlersCarry'
    BY <2>0, HandlerUpdate
  <2>. QED
    BY <1>4, <2>1, SeqsFacts DEF CancelRemoves, RunStatuses,
       TerminalRunStatuses, TypeInv, TypeOK, runVars, attemptVars, timerVars,
       transportVars
<1>5. ASSUME NEW h \in Handlers, CancelCloses(h) PROVE TypeInv'
  <2>1. handler' \in [Handlers -> Continuations] /\ HandlersCarry'
    BY <1>5, FinishType DEF CancelCloses
  <2>2. terminalEvents' \in Seq(TerminalEvents)
    BY <1>5, AnnounceType DEF CancelCloses, TerminalEvents
  <2>. QED
    BY <1>5, <2>1, SeqsFacts, <2>2, ZenonT(30) DEF CancelCloses, Removed, NotRemoved,
       SetAttemptState, AttemptStates, TerminalAttemptStates, RunStatuses,
       TerminalRunStatuses, TypeInv, TypeOK, runVars, attemptVars, timerVars,
       transportVars
<1>6. ASSUME NEW h \in Handlers, CancelLeavesJob(h) PROVE TypeInv'
  <2>1. handler' \in [Handlers -> Continuations] /\ HandlersCarry'
    BY <1>6, FinishType DEF CancelLeavesJob
  <2>2. dropped' \subseteq Seqs
    BY <1>6 DEF CancelLeavesJob, Drop, TypeInv, TypeOK, Continuations
  <2>3. job' = job
    BY <1>6 DEF CancelLeavesJob, RemoveThrows, NotRemoved
  <2>. QED
    BY <1>6, <2>1, <2>2, <2>3 DEF CancelLeavesJob, TypeInv, TypeOK, runVars, attemptVars,
       timerVars
<1>7. ASSUME NEW h \in Handlers, RetryEnqueues(h) PROVE TypeInv'
  <2>. DEFINE c == [kind |-> "retry_enqueue", seq |-> handler[h].seq, note |-> "sent"]
  <2>0. c \in Continuations /\ Carried(c) /\ handler' = [handler EXCEPT ![h] = c]
    BY <1>7, SeqsFacts DEF RetryEnqueues, TypeInv, TypeOK, HandlersCarry,
       Carried, Continuations, Kinds, Notes
  <2>1. handler' \in [Handlers -> Continuations] /\ HandlersCarry'
    BY <2>0, HandlerUpdate
  <2>. QED
    BY <1>7, <2>1, SeqsFacts, ZenonT(30) DEF RetryEnqueues, Removed, NotRemoved, TypeInv,
       TypeOK, runVars, attemptVars, timerVars, transportVars
<1>8. ASSUME NEW h \in Handlers, RetryAbandoned(h) PROVE TypeInv'
  <2>1. handler' \in [Handlers -> Continuations] /\ HandlersCarry'
    BY <1>8, FinishType DEF RetryAbandoned
  <2>2. dropped' \subseteq Seqs
    BY <1>8 DEF RetryAbandoned, Drop, TypeInv, TypeOK, Continuations
  <2>. QED
    BY <1>8, <2>1, <2>2 DEF RetryAbandoned, RemoveThrows, TypeInv, TypeOK, runVars,
       attemptVars, timerVars
<1>9. ASSUME NEW h \in Handlers, RetryEnqueued(h) PROVE TypeInv'
  <2>. DEFINE n == EnqueueTarget(h)
  <2>1. handler' \in [Handlers -> Continuations] /\ HandlersCarry'
    BY <1>9, FinishType DEF RetryEnqueued
  <2>2. n \in Seqs
    BY <1>9, SeqsFacts DEF RetryEnqueued, EnqueueTarget, TypeInv, TypeOK,
       HandlersCarry, Carried, Continuations
  <2>. HIDE DEF n
  <2>3. /\ records' \in [Seqs -> Nat] /\ leased' = leased
        /\ attemptState' \in [Seqs -> AttemptStates \cup {"absent"}]
    BY <1>9, <2>2 DEF n, RetryEnqueued, CreateAttempt, AttemptStates, TypeInv, TypeOK
  <2>4. /\ active' \in 0 .. (MaxQueueAttempts + 1) /\ pickupTimers' \subseteq Seqs
        /\ status' \in RunStatuses
    BY <1>9, <2>2, SeqsFacts DEF n, RetryEnqueued, TrackEnqueuedAttempt, RunStatuses,
       TypeInv, TypeOK
  <2>. QED
    BY <1>9, <2>1, <2>3, <2>4 DEF RetryEnqueued, TypeInv, TypeOK, transportVars
<1>10. ASSUME NEW h \in Handlers, FinalizeBinds(h) PROVE TypeInv'
  <2>1. handler' \in [Handlers -> Continuations] /\ HandlersCarry'
    BY <1>10, FinishType DEF FinalizeBinds
  <2>2. terminalEvents' \in Seq(TerminalEvents)
    BY <1>10, AnnounceType DEF FinalizeBinds, TypeInv, HandlersCarry,
       Carried
  <2>. QED
    BY <1>10, <2>1, SeqsFacts, <2>2 DEF FinalizeBinds, SetAttemptState,
       HandlersCarry, Carried, Continuations, TypeInv, TypeOK, runVars,
       attemptVars, timerVars, transportVars
<1>32. ASSUME NEW h \in Handlers, FinalizeAbandoned(h) PROVE TypeInv'
  <2>1. handler' \in [Handlers -> Continuations] /\ HandlersCarry'
    BY <1>32, FinishType DEF FinalizeAbandoned
  <2>. QED
    BY <1>32, <2>1 DEF FinalizeAbandoned, TypeInv, TypeOK, runVars, attemptVars,
       timerVars, transportVars
<1>11. ASSUME NEW h \in Handlers, AddLands(h) PROVE TypeInv'
  <2>. DEFINE c == [handler[h] EXCEPT !.note = "landed"]
  <2>0. c \in Continuations /\ Carried(c) /\ handler' = [handler EXCEPT ![h] = c]
    BY <1>11, SeqsFacts DEF AddLands, Enqueues, TypeInv, TypeOK,
       HandlersCarry, Carried, Continuations, Kinds, Notes
  <2>1. handler' \in [Handlers -> Continuations] /\ HandlersCarry'
    BY <2>0, HandlerUpdate
  <2>. QED
    BY <1>11, <2>1, SeqsFacts DEF AddLands, Enqueues, EnqueueTarget, Land,
       HandlersCarry, Carried, Continuations, TypeInv, TypeOK, runVars,
       attemptVars, timerVars, transportVars
<1>12. CASE CancelFences
  BY <1>12 DEF CancelFences, RunStatuses, TerminalRunStatuses, TypeInv,
     TypeOK, HandlersCarry, runVars, attemptVars, timerVars, transportVars
<1>13. ASSUME NEW m \in 1 .. MaxMutations, NEW verdict \in {"acked", "rejected"},
             AcceptMutationAck(m, verdict)
      PROVE  TypeInv'
  <2>. DEFINE Row == [attempt: Seqs, ack: {"none", "acked", "rejected"}]
  <2>a. ledger \in Seq(Row) /\ m \in DOMAIN ledger /\ ledger[m] \in Row
    <3>1. ledger \in Seq(Row) /\ m \in 1 .. Len(ledger)
      BY <1>13 DEF AcceptMutationAck, TypeInv, TypeOK
    <3>. HIDE DEF Row
    <3>. QED
      BY <3>1
  <2>b. ledger' = [ledger EXCEPT ![m] = [ledger[m] EXCEPT !.ack = verdict]]
    BY <1>13 DEF AcceptMutationAck
  <2>c. [ledger[m] EXCEPT !.ack = verdict] \in Row
    BY <2>a
  <2>. HIDE DEF Row
  <2>1. ledger' \in Seq(Row) /\ Len(ledger') = Len(ledger)
    BY <2>a, <2>b, <2>c
  <2>2. lastAcked' \in 0 .. MaxMutations
    BY <1>13 DEF AcceptMutationAck, SetLastAckedSeq, TypeInv, TypeOK
  <2>. QED
    BY <1>13, <2>1, <2>2 DEF Row, AcceptMutationAck, TypeInv, TypeOK,
       HandlersCarry, runVars, attemptVars, timerVars, transportVars
<1>14. ASSUME NEW s \in Seqs, HandleFinalizeGraceExpiry(s) PROVE TypeInv'
  <2>1. MissingFinalizeStatus \in TerminalRunStatuses
    BY DEF MissingFinalizeStatus, TerminalRunStatuses
  <2>2. terminalEvents' \in Seq(TerminalEvents)
    BY <1>14, <2>1, AnnounceType DEF HandleFinalizeGraceExpiry, TypeInv,
       TypeOK
  <2>. QED
    BY <1>14, <2>1, <2>2 DEF HandleFinalizeGraceExpiry, SetAttemptState,
       TypeInv, TypeOK, HandlersCarry, runVars, attemptVars, timerVars,
       transportVars
<1>15. ASSUME NEW s \in Seqs, NEW outcome \in Outcomes, FinalizeCloses(s, outcome) PROVE TypeInv'
  <2>1. outcome.final \in TerminalRunStatuses
    BY OutcomesAssumption
  <2>2. terminalEvents' \in Seq(TerminalEvents)
    BY <1>15, <2>1, AnnounceType DEF FinalizeCloses
  <2>. QED
    BY <1>15, <2>1, <2>2 DEF FinalizeCloses, SetAttemptState, TypeInv, TypeOK,
       HandlersCarry, runVars, attemptVars, timerVars, transportVars
<1>16. ASSUME NEW s \in Seqs, NEW outcome \in Outcomes, NEW h \in Handlers,
             FinalizeMaterializes(h, s, outcome)
      PROVE  TypeInv'
  <2>. DEFINE c == [kind |-> "materialize", seq |-> s, note |-> outcome.final]
  <2>1. c \in Continuations /\ Carried(c) /\ handler' = [handler EXCEPT ![h] = c]
    BY <1>16, OutcomesAssumption DEF FinalizeMaterializes, Suspend, Carried,
       Continuations, Kinds, Notes
  <2>2. handler' \in [Handlers -> Continuations] /\ HandlersCarry'
    BY <2>1, HandlerUpdate
  <2>. QED
    BY <1>16, <2>2 DEF FinalizeMaterializes, TypeInv, TypeOK, runVars,
       attemptVars, timerVars, transportVars
<1>17. ASSUME NEW s \in Seqs, HandlePickupTimeout(s) PROVE TypeInv'
  BY <1>17, RetryOrFailType DEF HandlePickupTimeout, TypeInv, TypeOK,
     HandlersCarry, runVars, attemptVars, timerVars, transportVars
<1>18. ASSUME NEW s \in Seqs, ObserveCompleted(s) PROVE TypeInv'
  BY <1>18 DEF ObserveCompleted, TrackFinalizeGrace, TypeInv, TypeOK,
     HandlersCarry, runVars, attemptVars, timerVars, transportVars
<1>19. ASSUME NEW s \in Seqs, NEW kind \in {"failed", "stalled"}, ObserveFailure(s, kind)
       PROVE  TypeInv'
  BY <1>19, RetryOrFailType DEF ObserveFailure, TypeInv, TypeOK,
     HandlersCarry, runVars, attemptVars, timerVars, transportVars
<1>20. ASSUME NEW s \in Seqs, NEW beat \in Beats, AcceptHeartbeat(s, beat) PROVE TypeInv'
  BY <1>20, BeatsAssumption DEF AcceptHeartbeat, UpdateRunStatusIfAllowed,
     StatusOfBeat, TypeInv, TypeOK, HandlersCarry, runVars, attemptVars, timerVars,
     transportVars
<1>21. ASSUME NEW s \in Seqs, NEW phase \in PhaseEvents, AppendPhase(s, phase) PROVE TypeInv'
  BY <1>21, PhaseEventsAssumption DEF AppendPhase, UpdateRunStatusIfAllowed,
     TypeInv, TypeOK, HandlersCarry, runVars, attemptVars, timerVars,
     transportVars
<1>22. ASSUME NEW s \in Seqs, AppendLog(s) PROVE TypeInv'
  BY <1>22 DEF AppendLog, TypeInv, TypeOK, HandlersCarry, runVars,
     attemptVars, timerVars, transportVars
<1>23. ASSUME NEW s \in Seqs, AppendMutation(s) PROVE TypeInv'
  BY <1>23 DEF AppendMutation, UpdateRunStatusIfAllowed, RunStatuses,
     ProgressStatuses, AttemptStates, TypeInv, TypeOK, HandlersCarry, runVars,
     attemptVars, timerVars, transportVars
<1>24. ASSUME NEW s \in Seqs, FinalizeRepeats(s) PROVE TypeInv'
  BY <1>24 DEF FinalizeRepeats, TypeInv, TypeOK, HandlersCarry, runVars,
     attemptVars, timerVars, transportVars
<1>25. ASSUME NEW s \in Seqs, OrphanLands(s) PROVE TypeInv'
  BY <1>25 DEF OrphanLands, Land, TypeInv, TypeOK, HandlersCarry, runVars,
     attemptVars, timerVars, transportVars
<1>26. ASSUME NEW s \in Seqs, PickUp(s) PROVE TypeInv'
  BY <1>26 DEF PickUp, TypeInv, TypeOK, HandlersCarry, runVars, attemptVars,
     timerVars, transportVars
<1>27. ASSUME NEW s \in Seqs, WorkerThrows(s) PROVE TypeInv'
  <2>1. signals' \subseteq Seqs \X {"completed", "failed", "stalled"}
    BY <1>27 DEF WorkerThrows, TypeInv, TypeOK
  <2>2. job' \in [Seqs -> {"absent", "waiting", "active", "completed", "failed"}]
    <3>1. CASE job[s] = "active"
      BY <1>27, <3>1, JobEndsType DEF WorkerThrows
    <3>2. CASE job[s] # "active"
      BY <1>27, <3>2 DEF WorkerThrows, TypeInv, TypeOK
    <3>. QED
      BY <3>1, <3>2
  <2>3. worker' \in [Seqs -> {"none", "running", "finalizing", "returned", "ended"}]
    BY <1>27 DEF WorkerThrows, TypeInv, TypeOK
  <2>. QED
    BY <1>27, <2>1, <2>2, <2>3 DEF WorkerThrows, TypeInv, TypeOK, HandlersCarry, runVars,
       attemptVars, timerVars
<1>28. ASSUME NEW s \in Seqs, WorkerReturns(s) PROVE TypeInv'
  <2>1. signals' \subseteq Seqs \X {"completed", "failed", "stalled"}
    BY <1>28 DEF WorkerReturns, TypeInv, TypeOK
  <2>2. job' \in [Seqs -> {"absent", "waiting", "active", "completed", "failed"}]
    <3>1. CASE job[s] = "active"
      BY <1>28, <3>1, JobEndsType DEF WorkerReturns
    <3>2. CASE job[s] # "active"
      BY <1>28, <3>2 DEF WorkerReturns, TypeInv, TypeOK
    <3>. QED
      BY <3>1, <3>2
  <2>3. worker' \in [Seqs -> {"none", "running", "finalizing", "returned", "ended"}]
    BY <1>28 DEF WorkerReturns, TypeInv, TypeOK
  <2>. QED
    BY <1>28, <2>1, <2>2, <2>3 DEF WorkerReturns, TypeInv, TypeOK, HandlersCarry, runVars,
       attemptVars, timerVars
<1>29. ASSUME NEW s \in Seqs, WorkerCrashes(s) PROVE TypeInv'
  BY <1>29 DEF WorkerCrashes, TypeInv, TypeOK, HandlersCarry, runVars,
     attemptVars, timerVars, transportVars
<1>30. ASSUME NEW s \in Seqs, LockExpires(s) PROVE TypeInv'
  BY <1>30 DEF LockExpires, TypeInv, TypeOK, HandlersCarry, runVars,
     attemptVars, timerVars, transportVars
<1>31. CASE UNCHANGED vars
  BY <1>31 DEF vars, runVars, attemptVars, timerVars, transportVars, TypeInv,
     TypeOK, HandlersCarry
<1>. QED
  BY <1>1, <1>2, <1>3, <1>4, <1>5, <1>6, <1>7, <1>8, <1>9, <1>10, <1>11,
     <1>12, <1>13, <1>14, <1>15, <1>16, <1>17, <1>18, <1>19, <1>20, <1>21,
     <1>22, <1>23, <1>24, <1>25, <1>26, <1>27, <1>28, <1>29, <1>30, <1>31,
     <1>32 DEF Next, Client, Resume, Watchdog, Callback, Transport, JobEnds

\* no run yet: the types hold
LEMMA InitType == Init => TypeInv
BY SeqsFacts, IdleIsContinuation DEF Init, TypeInv, TypeOK, HandlersCarry

\* Every variable keeps its type in every reachable state.
THEOREM TypeCorrect == Spec => []TypeOK
<1>1. TypeInv => TypeOK
  BY DEF TypeInv
<1>. QED
  BY InitType, TypeStep, <1>1, PTL DEF Spec

-------------------------------------------------------------------------------
(* What each kind of step leaves alone *)

\* a client touches no attempt, timer, transport or worker
LEMMA ClientFrame ==
  ASSUME Client
  PROVE  UNCHANGED <<active, attemptVars, timerVars, terminalEvents, transportVars, worker,
                     dropped>>
BY DEF Client, StartRun, CancelRemoves, CancelFences, AcceptMutationAck

\* a resumed handler touches no ack, lease or ledger, and takes no drop back
LEMMA ResumeFrame ==
  ASSUME NEW h \in Handlers, Resume(h)
  PROVE  UNCHANGED <<cancelAt, lastAcked, leased, ledger, signals>> /\ dropped \subseteq dropped'
BY DEF Resume, BootstrapEnqueued, EnqueueFailed, CancelCloses, CancelLeavesJob, Drop,
       RetryEnqueues, RetryAbandoned, RetryEnqueued, FinalizeBinds, FinalizeAbandoned,
       CreateAttempt, runVars, attemptVars, transportVars

\* an add that lands touches only the queue
LEMMA AddLandsFrame ==
  ASSUME NEW h \in Handlers, AddLands(h)
  PROVE  UNCHANGED <<runVars, attemptVars, ledger, timerVars, terminalEvents,
                     orphans, signals, worker, dropped>>
BY DEF AddLands

\* the watchdog touches no row, lease, ledger or worker
LEMMA WatchdogFrame ==
  ASSUME NEW s \in Seqs, Watchdog(s)
  PROVE  UNCHANGED <<active, cancelAt, lastAcked, records, leased, ledger, job,
                     orphans, worker, dropped>>
BY DEF Watchdog, HandlePickupTimeout, ObserveCompleted, ObserveFailure,
       HandleFinalizeGraceExpiry, RetryOrFail, RetryStarts, RetryRefused, ForceCancel,
       runVars, attemptVars, transportVars

\* a callback touches no timer and no transport
LEMMA CallbackFrame ==
  ASSUME NEW s \in Seqs, Callback(s)
  PROVE  UNCHANGED <<active, cancelAt, lastAcked, records, timerVars, transportVars, dropped>>
BY DEF Callback, AcceptHeartbeat, AppendPhase, AppendLog, AppendMutation, FinalizeRepeats,
       FinalizeCloses, FinalizeMaterializes, runVars, attemptVars

\* queue and worker process touch nothing the API keeps
LEMMA TransportFrame ==
  ASSUME NEW s \in Seqs, Transport(s)
  PROVE  UNCHANGED <<runVars, attemptVars, ledger, timerVars, terminalEvents, handler,
                     dropped>>
BY DEF Transport, JobEnds, OrphanLands, PickUp, WorkerCrashes, WorkerThrows, WorkerReturns,
       LockExpires

\* a step is one of a client, a handler, the watchdog, a callback or the transport
LEMMA NextCases ==
  ASSUME [Next]_vars
  PROVE  \/ Client
         \/ \E h \in Handlers : Resume(h) \/ AddLands(h)
         \/ \E s \in Seqs : Watchdog(s) \/ Callback(s) \/ Transport(s)
         \/ UNCHANGED vars
BY DEF Next

-------------------------------------------------------------------------------
(* The retry budget *)

InBudget(s) == s <= MaxQueueAttempts

\* Nor does an add still in flight exceed it.
BudgetInv == AttemptBudget /\ \A s \in orphans : InBudget(s)

\* An enqueue in progress was decided on within the budget.
LEMMA TargetInBudget ==
  ASSUME TypeInv, NEW h \in Handlers, Enqueues(h)
  PROVE  EnqueueTarget(h) \in Seqs /\ InBudget(EnqueueTarget(h))
BY SeqsFacts DEF TypeInv, TypeOK, HandlersCarry, Carried, Continuations, Enqueues,
   EnqueueTarget, InBudget

\* A step that lands nothing new in the queue and creates no row keeps it.
LEMMA BudgetFrame ==
  ASSUME BudgetInv, records' = records, active' = active, orphans' \subseteq orphans,
         \A s \in Seqs : job'[s] # "absent" => job[s] # "absent"
  PROVE  BudgetInv'
BY DEF BudgetInv, AttemptBudget

\* a retry is scheduled below the budget only
LEMMA BudgetStep == TypeInv /\ BudgetInv /\ [Next]_vars => BudgetInv'
<1>. SUFFICES ASSUME TypeInv, BudgetInv, [Next]_vars PROVE BudgetInv'
  OBVIOUS
<1>1. CASE Client
  BY <1>1, ClientFrame, BudgetFrame DEF attemptVars, transportVars
<1>2. ASSUME NEW h \in Handlers, Resume(h) PROVE BudgetInv'
  <2>1. CASE BootstrapEnqueued(h) \/ RetryEnqueued(h)
    <3>. DEFINE n == EnqueueTarget(h)
    <3>1. n \in Seqs /\ InBudget(n) /\ active' = n /\ records' = [records EXCEPT ![n] = @ + 1]
      BY <2>1, TargetInBudget DEF BootstrapEnqueued, RetryEnqueued, CreateAttempt, Enqueues,
         EnqueueTarget
    <3>2. UNCHANGED <<job, orphans>>
      BY <2>1 DEF BootstrapEnqueued, RetryEnqueued, transportVars
    <3>. HIDE DEF n
    <3>. QED
      BY <3>1, <3>2 DEF BudgetInv, AttemptBudget, InBudget, TypeInv, TypeOK
  <2>2. CASE EnqueueFailed(h)
    <3>1. Enqueues(h) /\ UNCHANGED <<records, active, job>>
      BY <2>2 DEF EnqueueFailed, attemptVars
    <3>2. orphans' \subseteq orphans \cup {EnqueueTarget(h)}
      BY <2>2 DEF EnqueueFailed
    <3>. QED
      BY <3>1, <3>2, TargetInBudget DEF BudgetInv, AttemptBudget
  <2>3. CASE CancelCloses(h) \/ CancelLeavesJob(h) \/ RetryEnqueues(h) \/ RetryAbandoned(h)
    <3>1. UNCHANGED <<records, active, orphans>>
      BY <2>3 DEF CancelCloses, CancelLeavesJob, RetryEnqueues, RetryAbandoned, runVars,
         attemptVars
    <3>2. \A s \in Seqs : job'[s] # "absent" => job[s] # "absent"
      BY <2>3 DEF CancelCloses, CancelLeavesJob, RetryEnqueues, RetryAbandoned, Removed,
         NotRemoved, RemoveThrows, TypeInv, TypeOK
    <3>. QED
      BY <3>1, <3>2, BudgetFrame
  <2>4. CASE FinalizeBinds(h) \/ FinalizeAbandoned(h)
    BY <2>4, BudgetFrame DEF FinalizeBinds, FinalizeAbandoned, runVars, attemptVars, transportVars
  <2>. QED
    BY <1>2, <2>1, <2>2, <2>3, <2>4 DEF Resume
<1>3. ASSUME NEW h \in Handlers, AddLands(h) PROVE BudgetInv'
  <2>1. EnqueueTarget(h) \in Seqs /\ InBudget(EnqueueTarget(h))
    BY <1>3, TargetInBudget DEF AddLands
  <2>2. \A s \in Seqs : job'[s] # "absent" => job[s] # "absent" \/ s = EnqueueTarget(h)
    BY <1>3 DEF AddLands, Land, TypeInv, TypeOK
  <2>. QED
    BY <1>3, AddLandsFrame, <2>1, <2>2 DEF BudgetInv, AttemptBudget, InBudget, runVars,
       attemptVars
<1>4. ASSUME NEW s \in Seqs, Watchdog(s) PROVE BudgetInv'
  BY <1>4, WatchdogFrame, BudgetFrame
<1>5. ASSUME NEW s \in Seqs, Callback(s) PROVE BudgetInv'
  BY <1>5, CallbackFrame, BudgetFrame DEF transportVars
<1>6. ASSUME NEW s \in Seqs, Transport(s) PROVE BudgetInv'
  <2>1. CASE OrphanLands(s)
    <3>1. orphans' \subseteq orphans /\ InBudget(s)
      BY <2>1 DEF OrphanLands, BudgetInv
    <3>2. \A t \in Seqs : job'[t] # "absent" => job[t] # "absent" \/ t = s
      BY <2>1 DEF OrphanLands, Land, TypeInv, TypeOK
    <3>. QED
      BY <1>6, TransportFrame, <3>1, <3>2 DEF BudgetInv, AttemptBudget, InBudget, runVars,
         attemptVars
  <2>2. CASE PickUp(s) \/ WorkerCrashes(s) \/ JobEnds(s)
    <3>1. orphans' = orphans /\ \A t \in Seqs : job'[t] # "absent" => job[t] # "absent"
      BY <2>2 DEF PickUp, WorkerCrashes, JobEnds, WorkerThrows, WorkerReturns, LockExpires,
         transportVars, TypeInv, TypeOK
    <3>. QED
      BY <1>6, TransportFrame, <3>1, BudgetFrame DEF runVars, attemptVars
  <2>. QED
    BY <1>6, <2>1, <2>2 DEF Transport
<1>7. CASE UNCHANGED vars
  BY <1>7, BudgetFrame DEF vars, runVars, attemptVars, transportVars
<1>. QED
  BY <1>1, <1>2, <1>3, <1>4, <1>5, <1>6, <1>7, NextCases

\* No attempt is queued, recorded or activated past maxQueueAttempts, whatever
\* the queue and the store do and however many handlers are suspended.
THEOREM RetryBudgetHolds == Spec => []AttemptBudget
<1>1. Init => BudgetInv
  BY SeqsFacts DEF Init, BudgetInv, AttemptBudget, InBudget
<1>2. TypeInv /\ TypeInv' /\ BudgetInv /\ [Next]_vars => BudgetInv'
  BY BudgetStep
<1>3. BudgetInv => AttemptBudget
  BY DEF BudgetInv
<1>. QED
  BY InitType, TypeStep, <1>1, <1>2, <1>3, PTL DEF Spec
-------------------------------------------------------------------------------
(* Ownership and announcements *)

\* A lease is recognized for a worker process and an attempt row that exist; the
\* watch over an open run rests on it.
OwnershipProven == \A s \in leased : worker[s] # "none" /\ records[s] > 0

\* A step that takes no process back, drops no row and recognizes no lease.
LEMMA OwnershipFrame ==
  ASSUME OwnershipProven, TypeInv, leased' \subseteq leased,
         \A s \in Seqs : records[s] > 0 => records'[s] > 0,
         \A s \in Seqs : worker[s] # "none" => worker'[s] # "none"
  PROVE  OwnershipProven'
BY DEF OwnershipProven, TypeInv, TypeOK

\* attempt rows are never removed
LEMMA RowsKept ==
  ASSUME TypeInv, NEW n \in Seqs, records' = [records EXCEPT ![n] = @ + 1] \/ records' = records
  PROVE  \A s \in Seqs : records[s] > 0 => records'[s] > 0
<1>1. records \in [Seqs -> Nat]
  BY DEF TypeInv, TypeOK
<1>. QED
  BY <1>1

\* a lease comes with a process and a row, and they stay
LEMMA OwnershipStep == TypeInv /\ OwnershipProven /\ [Next]_vars => OwnershipProven'
<1>. SUFFICES ASSUME TypeInv, OwnershipProven, [Next]_vars PROVE OwnershipProven'
  OBVIOUS
<1>1. CASE Client
  BY <1>1, ClientFrame, OwnershipFrame, SeqsFacts, RowsKept DEF attemptVars
<1>2. ASSUME NEW h \in Handlers, Resume(h) PROVE OwnershipProven'
  <2>. DEFINE n == EnqueueTarget(h)
  <2>1. CASE BootstrapEnqueued(h) \/ RetryEnqueued(h)
    <3>1. n \in Seqs /\ records' = [records EXCEPT ![n] = @ + 1] /\ worker' = worker
      BY <2>1, TargetInBudget DEF BootstrapEnqueued, RetryEnqueued, CreateAttempt, Enqueues,
         EnqueueTarget
    <3>. HIDE DEF n
    <3>. QED
      BY <1>2, <3>1, ResumeFrame, RowsKept, OwnershipFrame
  <2>2. CASE ~(BootstrapEnqueued(h) \/ RetryEnqueued(h) \/ FinalizeBinds(h)
               \/ FinalizeAbandoned(h))
    <3>1. records' = records /\ worker' = worker
      BY <1>2, <2>2 DEF Resume, EnqueueFailed, CancelCloses, CancelLeavesJob, RetryEnqueues,
         RetryAbandoned, attemptVars
    <3>. QED
      BY <1>2, <3>1, ResumeFrame, RowsKept, SeqsFacts, OwnershipFrame
  <2>3. CASE FinalizeBinds(h) \/ FinalizeAbandoned(h)
    <3>1. records' = records /\ \A s \in Seqs : worker[s] # "none" => worker'[s] # "none"
      BY <2>3 DEF FinalizeBinds, FinalizeAbandoned, attemptVars, TypeInv, TypeOK
    <3>. QED
      BY <1>2, <3>1, ResumeFrame, RowsKept, SeqsFacts, OwnershipFrame
  <2>. QED
    BY <2>1, <2>2, <2>3
<1>3. ASSUME NEW h \in Handlers, AddLands(h) PROVE OwnershipProven'
  BY <1>3, AddLandsFrame, OwnershipFrame, SeqsFacts, RowsKept DEF attemptVars
<1>4. ASSUME NEW s \in Seqs, Watchdog(s) PROVE OwnershipProven'
  BY <1>4, WatchdogFrame, OwnershipFrame, RowsKept
<1>5. ASSUME NEW s \in Seqs, Callback(s) PROVE OwnershipProven'
  <2>1. \A t \in Seqs : worker[t] # "none" => worker'[t] # "none"
    BY <1>5 DEF Callback, AcceptHeartbeat, AppendPhase, AppendLog, AppendMutation,
       FinalizeRepeats, FinalizeCloses, FinalizeMaterializes, TypeInv, TypeOK
  <2>2. leased' \subseteq leased \/ (leased' = leased \cup {s} /\ CallbackAccepted(s)
                                      /\ worker[s] = "running" /\ worker' = worker)
    BY <1>5 DEF Callback, AcceptHeartbeat, AppendPhase, AppendLog, AppendMutation,
       FinalizeRepeats, FinalizeCloses, FinalizeMaterializes, attemptVars
  <2>3. records' = records
    BY <1>5, CallbackFrame
  <2>. QED
    BY <2>1, <2>2, <2>3, RowsKept, OwnershipFrame DEF OwnershipProven, CallbackAccepted
<1>6. ASSUME NEW s \in Seqs, Transport(s) PROVE OwnershipProven'
  <2>1. \A t \in Seqs : worker[t] # "none" => worker'[t] # "none"
    BY <1>6 DEF Transport, JobEnds, OrphanLands, PickUp, WorkerCrashes, WorkerThrows,
       WorkerReturns, LockExpires, TypeInv, TypeOK
  <2>. QED
    BY <1>6, <2>1, TransportFrame, OwnershipFrame, RowsKept DEF attemptVars
<1>7. CASE UNCHANGED vars
  BY <1>7, OwnershipFrame, RowsKept, SeqsFacts DEF vars, attemptVars
<1>. QED
  BY <1>1, <1>2, <1>3, <1>4, <1>5, <1>6, <1>7, NextCases

\* a recognized lease has a worker process and an attempt row behind it
LEMMA LeasesAreProven == Spec => []OwnershipProven
<1>1. Init => OwnershipProven
  BY DEF Init, OwnershipProven
<1>2. TypeInv /\ TypeInv' /\ OwnershipProven /\ [Next]_vars => OwnershipProven'
  BY OwnershipStep
<1>. QED
  BY InitType, TypeStep, <1>1, <1>2, PTL DEF Spec

\* The event announced is the one of the status the run is given.
LEMMA AnnouncedNow ==
  ASSUME TypeInv, NEW event \in TerminalEvents, Announce(event),
         status' \in TerminalRunStatuses => event = TerminalEventOf(status')
  PROVE  TerminalAnnounced'
BY DEF TypeInv, TypeOK, Announce, TerminalAnnounced, IsTerminal

\* the last event stands while the run stays as it is
LEMMA AnnouncedFrame ==
  ASSUME TerminalAnnounced, terminalEvents' = terminalEvents,
         status' = status \/ status' \notin TerminalRunStatuses
  PROVE  TerminalAnnounced'
BY DEF TerminalAnnounced, IsTerminal

\* the events of the terminal statuses
LEMMA EventFacts ==
  /\ TerminalEventOf("failed") = "run.failed" /\ "failed" \in TerminalRunStatuses
  /\ TerminalEventOf("cancelled") = "run.cancelled" /\ "cancelled" \in TerminalRunStatuses
  /\ MissingFinalizeStatus \in TerminalRunStatuses
BY DEF TerminalEventOf, TerminalRunStatuses, MissingFinalizeStatus

\* Progress never closes a run.
LEMMA ProgressIsOpen ==
  /\ \A phase \in Phases : StatusOfPhase(phase) \notin TerminalRunStatuses
  /\ {"finalizing", "enqueue_pending", "planning_queued", "cancel_requested", "awaiting_apply_ack"}
       \cap TerminalRunStatuses = {}
BY DEF Phases, StatusOfPhase, TerminalRunStatuses

\* whoever closes the run appends the event of its status
LEMMA AnnouncedStep == TypeInv /\ TerminalAnnounced /\ [Next]_vars => TerminalAnnounced'
<1>. SUFFICES ASSUME TypeInv, TerminalAnnounced, [Next]_vars PROVE TerminalAnnounced'
  OBVIOUS
<1>1. CASE Client
  <2>1. status' = status \/ status' \notin TerminalRunStatuses
    BY <1>1, ProgressIsOpen DEF Client, StartRun, CancelRemoves, CancelFences, AcceptMutationAck
  <2>. QED
    BY <1>1, <2>1, ClientFrame, AnnouncedFrame
<1>2. ASSUME NEW h \in Handlers, Resume(h) PROVE TerminalAnnounced'
  <2>1. CASE EnqueueFailed(h) \/ CancelCloses(h)
    BY <2>1, AnnouncedNow, EventFacts DEF EnqueueFailed, CancelCloses, TerminalEvents
  <2>2. CASE FinalizeBinds(h)
    <3>1. handler[h].note \in TerminalRunStatuses
      BY <2>2 DEF FinalizeBinds, TypeInv, HandlersCarry, Carried
    <3>. QED
      BY <2>2, <3>1, StatusFacts, AnnouncedNow DEF FinalizeBinds
  <2>3. CASE ~(EnqueueFailed(h) \/ CancelCloses(h) \/ FinalizeBinds(h))
    BY <1>2, <2>3, ProgressIsOpen, AnnouncedFrame DEF Resume, BootstrapEnqueued,
       RetryEnqueued, RetryEnqueues, RetryAbandoned, FinalizeAbandoned, CancelLeavesJob,
       runVars
  <2>. QED
    BY <2>1, <2>2, <2>3
<1>3. ASSUME NEW h \in Handlers, AddLands(h) PROVE TerminalAnnounced'
  BY <1>3, AddLandsFrame, AnnouncedFrame DEF runVars
<1>4. ASSUME NEW s \in Seqs, Watchdog(s) PROVE TerminalAnnounced'
  <2>1. ASSUME RetryOrFail(s) \/ ForceCancel(s) PROVE TerminalAnnounced'
    BY <2>1, AnnouncedNow, EventFacts, AnnouncedFrame DEF RetryOrFail, RetryStarts,
       RetryRefused, ForceCancel, TerminalEvents, runVars
  <2>2. ASSUME HandleFinalizeGraceExpiry(s) PROVE TerminalAnnounced'
    BY <2>2, AnnouncedNow, EventFacts, StatusFacts, AnnouncedFrame DEF
       HandleFinalizeGraceExpiry
  <2>. QED
    BY <1>4, <2>1, <2>2, AnnouncedFrame DEF Watchdog, HandlePickupTimeout, ObserveCompleted,
       ObserveFailure, runVars
<1>5. ASSUME NEW s \in Seqs, Callback(s) PROVE TerminalAnnounced'
  <2>1. ASSUME NEW outcome \in Outcomes, FinalizeCloses(s, outcome) PROVE TerminalAnnounced'
    BY <2>1, OutcomesAssumption, StatusFacts, AnnouncedNow DEF FinalizeCloses
  <2>2. ASSUME NEW beat \in Beats, AcceptHeartbeat(s, beat) PROVE TerminalAnnounced'
    BY <2>2, BeatsAssumption, ProgressIsOpen, AnnouncedFrame DEF AcceptHeartbeat,
       UpdateRunStatusIfAllowed, StatusOfBeat
  <2>3. ASSUME NEW phase \in PhaseEvents, AppendPhase(s, phase) PROVE TerminalAnnounced'
    BY <2>3, PhaseEventsAssumption, ProgressIsOpen, AnnouncedFrame DEF AppendPhase,
       UpdateRunStatusIfAllowed
  <2>4. ASSUME AppendLog(s) \/ AppendMutation(s) \/ FinalizeRepeats(s) PROVE TerminalAnnounced'
    BY <2>4, ProgressIsOpen, AnnouncedFrame DEF AppendLog, AppendMutation, FinalizeRepeats,
       UpdateRunStatusIfAllowed, runVars
  <2>5. ASSUME NEW outcome \in Outcomes, NEW h \in Handlers,
               FinalizeMaterializes(h, s, outcome)
        PROVE  TerminalAnnounced'
    BY <2>5, AnnouncedFrame DEF FinalizeMaterializes, runVars
  <2>. QED
    BY <1>5, <2>1, <2>2, <2>3, <2>4, <2>5 DEF Callback
<1>6. ASSUME NEW s \in Seqs, Transport(s) PROVE TerminalAnnounced'
  BY <1>6, TransportFrame, AnnouncedFrame DEF runVars
<1>7. CASE UNCHANGED vars
  BY <1>7, AnnouncedFrame DEF vars, runVars
<1>. QED
  BY <1>1, <1>2, <1>3, <1>4, <1>5, <1>6, <1>7, NextCases

\* Whoever closed the run, the SSE log ends with the terminal event of the run's
\* status, even where an overwritten terminal status made it carry several.
THEOREM TerminalIsAnnounced == Spec => []TerminalAnnounced
<1>1. Init => TerminalAnnounced
  BY DEF Init, TerminalAnnounced, IsTerminal, TerminalRunStatuses
<1>2. TypeInv /\ TypeInv' /\ TerminalAnnounced /\ [Next]_vars => TerminalAnnounced'
  BY AnnouncedStep
<1>. QED
  BY InitType, TypeStep, <1>1, <1>2, PTL DEF Spec
-------------------------------------------------------------------------------
(***************************************************************************)
(* Handlers that are never interrupted                                     *)
(*                                                                         *)
(* With a queue and a store that answer within the event loop's turn, what *)
(* a handler read before its await still holds when it resumes, and the    *)
(* run is closed once and for good.  The invariant says so.                *)
(***************************************************************************)
HandlersAtomic == ~QueueOpsYield /\ ~StoreOpsYield

AllIdle == \A h \in Handlers : handler[h] = Idle

Solo == \A g, h \in Handlers : handler[g] # Idle /\ handler[h] # Idle => g = h

\* What the handler that left c behind had read of the run.
StillTrue(c) ==
  /\ c.kind = "idle" => c = Idle
  /\ c.kind = "bootstrap" => status = "enqueue_pending" /\ active = 0
  /\ c.kind = "cancel_remove" => status = "cancel_requested" /\ active = c.seq
  /\ c.kind \in {"retry_remove", "retry_enqueue"} =>
       /\ Open /\ status # "cancel_requested" /\ lastAcked = 0
       /\ active = c.seq /\ attemptState[c.seq] = "failed"
  /\ c.kind = "materialize" => Open /\ active = c.seq

HandlersStill == \A h \in Handlers : StillTrue(handler[h])

\* One row per attempt, for exactly the attempts up to the active one.
Rows == \A s \in Seqs : records[s] = IF s <= active THEN 1 ELSE 0

Unstarted == status = "absent" => active = 0 /\ AllIdle /\ ledger = <<>>

\* The cancel fence is up from the accepted cancel to the close.
Fenced ==
  /\ cancelAt = "set" => status = "cancel_requested" \/ IsTerminal
  /\ status = "cancel_requested" => cancelAt = "set"

ClosedOnce == Len(terminalEvents) = IF IsTerminal THEN 1 ELSE 0

HandlerInv == Solo /\ HandlersStill /\ Unstarted
AtomicInv == HandlerInv /\ Rows /\ Fenced /\ ClosedOnce /\ ClosedTogether

\* without yields, a free event loop means that nobody is suspended
LEMMA LoopFreeIdle ==
  ASSUME HandlersAtomic, LoopFree PROVE AllIdle
BY DEF HandlersAtomic, LoopFree, AllIdle, Yields

\* if nobody is suspended, nothing read is stale
LEMMA IdleStill == AllIdle' => Solo' /\ HandlersStill'
BY DEF AllIdle, Solo, HandlersStill, StillTrue, Idle

\* One handler moves on while the others are idle.
LEMMA OneMoves ==
  ASSUME TypeInv, Solo, NEW h \in Handlers, NEW c, AllIdle \/ handler[h] # Idle,
         handler' = [handler EXCEPT ![h] = c], StillTrue(c)'
  PROVE  Solo' /\ HandlersStill'
<1>1. \A g \in Handlers : g # h => handler[g] = Idle
  BY DEF Solo, AllIdle
<1>2. \A g \in Handlers : handler'[g] = IF g = h THEN c ELSE Idle
  BY <1>1 DEF TypeInv, TypeOK
<1>3. StillTrue(Idle)'
  BY DEF StillTrue, Idle
<1>. QED
  BY <1>2, <1>3 DEF Solo, HandlersStill

\* A handler that finishes has nothing left to resume with.
LEMMA HandlerFinishes ==
  ASSUME TypeInv, Solo, NEW h \in Handlers, handler[h] # Idle, Finish(h)
  PROVE  Solo' /\ HandlersStill'
<1>1. StillTrue(Idle)'
  BY DEF StillTrue, Idle
<1>. QED
  BY <1>1, OneMoves DEF Finish

\* What is suspended is not idle.
LEMMA SuspendedNotIdle ==
  ASSUME NEW h \in Handlers, handler[h].kind # "idle" PROVE handler[h] # Idle
BY DEF Idle

\* without yields, nothing comes between what a handler reads and what it does
LEMMA HandlerStep ==
  HandlersAtomic /\ TypeInv /\ HandlerInv /\ Fenced /\ [Next]_vars => HandlerInv'
<1>. SUFFICES ASSUME HandlersAtomic, TypeInv, HandlerInv, Fenced, [Next]_vars
              PROVE  HandlerInv'
  OBVIOUS
<1>1. CASE Client
  <2>1. LoopFree /\ AllIdle
    BY <1>1, LoopFreeIdle DEF Client, StartRun, CancelRemoves, CancelFences, AcceptMutationAck
  <2>5. status' # "absent"
    <3>1. CASE \E m \in 1 .. MaxMutations, verdict \in {"acked", "rejected"} :
                 AcceptMutationAck(m, verdict)
      BY <3>1 DEF AcceptMutationAck, HandlerInv, Unstarted
    <3>. QED
      BY <1>1, <3>1 DEF Client, StartRun, CancelRemoves, CancelFences
  <2>2. ASSUME NEW h \in Handlers, StartRun(h) PROVE Solo' /\ HandlersStill'
    <3>. DEFINE c == [kind |-> "bootstrap", seq |-> 1, note |-> "sent"]
    <3>1. handler' = [handler EXCEPT ![h] = c] /\ StillTrue(c)'
      BY <2>2 DEF StartRun, Suspend, StillTrue, HandlerInv, Unstarted
    <3>. QED
      BY <2>1, <3>1, OneMoves DEF HandlerInv
  <2>3. ASSUME NEW h \in Handlers, CancelRemoves(h) PROVE Solo' /\ HandlersStill'
    <3>1. PICK c : c = [kind |-> "cancel_remove", seq |-> active, note |-> "plain"]
      OBVIOUS
    <3>2. handler' = [handler EXCEPT ![h] = c] /\ StillTrue(c)'
      BY <2>3, <3>1 DEF CancelRemoves, Suspend, StillTrue
    <3>. QED
      BY <2>1, <3>2, OneMoves DEF HandlerInv
  <2>4. CASE UNCHANGED handler
    <3>1. AllIdle'
      BY <2>1, <2>4 DEF AllIdle
    <3>. QED
      BY <2>1, <2>5, <3>1, IdleStill DEF HandlerInv, Unstarted
  <2>. QED
    BY <1>1, <2>2, <2>3, <2>4, <2>5 DEF Client, CancelFences, AcceptMutationAck, HandlerInv,
       Unstarted
<1>2. ASSUME NEW h \in Handlers, Resume(h) PROVE HandlerInv'
  <2>1. handler[h] # Idle /\ status # "absent"
    BY <1>2, SuspendedNotIdle DEF Resume, BootstrapEnqueued, EnqueueFailed, Enqueues,
       CancelCloses, CancelLeavesJob, RetryEnqueues, RetryAbandoned, RetryEnqueued,
       FinalizeBinds, FinalizeAbandoned, HandlerInv, Unstarted, AllIdle
  <2>2. status' # "absent"
    <3>1. CASE FinalizeBinds(h)
      BY <3>1 DEF FinalizeBinds, TypeInv, HandlersCarry, Carried, TerminalRunStatuses
    <3>2. CASE ~FinalizeBinds(h)
      BY <1>2, <2>1, <3>2 DEF Resume, BootstrapEnqueued, EnqueueFailed, CancelCloses,
         CancelLeavesJob, RetryEnqueues, RetryAbandoned, RetryEnqueued, FinalizeAbandoned,
         runVars
    <3>. QED
      BY <3>1, <3>2
  <2>3. CASE RetryEnqueues(h)
    <3>. DEFINE c == [kind |-> "retry_enqueue", seq |-> handler[h].seq, note |-> "sent"]
    <3>1. handler' = [handler EXCEPT ![h] = c] /\ StillTrue(c)'
      BY <2>3 DEF RetryEnqueues, StillTrue, HandlerInv, HandlersStill, runVars,
         attemptVars, Open
    <3>. QED
      BY <2>1, <2>2, <3>1, OneMoves DEF HandlerInv, Unstarted
  <2>4. CASE Finish(h)
    BY <2>1, <2>2, <2>4, HandlerFinishes DEF HandlerInv, Unstarted
  <2>. QED
    BY <1>2, <2>3, <2>4 DEF Resume, BootstrapEnqueued, EnqueueFailed, CancelCloses,
       CancelLeavesJob, RetryAbandoned, RetryEnqueued, FinalizeBinds, FinalizeAbandoned
<1>3. ASSUME NEW h \in Handlers, AddLands(h) PROVE HandlerInv'
  <2>. DEFINE c == [handler[h] EXCEPT !.note = "landed"]
  <2>1. handler[h] # Idle /\ UNCHANGED <<runVars, attemptVars>>
    BY <1>3, SuspendedNotIdle DEF AddLands, Enqueues
  <2>2. handler' = [handler EXCEPT ![h] = c] /\ c.kind = handler[h].kind /\ c.seq = handler[h].seq
    BY <1>3 DEF AddLands, TypeInv, TypeOK, Continuations
  <2>3. StillTrue(c)'
    BY <1>3, <2>1, <2>2 DEF AddLands, Enqueues, StillTrue, HandlerInv, HandlersStill, runVars,
       attemptVars, Open
  <2>. QED
    BY <2>1, <2>2, <2>3, OneMoves DEF HandlerInv, Unstarted, AllIdle, runVars
<1>4. ASSUME NEW s \in Seqs, Watchdog(s) PROVE HandlerInv'
  <2>1. AllIdle
    BY <1>4, LoopFreeIdle DEF Watchdog, HandlePickupTimeout, ObserveCompleted, ObserveFailure,
       HandleFinalizeGraceExpiry
  <2>2. status' # status => status' \in TerminalRunStatuses
    BY <1>4, EventFacts DEF Watchdog, HandlePickupTimeout, ObserveCompleted, ObserveFailure,
       HandleFinalizeGraceExpiry, RetryOrFail, RetryStarts, RetryRefused, ForceCancel, runVars
  <2>3. ASSUME NEW h \in Handlers, RetryStarts(h, s), ~IsTerminal, active = s,
               status # "cancel_requested", status # "absent", records[s] > 0
        PROVE  Solo' /\ HandlersStill'
    <3>. DEFINE c == [kind |-> "retry_remove", seq |-> s, note |-> "none"]
    <3>1. handler' = [handler EXCEPT ![h] = c] /\ StillTrue(c)'
      BY <2>3 DEF RetryStarts, CanRetry, Suspend, SetAttemptState, StillTrue, IsTerminal,
         Open, runVars, TypeInv, TypeOK
    <3>. QED
      BY <2>1, <3>1, OneMoves DEF HandlerInv
  <2>4. ASSUME ForceCancel(s), active = s, status = "cancel_requested"
        PROVE  Solo' /\ HandlersStill'
    <3>. DEFINE c == [kind |-> "cancel_remove", seq |-> s, note |-> "force"]
    <3>1. PICK h \in Handlers : handler' = [handler EXCEPT ![h] = c]
      BY <2>4 DEF ForceCancel, Suspend
    <3>2. StillTrue(c)'
      BY <2>4 DEF ForceCancel, StillTrue, runVars
    <3>. QED
      BY <2>1, <3>1, <3>2, OneMoves DEF HandlerInv
  <2>5. ASSUME UNCHANGED handler PROVE Solo' /\ HandlersStill' /\ AllIdle'
    <3>1. AllIdle'
      BY <2>1, <2>5 DEF AllIdle
    <3>. QED
      BY <3>1, IdleStill
  <2>6. ASSUME ~UNCHANGED handler PROVE Solo' /\ HandlersStill' /\ status # "absent"
    <3>1. /\ active = s /\ ~IsTerminal /\ records[s] > 0
          /\ \/ RetryOrFail(s)
             \/ ForceCancel(s) /\ status = "cancel_requested"
      BY <1>4, <2>6 DEF Watchdog, HandlePickupTimeout, ObserveCompleted, ObserveFailure,
         HandleFinalizeGraceExpiry, PickupTimeoutMoot, SignalIsStale,
         TypeInv, TypeOK
    <3>2. status # "absent"
      BY <1>4, <3>1, SeqsFacts DEF HandlerInv, Unstarted, Seqs
    <3>3. CASE \E h \in Handlers : RetryStarts(h, s)
      <4>1. status # "cancel_requested"
        BY <3>3 DEF RetryStarts, CanRetry, Fenced
      <4>. QED
        BY <3>1, <3>2, <3>3, <4>1, <2>3
    <3>4. CASE ~\E h \in Handlers : RetryStarts(h, s)
      <4>1. ForceCancel(s) /\ status = "cancel_requested"
        BY <2>6, <3>1, <3>4 DEF RetryOrFail, RetryRefused
      <4>. QED
        BY <2>4, <3>1, <3>2, <4>1
    <3>. QED
      BY <3>3, <3>4
  <2>. QED
    BY <1>4, <2>2, <2>5, <2>6, WatchdogFrame DEF HandlerInv, Unstarted, TerminalRunStatuses
<1>5. ASSUME NEW s \in Seqs, Callback(s) PROVE HandlerInv'
  <2>1. AllIdle
    BY <1>5, LoopFreeIdle DEF Callback, AcceptHeartbeat, AppendPhase, AppendLog,
       AppendMutation, FinalizeRepeats, FinalizeCloses, FinalizeMaterializes
  <2>2. active = s /\ status # "absent"
    BY <1>5, SeqsFacts DEF Callback, AcceptHeartbeat, AppendPhase, AppendLog, AppendMutation,
       FinalizeRepeats, FinalizeCloses, FinalizeMaterializes, CallbackAccepted, HandlerInv,
       Unstarted, Seqs
  <2>3. active' # 0
    BY <2>2, <1>5, CallbackFrame, SeqsFacts DEF Seqs
  <2>4. status' # "absent"
    <3>1. \A phase \in Phases : StatusOfPhase(phase) # "absent"
      BY DEF Phases, StatusOfPhase
    <3>2. \A outcome \in Outcomes : outcome.final # "absent"
      BY OutcomesAssumption DEF TerminalRunStatuses
    <3>3. CASE \E beat \in Beats : AcceptHeartbeat(s, beat)
      BY <2>2, <3>1, <3>3, BeatsAssumption DEF AcceptHeartbeat, UpdateRunStatusIfAllowed,
         StatusOfBeat
    <3>4. CASE \E phase \in PhaseEvents : AppendPhase(s, phase)
      BY <2>2, <3>1, <3>4, PhaseEventsAssumption DEF AppendPhase, UpdateRunStatusIfAllowed
    <3>5. CASE \E outcome \in Outcomes : FinalizeCloses(s, outcome)
      BY <3>2, <3>5 DEF FinalizeCloses
    <3>. QED
      BY <1>5, <2>2, <3>3, <3>4, <3>5 DEF Callback, AppendLog, AppendMutation,
         FinalizeRepeats, FinalizeMaterializes, UpdateRunStatusIfAllowed, runVars
  <2>5. ASSUME NEW outcome \in Outcomes, NEW h \in Handlers,
               FinalizeMaterializes(h, s, outcome)
        PROVE  Solo' /\ HandlersStill'
    <3>. DEFINE c == [kind |-> "materialize", seq |-> s, note |-> outcome.final]
    <3>1. handler' = [handler EXCEPT ![h] = c] /\ StillTrue(c)'
      BY <2>2, <2>5 DEF FinalizeMaterializes, CallbackAccepted, Suspend, StillTrue, Open,
         IsTerminal, runVars
    <3>. QED
      BY <2>1, <3>1, OneMoves DEF HandlerInv
  <2>6. CASE UNCHANGED handler
    <3>1. AllIdle'
      BY <2>1, <2>6 DEF AllIdle
    <3>. QED
      BY <2>4, <3>1, IdleStill DEF HandlerInv, Unstarted
  <2>. QED
    BY <1>5, <2>4, <2>5, <2>6 DEF Callback, AcceptHeartbeat, AppendPhase, AppendLog,
       AppendMutation, FinalizeRepeats, FinalizeCloses, HandlerInv, Unstarted
<1>6. CASE UNCHANGED <<runVars, attemptVars, handler, ledger>>
  BY <1>6 DEF HandlerInv, Solo, HandlersStill, StillTrue, Unstarted, AllIdle, runVars, Open,
     attemptVars
<1>7. ASSUME NEW s \in Seqs, Transport(s) PROVE HandlerInv'
  BY <1>6, <1>7, TransportFrame
<1>8. CASE UNCHANGED vars
  BY <1>6, <1>8 DEF vars
<1>. QED
  BY <1>1, <1>2, <1>3, <1>4, <1>5, <1>7, <1>8, NextCases
\* The two enqueues that land create the row after the active one.
LEMMA RowsStep == TypeInv /\ HandlerInv /\ Rows /\ [Next]_vars => Rows'
<1>. SUFFICES ASSUME TypeInv, HandlerInv, Rows, [Next]_vars PROVE Rows'
  OBVIOUS
<1>1. ASSUME NEW h \in Handlers, BootstrapEnqueued(h) \/ RetryEnqueued(h) PROVE Rows'
  <2>1. StillTrue(handler[h]) /\ handler[h] \in Continuations
    BY DEF HandlerInv, HandlersStill, TypeInv, TypeOK
  <2>2. active + 1 \in Seqs /\ EnqueueTarget(h) = active + 1
    BY <1>1, <2>1, TargetInBudget, SeqsFacts DEF BootstrapEnqueued, RetryEnqueued, StillTrue,
       Enqueues, EnqueueTarget
  <2>3. active' = active + 1 /\ records' = [records EXCEPT ![active + 1] = @ + 1]
    BY <1>1, <2>1, <2>2 DEF BootstrapEnqueued, RetryEnqueued, CreateAttempt, StillTrue
  <2>4. active \in Nat /\ records \in [Seqs -> Nat]
    BY DEF TypeInv, TypeOK
  <2>5. \A s \in Seqs : records'[s] = IF s = active + 1 THEN records[s] + 1 ELSE records[s]
    BY <2>2, <2>3, <2>4
  <2>. QED
    BY <2>3, <2>4, <2>5, SeqsFacts DEF Rows
<1>2. CASE UNCHANGED <<records, active>>
  BY <1>2 DEF Rows
<1>3. ASSUME NEW h \in Handlers, Resume(h) \/ AddLands(h) PROVE Rows'
  BY <1>1, <1>2, <1>3 DEF Resume, AddLands, EnqueueFailed, CancelCloses, CancelLeavesJob,
     RetryEnqueues, RetryAbandoned, FinalizeBinds, FinalizeAbandoned, runVars, attemptVars
<1>4. CASE Client
  BY <1>2, <1>4, ClientFrame DEF attemptVars
<1>5. ASSUME NEW s \in Seqs, Watchdog(s) \/ Callback(s) \/ Transport(s) PROVE Rows'
  BY <1>2, <1>5, WatchdogFrame, CallbackFrame, TransportFrame DEF runVars, attemptVars
<1>6. CASE UNCHANGED vars
  BY <1>2, <1>6 DEF vars, runVars, attemptVars
<1>. QED
  BY <1>3, <1>4, <1>5, <1>6, NextCases

-------------------------------------------------------------------------------
(* Every step either closes the run or leaves its being open or closed alone *)

Closes ==
  /\ ~IsTerminal /\ status # "absent" /\ status' \in TerminalRunStatuses
  /\ Announce(TerminalEventOf(status'))
  /\ UNCHANGED <<active, cancelAt, lastAcked>>
  /\ active > 0 => attemptState'[active] = AttemptStateOf(status')
  /\ active = 0 => status' = "failed"

Keeps ==
  /\ terminalEvents' = terminalEvents
  /\ IsTerminal => UNCHANGED <<status, active, attemptState>>
  /\ ~IsTerminal => ~IsTerminal'

\* the active attempt has a row to set
LEMMA SetActiveAttempt ==
  ASSUME TypeInv, Rows, NEW s \in Seqs, active = s, NEW state, SetAttemptState(s, state)
  PROVE  attemptState'[active] = state
<1>1. records[s] > 0
  BY SeqsFacts DEF Rows
<1>. QED
  BY <1>1 DEF SetAttemptState, TypeInv, TypeOK

\* A run with an attempt has a row.
LEMMA StartedIsPresent ==
  ASSUME HandlerInv, NEW s \in Seqs, active = s
  PROVE  status # "absent" /\ active # 0
BY SeqsFacts DEF HandlerInv, Unstarted, Seqs

\* how a failed and a cancelled run leave their attempt
LEMMA ClosedStates ==
  AttemptStateOf("failed") = "failed" /\ AttemptStateOf("cancelled") = "cancelled"
BY DEF AttemptStateOf

\* a resumed handler closes everything or leaves a closed run alone
LEMMA ResumeCloses ==
  ASSUME TypeInv, HandlerInv, Rows, NEW h \in Handlers, Resume(h)
  PROVE  Closes \/ Keeps
<1>1. handler[h] \in Continuations /\ StillTrue(handler[h]) /\ Carried(handler[h])
  BY DEF HandlerInv, HandlersStill, TypeInv, TypeOK, HandlersCarry
<1>2. handler[h].seq \in Seqs
      /\ (handler[h].kind # "idle" => ~IsTerminal /\ status # "absent")
  BY <1>1, ProgressIsOpen DEF Continuations, Kinds, StillTrue, Open, IsTerminal
<1>3. CASE EnqueueFailed(h)
  <2>1. ~IsTerminal /\ status # "absent" /\ status' = "failed" /\ Announce("run.failed")
    BY <1>2, <1>3 DEF EnqueueFailed, Enqueues
  <2>2. UNCHANGED <<active, cancelAt, lastAcked, attemptState>>
    BY <1>3 DEF EnqueueFailed, attemptVars
  <2>3. active > 0 => attemptState[active] = "failed"
    BY <1>1, <1>3 DEF EnqueueFailed, Enqueues, StillTrue
  <2>. QED
    BY <2>1, <2>2, <2>3, EventFacts, ClosedStates DEF Closes
<1>4. CASE CancelCloses(h)
  <2>1. ~IsTerminal /\ status # "absent" /\ status' = "cancelled" /\ Announce("run.cancelled")
    BY <1>2, <1>4 DEF CancelCloses
  <2>2. active = handler[h].seq /\ SetAttemptState(handler[h].seq, "cancelled")
    BY <1>1, <1>4 DEF CancelCloses, StillTrue
  <2>3. UNCHANGED <<active, cancelAt, lastAcked>>
    BY <1>4 DEF CancelCloses
  <2>4. attemptState'[active] = "cancelled"
    BY <1>1, <2>2, SetActiveAttempt DEF Continuations
  <2>5. active # 0
    BY <1>2, <2>2, StartedIsPresent
  <2>. QED
    BY <2>1, <2>3, <2>4, <2>5, EventFacts, ClosedStates DEF Closes
<1>5. CASE FinalizeBinds(h)
  <2>. DEFINE final == handler[h].note
  <2>1. ~IsTerminal /\ status # "absent" /\ final \in TerminalRunStatuses /\ status' = final
        /\ Announce(TerminalEventOf(final)) /\ active = handler[h].seq
        /\ SetAttemptState(handler[h].seq, AttemptStateOf(final))
    BY <1>1, <1>2, <1>5 DEF FinalizeBinds, StillTrue, Carried
  <2>2. UNCHANGED <<active, cancelAt, lastAcked>>
    BY <1>5 DEF FinalizeBinds
  <2>. HIDE DEF final
  <2>3. attemptState'[active] = AttemptStateOf(final)
    BY <1>1, <2>1, SetActiveAttempt DEF Continuations
  <2>4. active # 0
    BY <1>2, <2>1, StartedIsPresent
  <2>. QED
    BY <2>1, <2>2, <2>3, <2>4 DEF Closes
<1>6. CASE BootstrapEnqueued(h) \/ RetryEnqueued(h)
  BY <1>2, <1>6, ProgressIsOpen DEF BootstrapEnqueued, RetryEnqueued, Keeps, IsTerminal
<1>7. CASE CancelLeavesJob(h) \/ RetryEnqueues(h) \/ RetryAbandoned(h) \/ FinalizeAbandoned(h)
  BY <1>7 DEF CancelLeavesJob, RetryEnqueues, RetryAbandoned, FinalizeAbandoned, Keeps, IsTerminal,
     runVars, attemptVars
<1>. QED
  BY <1>3, <1>4, <1>5, <1>6, <1>7 DEF Resume

\* so does the watchdog
LEMMA WatchdogCloses ==
  ASSUME TypeInv, HandlerInv, Rows, NEW s \in Seqs, Watchdog(s)
  PROVE  Closes \/ Keeps
<1>1. CASE RetryRefused(s) /\ ~IsTerminal /\ active = s /\ UNCHANGED <<lastAcked, cancelAt>>
  <2>1. status' = "failed" /\ Announce("run.failed") /\ SetAttemptState(s, "failed")
        /\ UNCHANGED active
    BY <1>1 DEF RetryRefused
  <2>2. attemptState'[active] = "failed"
    BY <1>1, <2>1, SetActiveAttempt
  <2>. QED
    BY <1>1, <2>1, <2>2, StartedIsPresent, EventFacts, ClosedStates DEF Closes
<1>2. CASE HandleFinalizeGraceExpiry(s) /\ ~FinalizeGraceMoot(s)
  <2>. DEFINE final == MissingFinalizeStatus
  <2>1. ~IsTerminal /\ active = s /\ final \in TerminalRunStatuses /\ status' = final
        /\ Announce(TerminalEventOf(final)) /\ SetAttemptState(s, AttemptStateOf(final))
        /\ UNCHANGED <<active, cancelAt, lastAcked>>
    BY <1>2, EventFacts DEF HandleFinalizeGraceExpiry, FinalizeGraceMoot
  <2>. HIDE DEF final
  <2>2. attemptState'[active] = AttemptStateOf(final)
    BY <2>1, SetActiveAttempt
  <2>. QED
    BY <2>1, <2>2, StartedIsPresent DEF Closes
<1>3. CASE HandleFinalizeGraceExpiry(s) /\ FinalizeGraceMoot(s)
  BY <1>3 DEF HandleFinalizeGraceExpiry, Keeps, IsTerminal
<1>4. CASE ForceCancel(s) /\ ~IsTerminal
  BY <1>4 DEF ForceCancel, Keeps, IsTerminal, runVars
<1>5. CASE (\E h \in Handlers : RetryStarts(h, s)) /\ ~IsTerminal
  BY <1>5 DEF RetryStarts, Keeps, IsTerminal, runVars
<1>6. CASE UNCHANGED <<runVars, attemptState, terminalEvents>>
  BY <1>6 DEF Keeps, IsTerminal, runVars
<1>7. \/ RetryOrFail(s) /\ ~IsTerminal /\ active = s
      \/ ForceCancel(s) /\ ~IsTerminal
      \/ HandleFinalizeGraceExpiry(s)
      \/ UNCHANGED <<runVars, attemptState, terminalEvents>>
  BY DEF Watchdog, HandlePickupTimeout, ObserveCompleted, ObserveFailure, PickupTimeoutMoot,
     SignalIsStale, attemptVars
<1>8. UNCHANGED <<cancelAt, lastAcked>>
  BY WatchdogFrame
<1>. QED
  BY <1>1, <1>2, <1>3, <1>4, <1>5, <1>6, <1>7, <1>8 DEF RetryOrFail

\* so does a callback
LEMMA CallbackCloses ==
  ASSUME TypeInv, HandlerInv, Rows, NEW s \in Seqs, Callback(s)
  PROVE  Closes \/ Keeps
<1>1. ASSUME NEW outcome \in Outcomes, FinalizeCloses(s, outcome) PROVE Closes
  <2>. DEFINE final == outcome.final
  <2>1. final \in TerminalRunStatuses
    BY OutcomesAssumption
  <2>2. ~IsTerminal /\ active = s /\ status' = final /\ Announce(TerminalEventOf(final))
        /\ SetAttemptState(s, AttemptStateOf(final)) /\ UNCHANGED <<active, cancelAt, lastAcked>>
    BY <1>1 DEF FinalizeCloses, CallbackAccepted
  <2>. HIDE DEF final
  <2>3. attemptState'[active] = AttemptStateOf(final)
    BY <2>2, SetActiveAttempt
  <2>. QED
    BY <2>1, <2>2, <2>3, StartedIsPresent DEF Closes
<1>2. ASSUME NEW beat \in Beats, AcceptHeartbeat(s, beat) PROVE Keeps
  BY <1>2, BeatsAssumption, ProgressIsOpen DEF AcceptHeartbeat, CallbackAccepted,
     UpdateRunStatusIfAllowed, StatusOfBeat, Keeps, IsTerminal
<1>3. ASSUME NEW phase \in PhaseEvents, AppendPhase(s, phase) PROVE Keeps
  BY <1>3, PhaseEventsAssumption, ProgressIsOpen DEF AppendPhase, CallbackAccepted,
     UpdateRunStatusIfAllowed, Keeps, IsTerminal
<1>4. ASSUME AppendLog(s) \/ AppendMutation(s) \/ FinalizeRepeats(s) PROVE Keeps
  BY <1>4, ProgressIsOpen DEF AppendLog, AppendMutation, FinalizeRepeats, CallbackAccepted,
     UpdateRunStatusIfAllowed, Keeps, IsTerminal, runVars, attemptVars
<1>5. ASSUME NEW outcome \in Outcomes, NEW h \in Handlers, FinalizeMaterializes(h, s, outcome)
      PROVE  Keeps
  BY <1>5 DEF FinalizeMaterializes, Keeps, IsTerminal, runVars, attemptVars
<1>. QED
  BY <1>1, <1>2, <1>3, <1>4, <1>5 DEF Callback

\* so does every step
LEMMA ClosingStep ==
  ASSUME TypeInv, HandlerInv, Rows, [Next]_vars
  PROVE  Closes \/ Keeps
<1>1. CASE Client
  <2>1. ~IsTerminal => ~IsTerminal'
    BY <1>1, ProgressIsOpen DEF Client, StartRun, CancelRemoves, CancelFences,
       AcceptMutationAck, IsTerminal
  <2>2. IsTerminal => status' = status
    BY <1>1 DEF Client, StartRun, CancelRemoves, CancelFences, AcceptMutationAck, IsTerminal,
       TerminalRunStatuses
  <2>. QED
    BY <1>1, <2>1, <2>2, ClientFrame DEF Keeps, attemptVars
<1>2. ASSUME NEW h \in Handlers, AddLands(h) PROVE Keeps
  BY <1>2, AddLandsFrame DEF Keeps, IsTerminal, runVars, attemptVars
<1>3. ASSUME NEW s \in Seqs, Transport(s) PROVE Keeps
  BY <1>3, TransportFrame DEF Keeps, IsTerminal, runVars, attemptVars
<1>4. CASE UNCHANGED vars
  BY <1>4 DEF vars, Keeps, IsTerminal, runVars, attemptVars
<1>. QED
  BY <1>1, <1>2, <1>3, <1>4, ResumeCloses, WatchdogCloses, CallbackCloses, NextCases
-------------------------------------------------------------------------------
(* The cancel fence *)

\* A step that leaves the cancel mark alone either leaves the status alone,
\* closes the run, or moves on a run that no cancel fences.
Progresses ==
  /\ status \notin TerminalRunStatuses \cup {"cancel_requested", "absent"}
  /\ status' \notin {"cancel_requested", "absent"}

\* the fence stays while the run only goes on or is closed
LEMMA FencedFrame ==
  ASSUME Fenced, cancelAt' = cancelAt,
         status' = status \/ status' \in TerminalRunStatuses \/ Progresses
  PROVE  Fenced'
BY DEF Fenced, Progresses, IsTerminal, TerminalRunStatuses

\* a callback only moves an open run on, and not past the fence
LEMMA CallbackProgresses ==
  ASSUME HandlerInv, NEW s \in Seqs, CallbackAccepted(s),
         NEW next, next = status \/ next \notin {"cancel_requested", "absent"},
         UpdateRunStatusIfAllowed(next)
  PROVE  status' = status \/ Progresses
BY StartedIsPresent DEF CallbackAccepted, UpdateRunStatusIfAllowed, Progresses, IsTerminal

\* apart from a client, a step moves an open run on or closes it
LEMMA StatusMoves ==
  ASSUME TypeInv, HandlerInv, Rows, [Next]_vars, ~Client
  PROVE  /\ cancelAt' = cancelAt
         /\ status' = status \/ Closes \/ Progresses
<1>1. ASSUME NEW h \in Handlers, Resume(h)
      PROVE  status' = status \/ Closes \/ Progresses
  <2>1. CASE BootstrapEnqueued(h) \/ RetryEnqueued(h)
    BY <2>1 DEF BootstrapEnqueued, RetryEnqueued, HandlerInv, HandlersStill, StillTrue,
       Progresses, Open, TerminalRunStatuses
  <2>2. CASE EnqueueFailed(h) \/ CancelCloses(h) \/ FinalizeBinds(h)
    <3>1. status' \in TerminalRunStatuses
      BY <2>2, EventFacts DEF EnqueueFailed, CancelCloses, FinalizeBinds, TypeInv,
         HandlersCarry, Carried
    <3>. QED
      BY <1>1, <3>1, ResumeCloses DEF Keeps, IsTerminal
  <2>. QED
    BY <1>1, <2>1, <2>2 DEF Resume, CancelLeavesJob, RetryEnqueues, RetryAbandoned,
       FinalizeAbandoned, runVars
<1>2. ASSUME NEW s \in Seqs, Watchdog(s) PROVE status' = status \/ Closes
  <2>1. status' = status \/ status' \in TerminalRunStatuses
    BY <1>2, EventFacts DEF Watchdog, HandlePickupTimeout, ObserveCompleted, ObserveFailure,
       HandleFinalizeGraceExpiry, RetryOrFail, RetryStarts, RetryRefused, ForceCancel, runVars
  <2>. QED
    BY <1>2, <2>1, WatchdogCloses DEF Keeps, IsTerminal
<1>3. ASSUME NEW s \in Seqs, Callback(s) PROVE status' = status \/ Closes \/ Progresses
  <2>1. \A phase \in Phases : StatusOfPhase(phase) \notin {"cancel_requested", "absent"}
    BY DEF Phases, StatusOfPhase
  <2>2. CASE \E beat \in Beats : AcceptHeartbeat(s, beat)
    BY <2>1, <2>2, BeatsAssumption, CallbackProgresses DEF AcceptHeartbeat, StatusOfBeat
  <2>3. CASE \E phase \in PhaseEvents : AppendPhase(s, phase)
    BY <2>1, <2>3, PhaseEventsAssumption, CallbackProgresses DEF AppendPhase
  <2>4. CASE AppendMutation(s)
    BY <2>4, CallbackProgresses DEF AppendMutation
  <2>5. CASE \E outcome \in Outcomes : FinalizeCloses(s, outcome)
    <3>1. status' \in TerminalRunStatuses
      BY <2>5, OutcomesAssumption DEF FinalizeCloses
    <3>. QED
      BY <1>3, <3>1, CallbackCloses DEF Keeps, IsTerminal
  <2>. QED
    BY <1>3, <2>2, <2>3, <2>4, <2>5 DEF Callback, AppendLog, FinalizeRepeats,
       FinalizeMaterializes, runVars
<1>4. status' = status \/ Closes \/ Progresses
  BY <1>1, <1>2, <1>3, AddLandsFrame, TransportFrame, NextCases DEF vars, runVars
<1>5. cancelAt' = cancelAt
  BY ResumeFrame, AddLandsFrame, WatchdogFrame, CallbackFrame, TransportFrame, NextCases
     DEF vars, runVars
<1>. QED
  BY <1>4, <1>5

\* an accepted cancel is fenced off until the run is closed
LEMMA FencedStep ==
  ASSUME TypeInv, HandlerInv, Rows, Fenced, [Next]_vars
  PROVE  Fenced'
<1>1. CASE Client
  BY <1>1 DEF Client, StartRun, CancelRemoves, CancelFences, AcceptMutationAck, Fenced,
     IsTerminal, TerminalRunStatuses
<1>2. CASE ~Client
  BY <1>2, StatusMoves, FencedFrame DEF Closes
<1>. QED
  BY <1>1, <1>2

\* What closes the run closes its attempt and is announced; nothing else touches
\* the events, nor the status and attempt row of a closed run.
LEMMA ClosedStep ==
  ASSUME TypeInv, HandlerInv, Rows, ClosedOnce, ClosedTogether, [Next]_vars
  PROVE  ClosedOnce' /\ ClosedTogether'
<1>1. CASE Closes
  <2>1. Len(terminalEvents') = Len(terminalEvents) + 1
    BY <1>1 DEF Closes, Announce, TypeInv, TypeOK
  <2>. QED
    BY <1>1, <2>1 DEF Closes, ClosedOnce, ClosedTogether, IsTerminal
<1>2. CASE Keeps
  BY <1>2 DEF Keeps, ClosedOnce, ClosedTogether, IsTerminal
<1>. QED
  BY <1>1, <1>2, ClosingStep

\* the invariant of handlers that are never interrupted is inductive
LEMMA AtomicStep == HandlersAtomic /\ TypeInv /\ AtomicInv /\ [Next]_vars => AtomicInv'
BY HandlerStep, RowsStep, FencedStep, ClosedStep DEF AtomicInv

\* it holds at first
LEMMA AtomicInit == Init => AtomicInv
BY SeqsFacts DEF Init, AtomicInv, HandlerInv, Solo, HandlersStill, StillTrue, Unstarted,
   AllIdle, Rows, Fenced, ClosedOnce, ClosedTogether, IsTerminal, TerminalRunStatuses, Seqs,
   Idle

\* it holds in every reachable state
LEMMA AtomicAlways ==
  ASSUME HandlersAtomic PROVE Spec => [](TypeInv /\ AtomicInv)
<1>1. Init => TypeInv /\ AtomicInv
  BY InitType, AtomicInit
<1>2. TypeInv /\ AtomicInv /\ [Next]_vars => (TypeInv /\ AtomicInv)'
  BY TypeStep, AtomicStep
<1>. QED
  BY <1>1, <1>2, PTL DEF Spec

\* With handlers that are never interrupted a run is closed once.
THEOREM AtomicClosesOnce == ASSUME HandlersAtomic PROVE Spec => []OneTerminalEvent
<1>1. AtomicInv => OneTerminalEvent
  BY DEF AtomicInv, ClosedOnce, OneTerminalEvent
<1>. QED
  BY <1>1, AtomicAlways, PTL

\* Likewise its active attempt's row is closed with it and says the same.
THEOREM AtomicClosesTogether == ASSUME HandlersAtomic PROVE Spec => []ClosedTogether
<1>1. AtomicInv => ClosedTogether
  BY DEF AtomicInv
<1>. QED
  BY <1>1, AtomicAlways, PTL

\* Likewise every attempt number has at most one row.
THEOREM AtomicOneRow == ASSUME HandlersAtomic PROVE Spec => []OneRowPerAttempt
<1>1. TypeInv /\ AtomicInv => OneRowPerAttempt
  BY DEF AtomicInv, Rows, OneRowPerAttempt
<1>. QED
  BY <1>1, AtomicAlways, PTL

\* Likewise a terminal status is final and an accepted cancel sticks.
THEOREM AtomicTerminalIsFinal == ASSUME HandlersAtomic PROVE Spec => TerminalIsFinal
<1>1. TypeInv /\ AtomicInv /\ [Next]_vars => [IsTerminal => status' = status]_status
  BY ClosingStep DEF AtomicInv, Closes, Keeps
<1>. QED
  BY <1>1, AtomicAlways, PTL DEF Spec, TerminalIsFinal

\* A cancel that was accepted is not taken back: the run can only be closed (acceptCancel,
\* updateRunStatusIfAllowed).
THEOREM AtomicCancelSticks == ASSUME HandlersAtomic PROVE Spec => CancelSticks
<1>1. TypeInv /\ AtomicInv /\ [Next]_vars
        => [status = "cancel_requested" => status' \in TerminalRunStatuses]_status
  <2>. SUFFICES ASSUME TypeInv, AtomicInv, [Next]_vars, status = "cancel_requested",
                       status' # status
                PROVE  status' \in TerminalRunStatuses
    OBVIOUS
  <2>1. ~Client
    BY DEF Client, StartRun, CancelRemoves, CancelFences, AcceptMutationAck
  <2>. QED
    BY <2>1, StatusMoves DEF AtomicInv, Closes, Progresses
<1>. QED
  BY <1>1, AtomicAlways, PTL DEF Spec, CancelSticks

\* The only step that moves on from an attempt is the retry's.
LEMMA OnlyRetriesAdvance ==
  ASSUME TypeInv, HandlerInv, [Next]_vars, 0 < active, active' # active
  PROVE  \E h \in Handlers : handler[h].kind = "retry_enqueue"
<1>1. PICK h \in Handlers : Resume(h)
  BY ClientFrame, AddLandsFrame, WatchdogFrame, CallbackFrame, TransportFrame, NextCases
     DEF runVars, vars
<1>2. BootstrapEnqueued(h) \/ RetryEnqueued(h)
  BY <1>1 DEF Resume, EnqueueFailed, CancelCloses, CancelLeavesJob, RetryEnqueues,
     RetryAbandoned, FinalizeBinds, FinalizeAbandoned, runVars
<1>. QED
  BY <1>2 DEF BootstrapEnqueued, RetryEnqueued, HandlerInv, HandlersStill, StillTrue

\* Likewise a run is started over only while no mutation was acknowledged.
THEOREM AtomicNoRetryAfterVisibleAck ==
  ASSUME HandlersAtomic PROVE Spec => NoRetryAfterVisibleAck
<1>1. TypeInv /\ AtomicInv /\ [Next]_vars
        => [0 < active /\ active < active' => lastAcked = 0]_active
  BY OnlyRetriesAdvance DEF AtomicInv, HandlerInv, HandlersStill, StillTrue
<1>. QED
  BY <1>1, AtomicAlways, PTL DEF Spec, NoRetryAfterVisibleAck

\* And only while no cancel was accepted.
THEOREM AtomicNoRetryAfterCancel ==
  ASSUME HandlersAtomic PROVE Spec => NoRetryAfterCancel
<1>1. TypeInv /\ AtomicInv /\ [Next]_vars
        => [0 < active /\ active < active' => cancelAt = "null"]_active
  BY OnlyRetriesAdvance DEF TypeInv, TypeOK, AtomicInv, HandlerInv, HandlersStill, StillTrue,
     Fenced, Open, IsTerminal
<1>. QED
  BY <1>1, AtomicAlways, PTL DEF Spec, NoRetryAfterCancel
-------------------------------------------------------------------------------
(* The ledger's rows, attempt by attempt *)

Row == [attempt : Seqs, ack : {"none", "acked", "rejected"}]

\* A step that rewrites no row's attempt and takes back no activation.
LEMMA LedgerFrame ==
  ASSUME TypeInv, LedgerByAttempt, active' \in Nat, active <= active',
         Len(ledger') = Len(ledger),
         \A m \in 1 .. Len(ledger) : ledger'[m].attempt = ledger[m].attempt
  PROVE  LedgerByAttempt'
<1>1. \A m \in 1 .. Len(ledger) : ledger[m].attempt \in Nat
  <2>1. ledger \in Seq(Row)
    BY DEF TypeInv, TypeOK, Row
  <2>2. \A m \in 1 .. Len(ledger) : ledger[m] \in Row
    BY <2>1
  <2>. QED
    BY <2>2, SeqsFacts DEF Row
<1>2. active \in Nat
  BY DEF TypeInv, TypeOK
<1>. QED
  BY <1>1, <1>2 DEF LedgerByAttempt

\* the worker of the newest attempt adds to the end
LEMMA LedgerGrows ==
  ASSUME TypeInv, LedgerByAttempt, NEW s \in Seqs, AppendMutation(s)
  PROVE  LedgerByAttempt'
<1>. DEFINE row == [attempt |-> s, ack |-> "none"]
<1>1. active = s /\ active' = s /\ ledger' = Append(ledger, row) /\ s \in Nat
  BY SeqsFacts DEF AppendMutation, CallbackAccepted
<1>2. ledger \in Seq(Row) /\ row \in Row /\ row.attempt = s
  BY DEF TypeInv, TypeOK, Row
<1>. HIDE DEF row
<1>3. Len(ledger') = Len(ledger) + 1 /\ ledger'[Len(ledger) + 1] = row
      /\ \A m \in 1 .. Len(ledger) : ledger'[m] = ledger[m]
  BY <1>1, <1>2
<1>. QED
  BY <1>1, <1>2, <1>3 DEF LedgerByAttempt

\* an acknowledgement leaves the attempts of the rows alone
LEMMA AcknowledgesRow ==
  ASSUME TypeInv, NEW m, NEW verdict, AcceptMutationAck(m, verdict)
  PROVE  /\ Len(ledger') = Len(ledger)
         /\ \A n \in 1 .. Len(ledger) : ledger'[n].attempt = ledger[n].attempt
<1>1. ledger \in Seq(Row) /\ m \in 1 .. Len(ledger)
  BY DEF AcceptMutationAck, TypeInv, TypeOK, Row
<1>2. ledger' = [ledger EXCEPT ![m] = [ledger[m] EXCEPT !.ack = verdict]]
  BY DEF AcceptMutationAck
<1>3. ledger[m] \in Row
  BY <1>1
<1>4. [ledger[m] EXCEPT !.ack = verdict].attempt = ledger[m].attempt
  BY <1>3 DEF Row
<1>. HIDE DEF Row
<1>. QED
  BY <1>1, <1>2, <1>4

\* only the active attempt adds rows, at the end
LEMMA LedgerStep ==
  ASSUME TypeInv, HandlerInv, LedgerByAttempt, [Next]_vars
  PROVE  LedgerByAttempt'
<1>1. CASE UNCHANGED <<ledger, active>>
  BY <1>1 DEF LedgerByAttempt
<1>2. CASE Client
  <2>1. CASE \E m \in 1 .. MaxMutations, verdict \in {"acked", "rejected"} :
               AcceptMutationAck(m, verdict)
    BY <1>2, <2>1, ClientFrame, AcknowledgesRow, LedgerFrame, SMTT(20) DEF TypeInv, TypeOK
  <2>. QED
    BY <1>1, <1>2, <2>1, ClientFrame DEF Client, StartRun, CancelRemoves, CancelFences
<1>3. ASSUME NEW h \in Handlers, Resume(h) PROVE LedgerByAttempt'
  <2>1. CASE BootstrapEnqueued(h) \/ RetryEnqueued(h)
    <3>1. EnqueueTarget(h) \in Seqs /\ active' = EnqueueTarget(h)
      BY <2>1, TargetInBudget DEF BootstrapEnqueued, RetryEnqueued, Enqueues, EnqueueTarget
    <3>2. active < EnqueueTarget(h)
      BY <2>1, <3>1, SeqsFacts DEF BootstrapEnqueued, RetryEnqueued, EnqueueTarget, HandlerInv,
         HandlersStill, StillTrue, TypeInv, TypeOK
    <3>3. active \in Nat /\ active' \in Nat /\ active <= active'
      BY <3>1, <3>2, SeqsFacts DEF TypeInv, TypeOK
    <3>. QED
      BY <1>3, <3>3, ResumeFrame, LedgerFrame
  <2>. QED
    BY <1>1, <1>3, <2>1, ResumeFrame DEF Resume, EnqueueFailed, CancelCloses, CancelLeavesJob,
       RetryEnqueues, RetryAbandoned, FinalizeBinds, FinalizeAbandoned, runVars
<1>4. ASSUME NEW s \in Seqs, Callback(s) PROVE LedgerByAttempt'
  BY <1>1, <1>4, LedgerGrows, CallbackFrame DEF Callback, AcceptHeartbeat, AppendPhase,
     AppendLog, FinalizeRepeats, FinalizeCloses, FinalizeMaterializes
<1>. QED
  BY <1>1, <1>2, <1>3, <1>4, AddLandsFrame, WatchdogFrame, TransportFrame, NextCases
     DEF runVars, vars

\* With handlers that are never interrupted, the ledger lists the attempts'
\* mutations in the order of the attempts.
THEOREM AtomicLedgerByAttempt == ASSUME HandlersAtomic PROVE Spec => []LedgerByAttempt
<1>1. Init => LedgerByAttempt
  BY DEF Init, LedgerByAttempt
<1>2. (TypeInv /\ AtomicInv) /\ LedgerByAttempt /\ [Next]_vars => LedgerByAttempt'
  BY LedgerStep DEF AtomicInv
<1>. QED
  BY <1>1, <1>2, AtomicAlways, PTL DEF Spec

-------------------------------------------------------------------------------
(***************************************************************************)
(* The watch over an open run                                              *)
(*                                                                         *)
(* A suspended handler is no watch by itself: a plain cancel or a failed   *)
(* materialization resumes and leaves the run to others.  The invariant    *)
(* names the handlers whose every outcome puts the active attempt under    *)
(* watch again, and says that without one of them the active attempt is    *)
(* tracked, or waits for a pickup that its timer will miss - unless the    *)
(* code has let it go.                                                     *)
(***************************************************************************)
Unclosed == terminalEvents = <<>>

\* What a handler works for exists: an attempt's row, but for the bootstrap.
Backed(c) ==
  IF c.kind = "bootstrap" THEN active = 0 ELSE c = Idle \/ records[c.seq] > 0

RowsPart ==
  /\ active > 0 => records[active] > 0
  /\ \A s \in Seqs : records[s] > 0 => s <= active
  /\ \A h \in Handlers : Backed(handler[h])
  /\ status = "absent" => AllIdle /\ active = 0
  /\ \A g, h \in Handlers :
       handler[g].kind = "bootstrap" /\ handler[h].kind = "bootstrap" => g = h

\* An enqueue never creates a row below one that exists.  So it is with a budget of
\* two, and with handlers that are never interrupted.
Newest ==
  \A h \in Handlers, s \in Seqs :
    handler[h].kind = "retry_enqueue" /\ records[s] > 0 => s <= handler[h].seq + 1

\* The in-memory list does not know who executes its jobs.
AtWork(s) == UsesBullmq /\ worker[s] \notin {"none", "ended"}

\* A job without a row has its enqueue still in progress, and its worker, if any,
\* still holds it.
JobsPart ==
  Unclosed =>
    /\ orphans = {}
    /\ \A s \in Seqs : records[s] = 0 =>
         /\ job[s] # "absent" => \E h \in Handlers : Enqueues(h) /\ EnqueueTarget(h) = s
         /\ AtWork(s) => job[s] = "active"

\* Handlers that resume to no end that leaves the active attempt unwatched.
Works(h) ==
  \/ handler[h].kind = "bootstrap"
  \/ handler[h].kind \in {"retry_remove", "retry_enqueue"} /\ handler[h].seq = active
  \/ /\ handler[h].kind = "cancel_remove" /\ handler[h].note = "force"
     /\ handler[h].seq = active

\* A timer or signal will find the active attempt.
Tracked ==
  /\ active > 0
  /\ \/ active \in finalizeTimers
     \/ job[active] = "active"
     \/ \E kind \in {"completed", "failed", "stalled"} : <<active, kind>> \in signals

Awaited == active \in pickupTimers \ leased /\ ~AtWork(active)

\* The two cases in which the code lets an open run go: its active attempt was
\* dropped, or it is leased and the queue reports no endings.
LetGo == active \in dropped \/ (~UsesBullmq /\ active \in leased)

WatchPart ==
  Unclosed /\ status # "absent" /\ ~LetGo =>
    (\E h \in Handlers : Works(h)) \/ Tracked \/ Awaited

WatchInv == RowsPart /\ JobsPart /\ WatchPart

\* What the invariant rests on.
Grounds == TypeInv /\ OwnershipProven /\ TerminalAnnounced /\ Newest

\* after a terminal event the run is closed
LEMMA AnnounceCloses ==
  ASSUME TypeInv, NEW event, Announce(event) PROVE ~Unclosed'
BY DEF TypeInv, TypeOK, Announce, Unclosed

\* terminal events are never taken back
LEMMA StaysClosed ==
  ASSUME TypeInv, Unclosed', terminalEvents' = terminalEvents \/ \E event : Announce(event)
  PROVE  Unclosed
BY AnnounceCloses DEF Unclosed

\* Only the log of terminal events shows whether the run was ever closed.
LEMMA UnclosedBefore ==
  ASSUME TypeInv, [Next]_vars, Unclosed'
  PROVE  Unclosed /\ terminalEvents' = terminalEvents
<1>1. terminalEvents' = terminalEvents \/ \E event : Announce(event)
  <2>1. CASE Client
    BY <2>1, ClientFrame
  <2>2. ASSUME NEW h \in Handlers, Resume(h) \/ AddLands(h)
        PROVE  terminalEvents' = terminalEvents \/ \E event : Announce(event)
    BY <2>2 DEF Resume, AddLands, BootstrapEnqueued, EnqueueFailed, CancelCloses,
       CancelLeavesJob, RetryEnqueues, RetryAbandoned, RetryEnqueued, FinalizeBinds,
       FinalizeAbandoned
  <2>3. ASSUME NEW s \in Seqs, Watchdog(s)
        PROVE  terminalEvents' = terminalEvents \/ \E event : Announce(event)
    BY <2>3 DEF Watchdog, HandlePickupTimeout, ObserveCompleted, ObserveFailure,
       HandleFinalizeGraceExpiry, RetryOrFail, RetryStarts, RetryRefused, ForceCancel
  <2>4. ASSUME NEW s \in Seqs, Callback(s)
        PROVE  terminalEvents' = terminalEvents \/ \E event : Announce(event)
    BY <2>4 DEF Callback, AcceptHeartbeat, AppendPhase, AppendLog, AppendMutation,
       FinalizeRepeats, FinalizeCloses, FinalizeMaterializes
  <2>5. ASSUME NEW s \in Seqs, Transport(s) PROVE terminalEvents' = terminalEvents
    BY <2>5, TransportFrame
  <2>. QED
    BY <2>1, <2>2, <2>3, <2>4, <2>5, NextCases DEF vars
<1>. QED
  BY <1>1, AnnounceCloses DEF Unclosed

\* none of the closing steps leaves the run unclosed
LEMMA StepClosesNothing ==
  ASSUME TypeInv, Unclosed'
  PROVE  /\ \A h \in Handlers : ~EnqueueFailed(h) /\ ~CancelCloses(h) /\ ~FinalizeBinds(h)
         /\ \A s \in Seqs : ~RetryRefused(s)
         /\ \A s \in Seqs, outcome \in Outcomes : ~FinalizeCloses(s, outcome)
BY AnnounceCloses DEF EnqueueFailed, CancelCloses, FinalizeBinds, RetryRefused, FinalizeCloses

\* before a terminal event the status is not terminal
LEMMA UnclosedIsOpen ==
  ASSUME TerminalAnnounced, Unclosed PROVE ~IsTerminal
BY DEF TerminalAnnounced, Unclosed

-------------------------------------------------------------------------------
(* Handlers come and go *)


\* One of the handlers moves to c; the others stay as they are.
LEMMA Moves ==
  ASSUME TypeInv, NEW h \in Handlers, NEW c, handler' = [handler EXCEPT ![h] = c]
  PROVE  \A g \in Handlers : handler'[g] = IF g = h THEN c ELSE handler[g]
BY DEF TypeInv, TypeOK

\* what backs a suspended handler stays while the attempt is the same
LEMMA BackedKept ==
  ASSUME TypeInv, RowsPart, active' = active,
         \A s \in Seqs : records[s] > 0 => records'[s] > 0,
         NEW c \in Continuations, Backed(c)
  PROVE  Backed(c)'
BY DEF Backed, Continuations

\* A handler moves on in a step that drops no row and keeps the active attempt.
LEMMA BackedMove ==
  ASSUME TypeInv, RowsPart, active' = active,
         \A s \in Seqs : records[s] > 0 => records'[s] > 0,
         NEW h \in Handlers, NEW c, Backed(c)',
         handler' = [handler EXCEPT ![h] = c]
  PROVE  \A g \in Handlers : Backed(handler[g])'
<1>1. \A g \in Handlers : handler[g] \in Continuations /\ Backed(handler[g])
  BY DEF RowsPart, TypeInv, TypeOK
<1>. QED
  BY <1>1, Moves, BackedKept

\* A step that keeps rows, the active attempt and the handlers.
LEMMA WatchRowsFrame ==
  ASSUME RowsPart, UNCHANGED <<active, records, handler>>,
         status' = "absent" => status = "absent"
  PROVE  RowsPart'
BY DEF RowsPart, Backed, AllIdle

\* A handler of an attempt with a row moves on, or a handler finishes.
LEMMA WatchRowsMove ==
  ASSUME TypeInv, RowsPart, UNCHANGED <<active, records>>,
         NEW h \in Handlers, NEW c, handler' = [handler EXCEPT ![h] = c],
         c = Idle \/ (c.kind # "bootstrap" /\ c.seq \in Seqs /\ records[c.seq] > 0)
           \/ (c.kind = "bootstrap" /\ handler[h].kind = "bootstrap"),
         status' # "absent"
  PROVE  RowsPart'
<1>1. Backed(c)'
  BY DEF Backed, Idle, RowsPart
<1>2. \A g \in Handlers : Backed(handler[g])'
  BY <1>1, BackedMove
<1>3. \A f, g \in Handlers :
        handler'[f].kind = "bootstrap" /\ handler'[g].kind = "bootstrap" => f = g
  BY Moves DEF RowsPart, Idle
<1>. QED
  BY <1>2, <1>3 DEF RowsPart

\* The row an enqueue creates is the newest, and active.
LEMMA WatchRowsCreated ==
  ASSUME TypeInv, RowsPart, NEW n \in Seqs, NEW h \in Handlers,
         \A s \in Seqs : records[s] > 0 => s <= n,
         active' = n, records' = [records EXCEPT ![n] = @ + 1],
         handler' = [handler EXCEPT ![h] = Idle], status' # "absent",
         \A g \in Handlers : g # h => handler[g].kind # "bootstrap"
  PROVE  RowsPart'
<1>1. /\ \A s \in Seqs : records'[s] = IF s = n THEN records[s] + 1 ELSE records[s]
      /\ \A s \in Seqs : records[s] \in Nat
      /\ n \in Nat
  BY SeqsFacts DEF TypeInv, TypeOK
<1>2. \A g \in Handlers : handler'[g] = IF g = h THEN Idle ELSE handler[g]
  BY Moves
<1>3. \A g \in Handlers : handler'[g] = Idle \/ records'[handler'[g].seq] > 0
  <2>1. \A g \in Handlers : handler[g] = Idle \/ g = h \/ records[handler[g].seq] > 0
    BY DEF RowsPart, Backed
  <2>2. \A g \in Handlers : handler[g].seq \in Seqs
    BY DEF TypeInv, TypeOK, Continuations
  <2>. QED
    BY <1>1, <1>2, <2>1, <2>2
<1>4. \A g \in Handlers : handler'[g].kind # "bootstrap"
  BY <1>2 DEF Idle
<1>. QED
  BY <1>1, <1>3, <1>4 DEF RowsPart, Backed

\* the active attempt of a started run has a row
LEMMA StartedWithRow ==
  ASSUME TypeInv, RowsPart, NEW s \in Seqs, active = s
  PROVE  records[s] > 0 /\ status # "absent" /\ active # 0
BY SeqsFacts DEF RowsPart, Seqs

\* What a handler that resumes has behind it.
LEMMA ResumedHandler ==
  ASSUME TypeInv, RowsPart, NEW h \in Handlers, handler[h].kind # "idle"
  PROVE  /\ handler[h] # Idle /\ status # "absent" /\ handler[h].seq \in Seqs
         /\ handler[h].kind # "bootstrap" => records[handler[h].seq] > 0
         /\ handler[h].kind = "bootstrap" => active = 0
BY SuspendedNotIdle DEF RowsPart, AllIdle, Backed, TypeInv, TypeOK, Continuations

\* What an enqueue that landed creates.
LEMMA EnqueuedRow ==
  ASSUME TypeInv, RowsPart, Newest, NEW h \in Handlers, BootstrapEnqueued(h) \/ RetryEnqueued(h)
  PROVE  LET n == EnqueueTarget(h) IN
         /\ n \in Seqs /\ active' = n /\ records' = [records EXCEPT ![n] = @ + 1]
         /\ \A s \in Seqs : records[s] > 0 => s <= n
         /\ handler' = [handler EXCEPT ![h] = Idle]
         /\ status' = "planning_queued"
         /\ pickupTimers' = pickupTimers \cup {n}
         /\ UNCHANGED <<leased, finalizeTimers, terminalEvents, transportVars, worker>>
         /\ \A g \in Handlers : g # h => handler[g].kind # "bootstrap"
         /\ n = active \/ records[n] = 0
<1>. DEFINE n == EnqueueTarget(h)
<1>1. /\ n \in Seqs /\ active' = n /\ records' = [records EXCEPT ![n] = @ + 1]
      /\ handler' = [handler EXCEPT ![h] = Idle]
      /\ status' = "planning_queued"
      /\ pickupTimers' = pickupTimers \cup {n}
      /\ UNCHANGED <<leased, finalizeTimers, terminalEvents, transportVars, worker>>
  BY TargetInBudget DEF BootstrapEnqueued, RetryEnqueued, CreateAttempt, Enqueues, EnqueueTarget,
     Finish, TrackEnqueuedAttempt
<1>2. active \in Nat /\ \A s \in Seqs : s \in Nat /\ records[s] \in Nat
  BY SeqsFacts DEF TypeInv, TypeOK
<1>3. CASE BootstrapEnqueued(h)
  <2>1. handler[h].kind = "bootstrap" /\ active = 0
    BY <1>3, ResumedHandler DEF BootstrapEnqueued
  <2>2. \A s \in Seqs : records[s] = 0
    BY <1>2, <2>1, SeqsFacts DEF RowsPart, Seqs
  <2>3. \A g \in Handlers : g # h => handler[g].kind # "bootstrap"
    BY <2>1 DEF RowsPart
  <2>. QED
    BY <1>1, <2>2, <2>3
<1>4. CASE RetryEnqueued(h)
  <2>1. /\ handler[h].kind = "retry_enqueue" /\ n = handler[h].seq + 1
        /\ handler[h].seq \in Seqs /\ records[handler[h].seq] > 0
    BY <1>4, ResumedHandler DEF RetryEnqueued, EnqueueTarget
  <2>2. \A s \in Seqs : records[s] > 0 => s <= n
    BY <2>1 DEF Newest
  <2>3. active \in Seqs /\ handler[h].seq <= active /\ records[active] > 0
    BY <1>2, <2>1 DEF RowsPart, TypeInv, TypeOK, Seqs
  <2>4. n = active \/ records[n] = 0
    <3>. HIDE DEF n
    <3>1. active <= n
      BY <2>2, <2>3
    <3>2. ASSUME records[n] # 0 PROVE n <= active
      BY <1>1, <1>2, <3>2 DEF RowsPart
    <3>. QED
      BY <1>1, <1>2, <3>1, <3>2
  <2>5. \A g \in Handlers : handler[g].kind # "bootstrap"
    BY <1>2, <2>1, <2>3, SeqsFacts DEF RowsPart, Backed, Seqs
  <2>. QED
    BY <1>1, <2>2, <2>4, <2>5
<1>. QED
  BY <1>3, <1>4

\* How the watchdog takes a handler: for the active attempt, and with a row.
LEMMA WatchdogTakes ==
  ASSUME TypeInv, NEW s \in Seqs, Watchdog(s), ~UNCHANGED handler
  PROVE  /\ active = s /\ records[s] > 0 /\ status' = status
         /\ \E h \in Handlers :
              /\ handler[h] = Idle
              /\ \/ handler' = [handler EXCEPT ![h] =
                                  [kind |-> "retry_remove", seq |-> s, note |-> "none"]]
                 \/ handler' = [handler EXCEPT ![h] =
                                  [kind |-> "cancel_remove", seq |-> s, note |-> "force"]]
<1>1. /\ active = s /\ records[s] # 0
      /\ (\E h \in Handlers : RetryStarts(h, s)) \/ ForceCancel(s)
  BY DEF Watchdog, HandlePickupTimeout, ObserveCompleted, ObserveFailure, RetryOrFail,
     RetryRefused, HandleFinalizeGraceExpiry, PickupTimeoutMoot, SignalIsStale
<1>2. records[s] > 0
  BY <1>1 DEF TypeInv, TypeOK
<1>3. CASE \E h \in Handlers : RetryStarts(h, s)
  BY <1>1, <1>2, <1>3 DEF RetryStarts, Suspend, runVars
<1>4. CASE ForceCancel(s)
  BY <1>1, <1>2, <1>4 DEF ForceCancel, Suspend, runVars
<1>. QED
  BY <1>1, <1>3, <1>4

\* Nor does a callback, timer or signal bring the run back to before its start.
LEMMA StatusPresent ==
  ASSUME TypeInv, [Next]_vars, status' = "absent"
  PROVE  status = "absent"
<1>. SUFFICES ASSUME status # "absent" PROVE FALSE
  OBVIOUS
<1>1. "absent" \notin TerminalRunStatuses
  BY DEF TerminalRunStatuses
<1>2. CASE Client
  BY <1>2 DEF Client, StartRun, CancelRemoves, CancelFences, AcceptMutationAck
<1>3. ASSUME NEW h \in Handlers, Resume(h) PROVE FALSE
  <2>1. CASE FinalizeBinds(h)
    BY <1>1, <2>1 DEF FinalizeBinds, TypeInv, HandlersCarry, Carried
  <2>. QED
    BY <1>3, <2>1 DEF Resume, BootstrapEnqueued, EnqueueFailed, CancelCloses, CancelLeavesJob,
       RetryEnqueues, RetryAbandoned, RetryEnqueued, FinalizeAbandoned, runVars
<1>4. ASSUME NEW h \in Handlers, AddLands(h) PROVE FALSE
  BY <1>4, AddLandsFrame DEF runVars
<1>5. ASSUME NEW s \in Seqs, Watchdog(s) PROVE FALSE
  BY <1>1, <1>5, EventFacts DEF Watchdog, HandlePickupTimeout, ObserveCompleted, ObserveFailure,
     HandleFinalizeGraceExpiry, RetryOrFail, RetryStarts, RetryRefused, ForceCancel, runVars
<1>6. ASSUME NEW s \in Seqs, Callback(s) PROVE FALSE
  <2>1. \A phase \in Phases : StatusOfPhase(phase) # "absent"
    BY DEF Phases, StatusOfPhase
  <2>2. CASE \E beat \in Beats : AcceptHeartbeat(s, beat)
    BY <2>1, <2>2, BeatsAssumption DEF AcceptHeartbeat, UpdateRunStatusIfAllowed, StatusOfBeat
  <2>3. CASE \E phase \in PhaseEvents : AppendPhase(s, phase)
    BY <2>1, <2>3, PhaseEventsAssumption DEF AppendPhase, UpdateRunStatusIfAllowed
  <2>4. CASE \E outcome \in Outcomes : FinalizeCloses(s, outcome)
    BY <1>1, <2>4, OutcomesAssumption DEF FinalizeCloses
  <2>. QED
    BY <1>6, <2>2, <2>3, <2>4 DEF Callback, AppendLog, AppendMutation, FinalizeRepeats,
       FinalizeMaterializes, UpdateRunStatusIfAllowed, runVars
<1>7. ASSUME NEW s \in Seqs, Transport(s) PROVE FALSE
  BY <1>7, TransportFrame DEF runVars
<1>. QED
  BY <1>2, <1>3, <1>4, <1>5, <1>6, <1>7, NextCases DEF vars, runVars

\* rows exist for the attempts up to the newest
LEMMA WatchRowsStep ==
  ASSUME TypeInv, Newest, RowsPart, [Next]_vars
  PROVE  RowsPart'
<1>1. CASE Client
  <2>1. active' = active /\ records' = records
    BY <1>1, ClientFrame DEF attemptVars
  <2>2. ASSUME NEW h \in Handlers, StartRun(h) PROVE RowsPart'
    <3>. DEFINE c == [kind |-> "bootstrap", seq |-> 1, note |-> "sent"]
    <3>1. AllIdle /\ active = 0 /\ handler' = [handler EXCEPT ![h] = c] /\ status' # "absent"
      BY <2>2 DEF StartRun, Suspend, RowsPart
    <3>2. \A g \in Handlers : Backed(handler[g])'
      BY <2>1, <3>1, BackedMove DEF Backed
    <3>3. \A f, g \in Handlers :
            handler'[f].kind = "bootstrap" /\ handler'[g].kind = "bootstrap" => f = g
      BY <3>1, Moves DEF AllIdle, Idle
    <3>. QED
      BY <2>1, <3>1, <3>2, <3>3 DEF RowsPart
  <2>3. ASSUME NEW h \in Handlers, CancelRemoves(h) PROVE RowsPart'
    <3>. DEFINE c == [kind |-> "cancel_remove", seq |-> active, note |-> "plain"]
    <3>1. /\ handler' = [handler EXCEPT ![h] = c] /\ status' # "absent"
          /\ active \in Seqs /\ records[active] > 0
      BY <2>3 DEF CancelRemoves, Suspend, Unproven
    <3>. QED
      BY <2>1, <3>1, WatchRowsMove
  <2>. QED
    BY <1>1, <2>1, <2>2, <2>3, StatusPresent, WatchRowsFrame DEF Client, CancelFences,
       AcceptMutationAck
<1>2. ASSUME NEW h \in Handlers, Resume(h) PROVE RowsPart'
  <2>1. CASE BootstrapEnqueued(h) \/ RetryEnqueued(h)
    BY <2>1, EnqueuedRow, WatchRowsCreated
  <2>2. CASE ~(BootstrapEnqueued(h) \/ RetryEnqueued(h))
    <3>1. UNCHANGED <<active, records>> /\ handler[h].kind # "idle"
      BY <1>2, <2>2 DEF Resume, EnqueueFailed, Enqueues, CancelCloses, CancelLeavesJob,
         RetryEnqueues, RetryAbandoned, FinalizeBinds, FinalizeAbandoned, runVars, attemptVars
    <3>2. status' # "absent" /\ handler[h].seq \in Seqs
          /\ (handler[h].kind # "bootstrap" => records[handler[h].seq] > 0)
      BY <3>1, StatusPresent, ResumedHandler
    <3>3. CASE RetryEnqueues(h)
      <4>. DEFINE c == [kind |-> "retry_enqueue", seq |-> handler[h].seq, note |-> "sent"]
      <4>1. handler' = [handler EXCEPT ![h] = c] /\ handler[h].kind = "retry_remove"
        BY <3>3 DEF RetryEnqueues
      <4>. QED
        BY <3>1, <3>2, <4>1, WatchRowsMove
    <3>4. CASE Finish(h)
      BY <3>1, <3>2, <3>4, WatchRowsMove DEF Finish
    <3>. QED
      BY <1>2, <2>2, <3>3, <3>4 DEF Resume, EnqueueFailed, CancelCloses, CancelLeavesJob,
         RetryAbandoned, FinalizeBinds, FinalizeAbandoned
  <2>. QED
    BY <2>1, <2>2
<1>3. ASSUME NEW h \in Handlers, AddLands(h) PROVE RowsPart'
  <2>. DEFINE c == [handler[h] EXCEPT !.note = "landed"]
  <2>1. UNCHANGED <<active, records, status>> /\ handler[h].kind # "idle"
        /\ handler' = [handler EXCEPT ![h] = c] /\ c.kind = handler[h].kind
        /\ c.seq = handler[h].seq
    BY <1>3 DEF AddLands, Enqueues, runVars, attemptVars, TypeInv, TypeOK, Continuations
  <2>2. status' # "absent" /\ handler[h].seq \in Seqs
        /\ (handler[h].kind # "bootstrap" => records[handler[h].seq] > 0)
    BY <2>1, ResumedHandler
  <2>. HIDE DEF c
  <2>. QED
    BY <2>1, <2>2, WatchRowsMove
<1>4. ASSUME NEW s \in Seqs, Watchdog(s) PROVE RowsPart'
  <2>1. UNCHANGED <<active, records>>
    BY <1>4, WatchdogFrame
  <2>2. CASE ~UNCHANGED handler
    BY <1>4, <2>1, <2>2, WatchdogTakes, StartedWithRow, WatchRowsMove
  <2>. QED
    BY <2>1, <2>2, StatusPresent, WatchRowsFrame
<1>5. ASSUME NEW s \in Seqs, Callback(s) PROVE RowsPart'
  <2>1. UNCHANGED <<active, records>>
    BY <1>5, CallbackFrame
  <2>2. ASSUME NEW outcome \in Outcomes, NEW h \in Handlers, FinalizeMaterializes(h, s, outcome)
        PROVE  RowsPart'
    <3>. DEFINE c == [kind |-> "materialize", seq |-> s, note |-> outcome.final]
    <3>1. handler' = [handler EXCEPT ![h] = c] /\ records[s] > 0 /\ status' # "absent"
      BY <2>2, StartedWithRow DEF FinalizeMaterializes, CallbackAccepted, Suspend, runVars
    <3>. QED
      BY <2>1, <3>1, WatchRowsMove
  <2>3. CASE UNCHANGED handler
    BY <2>1, <2>3, StatusPresent, WatchRowsFrame
  <2>. QED
    BY <1>5, <2>2, <2>3 DEF Callback, AcceptHeartbeat, AppendPhase, AppendLog, AppendMutation,
       FinalizeRepeats, FinalizeCloses
<1>6. ASSUME NEW s \in Seqs, Transport(s) PROVE RowsPart'
  BY <1>6, TransportFrame, WatchRowsFrame DEF runVars, attemptVars
<1>7. CASE UNCHANGED vars
  BY <1>7, WatchRowsFrame DEF vars, runVars, attemptVars
<1>. QED
  BY <1>1, <1>2, <1>3, <1>4, <1>5, <1>6, <1>7, NextCases

\* A step that leaves the queue to itself: handlers that enqueue go on, and rows and
\* processes change only where there is a row.
LEMMA JobsFrame ==
  ASSUME JobsPart, Unclosed, orphans' = orphans,
         \A s \in Seqs : records'[s] = 0 =>
           /\ records[s] = 0 /\ job'[s] = job[s]
           /\ AtWork(s)' => AtWork(s)
           /\ \A h \in Handlers : Enqueues(h) /\ EnqueueTarget(h) = s =>
                                    Enqueues(h)' /\ EnqueueTarget(h)' = s
  PROVE  JobsPart'
BY DEF JobsPart

\* A handler that takes an idle one's place, and one that does not enqueue, leave
\* the enqueues as they are.
LEMMA EnqueuesKept ==
  ASSUME TypeInv, NEW h \in Handlers, NEW c, handler' = [handler EXCEPT ![h] = c],
         ~Enqueues(h)
  PROVE  \A g \in Handlers : Enqueues(g) => Enqueues(g)' /\ EnqueueTarget(g)' = EnqueueTarget(g)
BY Moves DEF Enqueues, EnqueueTarget

\* an idle handler is not enqueueing
LEMMA IdleEnqueuesNothing ==
  ASSUME NEW h \in Handlers, handler[h] = Idle PROVE ~Enqueues(h)
BY DEF Idle, Enqueues

\* a job without a row is the one an enqueue in progress has just added
LEMMA WatchJobsStep ==
  ASSUME TypeInv, TerminalAnnounced, Newest, RowsPart, JobsPart, [Next]_vars
  PROVE  JobsPart'
<1>. SUFFICES ASSUME Unclosed' PROVE JobsPart'
  BY DEF JobsPart
<1>0. Unclosed /\ ~IsTerminal
  BY UnclosedBefore, UnclosedIsOpen
<1>1. CASE Client
  <2>1. UNCHANGED <<records, job, orphans, worker>>
    BY <1>1, ClientFrame DEF attemptVars, transportVars
  <2>2. CASE UNCHANGED handler
    BY <1>0, <2>1, <2>2, JobsFrame DEF AtWork, Enqueues, EnqueueTarget
  <2>3. ASSUME NEW h \in Handlers, StartRun(h) \/ CancelRemoves(h) PROVE JobsPart'
    <3>1. handler[h] = Idle /\ \E c : handler' = [handler EXCEPT ![h] = c]
      BY <2>3 DEF StartRun, CancelRemoves, Suspend
    <3>2. \A g \in Handlers : Enqueues(g) => Enqueues(g)' /\ EnqueueTarget(g)' = EnqueueTarget(g)
      BY <3>1, EnqueuesKept, IdleEnqueuesNothing
    <3>. QED
      BY <1>0, <2>1, <3>2, JobsFrame DEF AtWork
  <2>. QED
    BY <1>1, <2>2, <2>3 DEF Client, CancelFences, AcceptMutationAck
<1>2. ASSUME NEW h \in Handlers, Resume(h) PROVE JobsPart'
  <2>1. CASE BootstrapEnqueued(h) \/ RetryEnqueued(h)
    <3>. DEFINE n == EnqueueTarget(h)
    <3>1. /\ n \in Seqs /\ records' = [records EXCEPT ![n] = @ + 1]
          /\ handler' = [handler EXCEPT ![h] = Idle]
          /\ UNCHANGED <<job, orphans, worker>>
      BY <2>1, EnqueuedRow DEF transportVars
    <3>2. \A s \in Seqs : records'[s] = 0 => s # n /\ records[s] = 0
      BY <3>1, SeqsFacts DEF TypeInv, TypeOK
    <3>3. \A g \in Handlers : g # h => handler'[g] = handler[g]
      BY <3>1, Moves
    <3>4. ASSUME NEW s \in Seqs, records'[s] = 0, NEW g \in Handlers, Enqueues(g),
                 EnqueueTarget(g) = s
          PROVE  Enqueues(g)' /\ EnqueueTarget(g)' = s
      <4>1. g # h
        BY <3>2, <3>4
      <4>. QED
        BY <3>3, <3>4, <4>1 DEF Enqueues, EnqueueTarget
    <3>. QED
      BY <1>0, <3>1, <3>2, <3>4, JobsFrame DEF AtWork
  <2>2. CASE ~(BootstrapEnqueued(h) \/ RetryEnqueued(h))
    <3>1. ~EnqueueFailed(h) /\ ~CancelCloses(h) /\ ~FinalizeBinds(h)
      BY StepClosesNothing
    <3>2. CancelLeavesJob(h) \/ RetryEnqueues(h) \/ RetryAbandoned(h) \/ FinalizeAbandoned(h)
      BY <1>2, <2>2, <3>1 DEF Resume
    <3>3. /\ UNCHANGED <<records, orphans>> /\ ~Enqueues(h)
          /\ \E c : handler' = [handler EXCEPT ![h] = c]
          /\ handler[h].kind \notin {"idle", "bootstrap"}
      <4>1. CASE RetryEnqueues(h)
        BY <4>1 DEF RetryEnqueues, Enqueues, attemptVars
      <4>. QED
        BY <3>2, <4>1 DEF CancelLeavesJob, RetryAbandoned, FinalizeAbandoned, Enqueues, Finish,
           attemptVars, transportVars
    <3>4. handler[h].seq \in Seqs /\ records[handler[h].seq] > 0
      BY <3>3, ResumedHandler
    <3>5. \A g \in Handlers : Enqueues(g) => Enqueues(g)' /\ EnqueueTarget(g)' = EnqueueTarget(g)
      BY <3>3, EnqueuesKept
    <3>6. \A s \in Seqs : s # handler[h].seq => job'[s] = job[s] /\ worker'[s] = worker[s]
      BY <3>2, <3>4 DEF CancelLeavesJob, RetryEnqueues, RetryAbandoned, FinalizeAbandoned,
         Removed, NotRemoved, RemoveThrows, transportVars, TypeInv, TypeOK
    <3>. QED
      BY <1>0, <3>3, <3>4, <3>5, <3>6, JobsFrame DEF AtWork
  <2>. QED
    BY <2>1, <2>2
<1>3. ASSUME NEW h \in Handlers, AddLands(h) PROVE JobsPart'
  <2>. DEFINE n == EnqueueTarget(h)
  <2>1. /\ UNCHANGED <<records, orphans, worker>> /\ Enqueues(h) /\ n \in Seqs
        /\ handler' = [handler EXCEPT ![h].note = "landed"]
        /\ job' = IF job[n] = "absent" THEN [job EXCEPT ![n] = "waiting"] ELSE job
    BY <1>3, TargetInBudget DEF AddLands, Land, attemptVars
  <2>2. \A g \in Handlers : /\ handler'[g].kind = handler[g].kind
                            /\ handler'[g].seq = handler[g].seq
    BY <2>1 DEF TypeInv, TypeOK, Continuations
  <2>3. \A g \in Handlers : /\ Enqueues(g)' <=> Enqueues(g)
                            /\ EnqueueTarget(g)' = EnqueueTarget(g)
    BY <2>2 DEF Enqueues, EnqueueTarget
  <2>4. \A s \in Seqs : /\ s # n => job'[s] = job[s]
                        /\ job[s] = "active" => job'[s] = "active"
    BY <2>1 DEF TypeInv, TypeOK
  <2>. HIDE DEF n
  <2>5. n = EnqueueTarget(h)
    BY DEF n
  <2>. QED
    BY <1>0, <2>1, <2>3, <2>4, <2>5 DEF JobsPart, AtWork
<1>4. ASSUME NEW s \in Seqs, Watchdog(s) PROVE JobsPart'
  <2>1. UNCHANGED <<records, job, orphans, worker>>
    BY <1>4, WatchdogFrame
  <2>2. CASE UNCHANGED handler
    BY <1>0, <2>1, <2>2, JobsFrame DEF AtWork, Enqueues, EnqueueTarget
  <2>3. CASE ~UNCHANGED handler
    <3>1. \E h \in Handlers : handler[h] = Idle /\ \E c : handler' = [handler EXCEPT ![h] = c]
      BY <1>4, <2>3, WatchdogTakes
    <3>2. \A g \in Handlers : Enqueues(g) => Enqueues(g)' /\ EnqueueTarget(g)' = EnqueueTarget(g)
      BY <3>1, EnqueuesKept, IdleEnqueuesNothing
    <3>. QED
      BY <1>0, <2>1, <3>2, JobsFrame DEF AtWork
  <2>. QED
    BY <2>2, <2>3
<1>5. ASSUME NEW s \in Seqs, Callback(s) PROVE JobsPart'
  <2>1. UNCHANGED <<records, job, orphans>>
    BY <1>5, CallbackFrame DEF transportVars
  <2>2. records[s] > 0
    BY <1>5, StartedWithRow DEF Callback, AcceptHeartbeat, AppendPhase, AppendLog, AppendMutation,
       FinalizeRepeats, FinalizeCloses, FinalizeMaterializes, CallbackAccepted
  <2>3. \A t \in Seqs : t # s => worker'[t] = worker[t]
    BY <1>5 DEF Callback, AcceptHeartbeat, AppendPhase, AppendLog, AppendMutation,
       FinalizeRepeats, FinalizeCloses, FinalizeMaterializes, TypeInv, TypeOK
  <2>4. UNCHANGED handler \/ \E h \in Handlers : /\ handler[h] = Idle
                                                 /\ \E c : handler' = [handler EXCEPT ![h] = c]
    BY <1>5 DEF Callback, AcceptHeartbeat, AppendPhase, AppendLog, AppendMutation,
       FinalizeRepeats, FinalizeCloses, FinalizeMaterializes, Suspend
  <2>5. \A g \in Handlers : Enqueues(g) => Enqueues(g)' /\ EnqueueTarget(g)' = EnqueueTarget(g)
    <3>1. CASE UNCHANGED handler
      BY <3>1 DEF Enqueues, EnqueueTarget
    <3>. QED
      BY <2>4, <3>1, EnqueuesKept, IdleEnqueuesNothing
  <2>. QED
    BY <1>0, <2>1, <2>2, <2>3, <2>5, JobsFrame DEF AtWork
<1>6. ASSUME NEW s \in Seqs, Transport(s) PROVE JobsPart'
  <2>1. UNCHANGED <<records, handler>>
    BY <1>6, TransportFrame DEF attemptVars
  <2>2. ~OrphanLands(s)
    BY <1>0 DEF OrphanLands, JobsPart
  <2>3. orphans' = orphans
    BY <1>6, <2>2 DEF Transport, JobEnds, PickUp, WorkerCrashes, WorkerThrows, WorkerReturns,
       LockExpires, transportVars
  <2>4. \A t \in Seqs : t # s => job'[t] = job[t] /\ worker'[t] = worker[t]
    BY <1>6, <2>2 DEF Transport, JobEnds, PickUp, WorkerCrashes, WorkerThrows, WorkerReturns,
       LockExpires, transportVars, TypeInv, TypeOK
  <2>5. ASSUME records[s] = 0
        PROVE  /\ job'[s] # "absent" => job[s] # "absent"
               /\ AtWork(s)' => job'[s] = "active"
    <3>1. ~LockExpires(s)
      BY <1>0, <2>5 DEF LockExpires, JobsPart
    <3>2. CASE PickUp(s)
      BY <3>2 DEF PickUp, AtWork, TypeInv, TypeOK
    <3>3. CASE WorkerCrashes(s)
      BY <3>3 DEF WorkerCrashes, AtWork, TypeInv, TypeOK, transportVars
    <3>4. CASE WorkerThrows(s) \/ WorkerReturns(s)
      BY <3>4 DEF WorkerThrows, WorkerReturns, AtWork, TypeInv, TypeOK
    <3>. QED
      BY <1>6, <2>2, <3>1, <3>2, <3>3, <3>4 DEF Transport, JobEnds
  <2>6. \A g \in Handlers : /\ Enqueues(g)' <=> Enqueues(g)
                            /\ EnqueueTarget(g)' = EnqueueTarget(g)
    BY <2>1 DEF Enqueues, EnqueueTarget
  <2>. QED
    BY <1>0, <2>1, <2>3, <2>4, <2>5, <2>6 DEF JobsPart, AtWork
<1>7. CASE UNCHANGED vars
  BY <1>0, <1>7, JobsFrame DEF vars, attemptVars, transportVars, AtWork, Enqueues, EnqueueTarget
<1>. QED
  BY <1>1, <1>2, <1>3, <1>4, <1>5, <1>6, <1>7, NextCases

\* What was watched stays watched where the step touches neither the active attempt
\* nor a handler that works for it.
LEMMA WatchFrame ==
  ASSUME WatchPart, Unclosed, status # "absent", active' = active,
         dropped \subseteq dropped', leased \subseteq leased',
         \A h \in Handlers : Works(h) => Works(h)',
         Tracked => Tracked',
         Awaited => Awaited' \/ Tracked' \/ LetGo'
  PROVE  WatchPart'
<1>1. LetGo => LetGo'
  BY DEF LetGo
<1>. QED
  BY <1>1 DEF WatchPart

\* Works looks at kind, sequence number and note of a handler only.
LEMMA WorksKept ==
  ASSUME active' = active, NEW h \in Handlers, Works(h), handler'[h] = handler[h]
  PROVE  Works(h)'
BY DEF Works

\* A handler taken from the idle ones disturbs none that works.
LEMMA WorkersKept ==
  ASSUME TypeInv, active' = active,
         \/ UNCHANGED handler
         \/ \E h \in Handlers : handler[h] = Idle /\ \E c : handler' = [handler EXCEPT ![h] = c]
  PROVE  \A g \in Handlers : Works(g) => Works(g)'
<1>1. CASE UNCHANGED handler
  BY <1>1, WorksKept
<1>2. ASSUME NEW h \in Handlers, handler[h] = Idle, NEW c, handler' = [handler EXCEPT ![h] = c]
      PROVE  \A g \in Handlers : Works(g) => Works(g)'
  <2>1. ~Works(h)
    BY <1>2 DEF Works, Idle
  <2>. QED
    BY <1>2, <2>1, Moves, WorksKept
<1>. QED
  BY <1>1, <1>2

\* The watch after a row was created for a new attempt.
LEMMA WatchNewRow ==
  ASSUME Grounds, RowsPart, JobsPart, NEW h \in Handlers,
         BootstrapEnqueued(h) \/ RetryEnqueued(h), Unclosed,
         records[EnqueueTarget(h)] = 0
  PROVE  WatchPart'
<1>. DEFINE n == EnqueueTarget(h)
<1>1. /\ n \in Seqs /\ active' = n /\ pickupTimers' = pickupTimers \cup {n}
      /\ leased' = leased /\ worker' = worker /\ job' = job
  BY EnqueuedRow DEF Grounds, transportVars
<1>2. n \notin leased
  BY <1>1 DEF Grounds, OwnershipProven
<1>3. AtWork(n) => job[n] = "active"
  BY <1>1 DEF JobsPart
<1>4. CASE AtWork(n)
  BY <1>1, <1>3, <1>4, SeqsFacts DEF WatchPart, Tracked, Seqs
<1>5. CASE ~AtWork(n)
  BY <1>1, <1>2, <1>5 DEF WatchPart, Awaited, AtWork
<1>. QED
  BY <1>4, <1>5

\* a resumed handler leaves the open run a watch
LEMMA WatchResume ==
  ASSUME Grounds, RowsPart, JobsPart, WatchPart, NEW h \in Handlers, Resume(h), Unclosed',
         Unclosed
  PROVE  WatchPart'
<1>0. TypeInv /\ active \in Nat /\ \A s \in Seqs : s \in Nat /\ s # 0
  <2>1. TypeInv /\ active \in 0 .. (MaxQueueAttempts + 1)
    BY DEF Grounds, TypeInv, TypeOK
  <2>2. \A s \in Seqs : s \in Nat /\ s # 0
    BY DEF Seqs
  <2>. QED
    BY <2>1, <2>2
<1>1. CASE BootstrapEnqueued(h) \/ RetryEnqueued(h)
  <2>. DEFINE n == EnqueueTarget(h)
  <2>1. CASE records[n] = 0
    BY <1>1, <2>1, WatchNewRow
  <2>2. CASE records[n] # 0
    <3>1. /\ n \in Seqs /\ active = n /\ active' = n
          /\ handler' = [handler EXCEPT ![h] = Idle]
          /\ pickupTimers' = pickupTimers \cup {n}
          /\ UNCHANGED <<leased, finalizeTimers, job, signals, worker>>
          /\ dropped \subseteq dropped'
      BY <1>1, <2>2, EnqueuedRow, ResumeFrame DEF Grounds, transportVars
    <3>2. ~Works(h)
      <4>1. active # 0
        BY <1>0, <3>1
      <4>2. handler[h].kind = "retry_enqueue" /\ handler[h].seq \in Nat
            /\ active = handler[h].seq + 1
        BY <1>0, <1>1, <3>1, <4>1, ResumedHandler DEF BootstrapEnqueued, RetryEnqueued, Grounds,
           EnqueueTarget
      <4>. QED
        BY <4>2 DEF Works
    <3>3. \A g \in Handlers : Works(g) => Works(g)'
      BY <1>0, <3>1, <3>2, Moves, WorksKept
    <3>4. status # "absent"
      BY <1>0, <1>1, ResumedHandler DEF BootstrapEnqueued, RetryEnqueued
    <3>. QED
      BY <3>1, <3>3, <3>4, WatchFrame DEF Tracked, Awaited, AtWork
  <2>. QED
    BY <2>1, <2>2
<1>2. CASE ~(BootstrapEnqueued(h) \/ RetryEnqueued(h))
  <2>1. /\ CancelLeavesJob(h) \/ RetryEnqueues(h) \/ RetryAbandoned(h) \/ FinalizeAbandoned(h)
        /\ dropped \subseteq dropped'
    BY <1>0, <1>2, StepClosesNothing, ResumeFrame DEF Resume
  <2>. DEFINE s == handler[h].seq
  <2>2. /\ s \in Seqs /\ status # "absent"
        /\ UNCHANGED <<active, leased, pickupTimers, finalizeTimers, signals>>
        /\ \E c : handler' = [handler EXCEPT ![h] = c]
        /\ handler[h].kind # "idle"
    <3>1. CASE RetryEnqueues(h)
      BY <1>0, <3>1, ResumedHandler DEF RetryEnqueues, runVars, attemptVars, timerVars
    <3>. QED
      BY <1>0, <2>1, <3>1, ResumedHandler DEF CancelLeavesJob, RetryAbandoned, FinalizeAbandoned,
         Finish, runVars, attemptVars, timerVars, transportVars
  <2>3. \A g \in Handlers : g # h => handler'[g] = handler[g]
    BY <1>0, <2>2, Moves
  <2>4. \A t \in Seqs : AtWork(t)' => AtWork(t)
    BY <2>1 DEF CancelLeavesJob, RetryEnqueues, RetryAbandoned, FinalizeAbandoned, AtWork,
       Grounds, TypeInv, TypeOK
  <2>5. \A t \in Seqs : t = s \/ job'[t] = job[t]
    BY <2>1, <2>2 DEF CancelLeavesJob, RetryEnqueues, RetryAbandoned, FinalizeAbandoned,
       Removed, NotRemoved, RemoveThrows, transportVars, Grounds, TypeInv, TypeOK
  <2>6. active \in Seqs \/ active = 0
    BY <1>0 DEF TypeInv, TypeOK, Seqs
  <2>7. \A g \in Handlers : g # h /\ Works(g) => Works(g)'
    BY <2>2, <2>3, WorksKept
  <2>8. Awaited => Awaited'
    BY <2>2, <2>4 DEF Awaited, Grounds, TypeInv, TypeOK
  <2>9. CASE RetryEnqueues(h) /\ s = active
    <3>1. Works(h)'
      BY <1>0, <2>2, <2>9, Moves DEF RetryEnqueues, Works
    <3>. QED
      BY <3>1 DEF WatchPart
  <2>10. CASE RetryEnqueues(h) /\ s # active
    <3>1. ~Works(h)
      BY <2>10 DEF RetryEnqueues, Works
    <3>2. Tracked => Tracked'
      BY <1>0, <2>2, <2>5, <2>6, <2>10 DEF Tracked
    <3>. QED
      BY <2>1, <2>2, <2>7, <2>8, <3>1, <3>2, WatchFrame
  <2>11. CASE ~RetryEnqueues(h) /\ ~Works(h)
    <3>1. job' = job
      BY <2>1, <2>11 DEF CancelLeavesJob, RetryAbandoned, FinalizeAbandoned, NotRemoved,
         RemoveThrows, transportVars
    <3>. QED
      BY <2>1, <2>2, <2>7, <2>8, <2>11, <3>1, WatchFrame DEF Tracked
  <2>12. CASE ~RetryEnqueues(h) /\ Works(h)
    <3>1. s = active /\ Drop(s)
      BY <2>1, <2>12 DEF Works, CancelLeavesJob, RetryAbandoned, FinalizeAbandoned
    <3>. QED
      BY <2>2, <3>1 DEF WatchPart, LetGo, Drop
  <2>. QED
    BY <2>9, <2>10, <2>11, <2>12
<1>. QED
  BY <1>1, <1>2

\* the watchdog gives a watch up for a handler at work, or closes the run
LEMMA WatchWatchdog ==
  ASSUME Grounds, RowsPart, WatchPart, NEW s \in Seqs, Watchdog(s), Unclosed', Unclosed
  PROVE  WatchPart'
<1>. SUFFICES ASSUME status' # "absent" PROVE WatchPart'
  BY DEF WatchPart
<1>0. TypeInv /\ s \in Nat /\ s # 0 /\ ~IsTerminal
  BY SeqsFacts, UnclosedIsOpen DEF Grounds, Seqs
<1>1. UNCHANGED <<active, leased, job, worker, records, dropped>>
  BY WatchdogFrame
<1>2. CASE ~UNCHANGED handler
  <2>1. active = s /\ active' = s
    BY <1>1, <1>2, WatchdogTakes, <1>0
  <2>2. PICK h \in Handlers :
          \/ handler' = [handler EXCEPT ![h] =
                           [kind |-> "retry_remove", seq |-> s, note |-> "none"]]
          \/ handler' = [handler EXCEPT ![h] =
                           [kind |-> "cancel_remove", seq |-> s, note |-> "force"]]
    BY <1>0, <1>2, WatchdogTakes
  <2>3. \/ handler'[h] = [kind |-> "retry_remove", seq |-> s, note |-> "none"]
        \/ handler'[h] = [kind |-> "cancel_remove", seq |-> s, note |-> "force"]
    BY <1>0, <2>2, Moves
  <2>4. Works(h)'
    BY <2>1, <2>3 DEF Works
  <2>. QED
    BY <2>4 DEF WatchPart
<1>3. CASE UNCHANGED handler
  <2>1. ~RetryOrFail(s) /\ ~ForceCancel(s)
    <3>1. \A h \in Handlers : \A c : handler[h] = Idle /\ c.kind # "idle"
            => handler # [handler EXCEPT ![h] = c]
      BY <1>0 DEF TypeInv, TypeOK, Idle
    <3>2. ~ForceCancel(s) /\ ~\E h \in Handlers : RetryStarts(h, s)
      BY <1>3, <3>1 DEF ForceCancel, RetryStarts, Suspend
    <3>. QED
      BY <1>0, <3>2, StepClosesNothing DEF RetryOrFail
  <2>2. CASE active # s
    <3>1. /\ status' = status
          /\ \A t \in Seqs : t # s =>
               /\ t \in pickupTimers => t \in pickupTimers'
               /\ t \in finalizeTimers => t \in finalizeTimers'
               /\ \A kind \in {"completed", "failed", "stalled"} :
                    <<t, kind>> \in signals => <<t, kind>> \in signals'
      <4>1. CASE HandlePickupTimeout(s)
        BY <2>2, <4>1 DEF HandlePickupTimeout, PickupTimeoutMoot, runVars, transportVars
      <4>2. CASE ObserveCompleted(s)
        BY <2>2, <4>2 DEF ObserveCompleted, SignalIsStale, runVars
      <4>3. ASSUME NEW kind \in {"failed", "stalled"}, ObserveFailure(s, kind)
            PROVE  /\ status' = status /\ UNCHANGED <<pickupTimers, finalizeTimers>>
                   /\ signals' = signals \ {<<s, kind>>}
        BY <2>2, <4>3 DEF ObserveFailure, SignalIsStale, runVars
      <4>4. CASE HandleFinalizeGraceExpiry(s)
        BY <2>2, <4>4 DEF HandleFinalizeGraceExpiry, FinalizeGraceMoot, transportVars
      <4>. QED
        BY <4>1, <4>2, <4>3, <4>4 DEF Watchdog
    <3>2. active \in Seqs \/ active = 0
      BY <1>0 DEF TypeInv, TypeOK, Seqs
    <3>3. 0 \notin pickupTimers
      BY <1>0 DEF TypeInv, TypeOK, Seqs
    <3>4. \A h \in Handlers : Works(h) => Works(h)'
      BY <1>1, <1>3, WorksKept
    <3>5. Tracked => Tracked'
      BY <1>1, <2>2, <3>1, <3>2, SeqsFacts DEF Tracked
    <3>6. Awaited => Awaited'
      BY <1>1, <2>2, <3>1, <3>2, <3>3 DEF Awaited, AtWork
    <3>. QED
      BY <1>1, <3>1, <3>4, <3>5, <3>6, WatchFrame
  <2>3. CASE active = s
    <3>1. records[s] # 0
      BY <1>0, <2>3, StartedWithRow
    <3>2. ~HandleFinalizeGraceExpiry(s)
      BY <1>0, <2>3, AnnounceCloses DEF HandleFinalizeGraceExpiry, FinalizeGraceMoot
    <3>3. \A kind : ~ObserveFailure(s, kind)
      BY <1>0, <2>1, <2>3, <3>1 DEF ObserveFailure, SignalIsStale
    <3>4. CASE ObserveCompleted(s)
      BY <1>0, <1>1, <2>3, <3>1, <3>4 DEF ObserveCompleted, SignalIsStale, TrackFinalizeGrace,
         WatchPart, Tracked
    <3>5. CASE HandlePickupTimeout(s)
      <4>1. /\ s \in leased /\ UNCHANGED <<status, finalizeTimers, signals>>
        BY <1>0, <2>1, <2>3, <3>1, <3>5 DEF HandlePickupTimeout, PickupTimeoutMoot, runVars,
           transportVars
      <4>2. \A h \in Handlers : Works(h) => Works(h)'
        BY <1>1, <1>3, WorksKept
      <4>. QED
        BY <1>1, <2>3, <4>1, <4>2, WatchFrame DEF Tracked, Awaited
    <3>. QED
      BY <3>2, <3>3, <3>4, <3>5 DEF Watchdog
  <2>. QED
    BY <2>2, <2>3
<1>. QED
  BY <1>2, <1>3

\* a callback replaces a watch by another one
LEMMA WatchCallback ==
  ASSUME Grounds, RowsPart, WatchPart, NEW s \in Seqs, Callback(s), Unclosed', Unclosed
  PROVE  WatchPart'
<1>0. TypeInv /\ ~IsTerminal
  BY UnclosedIsOpen DEF Grounds
<1>1. UNCHANGED <<active, timerVars, transportVars, dropped>>
  BY CallbackFrame
<1>2. active = s /\ worker[s] = "running"
  BY <1>0 DEF Callback, AcceptHeartbeat, AppendPhase, AppendLog, AppendMutation,
     FinalizeRepeats, FinalizeCloses, FinalizeMaterializes, CallbackAccepted
<1>3. status # "absent"
  BY <1>0, <1>2, StartedWithRow
<1>4. leased \subseteq leased' /\ (Awaited => Awaited' \/ LetGo')
  <2>1. leased \subseteq leased'
    BY DEF Callback, AcceptHeartbeat, AppendPhase, AppendLog, AppendMutation, FinalizeRepeats,
       FinalizeCloses, FinalizeMaterializes, attemptVars
  <2>2. CASE UsesBullmq
    BY <1>2, <2>1, <2>2 DEF Awaited, AtWork
  <2>3. CASE ~UsesBullmq
    BY <1>1, <2>1, <2>3 DEF Awaited, AtWork, LetGo, timerVars
  <2>. QED
    BY <2>1, <2>2, <2>3
<1>5. UNCHANGED handler \/ \E h \in Handlers : /\ handler[h] = Idle
                                               /\ \E c : handler' = [handler EXCEPT ![h] = c]
  BY DEF Callback, AcceptHeartbeat, AppendPhase, AppendLog, AppendMutation,
     FinalizeRepeats, FinalizeCloses, FinalizeMaterializes, Suspend
<1>6. \A h \in Handlers : Works(h) => Works(h)'
  BY <1>0, <1>1, <1>5, WorkersKept
<1>. QED
  BY <1>1, <1>3, <1>4, <1>6, WatchFrame DEF Tracked, timerVars, transportVars

\* a start is watched by its own handler, and a cancel leaves the watch or takes it over
LEMMA WatchClient ==
  ASSUME Grounds, RowsPart, WatchPart, Client, Unclosed', Unclosed
  PROVE  WatchPart'
<1>0. TypeInv
  BY DEF Grounds
<1>1. UNCHANGED <<active, attemptVars, timerVars, transportVars, worker, dropped>>
  BY ClientFrame
<1>2. CASE \E h \in Handlers : StartRun(h)
  <2>1. PICK h \in Handlers :
          handler' = [handler EXCEPT ![h] = [kind |-> "bootstrap", seq |-> 1, note |-> "sent"]]
    BY <1>2 DEF StartRun, Suspend
  <2>2. handler'[h].kind = "bootstrap"
    BY <1>0, <2>1 DEF TypeInv, TypeOK
  <2>3. Works(h)'
    BY <2>2 DEF Works
  <2>. QED
    BY <2>3 DEF WatchPart
<1>3. CASE ~\E h \in Handlers : StartRun(h)
  <2>1. UNCHANGED handler \/ \E h \in Handlers : /\ handler[h] = Idle
                                                 /\ \E c : handler' = [handler EXCEPT ![h] = c]
    BY <1>3 DEF Client, CancelRemoves, CancelFences, AcceptMutationAck, Suspend
  <2>2. \A h \in Handlers : Works(h) => Works(h)'
    BY <1>0, <1>1, <2>1, WorkersKept
  <2>3. status # "absent" \/ status' = "absent"
    BY <1>3 DEF Client, CancelRemoves, CancelFences, AcceptMutationAck
  <2>4. CASE status' = "absent"
    BY <2>4 DEF WatchPart
  <2>5. CASE status # "absent"
    BY <1>1, <2>2, <2>5, WatchFrame DEF Tracked, Awaited, AtWork, timerVars, attemptVars,
       transportVars
  <2>. QED
    BY <2>3, <2>4, <2>5
<1>. QED
  BY <1>2, <1>3

\* an add that lands takes no watch away
LEMMA WatchLanding ==
  ASSUME Grounds, RowsPart, WatchPart, NEW h \in Handlers, AddLands(h), Unclosed
  PROVE  WatchPart'
<1>0. TypeInv
  BY DEF Grounds
<1>. DEFINE n == EnqueueTarget(h)
<1>1. /\ UNCHANGED <<active, leased, pickupTimers, finalizeTimers, signals, worker, dropped>>
      /\ Enqueues(h) /\ n \in Seqs
      /\ handler' = [handler EXCEPT ![h].note = "landed"]
      /\ job' = IF job[n] = "absent" THEN [job EXCEPT ![n] = "waiting"] ELSE job
  BY <1>0, TargetInBudget DEF AddLands, Land, attemptVars, runVars, timerVars
<1>2. \A g \in Handlers : /\ handler'[g].kind = handler[g].kind
                          /\ handler'[g].seq = handler[g].seq
                          /\ g # h => handler'[g] = handler[g]
  BY <1>0, <1>1 DEF TypeInv, TypeOK, Continuations
<1>3. \A g \in Handlers : Works(g) => Works(g)'
  BY <1>1, <1>2 DEF Works, Enqueues
<1>. HIDE DEF n
<1>4. \A s \in Seqs : job[s] = "active" => job'[s] = "active"
  BY <1>0, <1>1 DEF TypeInv, TypeOK
<1>5. active = 0 \/ active \in Seqs
  BY <1>0 DEF TypeInv, TypeOK, Seqs
<1>6. Tracked => Tracked'
  BY <1>1, <1>4, <1>5 DEF Tracked
<1>7. status # "absent"
  BY <1>0, <1>1, ResumedHandler DEF Enqueues
<1>. QED
  BY <1>1, <1>3, <1>6, <1>7, WatchFrame DEF Awaited, AtWork

\* a worker that is lost leaves a signal to come
LEMMA WatchTransport ==
  ASSUME Grounds, RowsPart, JobsPart, WatchPart, NEW s \in Seqs, Transport(s), Unclosed', Unclosed
  PROVE  WatchPart'
<1>. SUFFICES ASSUME status' # "absent" PROVE WatchPart'
  BY DEF WatchPart
<1>0. TypeInv /\ ~OrphanLands(s)
  BY DEF Grounds, OrphanLands, JobsPart
<1>1. UNCHANGED <<active, status, leased, pickupTimers, finalizeTimers, handler, dropped>>
  BY TransportFrame DEF runVars, attemptVars, timerVars
<1>2. \A h \in Handlers : Works(h) => Works(h)'
  BY <1>1, WorksKept
<1>3. /\ signals \subseteq signals'
      /\ job[s] = "active" /\ job'[s] # "active" =>
           \E kind \in {"completed", "failed"} : <<s, kind>> \in signals'
      /\ \A t \in Seqs : t # s => job'[t] = job[t]
      /\ \A t \in Seqs : ~AtWork(t) /\ AtWork(t)' => job'[t] = "active"
  <2>1. CASE PickUp(s)
    BY <1>0, <2>1 DEF PickUp, AtWork, TypeInv, TypeOK
  <2>2. CASE WorkerCrashes(s)
    BY <1>0, <2>2 DEF WorkerCrashes, AtWork, TypeInv, TypeOK, transportVars
  <2>3. CASE WorkerThrows(s) \/ WorkerReturns(s)
    BY <1>0, <2>3 DEF WorkerThrows, WorkerReturns, AtWork, TypeInv, TypeOK
  <2>4. CASE LockExpires(s)
    BY <1>0, <2>4 DEF LockExpires, AtWork, TypeInv, TypeOK
  <2>. QED
    BY <1>0, <2>1, <2>2, <2>3, <2>4 DEF Transport, JobEnds
<1>4. active = 0 \/ (active \in Seqs /\ active > 0)
  <2>1. active \in 0 .. (MaxQueueAttempts + 1)
    BY <1>0 DEF TypeInv, TypeOK
  <2>. QED
    BY <2>1 DEF Seqs
<1>5. 0 \notin pickupTimers
  BY <1>0 DEF TypeInv, TypeOK, Seqs
<1>6. Tracked => Tracked'
  BY <1>1, <1>3, <1>4 DEF Tracked
<1>7. Awaited => Awaited' \/ Tracked'
  BY <1>1, <1>3, <1>4, <1>5 DEF Awaited, Tracked
<1>. QED
  BY <1>1, <1>2, <1>6, <1>7, WatchFrame

\* every step leaves an open run watched
LEMMA WatchStep ==
  ASSUME Grounds, WatchInv, [Next]_vars
  PROVE  WatchInv'
<1>0. TypeInv /\ TerminalAnnounced /\ Newest /\ RowsPart /\ JobsPart /\ WatchPart
  BY DEF Grounds, WatchInv
<1>1. RowsPart' /\ JobsPart'
  BY <1>0, WatchRowsStep, WatchJobsStep
<1>2. WatchPart'
  <2>. SUFFICES ASSUME Unclosed' PROVE WatchPart'
    BY DEF WatchPart
  <2>0. Unclosed
    BY <1>0, UnclosedBefore
  <2>1. CASE UNCHANGED vars
    BY <1>0, <2>1 DEF vars, WatchPart, LetGo, Unclosed, Works, Tracked, Awaited, AtWork, runVars,
       attemptVars, timerVars, transportVars
  <2>. QED
    BY <1>0, <2>0, <2>1, NextCases, WatchClient, WatchResume, WatchLanding, WatchWatchdog,
       WatchCallback, WatchTransport
<1>. QED
  BY <1>1, <1>2 DEF WatchInv

\* no run, nothing to watch
LEMMA WatchInit == Init => WatchInv
<1>. SUFFICES ASSUME Init PROVE WatchInv
  OBVIOUS
<1>1. \A h \in Handlers : handler[h] = Idle
  BY DEF Init
<1>2. RowsPart
  BY <1>1, SeqsFacts DEF Init, RowsPart, Backed, AllIdle, Idle
<1>3. JobsPart
  BY DEF Init, JobsPart, AtWork
<1>4. WatchPart
  BY DEF Init, WatchPart
<1>. QED
  BY <1>2, <1>3, <1>4 DEF WatchInv

\* what watches an open run is what the property asks for
LEMMA WatchSays ==
  ASSUME TypeInv, WatchInv PROVE WatchedUntilClosed
BY SuspendedNotIdle DEF WatchInv, WatchPart, LetGo, Unclosed, Works, Tracked, Awaited,
   WatchedUntilClosed, Open

\* the invariants proved above give the grounds
LEMMA WatchGrounds ==
  TypeInv /\ OwnershipProven /\ TerminalAnnounced /\ Newest => Grounds
BY DEF Grounds

\* the watch is an inductive invariant on those grounds
LEMMA WatchInductive == Grounds /\ WatchInv /\ [Next]_vars => WatchInv'
BY WatchStep

\* With the default budget the code lets an open run go in two cases only, a remove that
\* threw and a leased job of the in-memory queue; otherwise, until the run is first
\* closed, a handler still works on it, or a timer or a signal will find its active
\* attempt, however enqueues, removes, retries and worker ends interleave.
THEOREM NoRunIsForgotten ==
  ASSUME MaxQueueAttempts <= 2 PROVE Spec => []WatchedUntilClosed
<1>1. TypeInv /\ AttemptBudget => Newest
  <2>. SUFFICES ASSUME TypeInv, AttemptBudget PROVE Newest
    OBVIOUS
  <2>1. \A s \in Seqs : records[s] > 0 => s <= 2
    BY SeqsFacts DEF AttemptBudget
  <2>2. \A h \in Handlers : handler[h].seq \in Nat /\ handler[h].seq >= 1
    BY DEF TypeInv, TypeOK, Continuations, Seqs
  <2>. QED
    BY <2>1, <2>2, SeqsFacts DEF Newest
<1>2. Spec => []Newest
  BY <1>1, InitType, TypeStep, RetryBudgetHolds, PTL DEF Spec
<1>3. TypeInv /\ WatchInv => WatchedUntilClosed
  BY WatchSays
<1>. QED
  BY <1>2, <1>3, InitType, TypeStep, WatchInit, WatchInductive, WatchGrounds, LeasesAreProven,
     TerminalIsAnnounced, PTL DEF Spec

\* With handlers that are never interrupted, so it is for any budget.
THEOREM AtomicForgetsNoRun ==
  ASSUME HandlersAtomic PROVE Spec => []WatchedUntilClosed
<1>1. TypeInv /\ AtomicInv => Newest
  <2>. SUFFICES ASSUME TypeInv, AtomicInv PROVE Newest
    OBVIOUS
  <2>1. ASSUME NEW h \in Handlers, NEW s \in Seqs, handler[h].kind = "retry_enqueue",
               records[s] > 0
        PROVE  s <= handler[h].seq + 1
    <3>1. active = handler[h].seq
      BY <2>1 DEF AtomicInv, HandlerInv, HandlersStill, StillTrue
    <3>2. s <= active /\ active \in Nat
      BY <2>1, SeqsFacts DEF AtomicInv, Rows, TypeInv, TypeOK
    <3>. QED
      BY <3>1, <3>2, SeqsFacts
  <2>. QED
    BY <2>1 DEF Newest
<1>2. Spec => []Newest
  BY <1>1, InitType, TypeStep, AtomicAlways, PTL DEF Spec
<1>3. TypeInv /\ WatchInv => WatchedUntilClosed
  BY WatchSays
<1>. QED
  BY <1>2, <1>3, InitType, TypeStep, WatchInit, WatchInductive, WatchGrounds, LeasesAreProven,
     TerminalIsAnnounced, PTL DEF Spec

-------------------------------------------------------------------------------
(* Ended attempts *)

\* The states a worker's heartbeats carry are those of an attempt at work
\* (planningNodes, executionNodes, refinementNodes, finalizeNodes).
BeatsAtWork == \A beat \in Beats : beat.state \notin TerminalAttemptStates

Retries(h) == handler[h].kind \in {"retry_remove", "retry_enqueue"}

\* The active attempt of an open run has ended only while its retry is under way, or
\* after the remove threw that this retry begins with.
EndedPart ==
  \A s \in Seqs :
    /\ records[s] = 0 => attemptState[s] = "absent"
    /\ active = s /\ ~IsTerminal /\ attemptState[s] \in TerminalAttemptStates =>
         (\E h \in Handlers : Retries(h)) \/ s \in dropped

StaysEnded ==
  \A s \in Seqs \ dropped : attemptState[s] \in TerminalAttemptStates
                    => attemptState'[s] \in TerminalAttemptStates

\* which attempt states end an attempt
LEMMA EndStates ==
  /\ "absent" \notin TerminalAttemptStates
  /\ {"enqueued", "retry_waiting", "awaiting_ack"} \cap TerminalAttemptStates = {}
  /\ {"failed", "cancelled"} \subseteq TerminalAttemptStates
  /\ \A final \in TerminalRunStatuses : AttemptStateOf(final) \in TerminalAttemptStates
BY DEF TerminalAttemptStates, AttemptStateOf, TerminalRunStatuses

\* A run that is open was open.
LEMMA OpenBefore ==
  ASSUME TypeInv, HandlerInv, Rows, [Next]_vars, ~IsTerminal' PROVE ~IsTerminal
BY ClosingStep DEF Closes, Keeps, IsTerminal

\* A step that gives one attempt with a row a state that is final.
LEMMA EndsAttempt ==
  ASSUME TypeInv, EndedPart, NEW s \in Seqs, NEW state \in TerminalAttemptStates,
         SetAttemptState(s, state), UNCHANGED <<records, active>>, dropped \subseteq dropped',
         IsTerminal' \/ (\E h \in Handlers : Retries(h))'
  PROVE  EndedPart' /\ StaysEnded
<1>1. \A t \in Seqs : attemptState'[t] = IF t = s /\ records[s] > 0 THEN state ELSE attemptState[t]
  BY DEF SetAttemptState, TypeInv, TypeOK
<1>2. \A t \in Seqs : records[t] = 0 => ~(records[t] > 0)
  OBVIOUS
<1>3. StaysEnded
  BY <1>1 DEF StaysEnded
<1>4. EndedPart'
  BY <1>1, <1>2 DEF EndedPart
<1>. QED
  BY <1>3, <1>4

\* A step that sets no attempt state and interrupts no retry.
LEMMA EndedFrame ==
  ASSUME EndedPart, UNCHANGED <<records, active, attemptState>>, dropped \subseteq dropped',
         ~IsTerminal' => ~IsTerminal,
         IsTerminal' \/ \A h \in Handlers : Retries(h) => Retries(h)'
  PROVE  EndedPart' /\ StaysEnded
BY DEF EndedPart, StaysEnded

\* A step of the active attempt's worker, which no retry is under way for: the attempt
\* has not ended, or was dropped.
LEMMA AtWorkStep ==
  ASSUME TypeInv, EndedPart, AllIdle, NEW s \in Seqs, CallbackAccepted(s),
         NEW state, state \notin TerminalAttemptStates,
         attemptState' = [attemptState EXCEPT ![s] = state],
         UNCHANGED <<records, active, dropped>>
  PROVE  EndedPart' /\ StaysEnded
<1>1. attemptState[s] \notin TerminalAttemptStates \/ s \in dropped
  BY DEF EndedPart, CallbackAccepted, AllIdle, Retries, Idle
<1>2. \A t \in Seqs : attemptState'[t] = IF t = s THEN state ELSE attemptState[t]
  BY DEF TypeInv, TypeOK
<1>3. records[s] # 0 /\ active = s
  BY DEF CallbackAccepted
<1>. QED
  BY <1>1, <1>2, <1>3 DEF EndedPart, StaysEnded

\* no resumed handler gives an ended attempt another state
LEMMA EndedResume ==
  ASSUME HandlersAtomic, TypeInv, AtomicInv, EndedPart, NEW h \in Handlers, Resume(h),
         ~IsTerminal' => ~IsTerminal
  PROVE  EndedPart' /\ StaysEnded
<1>0. /\ handler[h] \in Continuations /\ handler[h].seq \in Seqs /\ StillTrue(handler[h])
      /\ Carried(handler[h])
  BY DEF TypeInv, TypeOK, HandlersCarry, Continuations, AtomicInv, HandlerInv, HandlersStill
<1>. dropped \subseteq dropped'
  BY ResumeFrame
<1>1. CASE BootstrapEnqueued(h) \/ RetryEnqueued(h)
  <2>. DEFINE n == EnqueueTarget(h)
  <2>1. /\ n \in Seqs /\ active' = n /\ n = active + 1
        /\ records' = [records EXCEPT ![n] = @ + 1]
    BY <1>0, <1>1, TargetInBudget, SeqsFacts DEF BootstrapEnqueued, RetryEnqueued, CreateAttempt,
       Enqueues, EnqueueTarget, StillTrue
  <2>2. PICK state \in {"enqueued", "retry_waiting"} : CreateAttempt(n, state)
    BY <1>1 DEF BootstrapEnqueued, RetryEnqueued, EnqueueTarget
  <2>3. active \in Nat /\ \A s \in Seqs : s \in Nat /\ records[s] \in Nat
    BY SeqsFacts DEF TypeInv, TypeOK
  <2>. HIDE DEF n
  <2>4. records[n] = 0 /\ attemptState[n] = "absent"
    BY <2>1, <2>3 DEF AtomicInv, Rows, EndedPart
  <2>5. \A s \in Seqs : /\ attemptState'[s] = IF s = n THEN state ELSE attemptState[s]
                        /\ records'[s] = IF s = n THEN 1 ELSE records[s]
    BY <2>1, <2>2, <2>4 DEF CreateAttempt, TypeInv, TypeOK
  <2>6. state \notin TerminalAttemptStates
    BY EndStates
  <2>. QED
    BY <2>1, <2>4, <2>5, <2>6, EndStates DEF EndedPart, StaysEnded
<1>2. CASE CancelCloses(h)
  BY <1>0, <1>2, EndStates, EventFacts, EndsAttempt DEF CancelCloses, IsTerminal
<1>3. CASE FinalizeBinds(h)
  <2>1. handler[h].note \in TerminalRunStatuses
    BY <1>0, <1>3 DEF FinalizeBinds, Carried
  <2>. QED
    BY <1>0, <1>3, <2>1, EndStates, EndsAttempt DEF FinalizeBinds, IsTerminal
<1>4. CASE EnqueueFailed(h)
  <2>1. UNCHANGED <<records, active, attemptState>> /\ IsTerminal'
    BY <1>4, EventFacts DEF EnqueueFailed, IsTerminal, attemptVars
  <2>. QED
    BY <2>1, EndedFrame
<1>5. CASE RetryEnqueues(h)
  <2>1. UNCHANGED <<records, active, attemptState>> /\ Retries(h)'
        /\ \A g \in Handlers : g # h => handler'[g] = handler[g]
    BY <1>5 DEF RetryEnqueues, Retries, runVars, attemptVars, TypeInv, TypeOK
  <2>. QED
    BY <2>1, EndedFrame DEF Retries
<1>6. CASE CancelLeavesJob(h) \/ FinalizeAbandoned(h)
  <2>1. UNCHANGED <<records, active, attemptState>> /\ ~Retries(h)
        /\ handler' = [handler EXCEPT ![h] = Idle]
    BY <1>6 DEF CancelLeavesJob, FinalizeAbandoned, Retries, Finish, runVars, attemptVars
  <2>2. \A g \in Handlers : g # h => handler'[g] = handler[g]
    BY <2>1 DEF TypeInv, TypeOK
  <2>. QED
    BY <2>1, <2>2, EndedFrame DEF Retries
<1>7. CASE RetryAbandoned(h)
  <2>1. UNCHANGED <<records, active, attemptState>> /\ active = handler[h].seq
        /\ active \in dropped'
    BY <1>0, <1>7 DEF RetryAbandoned, Drop, StillTrue, runVars, attemptVars
  <2>. QED
    BY <2>1 DEF EndedPart, StaysEnded
<1>. QED
  BY <1>1, <1>2, <1>3, <1>4, <1>5, <1>6, <1>7 DEF Resume

\* a suspended retry stays suspended while an idle handler is taken
LEMMA RetriesKept ==
  ASSUME TypeInv,
         UNCHANGED handler \/ \E h \in Handlers : /\ handler[h] = Idle
                                                  /\ \E c : handler' = [handler EXCEPT ![h] = c]
  PROVE  \A g \in Handlers : Retries(g) => Retries(g)'
<1>1. CASE UNCHANGED handler
  BY <1>1 DEF Retries
<1>2. ASSUME NEW h \in Handlers, handler[h] = Idle, NEW c, handler' = [handler EXCEPT ![h] = c]
      PROVE  \A g \in Handlers : Retries(g) => Retries(g)'
  <2>1. ~Retries(h) /\ \A g \in Handlers : g # h => handler'[g] = handler[g]
    BY <1>2 DEF Retries, Idle, TypeInv, TypeOK
  <2>. QED
    BY <2>1 DEF Retries
<1>. QED
  BY <1>1, <1>2

\* nor does the watchdog
LEMMA EndedWatchdog ==
  ASSUME TypeInv, AtomicInv, EndedPart, NEW s \in Seqs, Watchdog(s), ~IsTerminal' => ~IsTerminal
  PROVE  EndedPart' /\ StaysEnded
<1>1. UNCHANGED <<records, active, dropped>>
  BY WatchdogFrame
<1>2. CASE RetryRefused(s)
  BY <1>1, <1>2, EndStates, EventFacts, EndsAttempt DEF RetryRefused, IsTerminal
<1>3. CASE \E h \in Handlers : RetryStarts(h, s)
  <2>1. PICK h \in Handlers : RetryStarts(h, s)
    BY <1>3
  <2>2. Retries(h)'
    BY <2>1 DEF RetryStarts, Suspend, Retries, TypeInv, TypeOK
  <2>. QED
    BY <1>1, <2>1, <2>2, EndStates, EndsAttempt DEF RetryStarts
<1>4. CASE HandleFinalizeGraceExpiry(s) /\ ~FinalizeGraceMoot(s)
  BY <1>1, <1>4, EndStates, EventFacts, EndsAttempt DEF HandleFinalizeGraceExpiry, IsTerminal
<1>5. CASE UNCHANGED attemptState /\ (UNCHANGED handler \/ ForceCancel(s))
  <2>1. \A g \in Handlers : Retries(g) => Retries(g)'
    BY <1>5, RetriesKept DEF ForceCancel, Suspend
  <2>. QED
    BY <1>1, <1>5, <2>1, EndedFrame
<1>. QED
  BY <1>2, <1>3, <1>4, <1>5 DEF Watchdog, HandlePickupTimeout, ObserveCompleted, ObserveFailure,
     HandleFinalizeGraceExpiry, RetryOrFail, ForceCancel, attemptVars

\* nor does a callback: heartbeats carry a state of work, and only of an active attempt
LEMMA EndedCallback ==
  ASSUME HandlersAtomic, BeatsAtWork, TypeInv, AtomicInv, EndedPart, NEW s \in Seqs, Callback(s),
         ~IsTerminal' => ~IsTerminal
  PROVE  EndedPart' /\ StaysEnded
<1>1. UNCHANGED <<records, active, dropped>> /\ AllIdle
  BY CallbackFrame, LoopFreeIdle DEF Callback, AcceptHeartbeat, AppendPhase, AppendLog,
     AppendMutation, FinalizeRepeats, FinalizeCloses, FinalizeMaterializes
<1>2. ASSUME NEW beat \in Beats, AcceptHeartbeat(s, beat) PROVE EndedPart' /\ StaysEnded
  BY <1>1, <1>2, AtWorkStep DEF AcceptHeartbeat, BeatsAtWork
<1>3. CASE AppendMutation(s)
  BY <1>1, <1>3, EndStates, AtWorkStep DEF AppendMutation
<1>4. ASSUME NEW outcome \in Outcomes, FinalizeCloses(s, outcome) PROVE EndedPart' /\ StaysEnded
  BY <1>1, <1>4, OutcomesAssumption, EndStates, EndsAttempt DEF FinalizeCloses, IsTerminal
<1>5. CASE UNCHANGED attemptState
  <2>1. UNCHANGED handler \/ \E h \in Handlers : /\ handler[h] = Idle
                                                 /\ \E c : handler' = [handler EXCEPT ![h] = c]
    BY DEF Callback, AcceptHeartbeat, AppendPhase, AppendLog, AppendMutation,
       FinalizeRepeats, FinalizeCloses, FinalizeMaterializes, Suspend
  <2>. QED
    BY <1>1, <1>5, <2>1, RetriesKept, EndedFrame
<1>. QED
  BY <1>2, <1>3, <1>4, <1>5 DEF Callback, AppendPhase, AppendLog, FinalizeRepeats,
     FinalizeMaterializes, attemptVars

\* no step gives an ended attempt another state
LEMMA EndedStep ==
  ASSUME HandlersAtomic, BeatsAtWork, TypeInv, AtomicInv, EndedPart, [Next]_vars
  PROVE  EndedPart' /\ StaysEnded
<1>0. ~IsTerminal' => ~IsTerminal
  BY OpenBefore DEF AtomicInv
<1>1. CASE Client
  <2>1. UNCHANGED handler \/ \E h \in Handlers : /\ handler[h] = Idle
                                                 /\ \E c : handler' = [handler EXCEPT ![h] = c]
    BY <1>1 DEF Client, StartRun, CancelRemoves, CancelFences, AcceptMutationAck, Suspend
  <2>. QED
    BY <1>0, <1>1, <2>1, ClientFrame, RetriesKept, EndedFrame DEF attemptVars
<1>2. ASSUME NEW h \in Handlers, AddLands(h) PROVE EndedPart' /\ StaysEnded
  <2>1. \A g \in Handlers : handler'[g].kind = handler[g].kind
    BY <1>2 DEF AddLands, TypeInv, TypeOK, Continuations
  <2>. QED
    BY <1>0, <1>2, <2>1, AddLandsFrame, EndedFrame DEF runVars, attemptVars, Retries
<1>3. ASSUME NEW s \in Seqs, Transport(s) PROVE EndedPart' /\ StaysEnded
  BY <1>0, <1>3, TransportFrame, EndedFrame DEF runVars, attemptVars, Retries
<1>4. CASE UNCHANGED vars
  BY <1>0, <1>4, EndedFrame DEF vars, runVars, attemptVars, Retries
<1>. QED
  BY <1>0, <1>1, <1>2, <1>3, <1>4, EndedResume, EndedWatchdog, EndedCallback, NextCases

\* With handlers that are never interrupted, an attempt the watchdog gave up is not
\* shown at work again by a late heartbeat: the heartbeat meets a closed run or a
\* later attempt, unless the remove threw that the retry begins with.
THEOREM AtomicEndedStaysEnded ==
  ASSUME HandlersAtomic, BeatsAtWork PROVE Spec => EndedAttemptStaysEnded
<1>1. Init => EndedPart
  BY EndStates DEF Init, EndedPart
<1>2. TypeInv /\ AtomicInv /\ EndedPart /\ [Next]_vars => EndedPart' /\ [StaysEnded]_attemptState
  BY EndedStep
<1>. QED
  BY <1>1, <1>2, AtomicAlways, PTL DEF Spec, EndedAttemptStaysEnded, StaysEnded

-------------------------------------------------------------------------------
(* The abstract specification: with handlers that are never interrupted, every
   behaviour of RunLifecycle is, as its client sees it, a behaviour of RunContract. *)

\* What a client can see, state by state.
LEMMA PhaseFacts ==
  /\ status = "absent" => PhaseOfRun = "none"
  /\ status = "cancel_requested" => PhaseOfRun = "fenced"
  /\ IsTerminal => PhaseOfRun = status
  /\ Open /\ status # "cancel_requested" => PhaseOfRun = "open"
BY DEF PhaseOfRun, IsTerminal, Open, TerminalRunStatuses

\* the phase a client sees, by the status after a step
LEMMA PhaseFactsNext ==
  /\ status' = "absent" => PhaseOfRun' = "none"
  /\ status' = "cancel_requested" => PhaseOfRun' = "fenced"
  /\ IsTerminal' => PhaseOfRun' = status'
  /\ Open' /\ status' # "cancel_requested" => PhaseOfRun' = "open"
BY DEF PhaseOfRun, IsTerminal, Open, TerminalRunStatuses

-------------------------------------------------------------------------------
(* Before the first attempt there is nothing to see *)

NothingYet == active = 0 => ledger = <<>> /\ lastAcked = 0

\* Attempts are activated in order, one after the other.
LEMMA ActiveMoves ==
  ASSUME TypeInv, HandlerInv, NEW h \in Handlers, BootstrapEnqueued(h) \/ RetryEnqueued(h)
  PROVE  /\ active' = active + 1 /\ active + 1 <= MaxQueueAttempts
         /\ Open /\ status # "cancel_requested" /\ status' = "planning_queued"
         /\ RetryEnqueued(h) => lastAcked = 0
         /\ BootstrapEnqueued(h) => active = 0
<1>1. StillTrue(handler[h])
  BY DEF HandlerInv, HandlersStill
<1>2. EnqueueTarget(h) \in Seqs /\ InBudget(EnqueueTarget(h))
  BY TargetInBudget DEF BootstrapEnqueued, RetryEnqueued, Enqueues
<1>3. CASE BootstrapEnqueued(h)
  BY <1>1, <1>2, <1>3 DEF BootstrapEnqueued, RetryEnqueued, StillTrue, EnqueueTarget,
     InBudget, Open, TerminalRunStatuses
<1>4. CASE RetryEnqueued(h)
  BY <1>1, <1>2, <1>4 DEF BootstrapEnqueued, RetryEnqueued, StillTrue, EnqueueTarget, InBudget
<1>. QED
  BY <1>3, <1>4

\* Every other step leaves the active attempt alone.
LEMMA ActiveStays ==
  ASSUME [Next]_vars, ~\E h \in Handlers : BootstrapEnqueued(h) \/ RetryEnqueued(h)
  PROVE  active' = active
<1>1. ASSUME NEW h \in Handlers, Resume(h) PROVE active' = active
  BY <1>1 DEF Resume, EnqueueFailed, CancelCloses, CancelLeavesJob, RetryEnqueues,
     RetryAbandoned, FinalizeBinds, FinalizeAbandoned, runVars
<1>. QED
  BY <1>1, ClientFrame, AddLandsFrame, WatchdogFrame, CallbackFrame, TransportFrame, NextCases
     DEF runVars, vars

\* Only an acknowledgement of a row of the ledger changes lastAckedSeq, and only
\* upwards.
LEMMA SeenMoves ==
  ASSUME TypeInv, [Next]_vars, lastAcked' # lastAcked
  PROVE  /\ ledger # <<>> /\ lastAcked' > lastAcked
         /\ UNCHANGED <<status, active, terminalEvents>>
<1>1. PICK m \in 1 .. MaxMutations, verdict \in {"acked", "rejected"} :
        AcceptMutationAck(m, verdict)
  BY ResumeFrame, AddLandsFrame, WatchdogFrame, CallbackFrame, TransportFrame, NextCases
     DEF Client, StartRun, CancelRemoves, CancelFences, vars, runVars
<1>2. lastAcked \in Nat /\ m \in Nat
  BY DEF TypeInv, TypeOK
<1>3. lastAcked' > lastAcked
  BY <1>1, <1>2 DEF AcceptMutationAck, SetLastAckedSeq
<1>. QED
  BY <1>1, <1>3 DEF AcceptMutationAck

\* before the run is started there is nothing to see
LEMMA NothingYetStep == TypeInv /\ HandlerInv /\ NothingYet /\ [Next]_vars => NothingYet'
<1>. SUFFICES ASSUME TypeInv, HandlerInv, NothingYet, [Next]_vars, active' = 0
              PROVE  ledger' = <<>> /\ lastAcked' = 0
  BY DEF NothingYet
<1>1. active = 0
  <2>1. active \in Nat
    BY DEF TypeInv, TypeOK
  <2>. QED
    BY <2>1, ActiveMoves, ActiveStays
<1>2. ledger = <<>> /\ lastAcked = 0
  BY <1>1 DEF NothingYet
<1>3. lastAcked' = 0
  BY <1>2, SeenMoves
<1>4. ledger' = ledger
  <2>1. ASSUME NEW s \in Seqs, Callback(s) PROVE ledger' = ledger
    BY <1>1, <2>1, SeqsFacts DEF Callback, AcceptHeartbeat, AppendPhase, AppendLog,
       AppendMutation, FinalizeRepeats, FinalizeCloses, FinalizeMaterializes,
       CallbackAccepted, Seqs
  <2>2. CASE Client
    BY <1>2, <2>2 DEF Client, StartRun, CancelRemoves, CancelFences, AcceptMutationAck
  <2>. QED
    BY <2>1, <2>2, ResumeFrame, AddLandsFrame, WatchdogFrame, TransportFrame, NextCases
       DEF vars
<1>. QED
  BY <1>2, <1>3, <1>4

-------------------------------------------------------------------------------
(* Every step is one of the contract's, or nothing a client can see *)

\* every step of the runtime is a step of the contract, or none
LEMMA ContractStep ==
  ASSUME TypeInv, AtomicInv, NothingYet, [Next]_vars
  PROVE  [Contract!Next]_(Contract!vars)
<1>. USE PhaseFacts, PhaseFactsNext
<1>1. HandlerInv /\ Rows /\ Fenced
  BY DEF AtomicInv
<1>2. CASE \E h \in Handlers : BootstrapEnqueued(h) \/ RetryEnqueued(h)
  <2>1. PICK h \in Handlers : BootstrapEnqueued(h) \/ RetryEnqueued(h)
    BY <1>2
  <2>2. /\ active' = active + 1 /\ active + 1 <= MaxQueueAttempts /\ active \in Nat
        /\ PhaseOfRun = "open" /\ PhaseOfRun' = "open" /\ lastAcked = 0
    BY <1>1, <2>1, ActiveMoves DEF NothingYet, TypeInv, TypeOK, Open, TerminalRunStatuses
  <2>3. lastAcked' = 0 /\ terminalEvents' = terminalEvents
    BY <2>1, <2>2 DEF BootstrapEnqueued, RetryEnqueued
  <2>4. Contract!Execute
    BY <2>2, <2>3, MaxAttemptsAssumption DEF Contract!Execute
  <2>. QED
    BY <2>4 DEF Contract!Next
<1>3. CASE Closes
  <2>1. PhaseOfRun \in {"open", "fenced"} /\ PhaseOfRun' = status'
    BY <1>3 DEF Closes, Open, IsTerminal
  <2>2. Contract!Close(status')
    BY <1>3, <2>1 DEF Closes, Announce, Contract!Close, TerminalEventOf, Contract!TerminalEventOf
  <2>. QED
    BY <1>3, <2>2 DEF Closes, Contract!Next, TerminalRunStatuses, Contract!TerminalRunStatuses
<1>4. CASE lastAcked' # lastAcked
  <2>1. /\ ledger # <<>> /\ lastAcked' > lastAcked /\ lastAcked \in Nat /\ active \in Nat
        /\ UNCHANGED <<status, active, terminalEvents>>
    BY <1>4, SeenMoves DEF TypeInv, TypeOK
  <2>2. active > 0 /\ status # "absent"
    BY <1>1, <2>1 DEF NothingYet, HandlerInv, Unstarted
  <2>3. PhaseOfRun' = PhaseOfRun /\ PhaseOfRun # "none"
    BY <2>1, <2>2 DEF PhaseOfRun, IsTerminal, TerminalRunStatuses
  <2>4. Contract!Show
    BY <2>1, <2>2, <2>3 DEF Contract!Show
  <2>. QED
    BY <2>4 DEF Contract!Next
<1>5. CASE /\ Keeps /\ active' = active /\ lastAcked' = lastAcked
           /\ status' # status /\ Client
  <2>1. CASE \E h \in Handlers : StartRun(h)
    <3>1. PhaseOfRun = "none" /\ PhaseOfRun' = "open"
      BY <2>1 DEF StartRun, Open, TerminalRunStatuses
    <3>2. Contract!Accept
      BY <1>5, <3>1 DEF Keeps, Contract!Accept
    <3>. QED
      BY <3>2 DEF Contract!Next
  <2>2. CASE CancelFences \/ \E h \in Handlers : CancelRemoves(h)
    <3>1. PhaseOfRun = "open" /\ PhaseOfRun' = "fenced"
      BY <1>5, <2>2 DEF CancelFences, CancelRemoves, Open
    <3>2. Contract!Fence
      BY <1>5, <3>1 DEF Keeps, Contract!Fence
    <3>. QED
      BY <3>2 DEF Contract!Next
  <2>. QED
    BY <1>5, <2>1, <2>2 DEF Client, AcceptMutationAck
<1>6. CASE /\ Keeps /\ active' = active /\ lastAcked' = lastAcked
           /\ status' = status \/ Progresses
  <2>1. PhaseOfRun' = PhaseOfRun
    <3>1. CASE status' = status
      BY <3>1 DEF PhaseOfRun, IsTerminal, TerminalRunStatuses
    <3>2. CASE Progresses
      BY <1>6, <3>2 DEF Progresses, Keeps, Open, IsTerminal
    <3>. QED
      BY <1>6, <3>1, <3>2
  <2>. QED
    BY <1>6, <2>1 DEF Keeps, Contract!vars
<1>7. Closes \/ Keeps
  BY <1>1, ClosingStep
<1>8. ~Client => status' = status \/ Closes \/ Progresses
  BY <1>1, StatusMoves
<1>. QED
  BY <1>2, <1>3, <1>4, <1>5, <1>6, <1>7, <1>8, ActiveStays

\* What a client of the API can see of a run is a behaviour of the contract: the
\* queue, the timers, the signals and the callbacks add nothing to it.
THEOREM AtomicImplementsContract == ASSUME HandlersAtomic PROVE Spec => ImplementsContract
<1>1. Init => NothingYet
  BY DEF Init, NothingYet
<1>2. (TypeInv /\ AtomicInv) /\ NothingYet /\ [Next]_vars => NothingYet'
  BY NothingYetStep DEF AtomicInv
<1>3. Init => Contract!Init
  BY PhaseFacts DEF Init, Contract!Init
<1>4. (TypeInv /\ AtomicInv) /\ NothingYet /\ [Next]_vars => [Contract!Next]_(Contract!vars)
  BY ContractStep
<1>. QED
  BY <1>1, <1>2, <1>3, <1>4, AtomicAlways, PTL DEF Spec, ImplementsContract, Contract!Spec
===============================================================================
