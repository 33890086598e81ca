---------------------------- MODULE RunAdmission ----------------------------
(***************************************************************************)
(* startRun over several requests: which of them get a run of their own,   *)
(* which are answered with a run that is already there, and what is in     *)
(* the object store, the repositories, the queue and the event log at      *)
(* every point where a handler awaits.  RunLifecycle is one of these runs  *)
(* in detail; here a run is only pending, open or closed.                  *)
(*                                                                         *)
(* A request's requestId and runId are drawn as it arrives: both are its   *)
(* number here.  The grain of atomicity is RunLifecycle's.                 *)
(***************************************************************************)
EXTENDS Naturals, Sequences, RunDomain

CONSTANTS
  Keys,           \* dedupe keys: session, scenario, document, page, client id
  Pages,
  PageOf,         \* the page a key is about
  MaxRequests,    \* bound: requests the clients send, repeated ones included
  Endings,        \* the terminal statuses runs are closed with
  StoreOpsYield,  \* TRUE: the filesystem object store, FALSE: in memory
  QueueOpsYield   \* TRUE: the BullMQ producer, FALSE: the in-memory one; with
                  \* either TRUE other handlers come in at its awaits

ASSUME PagesAssumption == PageOf \in [Keys -> Pages]
ASSUME RequestsAssumption == MaxRequests \in Nat
ASSUME EndingsAssumption == Endings \subseteq TerminalRunStatuses
ASSUME AdmissionYieldAssumption ==
  StoreOpsYield \in BOOLEAN /\ QueueOpsYield \in BOOLEAN

Requests == 1 .. MaxRequests

VARIABLES
  key,      \* the keys of the requests received so far, by number
  call,     \* where the handler of each request is suspended
  answer,   \* the run it answered with, 0 while it has not
  objects,  \* objects written: <<"request" or "snapshot", number>>
  rows,     \* numbers of the request rows, in the order the Map keeps them
  status,   \* status of each run row
  watched,  \* runs whose first attempt row and pickup timer were made
  log,      \* per run, the admission and terminal events it has published
  jobs,     \* runs whose first job reached the queue
  late      \* adds still in flight after their enqueue timed out

vars == <<key, call, answer, objects, rows, status, watched, log, jobs, late>>

Calls == {"none", "request_object", "snapshot_object", "enqueue", "landed",
          "done", "refused"}

TypeOK ==
  /\ key \in Seq(Keys) /\ Len(key) <= MaxRequests
  /\ call \in [Requests -> Calls]
  /\ answer \in [Requests -> {0} \cup Requests]
  /\ objects \subseteq {"request", "snapshot"} \X Requests
  /\ rows \in Seq(Requests)
  /\ status \in [Requests -> RunStatuses \cup {"absent"}]
  /\ watched \subseteq Requests
  /\ log \in [Requests -> SUBSET ({"run.accepted"} \cup TerminalEvents)]
  /\ jobs \subseteq Requests
  /\ late \subseteq Requests

Init ==
  /\ key = <<>>
  /\ call = [r \in Requests |-> "none"]
  /\ answer = [r \in Requests |-> 0]
  /\ objects = {}
  /\ rows = <<>>
  /\ status = [r \in Requests |-> "absent"]
  /\ watched = {}
  /\ log = [r \in Requests |-> {}]
  /\ jobs = {} /\ late = {}

-------------------------------------------------------------------------------
Yields(stage) ==
  IF stage \in {"request_object", "snapshot_object"} THEN StoreOpsYield
                                                     ELSE QueueOpsYield

LoopFree ==
  \A r \in Requests : call[r] \in {"none", "done", "refused"} \/ Yields(call[r])

Goes(r, stage) == call' = [call EXCEPT ![r] = stage]
Answers(r, what) == answer' = [answer EXCEPT ![r] = what]

IsOpen(r) == status[r] \notin TerminalRunStatuses \cup {"absent"}

\* A request arrives, for the first time or again: its client heard no answer, or
\* did not wait for one.  The write of its request object is on its way.
Post(k) ==
  /\ LoopFree
  /\ Len(key) < MaxRequests
  /\ key' = Append(key, k)
  /\ Goes(Len(key) + 1, "request_object")
  /\ UNCHANGED <<answer, objects, rows, status, watched, log, jobs, late>>

RequestWritten(r) ==
  /\ call[r] = "request_object"
  /\ objects' = objects \cup {<<"request", r>>}
  /\ Goes(r, "snapshot_object")
  /\ UNCHANGED <<key, answer, rows, status, watched, log, jobs, late>>

\* runRequestRepository.findByDedupeKey: the first row with the key, 0 if none.
WithKey(k) == {i \in 1 .. Len(rows) : key[rows[i]] = k}

FindByDedupeKey(k) ==
  IF WithKey(k) = {} THEN 0
  ELSE rows[CHOOSE i \in WithKey(k) : \A j \in WithKey(k) : i <= j]

\* Seeded fault: only a run that reached the queue counts as one to reuse.
ReusableOnceQueued(k) ==
  LET found == FindByDedupeKey(k) IN
  found # 0 /\ IsOpen(found) /\ status[found] # "enqueue_pending"

Reusable(k) == FindByDedupeKey(k) # 0 /\ IsOpen(FindByDedupeKey(k))

\* Both objects are there: the lookup, and the answer if it finds an open run.
ReuseRun(r) ==
  /\ call[r] = "snapshot_object"
  /\ objects' = objects \cup {<<"snapshot", r>>}
  /\ Reusable(key[r])
  /\ Answers(r, FindByDedupeKey(key[r]))
  /\ Goes(r, "done")
  /\ UNCHANGED <<key, rows, status, watched, log, jobs, late>>

\* Otherwise the request and run rows are created and the job is sent.  Nothing
\* is awaited between the lookup and the rows.
CreateRun(r) ==
  /\ call[r] = "snapshot_object"
  /\ objects' = objects \cup {<<"snapshot", r>>}
  /\ ~Reusable(key[r])
  /\ rows' = Append(rows, r)
  /\ status' = [status EXCEPT ![r] = "enqueue_pending"]
  /\ Goes(r, "enqueue")
  /\ UNCHANGED <<key, answer, watched, log, jobs, late>>

\* A put failed: the handler throws before the lookup, and leaves what it wrote.
\* As a seeded fault, a failed snapshot is passed over.
PassOverWrite(r) ==
  \/ /\ call[r] = "request_object"
     /\ Goes(r, "refused")
     /\ UNCHANGED <<key, answer, objects, rows, status, watched, log, jobs, late>>
  \/ /\ call[r] = "snapshot_object" /\ ~Reusable(key[r])
     /\ rows' = Append(rows, r)
     /\ status' = [status EXCEPT ![r] = "enqueue_pending"]
     /\ Goes(r, "enqueue")
     /\ UNCHANGED <<key, answer, objects, watched, log, jobs, late>>

WriteFails(r) ==
  /\ StoreOpsYield
  /\ call[r] \in {"request_object", "snapshot_object"}
  /\ Goes(r, "refused")
  /\ UNCHANGED <<key, answer, objects, rows, status, watched, log, jobs, late>>

\* The queue takes the job, in time or after the enqueue was given up.
AddLands(r) ==
  /\ call[r] = "enqueue"
  /\ jobs' = jobs \cup {r}
  /\ Goes(r, "landed")
  /\ UNCHANGED <<key, answer, objects, rows, status, watched, log, late>>

LateAddLands(r) ==
  /\ r \in late
  /\ jobs' = jobs \cup {r}
  /\ late' = late \ {r}
  /\ UNCHANGED <<key, call, answer, objects, rows, status, watched, log>>

\* The rest of startRun, once the queue answered.  Seeded fault: the timer is
\* forgotten.
EnqueuedUnwatched(r) ==
  /\ call[r] = "landed"
  /\ status' = [status EXCEPT ![r] = "planning_queued"]
  /\ log' = [log EXCEPT ![r] = @ \cup {"run.accepted"}]
  /\ Answers(r, r) /\ Goes(r, "done")
  /\ UNCHANGED <<key, objects, rows, watched, jobs, late>>

Enqueued(r) ==
  /\ call[r] = "landed"
  /\ watched' = watched \cup {r}
  /\ status' = [status EXCEPT ![r] = "planning_queued"]
  /\ log' = [log EXCEPT ![r] = @ \cup {"run.accepted"}]
  /\ Answers(r, r)
  /\ Goes(r, "done")
  /\ UNCHANGED <<key, objects, rows, jobs, late>>

\* The add was rejected, or ENQUEUE_TIMEOUT_MS passed: the run is failed, and the
\* handler throws.  Seeded faults: the event log is not told, and an add that is not
\* answered is waited for.
WaitForTheQueue(r) ==
  /\ call[r] = "landed" /\ QueueOpsYield
  /\ status' = [status EXCEPT ![r] = "failed"]
  /\ log' = [log EXCEPT ![r] = @ \cup {"run.failed"}]
  /\ Goes(r, "refused")
  /\ UNCHANGED <<key, answer, objects, rows, watched, jobs, late>>
EnqueueFailsSilently(r) ==
  /\ call[r] \in {"enqueue", "landed"}
  /\ status' = [status EXCEPT ![r] = "failed"]
  /\ Goes(r, "refused")
  /\ UNCHANGED <<key, answer, objects, rows, watched, log, jobs, late>>

EnqueueFails(r) ==
  /\ \/ call[r] = "enqueue" /\ UNCHANGED late
     \/ call[r] = "enqueue" /\ QueueOpsYield /\ late' = late \cup {r}
     \/ call[r] = "landed" /\ QueueOpsYield /\ UNCHANGED late
  /\ status' = [status EXCEPT ![r] = "failed"]
  /\ log' = [log EXCEPT ![r] = @ \cup {"run.failed"}]
  /\ Goes(r, "refused")
  /\ UNCHANGED <<key, answer, objects, rows, watched, jobs>>

\* What RunLifecycle is about: a run that was watched is closed one day, and says so
\* on its log.  Where handlers are interrupted, one of them may close what another
\* has closed, and a retry that resumes may open it again.
Interrupted == StoreOpsYield \/ QueueOpsYield

RunCloses(r, final) ==
  /\ LoopFree
  /\ r \in watched
  /\ IsOpen(r) \/ Interrupted
  /\ status' = [status EXCEPT ![r] = final]
  /\ log' = [log EXCEPT ![r] = @ \cup {TerminalEventOf(final)}]
  /\ UNCHANGED <<key, call, answer, objects, rows, watched, jobs, late>>

RunReopens(r) ==
  /\ LoopFree /\ QueueOpsYield
  /\ r \in watched /\ ~IsOpen(r)
  /\ status' = [status EXCEPT ![r] = "planning_queued"]
  /\ UNCHANGED <<key, call, answer, objects, rows, watched, log, jobs, late>>

Resume(r) ==
  \/ RequestWritten(r) \/ ReuseRun(r) \/ CreateRun(r) \/ WriteFails(r)
  \/ Enqueued(r) \/ EnqueueFails(r)

Next ==
  \/ \E k \in Keys : Post(k)
  \/ \E r \in Requests :
       \/ Resume(r) \/ AddLands(r) \/ LateAddLands(r) \/ RunReopens(r)
       \/ \E final \in Endings : RunCloses(r, final)

Spec == Init /\ [][Next]_vars

\* The file system answers, and the queue or else its timeout; nothing is assumed
\* of clients, of the queue's own answer, or of the runs' ends.
Fairness == \A r \in Requests : WF_vars(Resume(r))

FairSpec == Spec /\ Fairness

-------------------------------------------------------------------------------
(* What admission promises *)

\* A job is never ahead of what its worker will read: the request and snapshot
\* objects it refers to, and its run row, exist (startRun writes them first, and
\* gives up when it cannot).
JobsAreReadable ==
  \A r \in jobs \cup late :
    /\ {<<"request", r>>, <<"snapshot", r>>} \subseteq objects
    /\ status[r] # "absent"

\* A client that was answered with a run can follow it: the run is one of its own
\* key, and is being enqueued or has said on its log how that went.  A repeated
\* request may be answered before the run it is answered with is in the queue.
AnsweredRunIsFollowed ==
  \A r \in Requests : answer[r] # 0 =>
    /\ key[answer[r]] = key[r]
    /\ status[answer[r]] = "enqueue_pending" \/ log[answer[r]] # {}

\* However requests with one key overlap, its first run has the key to itself until
\* it says on its log that it has ended: a later one was created only after that.  (A
\* retry may open the first again, and the two then run side by side.)
FirstRunFirst ==
  \A i, j \in 1 .. Len(rows) :
    key[rows[i]] = key[rows[j]] /\ i < j
      => \E first \in 1 .. i : /\ key[rows[first]] = key[rows[i]]
                               /\ log[rows[first]] \cap TerminalEvents # {}

\* An open run past its enqueue always was given its attempt row, its timer and its
\* job: no admission that failed half way leaves an open run nobody ever watched.
OpenRunIsWatched ==
  \A r \in Requests : IsOpen(r) =>
    call[r] \in {"enqueue", "landed"} \/ (r \in watched /\ r \in jobs)

(* What the documents say and the code does not keep (README, section 5) *)

\* Two requests with one key never run side by side: the dedupe lookup answers the
\* second with the run of the first.
OneOpenRunPerKey ==
  \A r, s \in Requests : IsOpen(r) /\ IsOpen(s) /\ key[r] = key[s] => r = s

\* A page has at most one run at work on it (pageLockToken).
OneOpenRunPerPage ==
  \A r, s \in Requests : IsOpen(r) /\ IsOpen(s) /\ PageOf[key[r]] = PageOf[key[s]]
                           => r = s

\* Every request is answered, whatever the store and the queue do.
RequestIsAnswered ==
  \A r \in Requests : call[r] # "none" ~> call[r] \in {"done", "refused"}
===============================================================================
