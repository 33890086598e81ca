-------------------------- MODULE FinalizeDocuments --------------------------
(***************************************************************************)
(* What a finalize leaves of a run: the draft bundle and its checkpoint in *)
(* the object store, the bundle and completion rows, and the references of *)
(* the run row.  RunFinalizeService reads the ledger once, puts the        *)
(* objects, and only then writes the rows; meanwhile acknowledgements      *)
(* arrive, a retry starts, and the retry's own finalize may do the same    *)
(* under the same keys, which are made of the run's id alone.              *)
(*                                                                         *)
(* The stages of a worker are three here (WorkerGraph has them all): the   *)
(* layers, the rest of the required slots, and the save.  The object store *)
(* is the filesystem one; in memory a finalize is a single step of this.   *)
(***************************************************************************)
EXTENDS Naturals, Sequences, FiniteSets

CONSTANTS
  MaxAttempts   \* bound: attempts of the run, each with one worker

ASSUME AttemptsAssumption == MaxAttempts \in Nat \ {0}

Attempts == 1 .. MaxAttempts
Stages == <<"layers", "rest", "save">>

VARIABLES
  run,        \* of the run row: status, attemptSeq, and what a finalize binds
  decorated,  \* whether the stages emit the decoration, the last required slot
  ledger,     \* mutationLedgerRepository, by seq: attempt, stage, answer
  worker,     \* what the worker of each attempt is doing
  assigned,   \* its assignedSeqs
  last,       \* the status of its lastMutationAck
  handler,    \* where its finalize is suspended
  doc,        \* the documents that finalize has made
  checkpoint, bundleObject,   \* the objects under the run's two keys
  bundleRow, completionRow    \* the rows of the run

vars == <<run, decorated, ledger, worker, assigned, last, handler, doc, checkpoint,
          bundleObject, bundleRow, completionRow>>

Answers == {"none", "applied", "rejected", "saved", "saved_unversioned"}
Terminal == {"completed", "save_failed_after_apply", "failed", "cancelled"}

\* The bundle, checkpoint and completion record of a finalize, as one document:
\* the status the run takes, the one the record has, whether there is save evidence,
\* and the ledger as the bundle has it.
None == [attempt |-> 0, status |-> "failed", terminalStatus |-> "failed",
         evidence |-> FALSE, reconciled |-> 0, entries |-> <<>>]

IsDoc(d) ==
  d = None \/ /\ d.attempt \in Attempts /\ {d.status, d.terminalStatus} \subseteq Terminal
              /\ d.evidence \in BOOLEAN /\ d.reconciled \in {0} \cup DOMAIN ledger
              /\ DOMAIN d.entries \subseteq DOMAIN ledger
              /\ \A n \in DOMAIN d.entries : d.entries[n] \in Answers

Rows == [attempt : Attempts, stage : {"layers", "rest", "save"}, answer : Answers]

TypeOK ==
  /\ run \in [status : {"open", "cancel_requested"} \cup Terminal, attemptSeq : Attempts,
              bound : BOOLEAN, saved : BOOLEAN]
  /\ decorated \in BOOLEAN
  /\ ledger \in Seq(Rows)
  /\ worker \in [Attempts -> {"queued", "proposing", "waiting", "stopped", "ended", "gone"}]
  /\ assigned \in [Attempts -> SUBSET DOMAIN ledger]
  /\ last \in [Attempts -> {"none", "acked", "rejected", "timed_out", "cancelled"}]
  /\ handler \in [Attempts -> {"none", "checkpoint", "bundle", "bundle_there", "over"}]
  /\ DOMAIN doc = Attempts /\ \A s \in Attempts : IsDoc(doc[s])
  /\ IsDoc(checkpoint) /\ IsDoc(bundleObject) /\ IsDoc(bundleRow) /\ IsDoc(completionRow)

Init ==
  /\ run = [status |-> "open", attemptSeq |-> 1, bound |-> FALSE, saved |-> FALSE]
  /\ decorated \in BOOLEAN
  /\ ledger = <<>>
  /\ worker = [s \in Attempts |-> "queued"]
  /\ assigned = [s \in Attempts |-> {}]
  /\ last = [s \in Attempts |-> "none"]
  /\ handler = [s \in Attempts |-> "none"]
  /\ doc = [s \in Attempts |-> None]
  /\ checkpoint = None /\ bundleObject = None /\ bundleRow = None /\ completionRow = None

documents == <<doc, checkpoint, bundleObject, bundleRow, completionRow>>

Becomes(s, what) == worker' = [worker EXCEPT ![s] = what]
Waits(s, where) == handler' = [handler EXCEPT ![s] = where]

-------------------------------------------------------------------------------
(* The worker's stages, as far as its finalize tells of them *)

\* The guards every callback shares.  Seeded fault: the attempt is not compared.
ServedWhileOpen(s) == run.status \notin Terminal
Served(s) == run.status \notin Terminal /\ run.attemptSeq = s

NewestOf(s) == CHOOSE n \in assigned[s] : \A m \in assigned[s] : m <= n
OldestOf(s) == CHOOSE n \in assigned[s] : \A m \in assigned[s] : n <= m

Take(s) ==
  /\ worker[s] = "queued" /\ Served(s)
  /\ Becomes(s, "proposing")
  /\ UNCHANGED <<run, decorated, ledger, assigned, last, handler, documents>>

\* A stage is proposed.  If a cancel was requested the row is there, but the worker
\* does not count it as assigned, takes the stage for cancelled and stops.
Propose(s) ==
  /\ worker[s] = "proposing" /\ Served(s)
  /\ Cardinality(assigned[s]) < Len(Stages)
  /\ ledger' = Append(ledger, [attempt |-> s, answer |-> "none",
                               stage |-> Stages[Cardinality(assigned[s]) + 1]])
  /\ IF run.status = "cancel_requested"
       THEN /\ Becomes(s, "stopped")
            /\ last' = [last EXCEPT ![s] = "cancelled"]
            /\ UNCHANGED assigned
       ELSE /\ Becomes(s, "waiting")
            /\ assigned' = [assigned EXCEPT ![s] = @ \cup {Len(ledger) + 1}]
            /\ UNCHANGED last
  /\ UNCHANGED <<run, decorated, handler, documents>>

\* The long poll finds the answer; if the log of it, sent next, is answered with the
\* cancel, that takes the answer's place.  After the save, or a refusal, the stages
\* are over.
PollFinds(s) ==
  /\ worker[s] = "waiting" /\ Served(s)
  /\ LET row == ledger[NewestOf(s)]
         over == row.answer = "rejected" \/ row.stage = "save"
     IN /\ row.answer # "none"
        /\ last' = [last EXCEPT ![s] =
                      IF run.status = "cancel_requested" THEN "cancelled"
                      ELSE IF row.answer = "rejected" THEN "rejected" ELSE "acked"]
        /\ Becomes(s, IF run.status = "cancel_requested" THEN "stopped"
                      ELSE IF over THEN "ended" ELSE "proposing")
  /\ UNCHANGED <<run, decorated, ledger, assigned, handler, documents>>

\* It gives up, or the poll or its log is answered with the cancel.  Seeded fault:
\* silence is taken for an acknowledgement.
TakeSilenceForAck(s) ==
  /\ worker[s] = "waiting" /\ Served(s)
  /\ ledger[NewestOf(s)].answer = "none"
  /\ last' = [last EXCEPT ![s] = "acked"]
  /\ Becomes(s, "proposing")
  /\ UNCHANGED <<run, decorated, ledger, assigned, handler, documents>>

PollGivesUp(s) ==
  /\ worker[s] = "waiting" /\ Served(s)
  /\ ledger[NewestOf(s)].answer = "none"
  /\ last' = [last EXCEPT ![s] = IF run.status = "cancel_requested" THEN "cancelled"
                                                                  ELSE "timed_out"]
  /\ Becomes(s, "ended")
  /\ UNCHANGED <<run, decorated, ledger, assigned, handler, documents>>

\* The log that opens a stage carries the cancel, and the stage counts as cancelled;
\* or a callback between the stages and the save, or the heartbeat before the
\* finalize, which leave the last answer as it was.
StopSeen(s) ==
  /\ worker[s] \in {"proposing", "ended"} /\ Served(s) /\ run.status = "cancel_requested"
  /\ Becomes(s, "stopped")
  /\ \/ worker[s] = "proposing" /\ last' = [last EXCEPT ![s] = "cancelled"]
     \/ /\ worker[s] = "ended" \/ Cardinality(assigned[s]) = Len(Stages) - 1
        /\ UNCHANGED last
  /\ UNCHANGED <<run, decorated, ledger, assigned, handler, documents>>

\* The editor answers a mutation, however late.  A save comes with its evidence, or
\* with none, and with the revision it made, or with none.
EditorAnswers(n) ==
  /\ ledger[n].answer = "none"
  /\ \E answer \in (IF ledger[n].stage = "save" THEN Answers ELSE {"applied", "rejected"}) :
       ledger' = [ledger EXCEPT ![n].answer = answer]
  /\ UNCHANGED <<run, decorated, worker, assigned, last, handler, documents>>

CancelRequested ==
  /\ run.status = "open"
  /\ run' = [run EXCEPT !.status = "cancel_requested"]
  /\ UNCHANGED <<decorated, ledger, worker, assigned, last, handler, documents>>

\* The watchdog starts the next attempt: nothing was acknowledged as yet.
Retry ==
  /\ run.status = "open" /\ run.attemptSeq < MaxAttempts
  /\ \A n \in DOMAIN ledger : ledger[n].answer = "none"
  /\ run' = [run EXCEPT !.attemptSeq = @ + 1]
  /\ UNCHANGED <<decorated, ledger, worker, assigned, last, handler, documents>>

\* The watchdog closes the run by itself, without documents: failed; after an
\* acknowledgement perhaps as not saved; cancelled if that was asked for.
WatchdogCloses ==
  /\ run.status \in {"open", "cancel_requested"}
  /\ \E final \in {"failed", "save_failed_after_apply", "cancelled"} :
       /\ final = "save_failed_after_apply" => \E n \in DOMAIN ledger : ledger[n].answer # "none"
       /\ final = "cancelled" => run.status = "cancel_requested"
       /\ run' = [run EXCEPT !.status = final]
  /\ UNCHANGED <<decorated, ledger, worker, assigned, last, handler, documents>>

-------------------------------------------------------------------------------
(* What the worker reports, and what the API makes of it *)

\* finalizeRun: the evidence is the last acknowledgement's.
Evidence(s) ==
  last[s] = "acked" /\ ledger[NewestOf(s)].answer \in {"saved", "saved_unversioned"}

Reported(s) ==
  CASE worker[s] = "stopped" \/ last[s] = "cancelled" -> "cancelled"
    [] worker[s] = "ended" /\ last[s] \in {"rejected", "timed_out"} -> "failed"
    [] worker[s] = "ended" /\ last[s] = "acked" ->
         IF Evidence(s) THEN "completed" ELSE "save_failed_after_apply"

\* sourceMutationRange, and how far the worker says it is reconciled.  Seeded fault:
\* the range ends before the last mutation.
RangeToBefore(s) == OldestOf(s) .. NewestOf(s) - 1
SourceMutationRange(s) == OldestOf(s) .. NewestOf(s)

ReconciledThroughSeq(s) == IF last[s] = "acked" THEN NewestOf(s) ELSE 0

\* normalizeFinalizeInput: completed takes the evidence and a final revision.
Normalized(s) ==
  IF Reported(s) = "completed" /\ ledger[NewestOf(s)].answer # "saved"
    THEN "save_failed_after_apply" ELSE Reported(s)

\* enforceMinimumDraft, on the rows of the range.
MinimumDraft(s) ==
  /\ decorated
  /\ {"layers", "rest"} \subseteq {ledger[n].stage : n \in SourceMutationRange(s)}

DocOf(s) ==
  [attempt |-> s,
   status |-> Normalized(s),
   terminalStatus |-> IF Normalized(s) = "completed" /\ ~MinimumDraft(s)
                        THEN "failed" ELSE Normalized(s),
   evidence |-> Normalized(s) = "completed" /\ MinimumDraft(s),
   reconciled |-> ReconciledThroughSeq(s),
   entries |-> [n \in SourceMutationRange(s) |-> ledger[n].answer]]

Reports(s) == worker[s] \in {"stopped", "ended"} /\ handler[s] = "none"

\* A finalize that comes late, of an attempt that is over or for a run that is.
FinalizeRefused(s) ==
  /\ Reports(s) /\ ~Served(s)
  /\ Becomes(s, "gone")
  /\ UNCHANGED <<run, decorated, ledger, assigned, last, handler, documents>>

\* Without a mutation there is nothing to materialize.
FinalizeStatus(s) ==
  /\ Reports(s) /\ Served(s) /\ assigned[s] = {}
  /\ run' = [run EXCEPT !.status = Reported(s)]
  /\ Becomes(s, "gone")
  /\ UNCHANGED <<decorated, ledger, assigned, last, handler, documents>>

\* The ledger is read and the documents are made; the first put is on its way.
FinalizeBegins(s) ==
  /\ Reports(s) /\ Served(s) /\ assigned[s] # {}
  /\ doc' = [doc EXCEPT ![s] = DocOf(s)]
  /\ Waits(s, IF DocOf(s).evidence THEN "checkpoint" ELSE "bundle")
  /\ Becomes(s, "gone")
  /\ UNCHANGED <<run, decorated, ledger, assigned, last, checkpoint, bundleObject,
                 bundleRow, completionRow>>

\* The checkpoint is there, and the put of the bundle on its way.
CheckpointThere(s) ==
  /\ handler[s] = "checkpoint"
  /\ checkpoint' = doc[s]
  /\ Waits(s, "bundle")
  /\ UNCHANGED <<run, decorated, ledger, worker, assigned, last, doc, bundleObject,
                 bundleRow, completionRow>>

\* The file of the bundle is written; its metadata is still to be.
BundleWritten(s) ==
  /\ handler[s] = "bundle"
  /\ bundleObject' = doc[s]
  /\ Waits(s, "bundle_there")
  /\ UNCHANGED <<run, decorated, ledger, worker, assigned, last, doc, checkpoint,
                 bundleRow, completionRow>>

\* The puts are done: the rows, and the references of the run row, as one step.
Bind(s) ==
  /\ handler[s] = "bundle_there"
  /\ bundleRow' = doc[s] /\ completionRow' = doc[s]
  /\ run' = [run EXCEPT !.status = doc[s].status, !.bound = TRUE,
                        !.saved = doc[s].evidence]
  /\ Waits(s, "over")
  /\ UNCHANGED <<decorated, ledger, worker, assigned, last, doc, checkpoint,
                 bundleObject>>

\* A put fails, the last one perhaps after the file was written.  The handler throws.
\* Seeded fault: the failure is passed over.
PassOverPut(s) ==
  /\ handler[s] \in {"checkpoint", "bundle"}
  /\ Waits(s, IF handler[s] = "checkpoint" THEN "bundle" ELSE "bundle_there")
  /\ UNCHANGED <<run, decorated, ledger, worker, assigned, last, documents>>

PutFails(s) ==
  /\ handler[s] \in {"checkpoint", "bundle", "bundle_there"}
  /\ Waits(s, "over")
  /\ UNCHANGED <<run, decorated, ledger, worker, assigned, last, documents>>

Worker(s) ==
  Take(s) \/ Propose(s) \/ PollFinds(s) \/ PollGivesUp(s) \/ StopSeen(s)

Finalize(s) ==
  \/ FinalizeRefused(s) \/ FinalizeStatus(s) \/ FinalizeBegins(s)
  \/ CheckpointThere(s) \/ BundleWritten(s) \/ Bind(s) \/ PutFails(s)

Next ==
  \/ \E s \in Attempts : Worker(s) \/ Finalize(s)
  \/ \E n \in DOMAIN ledger : EditorAnswers(n)
  \/ CancelRequested \/ Retry \/ WatchdogCloses

Spec == Init /\ [][Next]_vars

-------------------------------------------------------------------------------
(* What holds of the documents *)

\* What the run row refers to is there: a bundle row and the object it points to, the
\* completion row of the same finalize, and the checkpoint its evidence claims,
\* whatever put failed on the way.
RefsResolve ==
  run.bound =>
    /\ bundleRow # None /\ bundleObject # None
    /\ completionRow = bundleRow
    /\ completionRow.evidence => checkpoint # None

\* A run is closed as saved only on a save the editor answered with evidence and a
\* revision, and the bundle the run refers to contains that save as reconciled.
SavedIsBacked ==
  run.saved =>
    \E n \in DOMAIN bundleRow.entries :
      /\ ledger[n].stage = "save" /\ ledger[n].answer = "saved"
      /\ bundleRow.entries[n] = "saved" /\ n <= bundleRow.reconciled

\* The bundle of a completed run is final: it ends where it is reconciled, every
\* mutation in it was applied, and no acknowledgement changes the ledger under it.
CompletedBundleIsFinal ==
  bundleRow.status = "completed" =>
    \A n \in DOMAIN bundleRow.entries :
      /\ n <= bundleRow.reconciled
      /\ bundleRow.entries[n] \notin {"none", "rejected"}
      /\ bundleRow.entries[n] = ledger[n].answer

\* A bundle holds mutations of the attempt it is of, and of no other.
BundleOfOneAttempt ==
  \A n \in DOMAIN bundleRow.entries : ledger[n].attempt = bundleRow.attempt

-------------------------------------------------------------------------------
(* What the documents say and the code does not keep (README, section 5) *)

\* The payload ends where it is reconciled: no mutation beyond reconciledThroughSeq is
\* in the committed bundle.
PayloadIsReconciled ==
  \A n \in DOMAIN bundleRow.entries : n <= bundleRow.reconciled

\* The ledger in the committed bundle is a projection of the ledger's rows.
BundleProjectsLedger ==
  \A n \in DOMAIN bundleRow.entries : bundleRow.entries[n] = ledger[n].answer

\* The object a bundle row points to is the bundle the row was committed for.
BundleObjectIsItsRow == run.bound => bundleObject = bundleRow
===============================================================================
