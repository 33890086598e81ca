----------------------- MODULE FinalizeDocumentsProofs -----------------------
(* The invariants of FinalizeDocuments, for every number of attempts. *)
EXTENDS FinalizeDocuments, FiniteSetTheorems, TLAPS

(***************************************************************************)
(* The inductive invariant                                                 *)
(***************************************************************************)
RowsOf(s) == {n \in DOMAIN ledger : ledger[n].attempt = s}

\* An answer the worker goes on after.
Taken(row) == row.answer \notin {"none", "rejected"}

\* The ledger is filled attempt by attempt, and a save is what the save stage gets.
LedgerInOrder ==
  /\ \A m, n \in DOMAIN ledger : m <= n => ledger[m].attempt <= ledger[n].attempt
  /\ \A n \in DOMAIN ledger :
       /\ ledger[n].attempt <= run.attemptSeq
       /\ ledger[n].answer \in {"saved", "saved_unversioned"} => ledger[n].stage = "save"

\* What a worker counts as assigned is its own, has a first and a last mutation, and
\* is everything of the attempt while the worker has not stopped.
AssignedIsOwn ==
  \A s \in Attempts :
    /\ assigned[s] \subseteq RowsOf(s)
    /\ assigned[s] # {} => /\ \E n \in assigned[s] : \A m \in assigned[s] : m <= n
                           /\ \E n \in assigned[s] : \A m \in assigned[s] : n <= m
    /\ worker[s] \in {"queued", "proposing", "waiting", "ended"} => assigned[s] = RowsOf(s)
    /\ worker[s] = "queued" => assigned[s] = {}

\* A worker proposes only when all it proposed was taken.
TakenSoFar ==
  \A s \in Attempts :
    /\ worker[s] \in {"waiting", "ended"} => assigned[s] # {}
    /\ worker[s] = "proposing" => \A n \in assigned[s] : Taken(ledger[n])
    /\ worker[s] = "waiting" =>
         \A n \in assigned[s] : n # NewestOf(s) => Taken(ledger[n])
    /\ worker[s] = "ended" => last[s] # "none"
    /\ worker[s] = "ended" /\ last[s] = "acked" => \A n \in assigned[s] : Taken(ledger[n])

\* The documents a ledger may be left with: one says what the ledger said, and the
\* ledger still says it if the run is completed by it.
DocHolds(rows, d) ==
  \/ d = None
  \/ /\ d.attempt \in Attempts /\ {d.status, d.terminalStatus} \subseteq Terminal
     /\ d.evidence \in BOOLEAN /\ d.reconciled \in {0} \cup DOMAIN rows
     /\ DOMAIN d.entries \subseteq DOMAIN rows
     /\ \A n \in DOMAIN d.entries :
          /\ d.entries[n] \in Answers
          /\ rows[n].attempt = d.attempt
          /\ d.status = "completed" =>
               n <= d.reconciled /\ Taken(rows[n]) /\ d.entries[n] = rows[n].answer
     /\ d.evidence =>
          /\ d.status = "completed"
          /\ \E n \in DOMAIN d.entries : rows[n].stage = "save" /\ rows[n].answer = "saved"

DocsHold ==
  /\ \A s \in Attempts : DocHolds(ledger, doc[s])
  /\ DocHolds(ledger, checkpoint) /\ DocHolds(ledger, bundleObject)
  /\ DocHolds(ledger, bundleRow) /\ DocHolds(ledger, completionRow)

\* A finalize in progress has put what it is past.
PutsAreThere ==
  \A s \in Attempts :
    /\ handler[s] \in {"checkpoint", "bundle", "bundle_there"} => doc[s] # None
    /\ handler[s] = "bundle_there" => bundleObject # None
    /\ handler[s] \in {"bundle", "bundle_there"} /\ doc[s].evidence => checkpoint # None

BoundIsThere ==
  /\ run.bound => /\ bundleRow # None /\ bundleObject # None
                  /\ bundleRow.evidence => checkpoint # None
  /\ completionRow = bundleRow
  /\ run.saved => run.bound /\ bundleRow.evidence

IInv ==
  /\ TypeOK /\ LedgerInOrder /\ AssignedIsOwn /\ TakenSoFar
  /\ DocsHold /\ PutsAreThere /\ BoundIsThere

-------------------------------------------------------------------------------
(* The ledger in a step *)

\* Rows are added and answered once; nothing else happens to them.
Grows(rows, more) ==
  /\ DOMAIN rows \subseteq DOMAIN more
  /\ \A n \in DOMAIN rows :
       /\ more[n].attempt = rows[n].attempt /\ more[n].stage = rows[n].stage
       /\ rows[n].answer # "none" => more[n].answer = rows[n].answer

\* a proposal is a row of its attempt at the end of the ledger
LEMMA ProposeLedger ==
  ASSUME TypeOK, NEW s \in Attempts, Propose(s)
  PROVE  /\ ledger' \in Seq(Rows)
         /\ Len(ledger) \in Nat /\ Len(ledger') = Len(ledger) + 1
         /\ DOMAIN ledger = 1 .. Len(ledger)
         /\ DOMAIN ledger' = DOMAIN ledger \cup {Len(ledger) + 1}
         /\ \A n \in DOMAIN ledger : ledger'[n] = ledger[n]
         /\ ledger'[Len(ledger) + 1].attempt = s
         /\ ledger'[Len(ledger) + 1].answer = "none"
<1>. DEFINE stage == Stages[Cardinality(assigned[s]) + 1]
            row == [attempt |-> s, answer |-> "none", stage |-> stage]
<1>1. ledger' = Append(ledger, row)
  BY DEF Propose
<1>2. stage \in {"layers", "rest", "save"}
  <2>1. IsFiniteSet(DOMAIN ledger)
    BY FS_Interval, DOMAIN ledger = 1 .. Len(ledger), Len(ledger) \in Nat DEF TypeOK
  <2>2. Cardinality(assigned[s]) \in Nat
    BY <2>1, FS_Subset, FS_CardinalityType DEF TypeOK
  <2>3. Cardinality(assigned[s]) < 3
    BY DEF Propose, Stages
  <2>4. Cardinality(assigned[s]) + 1 \in {1, 2, 3}
    BY <2>2, <2>3
  <2>. QED
    BY <2>4 DEF Stages
<1>3. row \in Rows
  BY <1>2 DEF Rows, Answers
<1>. HIDE DEF row
<1>4. row.attempt = s /\ row.answer = "none"
  BY DEF row
<1>. QED
  BY <1>1, <1>3, <1>4 DEF TypeOK

\* an answer changes the answer of one row that had none
LEMMA AnswerLedger ==
  ASSUME TypeOK, NEW n \in DOMAIN ledger, EditorAnswers(n)
  PROVE  /\ ledger' \in Seq(Rows)
         /\ DOMAIN ledger' = DOMAIN ledger
         /\ \A m \in DOMAIN ledger : m # n => ledger'[m] = ledger[m]
         /\ ledger'[n].attempt = ledger[n].attempt
         /\ ledger'[n].stage = ledger[n].stage
         /\ ledger[n].answer = "none"
         /\ ledger'[n].answer \in {"saved", "saved_unversioned"} => ledger[n].stage = "save"
<1>1. PICK answer \in (IF ledger[n].stage = "save" THEN Answers ELSE {"applied", "rejected"}) :
        ledger' = [ledger EXCEPT ![n].answer = answer]
  BY DEF EditorAnswers
<1>2. ledger[n] \in Rows /\ answer \in Answers
  BY <1>1 DEF TypeOK, Answers
<1>3. ledger' = [ledger EXCEPT ![n] = [ledger[n] EXCEPT !.answer = answer]]
  BY <1>1
<1>. DEFINE row == [ledger[n] EXCEPT !.answer = answer]
<1>4. /\ row \in Rows /\ row.attempt = ledger[n].attempt /\ row.stage = ledger[n].stage
      /\ row.answer = answer
  BY <1>2 DEF Rows
<1>5. answer \in {"saved", "saved_unversioned"} => ledger[n].stage = "save"
  BY <1>1
<1>. HIDE DEF row
<1>6. ledger' = [ledger EXCEPT ![n] = row]
  BY <1>3 DEF row
<1>7. ledger \in Seq(Rows) /\ ledger[n].answer = "none"
  BY DEF TypeOK, EditorAnswers
<1>. QED
  BY <1>4, <1>5, <1>6, <1>7

\* rows are added and answered, never removed or renamed
LEMMA LedgerGrows ==
  ASSUME TypeOK, [Next]_vars
  PROVE  Grows(ledger, ledger') /\ ledger' \in Seq(Rows)
<1>1. CASE \E s \in Attempts : Propose(s)
  BY <1>1, ProposeLedger DEF Grows
<1>2. CASE \E n \in DOMAIN ledger : EditorAnswers(n)
  <2>1. PICK n \in DOMAIN ledger : EditorAnswers(n)
    BY <1>2
  <2>. QED
    BY <2>1, AnswerLedger DEF Grows
<1>3. CASE UNCHANGED ledger
  BY <1>3 DEF Grows, TypeOK
<1>4. UNCHANGED ledger \/ (\E s \in Attempts : Propose(s))
                       \/ \E n \in DOMAIN ledger : EditorAnswers(n)
  BY DEF Next, Worker, Finalize, Take, PollFinds, PollGivesUp, StopSeen, CancelRequested,
         Retry, WatchdogCloses, FinalizeRefused, FinalizeStatus, FinalizeBegins, CheckpointThere,
         BundleWritten, Bind, PutFails, vars, documents
<1>. QED
  BY <1>1, <1>2, <1>3, <1>4

\* what a document says of a ledger it says of every later one
LEMMA DocsStay ==
  ASSUME NEW rows, NEW more, Grows(rows, more), NEW d, DocHolds(rows, d)
  PROVE  DocHolds(more, d)
BY DEF Grows, DocHolds, Taken

-------------------------------------------------------------------------------
(* The document a finalize makes *)

\* the fields of a row
LEMMA RowTypes ==
  ASSUME TypeOK, NEW n \in DOMAIN ledger
  PROVE  /\ ledger[n].attempt \in Attempts /\ ledger[n].attempt \in Nat
         /\ ledger[n].answer \in Answers /\ n \in Nat
<1>1. ledger[n] \in Rows
  BY DEF TypeOK
<1>2. ledger[n].attempt \in Attempts /\ ledger[n].answer \in Answers
  BY <1>1 DEF Rows
<1>3. \A a \in Attempts : a \in Nat
  BY AttemptsAssumption DEF Attempts
<1>4. n \in Nat
  BY DEF TypeOK
<1>. QED
  BY <1>2, <1>3, <1>4

\* the newest and the oldest of an attempt's assigned rows are among them
LEMMA RangeEnds ==
  ASSUME TypeOK, AssignedIsOwn, NEW s \in Attempts, assigned[s] # {}
  PROVE  /\ NewestOf(s) \in assigned[s] /\ \A m \in assigned[s] : m <= NewestOf(s)
         /\ OldestOf(s) \in assigned[s] /\ \A m \in assigned[s] : OldestOf(s) <= m
         /\ {NewestOf(s), OldestOf(s)} \subseteq RowsOf(s)
<1>1. \E n \in assigned[s] : \A m \in assigned[s] : m <= n
  BY DEF AssignedIsOwn
<1>2. \E n \in assigned[s] : \A m \in assigned[s] : n <= m
  BY DEF AssignedIsOwn
<1>3. NewestOf(s) \in assigned[s] /\ \A m \in assigned[s] : m <= NewestOf(s)
  BY <1>1 DEF NewestOf
<1>4. OldestOf(s) \in assigned[s] /\ \A m \in assigned[s] : OldestOf(s) <= m
  BY <1>2 DEF OldestOf
<1>. QED
  BY <1>3, <1>4 DEF AssignedIsOwn

\* between an attempt's first and last row there are only rows of its own
LEMMA RangeIsOwn ==
  ASSUME TypeOK, AssignedIsOwn, LedgerInOrder, NEW s \in Attempts, assigned[s] # {},
         NEW n \in SourceMutationRange(s)
  PROVE  n \in RowsOf(s)
<1>1. OldestOf(s) \in RowsOf(s) /\ NewestOf(s) \in RowsOf(s)
  BY RangeEnds
<1>2. n \in DOMAIN ledger /\ OldestOf(s) <= n /\ n <= NewestOf(s)
  BY <1>1 DEF SourceMutationRange, RowsOf, TypeOK
<1>3. s <= ledger[n].attempt /\ ledger[n].attempt <= s
  BY <1>1, <1>2 DEF RowsOf, LedgerInOrder
<1>4. ledger[n].attempt \in Nat /\ s \in Nat
  BY <1>2, RowTypes, AttemptsAssumption DEF Attempts
<1>. QED
  BY <1>2, <1>3, <1>4 DEF RowsOf

\* a worker that reports has a terminal status to report
LEMMA ReportedStatus ==
  ASSUME TypeOK, TakenSoFar, NEW s \in Attempts, Reports(s)
  PROVE  Reported(s) \in Terminal
<1>1. CASE worker[s] = "stopped" \/ last[s] = "cancelled"
  BY <1>1 DEF Reported, Terminal
<1>2. CASE worker[s] = "ended" /\ last[s] \in {"rejected", "timed_out"}
  BY <1>2 DEF Reported, Terminal
<1>3. CASE worker[s] = "ended" /\ last[s] = "acked"
  BY <1>3 DEF Reported, Terminal
<1>4. worker[s] = "ended" => last[s] \in {"acked", "rejected", "timed_out", "cancelled"}
  BY DEF TypeOK, TakenSoFar
<1>. QED
  BY <1>1, <1>2, <1>3, <1>4 DEF Reports

\* a document made of the ledger says what the ledger says
LEMMA DocOfHolds ==
  ASSUME IInv, NEW s \in Attempts, Reports(s), assigned[s] # {}
  PROVE  /\ DocHolds(ledger, DocOf(s))
         /\ DocOf(s) # None
         /\ DocOf(s).status \in Terminal
<1>. DEFINE d == DocOf(s)
            entries == [n \in SourceMutationRange(s) |-> ledger[n].answer]
<1>. USE DEF IInv
<1>1. /\ d.attempt = s /\ d.status = Normalized(s)
      /\ d.terminalStatus = IF Normalized(s) = "completed" /\ ~MinimumDraft(s)
                              THEN "failed" ELSE Normalized(s)
      /\ d.evidence = (Normalized(s) = "completed" /\ MinimumDraft(s))
      /\ d.reconciled = ReconciledThroughSeq(s)
      /\ d.entries = entries
  BY DEF DocOf
<1>2. Normalized(s) \in Terminal
  BY ReportedStatus DEF Normalized, Terminal
<1>3. d.evidence \in BOOLEAN
  BY <1>1 DEF MinimumDraft
<1>4. d.reconciled \in {0} \cup DOMAIN ledger
  BY <1>1, RangeEnds DEF ReconciledThroughSeq, RowsOf
<1>5. SourceMutationRange(s) \subseteq RowsOf(s)
  BY RangeIsOwn
<1>6. DOMAIN d.entries = SourceMutationRange(s)
  BY <1>1
<1>7. \A n \in SourceMutationRange(s) : d.entries[n] = ledger[n].answer
  BY <1>1
<1>8. \A n \in SourceMutationRange(s) : ledger[n].answer \in Answers
  BY <1>5, RowTypes DEF RowsOf
<1>9. ASSUME d.status = "completed"
      PROVE  /\ worker[s] = "ended" /\ last[s] = "acked"
             /\ ledger[NewestOf(s)].answer = "saved"
             /\ \A n \in SourceMutationRange(s) : n <= d.reconciled /\ Taken(ledger[n])
  <2>1. Reported(s) = "completed" /\ ledger[NewestOf(s)].answer = "saved"
    BY <1>1, <1>9 DEF Normalized
  <2>2. worker[s] = "ended" /\ last[s] = "acked"
    BY <2>1 DEF Reported, Reports, TypeOK, TakenSoFar
  <2>3. d.reconciled = NewestOf(s)
    BY <2>2, <1>1 DEF ReconciledThroughSeq
  <2>4. SourceMutationRange(s) \subseteq assigned[s]
    BY <2>2, <1>5 DEF AssignedIsOwn
  <2>. QED
    BY <2>1, <2>2, <2>3, <2>4, RangeEnds DEF TakenSoFar
<1>10. ASSUME d.evidence
       PROVE  /\ d.status = "completed"
              /\ \E n \in DOMAIN d.entries :
                   ledger[n].stage = "save" /\ ledger[n].answer = "saved"
  <2>1. d.status = "completed"
    BY <1>1, <1>10
  <2>2. ledger[NewestOf(s)].answer = "saved"
    BY <2>1, <1>9
  <2>3. NewestOf(s) \in DOMAIN ledger /\ OldestOf(s) \in DOMAIN ledger /\ OldestOf(s) <= NewestOf(s)
    BY RangeEnds DEF RowsOf
  <2>4. NewestOf(s) \in SourceMutationRange(s)
    BY <2>3 DEF SourceMutationRange, TypeOK
  <2>5. ledger[NewestOf(s)].stage = "save"
    BY <2>2, <2>3 DEF LedgerInOrder
  <2>. QED
    BY <2>1, <2>2, <2>4, <2>5, <1>6
<1>11. {d.status, d.terminalStatus} \subseteq Terminal
  BY <1>1, <1>2 DEF Terminal
<1>12. d.attempt \in Attempts /\ d # None
  <2>1. d.attempt # 0
    BY <1>1, AttemptsAssumption DEF Attempts
  <2>. QED
    BY <1>1, <2>1 DEF None
<1>13. \A n \in DOMAIN d.entries :
         /\ d.entries[n] \in Answers
         /\ ledger[n].attempt = d.attempt
         /\ d.status = "completed" =>
              n <= d.reconciled /\ Taken(ledger[n]) /\ d.entries[n] = ledger[n].answer
  <2>. SUFFICES ASSUME NEW n \in SourceMutationRange(s)
                PROVE  /\ d.entries[n] \in Answers
                       /\ ledger[n].attempt = d.attempt
                       /\ d.status = "completed" =>
                            n <= d.reconciled /\ Taken(ledger[n]) /\ d.entries[n] = ledger[n].answer
    BY <1>6
  <2>1. ledger[n].attempt = d.attempt
    BY <1>1, <1>5 DEF RowsOf
  <2>. HIDE DEF d
  <2>. QED
    BY <2>1, <1>7, <1>8, <1>9
<1>14. DOMAIN d.entries \subseteq DOMAIN ledger
  BY <1>5, <1>6 DEF RowsOf
<1>. HIDE DEF d
<1>15. DocHolds(ledger, d)
  BY <1>3, <1>4, <1>10, <1>11, <1>12, <1>13, <1>14 DEF DocHolds
<1>. QED
  BY <1>11, <1>12, <1>15 DEF d

-------------------------------------------------------------------------------
(* The invariant is inductive *)

\* no row, no document
LEMMA InitInv == Init => IInv
<1>. SUFFICES ASSUME Init PROVE IInv
  OBVIOUS
<1>. USE DEF Init
<1>1. TypeOK
  BY AttemptsAssumption DEF TypeOK, Attempts, IsDoc
<1>2. LedgerInOrder /\ AssignedIsOwn /\ TakenSoFar
  BY DEF LedgerInOrder, AssignedIsOwn, TakenSoFar, RowsOf
<1>3. DocsHold
  BY DEF DocsHold, DocHolds
<1>4. PutsAreThere /\ BoundIsThere
  BY DEF PutsAreThere, BoundIsThere
<1>. QED
  BY <1>1, <1>2, <1>3, <1>4 DEF IInv

\* a document is made when a finalize begins, and holds from then on
LEMMA DocsStep == IInv /\ [Next]_vars => DocsHold'
<1>. SUFFICES ASSUME IInv, [Next]_vars PROVE DocsHold'
  OBVIOUS
<1>1. Grows(ledger, ledger')
  BY LedgerGrows DEF IInv
<1>2. /\ \A s \in Attempts : DocHolds(ledger', doc[s])
      /\ DocHolds(ledger', checkpoint) /\ DocHolds(ledger', bundleObject)
      /\ DocHolds(ledger', bundleRow) /\ DocHolds(ledger', completionRow)
  BY <1>1, DocsStay DEF IInv, DocsHold
<1>3. CASE UNCHANGED documents
  BY <1>2, <1>3 DEF DocsHold, documents
<1>4. ASSUME NEW s \in Attempts, FinalizeBegins(s) PROVE DocsHold'
  <2>1. DocHolds(ledger, DocOf(s))
    BY <1>4, DocOfHolds DEF FinalizeBegins
  <2>2. DocHolds(ledger', DocOf(s))
    BY <1>1, <2>1, DocsStay
  <2>3. \A r \in Attempts : doc'[r] = IF r = s THEN DocOf(s) ELSE doc[r]
    BY <1>4 DEF FinalizeBegins, IInv, TypeOK
  <2>4. \A r \in Attempts : DocHolds(ledger', doc'[r])
    BY <1>2, <2>2, <2>3
  <2>. QED
    BY <1>2, <1>4, <2>4 DEF DocsHold, FinalizeBegins
<1>5. ASSUME NEW s \in Attempts, CheckpointThere(s) PROVE DocsHold'
  BY <1>2, <1>5 DEF DocsHold, CheckpointThere
<1>6. ASSUME NEW s \in Attempts, BundleWritten(s) PROVE DocsHold'
  BY <1>2, <1>6 DEF DocsHold, BundleWritten
<1>7. ASSUME NEW s \in Attempts, Bind(s) PROVE DocsHold'
  BY <1>2, <1>7 DEF DocsHold, Bind
<1>8. \/ UNCHANGED documents
      \/ \E s \in Attempts :
           FinalizeBegins(s) \/ CheckpointThere(s) \/ BundleWritten(s) \/ Bind(s)
  BY ZenonT(30)
     DEF Next, Worker, Finalize, Take, Propose, PollFinds, PollGivesUp, StopSeen,
         EditorAnswers, CancelRequested, Retry, WatchdogCloses, FinalizeRefused,
         FinalizeStatus, PutFails, vars, documents
<1>. QED
  BY <1>3, <1>4, <1>5, <1>6, <1>7, <1>8

\* the types are kept
LEMMA TypeStep == IInv /\ [Next]_vars => TypeOK'
<1>. SUFFICES ASSUME IInv, [Next]_vars PROVE TypeOK'
  OBVIOUS
<1>. DEFINE
  RunTyped == run \in [status : {"open", "cancel_requested"} \cup Terminal,
                       attemptSeq : Attempts, bound : BOOLEAN, saved : BOOLEAN]
  WorkersTyped ==
    /\ worker \in [Attempts -> {"queued", "proposing", "waiting", "stopped", "ended", "gone"}]
    /\ assigned \in [Attempts -> SUBSET DOMAIN ledger]
    /\ last \in [Attempts -> {"none", "acked", "rejected", "timed_out", "cancelled"}]
  HandlersTyped ==
    /\ decorated \in BOOLEAN
    /\ handler \in [Attempts -> {"none", "checkpoint", "bundle", "bundle_there", "over"}]
    /\ DOMAIN doc = Attempts
<1>1. TypeOK
  BY DEF IInv
<1>2. ledger' \in Seq(Rows) /\ DOMAIN ledger \subseteq DOMAIN ledger'
  BY <1>1, LedgerGrows DEF Grows
<1>3. RunTyped /\ WorkersTyped /\ HandlersTyped
  BY <1>1 DEF TypeOK
<1>4. RunTyped' /\ WorkersTyped' /\ HandlersTyped'
  <2>0. ASSUME assigned' = assigned PROVE assigned' \in [Attempts -> SUBSET DOMAIN ledger']
    BY <1>2, <1>3, <2>0
  <2>1. CASE UNCHANGED vars
    BY <1>3, <2>1 DEF vars
  <2>2. CASE CancelRequested \/ Retry \/ WatchdogCloses
    <3>1. UNCHANGED <<decorated, ledger, worker, assigned, last, handler, doc>>
      BY <2>2 DEF CancelRequested, Retry, WatchdogCloses, documents
    <3>2. ASSUME CancelRequested \/ WatchdogCloses PROVE RunTyped'
      BY <1>3, <3>2 DEF CancelRequested, WatchdogCloses, Terminal
    <3>3. ASSUME Retry PROVE RunTyped'
      <4>1. run.attemptSeq + 1 \in Attempts
        BY <1>3, <3>3, AttemptsAssumption DEF Retry, Attempts
      <4>2. run' = [run EXCEPT !.attemptSeq = run.attemptSeq + 1]
        BY <3>3 DEF Retry
      <4>. QED
        BY <1>3, <4>1, <4>2
    <3>. QED
      BY <1>3, <2>2, <3>1, <3>2, <3>3
  <2>3. ASSUME NEW n \in DOMAIN ledger, EditorAnswers(n)
        PROVE  RunTyped' /\ WorkersTyped' /\ HandlersTyped'
    BY <1>3, <2>0, <2>3 DEF EditorAnswers, documents
  <2>4. ASSUME NEW s \in Attempts, Take(s) \/ PollFinds(s) \/ PollGivesUp(s) \/ StopSeen(s)
        PROVE  RunTyped' /\ WorkersTyped' /\ HandlersTyped'
    <3>1. UNCHANGED <<run, decorated, ledger, assigned, handler, doc>>
      BY <2>4 DEF Take, PollFinds, PollGivesUp, StopSeen, documents
    <3>2. worker' \in [Attempts -> {"queued", "proposing", "waiting", "stopped", "ended", "gone"}]
      BY <1>3, <2>4 DEF Take, PollFinds, PollGivesUp, StopSeen, Becomes
    <3>3. last' \in [Attempts -> {"none", "acked", "rejected", "timed_out", "cancelled"}]
      BY <1>3, <2>4 DEF Take, PollFinds, PollGivesUp, StopSeen
    <3>. QED
      BY <1>3, <3>1, <3>2, <3>3
  <2>5. ASSUME NEW s \in Attempts, Propose(s)
        PROVE  RunTyped' /\ WorkersTyped' /\ HandlersTyped'
    <3>1. UNCHANGED <<run, decorated, handler, doc>>
      BY <2>5 DEF Propose, documents
    <3>6. last' \in [Attempts -> {"none", "acked", "rejected", "timed_out", "cancelled"}]
      BY <1>3, <2>5 DEF Propose
    <3>2. worker' \in [Attempts -> {"queued", "proposing", "waiting", "stopped", "ended", "gone"}]
      BY <1>3, <2>5 DEF Propose, Becomes
    <3>3. Len(ledger) + 1 \in DOMAIN ledger'
      BY <1>1, <2>5, ProposeLedger
    <3>4. assigned' = assigned \/ assigned' = [assigned EXCEPT ![s] = @ \cup {Len(ledger) + 1}]
      BY <2>5 DEF Propose
    <3>5. assigned' \in [Attempts -> SUBSET DOMAIN ledger']
      BY <1>2, <1>3, <2>0, <3>3, <3>4
    <3>. QED
      BY <1>3, <3>1, <3>2, <3>5, <3>6
  <2>6. ASSUME NEW s \in Attempts, FinalizeRefused(s) \/ FinalizeBegins(s)
        PROVE  RunTyped' /\ WorkersTyped' /\ HandlersTyped'
    <3>1. UNCHANGED <<run, decorated, ledger, assigned, last>>
      BY <2>6 DEF FinalizeRefused, FinalizeBegins
    <3>2. worker' \in [Attempts -> {"queued", "proposing", "waiting", "stopped", "ended", "gone"}]
      BY <1>3, <2>6 DEF FinalizeRefused, FinalizeBegins, Becomes
    <3>3. handler' \in [Attempts -> {"none", "checkpoint", "bundle", "bundle_there", "over"}]
      BY <1>3, <2>6 DEF FinalizeRefused, FinalizeBegins, Waits
    <3>4. DOMAIN doc' = Attempts
      BY <1>3, <2>6 DEF FinalizeRefused, FinalizeBegins, documents
    <3>. QED
      BY <1>3, <3>1, <3>2, <3>3, <3>4
  <2>7. ASSUME NEW s \in Attempts, FinalizeStatus(s)
        PROVE  RunTyped' /\ WorkersTyped' /\ HandlersTyped'
    <3>1. Reported(s) \in Terminal
      BY <1>1, <2>7, ReportedStatus DEF FinalizeStatus, IInv
    <3>2. RunTyped'
      BY <1>3, <2>7, <3>1 DEF FinalizeStatus
    <3>3. WorkersTyped' /\ HandlersTyped'
      BY <1>3, <2>7 DEF FinalizeStatus, Becomes, documents
    <3>. QED
      BY <3>2, <3>3
  <2>8. ASSUME NEW s \in Attempts, CheckpointThere(s) \/ BundleWritten(s) \/ PutFails(s)
        PROVE  RunTyped' /\ WorkersTyped' /\ HandlersTyped'
    BY <1>3, <2>8 DEF CheckpointThere, BundleWritten, PutFails, Waits, documents
  <2>9. ASSUME NEW s \in Attempts, Bind(s)
        PROVE  RunTyped' /\ WorkersTyped' /\ HandlersTyped'
    <3>1. doc[s].status \in Terminal /\ doc[s].evidence \in BOOLEAN
      BY <2>9 DEF Bind, IInv, DocsHold, DocHolds, PutsAreThere
    <3>2. RunTyped'
      BY <1>3, <2>9, <3>1 DEF Bind
    <3>3. WorkersTyped' /\ HandlersTyped'
      BY <1>3, <2>9 DEF Bind, Waits
    <3>. QED
      BY <3>2, <3>3
  <2>. HIDE DEF RunTyped, WorkersTyped, HandlersTyped
  <2>. QED
    BY <2>1, <2>2, <2>3, <2>4, <2>5, <2>6, <2>7, <2>8, <2>9 DEF Next, Worker, Finalize
<1>5. DocsHold'
  BY DocsStep
<1>6. /\ \A s \in Attempts : IsDoc(doc[s])'
      /\ IsDoc(checkpoint)' /\ IsDoc(bundleObject)'
      /\ IsDoc(bundleRow)' /\ IsDoc(completionRow)'
  BY <1>5 DEF DocsHold, DocHolds, IsDoc
<1>. QED
  BY <1>2, <1>4, <1>6 DEF TypeOK

\* a row is proposed by the newest attempt only
LEMMA OrderStep == IInv /\ [Next]_vars => LedgerInOrder'
<1>. SUFFICES ASSUME IInv, [Next]_vars PROVE LedgerInOrder'
  OBVIOUS
<1>1. TypeOK /\ LedgerInOrder
  BY DEF IInv
<1>2. \A n \in DOMAIN ledger : ledger[n].attempt \in Nat /\ n \in Nat
  BY <1>1, RowTypes
<1>3. run.attemptSeq \in Nat
  BY <1>1, AttemptsAssumption DEF TypeOK, Attempts
<1>4. ASSUME NEW s \in Attempts, Propose(s) PROVE LedgerInOrder'
  <2>1. /\ DOMAIN ledger = 1 .. Len(ledger) /\ Len(ledger) \in Nat
        /\ DOMAIN ledger' = DOMAIN ledger \cup {Len(ledger) + 1}
        /\ \A n \in DOMAIN ledger : ledger'[n] = ledger[n]
        /\ ledger'[Len(ledger) + 1].attempt = s
        /\ ledger'[Len(ledger) + 1].answer = "none"
    BY <1>1, <1>4, ProposeLedger
  <2>2. run' = run /\ run.attemptSeq = s
    BY <1>4 DEF Propose, Served
  <2>. QED
    BY <1>1, <1>2, <1>3, <2>1, <2>2 DEF LedgerInOrder
<1>5. ASSUME NEW n \in DOMAIN ledger, EditorAnswers(n) PROVE LedgerInOrder'
  <2>1. /\ DOMAIN ledger' = DOMAIN ledger
        /\ \A m \in DOMAIN ledger : ledger'[m].attempt = ledger[m].attempt
        /\ \A m \in DOMAIN ledger :
             ledger'[m].answer \in {"saved", "saved_unversioned"} => ledger'[m].stage = "save"
    BY <1>1, <1>5, AnswerLedger DEF LedgerInOrder
  <2>2. run' = run
    BY <1>5 DEF EditorAnswers
  <2>. QED
    BY <1>1, <2>1, <2>2 DEF LedgerInOrder
<1>6. CASE Retry
  <2>1. ledger' = ledger /\ run'.attemptSeq = run.attemptSeq + 1
    BY <1>1, <1>6 DEF Retry, TypeOK
  <2>. QED
    BY <1>1, <1>2, <1>3, <2>1 DEF LedgerInOrder
<1>7. CASE ledger' = ledger /\ run'.attemptSeq = run.attemptSeq
  BY <1>1, <1>7 DEF LedgerInOrder
<1>8. \/ Retry \/ (ledger' = ledger /\ run'.attemptSeq = run.attemptSeq)
      \/ (\E s \in Attempts : Propose(s)) \/ \E n \in DOMAIN ledger : EditorAnswers(n)
  <2>1. ASSUME NEW s \in Attempts, Worker(s) \/ Finalize(s)
        PROVE  Propose(s) \/ (ledger' = ledger /\ run'.attemptSeq = run.attemptSeq)
    BY <1>1, <2>1 DEF Worker, Finalize, Take, PollFinds, PollGivesUp, StopSeen,
         FinalizeRefused, FinalizeStatus, FinalizeBegins, CheckpointThere, BundleWritten,
         Bind, PutFails, TypeOK
  <2>2. CancelRequested \/ WatchdogCloses
          => ledger' = ledger /\ run'.attemptSeq = run.attemptSeq
    BY <1>1 DEF CancelRequested, WatchdogCloses, TypeOK
  <2>. QED
    BY <2>1, <2>2 DEF Next, vars
<1>. QED
  BY <1>4, <1>5, <1>6, <1>7, <1>8

\* What happens to the ledger, the workers and what they count as assigned: a worker
\* proposes, the editor answers, or a worker goes on to another place.
LEMMA WorkerMoves ==
  ASSUME TypeOK, [Next]_vars
  PROVE  \/ \E s \in Attempts : Propose(s)
         \/ \E n \in DOMAIN ledger : EditorAnswers(n)
         \/ /\ UNCHANGED <<ledger, assigned>>
            /\ \/ UNCHANGED <<worker, last>>
               \/ \E s \in Attempts :
                    /\ \/ Take(s) \/ PollFinds(s) \/ PollGivesUp(s) \/ StopSeen(s)
                       \/ Becomes(s, "gone") /\ UNCHANGED last
BY ZenonT(30)
   DEF Next, Worker, Finalize, CancelRequested, Retry, WatchdogCloses, Take, PollFinds, PollGivesUp,
       StopSeen, FinalizeRefused, FinalizeStatus, FinalizeBegins, CheckpointThere,
       BundleWritten, Bind, PutFails, vars

\* a proposal is both a row and an assigned one, unless the worker stops
LEMMA AssignedStep == IInv /\ [Next]_vars => AssignedIsOwn'
<1>. SUFFICES ASSUME IInv, [Next]_vars PROVE AssignedIsOwn'
  OBVIOUS
<1>1. TypeOK /\ AssignedIsOwn
  BY DEF IInv
<1>2. ASSUME NEW s \in Attempts, Propose(s) PROVE AssignedIsOwn'
  <2>. DEFINE new == Len(ledger) + 1
  <2>1. /\ DOMAIN ledger = 1 .. Len(ledger) /\ Len(ledger) \in Nat
        /\ DOMAIN ledger' = DOMAIN ledger \cup {new}
        /\ \A n \in DOMAIN ledger : ledger'[n] = ledger[n]
        /\ ledger'[new].attempt = s
    BY <1>1, <1>2, ProposeLedger
  <2>2. \A r \in Attempts : RowsOf(r)' = IF r = s THEN RowsOf(r) \cup {new} ELSE RowsOf(r)
    BY <2>1 DEF RowsOf
  <2>3. assigned[s] = RowsOf(s) /\ RowsOf(s) \subseteq 1 .. Len(ledger)
    BY <1>1, <1>2, <2>1 DEF Propose, AssignedIsOwn, RowsOf
  <2>4. \A r \in Attempts : r # s => assigned'[r] = assigned[r] /\ worker'[r] = worker[r]
    BY <1>1, <1>2 DEF Propose, Becomes, TypeOK
  <2>5. CASE worker'[s] = "stopped" /\ assigned' = assigned
    BY <1>1, <2>2, <2>4, <2>5 DEF AssignedIsOwn
  <2>6. CASE worker'[s] = "waiting" /\ assigned'[s] = assigned[s] \cup {new}
    <3>1. assigned'[s] = RowsOf(s)' /\ new \in assigned'[s]
      BY <2>2, <2>3, <2>6
    <3>2. \A m \in assigned'[s] : m <= new
      BY <2>1, <2>3, <2>6
    <3>3. \E n \in assigned'[s] : \A m \in assigned'[s] : n <= m
      <4>1. CASE assigned[s] = {}
        BY <2>6, <4>1, <3>2
      <4>2. CASE assigned[s] # {}
        <5>1. PICK n \in assigned[s] : \A m \in assigned[s] : n <= m
          BY <1>1, <4>2 DEF AssignedIsOwn
        <5>2. n <= new
          BY <2>1, <2>3, <5>1
        <5>. QED
          BY <2>6, <5>1, <5>2
      <4>. QED
        BY <4>1, <4>2
    <3>. HIDE DEF new
    <3>4. /\ assigned'[s] \subseteq RowsOf(s)'
          /\ \E n \in assigned'[s] : \A m \in assigned'[s] : m <= n
      BY <3>1, <3>2
    <3>5. \A r \in Attempts : r # s => RowsOf(r)' = RowsOf(r)
      BY <2>2
    <3>. QED
      BY <1>1, <2>4, <2>6, <3>1, <3>3, <3>4, <3>5 DEF AssignedIsOwn
  <2>7. \/ worker'[s] = "stopped" /\ assigned' = assigned
        \/ worker'[s] = "waiting" /\ assigned'[s] = assigned[s] \cup {new}
    BY <1>1, <1>2 DEF Propose, Becomes, TypeOK
  <2>. QED
    BY <2>5, <2>6, <2>7
<1>3. ASSUME NEW n \in DOMAIN ledger, EditorAnswers(n) PROVE AssignedIsOwn'
  <2>1. /\ DOMAIN ledger' = DOMAIN ledger
        /\ \A m \in DOMAIN ledger : ledger'[m].attempt = ledger[m].attempt
    BY <1>1, <1>3, AnswerLedger
  <2>2. \A r \in Attempts : RowsOf(r)' = RowsOf(r)
    BY <2>1 DEF RowsOf
  <2>3. assigned' = assigned /\ worker' = worker
    BY <1>3 DEF EditorAnswers
  <2>. QED
    BY <1>1, <2>2, <2>3 DEF AssignedIsOwn
<1>4. ASSUME UNCHANGED <<ledger, assigned>>,
             \A r \in Attempts : \/ worker'[r] = worker[r]
                                 \/ worker'[r] \in {"stopped", "gone"}
                                 \/ /\ worker[r] \in {"queued", "waiting"}
                                    /\ worker'[r] \in {"proposing", "ended"}
      PROVE  AssignedIsOwn'
  <2>1. \A r \in Attempts : RowsOf(r)' = RowsOf(r)
    BY <1>4 DEF RowsOf
  <2>. QED
    BY <1>1, <1>4, <2>1 DEF AssignedIsOwn
<1>5. ASSUME NEW s \in Attempts,
             \/ Take(s) \/ PollFinds(s) \/ PollGivesUp(s) \/ StopSeen(s)
             \/ Becomes(s, "gone") /\ UNCHANGED last
      PROVE  \A r \in Attempts : \/ worker'[r] = worker[r]
                                 \/ worker'[r] \in {"stopped", "gone"}
                                 \/ /\ worker[r] \in {"queued", "waiting"}
                                    /\ worker'[r] \in {"proposing", "ended"}
  BY <1>1, <1>5 DEF Take, PollFinds, PollGivesUp, StopSeen, Becomes, TypeOK
<1>. QED
  BY <1>1, <1>2, <1>3, <1>4, <1>5, WorkerMoves

\* a worker proposes only after an answer to its last proposal
LEMMA TakenStep == IInv /\ [Next]_vars => TakenSoFar'
<1>. SUFFICES ASSUME IInv, [Next]_vars PROVE TakenSoFar'
  OBVIOUS
<1>1. TypeOK /\ AssignedIsOwn /\ TakenSoFar
  BY DEF IInv
<1>2. ASSUME NEW s \in Attempts, Propose(s) PROVE TakenSoFar'
  <2>. DEFINE new == Len(ledger) + 1
  <2>1. /\ DOMAIN ledger = 1 .. Len(ledger) /\ Len(ledger) \in Nat
        /\ \A n \in DOMAIN ledger : ledger'[n] = ledger[n]
    BY <1>1, <1>2, ProposeLedger
  <2>2. \A r \in Attempts : assigned[r] \subseteq 1 .. Len(ledger)
    BY <1>1, <2>1 DEF TypeOK
  <2>3. \A r \in Attempts : r # s =>
          assigned'[r] = assigned[r] /\ worker'[r] = worker[r] /\ last'[r] = last[r]
    BY <1>1, <1>2 DEF Propose, Becomes, TypeOK
  <2>4. \A r \in Attempts : r # s => NewestOf(r)' = NewestOf(r)
    BY <2>3 DEF NewestOf
  <2>5. CASE worker'[s] = "stopped" /\ assigned' = assigned
    BY <1>1, <2>1, <2>2, <2>3, <2>4, <2>5 DEF TakenSoFar
  <2>6. CASE worker'[s] = "waiting" /\ assigned'[s] = assigned[s] \cup {new}
    <3>1. \A n \in assigned[s] : Taken(ledger[n])
      BY <1>1, <1>2 DEF Propose, TakenSoFar
    <3>2. NewestOf(s)' = new
      <4>1. new \in assigned'[s] /\ \A m \in assigned'[s] : m <= new
        BY <2>1, <2>2, <2>6
      <4>2. NewestOf(s)' \in assigned'[s] /\ \A m \in assigned'[s] : m <= NewestOf(s)'
        BY <4>1 DEF NewestOf
      <4>3. assigned'[s] \subseteq Nat
        BY <2>1, <2>2, <2>6
      <4>. QED
        BY <4>1, <4>2, <4>3
    <3>3. \A n \in assigned'[s] : n # NewestOf(s)' => Taken(ledger'[n])
      BY <2>1, <2>2, <2>6, <3>1, <3>2
    <3>4. assigned'[s] # {}
      BY <2>6
    <3>. QED
      BY <1>1, <2>1, <2>2, <2>3, <2>4, <2>6, <3>3, <3>4 DEF TakenSoFar
  <2>7. \/ worker'[s] = "stopped" /\ assigned' = assigned
        \/ worker'[s] = "waiting" /\ assigned'[s] = assigned[s] \cup {new}
    BY <1>1, <1>2 DEF Propose, Becomes, TypeOK
  <2>. QED
    BY <2>5, <2>6, <2>7
<1>3. ASSUME NEW n \in DOMAIN ledger, EditorAnswers(n) PROVE TakenSoFar'
  <2>1. UNCHANGED <<worker, assigned, last>>
    BY <1>3 DEF EditorAnswers
  <2>2. \A m \in DOMAIN ledger : Taken(ledger[m]) => Taken(ledger'[m])
    BY <1>1, <1>3, AnswerLedger DEF Taken
  <2>3. \A r \in Attempts : NewestOf(r)' = NewestOf(r) /\ assigned[r] \subseteq DOMAIN ledger
    BY <1>1, <2>1 DEF NewestOf, TypeOK
  <2>. QED
    BY <1>1, <2>1, <2>2, <2>3 DEF TakenSoFar
<1>4. CASE UNCHANGED <<ledger, assigned>>
  <2>1. \A r \in Attempts : NewestOf(r)' = NewestOf(r)
    BY <1>4 DEF NewestOf
  <2>2. CASE UNCHANGED <<worker, last>>
    BY <1>1, <1>4, <2>1, <2>2 DEF TakenSoFar
  <2>. DEFINE Fine(r) ==
         /\ worker'[r] \in {"waiting", "ended"} => assigned[r] # {}
         /\ worker'[r] = "proposing" => \A n \in assigned[r] : Taken(ledger[n])
         /\ worker'[r] = "waiting" => \A n \in assigned[r] : n # NewestOf(r) => Taken(ledger[n])
         /\ worker'[r] = "ended" => last'[r] # "none"
         /\ worker'[r] = "ended" /\ last'[r] = "acked" => \A n \in assigned[r] : Taken(ledger[n])
  <2>3. ASSUME NEW s \in Attempts,
               \/ Take(s) \/ PollFinds(s) \/ PollGivesUp(s) \/ StopSeen(s)
               \/ Becomes(s, "gone") /\ UNCHANGED last
        PROVE  \A r \in Attempts : Fine(r)
    <3>1. \A r \in Attempts : r # s => worker'[r] = worker[r] /\ last'[r] = last[r]
      BY <1>1, <2>3 DEF Take, PollFinds, PollGivesUp, StopSeen, Becomes, TypeOK
    <3>2. ASSUME NEW r \in Attempts, r # s PROVE Fine(r)
      BY <1>1, <3>1, <3>2 DEF TakenSoFar
    <3>3. ASSUME Take(s) PROVE Fine(s)
      BY <1>1, <3>3 DEF Take, Becomes, TypeOK, AssignedIsOwn
    <3>4. ASSUME PollFinds(s) PROVE Fine(s)
      <4>1. worker[s] = "waiting" /\ assigned[s] # {}
        BY <1>1, <3>4 DEF PollFinds, TakenSoFar
      <4>2. /\ ledger[NewestOf(s)].answer # "none"
            /\ last'[s] \in {"cancelled", "rejected", "acked"}
            /\ last'[s] = "acked" => ledger[NewestOf(s)].answer # "rejected"
            /\ worker'[s] \in {"stopped", "ended", "proposing"}
            /\ worker'[s] = "proposing" => ledger[NewestOf(s)].answer # "rejected"
        BY <1>1, <3>4 DEF PollFinds, Becomes, TypeOK
      <4>3. ledger[NewestOf(s)].answer # "rejected" => \A n \in assigned[s] : Taken(ledger[n])
        BY <1>1, <4>1, <4>2 DEF TakenSoFar, Taken
      <4>. QED
        BY <4>1, <4>2, <4>3
    <3>5. ASSUME PollGivesUp(s) PROVE Fine(s)
      <4>1. assigned[s] # {}
        BY <1>1, <3>5 DEF PollGivesUp, TakenSoFar
      <4>2. worker'[s] = "ended" /\ last'[s] \in {"cancelled", "timed_out"}
        BY <1>1, <3>5 DEF PollGivesUp, Becomes, TypeOK
      <4>. QED
        BY <4>1, <4>2
    <3>6. ASSUME StopSeen(s) \/ Becomes(s, "gone") PROVE Fine(s)
      <4>1. worker'[s] \in {"stopped", "gone"}
        BY <1>1, <3>6 DEF StopSeen, Becomes, TypeOK
      <4>. QED
        BY <4>1
    <3>. HIDE DEF Fine
    <3>. QED
      BY <2>3, <3>2, <3>3, <3>4, <3>5, <3>6
  <2>4. ASSUME \A r \in Attempts : Fine(r) PROVE TakenSoFar'
    BY <1>4, <2>1, <2>4 DEF TakenSoFar
  <2>. HIDE DEF Fine
  <2>. QED
    BY <1>1, <1>2, <1>3, <2>2, <2>3, <2>4, WorkerMoves
<1>. QED
  BY <1>1, <1>2, <1>3, <1>4, WorkerMoves

\* an object is put before anything points to it
LEMMA PutsStep == IInv /\ [Next]_vars => PutsAreThere' /\ BoundIsThere'
<1>. SUFFICES ASSUME IInv, [Next]_vars PROVE PutsAreThere' /\ BoundIsThere'
  OBVIOUS
<1>1. TypeOK /\ PutsAreThere /\ BoundIsThere
  BY DEF IInv
<1>. DEFINE same == UNCHANGED <<bundleObject, bundleRow, completionRow, checkpoint>>
            bindings == run'.bound = run.bound /\ run'.saved = run.saved
<1>2. ASSUME UNCHANGED documents, bindings,
             \A r \in Attempts : handler'[r] \in {handler[r], "over"}
      PROVE  PutsAreThere' /\ BoundIsThere'
  BY <1>1, <1>2 DEF PutsAreThere, BoundIsThere, documents
<1>3. ASSUME NEW s \in Attempts, FinalizeBegins(s) PROVE PutsAreThere' /\ BoundIsThere'
  <2>1. DocOf(s) # None
    BY <1>3, DocOfHolds DEF FinalizeBegins
  <2>2. \A r \in Attempts : doc'[r] = IF r = s THEN DocOf(s) ELSE doc[r]
    BY <1>1, <1>3 DEF FinalizeBegins, TypeOK
  <2>3. \A r \in Attempts : handler'[r] =
          IF r # s THEN handler[r] ELSE IF DocOf(s).evidence THEN "checkpoint" ELSE "bundle"
    BY <1>1, <1>3 DEF FinalizeBegins, Waits, TypeOK
  <2>4. same /\ run' = run
    BY <1>3 DEF FinalizeBegins
  <2>. QED
    BY <1>1, <2>1, <2>2, <2>3, <2>4 DEF PutsAreThere, BoundIsThere
<1>4. ASSUME NEW s \in Attempts, CheckpointThere(s) PROVE PutsAreThere' /\ BoundIsThere'
  <2>1. doc[s] # None /\ checkpoint' = doc[s]
    BY <1>1, <1>4 DEF CheckpointThere, PutsAreThere
  <2>2. \A r \in Attempts : handler'[r] = IF r = s THEN "bundle" ELSE handler[r]
    BY <1>1, <1>4 DEF CheckpointThere, Waits, TypeOK
  <2>3. UNCHANGED <<run, doc, bundleObject, bundleRow, completionRow>>
    BY <1>4 DEF CheckpointThere
  <2>. QED
    BY <1>1, <2>1, <2>2, <2>3 DEF PutsAreThere, BoundIsThere
<1>5. ASSUME NEW s \in Attempts, BundleWritten(s) PROVE PutsAreThere' /\ BoundIsThere'
  <2>1. doc[s] # None /\ bundleObject' = doc[s] /\ handler[s] = "bundle"
    BY <1>1, <1>5 DEF BundleWritten, PutsAreThere
  <2>2. \A r \in Attempts : handler'[r] = IF r = s THEN "bundle_there" ELSE handler[r]
    BY <1>1, <1>5 DEF BundleWritten, Waits, TypeOK
  <2>3. UNCHANGED <<run, doc, checkpoint, bundleRow, completionRow>>
    BY <1>5 DEF BundleWritten
  <2>. QED
    BY <1>1, <2>1, <2>2, <2>3 DEF PutsAreThere, BoundIsThere
<1>6. ASSUME NEW s \in Attempts, Bind(s) PROVE PutsAreThere' /\ BoundIsThere'
  <2>1. /\ doc[s] # None /\ bundleObject # None
        /\ doc[s].evidence => checkpoint # None
    BY <1>1, <1>6 DEF Bind, PutsAreThere
  <2>2. bundleRow' = doc[s] /\ completionRow' = doc[s] /\ UNCHANGED <<doc, checkpoint, bundleObject>>
    BY <1>6 DEF Bind
  <2>3. \A r \in Attempts : handler'[r] = IF r = s THEN "over" ELSE handler[r]
    BY <1>1, <1>6 DEF Bind, Waits, TypeOK
  <2>4. run'.bound = TRUE /\ run'.saved = doc[s].evidence
    BY <1>1, <1>6 DEF Bind, TypeOK
  <2>. QED
    BY <1>1, <2>1, <2>2, <2>3, <2>4 DEF PutsAreThere, BoundIsThere
<1>7. \/ \E s \in Attempts :
           FinalizeBegins(s) \/ CheckpointThere(s) \/ BundleWritten(s) \/ Bind(s)
      \/ /\ UNCHANGED documents /\ bindings
         /\ \A r \in Attempts : handler'[r] \in {handler[r], "over"}
  <2>1. ASSUME NEW s \in Attempts, Worker(s) \/ FinalizeRefused(s)
        PROVE  UNCHANGED <<documents, run, handler>>
    BY <2>1 DEF Worker, Take, Propose, PollFinds, PollGivesUp, StopSeen, FinalizeRefused
  <2>2. ASSUME NEW s \in Attempts, PutFails(s)
        PROVE  /\ UNCHANGED <<documents, run>>
               /\ \A r \in Attempts : handler'[r] \in {handler[r], "over"}
    BY <1>1, <2>2 DEF PutFails, Waits, TypeOK
  <2>3. ASSUME NEW s \in Attempts, FinalizeStatus(s)
        PROVE  UNCHANGED <<documents, handler>> /\ bindings
    BY <1>1, <2>3 DEF FinalizeStatus, TypeOK
  <2>4. CancelRequested \/ Retry \/ WatchdogCloses
          => UNCHANGED <<documents, handler>> /\ bindings
    BY <1>1 DEF CancelRequested, Retry, WatchdogCloses, TypeOK
  <2>5. ASSUME NEW n \in DOMAIN ledger, EditorAnswers(n)
        PROVE  UNCHANGED <<documents, run, handler>>
    BY <2>5 DEF EditorAnswers
  <2>6. UNCHANGED vars => UNCHANGED <<documents, run, handler>>
    BY DEF vars, documents
  <2>. QED
    BY <2>1, <2>2, <2>3, <2>4, <2>5, <2>6 DEF Next, Finalize
<1>. QED
  BY <1>2, <1>3, <1>4, <1>5, <1>6, <1>7

\* The documents' invariant holds of every reachable state.
THEOREM InductiveInvariant == Spec => []IInv
<1>1. IInv /\ [Next]_vars => IInv'
  BY TypeStep, OrderStep, AssignedStep, TakenStep, DocsStep, PutsStep DEF IInv
<1>. QED
  BY InitInv, <1>1, PTL DEF Spec

-------------------------------------------------------------------------------
(* What holds of the documents *)

\* Every variable keeps its type: a run, a ledger and documents runFinalizeService could
\* have stored.
THEOREM DocumentsTypeCorrect == Spec => []TypeOK
<1>1. IInv => TypeOK
  BY DEF IInv
<1>. QED
  BY InductiveInvariant, <1>1, PTL

\* What bindFinalization wrote on the run row refers to rows and objects that are there,
\* whatever put of which finalize failed.
THEOREM ReferencesResolve == Spec => []RefsResolve
<1>1. IInv => RefsResolve
  BY DEF IInv, BoundIsThere, RefsResolve
<1>. QED
  BY InductiveInvariant, <1>1, PTL

\* A run is closed as saved only on a save that was answered with evidence and a
\* revision, which the bundle has as reconciled.
THEOREM SavedOnEvidence == Spec => []SavedIsBacked
<1>1. ASSUME IInv, run.saved PROVE SavedIsBacked
  <2>1. DocHolds(ledger, bundleRow) /\ bundleRow.evidence /\ bundleRow # None
    BY <1>1 DEF IInv, DocsHold, BoundIsThere
  <2>2. PICK n \in DOMAIN bundleRow.entries :
          ledger[n].stage = "save" /\ ledger[n].answer = "saved"
    BY <2>1 DEF DocHolds
  <2>3. bundleRow.entries[n] = "saved" /\ n <= bundleRow.reconciled
    BY <2>1, <2>2 DEF DocHolds
  <2>. QED
    BY <2>2, <2>3 DEF SavedIsBacked
<1>2. IInv => SavedIsBacked
  BY <1>1 DEF SavedIsBacked
<1>. QED
  BY InductiveInvariant, <1>2, PTL

\* The bundle of a completed run ends where it is reconciled, and no later answer of the
\* editor changes the ledger under it.
THEOREM CompletedIsFinal == Spec => []CompletedBundleIsFinal
<1>1. IInv => CompletedBundleIsFinal
  BY DEF IInv, DocsHold, DocHolds, CompletedBundleIsFinal, Taken, None
<1>. QED
  BY InductiveInvariant, <1>1, PTL

\* selectMutationRangeRecords takes rows by seq alone, and yet none of another attempt.
THEOREM OneAttemptPerBundle == Spec => []BundleOfOneAttempt
<1>1. IInv => BundleOfOneAttempt
  BY DEF IInv, DocsHold, DocHolds, BundleOfOneAttempt, None
<1>. QED
  BY InductiveInvariant, <1>1, PTL
===============================================================================
