-------------------------- MODULE RunAdmissionProofs --------------------------
(***************************************************************************)
(* What RunAdmission promises, for any number of keys, pages and requests, *)
(* and with any store and queue.                                           *)
(***************************************************************************)
EXTENDS RunAdmission, TLAPS

\* Every request received, and no other, has a handler; what it has done by the
\* place where it is suspended.
CallsPart ==
  \A r \in Requests :
    /\ call[r] # "none" <=> r <= Len(key)
    /\ call[r] = "snapshot_object" => <<"request", r>> \in objects
    /\ call[r] \in {"none", "request_object", "snapshot_object"} => status[r] = "absent"
    /\ status[r] = "enqueue_pending" <=> call[r] \in {"enqueue", "landed"}
    /\ call[r] = "landed" => r \in jobs

\* What a run row stands for.
RunsPart ==
  \A r \in Requests :
    /\ status[r] # "absent" => {<<"request", r>>, <<"snapshot", r>>} \subseteq objects
    /\ r \in jobs \cup late => status[r] # "absent"
    /\ r \in watched => r \in jobs /\ log[r] # {} /\ status[r] # "enqueue_pending"
    /\ IsOpen(r) => status[r] = "enqueue_pending" \/ r \in watched
    /\ status[r] \in TerminalRunStatuses => log[r] \cap TerminalEvents # {}

\* Answers name runs of their key.
AnswersPart ==
  \A r \in Requests : answer[r] # 0 =>
    /\ r <= Len(key) /\ answer[r] <= Len(key)
    /\ key[answer[r]] = key[r]
    /\ status[answer[r]] # "absent"

\* Every key that has rows has a first one, and it has said that it ended when there
\* are more.
RowsPart ==
  \A i \in 1 .. Len(rows) :
    /\ rows[i] <= Len(key)
    /\ status[rows[i]] # "absent"
    /\ \E first \in WithKey(key[rows[i]]) :
         /\ \A j \in WithKey(key[rows[i]]) : first <= j
         /\ \A j \in WithKey(key[rows[i]]) :
              first # j => log[rows[first]] \cap TerminalEvents # {}

AdmissionInv == TypeOK /\ CallsPart /\ RunsPart /\ AnswersPart /\ RowsPart

-------------------------------------------------------------------------------
\* which of the statuses are terminal
LEMMA StatusFacts ==
  /\ {"enqueue_pending", "planning_queued", "failed"} \subseteq RunStatuses
  /\ "failed" \in TerminalRunStatuses
  /\ TerminalRunStatuses \subseteq RunStatuses
  /\ {"enqueue_pending", "planning_queued", "absent"} \cap TerminalRunStatuses = {}
  /\ "absent" \notin RunStatuses
  /\ "run.failed" \in TerminalEvents
  /\ \A final \in TerminalRunStatuses : TerminalEventOf(final) \in TerminalEvents
BY DEF RunStatuses, TerminalRunStatuses, ProgressStatuses, TerminalEvents, TerminalEventOf

\* The lookup finds a row of the key, the first one, when there is one.
LEMMA LookupFindsFirst ==
  ASSUME AdmissionInv, NEW k \in Keys
  PROVE  /\ FindByDedupeKey(k) \in 0 .. Len(key)
         /\ FindByDedupeKey(k) \in {0} \cup Requests
         /\ WithKey(k) = {} <=> FindByDedupeKey(k) = 0
         /\ WithKey(k) # {} =>
              \E first \in WithKey(k) :
                /\ FindByDedupeKey(k) = rows[first]
                /\ key[rows[first]] = k
                /\ status[rows[first]] # "absent"
                /\ \A j \in WithKey(k) : first <= j
<1>. DEFINE F == CHOOSE i \in WithKey(k) : \A j \in WithKey(k) : i <= j
<1>1. CASE WithKey(k) = {}
  BY <1>1 DEF FindByDedupeKey, AdmissionInv, TypeOK
<1>2. CASE WithKey(k) # {}
  <2>1. PICK i \in WithKey(k) : TRUE
    BY <1>2
  <2>2. i \in 1 .. Len(rows) /\ key[rows[i]] = k
    BY <2>1 DEF WithKey
  <2>3. \E first \in WithKey(k) : \A j \in WithKey(k) : first <= j
    BY <2>2 DEF AdmissionInv, RowsPart
  <2>4. F \in WithKey(k) /\ \A j \in WithKey(k) : F <= j
    BY <2>3
  <2>5. F \in 1 .. Len(rows) /\ key[rows[F]] = k
    BY <2>4 DEF WithKey
  <2>6. FindByDedupeKey(k) = rows[F]
    BY <1>2 DEF FindByDedupeKey
  <2>7. rows[F] \in Requests /\ rows[F] <= Len(key) /\ status[rows[F]] # "absent"
    BY <2>5 DEF AdmissionInv, RowsPart, TypeOK
  <2>8. FindByDedupeKey(k) \in Requests /\ FindByDedupeKey(k) \in 1 .. Len(key)
    BY <2>6, <2>7 DEF Requests, AdmissionInv, TypeOK
  <2>9. \E first \in WithKey(k) :
          /\ FindByDedupeKey(k) = rows[first]
          /\ key[rows[first]] = k
          /\ status[rows[first]] # "absent"
          /\ \A j \in WithKey(k) : first <= j
    BY <2>4, <2>5, <2>6, <2>7
  <2>10. FindByDedupeKey(k) # 0
    BY <2>8
  <2>. HIDE DEF F
  <2>. QED
    BY <1>2, <2>8, <2>9, <2>10, <2>4
<1>. QED
  BY <1>1, <1>2

\* no request, no run
LEMMA InitInv == Init => AdmissionInv
<1>. SUFFICES ASSUME Init PROVE AdmissionInv
  OBVIOUS
<1>. USE DEF Init
<1>1. TypeOK
  BY RequestsAssumption DEF TypeOK, Calls
<1>2. CallsPart
  BY DEF CallsPart, Requests
<1>3. RunsPart
  BY StatusFacts DEF RunsPart, IsOpen
<1>4. AnswersPart /\ RowsPart
  BY DEF AnswersPart, RowsPart
<1>. QED
  BY <1>1, <1>2, <1>3, <1>4 DEF AdmissionInv

-------------------------------------------------------------------------------
(* A step *)

\* A request that arrives gets the next number.
LEMMA PostFacts ==
  ASSUME AdmissionInv, NEW k \in Keys, Post(k)
  PROVE  /\ key' \in Seq(Keys) /\ Len(key') = Len(key) + 1
         /\ Len(key) + 1 \in Requests
         /\ \A r \in 1 .. Len(key) : key'[r] = key[r]
BY RequestsAssumption DEF Post, AdmissionInv, TypeOK, Requests

\* A request whose handler has begun is one of those received.
LEMMA Numbered ==
  ASSUME AdmissionInv, NEW r \in Requests, call[r] # "none"
  PROVE  r \in 1 .. Len(key) /\ key[r] \in Keys
<1>1. r <= Len(key)
  BY DEF AdmissionInv, CallsPart
<1>2. r \in Nat /\ r > 0 /\ Len(key) \in Nat
  BY RequestsAssumption DEF Requests, AdmissionInv, TypeOK
<1>3. r \in 1 .. Len(key)
  BY <1>1, <1>2
<1>. QED
  BY <1>3 DEF AdmissionInv, TypeOK

\* the types are kept
LEMMA TypeStep == AdmissionInv /\ [Next]_vars => TypeOK'
<1>. SUFFICES ASSUME AdmissionInv, [Next]_vars PROVE TypeOK'
  OBVIOUS
<1>. USE StatusFacts DEF TypeOK, AdmissionInv, Calls, Goes, Answers
<1>1. ASSUME NEW k \in Keys, Post(k) PROVE TypeOK'
  <2>1. Len(key') <= MaxRequests
    BY <1>1, PostFacts, RequestsAssumption DEF Requests
  <2>2. call' \in [Requests -> Calls]
    BY <1>1 DEF Post
  <2>. QED
    BY <1>1, <2>1, <2>2, PostFacts DEF Post
<1>2. ASSUME NEW r \in Requests, Resume(r) PROVE TypeOK'
  <2>1. CASE RequestWritten(r)
    BY <2>1 DEF RequestWritten
  <2>2. CASE ReuseRun(r)
    <3>1. key[r] \in Keys
      BY <2>2, Numbered DEF ReuseRun
    <3>2. FindByDedupeKey(key[r]) \in {0} \cup Requests
      BY <3>1, LookupFindsFirst
    <3>. QED
      BY <2>2, <3>2 DEF ReuseRun
  <2>3. CASE CreateRun(r)
    BY <2>3 DEF CreateRun
  <2>4. CASE WriteFails(r)
    BY <2>4 DEF WriteFails
  <2>5. CASE Enqueued(r)
    BY <2>5 DEF Enqueued, Requests
  <2>6. CASE EnqueueFails(r)
    BY <2>6 DEF EnqueueFails
  <2>. QED
    BY <1>2, <2>1, <2>2, <2>3, <2>4, <2>5, <2>6 DEF Resume
<1>3. ASSUME NEW r \in Requests, AddLands(r) \/ LateAddLands(r) PROVE TypeOK'
  BY <1>3 DEF AddLands, LateAddLands
<1>4. ASSUME NEW r \in Requests, NEW final \in Endings, RunCloses(r, final) PROVE TypeOK'
  BY <1>4, EndingsAssumption DEF RunCloses
<1>6. ASSUME NEW r \in Requests, RunReopens(r) PROVE TypeOK'
  BY <1>6 DEF RunReopens
<1>5. CASE UNCHANGED vars
  BY <1>5 DEF vars
<1>. QED
  BY <1>1, <1>2, <1>3, <1>4, <1>5, <1>6 DEF Next

\* What no step takes back: numbers, keys, rows, and what a run has said on its log.
LEMMA Stable ==
  ASSUME AdmissionInv, [Next]_vars
  PROVE  /\ Len(key) <= Len(key')
         /\ \A r \in 1 .. Len(key) : key'[r] = key[r]
         /\ \A r \in Requests :
              /\ status[r] # "absent" => status'[r] # "absent"
              /\ log[r] \subseteq log'[r]
         /\ \/ rows' = rows
            \/ \E r \in Requests : CreateRun(r)
<1>. USE StatusFacts DEF TypeOK, AdmissionInv
<1>1. ASSUME NEW k \in Keys, Post(k)
      PROVE  UNCHANGED <<rows, status, log>>
  BY <1>1 DEF Post
<1>2. ASSUME ~\E k \in Keys : Post(k) PROVE key' = key
  BY <1>2 DEF Next, Resume, RequestWritten, ReuseRun, CreateRun, WriteFails, Enqueued,
     EnqueueFails, AddLands, LateAddLands, RunCloses, RunReopens, vars
<1>3. ASSUME NEW r \in Requests, Resume(r)
      PROVE  /\ rows' = rows \/ CreateRun(r)
             /\ \A q \in Requests :
                  /\ status[q] # "absent" => status'[q] # "absent"
                  /\ log[q] \subseteq log'[q]
  BY <1>3 DEF Resume, RequestWritten, ReuseRun, CreateRun, WriteFails, Enqueued,
     EnqueueFails, CallsPart
<1>4. ASSUME NEW r \in Requests, NEW final \in Endings, RunCloses(r, final)
      PROVE  /\ rows' = rows
             /\ \A q \in Requests :
                  /\ status[q] # "absent" => status'[q] # "absent"
                  /\ log[q] \subseteq log'[q]
  BY <1>4, EndingsAssumption DEF RunCloses, IsOpen
<1>5. ASSUME NEW r \in Requests, AddLands(r) \/ LateAddLands(r)
      PROVE  UNCHANGED <<rows, status, log>>
  BY <1>5 DEF AddLands, LateAddLands
<1>8. ASSUME NEW r \in Requests, RunReopens(r)
      PROVE  /\ rows' = rows /\ log' = log
             /\ \A q \in Requests : status[q] # "absent" => status'[q] # "absent"
  BY <1>8 DEF RunReopens
<1>6. CASE UNCHANGED vars
  BY <1>6 DEF vars
<1>7. Len(key) <= Len(key') /\ \A r \in 1 .. Len(key) : key'[r] = key[r]
  BY <1>2, PostFacts
<1>. QED
  BY <1>1, <1>3, <1>4, <1>5, <1>6, <1>7, <1>8 DEF Next

\* where a handler is suspended says what it has done
LEMMA CallsStep == AdmissionInv /\ [Next]_vars => CallsPart'
<1>. SUFFICES ASSUME AdmissionInv, [Next]_vars PROVE CallsPart'
  OBVIOUS
<1>. USE StatusFacts DEF TypeOK, AdmissionInv, CallsPart, Goes
<1>1. ASSUME NEW k \in Keys, Post(k) PROVE CallsPart'
  <2>. DEFINE n == Len(key) + 1
  <2>1. n \in Requests /\ Len(key') = n /\ Len(key) \in Nat
    BY <1>1, PostFacts
  <2>2. /\ call' = [call EXCEPT ![n] = "request_object"]
        /\ UNCHANGED <<objects, status, jobs>>
    BY <1>1 DEF Post
  <2>3. ~(n <= Len(key))
    BY <2>1
  <2>4. \A r \in Requests : r <= Len(key') <=> r <= Len(key) \/ r = n
    BY <2>1, RequestsAssumption DEF Requests
  <2>. HIDE DEF n
  <2>5. call[n] = "none" /\ status[n] = "absent"
    BY <2>1, <2>3
  <2>. QED
    BY <2>1, <2>2, <2>4, <2>5
<1>2. ASSUME NEW r \in Requests, Resume(r) PROVE CallsPart'
  <2>1. CASE RequestWritten(r)
    BY <2>1 DEF RequestWritten
  <2>2. CASE ReuseRun(r)
    BY <2>2 DEF ReuseRun
  <2>3. CASE CreateRun(r)
    BY <2>3 DEF CreateRun
  <2>4. CASE WriteFails(r)
    BY <2>4 DEF WriteFails
  <2>5. CASE Enqueued(r)
    BY <2>5 DEF Enqueued
  <2>6. CASE EnqueueFails(r)
    BY <2>6 DEF EnqueueFails
  <2>. QED
    BY <1>2, <2>1, <2>2, <2>3, <2>4, <2>5, <2>6 DEF Resume
<1>3. ASSUME NEW r \in Requests, AddLands(r) \/ LateAddLands(r) PROVE CallsPart'
  BY <1>3 DEF AddLands, LateAddLands
<1>4. ASSUME NEW r \in Requests, NEW final \in Endings, RunCloses(r, final)
      PROVE  CallsPart'
  BY <1>4, EndingsAssumption DEF RunCloses, RunsPart
<1>6. ASSUME NEW r \in Requests, RunReopens(r) PROVE CallsPart'
  BY <1>6 DEF RunReopens, RunsPart
<1>5. CASE UNCHANGED vars
  BY <1>5 DEF vars
<1>. QED
  BY <1>1, <1>2, <1>3, <1>4, <1>5, <1>6 DEF Next

\* a run row stands for the handler that made it
LEMMA RunsStep == AdmissionInv /\ [Next]_vars => RunsPart'
<1>. SUFFICES ASSUME AdmissionInv, [Next]_vars PROVE RunsPart'
  OBVIOUS
<1>. USE StatusFacts DEF TypeOK, AdmissionInv, RunsPart, IsOpen
<1>1. ASSUME NEW k \in Keys, Post(k) PROVE RunsPart'
  BY <1>1 DEF Post
<1>2. ASSUME NEW r \in Requests, Resume(r) PROVE RunsPart'
  <2>1. CASE RequestWritten(r) \/ ReuseRun(r) \/ WriteFails(r)
    BY <2>1, ZenonT(30) DEF RequestWritten, ReuseRun, WriteFails
  <2>2. CASE CreateRun(r)
    BY <2>2 DEF CreateRun, CallsPart
  <2>3. CASE Enqueued(r)
    BY <2>3 DEF Enqueued, CallsPart
  <2>4. CASE EnqueueFails(r)
    BY <2>4 DEF EnqueueFails, CallsPart
  <2>. QED
    BY <1>2, <2>1, <2>2, <2>3, <2>4 DEF Resume
<1>3. ASSUME NEW r \in Requests, AddLands(r) \/ LateAddLands(r) PROVE RunsPart'
  BY <1>3 DEF AddLands, LateAddLands, CallsPart
<1>4. ASSUME NEW r \in Requests, NEW final \in Endings, RunCloses(r, final)
      PROVE  RunsPart'
  BY <1>4, EndingsAssumption DEF RunCloses
<1>6. ASSUME NEW r \in Requests, RunReopens(r) PROVE RunsPart'
  BY <1>6 DEF RunReopens
<1>5. CASE UNCHANGED vars
  BY <1>5 DEF vars
<1>. QED
  BY <1>1, <1>2, <1>3, <1>4, <1>5, <1>6 DEF Next

\* an answer names a run of the key that was asked for
LEMMA AnswersStep == AdmissionInv /\ [Next]_vars => AnswersPart'
<1>. SUFFICES ASSUME AdmissionInv, [Next]_vars, NEW r \in Requests, answer'[r] # 0
              PROVE  /\ r <= Len(key') /\ answer'[r] <= Len(key')
                     /\ key'[answer'[r]] = key'[r]
                     /\ status'[answer'[r]] # "absent"
  BY DEF AnswersPart
<1>1. /\ r <= Len(key) /\ answer'[r] \in Requests /\ answer'[r] <= Len(key)
      /\ key[answer'[r]] = key[r]
      /\ status'[answer'[r]] # "absent"
  <2>1. CASE answer'[r] = answer[r]
    <3>1. answer[r] \in Requests
      BY <2>1 DEF AdmissionInv, TypeOK
    <3>. QED
      BY <2>1, <3>1, Stable DEF AdmissionInv, AnswersPart
  <2>2. ASSUME NEW q \in Requests, ReuseRun(q), answer'[r] # answer[r]
        PROVE  /\ q = r /\ r <= Len(key) /\ answer'[r] \in Requests
               /\ answer'[r] <= Len(key) /\ key[answer'[r]] = key[r]
               /\ status'[answer'[r]] # "absent"
    <3>1. q = r /\ answer'[r] = FindByDedupeKey(key[r]) /\ call[r] # "none"
      BY <2>2 DEF ReuseRun, Answers, AdmissionInv, TypeOK
    <3>2. key[r] \in Keys /\ r \in 1 .. Len(key)
      BY <3>1, Numbered
    <3>3. /\ FindByDedupeKey(key[r]) \in 0 .. Len(key)
          /\ FindByDedupeKey(key[r]) \in {0} \cup Requests
      BY <3>2, LookupFindsFirst
    <3>4. WithKey(key[r]) # {}
      BY <3>1, <3>2, LookupFindsFirst
    <3>5. /\ key[FindByDedupeKey(key[r])] = key[r]
          /\ status[FindByDedupeKey(key[r])] # "absent"
      BY <3>2, <3>4, LookupFindsFirst
    <3>. QED
      BY <3>1, <3>2, <3>3, <3>5, Stable
  <2>3. ASSUME NEW q \in Requests, Enqueued(q), answer'[r] # answer[r]
        PROVE  /\ q = r /\ r <= Len(key) /\ answer'[r] = r
               /\ status'[r] # "absent"
    <3>1. q = r /\ answer'[r] = r /\ call[r] # "none"
      BY <2>3 DEF Enqueued, Answers, AdmissionInv, TypeOK
    <3>2. status'[r] = "planning_queued"
      BY <2>3, <3>1 DEF Enqueued, AdmissionInv, TypeOK
    <3>. QED
      BY <3>1, <3>2, Numbered
  <2>4. CASE ~\E q \in Requests : ReuseRun(q) \/ Enqueued(q)
    <3>1. answer' = answer
      BY <2>4 DEF Next, Post, Resume, RequestWritten, CreateRun, WriteFails, EnqueueFails,
         AddLands, LateAddLands, RunCloses, RunReopens, vars
    <3>. QED
      BY <2>1, <3>1
  <2>. QED
    BY <2>1, <2>2, <2>3, <2>4
<1>2. r \in 1 .. Len(key) /\ answer'[r] \in 1 .. Len(key)
  BY <1>1, RequestsAssumption DEF Requests, AdmissionInv, TypeOK
<1>3. Len(key) \in Nat /\ Len(key') \in Nat /\ r \in Nat /\ answer'[r] \in Nat
  BY <1>2, TypeStep DEF TypeOK, AdmissionInv
<1>. QED
  BY <1>1, <1>2, <1>3, Stable

\* What RowsPart says of one key.
FirstOf(k) ==
  \E first \in WithKey(k) :
    /\ \A j \in WithKey(k) : first <= j
    /\ \A j \in WithKey(k) : first # j => log[rows[first]] \cap TerminalEvents # {}

\* A row stays the first of its key, and once there are more its run has ended.
LEMMA RowsStep == AdmissionInv /\ [Next]_vars => RowsPart'
<1>. SUFFICES ASSUME AdmissionInv, [Next]_vars PROVE RowsPart'
  OBVIOUS
<1>1. /\ Len(key) \in Nat /\ Len(key') \in Nat /\ Len(rows) \in Nat
      /\ Len(key) <= Len(key')
      /\ rows \in Seq(Requests)
      /\ \A i \in 1 .. Len(rows) :
           /\ rows[i] \in Requests /\ rows[i] \in 1 .. Len(key)
           /\ key[rows[i]] \in Keys /\ key'[rows[i]] = key[rows[i]]
           /\ status[rows[i]] # "absent" /\ status'[rows[i]] # "absent"
           /\ FirstOf(key[rows[i]])
  <2>1. \A i \in 1 .. Len(rows) : rows[i] \in Requests
    BY DEF AdmissionInv, TypeOK
  <2>2. \A i \in 1 .. Len(rows) : rows[i] <= Len(key)
    BY DEF AdmissionInv, RowsPart
  <2>3. \A i \in 1 .. Len(rows) : rows[i] \in 1 .. Len(key)
    <3>1. Len(key) \in Nat
      BY DEF AdmissionInv, TypeOK
    <3>2. \A q \in Requests : q <= Len(key) => q \in 1 .. Len(key)
      BY <3>1, RequestsAssumption DEF Requests
    <3>. QED
      BY <2>1, <2>2, <3>2
  <2>4. \A i \in 1 .. Len(rows) : status[rows[i]] # "absent" /\ FirstOf(key[rows[i]])
    BY DEF AdmissionInv, RowsPart, FirstOf
  <2>5. \A i \in 1 .. Len(rows) : key[rows[i]] \in Keys
    BY <2>3 DEF AdmissionInv, TypeOK
  <2>6. \A i \in 1 .. Len(rows) :
          key'[rows[i]] = key[rows[i]] /\ status'[rows[i]] # "absent"
    BY <2>1, <2>3, <2>4, Stable
  <2>7. Len(key') \in Nat
    BY TypeStep DEF TypeOK
  <2>. QED
    BY <2>1, <2>3, <2>4, <2>5, <2>6, <2>7, Stable DEF AdmissionInv, TypeOK
<1>2. CASE rows' = rows
  <2>1. \A k \in Keys : WithKey(k)' = WithKey(k)
    BY <1>1, <1>2 DEF WithKey
  <2>2. SUFFICES ASSUME NEW i \in 1 .. Len(rows)
                 PROVE  /\ rows[i] <= Len(key')
                        /\ status'[rows[i]] # "absent"
                        /\ FirstOf(key[rows[i]])'
    BY <1>1, <1>2 DEF RowsPart, FirstOf
  <2>3. PICK k \in Keys : k = key[rows[i]]
    BY <1>1
  <2>4. FirstOf(k)
    BY <1>1, <2>3
  <2>5. \A j \in WithKey(k) : rows[j] \in Requests
    BY <1>1 DEF WithKey
  <2>6. FirstOf(k)'
    BY <1>2, <2>1, <2>4, <2>5, Stable DEF FirstOf
  <2>. QED
    BY <1>1, <1>2, <2>3, <2>6
<1>3. ASSUME NEW r \in Requests, CreateRun(r) PROVE RowsPart'
  <2>0. PICK n \in Nat : n = Len(rows) + 1
    BY <1>1
  <2>1. r \in 1 .. Len(key) /\ key[r] \in Keys
    BY <1>3, Numbered DEF CreateRun
  <2>2. /\ key' = key /\ rows' = Append(rows, r) /\ ~Reusable(key[r])
        /\ status'[r] = "enqueue_pending"
    BY <1>3 DEF CreateRun, AdmissionInv, TypeOK
  <2>3. /\ Len(rows') = n /\ rows'[n] = r
        /\ n \in Nat /\ n \notin 1 .. Len(rows)
        /\ 1 .. n = 1 .. Len(rows) \cup {n}
        /\ \A i \in 1 .. Len(rows) : i <= n /\ rows'[i] = rows[i]
    BY <1>1, <2>0, <2>2
  <2>4. \A k \in Keys : WithKey(k) \subseteq 1 .. Len(rows)
    BY DEF WithKey
  <2>5. \A k \in Keys : k # key[r] => WithKey(k)' = WithKey(k)
    BY <2>2, <2>3 DEF WithKey
  <2>6. WithKey(key[r])' = WithKey(key[r]) \cup {n}
    BY <2>2, <2>3 DEF WithKey
  <2>7. ASSUME NEW k \in Keys, k # key[r], FirstOf(k) PROVE FirstOf(k)'
    <3>1. \A j \in WithKey(k) : rows'[j] = rows[j] /\ rows[j] \in Requests
      BY <1>1, <2>3, <2>4
    <3>. QED
      BY <2>5, <2>7, <3>1, Stable DEF FirstOf
  <2>8. ASSUME NEW k \in Keys, k = key[r] PROVE FirstOf(k)'
    <3>0. WithKey(k)' = WithKey(k) \cup {n}
      BY <2>2, <2>6, <2>8
    <3>1. CASE WithKey(k) = {}
      <4>1. WithKey(k)' = {n}
        BY <3>0, <3>1
      <4>. QED
        BY <4>1, <2>3 DEF FirstOf
    <3>2. CASE WithKey(k) # {}
      <4>1. PICK first \in WithKey(k) :
              /\ FindByDedupeKey(k) = rows[first]
              /\ status[rows[first]] # "absent"
              /\ \A j \in WithKey(k) : first <= j
        BY <3>2, LookupFindsFirst
      <4>2. first \in 1 .. Len(rows) /\ rows[first] \in Requests
        BY <1>1, <2>4, <4>1
      <4>3. FindByDedupeKey(k) # 0
        BY <3>2, LookupFindsFirst
      <4>4. status[rows[first]] \in TerminalRunStatuses
        BY <2>2, <2>8, <4>1, <4>3 DEF Reusable, IsOpen
      <4>7. log[rows[first]] \cap TerminalEvents # {}
        BY <4>2, <4>4 DEF AdmissionInv, RunsPart
      <4>5. rows'[first] = rows[first] /\ log'[rows[first]] \cap TerminalEvents # {}
        BY <2>3, <4>2, <4>7, Stable
      <4>6. \A j \in WithKey(k)' : first <= j
        BY <2>3, <3>0, <4>1, <4>2
      <4>. QED
        BY <3>0, <4>1, <4>5, <4>6 DEF FirstOf
    <3>. QED
      BY <3>1, <3>2
  <2>9. \A i \in 1 .. Len(rows) :
          /\ rows'[i] <= Len(key') /\ status'[rows'[i]] # "absent"
          /\ key'[rows'[i]] \in Keys /\ FirstOf(key[rows[i]])'
          /\ key'[rows'[i]] = key[rows[i]]
    BY <1>1, <2>2, <2>3, <2>7, <2>8
  <2>10. rows'[n] <= Len(key') /\ status'[rows'[n]] # "absent" /\ key'[rows'[n]] = key[r]
    BY <2>1, <2>2, <2>3
  <2>11. \A i \in 1 .. Len(rows') : FirstOf(key[rows[i]])'
    <3>1. PICK k \in Keys : k = key[r]
      BY <2>1
    <3>2. FirstOf(k)'
      BY <2>8, <3>1
    <3>3. FirstOf(key[rows[n]])'
      BY <2>10, <3>1, <3>2
    <3>4. ASSUME NEW i \in 1 .. Len(rows') PROVE FirstOf(key[rows[i]])'
      BY <2>3, <2>9, <3>3
    <3>. QED
      BY <3>4
  <2>. QED
    BY <2>3, <2>9, <2>10, <2>11 DEF RowsPart, FirstOf
<1>. QED
  BY <1>2, <1>3, Stable

\* The invariant holds in every reachable state.
THEOREM InductiveInvariant == Spec => []AdmissionInv
<1>1. AdmissionInv /\ [Next]_vars => AdmissionInv'
  BY TypeStep, CallsStep, RunsStep, AnswersStep, RowsStep DEF AdmissionInv
<1>. QED
  BY InitInv, <1>1, PTL DEF Spec

\* Every variable of RunAdmission stays in its type (startRun's rows, objects, jobs).
THEOREM AdmissionTypeCorrect == Spec => []TypeOK
BY InductiveInvariant, PTL DEF AdmissionInv

\* No job is queued, and none is still on its way, whose objects or run row are
\* missing: the order of the writes of startRun.
THEOREM QueuedJobsAreReadable == Spec => []JobsAreReadable
<1>1. AdmissionInv => JobsAreReadable
  BY DEF AdmissionInv, TypeOK, RunsPart, JobsAreReadable
<1>. QED
  BY <1>1, InductiveInvariant, PTL

\* Whoever was answered with a run can follow it, also when the answer was given
\* before that run was in the queue.
THEOREM AnswersAreFollowed == Spec => []AnsweredRunIsFollowed
<1>1. AdmissionInv => AnsweredRunIsFollowed
  <2>. SUFFICES ASSUME AdmissionInv, NEW r \in Requests, answer[r] # 0
                PROVE  /\ key[answer[r]] = key[r]
                       /\ status[answer[r]] = "enqueue_pending" \/ log[answer[r]] # {}
    BY DEF AnsweredRunIsFollowed
  <2>1. answer[r] \in Requests
    BY DEF AdmissionInv, TypeOK
  <2>2. key[answer[r]] = key[r] /\ status[answer[r]] # "absent"
    BY DEF AdmissionInv, AnswersPart
  <2>. QED
    BY <2>1, <2>2 DEF AdmissionInv, TypeOK, RunsPart, IsOpen
<1>. QED
  BY <1>1, InductiveInvariant, PTL

\* However requests with one key overlap, a second run of the key exists only once
\* its first has said on its log that it ended, although a retry may open that first
\* run again: the lookup and the rows are one step of startRun.
THEOREM FirstRunHasItsKey == Spec => []FirstRunFirst
<1>1. AdmissionInv => FirstRunFirst
  <2>. SUFFICES ASSUME AdmissionInv, NEW i \in 1 .. Len(rows), NEW j \in 1 .. Len(rows),
                       key[rows[i]] = key[rows[j]], i < j
                PROVE  \E first \in 1 .. i :
                         /\ key[rows[first]] = key[rows[i]]
                         /\ log[rows[first]] \cap TerminalEvents # {}
    BY DEF FirstRunFirst
  <2>1. PICK k : k = key[rows[i]]
    OBVIOUS
  <2>2. i \in WithKey(k) /\ j \in WithKey(k)
    BY <2>1 DEF WithKey
  <2>3. PICK first \in WithKey(k) :
          /\ \A m \in WithKey(k) : first <= m
          /\ \A m \in WithKey(k) : first # m => log[rows[first]] \cap TerminalEvents # {}
    BY <2>1 DEF AdmissionInv, RowsPart
  <2>4. first \in 1 .. Len(rows) /\ key[rows[first]] = k /\ first <= i
    BY <2>2, <2>3 DEF WithKey
  <2>5. first \in 1 .. i /\ first # j
    BY <2>4
  <2>. QED
    BY <2>1, <2>2, <2>3, <2>4, <2>5
<1>. QED
  BY <1>1, InductiveInvariant, PTL

\* An open run past its enqueue was given its attempt row, its timer and its job, with any
\* failure of the store or of the queue on the way.
THEOREM OpenRunsAreWatched == Spec => []OpenRunIsWatched
<1>1. AdmissionInv => OpenRunIsWatched
  BY DEF AdmissionInv, TypeOK, CallsPart, RunsPart, OpenRunIsWatched
<1>. QED
  BY <1>1, InductiveInvariant, PTL
===============================================================================
