-------------------------- MODULE EventStreamProofs --------------------------
(***************************************************************************)
(* Subscribing before listing loses no event, for any number of runs and   *)
(* clients and whether or not other handlers run at the awaits; and where  *)
(* they do not, a client reads the events of its run in order, each once.  *)
(***************************************************************************)
EXTENDS EventStream, PositionsProofs

Shapes ==
  /\ log \in Seq(Runs)
  /\ unpublished \subseteq 1 .. Len(log)
  /\ stage \in [Clients -> {"off", "listing", "live"}]
  /\ after = [c \in Clients |-> after[c]]
  /\ listed \in [Clients -> SUBSET Nat]
  /\ delivered \in [Clients -> SUBSET Nat]

\* What a connection owes is either written or in the list it will write.
Owed(c) ==
  /\ delivered[c] \cup listed[c] \subseteq EventsOf(Follows[c])
  /\ \A e \in EventsOf(Follows[c]) \ unpublished :
       e > after[c] => e \in delivered[c] \cup listed[c]
  /\ stage[c] = "live" => listed[c] = {}

StreamInv == Shapes /\ \A c \in Clients : stage[c] # "off" => Owed(c)

-------------------------------------------------------------------------------
\* nobody has a connection at first, and nothing is owed
LEMMA InitInv == Init => StreamInv
BY DEF Init, StreamInv, Shapes

\* The new event is not published yet: nobody is owed it.
LEMMA StoreStep == ASSUME StreamInv, NEW r \in Runs, Store(r) PROVE StreamInv'
<1>. DEFINE n == Len(log) + 1
<1>1. /\ log' = Append(log, r) /\ unpublished' = unpublished \cup {n}
      /\ UNCHANGED <<stage, after, listed, delivered>>
  BY DEF Store
<1>2. log' \in Seq(Runs) /\ Len(log') = n /\ Len(log) \in Nat
  BY <1>1 DEF StreamInv, Shapes
<1>3. \A e \in 1 .. Len(log) : e \in 1 .. Len(log') /\ log'[e] = log[e]
  BY <1>1 DEF StreamInv, Shapes
<1>4. \A e \in 1 .. Len(log') : e \in 1 .. Len(log) \/ e = n
  BY <1>2
<1>5. unpublished' \subseteq 1 .. Len(log')
  BY <1>1, <1>2 DEF StreamInv, Shapes
<1>. HIDE DEF n
<1>6. Shapes'
  BY <1>1, <1>2, <1>5 DEF StreamInv, Shapes
<1>7. \A q \in Runs : /\ EventsOf(q) \subseteq EventsOf(q)'
                      /\ EventsOf(q)' \ unpublished' \subseteq EventsOf(q) \ unpublished
  BY <1>1, <1>3, <1>4 DEF EventsOf
<1>8. ASSUME NEW c \in Clients, stage'[c] # "off" PROVE Owed(c)'
  <2>1. Owed(c) /\ Follows[c] \in Runs
    BY <1>1, <1>8, FollowsAssumption DEF StreamInv
  <2>2. EventsOf(Follows[c])' \ unpublished' \subseteq EventsOf(Follows[c]) \ unpublished
    BY <1>7, <2>1
  <2>3. EventsOf(Follows[c]) \subseteq EventsOf(Follows[c])'
    BY <1>7, <2>1
  <2>. QED
    BY <1>1, <2>1, <2>2, <2>3 DEF Owed
<1>. QED
  BY <1>6, <1>8 DEF StreamInv

\* Whoever listens is written the event as it stops being unpublished.
LEMMA PublishStep == ASSUME StreamInv, NEW e \in Offsets, Publish(e) PROVE StreamInv'
<1>1. /\ e \in unpublished /\ unpublished' = unpublished \ {e}
      /\ UNCHANGED <<log, stage, after, listed>>
      /\ delivered' = [c \in Clients |->
                         IF Writes(c, e) THEN delivered[c] \cup {e} ELSE delivered[c]]
  BY DEF Publish
<1>2. e \in 1 .. Len(log) /\ e \in Nat
  BY <1>1 DEF StreamInv, Shapes
<1>3. Shapes'
  BY <1>1, <1>2 DEF StreamInv, Shapes
<1>4. ASSUME NEW c \in Clients, stage'[c] # "off" PROVE Owed(c)'
  <2>1. Owed(c) /\ EventsOf(Follows[c])' = EventsOf(Follows[c])
    BY <1>1, <1>4 DEF StreamInv, EventsOf
  <2>2. Writes(c, e) => e \in EventsOf(Follows[c])
    BY <1>2 DEF Writes, Listening, EventsOf
  <2>3. e \in EventsOf(Follows[c]) => e \in delivered'[c]
    BY <1>1, <1>4 DEF Writes, Listening, EventsOf
  <2>4. delivered[c] \subseteq delivered'[c] /\ delivered'[c] \subseteq delivered[c] \cup {e}
    BY <1>1
  <2>5. delivered'[c] \subseteq EventsOf(Follows[c])
    <3>1. Writes(c, e) => delivered'[c] = delivered[c] \cup {e}
      BY <1>1
    <3>2. ~Writes(c, e) => delivered'[c] = delivered[c]
      BY <1>1
    <3>. QED
      BY <2>1, <2>2, <3>1, <3>2 DEF Owed
  <2>. QED
    BY <1>1, <2>1, <2>3, <2>4, <2>5 DEF Owed
<1>. QED
  BY <1>3, <1>4 DEF StreamInv

\* The subscription and the list are one step: nothing falls between the two.
LEMMA ConnectStep == ASSUME StreamInv, NEW c \in Clients, Connect(c) PROVE StreamInv'
<1>1. /\ UNCHANGED <<log, unpublished>>
      /\ stage' = [stage EXCEPT ![c] = "listing"]
      /\ after' = [after EXCEPT ![c] = Cursor(c)]
      /\ listed' = [listed EXCEPT ![c] = Stored(c)]
      /\ delivered' = [delivered EXCEPT ![c] = {}]
  BY DEF Connect
<1>2. Stored(c) \in SUBSET Nat
  BY DEF Stored, EventsOf, StreamInv, Shapes
<1>3. Shapes'
  BY <1>1, <1>2 DEF StreamInv, Shapes
<1>4. ASSUME NEW d \in Clients, stage'[d] # "off" PROVE Owed(d)'
  <2>1. EventsOf(Follows[d])' = EventsOf(Follows[d])
    BY <1>1 DEF EventsOf
  <2>2. CASE d = c
    <3>1. /\ after'[c] = Cursor(c) /\ listed'[c] = Stored(c) /\ delivered'[c] = {}
          /\ stage'[c] = "listing"
      BY <1>1 DEF StreamInv, Shapes
    <3>. QED
      BY <1>1, <2>1, <2>2, <3>1 DEF Owed, Stored
  <2>3. CASE d # c
    <3>1. /\ after'[d] = after[d] /\ listed'[d] = listed[d] /\ delivered'[d] = delivered[d]
          /\ stage'[d] = stage[d]
      BY <1>1, <2>3 DEF StreamInv, Shapes
    <3>. QED
      BY <1>1, <1>4, <2>1, <3>1 DEF StreamInv, Owed
  <2>. QED
    BY <2>2, <2>3
<1>. QED
  BY <1>3, <1>4 DEF StreamInv

\* The rest: the list is written, an event is read, the connection is lost.
LEMMA OtherStep ==
  ASSUME StreamInv, NEW c \in Clients, Replay(c) \/ Receive(c) \/ Drop(c)
  PROVE  StreamInv'
<1>1. UNCHANGED <<log, unpublished, after>>
  BY DEF Replay, Receive, Drop
<1>2. Shapes'
  BY <1>1, SMTT(20) DEF Replay, Receive, Drop, StreamInv, Shapes
<1>3. ASSUME NEW d \in Clients, stage'[d] # "off" PROVE Owed(d)'
  <2>1. EventsOf(Follows[d])' = EventsOf(Follows[d])
    BY <1>1 DEF EventsOf
  <2>2. /\ stage[d] # "off"
        /\ delivered'[d] \cup listed'[d] = delivered[d] \cup listed[d]
        /\ stage'[d] = "live" => \/ stage[d] = "live" /\ listed'[d] = listed[d]
                                 \/ listed'[d] = {}
    BY <1>3 DEF Replay, Receive, Drop, StreamInv, Shapes
  <2>. QED
    BY <1>1, <2>1, <2>2 DEF StreamInv, Owed
<1>. QED
  BY <1>2, <1>3 DEF StreamInv

\* nothing owed changes when nothing happens
LEMMA StutterStep == StreamInv /\ UNCHANGED vars => StreamInv'
BY DEF StreamInv, Shapes, Owed, EventsOf, vars

\* What a connection owes its client is written or about to be, in every reachable state.
THEOREM InductiveInvariant == Spec => []StreamInv
<1>1. StreamInv /\ [Next]_vars => StreamInv'
  BY StoreStep, PublishStep, ConnectStep, OtherStep, StutterStep DEF Next
<1>. QED
  BY InitInv, <1>1, PTL DEF Spec

\* A connection that has written its list has written every published event after
\* its cursor, whenever that event was logged: the SSE route subscribes, then lists.
THEOREM NothingMissed == Spec => []ConnectionMissesNothing
<1>1. StreamInv => ConnectionMissesNothing
  BY DEF StreamInv, Owed, ConnectionMissesNothing
<1>. QED
  BY <1>1, InductiveInvariant, PTL

-------------------------------------------------------------------------------
(* Types *)

\* the cursor of a connection is an offset or 0
LEMMA CursorType == ASSUME TypeOK, NEW c \in Clients PROVE Cursor(c) \in Nat
<1>1. got[c] \in Seq(Nat)
  BY BoundsAssumption DEF TypeOK, Offsets
<1>2. ASSUME got[c] # <<>> PROVE got[c][Len(got[c])] \in Nat
  BY <1>1, <1>2
<1>. QED
  BY <1>2, CursorAssumption DEF Cursor, LastRead

\* what is listed is a set of offsets
LEMMA StoredType == ASSUME TypeOK, NEW c \in Clients PROVE Stored(c) \in SUBSET Offsets
<1>1. Len(log) \in Nat /\ Len(log) <= MaxEvents /\ MaxEvents \in Nat
  BY BoundsAssumption DEF TypeOK
<1>. QED
  BY <1>1 DEF Stored, EventsOf, Offsets

\* a set of offsets listed in order is a list of offsets
LEMMA ListedType == ASSUME NEW S \in SUBSET Offsets PROVE InOrder(S) \in Seq(Offsets)
<1>1. S \in SUBSET Nat /\ IsFiniteSet(S)
  <2>1. IsFiniteSet(1 .. MaxEvents)
    BY BoundsAssumption, FS_Interval
  <2>2. IsFiniteSet(S)
    BY <2>1, FS_Subset DEF Offsets
  <2>. QED
    BY <2>2, BoundsAssumption DEF Offsets
<1>2. InOrder(S) \in Seq(S)
  BY <1>1, InOrderFacts
<1>. QED
  BY <1>2

\* TypeOK: a connection lists, writes and reads offsets of the log, whatever is lost
\* and whenever it resumes.
THEOREM TypeCorrect == Spec => []TypeOK
<1>. USE BoundsAssumption
<1>1. Init => TypeOK
  BY DEF Init, TypeOK
<1>2. TypeOK /\ [Next]_vars => TypeOK'
  <2>. SUFFICES ASSUME TypeOK, [Next]_vars PROVE TypeOK'
    OBVIOUS
  <2>1. ASSUME NEW r \in Runs, Store(r) PROVE TypeOK'
    <3>1. /\ log' \in Seq(Runs) /\ Len(log') = Len(log) + 1 /\ Len(log) \in Nat
          /\ Len(log) < MaxEvents
      BY <2>1 DEF Store, TypeOK
    <3>2. Len(log') <= MaxEvents
      BY <3>1
    <3>3. unpublished' \subseteq 1 .. Len(log')
      <4>1. unpublished' = unpublished \cup {Len(log) + 1} /\ unpublished \subseteq 1 .. Len(log)
        BY <2>1 DEF Store, TypeOK
      <4>. DEFINE n == Len(log)
                  m == Len(log')
      <4>2. n \in Nat /\ m = n + 1
        BY <3>1
      <4>. HIDE DEF n, m
      <4>3. 1 .. n \subseteq 1 .. m /\ n + 1 \in 1 .. m
        BY <4>2
      <4>. QED
        BY <4>1, <4>3 DEF n, m
    <3>. QED
      BY <2>1, <3>1, <3>2, <3>3 DEF Store, TypeOK
  <2>2. ASSUME NEW e \in Offsets, Publish(e) PROVE TypeOK'
    BY <2>2 DEF Publish, TypeOK
  <2>3. ASSUME NEW c \in Clients, Connect(c) PROVE TypeOK'
    <3>1. Cursor(c) \in Nat /\ Stored(c) \in SUBSET Offsets
      BY CursorType, StoredType
    <3>2. UNCHANGED <<log, unpublished, got, drops>>
      BY <2>3 DEF Connect
    <3>3. /\ after' \in [Clients -> Nat]
          /\ listed' \in [Clients -> SUBSET Offsets]
      BY <2>3, <3>1 DEF Connect, TypeOK
    <3>4. /\ stage' \in [Clients -> {"off", "listing", "live"}]
          /\ delivered' \in [Clients -> SUBSET Offsets]
          /\ wire' \in [Clients -> Seq(Offsets)]
      BY <2>3 DEF Connect, TypeOK
    <3>. QED
      BY <3>2, <3>3, <3>4 DEF TypeOK
  <2>4. ASSUME NEW c \in Clients, Replay(c) PROVE TypeOK'
    <3>1. listed[c] \ delivered[c] \in SUBSET Offsets
      BY DEF TypeOK
    <3>2. InOrder(listed[c] \ delivered[c]) \in Seq(Offsets)
      BY <3>1, ListedType
    <3>3. wire[c] \o InOrder(listed[c] \ delivered[c]) \in Seq(Offsets)
      BY <3>2 DEF TypeOK
    <3>. QED
      BY <2>4, <3>3 DEF Replay, TypeOK
  <2>5. ASSUME NEW c \in Clients, Receive(c) PROVE TypeOK'
    <3>1. wire[c] \in Seq(Offsets) /\ wire[c] # <<>> /\ got[c] \in Seq(Offsets)
      BY <2>5 DEF Receive, TypeOK
    <3>2. Head(wire[c]) \in Offsets /\ Tail(wire[c]) \in Seq(Offsets)
      BY <3>1
    <3>3. Append(got[c], Head(wire[c])) \in Seq(Offsets)
      BY <3>1, <3>2
    <3>. QED
      BY <2>5, <3>2, <3>3 DEF Receive, TypeOK
  <2>6. ASSUME NEW c \in Clients, Drop(c) PROVE TypeOK'
    <3>1. drops[c] \in 0 .. MaxDrops /\ drops[c] < MaxDrops
      BY <2>6 DEF Drop, TypeOK
    <3>2. drops[c] + 1 \in 0 .. MaxDrops
      BY <3>1
    <3>. QED
      BY <2>6, <3>2 DEF Drop, TypeOK
  <2>7. ASSUME UNCHANGED vars PROVE TypeOK'
    BY <2>7 DEF vars, TypeOK
  <2>. QED
    BY <2>1, <2>2, <2>3, <2>4, <2>5, <2>6, <2>7 DEF Next
<1>. QED
  BY <1>1, <1>2, PTL DEF Spec

-------------------------------------------------------------------------------
(* The events of a run in order *)

\* the offsets of one run in the log are finitely many
LEMMA FiniteLog ==
  ASSUME log \in Seq(Runs), NEW r
  PROVE  EventsOf(r) \in SUBSET Nat /\ IsFiniteSet(EventsOf(r))
<1>1. Len(log) \in Nat /\ EventsOf(r) \in SUBSET (1 .. Len(log))
  BY DEF EventsOf
<1>2. IsFiniteSet(1 .. Len(log))
  BY <1>1, FS_Interval
<1>. QED
  BY <1>1, <1>2, FS_Subset

\* One increasing sequence after another that lies above it.
LEMMA Joined ==
  ASSUME NEW s \in Seq(Nat), NEW t \in Seq(Nat), Increasing(s), Increasing(t),
         \A x \in Elems(s), y \in Elems(t) : x < y
  PROVE  /\ s \o t \in Seq(Nat) /\ Increasing(s \o t)
         /\ Elems(s \o t) = Elems(s) \cup Elems(t)
<1>1. /\ s \o t \in Seq(Nat) /\ Len(s \o t) = Len(s) + Len(t)
      /\ Len(s) \in Nat /\ Len(t) \in Nat
      /\ \A i \in 1 .. Len(s \o t) : (s \o t)[i] = IF i <= Len(s) THEN s[i] ELSE t[i - Len(s)]
  OBVIOUS
<1>2. \A i \in 1 .. Len(s) : i \in 1 .. Len(s \o t) /\ (s \o t)[i] = s[i] /\ s[i] \in Elems(s)
  BY <1>1 DEF Elems
<1>3. \A i \in 1 .. Len(t) : /\ Len(s) + i \in 1 .. Len(s \o t)
                            /\ (s \o t)[Len(s) + i] = t[i] /\ t[i] \in Elems(t)
  BY <1>1 DEF Elems
<1>4. \A i \in 1 .. Len(s \o t) : i \in 1 .. Len(s) \/ \E j \in 1 .. Len(t) : i = Len(s) + j
  <2>1. ASSUME NEW i \in 1 .. Len(s \o t), ~(i \in 1 .. Len(s))
        PROVE  i - Len(s) \in 1 .. Len(t) /\ i = Len(s) + (i - Len(s))
    BY <1>1, <2>1
  <2>. QED
    BY <2>1
<1>5. Elems(s \o t) = Elems(s) \cup Elems(t)
  <2>1. Elems(s \o t) \subseteq Elems(s) \cup Elems(t)
    BY <1>2, <1>3, <1>4 DEF Elems
  <2>2. Elems(s) \subseteq Elems(s \o t)
    BY <1>2 DEF Elems
  <2>3. Elems(t) \subseteq Elems(s \o t)
    BY <1>3 DEF Elems
  <2>. QED
    BY <2>1, <2>2, <2>3
<1>6. ASSUME NEW i \in 1 .. Len(s \o t), NEW j \in 1 .. Len(s \o t), i < j
      PROVE  (s \o t)[i] < (s \o t)[j]
  <2>1. CASE i \in 1 .. Len(s) /\ j \in 1 .. Len(s)
    BY <1>2, <1>6, <2>1 DEF Increasing
  <2>2. CASE i \in 1 .. Len(s) /\ j \notin 1 .. Len(s)
    BY <1>2, <1>3, <1>4, <2>2
  <2>3. CASE i \notin 1 .. Len(s)
    <3>1. PICK k \in 1 .. Len(t) : i = Len(s) + k
      BY <1>4, <2>3
    <3>2. j \notin 1 .. Len(s)
      BY <1>1, <1>6, <2>3
    <3>3. PICK l \in 1 .. Len(t) : j = Len(s) + l
      BY <1>4, <3>2
    <3>4. k < l
      BY <1>1, <1>6, <3>1, <3>3
    <3>. QED
      BY <1>3, <3>1, <3>3, <3>4 DEF Increasing
  <2>. QED
    BY <2>1, <2>2, <2>3
<1>. QED
  BY <1>1, <1>5, <1>6 DEF Increasing

\* what the elements of a joined sequence are
LEMMA Concatenated ==
  ASSUME NEW s \in Seq(Nat), NEW t \in Seq(Nat)
  PROVE  /\ Len(s) \in Nat /\ Len(t) \in Nat
         /\ s \o t \in Seq(Nat) /\ Len(s \o t) = Len(s) + Len(t)
         /\ \A i \in 1 .. (Len(s) + Len(t)) :
              (s \o t)[i] = IF i <= Len(s) THEN s[i] ELSE t[i - Len(s)]
OBVIOUS

\* sequences with the same elements are the same
LEMMA SameSequence ==
  ASSUME NEW s \in Seq(Nat), NEW t \in Seq(Nat), Len(s) = Len(t),
         \A i \in 1 .. Len(s) : s[i] = t[i]
  PROVE  s = t
BY SMTT(20)

\* joining nothing changes nothing
LEMMA NothingAfter == ASSUME NEW s \in Seq(Nat) PROVE s \o <<>> = s
<1>. DEFINE t == <<>>
<1>1. t \in Seq(Nat) /\ Len(t) = 0
  OBVIOUS
<1>. HIDE DEF t
<1>2. /\ Len(s) \in Nat /\ s \o t \in Seq(Nat) /\ Len(s \o t) = Len(s) + Len(t)
      /\ \A i \in 1 .. (Len(s) + Len(t)) :
           (s \o t)[i] = IF i <= Len(s) THEN s[i] ELSE t[i - Len(s)]
  BY <1>1, Concatenated
<1>3. Len(s \o t) = Len(s) /\ \A i \in 1 .. Len(s) : (s \o t)[i] = s[i]
  BY <1>1, <1>2
<1>4. s \o t = s
  BY <1>2, <1>3, SameSequence
<1>. QED
  BY <1>4 DEF t

\* appending to the second part appends to the whole
LEMMA Extended ==
  ASSUME NEW s \in Seq(Nat), NEW t \in Seq(Nat), NEW e \in Nat
  PROVE  s \o Append(t, e) = (s \o t) \o <<e>>
<1>. DEFINE u == Append(t, e)
            v == s \o t
            w == <<e>>
<1>1. /\ u \in Seq(Nat) /\ Len(u) = Len(t) + 1 /\ u[Len(t) + 1] = e
      /\ \A i \in 1 .. Len(t) : u[i] = t[i]
      /\ w \in Seq(Nat) /\ Len(w) = 1 /\ w[1] = e
  OBVIOUS
<1>2. /\ v \in Seq(Nat) /\ Len(v) = Len(s) + Len(t) /\ Len(s) \in Nat /\ Len(t) \in Nat
      /\ \A i \in 1 .. (Len(s) + Len(t)) : v[i] = IF i <= Len(s) THEN s[i] ELSE t[i - Len(s)]
  BY Concatenated
<1>. HIDE DEF u, v, w
<1>3. /\ s \o u \in Seq(Nat) /\ Len(s \o u) = Len(s) + Len(u)
      /\ \A i \in 1 .. (Len(s) + Len(u)) :
           (s \o u)[i] = IF i <= Len(s) THEN s[i] ELSE u[i - Len(s)]
  BY <1>1, Concatenated
<1>4. /\ v \o w \in Seq(Nat) /\ Len(v \o w) = Len(v) + Len(w)
      /\ \A i \in 1 .. (Len(v) + Len(w)) :
           (v \o w)[i] = IF i <= Len(v) THEN v[i] ELSE w[i - Len(v)]
  BY <1>1, <1>2, Concatenated
<1>5. Len(s) + Len(u) = Len(v) + Len(w)
  BY <1>1, <1>2
<1>6. ASSUME NEW i \in 1 .. (Len(s) + Len(u)) PROVE (s \o u)[i] = (v \o w)[i]
  <2>1. i \in Nat /\ i >= 1 /\ i <= Len(s) + Len(t) + 1
    BY <1>1, <1>2
  <2>2. CASE i <= Len(s)
    BY <1>2, <1>3, <1>4, <1>5, <2>1, <2>2, SMTT(20)
  <2>3. CASE i > Len(s) /\ i <= Len(s) + Len(t)
    <3>1. i - Len(s) \in 1 .. Len(t) /\ i <= Len(v) /\ ~(i <= Len(s))
      BY <1>2, <2>1, <2>3
    <3>2. i \in 1 .. (Len(s) + Len(t))
      BY <1>2, <2>1, <2>3
    <3>. QED
      BY <1>1, <1>2, <1>3, <1>4, <1>5, <3>1, <3>2
  <2>4. CASE i = Len(s) + Len(t) + 1
    <3>1. i - Len(s) = Len(t) + 1 /\ i - Len(v) = 1 /\ ~(i <= Len(s)) /\ ~(i <= Len(v))
      BY <1>2, <2>4
    <3>. QED
      BY <1>1, <1>3, <1>4, <1>5, <3>1
  <2>5. i <= Len(s) \/ (i > Len(s) /\ i <= Len(s) + Len(t)) \/ i = Len(s) + Len(t) + 1
    BY <1>2, <2>1
  <2>. QED
    BY <2>2, <2>3, <2>4, <2>5
<1>7. s \o u = v \o w
  BY <1>3, <1>4, <1>5, <1>6, SameSequence
<1>. QED
  BY <1>7 DEF u, v, w

\* What a client has read and what is on the wire: reading moves the boundary only.
LEMMA Reading ==
  ASSUME NEW s \in Seq(Nat), NEW t \in Seq(Nat), t # <<>>
  PROVE  /\ Append(s, Head(t)) \in Seq(Nat) /\ Tail(t) \in Seq(Nat)
         /\ Append(s, Head(t)) \o Tail(t) = s \o t
<1>1. /\ Head(t) = t[1] /\ Tail(t) \in Seq(Nat) /\ Len(Tail(t)) = Len(t) - 1
      /\ \A i \in 1 .. Len(Tail(t)) : Tail(t)[i] = t[i + 1]
      /\ Len(t) \in Nat /\ Len(t) >= 1 /\ Head(t) \in Nat /\ Len(s) \in Nat
  OBVIOUS
<1>. DEFINE u == Append(s, Head(t))
            v == Tail(t)
<1>2. u \in Seq(Nat) /\ Len(u) = Len(s) + 1 /\ u[Len(s) + 1] = t[1]
      /\ \A i \in 1 .. Len(s) : u[i] = s[i]
  BY <1>1
<1>3. v \in Seq(Nat) /\ Len(v) = Len(t) - 1 /\ \A i \in 1 .. Len(v) : v[i] = t[i + 1]
  BY <1>1
<1>. HIDE DEF u, v
<1>4. /\ u \o v \in Seq(Nat) /\ Len(u \o v) = Len(u) + Len(v)
      /\ \A i \in 1 .. (Len(u) + Len(v)) :
           (u \o v)[i] = IF i <= Len(u) THEN u[i] ELSE v[i - Len(u)]
  BY <1>2, <1>3, Concatenated
<1>5. /\ s \o t \in Seq(Nat) /\ Len(s \o t) = Len(s) + Len(t)
      /\ \A i \in 1 .. (Len(s) + Len(t)) :
           (s \o t)[i] = IF i <= Len(s) THEN s[i] ELSE t[i - Len(s)]
  BY Concatenated
<1>6. Len(u) + Len(v) = Len(s) + Len(t)
  BY <1>1, <1>2, <1>3
<1>7. ASSUME NEW i \in 1 .. (Len(s) + Len(t)) PROVE (u \o v)[i] = (s \o t)[i]
  <2>1. i \in Nat /\ i >= 1 /\ i <= Len(s) + Len(t)
    BY <1>1
  <2>2. CASE i <= Len(s)
    <3>1. i \in 1 .. Len(s) /\ i <= Len(u)
      BY <1>1, <1>2, <2>1, <2>2
    <3>. QED
      BY <1>2, <1>4, <1>5, <1>6, <2>2, <3>1
  <2>3. CASE i = Len(s) + 1
    <3>1. i <= Len(u) /\ ~(i <= Len(s)) /\ i - Len(s) = 1
      BY <1>1, <1>2, <2>3
    <3>. QED
      BY <1>2, <1>4, <1>5, <1>6, <2>3, <3>1
  <2>4. CASE i > Len(s) + 1
    <3>1. i - Len(u) \in 1 .. Len(v) /\ (i - Len(u)) + 1 = i - Len(s)
      BY <1>1, <1>2, <1>3, <2>1, <2>4
    <3>2. ~(i <= Len(s)) /\ ~(i <= Len(u))
      BY <1>1, <1>2, <2>1, <2>4
    <3>. QED
      BY <1>3, <1>4, <1>5, <1>6, <3>1, <3>2
  <2>5. i <= Len(s) \/ i = Len(s) + 1 \/ i > Len(s) + 1
    BY <1>1, <2>1
  <2>. QED
    BY <2>2, <2>3, <2>4, <2>5
<1>8. u \o v = s \o t
  BY <1>4, <1>5, <1>6, <1>7, SameSequence
<1>. QED
  BY <1>2, <1>3, <1>8 DEF u, v

\* A beginning of an increasing sequence increases, and has everything below its end.
LEMMA Beginning ==
  ASSUME NEW s \in Seq(Nat), NEW t \in Seq(Nat), Increasing(s \o t)
  PROVE  /\ Increasing(s) /\ Elems(s) \subseteq Elems(s \o t)
         /\ \A x \in Elems(s), y \in Elems(s \o t) : y <= x => y \in Elems(s)
<1>1. /\ s \o t \in Seq(Nat) /\ Len(s \o t) = Len(s) + Len(t)
      /\ Len(s) \in Nat /\ Len(t) \in Nat
      /\ \A i \in 1 .. Len(s) : i \in 1 .. Len(s \o t) /\ (s \o t)[i] = s[i]
  OBVIOUS
<1>2. Increasing(s)
  BY <1>1 DEF Increasing
<1>3. Elems(s) \subseteq Elems(s \o t)
  BY <1>1 DEF Elems
<1>4. ASSUME NEW x \in Elems(s), NEW y \in Elems(s \o t), y <= x PROVE y \in Elems(s)
  <2>1. PICK i \in 1 .. Len(s) : x = s[i]
    BY DEF Elems
  <2>2. PICK j \in 1 .. Len(s \o t) : y = (s \o t)[j]
    BY DEF Elems
  <2>3. x \in Nat /\ y \in Nat
    BY <1>1, <2>1, <2>2, SMTT(20)
  <2>4. ~(i < j)
    BY <1>1, <1>4, <2>1, <2>2, <2>3, SMTT(20) DEF Increasing
  <2>5. j \in 1 .. Len(s)
    BY <1>1, <2>1, <2>2, <2>4
  <2>. QED
    BY <1>1, <2>2, <2>5 DEF Elems
<1>. QED
  BY <1>2, <1>3, <1>4

-------------------------------------------------------------------------------
(* What a client has read, when no other handler runs at the awaits *)

Seen(c) == got[c] \o wire[c]

Flow ==
  /\ got \in [Clients -> Seq(Nat)] /\ wire \in [Clients -> Seq(Nat)]
  /\ unpublished # {} => /\ unpublished = {Len(log)}
                         /\ \A c \in Clients : stage[c] # "listing"

\* A connection starts where the client stopped; the list that will follow, or the
\* events written since, continue what it has read without a gap.
Follow(c) ==
  /\ Increasing(Seen(c))
  /\ Elems(Seen(c)) \subseteq EventsOf(Follows[c]) \ unpublished
  /\ \A e \in EventsOf(Follows[c]), x \in Elems(Seen(c)) : e <= x => e \in Elems(Seen(c))
  /\ stage[c] # "live" => wire[c] = <<>>
  /\ stage[c] = "listing" => /\ delivered[c] = {}
                             /\ listed[c] = EventsOf(Follows[c]) \ Elems(Seen(c))
  /\ stage[c] = "live" => /\ EventsOf(Follows[c]) \ unpublished = Elems(Seen(c))
                          /\ delivered[c] \cap unpublished = {}

OrderInv == StreamInv /\ Flow /\ \A c \in Clients : Follow(c)

\* what a client has read is then a beginning of the log
LEMMA OrderImplies == OrderInv => ReadsTheLog
<1>. SUFFICES ASSUME OrderInv, NEW c \in Clients
               PROVE  /\ Len(Seen(c)) <= Len(InOrder(EventsOf(Follows[c])))
                      /\ Seen(c) = SubSeq(InOrder(EventsOf(Follows[c])), 1, Len(Seen(c)))
                      /\ stage[c] = "live" /\ unpublished = {} =>
                           Seen(c) = InOrder(EventsOf(Follows[c]))
  BY DEF ReadsTheLog, Seen
<1>2. log \in Seq(Runs) /\ got[c] \in Seq(Nat) /\ wire[c] \in Seq(Nat)
  BY DEF OrderInv, StreamInv, Shapes, Flow
<1>3. Seen(c) \in Seq(Nat)
  BY <1>2 DEF Seen
<1>4. EventsOf(Follows[c]) \in SUBSET Nat /\ IsFiniteSet(EventsOf(Follows[c]))
  BY <1>2, FiniteLog
<1>5. Follow(c)
  BY DEF OrderInv
<1>6. /\ Increasing(Seen(c)) /\ Elems(Seen(c)) \subseteq EventsOf(Follows[c])
      /\ \A e \in EventsOf(Follows[c]), x \in Elems(Seen(c)) : e <= x => e \in Elems(Seen(c))
      /\ stage[c] = "live" /\ unpublished = {} => Elems(Seen(c)) = EventsOf(Follows[c])
  BY <1>5 DEF Follow
<1>. HIDE DEF Seen
<1>. QED
  BY <1>3, <1>4, <1>6, Prefix

\* an empty log has been read in full
LEMMA InitOrder == Init => OrderInv
<1>. SUFFICES ASSUME Init PROVE OrderInv
  OBVIOUS
<1>1. StreamInv
  BY InitInv
<1>2. Flow
  BY DEF Init, Flow
<1>3. ASSUME NEW c \in Clients PROVE Follow(c)
  <2>1. got[c] = <<>> /\ wire[c] = <<>> /\ stage[c] = "off"
    BY DEF Init
  <2>2. Seen(c) = <<>>
    BY <2>1 DEF Seen
  <2>3. Elems(Seen(c)) = {} /\ Increasing(Seen(c))
    BY <2>2 DEF Elems, Increasing
  <2>. QED
    BY <2>1, <2>3 DEF Follow
<1>. QED
  BY <1>1, <1>2, <1>3 DEF OrderInv

\* The new event is the last of the log, and nobody awaits a list meanwhile.
LEMMA StoreOrder ==
  ASSUME OrderInv, ~AwaitsYield, NEW r \in Runs, Store(r)
  PROVE  OrderInv'
<1>1. /\ log' = Append(log, r) /\ unpublished' = unpublished \cup {Len(log) + 1}
      /\ UNCHANGED <<stage, after, listed, delivered, wire, got>>
      /\ unpublished = {} /\ \A c \in Clients : stage[c] # "listing"
  BY DEF Store, LoopFree
<1>2. log \in Seq(Runs) /\ log' \in Seq(Runs) /\ Len(log') = Len(log) + 1 /\ Len(log) \in Nat
      /\ \A e \in 1 .. Len(log) : log'[e] = log[e]
  BY <1>1 DEF OrderInv, StreamInv, Shapes
<1>3. StreamInv'
  BY StoreStep DEF OrderInv
<1>4. unpublished' = {Len(log')}
  BY <1>1, <1>2
<1>5. Flow'
  BY <1>1, <1>4 DEF OrderInv, Flow
<1>6. \A q : EventsOf(q)' \ unpublished' = EventsOf(q)
  <2>1. \A e \in 1 .. Len(log') : e \in 1 .. Len(log) \/ e = Len(log')
    BY <1>2
  <2>2. \A e \in 1 .. Len(log) : e \in 1 .. Len(log') /\ e # Len(log')
    BY <1>2
  <2>. QED
    BY <1>2, <1>4, <2>1, <2>2 DEF EventsOf
<1>7. ASSUME NEW c \in Clients PROVE Follow(c)'
  <2>. DEFINE q == Follows[c]
  <2>1. Follow(c) /\ Seen(c)' = Seen(c)
    BY <1>1 DEF OrderInv, Seen
  <2>2. /\ EventsOf(q)' \ unpublished' = EventsOf(q)
        /\ EventsOf(q)' \subseteq EventsOf(q) \cup {Len(log')}
    BY <1>4, <1>6
  <2>3. \A x \in Elems(Seen(c)) : x \in 1 .. Len(log) /\ ~(Len(log') <= x)
    BY <1>2, <2>1 DEF Follow, EventsOf
  <2>4. \A e \in EventsOf(q)', x \in Elems(Seen(c)) : e <= x => e \in Elems(Seen(c))
    BY <2>1, <2>2, <2>3 DEF Follow
  <2>5. delivered[c] \subseteq EventsOf(q) \/ stage[c] = "off"
    BY DEF OrderInv, StreamInv, Owed
  <2>. QED
    BY <1>1, <2>1, <2>2, <2>4, <2>5 DEF Follow
<1>. QED
  BY <1>3, <1>5, <1>7 DEF OrderInv

\* Whoever listens to the run is written its newest event.
LEMMA PublishOrder ==
  ASSUME OrderInv, NEW e \in Offsets, Publish(e)
  PROVE  OrderInv'
<1>1. /\ e \in unpublished /\ unpublished' = unpublished \ {e}
      /\ UNCHANGED <<log, stage, after, listed, got>>
      /\ delivered' = [c \in Clients |->
                         IF Writes(c, e) THEN delivered[c] \cup {e} ELSE delivered[c]]
      /\ wire' = [c \in Clients |->
                    IF Writes(c, e) THEN Append(wire[c], e) ELSE wire[c]]
  BY DEF Publish
<1>2. StreamInv'
  BY PublishStep DEF OrderInv
<1>3. /\ unpublished = {e} /\ unpublished' = {} /\ e = Len(log) /\ e \in 1 .. Len(log) /\ e \in Nat
      /\ \A c \in Clients : stage[c] # "listing"
  BY <1>1 DEF OrderInv, StreamInv, Shapes, Flow
<1>4. Flow'
  BY <1>1, <1>3 DEF OrderInv, Flow
<1>5. ASSUME NEW c \in Clients PROVE Follow(c)'
  <2>. DEFINE q == Follows[c]
  <2>1. /\ Follow(c) /\ EventsOf(q)' = EventsOf(q)
        /\ got[c] \in Seq(Nat) /\ wire[c] \in Seq(Nat)
    BY <1>1 DEF OrderInv, EventsOf, Flow
  <2>2. CASE Writes(c, e)
    <3>1. wire'[c] = Append(wire[c], e) /\ delivered'[c] = delivered[c] \cup {e}
      BY <1>1, <2>2
    <3>2. Seen(c) \in Seq(Nat) /\ <<e>> \in Seq(Nat)
      BY <1>3, <2>1 DEF Seen
    <3>8. got[c] \o Append(wire[c], e) = (got[c] \o wire[c]) \o <<e>>
      BY <1>3, <2>1, Extended
    <3>9. Seen(c)' = Seen(c) \o <<e>>
      BY <1>1, <3>1, <3>8 DEF Seen
    <3>3. Increasing(<<e>>) /\ Elems(<<e>>) = {e}
      BY DEF Increasing, Elems
    <3>4. \A x \in Elems(Seen(c)) : x < e
      <4>1. \A x \in Elems(Seen(c)) : x \in 1 .. Len(log) /\ x # e
        BY <1>3, <2>1 DEF Follow, EventsOf
      <4>. QED
        BY <1>3, <4>1
    <3>5. Increasing(Seen(c)') /\ Elems(Seen(c)') = Elems(Seen(c)) \cup {e}
      <4>1. Increasing(Seen(c)) /\ \A x \in Elems(Seen(c)), y \in Elems(<<e>>) : x < y
        BY <2>1, <3>3, <3>4 DEF Follow
      <4>. QED
        BY <3>2, <3>9, <3>3, <4>1, Joined
    <3>6. stage[c] = "live" /\ e \in EventsOf(q)
      BY <1>3, <2>2, <2>1 DEF Writes, Listening, EventsOf, OrderInv, StreamInv, Shapes
    <3>7. Elems(Seen(c)') = EventsOf(q)
      BY <1>3, <2>1, <3>5, <3>6 DEF Follow
    <3>. QED
      BY <1>1, <1>3, <2>1, <3>5, <3>6, <3>7 DEF Follow
  <2>3. CASE ~Writes(c, e)
    <3>1. wire'[c] = wire[c] /\ delivered'[c] = delivered[c] /\ Seen(c)' = Seen(c)
      BY <1>1, <2>3 DEF Seen
    <3>2. stage[c] = "live" => e \notin EventsOf(q)
      BY <1>3, <2>1, <2>3 DEF Writes, Listening, EventsOf, Follow
    <3>3. stage[c] = "live" => EventsOf(q) = Elems(Seen(c))
      BY <1>3, <2>1, <3>2 DEF Follow
    <3>. QED
      BY <1>1, <1>3, <2>1, <3>1, <3>3, ZenonT(30) DEF Follow
  <2>. QED
    BY <2>2, <2>3
<1>. QED
  BY <1>2, <1>4, <1>5 DEF OrderInv

\* The list takes up where the client stopped reading.
LEMMA ConnectOrder ==
  ASSUME OrderInv, ~AwaitsYield, UrlCursor = 0, NEW c \in Clients, Connect(c)
  PROVE  OrderInv'
<1>1. /\ UNCHANGED <<log, unpublished, got>>
      /\ stage[c] = "off" /\ unpublished = {}
      /\ stage' = [stage EXCEPT ![c] = "listing"]
      /\ listed' = [listed EXCEPT ![c] = Stored(c)]
      /\ delivered' = [delivered EXCEPT ![c] = {}]
      /\ wire' = [wire EXCEPT ![c] = <<>>]
  BY DEF Connect, LoopFree
<1>2. StreamInv'
  BY ConnectStep DEF OrderInv
<1>3. Flow'
  BY <1>1 DEF OrderInv, Flow
<1>4. ASSUME NEW d \in Clients PROVE Follow(d)'
  <2>1. /\ Follow(d) /\ EventsOf(Follows[d])' = EventsOf(Follows[d])
        /\ got[d] \in Seq(Nat) /\ wire[d] \in Seq(Nat)
    BY <1>1 DEF OrderInv, EventsOf, Flow
  <2>2. CASE d = c
    <3>1. /\ stage'[c] = "listing" /\ listed'[c] = Stored(c) /\ delivered'[c] = {}
          /\ wire'[c] = <<>> /\ wire[c] = <<>>
      BY <1>1, <2>1, <2>2 DEF OrderInv, StreamInv, Shapes, Flow, Follow
    <3>2. Seen(c)' = Seen(c) /\ Seen(c) = got[c]
      BY <1>1, <2>1, <2>2, <3>1, NothingAfter DEF Seen
    <3>3. Stored(c) = EventsOf(Follows[c]) \ Elems(Seen(c))
      <4>. DEFINE q == Follows[c]
      <4>1. Cursor(c) = LastRead(c)
        BY DEF Cursor
      <4>2. \A e \in EventsOf(q) : e \in Nat /\ e >= 1
        BY DEF EventsOf, OrderInv, StreamInv, Shapes
      <4>3. CASE got[c] = <<>>
        <5>1. LastRead(c) = 0 /\ Elems(Seen(c)) = {}
          BY <3>2, <4>3 DEF LastRead, Elems
        <5>. QED
          BY <4>1, <4>2, <5>1 DEF Stored
      <4>4. CASE got[c] # <<>>
        <5>1. /\ LastRead(c) = got[c][Len(got[c])] /\ Len(got[c]) \in 1 .. Len(got[c])
              /\ \A i \in 1 .. Len(got[c]) : got[c][i] \in Nat /\ i <= Len(got[c])
          BY <2>1, <2>2, <4>4 DEF LastRead
        <5>2. LastRead(c) \in Elems(Seen(c)) /\ LastRead(c) \in Nat
          BY <3>2, <5>1 DEF Elems
        <5>3. \A x \in Elems(Seen(c)) : x <= LastRead(c)
          <6>1. SUFFICES ASSUME NEW i \in 1 .. Len(got[c]) PROVE got[c][i] <= LastRead(c)
            BY <3>2 DEF Elems
          <6>2. i < Len(got[c]) => got[c][i] < LastRead(c)
            BY <2>1, <2>2, <3>2, <5>1 DEF Follow, Increasing
          <6>3. i = Len(got[c]) \/ i < Len(got[c])
            BY <2>1, <2>2
          <6>. QED
            BY <5>1, <5>2, <6>2, <6>3
        <5>4. \A e \in EventsOf(q) : e > LastRead(c) <=> e \notin Elems(Seen(c))
          <6>1. ASSUME NEW e \in EventsOf(q), e \notin Elems(Seen(c)) PROVE e > LastRead(c)
            <7>1. ~(e <= LastRead(c))
              BY <2>1, <2>2, <5>2, <6>1 DEF Follow
            <7>. QED
              BY <4>2, <5>2, <7>1
          <6>2. ASSUME NEW e \in EventsOf(q), e > LastRead(c) PROVE e \notin Elems(Seen(c))
            BY <4>2, <5>2, <5>3, <6>2
          <6>. QED
            BY <6>1, <6>2
        <5>. QED
          BY <4>1, <5>4 DEF Stored
      <4>. QED
        BY <4>3, <4>4
    <3>. QED
      BY <1>1, <2>1, <2>2, <3>1, <3>2, <3>3 DEF Follow
  <2>3. CASE d # c
    <3>1. /\ stage'[d] = stage[d] /\ listed'[d] = listed[d] /\ delivered'[d] = delivered[d]
          /\ wire'[d] = wire[d]
      BY <1>1, <2>3 DEF OrderInv, StreamInv, Shapes, Flow
    <3>2. Seen(d)' = Seen(d)
      BY <1>1, <3>1 DEF Seen
    <3>. QED
      BY <1>1, <2>1, <3>1, <3>2 DEF Follow
  <2>. QED
    BY <2>2, <2>3
<1>. QED
  BY <1>2, <1>3, <1>4 DEF OrderInv

\* The list continues what was read, and the connection is level with the log.
LEMMA ReplayOrder ==
  ASSUME OrderInv, NEW c \in Clients, Replay(c)
  PROVE  OrderInv'
<1>1. /\ UNCHANGED <<log, unpublished, got>> /\ stage[c] = "listing"
      /\ stage' = [stage EXCEPT ![c] = "live"]
      /\ wire' = [wire EXCEPT ![c] = wire[c] \o InOrder(listed[c] \ delivered[c])]
      /\ delivered' = [delivered EXCEPT ![c] = delivered[c] \cup listed[c]]
      /\ listed' = [listed EXCEPT ![c] = {}]
  BY DEF Replay
<1>2. StreamInv'
  BY OtherStep DEF OrderInv
<1>3. unpublished = {} /\ Follow(c) /\ got[c] \in Seq(Nat)
  BY <1>1 DEF OrderInv, Flow
<1>. DEFINE rest == EventsOf(Follows[c]) \ Elems(Seen(c))
<1>4. wire[c] = <<>> /\ delivered[c] = {} /\ listed[c] = rest /\ Seen(c) = got[c]
  BY <1>1, <1>3, NothingAfter DEF Follow, Seen
<1>5. rest \in SUBSET Nat /\ IsFiniteSet(rest)
  <2>1. EventsOf(Follows[c]) \in SUBSET Nat /\ IsFiniteSet(EventsOf(Follows[c]))
    BY FiniteLog DEF OrderInv, StreamInv, Shapes
  <2>. QED
    BY <2>1, FS_Subset
<1>6. InOrder(rest) \in Seq(rest) /\ Increasing(InOrder(rest)) /\ Elems(InOrder(rest)) = rest
  BY <1>5, InOrderFacts
<1>7. InOrder(rest) \in Seq(Nat)
  BY <1>5, <1>6
<1>8. /\ wire'[c] = InOrder(rest) /\ stage'[c] = "live" /\ delivered'[c] = rest
      /\ Seen(c)' = got[c] \o InOrder(rest)
  <2>1. listed[c] \ delivered[c] = rest /\ delivered[c] \cup listed[c] = rest
    BY <1>4
  <2>. HIDE DEF rest
  <2>2. wire[c] \o InOrder(rest) = InOrder(rest)
    BY <1>4, <1>7
  <2>. QED
    BY <1>1, <2>1, <2>2 DEF OrderInv, StreamInv, Shapes, Flow, Seen
<1>9. Flow'
  <2>1. wire' \in [Clients -> Seq(Nat)]
    BY <1>1, <1>7, <1>8 DEF OrderInv, Flow
  <2>. QED
    BY <1>1, <1>3, <2>1 DEF OrderInv, Flow
<1>10. ASSUME NEW d \in Clients PROVE Follow(d)'
  <2>1. Follow(d) /\ EventsOf(Follows[d])' = EventsOf(Follows[d])
    BY <1>1 DEF OrderInv, EventsOf
  <2>2. CASE d = c
    <3>1. \A x \in Elems(got[c]), y \in rest : x < y
      <4>1. SUFFICES ASSUME NEW x \in Elems(got[c]), NEW y \in rest PROVE x < y
        OBVIOUS
      <4>2. ~(y <= x)
        BY <1>3, <1>4 DEF Follow
      <4>3. x \in Nat /\ y \in Nat
        BY <1>3, <1>5 DEF Elems
      <4>. QED
        BY <4>2, <4>3
    <3>2. Increasing(got[c])
      BY <1>3, <1>4 DEF Follow
    <3>3. Increasing(Seen(c)') /\ Elems(Seen(c)') = Elems(got[c]) \cup rest
      <4>. HIDE DEF rest
      <4>. QED
        BY <1>3, <1>6, <1>7, <1>8, <3>1, <3>2, Joined
    <3>4. Elems(Seen(c)') = EventsOf(Follows[c])
      BY <1>3, <1>4, <3>3 DEF Follow
    <3>. QED
      BY <1>1, <1>3, <1>8, <2>1, <2>2, <3>3, <3>4, ZenonT(30) DEF Follow
  <2>3. CASE d # c
    <3>1. /\ stage'[d] = stage[d] /\ listed'[d] = listed[d] /\ delivered'[d] = delivered[d]
          /\ wire'[d] = wire[d]
      BY <1>1, <2>3 DEF OrderInv, StreamInv, Shapes, Flow
    <3>2. Seen(d)' = Seen(d)
      BY <1>1, <3>1 DEF Seen
    <3>. QED
      BY <1>1, <2>1, <3>1, <3>2 DEF Follow
  <2>. QED
    BY <2>2, <2>3
<1>. QED
  BY <1>2, <1>9, <1>10 DEF OrderInv

\* Reading changes nothing of what was sent; a lost connection takes the end of it.
LEMMA ReceiveOrder ==
  ASSUME OrderInv, NEW c \in Clients, Receive(c)
  PROVE  OrderInv'
<1>1. /\ UNCHANGED <<log, unpublished, stage, listed, delivered>> /\ wire[c] # <<>>
      /\ got' = [got EXCEPT ![c] = Append(got[c], Head(wire[c]))]
      /\ wire' = [wire EXCEPT ![c] = Tail(wire[c])]
  BY DEF Receive
<1>2. StreamInv'
  BY OtherStep DEF OrderInv
<1>3. got[c] \in Seq(Nat) /\ wire[c] \in Seq(Nat)
  BY DEF OrderInv, Flow
<1>4. /\ Append(got[c], Head(wire[c])) \in Seq(Nat) /\ Tail(wire[c]) \in Seq(Nat)
      /\ Append(got[c], Head(wire[c])) \o Tail(wire[c]) = got[c] \o wire[c]
  BY <1>1, <1>3, Reading
<1>5. Flow'
  <2>1. got' \in [Clients -> Seq(Nat)] /\ wire' \in [Clients -> Seq(Nat)]
    BY <1>1, <1>4 DEF OrderInv, Flow
  <2>. QED
    BY <1>1, <2>1 DEF OrderInv, Flow
<1>6. ASSUME NEW d \in Clients PROVE Follow(d)'
  <2>1. Follow(d) /\ EventsOf(Follows[d])' = EventsOf(Follows[d])
    BY <1>1 DEF OrderInv, EventsOf
  <2>2. Seen(d)' = Seen(d)
    <3>1. CASE d = c
      <4>1. got'[c] = Append(got[c], Head(wire[c])) /\ wire'[c] = Tail(wire[c])
        BY <1>1 DEF OrderInv, Flow
      <4>. QED
        BY <1>4, <3>1, <4>1 DEF Seen
    <3>2. CASE d # c
      BY <1>1, <3>2 DEF Seen, OrderInv, Flow
    <3>. QED
      BY <3>1, <3>2
  <2>3. stage[d] # "live" => wire'[d] = <<>>
    <3>1. CASE d = c
      BY <1>1, <2>1, <3>1 DEF Follow
    <3>2. CASE d # c
      BY <1>1, <2>1, <3>2 DEF Follow, OrderInv, Flow
    <3>. QED
      BY <3>1, <3>2
  <2>. QED
    BY <1>1, <2>1, <2>2, <2>3 DEF Follow
<1>. QED
  BY <1>2, <1>5, <1>6 DEF OrderInv

\* a lost connection takes what it had not delivered; the client goes on from what it read
LEMMA DropOrder ==
  ASSUME OrderInv, NEW c \in Clients, Drop(c)
  PROVE  OrderInv'
<1>1. /\ UNCHANGED <<log, unpublished, delivered, got>>
      /\ stage' = [stage EXCEPT ![c] = "off"]
      /\ wire' = [wire EXCEPT ![c] = <<>>]
      /\ listed' = [listed EXCEPT ![c] = {}]
  BY DEF Drop
<1>2. StreamInv'
  BY OtherStep DEF OrderInv
<1>3. Flow'
  BY <1>1 DEF OrderInv, Flow
<1>4. ASSUME NEW d \in Clients PROVE Follow(d)'
  <2>1. /\ Follow(d) /\ EventsOf(Follows[d])' = EventsOf(Follows[d])
        /\ got[d] \in Seq(Nat) /\ wire[d] \in Seq(Nat)
    BY <1>1 DEF OrderInv, EventsOf, Flow
  <2>2. CASE d = c
    <3>1. stage'[c] = "off" /\ wire'[c] = <<>>
      BY <1>1 DEF OrderInv, StreamInv, Shapes, Flow
    <3>2. Seen(c)' = got[c]
      BY <1>1, <2>1, <2>2, <3>1, NothingAfter DEF Seen
    <3>3. /\ Increasing(got[c]) /\ Elems(got[c]) \subseteq Elems(Seen(c))
          /\ \A x \in Elems(got[c]), y \in Elems(Seen(c)) : y <= x => y \in Elems(got[c])
      BY <2>1, <2>2, Beginning DEF Follow, Seen
    <3>4. \A e \in EventsOf(Follows[c]), x \in Elems(got[c]) : e <= x => e \in Elems(got[c])
      BY <2>1, <2>2, <3>3 DEF Follow
    <3>. QED
      BY <1>1, <2>1, <2>2, <3>1, <3>2, <3>3, <3>4 DEF Follow
  <2>3. CASE d # c
    <3>1. stage'[d] = stage[d] /\ listed'[d] = listed[d] /\ wire'[d] = wire[d]
      BY <1>1, <2>3 DEF OrderInv, StreamInv, Shapes, Flow
    <3>2. Seen(d)' = Seen(d)
      BY <1>1, <3>1 DEF Seen
    <3>. QED
      BY <1>1, <2>1, <3>1, <3>2 DEF Follow
  <2>. QED
    BY <2>2, <2>3
<1>. QED
  BY <1>2, <1>3, <1>4 DEF OrderInv

\* the order stays when nothing happens
LEMMA StutterOrder == OrderInv /\ UNCHANGED vars => OrderInv'
BY StutterStep DEF OrderInv, Flow, Follow, Seen, EventsOf, vars

\* Over all its connections a client reads its run's events in the order of the log,
\* each once and with no gap, whenever they are logged and however often its
\* connection is lost: for clients whose URL names no cursor, and the repository in
\* memory, whose awaits let nobody in between (runEvents.ts, sseHub.ts).
THEOREM LogIsReadInOrder ==
  ASSUME ~AwaitsYield, UrlCursor = 0
  PROVE  Spec => []ReadsTheLog
<1>1. OrderInv /\ [Next]_vars => OrderInv'
  BY StoreOrder, PublishOrder, ConnectOrder, ReplayOrder, ReceiveOrder, DropOrder,
     StutterOrder DEF Next
<1>. QED
  BY InitOrder, <1>1, OrderImplies, PTL DEF Spec
====
