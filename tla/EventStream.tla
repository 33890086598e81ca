----------------------------- MODULE EventStream -----------------------------
(***************************************************************************)
(* The run event log and the SSE route that streams it: RunEventService    *)
(* stores an event, then publishes it to the listeners of its run; the     *)
(* route subscribes, lists what is stored after the client's cursor, and   *)
(* writes the list once it has it, skipping what the subscription wrote    *)
(* meanwhile.  Connections are lost with whatever was on the wire, and the *)
(* client comes back with the id of the last event it read.                *)
(*                                                                         *)
(* An event's id is its offset in the one log all runs share.  A listener  *)
(* left behind by a lost connection writes where nobody reads, so a client *)
(* has one connection here, the one it reads from.                         *)
(***************************************************************************)
EXTENDS Positions

CONSTANTS
  Runs,
  Clients,
  Follows,      \* the run each client streams
  UrlCursor,    \* afterEventId in the URL the clients connect to, 0 if there is none
  MaxEvents,    \* bound: events appended
  MaxDrops,     \* bound: connections lost, per client
  AwaitsYield   \* TRUE: other handlers run at the awaits on the repository;
                \* FALSE: they do not, the repository being in memory

ASSUME FollowsAssumption == Follows \in [Clients -> Runs]
ASSUME CursorAssumption == UrlCursor \in Nat
ASSUME BoundsAssumption == MaxEvents \in Nat /\ MaxDrops \in Nat
ASSUME AwaitsAssumption == AwaitsYield \in BOOLEAN

VARIABLES
  log,        \* runEventRepository.records: the run of each event, by offset
  unpublished,\* offsets stored whose publish is still ahead
  stage,      \* per client: no connection, list awaited, or list written
  after,      \* the cursor its connection was opened with
  listed,     \* offsets of the list the route has not written yet
  delivered,  \* deliveredEventIds of the connection
  wire,       \* ids written to the connection and not read yet
  got,        \* ids the client has read, over all its connections
  drops       \* connections lost so far

vars == <<log, unpublished, stage, after, listed, delivered, wire, got, drops>>

Offsets == 1 .. MaxEvents

TypeOK ==
  /\ log \in Seq(Runs) /\ Len(log) <= MaxEvents
  /\ unpublished \subseteq 1 .. Len(log)
  /\ stage \in [Clients -> {"off", "listing", "live"}]
  /\ after \in [Clients -> Nat]
  /\ listed \in [Clients -> SUBSET Offsets]
  /\ delivered \in [Clients -> SUBSET Offsets]
  /\ wire \in [Clients -> Seq(Offsets)]
  /\ got \in [Clients -> Seq(Offsets)]
  /\ drops \in [Clients -> 0 .. MaxDrops]

Init ==
  /\ log = <<>> /\ unpublished = {}
  /\ stage = [c \in Clients |-> "off"]
  /\ after = [c \in Clients |-> 0]
  /\ listed = [c \in Clients |-> {}]
  /\ delivered = [c \in Clients |-> {}]
  /\ wire = [c \in Clients |-> <<>>]
  /\ got = [c \in Clients |-> <<>>]
  /\ drops = [c \in Clients |-> 0]

-------------------------------------------------------------------------------
\* No handler is between two of its steps, or others may run there.
LoopFree == AwaitsYield \/ (unpublished = {} /\ \A c \in Clients : stage[c] # "listing")

EventsOf(r) == {e \in 1 .. Len(log) : log[e] = r}

LastRead(c) == IF got[c] = <<>> THEN 0 ELSE got[c][Len(got[c])]

\* afterEventId ?? Last-Event-ID; none lists the whole log.  Seeded fault: the
\* reconnection asks for everything again.
CursorFromTheStart(c) == UrlCursor
Cursor(c) == IF UrlCursor # 0 THEN UrlCursor ELSE LastRead(c)

\* runEventRepository.append: the next offset, as one step.

Store(r) ==
  /\ LoopFree
  /\ Len(log) < MaxEvents
  /\ log' = Append(log, r)
  /\ unpublished' = unpublished \cup {Len(log) + 1}
  /\ UNCHANGED <<stage, after, listed, delivered, wire, got, drops>>

\* sseHub.publish: the listeners of the run, each of which writes an event once.
Listening(c, e) == stage[c] # "off" /\ Follows[c] = log[e]

Writes(c, e) == Listening(c, e) /\ e \notin delivered[c]

Publish(e) ==
  /\ e \in unpublished
  /\ unpublished' = unpublished \ {e}
  /\ delivered' = [c \in Clients |->
                     IF Writes(c, e) THEN delivered[c] \cup {e} ELSE delivered[c]]
  /\ wire' = [c \in Clients |->
                IF Writes(c, e) THEN Append(wire[c], e) ELSE wire[c]]
  /\ UNCHANGED <<log, stage, after, listed, got, drops>>

\* The request arrives: headers, the subscription, and the call of listAfter, which
\* reads the log before its first await.  Seeded fault: an offset is taken for an
\* index and the event after the cursor is skipped.
StoredPastNext(c) == {e \in EventsOf(Follows[c]) : e > Cursor(c) + 1}
Stored(c) == {e \in EventsOf(Follows[c]) : e > Cursor(c)}

Connect(c) ==
  /\ LoopFree
  /\ stage[c] = "off"
  /\ stage' = [stage EXCEPT ![c] = "listing"]
  /\ after' = [after EXCEPT ![c] = Cursor(c)]
  /\ listed' = [listed EXCEPT ![c] = Stored(c)]
  /\ delivered' = [delivered EXCEPT ![c] = {}]
  /\ wire' = [wire EXCEPT ![c] = <<>>]
  /\ UNCHANGED <<log, unpublished, got, drops>>

\* The list is there and is written, but for what the subscription wrote already.
Replay(c) ==
  /\ stage[c] = "listing"
  /\ stage' = [stage EXCEPT ![c] = "live"]
  /\ wire' = [wire EXCEPT ![c] = @ \o InOrder(listed[c] \ delivered[c])]
  /\ delivered' = [delivered EXCEPT ![c] = @ \cup listed[c]]
  /\ listed' = [listed EXCEPT ![c] = {}]
  /\ UNCHANGED <<log, unpublished, after, got, drops>>

\* The client reads an event.
Receive(c) ==
  /\ wire[c] # <<>>
  /\ got' = [got EXCEPT ![c] = Append(@, Head(wire[c]))]
  /\ wire' = [wire EXCEPT ![c] = Tail(@)]
  /\ UNCHANGED <<log, unpublished, stage, after, listed, delivered, drops>>

\* The connection is lost with what is on the wire; cleanup unsubscribes.
Drop(c) ==
  /\ stage[c] # "off" /\ LoopFree
  /\ drops[c] < MaxDrops
  /\ drops' = [drops EXCEPT ![c] = @ + 1]
  /\ stage' = [stage EXCEPT ![c] = "off"]
  /\ wire' = [wire EXCEPT ![c] = <<>>]
  /\ listed' = [listed EXCEPT ![c] = {}]
  /\ UNCHANGED <<log, unpublished, after, delivered, got>>

Next ==
  \/ \E r \in Runs : Store(r)
  \/ \E e \in Offsets : Publish(e)
  \/ \E c \in Clients : Connect(c) \/ Replay(c) \/ Receive(c) \/ Drop(c)

Spec == Init /\ [][Next]_vars

\* The API's own continuations run, an established connection transmits, and a
\* client that lost its connection opens another (EventSource does).
Fairness ==
  /\ \A e \in Offsets : WF_vars(Publish(e))
  /\ \A c \in Clients : WF_vars(Connect(c)) /\ WF_vars(Replay(c)) /\ WF_vars(Receive(c))

FairSpec == Spec /\ Fairness

-------------------------------------------------------------------------------
(* What the stream promises *)

\* What a connection that has written its list owes the client is written: every
\* event of the run after the cursor, whether it was stored before the connection,
\* while the list was awaited, or since, and nothing but those.
ConnectionMissesNothing ==
  \A c \in Clients :
    /\ stage[c] = "live" =>
         \A e \in EventsOf(Follows[c]) \ unpublished : e > after[c] => e \in delivered[c]
    /\ stage[c] # "off" => delivered[c] \subseteq EventsOf(Follows[c])

\* Over all its connections a client reads its run's events in the order of the log,
\* each once, with no gap: resuming from the last id read neither skips nor repeats.
ReadsTheLog ==
  \A c \in Clients :
    LET seen == got[c] \o wire[c]
        ofRun == InOrder(EventsOf(Follows[c]))
    IN /\ Len(seen) <= Len(ofRun) /\ seen = SubSeq(ofRun, 1, Len(seen))
       /\ stage[c] = "live" /\ unpublished = {} => seen = ofRun

\* However often the connection is lost, an event that was logged reaches the client.
EventsArrive ==
  \A c \in Clients : \A e \in Offsets :
    e \in EventsOf(Follows[c]) ~> \E i \in DOMAIN got[c] : got[c][i] = e

(* What the documents say and the code does not keep (README, section 5) *)

\* A client that reconnects with Last-Event-ID is not sent what it already read.
ResumesAfterLastRead ==
  \A c \in Clients : \A i, j \in DOMAIN got[c] : got[c][i] = got[c][j] => i = j
===============================================================================
