------------------------------ MODULE RunContract ------------------------------
(***************************************************************************)
(* What a client of the agent API is promised of one run, without queue,   *)
(* timers, workers or handlers: a run is accepted, executed a bounded      *)
(* number of times and never over again once the user saw something of it  *)
(* or asked to stop, and closed once, with one announcement that says the  *)
(* same as the run.  RunLifecycle implements it (ImplementsContract).      *)
(***************************************************************************)
EXTENDS Naturals, Sequences, RunDomain

CONSTANT MaxExecutions

VARIABLES
  phase,       \* "none", "open", "fenced" (a cancel was accepted), or the
               \* terminal status the run was closed with
  executions,  \* how many attempts were started
  seen,        \* the last change of the user's canvas, 0 when there is none
  announced    \* what the run's event log said of its end

vars == <<phase, executions, seen, announced>>

Init == phase = "none" /\ executions = 0 /\ seen = 0 /\ announced = <<>>

Accept ==
  /\ phase = "none"
  /\ phase' = "open"
  /\ UNCHANGED <<executions, seen, announced>>

\* Attempts are numbered one by one, and only while nothing forbids a fresh start.
Execute ==
  /\ phase = "open" /\ seen = 0
  /\ executions < MaxExecutions
  /\ executions' = executions + 1
  /\ UNCHANGED <<phase, seen, announced>>

\* The editor confirms a change, also after the run's end.
Show ==
  /\ phase # "none" /\ executions > 0
  /\ seen' > seen
  /\ UNCHANGED <<phase, executions, announced>>

Fence ==
  /\ phase = "open"
  /\ phase' = "fenced"
  /\ UNCHANGED <<executions, seen, announced>>

\* A run that was never executed can only have failed or been cancelled.
Close(final) ==
  /\ phase \in {"open", "fenced"}
  /\ executions = 0 => final = "failed"
  /\ phase' = final
  /\ announced' = Append(announced, TerminalEventOf(final))
  /\ UNCHANGED <<executions, seen>>

Next ==
  \/ Accept \/ Execute \/ Show \/ Fence
  \/ \E final \in TerminalRunStatuses : Close(final)

Spec == Init /\ [][Next]_vars
================================================================================
