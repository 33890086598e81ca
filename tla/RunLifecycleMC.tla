---------------------------- MODULE RunLifecycleMC ----------------------------
(* Values of the constants of RunLifecycle for TLC. *)
EXTENDS RunLifecycle, FiniteSets, TLC

CONSTANTS h1, h2

MCHandlers == {h1, h2}

HandlerSymmetry == Permutations(MCHandlers)

\* No action reads terminalEvents, and the properties of the run that uses this
\* view read its last element only.
LastEventView ==
  <<runVars, attemptVars, ledger, timerVars, handler, transportVars, worker,
    IF terminalEvents = <<>> THEN "none" ELSE terminalEvents[Len(terminalEvents)]>>

\* One beat and phase per way the API treats them: planning work, and the state that
\* tells a status of its own in a beat without a phase.
MCBeats == {[state |-> "hydrating", phase |-> "planning"],
            [state |-> "finalizing", phase |-> "none"]}
MCPhaseEvents == {"planning", "executing"}

\* A saved draft, a cancelled run, and a failure with nothing to materialize.
MCOutcomes == {[final |-> "completed", bundle |-> "with"],
               [final |-> "cancelled", bundle |-> "without"],
               [final |-> "failed", bundle |-> "without"]}

\* Smaller sets, for the runs in which the queue and the store yield.
OneBeat == {[state |-> "awaiting_ack", phase |-> "applying"]}
OnePhase == {"executing"}
OneOutcome == {[final |-> "completed", bundle |-> "with"]}
===============================================================================
