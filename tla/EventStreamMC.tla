---------------------------- MODULE EventStreamMC ----------------------------
(* Values of the constants of EventStream for TLC. *)
EXTENDS EventStream

CONSTANTS ours, theirs, tab, otherTab

MCRuns == {ours, theirs}

\* Two tabs on one run, with the events of another run in the same log.
TwoTabs == {tab, otherTab}
FollowsOurs == [c \in TwoTabs |-> ours]
===============================================================================
