----------------------------- MODULE MCProvider -----------------------------
(***************************************************************************)
(* Values of Provider's constants for TLC.                                 *)
(***************************************************************************)
EXTENDS Provider

CONSTANTS main, poller   \* the two callers

\* Parsl's scaling strategy and its status poller share a thread.
OneCaller == [t \in Threads |-> Methods \ {"shutdown"}]
OneCallerToShutdown == [t \in Threads |-> Methods]
OnePoller == [t \in Threads |-> {"submit", "status"}]

\* One thread submits (and cancels), another polls.
SubmitAndPoll == [t \in Threads |-> IF t = main THEN {"submit"} ELSE {"status"}]
CancelAndPoll == [t \in Threads |-> IF t = main THEN {"submit", "cancel"} ELSE {"status"}]

Sym == Permutations(Jobs) \cup Permutations(Instances)
=============================================================================
