------------------------------ MODULE MCFleets ------------------------------
(***************************************************************************)
(* Values of FleetMode's constants for TLC.                                *)
(***************************************************************************)
EXTENDS FleetMode, TLC

CONSTANTS main, poller   \* the two callers

\* The poller makes every call, one after the other; the main thread submits as well.
MainAndPoller == [t \in Threads |-> IF t = main THEN {"submit"}
                                  ELSE {"submit", "status", "cancel", "shutdown"}]

AllEvents == EventKinds

Sym == Permutations(Jobs) \cup Permutations(Fleets) \cup Permutations(Nodes)
=============================================================================
