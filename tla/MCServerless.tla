---------------------------- MODULE MCServerless ----------------------------
\* Instances of ServerlessMode for TLC.
EXTENDS ServerlessMode, TLC

\* The executor's poller submits, polls and cancels; the main thread submits
\* the first blocks and shuts down.
MCCalls == [main |-> {"submit", "shutdown"},
            poller |-> {"submit", "status", "cancel"}]

\* Jobs of different kinds have no name in common.
MCMixes == {[j \in Jobs |-> k] : k \in Kinds}

Symmetry == Permutations(Jobs)

=============================================================================
