-------------------------- MODULE MCRealmSimulator --------------------------
\* Two networks and two scenarios of agent-realms/scenarios.
EXTENDS RealmSimulator

CONSTANTS lab, library

\* The state every scenario starts from, with a network to be discovered.
Baseline ==
    [available |-> TRUE, present |-> TRUE, wireless |-> TRUE, fails |-> FALSE,
     connected |-> lab, accessPoints |-> {lab}, nearby |-> {library},
     audio |-> TRUE, restarting |-> FALSE]

\* services-failing
Failing == [Baseline EXCEPT !.available = FALSE, !.restarting = TRUE]

MCScenario == {Baseline, Failing}
=============================================================================
