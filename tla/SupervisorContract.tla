-------------------------- MODULE SupervisorContract --------------------------
(***************************************************************************)
(* The supervisor keeps the contract: its table, slot by slot and state by *)
(* state, seen as sets of services.                                        *)
(***************************************************************************)
EXTENDS Supervisor

\* A process, and STATE_RUNNING.
Alive ==
    {n \in Names : \E i \in Slots : /\ Named(n, i) /\ services[i].pid # None
                                    /\ services[i].state = "RUNNING"}

\* A process, and any other state.
Leaving ==
    {n \in Names : \E i \in Slots : /\ Named(n, i) /\ services[i].pid # None
                                    /\ services[i].state # "RUNNING"}

\* restart_at = i64::MAX
Barred ==
    {n \in Names : \E i \in Slots : /\ Named(n, i)
                                    /\ services[i].restart_at = "never"}

Contract ==
    INSTANCE ServiceContract
    WITH alive <- Alive, leaving <- Leaving, barred <- Barred,
         serving <- (phase = "serve")

\* Whatever the interleaving of exits, scans, commands and signals, each step
\* of the supervisor is a step of the contract or none: STATE_RUNNING, pid,
\* stopping and restart_at of a slot never disagree so far that a service is
\* started while its process, or its end, is still to come, without its
\* dependencies, after it was given up, or during the shutdown.
KeepsContract == Contract!ContractSpec
=============================================================================
