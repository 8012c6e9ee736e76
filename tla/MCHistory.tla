------------------------------- MODULE MCHistory -------------------------------
(* Values for the constants of SupervisorHistory.                          *)
EXTENDS SupervisorHistory

CONSTANT a   \* the service

NoDeps == [n \in Names |-> {}]
=============================================================================
