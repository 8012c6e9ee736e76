----------------------------- MODULE MCSupervisor -----------------------------
(* Values for the constants of Supervisor that a .cfg cannot spell.        *)
EXTENDS SupervisorContract, TLC

CONSTANTS a, b, c   \* service names

NoDeps == [n \in Names |-> {}]

\* c depends on b, which depends on a.
ChainDeps == [n \in Names |-> CASE n = a -> {} [] n = b -> {a} [] n = c -> {b}]

\* b depends on a.
PairDeps == [n \in Names |-> IF n = b THEN {a} ELSE {}]

\* The supervisor and the kernel look at no pid but to compare it.
PidSymmetry == Permutations(Pids)
=============================================================================
