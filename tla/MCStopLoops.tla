------------------------------ MODULE MCStopLoops ------------------------------
(* Tables for StopLoops: every placing of the services in the slots, and    *)
(* what each of them may be doing when a loop is entered.                  *)
EXTENDS StopLoops, TLC

CONSTANTS a, b, c, d   \* service names

\* A chain a, b, c, and a cycle of c and d.
LoopDeps ==
    [n \in Names |-> CASE n = a -> {} [] n = b -> {a}
                       [] n = c -> {b, d} [] n = d -> {c}]

MCPids == 1..8
Index(n) == CASE n = a -> 1 [] n = b -> 2 [] n = c -> 3 [] n = d -> 4

In(n, state, main, log, stopping) ==
    [SERVICE_EMPTY EXCEPT
        !.active = TRUE, !.present = TRUE, !.name = n, !.state = state,
        !.pid = IF main THEN Index(n) ELSE None,
        !.has_log = log, !.log_pid = IF log THEN 4 + Index(n) ELSE None,
        !.stopping = stopping, !.log_stopping = stopping /\ log]

\* Running; running with a logger; being stopped with its logger; down with
\* the logger of the last run; told to stop while down; not there.
Situation(n, k) ==
    CASE k = 1 -> In(n, "RUNNING", TRUE, FALSE, FALSE)
      [] k = 2 -> In(n, "RUNNING", TRUE, TRUE, FALSE)
      [] k = 3 -> In(n, "STOPPING", TRUE, TRUE, TRUE)
      [] k = 4 -> In(n, "ENDED", FALSE, TRUE, FALSE)
      [] k = 5 -> In(n, "STOPPING", FALSE, FALSE, TRUE)
      [] k = 6 -> SERVICE_EMPTY

\* Every order of the services in the table.
Placings ==
    {f \in [Slots -> Names] : \A i, j \in Slots : f[i] = f[j] => i = j}

MCTables ==
    {[i \in Slots |-> Situation(f[i], k[i])] :
        f \in Placings, k \in [Slots -> 1..6]}
=============================================================================
