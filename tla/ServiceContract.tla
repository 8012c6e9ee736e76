---------------------------- MODULE ServiceContract ----------------------------
(***************************************************************************)
(* What svc-rs promises about the services it supervises, without tables,  *)
(* pids, scans and signals.  A service has no process, one that runs       *)
(* (alive), or one that has been told to go (leaving).                     *)
(*                                                                         *)
(*   - It is started when it has none, has not been given up, and its      *)
(*     hard dependencies are alive.                                        *)
(*   - A service told to go is started again only after it has gone.       *)
(*   - A service that was given up is not started before it is revived.    *)
(*   - The shutdown tells all of them at once, and nothing is started or   *)
(*     revived afterwards.                                                 *)
(***************************************************************************)
CONSTANTS Names, HardDeps

VARIABLES
    alive,    \* services that run
    leaving,  \* services told to go whose process is still there
    barred,   \* services given up: stopped, run once, or failed too often
    serving   \* the shutdown has not begun

cvars == <<alive, leaving, barred, serving>>

ContractInit ==
    /\ alive = {} /\ leaving = {} /\ barred = {}
    /\ serving = TRUE

Start(n) ==
    /\ serving
    /\ n \notin alive \cup leaving \cup barred
    /\ HardDeps[n] \subseteq alive
    /\ alive' = alive \cup {n}
    /\ UNCHANGED <<leaving, barred, serving>>

\* Some are told to go: by the operator, because a dependency or a logger is
\* gone, or because the directory is.
Leave(S) ==
    /\ S \subseteq alive
    /\ alive' = alive \ S
    /\ leaving' = leaving \cup S
    /\ UNCHANGED <<barred, serving>>

\* The process of n has ended, and n may be given up with it.
Gone(n) ==
    /\ n \in alive \cup leaving
    /\ alive' = alive \ {n}
    /\ leaving' = leaving \ {n}
    /\ barred' \in {barred, barred \cup {n}}
    /\ UNCHANGED serving

\* The operator starts it again, or its directory has been replaced.
Revive(n) ==
    /\ serving
    /\ n \in barred
    /\ barred' = barred \ {n}
    /\ UNCHANGED <<alive, leaving, serving>>

Shutdown ==
    /\ serving
    /\ serving' = FALSE
    /\ leaving' = leaving \cup alive
    /\ alive' = {}
    /\ UNCHANGED barred

\* The supervisor returns and leaves to themselves those who are still there.
Abandon ==
    /\ ~serving
    /\ leaving' = {}
    /\ UNCHANGED <<alive, barred, serving>>

ContractNext ==
    \/ \E n \in Names : Start(n) \/ Gone(n) \/ Revive(n)
    \/ \E S \in SUBSET Names : Leave(S)
    \/ Shutdown
    \/ Abandon

ContractSpec == ContractInit /\ [][ContractNext]_cvars
=============================================================================
