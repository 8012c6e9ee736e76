-------------------------- MODULE SupervisorHistory ---------------------------
(***************************************************************************)
(* Supervisor with two history variables: what the operator has asked for. *)
(* They record the past of a behaviour and constrain no step of it.        *)
(***************************************************************************)
EXTENDS Supervisor

VARIABLES
    held,   \* services whose last command of start, stop, restart and up
            \* was `stop'
    asked   \* the outside world has sent TERM or INT

HInit == Init /\ held = {} /\ asked = FALSE

Record ==
    /\ held' = (held \ {n \in Names : \E i \in Slots :
                           CmdStart(n, i) \/ CmdUp(n, i) \/ CmdRestart(n, i)})
               \cup {n \in Names : \E i \in Slots : CmdStop(n, i)}
    /\ asked' = (asked \/ ("TERM" \in Signals /\ SendSignal("TERM")))

HSpec == HInit /\ [][Next /\ Record]_<<vars, held, asked>>

\* README, Restart Logic: "If the service was stopped manually
\* (stopping = true) or is once, it is not restarted."  No service whose last
\* command was stop is started.
StopIsFinal ==
    [][\A i \in Slots :
           services[i].name \in held /\ services'[i].state = "RUNNING"
           => services[i].state = "RUNNING"]_<<vars, held, asked>>

\* README, Shutdown: "When the supervisor receives SIGTERM or SIGINT", and
\* only then: the supervisor shuts down because somebody told it to.
ShutdownOnlyWhenAsked == phase # "serve" => asked
=============================================================================
