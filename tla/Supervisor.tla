------------------------------ MODULE Supervisor ------------------------------
(***************************************************************************)
(* The svc-rs process supervisor: one thread that owns the table SERVICES  *)
(* and goes round the loop of main(),                                      *)
(*                                                                         *)
(*   reap children -> rescan the directory -> start what may start ->      *)
(*   poll: read the self-pipe, serve one control client -> reap ...        *)
(*                                                                         *)
(* until a SIGTERM or SIGINT byte is read, and then through the shutdown.  *)
(* The supervisor never looks at its children except through waitpid() and *)
(* kill(), so every step below is atomic between two system calls whose    *)
(* result the rest of the world can influence: one reaped child, one       *)
(* directory entry, one slot of the start loop, one client command.  The   *)
(* world (children, clock, operator, directory) steps in between.          *)
(*                                                                         *)
(* Time is abstracted to what the supervisor finds when it reads the clock: *)
(* a backoff (restart_at "later") may be over or not, the next scan due or *)
(* not, the shutdown deadline reached or not.  Exit codes, the pipes to    *)
(* the log files and the status file are not part of this module.          *)
(***************************************************************************)
EXTENDS Integers, Sequences

CONSTANTS
    Names,         \* the service directories there may ever be
    MaxServices,   \* slots of the table (MAX_SERVICES, 256 in the code)
    HardDeps,      \* HardDeps[n]: the hard lines of n's `depends' file
    Logged,        \* services with an executable log/run
    Finishers,     \* services with an executable finish
    Downed,        \* services whose directory holds a `down' file at boot
    Onced,         \* services whose directory holds a `once' file at boot
    Vanishing,     \* services whose `run' comes and goes while svc-rs runs
    Pids,          \* process ids of the children
    None,          \* no pid (-1), no name
    MaxRestarts,   \* MAX_RESTARTS_IN_WINDOW
    PipeCapacity,  \* signal bytes the self-pipe holds before a write is lost
    Signals,       \* the signals the outside world sends: of TERM and HUP
    Commands,      \* the commands the control clients send
    Faults,        \* which calls may fail: of "fork", "opendir", "readdir"
    SlowExec       \* TRUE: a child can be signalled between fork and exec

Slots == 1..MaxServices

SignalNames == {"TERM", "HUP"}

CommandNames ==
    {"start", "stop", "restart", "down", "up", "once", "signal", "check",
     "reload", "query"}

ASSUME NoneAssumption == None \notin Names /\ None \notin Pids
ASSUME MaxServicesAssumption == MaxServices \in Nat \ {0}
ASSUME MaxRestartsAssumption == MaxRestarts \in Nat
ASSUME PipeCapacityAssumption == PipeCapacity \in Nat \ {0}
ASSUME HardDepsAssumption == HardDeps \in [Names -> SUBSET Names]
ASSUME DirectoryAssumption ==
    /\ Logged \subseteq Names
    /\ Finishers \subseteq Names
    /\ Downed \subseteq Names
    /\ Onced \subseteq Names
    /\ Vanishing \subseteq Names
ASSUME EnvironmentAssumption ==
    /\ Signals \subseteq SignalNames
    /\ Commands \subseteq CommandNames
    /\ Faults \subseteq {"fork", "opendir", "readdir"}
    /\ SlowExec \in BOOLEAN

-----------------------------------------------------------------------------
(* State.                                                                  *)

VARIABLES
    services,      \* SERVICES: the table
    stop_deps,     \* need_stop_deps of the reap_children() in progress
    reload_needed, \* a HUP has been read: the next pass scans
    unread,        \* entries the readdir() loop has not returned yet
    cursor,        \* i of the loop over the slots in progress
    pc,            \* where the supervisor is
    phase,         \* "serve", then the two waits of the shutdown
    procs,         \* the kernel's view of the supervisor's children
    sig_pipe,      \* TERM and HUP bytes in the self-pipe, oldest first
    run_files,     \* directories with an executable `run'
    down_files,    \* directories with a `down' file
    once_files     \* directories with a `once' file

local_vars == <<stop_deps, reload_needed, unread, cursor, phase>>  \* not pc
kernel_vars == <<procs, sig_pipe>>
file_vars == <<run_files, down_files, once_files>>
vars == <<services, stop_deps, reload_needed, unread, cursor, phase, pc, procs,
          sig_pipe, run_files, down_files, once_files>>

States == {"DOWN", "RUNNING", "ENDED", "FAILED", "STOPPING"}
    \* ENDED is STATE_EXITED or STATE_SIGNALED: nothing tells them apart

Service ==
    [active: BOOLEAN, present: BOOLEAN, stopping: BOOLEAN,
     manual_start: BOOLEAN, name: Names \cup {None}, pid: Pids \cup {None},
     restart_at: {"due", "later", "never"}, restarts: 0..(MaxRestarts + 1),
     state: States, auto_start: BOOLEAN, once: BOOLEAN, has_log: BOOLEAN,
     log_pid: Pids \cup {None}, log_stopping: BOOLEAN]

SERVICE_EMPTY ==
    [active |-> FALSE, present |-> FALSE, stopping |-> FALSE,
     manual_start |-> FALSE, name |-> None, pid |-> None,
     restart_at |-> "due", restarts |-> 0,
     state |-> "DOWN", auto_start |-> TRUE, once |-> FALSE, has_log |-> FALSE,
     log_pid |-> None, log_stopping |-> FALSE]

Roles == {"none", "main", "log", "finish", "check"}

\* "setup" is a child between fork and exec, "ending" one that has been sent
\* TERM or KILL after exec, "zombie" one that exited and is not waited for.
Stages == {"free", "setup", "run", "ending", "zombie"}

NoProc == [role |-> "none", name |-> None, stage |-> "free"]
Proc == [role: Roles, name: Names \cup {None}, stage: Stages]

Locations ==
    {"reap", "logdeath", "scan", "readdir", "missing", "start", "signals",
     "control", "client", "check", "stopall", "settle", "done"}

TypeOK ==
    /\ services \in [Slots -> Service]
    /\ stop_deps \in BOOLEAN
    /\ reload_needed \in BOOLEAN
    /\ unread \subseteq Names
    /\ cursor \in Slots
    /\ pc \in Locations
    /\ phase \in {"serve", "term", "kill"}
    /\ procs \in [Pids -> Proc]
    /\ sig_pipe \in Seq(SignalNames) /\ Len(sig_pipe) <= PipeCapacity
    /\ run_files \subseteq Names
    /\ down_files \subseteq Names
    /\ once_files \subseteq Names

Init ==
    /\ services = [i \in Slots |-> SERVICE_EMPTY]
    /\ stop_deps = FALSE
    /\ reload_needed = FALSE
    /\ unread = {}
    /\ cursor = 1
    /\ pc = "reap"
    /\ phase = "serve"
    /\ procs = [p \in Pids |-> NoProc]
    /\ sig_pipe = <<>>
    /\ run_files = Names
    /\ down_files = Downed
    /\ once_files = Onced

-----------------------------------------------------------------------------
(* Children and signals: what fork(), kill() and waitpid() do.             *)

Free == {p \in Pids : procs[p] = NoProc}

NewProc(role, n) ==
    [role |-> role, name |-> n, stage |-> IF SlowExec THEN "setup" ELSE "run"]

\* The outcomes of a fork given the pids that are free: a child, or None for
\* -1.  Running out of the model's pids is one more way to fail.
ForkOutcomes(free) ==
    free \cup (IF "fork" \in Faults \/ free = {} THEN {None} ELSE {})

\* kill(TERM) to the processes P.  One that has not reached exec survives it:
\* the group may not exist yet, or the handler inherited from the supervisor
\* takes the signal.
Terminated(P, ps) ==
    [p \in Pids |-> IF p \in P /\ ps[p].stage = "run"
                    THEN [ps[p] EXCEPT !.stage = "ending"]
                    ELSE ps[p]]

PushSignalBlindly(sig, pipe) == Append(pipe, sig)                   \* mutant

PushSignal(sig, pipe) ==
    IF Len(pipe) < PipeCapacity THEN Append(pipe, sig) ELSE pipe

\* The self-pipe after a signal to P: a child that still has the supervisor's
\* handler and descriptor may write the signal number into the same pipe.
Echoes(sig, P, ps, pipe) ==
    {pipe} \cup (IF \E p \in P \cap Pids : ps[p].stage = "setup"
                 THEN {PushSignal(sig, pipe)} ELSE {})

Signal(sig, P) ==
    /\ procs' = Terminated(P, procs)
    /\ sig_pipe' \in Echoes(sig, P, procs, sig_pipe)

Kill(P) == Signal("TERM", P)

-----------------------------------------------------------------------------
(* The helpers of service.rs.  T is a table.  Slots with the same name do  *)
(* not occur (OneInstance), so the first slot of a name is its only slot.  *)

\* stopping = true; state = STATE_STOPPING
Halt(s) == [s EXCEPT !.stopping = TRUE, !.state = "STOPPING"]

IsThere(T, n) ==                                                     \* mutant
    \E i \in Slots : T[i].active /\ T[i].name = n /\ T[i].pid # None

IsRunning(T, n) ==
    \E i \in Slots : T[i].active /\ T[i].name = n /\ T[i].state = "RUNNING"

deps_satisfied(T, i) == \A d \in HardDeps[T[i].name] : IsRunning(T, d)

\* Slots the propagation loop may stop.
Stoppable(T) ==
    {i \in Slots : /\ T[i].active /\ ~T[i].stopping
                   /\ T[i].pid # None /\ T[i].state = "RUNNING"}

\* Dropping from T the slots of C, as stopped, leaves nothing to propagate.
ClosedUnder(T, C) ==
    \A i \in Stoppable(T) :
        (\E d \in HardDeps[T[i].name] : \A j \in Slots \ C :
             ~(T[j].active /\ T[j].name = d /\ T[j].state = "RUNNING"))
        => i \in C

\* Mutants: one level of dependents only; whoever depends on anything.
DoomedDirectly(T) ==
    {i \in Stoppable(T) : ~deps_satisfied(T, i)}
DoomedIfDependent(T) == {i \in Stoppable(T) : HardDeps[T[i].name] # {}}

\* The least set closed under the propagation: what the loop has stopped
\* when a whole pass over the table changes nothing.
Doomed(T) ==
    {i \in Stoppable(T) : \A C \in SUBSET Slots : ClosedUnder(T, C) => i \in C}

stop_transitive_deps(T) ==
    [i \in Slots |-> IF i \in Doomed(T) THEN Halt(T[i]) ELSE T[i]]

PidsOf(T, I) == {T[i].pid : i \in I}

-----------------------------------------------------------------------------
(* The world outside the supervisor.                                       *)

\* A child reaches execve(): the handlers are reset, the descriptors closed.
Exec(p) ==
    /\ procs[p].stage = "setup"
    /\ procs' = [procs EXCEPT ![p].stage = "run"]
    /\ UNCHANGED <<services, local_vars, pc, file_vars, sig_pipe>>

\* A child exits, by itself or because of a signal.
Exit(p) ==
    /\ procs[p].stage \in {"setup", "run", "ending"}
    /\ procs' = [procs EXCEPT ![p].stage = "zombie"]
    /\ UNCHANGED <<services, local_vars, pc, file_vars, sig_pipe>>

\* The handler of a signal from outside writes its number into the pipe; a
\* full pipe loses it.  INT is handled as TERM.
SendSignal(sig) ==
    /\ pc # "done"
    /\ sig_pipe' = PushSignal(sig, sig_pipe)
    /\ UNCHANGED <<services, local_vars, pc, file_vars, procs>>

\* The administrator removes or brings back an executable `run'.
Touch(n) ==
    /\ run_files' = IF n \in run_files THEN run_files \ {n}
                    ELSE run_files \cup {n}
    /\ UNCHANGED <<services, local_vars, pc, kernel_vars, down_files,
                   once_files>>

Environment ==
    \/ \E p \in Pids : Exec(p) \/ Exit(p)
    \/ \E sig \in Signals : SendSignal(sig)
    \/ \E n \in Vanishing : Touch(n)

-----------------------------------------------------------------------------
(* reap_children(): waitpid(-1, WNOHANG) until it returns nothing.         *)

Zombies == {p \in Pids : procs[p].stage = "zombie"}

IsLogger(p) == \E i \in Slots : services[i].active /\ services[i].log_pid = p
IsMain(p) == \E i \in Slots : services[i].active /\ services[i].pid = p

\* The logger of slot i has exited; nothing else looks at it before
\* kill_main_on_log_death().
ReapLog(p, i) ==
    /\ pc = "reap" /\ p \in Zombies
    /\ services[i].active /\ services[i].log_pid = p
    /\ procs' = [procs EXCEPT ![p] = NoProc]
    /\ services' = [services EXCEPT ![i].log_pid = None,
                                    ![i].log_stopping = FALSE]
    /\ UNCHANGED <<local_vars, pc, file_vars, sig_pipe>>

\* Mutant: the state is left as it was.
AfterExitStale(s, long) ==
    [s EXCEPT !.pid = None, !.restart_at = "later", !.once = FALSE]

\* When the service may run again after its main process has exited, `long'
\* telling whether that process ran for more than RESTART_WINDOW_S.
AfterExit(s, long) ==
    LET count == IF long THEN 0
                 ELSE IF s.restarts <= MaxRestarts THEN s.restarts + 1
                 ELSE s.restarts
    IN  IF s.stopping \/ s.once
        THEN [s EXCEPT !.pid = None, !.state = "ENDED",
                       !.restart_at = "never", !.once = FALSE]
        ELSE IF count > MaxRestarts
        THEN [s EXCEPT !.pid = None, !.state = "FAILED",
                       !.restart_at = "never", !.restarts = count]
        ELSE [s EXCEPT !.pid = None, !.state = "ENDED",
                       !.restart_at = "later", !.restarts = count]

\* run_finish(): the finish script is forked and nobody remembers its pid.
FinishOutcomes(n, free) ==
    IF n \in Finishers THEN ForkOutcomes(free) ELSE {None}

\* The main process of slot i has exited.
ReapMain(p, i) ==
    /\ pc = "reap" /\ p \in Zombies /\ ~IsLogger(p)
    /\ services[i].active /\ services[i].pid = p
    /\ LET s == services[i]
           stop_log == s.log_pid # None /\ s.stopping
           after == Terminated(IF stop_log THEN {s.log_pid} ELSE {},
                               [procs EXCEPT ![p] = NoProc])
       IN  /\ \E f \in FinishOutcomes(s.name, Free \cup {p}) :
                  procs' = IF f = None THEN after
                           ELSE [after EXCEPT ![f] = NewProc("finish", s.name)]
           /\ sig_pipe' \in Echoes("TERM", IF stop_log THEN {s.log_pid} ELSE {},
                                   procs, sig_pipe)
           /\ \E long \in BOOLEAN :
                  services' = [services EXCEPT ![i] =
                      [AfterExit(s, long) EXCEPT
                          !.log_stopping = (@ \/ stop_log)]]
           /\ stop_deps' = (stop_deps \/ ~s.stopping)
    /\ UNCHANGED <<reload_needed, unread, cursor, phase, pc, file_vars>>

\* A finish script, or a logger whose slot has moved on to another one.
ReapUnknown(p) ==
    /\ pc = "reap" /\ p \in Zombies /\ ~IsLogger(p) /\ ~IsMain(p)
    /\ procs' = [procs EXCEPT ![p] = NoProc]
    /\ UNCHANGED <<services, local_vars, pc, file_vars, sig_pipe>>

\* waitpid() has nothing more: the services that depend on one that crashed
\* are stopped.
ReapEnd ==
    /\ pc = "reap" /\ Zombies = {}
    /\ IF stop_deps
       THEN /\ services' = stop_transitive_deps(services)
            /\ Kill(PidsOf(services, Doomed(services)))
       ELSE UNCHANGED <<services, kernel_vars>>
    /\ stop_deps' = FALSE
    /\ pc' = "logdeath"
    /\ UNCHANGED <<reload_needed, unread, cursor, phase, file_vars>>

\* The services kill_main_on_log_death() stops.
Unlogged(T) ==
    {i \in Slots : /\ T[i].active /\ T[i].has_log /\ T[i].log_pid = None
                   /\ T[i].pid # None /\ ~T[i].stopping
                   /\ T[i].state = "RUNNING"}

AlwaysServing == "scan"                                              \* mutant

\* The caller of reap_children(): the main loop or a wait of the shutdown.
AfterReap == IF phase = "serve" THEN "scan" ELSE "settle"

LogDeath ==
    /\ pc = "logdeath"
    /\ services' = [i \in Slots |-> IF i \in Unlogged(services)
                                    THEN Halt(services[i]) ELSE services[i]]
    /\ Kill(PidsOf(services, Unlogged(services)))
    /\ pc' = AfterReap
    /\ UNCHANGED <<local_vars, file_vars>>

-----------------------------------------------------------------------------
(* scan_services() and handle_missing_services().                          *)

\* t < next_scan, and no reload has been asked for.
SkipScan ==
    /\ pc = "scan" /\ ~reload_needed
    /\ pc' = "start"
    /\ UNCHANGED <<services, local_vars, kernel_vars, file_vars>>

OpendirFails ==
    /\ pc = "scan" /\ "opendir" \in Faults
    /\ reload_needed' = FALSE
    /\ pc' = "start"
    /\ UNCHANGED <<services, stop_deps, unread, cursor, phase, kernel_vars,
                   file_vars>>

Opendir ==
    /\ pc = "scan"
    /\ services' = [i \in Slots |->
                       IF services[i].active
                       THEN [services[i] EXCEPT !.present = FALSE]
                       ELSE services[i]]
    /\ reload_needed' = FALSE
    /\ unread' = run_files
    /\ pc' = "readdir"
    /\ UNCHANGED <<stop_deps, cursor, phase, kernel_vars, file_vars>>

\* add_service() into an empty slot.  Dependencies, `down', `once' and
\* log/run are looked at here and never again.
NewService(n) ==
    [SERVICE_EMPTY EXCEPT !.active = TRUE, !.present = TRUE, !.name = n,
                          !.auto_start = (n \notin down_files),
                          !.once = (n \in once_files),
                          !.has_log = (n \in Logged)]

FirstUnused(i) ==
    ~services[i].active /\ \A j \in Slots : j < i => services[j].active

\* A known service is present again, and no longer being stopped.
FindEntry(n, i) ==
    /\ pc = "readdir" /\ n \in unread /\ n \in run_files
    /\ services[i].active /\ services[i].name = n
    /\ services' = [services EXCEPT ![i].present = TRUE,
                                    ![i].stopping = FALSE]
    /\ unread' = unread \ {n}
    /\ UNCHANGED <<stop_deps, reload_needed, cursor, phase, pc, kernel_vars,
                   file_vars>>

Known(n) == \E i \in Slots : services[i].active /\ services[i].name = n

AddEntry(n, i) ==
    /\ pc = "readdir" /\ n \in unread /\ n \in run_files /\ ~Known(n)
    /\ FirstUnused(i)
    /\ services' = [services EXCEPT ![i] = NewService(n)]
    /\ unread' = unread \ {n}
    /\ UNCHANGED <<stop_deps, reload_needed, cursor, phase, pc, kernel_vars,
                   file_vars>>

\* The `run' is gone since readdir, or the table is full.
PassEntry(n) ==
    /\ pc = "readdir" /\ n \in unread
    /\ n \notin run_files \/ (~Known(n) /\ \A i \in Slots : services[i].active)
    /\ unread' = unread \ {n}
    /\ UNCHANGED <<services, stop_deps, reload_needed, cursor, phase, pc,
                   kernel_vars, file_vars>>

\* readdir() returns null: at the end, or because it fails.
Closedir ==
    /\ pc = "readdir" /\ (unread = {} \/ "readdir" \in Faults)
    /\ unread' = {}
    /\ pc' = "missing"
    /\ UNCHANGED <<services, stop_deps, reload_needed, cursor, phase,
                   kernel_vars, file_vars>>

\* The next slot of the loop at pc, or the step after the loop.
NextSlot(after) ==
    IF cursor < MaxServices
    THEN cursor' = cursor + 1 /\ pc' = pc
    ELSE cursor' = 1 /\ pc' = after

Missing(s) == s.active /\ ~s.present

NoMain(s) == s.pid = None                                            \* mutant
NoLogger(s) == s.log_pid = None                                      \* mutant
NoProcessAndDown(s) == s.pid = None /\ s.log_pid = None /\ s.state = "DOWN"
                                                                     \* mutant
NoProcess(s) == s.pid = None /\ s.log_pid = None

KeepService ==
    /\ pc = "missing" /\ ~Missing(services[cursor])
    /\ NextSlot("start")
    /\ UNCHANGED <<services, stop_deps, reload_needed, unread, phase,
                   kernel_vars, file_vars>>

\* A missing service that still has a process is told to stop, once.
StopMissing ==
    LET s == services[cursor]
        main == s.pid # None /\ ~s.stopping
        log == s.log_pid # None /\ ~s.log_stopping
        cascade == IF main THEN Doomed(services) ELSE {}
        T == [i \in Slots |->
                 IF i \in cascade \/ (i = cursor /\ main)
                 THEN Halt(services[i]) ELSE services[i]]
    IN  /\ pc = "missing" /\ Missing(s)
        /\ ~NoProcess(s)
        /\ services' = [T EXCEPT ![cursor].log_stopping = (@ \/ log)]
        /\ Kill(PidsOf(services, cascade) \cup (IF main THEN {s.pid} ELSE {})
                \cup (IF log THEN {s.log_pid} ELSE {}))
        /\ NextSlot("start")
        /\ UNCHANGED <<stop_deps, reload_needed, unread, phase, file_vars>>

DropService ==
    LET s == services[cursor]
    IN  /\ pc = "missing" /\ Missing(s) /\ NoProcess(s)
        /\ services' = [services EXCEPT ![cursor].active = FALSE,
                                        ![cursor].state = "DOWN"]
        /\ NextSlot("start")
        /\ UNCHANGED <<stop_deps, reload_needed, unread, phase, kernel_vars,
                       file_vars>>

-----------------------------------------------------------------------------
(* The start loop and start_service().                                     *)

\* Mutants: restart_at is not looked at; a delay is never over.
StartableAnyTime(s) ==
    /\ s.active /\ s.present /\ ~s.stopping /\ s.pid = None
    /\ s.manual_start \/ (s.auto_start /\ ~s.once)
StartableIfDue(s) == StartableAnyTime(s) /\ s.restart_at = "due"

Startable(s) ==
    /\ s.active /\ s.present /\ ~s.stopping /\ s.pid = None
    /\ s.restart_at # "never"       \* "later": t >= restart_at by now
    /\ s.manual_start \/ (s.auto_start /\ ~s.once)

PassSlot ==
    /\ pc = "start"
    /\ ~Startable(services[cursor]) \/ services[cursor].restart_at = "later"
    /\ NextSlot("signals")
    /\ UNCHANGED <<services, stop_deps, reload_needed, unread, phase,
                   kernel_vars, file_vars>>

\* A hard dependency is not running: look again in a second.
PostponeStart ==
    /\ pc = "start" /\ Startable(services[cursor])
    /\ ~deps_satisfied(services, cursor)
    /\ services' = [services EXCEPT ![cursor].restart_at = "later"]
    /\ NextSlot("signals")
    /\ UNCHANGED <<stop_deps, reload_needed, unread, phase, kernel_vars,
                   file_vars>>

\* The logger first: log is its pid, or None when there is none to start or
\* it cannot be started, and then the service has no logger any more.
WithLoggerAssumed(s, log) ==                                         \* mutant
    IF s.has_log THEN [s EXCEPT !.log_pid = log, !.log_stopping = FALSE] ELSE s

WithLoggerMarked(s, log) ==                                          \* mutant
    IF ~s.has_log THEN s
    ELSE IF log = None THEN [s EXCEPT !.has_log = FALSE]
    ELSE [s EXCEPT !.log_pid = log]

WithLogger(s, log) ==
    IF ~s.has_log THEN s
    ELSE IF log = None THEN [s EXCEPT !.has_log = FALSE]
    ELSE [s EXCEPT !.log_pid = log, !.log_stopping = FALSE]

\* Then the main process: main is its pid, or None when a pipe or the fork
\* failed, and then the start is tried again after BACKOFF_SHORT.
WithMain(s, main) ==
    IF main = None
    THEN [s EXCEPT !.state = "FAILED", !.restart_at = "later"]
    ELSE [s EXCEPT !.pid = main, !.state = "RUNNING", !.manual_start = FALSE]

StartService ==
    LET s == services[cursor]
    IN  /\ pc = "start" /\ Startable(s)
        /\ deps_satisfied(services, cursor)
        /\ \E log \in IF s.has_log THEN ForkOutcomes(Free) ELSE {None} :
           \E main \in ForkOutcomes(Free \ {log}) :
               /\ services' = [services EXCEPT ![cursor] =
                                  WithMain(WithLogger(s, log), main)]
               /\ procs' = [p \in Pids |->
                               IF p = main THEN NewProc("main", s.name)
                               ELSE IF p = log THEN NewProc("log", s.name)
                               ELSE procs[p]]
        /\ NextSlot("signals")
        /\ UNCHANGED <<stop_deps, reload_needed, unread, phase, file_vars,
                       sig_pipe>>

-----------------------------------------------------------------------------
(* After poll(): the self-pipe, then the control socket.                   *)

\* poll() was interrupted or failed: `continue'.
PollInterrupted ==
    /\ pc = "signals"
    /\ pc' = "reap"
    /\ UNCHANGED <<services, local_vars, kernel_vars, file_vars>>

NoSignal ==
    /\ pc = "signals" /\ sig_pipe = <<>>
    /\ pc' = "control"
    /\ UNCHANGED <<services, local_vars, kernel_vars, file_vars>>

\* drain_signal_pipe(): k bytes are read at once and the first one is acted
\* upon; the others of the chunk are gone.  (The SIGCHLD bytes, ignored, make
\* the 64 bytes of a chunk end anywhere among the others.)
DrainSignalPipe(k) ==
    /\ pc = "signals"
    /\ k \in 1..Len(sig_pipe)
    /\ sig_pipe' = SubSeq(sig_pipe, k + 1, Len(sig_pipe))
    /\ IF Head(sig_pipe) = "TERM"
       THEN pc' = "stopall" /\ UNCHANGED reload_needed
       ELSE pc' = "control" /\ reload_needed' = TRUE
    /\ UNCHANGED <<services, stop_deps, unread, cursor, phase, file_vars,
                   procs>>

NoClient ==
    /\ pc = "control"
    /\ pc' = "reap"
    /\ UNCHANGED <<services, local_vars, kernel_vars, file_vars>>

\* The client's socket is read in blocking mode: the supervisor stays at
\* "client" until the client has written a command or gone away.
Accept ==
    /\ pc = "control" /\ Commands # {}
    /\ pc' = "client"
    /\ UNCHANGED <<services, local_vars, kernel_vars, file_vars>>

-----------------------------------------------------------------------------
(* handle_control_command(), one action per command.  A command that names *)
(* no service is answered with an error, as Query.                         *)

Receive(cmd) == pc = "client" /\ cmd \in Commands /\ pc' = "reap"

\* find_service_by_name() on the argument of the command.
Named(n, i) == services[i].active /\ services[i].name = n

CmdStart(n, i) ==
    /\ Receive("start") /\ Named(n, i)
    /\ services' = [services EXCEPT ![i].manual_start = TRUE,
                                    ![i].restart_at = "due",
                                    ![i].stopping = FALSE]
    /\ UNCHANGED <<local_vars, kernel_vars, file_vars>>

\* The processes a command stops: the group of the main process, the logger.
HaltedMain(s) == {s.pid} \ {None}                                    \* mutant
Halted(s) == {s.pid, s.log_pid} \ {None}

HaltWithLog(s) ==
    [Halt(s) EXCEPT !.log_stopping = (@ \/ s.log_pid # None)]

\* The dependents are looked at before this service leaves STATE_RUNNING.
CmdStop(n, i) ==
    /\ Receive("stop") /\ Named(n, i)
    /\ services' = [stop_transitive_deps(services)
                        EXCEPT ![i] = HaltWithLog(@)]
    /\ Kill(PidsOf(services, Doomed(services)) \cup Halted(services[i]))
    /\ UNCHANGED <<local_vars, file_vars>>

CmdRestart(n, i) ==
    /\ Receive("restart") /\ Named(n, i)
    /\ services' = [services EXCEPT ![i] =
                       [HaltWithLog(services[i]) EXCEPT !.manual_start = TRUE]]
    /\ Kill(Halted(services[i]))
    /\ UNCHANGED <<local_vars, file_vars>>

CmdDown(n, i) ==
    LET s == services[i]
    IN  /\ Receive("down") /\ Named(n, i)
        /\ services' = [services EXCEPT ![i] =
               [IF s.pid = None THEN s ELSE HaltWithLog(s)
                EXCEPT !.auto_start = FALSE]]
        /\ Kill(IF s.pid = None THEN {} ELSE Halted(s))
        /\ down_files' = down_files \cup {n}
        /\ UNCHANGED <<local_vars, run_files, once_files>>

CmdUp(n, i) ==
    /\ Receive("up") /\ Named(n, i)
    /\ services' = [services EXCEPT ![i].auto_start = TRUE,
                                    ![i].restart_at = "due",
                                    ![i].stopping = FALSE]
    /\ down_files' = down_files \ {n}
    /\ UNCHANGED <<local_vars, kernel_vars, run_files, once_files>>

CmdOnce(n, i) ==
    /\ Receive("once") /\ Named(n, i)
    /\ services' = [services EXCEPT ![i].once = TRUE]
    /\ once_files' = once_files \cup {n}
    /\ UNCHANGED <<local_vars, kernel_vars, run_files, down_files>>

\* signal, hup, term, int, ...: sent as a signal that ends the service; before
\* exec it may come back as a TERM (or INT) or as a HUP.
CmdSignal(n, i) ==
    /\ Receive("signal") /\ Named(n, i) /\ services[i].pid # None
    /\ \E sig \in SignalNames : Signal(sig, {services[i].pid})
    /\ UNCHANGED <<services, local_vars, file_vars>>

\* kill(getpid(), SIGHUP)
CmdReload ==
    /\ Receive("reload")
    /\ sig_pipe' = PushSignal("HUP", sig_pipe)
    /\ UNCHANGED <<services, local_vars, file_vars, procs>>

\* check: the script is forked and waited for before anything else is done.
CmdCheck(n, i) ==
    /\ pc = "client" /\ "check" \in Commands /\ Named(n, i)
    /\ \E c \in Free :
           procs' = [procs EXCEPT ![c] = NewProc("check", n)]
    /\ pc' = "check"
    /\ UNCHANGED <<services, local_vars, file_vars, sig_pipe>>

\* waitpid(pid, 0) of the check command: only "check" is at that pid.
CheckDone(c) ==
    /\ pc = "check" /\ c \in Zombies /\ procs[c].role = "check"
    /\ procs' = [procs EXCEPT ![c] = NoProc]
    /\ pc' = "reap"
    /\ UNCHANGED <<services, local_vars, file_vars, sig_pipe>>

\* list, status, an error, a check without a script or a process for it, and
\* a client that closed its end.
Query ==
    /\ pc = "client"
    /\ pc' = "reap"
    /\ UNCHANGED <<services, local_vars, kernel_vars, file_vars>>

Command ==
    \/ \E n \in Names, i \in Slots :
          \/ CmdStart(n, i) \/ CmdStop(n, i) \/ CmdRestart(n, i)
          \/ CmdDown(n, i) \/ CmdUp(n, i) \/ CmdOnce(n, i)
          \/ CmdSignal(n, i) \/ CmdCheck(n, i)
    \/ CmdReload
    \/ Query

-----------------------------------------------------------------------------
(* The shutdown.                                                           *)

RunningOnly(T) ==                                                    \* mutant
    {i \in Slots : T[i].active /\ T[i].state = "RUNNING"}

ShutdownTargets(T) ==
    {i \in Slots : T[i].active /\ T[i].state \in {"RUNNING", "STOPPING"}}

\* What stop_all_in_order() leaves in the table T, and whom it sends TERM.  The
\* order of the signals is the subject of StopLoops.
StoppedAll(T) ==
    [i \in Slots |->
        IF i \notin ShutdownTargets(T) THEN T[i]
        ELSE [IF T[i].pid = None THEN T[i] ELSE Halt(T[i]) EXCEPT
                 !.log_stopping = (@ \/ T[i].log_pid # None)]]

ShutdownPids(T) ==
    UNION {{T[i].pid} \cup (IF T[i].log_stopping THEN {} ELSE {T[i].log_pid}) :
              i \in ShutdownTargets(T)}

StopAll ==
    /\ pc = "stopall"
    /\ services' = StoppedAll(services)
    /\ Kill(ShutdownPids(services))
    /\ phase' = "term"
    /\ pc' = "reap"
    /\ UNCHANGED <<stop_deps, reload_needed, unread, cursor, file_vars>>

Tracked == {i \in Slots : services[i].active /\ ~NoProcess(services[i])}

\* The two waits.  any_open_services() is also kept true by a pipe somebody
\* holds open, and a wait may end at once when the deadline has passed, so
\* both ways out of "settle" are always there.
SettleAgain ==
    /\ pc = "settle"
    /\ pc' = "reap"
    /\ UNCHANGED <<services, local_vars, kernel_vars, file_vars>>

\* KILL to every main process group and logger that is still in the table.  A
\* group that does not exist yet, before setsid(), is missed.
KillRest ==
    LET mains == {services[i].pid : i \in Tracked} \ {None}
        logs == {services[i].log_pid : i \in Tracked} \ {None}
    IN  /\ pc = "settle" /\ phase = "term"
        /\ \E missed \in SUBSET {p \in mains : procs[p].stage = "setup"} :
               procs' = [p \in Pids |->
                   IF /\ p \in (mains \ missed) \cup logs
                      /\ procs[p].stage \in {"setup", "run"}
                   THEN [procs[p] EXCEPT !.stage = "ending"] ELSE procs[p]]
        /\ phase' = "kill"
        /\ pc' = "reap"
        /\ UNCHANGED <<services, stop_deps, reload_needed, unread, cursor,
                       file_vars, sig_pipe>>

CloseAll ==
    /\ pc = "settle" /\ phase = "kill"
    /\ services' = [i \in Slots |->
           IF services[i].active
           THEN [services[i] EXCEPT !.pid = None, !.log_pid = None,
                                    !.state = "DOWN"]
           ELSE services[i]]
    /\ pc' = "done"
    /\ UNCHANGED <<local_vars, kernel_vars, file_vars>>

\* main() has returned.
Terminating == pc = "done" /\ UNCHANGED vars

-----------------------------------------------------------------------------
(* The specification.                                                      *)

Reap ==
    \/ \E p \in Pids, i \in Slots : ReapLog(p, i) \/ ReapMain(p, i)
    \/ \E p \in Pids : ReapUnknown(p)
    \/ ReapEnd
    \/ LogDeath

Scan ==
    \/ SkipScan \/ OpendirFails \/ Opendir \/ Closedir
    \/ \E n \in Names : PassEntry(n)
    \/ \E n \in Names, i \in Slots : FindEntry(n, i) \/ AddEntry(n, i)
    \/ KeepService \/ StopMissing \/ DropService

Start == PassSlot \/ PostponeStart \/ StartService

Poll ==
    \/ PollInterrupted \/ NoSignal \/ NoClient \/ Accept
    \/ \E k \in 1..PipeCapacity : DrainSignalPipe(k)

Shutdown == StopAll \/ SettleAgain \/ KillRest \/ CloseAll

\* The supervisor's own steps: those that wait for nobody, and those of a
\* client or a check script that answers.
Supervise == Reap \/ Scan \/ Start \/ Poll \/ Shutdown
Serve == Command \/ \E c \in Pids : CheckDone(c)

Next == Supervise \/ Serve \/ Environment \/ Terminating

Spec == Init /\ [][Next]_vars

-----------------------------------------------------------------------------
(* What a reader may rely on.                                              *)

\* A pid in the table is a child that has not been waited for, of the role
\* and the service the slot says.  reap_children() finds the owner of a pid by
\* the number alone, so this must survive the reuse of pids by the kernel, the
\* removal of a slot and its reuse by another service.
PidsTracked ==
    pc # "done" =>
        \A i \in Slots :
            LET s == services[i]
            IN  /\ s.pid # None => /\ s.active
                                   /\ procs[s.pid].role = "main"
                                   /\ procs[s.pid].name = s.name
                /\ s.log_pid # None => /\ s.active
                                       /\ procs[s.log_pid].role = "log"
                                       /\ procs[s.log_pid].name = s.name

\* A service never has two main processes, and none is forgotten: until the
\* supervisor returns, each is the one its slot names.  start_service(), the
\* reaping and the removal and return of a directory would have to agree on
\* the wrong thing to break it.
OneInstance ==
    /\ \A i, j \in Slots : services[i].active /\ services[j].active
                           /\ services[i].name = services[j].name => i = j
    /\ \A p \in Pids : procs[p].role = "main" /\ pc # "done" => IsMain(p)
    /\ \A p, q \in Pids :
            procs[p].role = "main" /\ procs[q].role = "main"
            /\ procs[p].name = procs[q].name => p = q

\* STATE_RUNNING is what the dependents, the cascade and the shutdown go by:
\* it means a process that nobody is stopping, and every process belongs to a
\* service the shutdown will find by its state.
RunningMeansAlive ==
    \A i \in Slots :
        LET s == services[i]
        IN  /\ s.active /\ s.state = "RUNNING" => s.pid # None /\ ~s.stopping
            /\ s.pid # None => s.state \in {"RUNNING", "STOPPING"}

\* handle_missing_services() and the shutdown signal nobody who is already
\* marked as stopping.  That is sound because a mark is never set, nor kept
\* over a restart, without the signal having reached the process it is about.
\* (It takes a child to have reached exec: see ShutdownOnlyWhenAsked.)
StoppingIsSignalled ==
    pc # "done" =>
        \A i \in Slots :
            LET s == services[i]
            IN  /\ s.stopping /\ s.pid # None => procs[s.pid].stage # "run"
                /\ s.log_stopping /\ s.log_pid # None
                       => procs[s.log_pid].stage # "run"

\* The same with the window between fork and exec: a mark is never about a
\* child that has just been forked, and a process runs with a mark on it only
\* if it ran with that mark before, or has just reached exec.  So a signal that
\* comes before setsid() is the only way to be marked and never told.
MarksAreSignalled ==
    [][\A i \in Slots :
           LET s == services[i]
               t == services'[i]
           IN  /\ t.stopping /\ t.pid # None =>
                      /\ t.pid = s.pid
                      /\ procs'[t.pid].stage = "run" =>
                             /\ s.stopping
                             /\ procs[s.pid].stage \in {"setup", "run"}
               /\ t.log_stopping /\ t.log_pid # None =>
                      /\ t.log_pid = s.log_pid
                      /\ procs'[t.log_pid].stage = "run" =>
                             /\ s.log_stopping
                             /\ procs[s.log_pid].stage \in {"setup", "run"}
    ]_vars

\* Once reap_children() has returned, no running service writes into the pipe
\* of a logger that is gone (kill_main_on_log_death).
LoggersWatched ==
    pc \notin {"reap", "logdeath", "done"} =>
        \A i \in Slots : services[i].active /\ services[i].has_log
                         /\ services[i].state = "RUNNING"
                         => services[i].log_pid # None

\* The shutdown leaves nobody out: after stop_all_in_order() every main
\* process has been sent TERM, and after the KILL pass so has every logger
\* still in the table; none has been started since.
ShutdownReachesAll ==
    /\ phase # "serve" /\ pc # "done" =>
           \A i \in Slots : services[i].pid # None =>
               services[i].stopping /\ procs[services[i].pid].stage # "run"
    /\ phase = "kill" /\ pc # "done" =>
           \A i \in Slots : services[i].log_pid # None =>
               procs[services[i].log_pid].stage # "run"
    /\ pc = "done" =>
           \A p \in Pids : procs[p].role = "main" => procs[p].stage # "run"

\* A crash stops everybody who depends on it, however indirectly, in the same
\* pass: when the cascade of reap_children() is over, the hard dependencies of
\* each running service are running.
CascadeComplete ==
    [][stop_deps /\ pc' = "logdeath" =>
           \A i \in Slots :
               services'[i].active /\ services'[i].state = "RUNNING"
               => deps_satisfied(services', i)]_vars

\* The cascade stops nobody else: a service it stops has a hard dependency
\* that is not running any more.
CascadeMinimal ==
    [][stop_deps /\ pc' = "logdeath" =>
           \A i \in Slots : services'[i].stopping /\ ~services[i].stopping
                            => ~deps_satisfied(services', i)]_vars

\* A service the supervisor has given up on (restart_at = i64::MAX: stopped,
\* `once', or failed too often) is left alone until the operator says start or
\* up; scans, signals and the clock do not bring it back.
GivenUpIsFinal ==
    [][\A i \in Slots :
           services[i].active /\ services[i].restart_at = "never"
           /\ services'[i].restart_at # "never" => pc = "client"]_vars

-----------------------------------------------------------------------------
(* Progress.  The supervisor is scheduled; poll() is not interrupted for   *)
(* ever when a signal byte is waiting; a client writes or goes away; time  *)
(* passes; a child that has been sent TERM or KILL goes away, and so does  *)
(* a check script.                                                         *)

Dies(p) == Exit(p) /\ (procs[p].stage = "ending" \/ procs[p].role = "check")

Fairness ==
    /\ WF_vars(Supervise)
    /\ WF_vars(Serve)
    /\ SF_vars(\E k \in 1..PipeCapacity : DrainSignalPipe(k))
    /\ SF_vars(Opendir)
    /\ \A i \in Slots : SF_vars(cursor = i /\ (StartService \/ PostponeStart))
    /\ SF_vars(KillRest)
    /\ SF_vars(CloseAll)
    /\ \A p \in Pids : WF_vars(Exec(p)) /\ WF_vars(Dies(p))

FairSpec == Spec /\ Fairness

Runs(n) == \E i \in Slots : /\ services[i].active /\ services[i].name = n
                           /\ services[i].state = "RUNNING"

\* A service that is to run by itself and waits for no other one, and whose
\* main process has exited.
BackingOff(n) ==
    /\ HardDeps[n] = {}
    /\ \E i \in Slots :
           /\ services[i].active /\ services[i].name = n
           /\ services[i].state = "ENDED" /\ services[i].restart_at # "never"
           /\ services[i].auto_start /\ ~services[i].once

\* The operator has stopped or removed n, or the circuit breaker is open.
Interfered(n) ==
    \/ n \notin run_files \/ ~Known(n)
    \/ \E i \in Slots : /\ services[i].active /\ services[i].name = n
                        /\ \/ services[i].stopping \/ services[i].once
                           \/ ~services[i].auto_start
                           \/ services[i].restart_at = "never"

\* After a crash the service runs again once its backoff is over, unless the
\* operator has stopped or removed it or the supervisor shuts down.
CrashRecovered ==
    \A n \in Names :
        BackingOff(n) ~> (Runs(n) \/ Interfered(n) \/ phase # "serve")

\* The shutdown comes to its end whatever the services do with the signals.
ShutdownCompletes == (phase # "serve") ~> (pc = "done")

\* The slot of n is marked as stopping, and the process behind the mark runs:
\* the signal came before exec and was lost, and is not sent again.
Untold(n) ==
    \E i \in Slots :
        LET s == services[i]
        IN  /\ Named(n, i)
            /\ \/ s.stopping /\ s.pid # None /\ procs[s.pid].stage = "run"
               \/ /\ s.log_stopping /\ s.log_pid # None
                  /\ procs[s.log_pid].stage = "run"

\* A directory that is removed for good gives its slot back, after its
\* processes have been stopped and waited for.  The one thing that keeps the
\* slot, until the shutdown, is a TERM sent between fork and exec:
\* handle_missing_services() takes the mark for the signal.  (MarksAreSignalled
\* has the same exception, step by step.)
RemovedIsDropped ==
    \A n \in Vanishing :
        <>[](n \notin run_files /\ phase = "serve")
            => <>[](~Known(n) \/ Untold(n))

-----------------------------------------------------------------------------
(* What the README says and the code does not do.                          *)

\* README, Dependencies: "When a service stops (or crashes), all services that
\* hard-depend on it are stopped transitively".  When the children that exited
\* have been reaped, nobody runs on a dependency that has no process any more.
\* It holds when services only crash (the run `cascade'), and not after `stop'.
DependentsFollow ==
    pc = "scan" =>
        \A i, j \in Slots :
            /\ services[i].active /\ services[i].state = "RUNNING"
            /\ services[j].active /\ services[j].pid = None
            => services[j].name \notin HardDeps[services[i].name]

\* README, Supported Commands: restart is "Stop then start the service (with
\* manual_start)".  When no client comes any more, a service that has been told
\* to restart runs in the end.
RestartBringsBack ==
    <>[](pc # "client") =>
        \A i \in Slots : (services[i].manual_start /\ services[i].stopping)
                             ~> services[i].state = "RUNNING"

\* README, Signal Handling: "the signal handler writes the signal number into a
\* pipe; the main loop reads it via poll(), ensuring race-free processing".  A
\* TERM that has been written into the pipe makes the supervisor shut down.
TermIsObeyed ==
    (\E k \in DOMAIN sig_pipe : sig_pipe[k] = "TERM") ~> phase # "serve"

=============================================================================
