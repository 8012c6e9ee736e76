--------------------------- MODULE SupervisorProofs ---------------------------
(***************************************************************************)
(* Theorems about Supervisor for every value of its constants.             *)
(***************************************************************************)
EXTENDS Supervisor, TLAPS

USE MaxServicesAssumption, NoneAssumption DEF Slots

-----------------------------------------------------------------------------
(* The helpers on records stay within the type.                            *)

\* The states the code assigns.
LEMMA StateTypes == {"DOWN", "RUNNING", "ENDED", "FAILED", "STOPPING"} = States
BY DEF States

\* The mark of a logger that is told to go.
LEMMA LogMarkType ==
    ASSUME NEW s \in Service, NEW b \in BOOLEAN
    PROVE  [s EXCEPT !.log_stopping = (@ \/ b)] \in Service
<1>1. \A c \in BOOLEAN : [s EXCEPT !.log_stopping = c] \in Service
  BY Zenon DEF Service
<1>2. (s.log_stopping \/ b) \in BOOLEAN
  OBVIOUS
<1> QED
  BY <1>1, <1>2, Zenon

\* A service that is halted, with or without its logger, is still a service.
LEMMA HaltType ==
    ASSUME NEW s \in Service
    PROVE  Halt(s) \in Service /\ HaltWithLog(s) \in Service
<1>1. "STOPPING" \in States
  BY StateTypes
<1>2. Halt(s) \in Service
  BY <1>1, Zenon DEF Halt, Service
<1>3. (s.log_pid # None) \in BOOLEAN
  OBVIOUS
<1> QED
  BY <1>2, <1>3, LogMarkType, Zenon DEF HaltWithLog

\* So is one whose main process has exited: the restart count stops growing at
\* one more than the limit.
LEMMA AfterExitType ==
    ASSUME NEW s \in Service, NEW long \in BOOLEAN
    PROVE  /\ AfterExit(s, long) \in Service
           /\ \A b \in BOOLEAN :
                  [AfterExit(s, long) EXCEPT !.log_stopping = (@ \/ b)]
                      \in Service
<1> DEFINE count == IF long THEN 0
                    ELSE IF s.restarts <= MaxRestarts THEN s.restarts + 1
                    ELSE s.restarts
<1>1. count \in 0..(MaxRestarts + 1)
  BY MaxRestartsAssumption DEF Service
<1> DEFINE stopped == [s EXCEPT !.pid = None, !.state = "ENDED",
                                !.restart_at = "never", !.once = FALSE]
           failed == [s EXCEPT !.pid = None, !.state = "FAILED",
                               !.restart_at = "never", !.restarts = count]
           backoff == [s EXCEPT !.pid = None, !.state = "ENDED",
                                !.restart_at = "later", !.restarts = count]
<1>2. stopped \in Service /\ failed \in Service /\ backoff \in Service
  <2> HIDE DEF count
  <2>1. "ENDED" \in States /\ "FAILED" \in States
    BY StateTypes
  <2>2. stopped \in Service
    BY <2>1, Zenon DEF Service
  <2>3. failed \in Service
    BY <1>1, <2>1, Zenon DEF Service
  <2>4. backoff \in Service
    BY <1>1, <2>1, Zenon DEF Service
  <2> QED
    BY <2>2, <2>3, <2>4
<1>3. AfterExit(s, long) \in {stopped, failed, backoff}
  BY Zenon DEF AfterExit
<1> HIDE DEF count, stopped, failed, backoff
<1>4. AfterExit(s, long) \in Service
  BY <1>2, <1>3
<1> QED
  BY <1>4, LogMarkType, Zenon

\* An exit forgets the main process and leaves the logger as it is.
LEMMA AfterExitKeeps ==
    ASSUME NEW s \in Service, NEW long
    PROVE  /\ AfterExit(s, long).pid = None
           /\ AfterExit(s, long).log_pid = s.log_pid
           /\ AfterExit(s, long).log_stopping = s.log_stopping
<1> DEFINE Kept(t) == /\ t.pid = None /\ t.log_pid = s.log_pid
                      /\ t.log_stopping = s.log_stopping
<1>1. Kept([s EXCEPT !.pid = None, !.state = "ENDED", !.restart_at = "never",
                     !.once = FALSE])
  BY DEF Service
<1>2. \A c : Kept([s EXCEPT !.pid = None, !.state = "FAILED",
                            !.restart_at = "never", !.restarts = c])
  BY DEF Service
<1>3. \A c : Kept([s EXCEPT !.pid = None, !.state = "ENDED",
                            !.restart_at = "later", !.restarts = c])
  BY DEF Service
<1> HIDE DEF Kept
<1>4. Kept(AfterExit(s, long))
  BY <1>1, <1>2, <1>3, Zenon DEF AfterExit
<1> QED
  BY <1>4 DEF Kept

\* A new slot and the two halves of a start.
LEMMA NewServiceType ==
    ASSUME NEW n \in Names PROVE NewService(n) \in Service
<1>1. SERVICE_EMPTY \in Service
  BY MaxRestartsAssumption DEF SERVICE_EMPTY, Service, States
<1>2. \A auto, once, log \in BOOLEAN :
          [SERVICE_EMPTY EXCEPT !.active = TRUE, !.present = TRUE, !.name = n,
               !.auto_start = auto, !.once = once, !.has_log = log] \in Service
  BY <1>1 DEF Service
<1>3. /\ (n \notin down_files) \in BOOLEAN
      /\ (n \in once_files) \in BOOLEAN
      /\ (n \in Logged) \in BOOLEAN
  OBVIOUS
<1> QED
  BY <1>2, <1>3, Zenon DEF NewService

\* A start keeps a slot a slot, with whichever of the two forks fails.
LEMMA StartType ==
    ASSUME NEW s \in Service, NEW log \in Pids \cup {None},
           NEW main \in Pids \cup {None}
    PROVE  WithMain(WithLogger(s, log), main) \in Service
<1>1. [s EXCEPT !.has_log = FALSE] \in Service
  BY Zenon DEF Service
<1>a. [s EXCEPT !.log_pid = log, !.log_stopping = FALSE] \in Service
  BY Zenon DEF Service
<1>2. WithLogger(s, log) \in Service
  BY <1>1, <1>a, Zenon DEF WithLogger
<1>3. ASSUME NEW t \in Service PROVE WithMain(t, main) \in Service
  <2>1. "FAILED" \in States /\ "RUNNING" \in States
    BY StateTypes
  <2>2. [t EXCEPT !.state = "FAILED", !.restart_at = "later"] \in Service
    BY <2>1, Zenon DEF Service
  <2>3. [t EXCEPT !.pid = main, !.state = "RUNNING", !.manual_start = FALSE]
            \in Service
    BY <2>1, Zenon DEF Service
  <2> QED
    BY <2>2, <2>3, Zenon DEF WithMain
<1> QED
  BY <1>2, <1>3

\* A fork yields a pid or fails.
LEMMA ForkType ==
    ASSUME NEW free \in SUBSET Pids
    PROVE  ForkOutcomes(free) \subseteq Pids \cup {None}
BY DEF ForkOutcomes

-----------------------------------------------------------------------------
(* kill() and the self-pipe.                                               *)

PipeOK(pipe) == pipe \in Seq(SignalNames) /\ Len(pipe) <= PipeCapacity

\* The handler of a signal never fills the pipe beyond its capacity.
LEMMA PushType ==
    ASSUME NEW pipe, PipeOK(pipe), NEW sig \in SignalNames
    PROVE  PipeOK(PushSignal(sig, pipe))
BY PipeCapacityAssumption DEF PushSignal, PipeOK

\* Nor does the inherited handler of a child that is signalled.
LEMMA EchoesType ==
    ASSUME NEW pipe, PipeOK(pipe), NEW sig \in SignalNames, NEW P, NEW ps,
           NEW after \in Echoes(sig, P, ps, pipe)
    PROVE  PipeOK(after)
BY PushType DEF Echoes

\* A signal changes how far a child is, never who it is.
LEMMA TerminatedType ==
    ASSUME NEW ps \in [Pids -> Proc], NEW P
    PROVE  /\ Terminated(P, ps) \in [Pids -> Proc]
           /\ \A p \in Pids : /\ Terminated(P, ps)[p].role = ps[p].role
                              /\ Terminated(P, ps)[p].name = ps[p].name
BY DEF Terminated, Proc, Stages

\* Signals to children keep the kernel's side and the pipe to their types.
LEMMA SignalType ==
    ASSUME procs \in [Pids -> Proc], PipeOK(sig_pipe),
           NEW sig \in SignalNames, NEW P, Signal(sig, P)
    PROVE  procs' \in [Pids -> Proc] /\ PipeOK(sig_pipe')
BY TerminatedType, EchoesType DEF Signal

LEMMA KillType ==
    ASSUME procs \in [Pids -> Proc], PipeOK(sig_pipe), NEW P, Kill(P)
    PROVE  procs' \in [Pids -> Proc] /\ PipeOK(sig_pipe')
BY SignalType DEF Kill, SignalNames

\* A forked child is a child, in any role and of any service.
LEMMA NewProcType ==
    ASSUME NEW role \in Roles, NEW n \in Names \cup {None}
    PROVE  NewProc(role, n) \in Proc
BY DEF NewProc, Proc, Stages

\* So is the place of a pid that is free.
LEMMA NoProcType == NoProc \in Proc
BY DEF NoProc, Proc, Roles, Stages

\* A loop over the slots stays within the table.
LEMMA NextSlotType ==
    ASSUME cursor \in Slots, pc \in Locations, NEW after \in Locations,
           NextSlot(after)
    PROVE  cursor' \in Slots /\ pc' \in Locations
BY DEF NextSlot

-----------------------------------------------------------------------------
(* Where the supervisor is: which places each part of the loop goes from   *)
(* and to, and that need_stop_deps and the phase of the shutdown are       *)
(* nobody else's business.                                                 *)

\* What the loops of main() share outside their own part of it.
SameCourse == stop_deps' = stop_deps /\ phase' = phase

\* reap_children() and kill_main_on_log_death().
LEMMA ReapCourse ==
    ASSUME Reap
    PROVE  /\ pc \in {"reap", "logdeath"}
           /\ pc' \in {"reap", "logdeath", AfterReap}
           /\ phase' = phase
           /\ stop_deps' => stop_deps \/ pc' = "reap"
           /\ stop_deps' /\ pc = "reap" => pc' = "reap"
<1>1. ASSUME NEW p \in Pids, ReapUnknown(p) \/ \E i \in Slots : ReapLog(p, i)
      PROVE  pc = "reap" /\ pc' = "reap" /\ SameCourse
  BY <1>1 DEF ReapUnknown, ReapLog, local_vars, SameCourse
<1>2. ASSUME NEW p \in Pids, NEW i \in Slots, ReapMain(p, i)
      PROVE  pc = "reap" /\ pc' = "reap" /\ phase' = phase
  BY <1>2 DEF ReapMain
<1>3. CASE ReapEnd
  BY <1>3 DEF ReapEnd
<1>4. CASE LogDeath
  BY <1>4 DEF LogDeath, local_vars
<1> QED
  BY <1>1, <1>2, <1>3, <1>4 DEF Reap, SameCourse

\* scan_services() and handle_missing_services().
LEMMA ScanCourse ==
    ASSUME Scan
    PROVE  /\ pc \in {"scan", "readdir", "missing"}
           /\ pc' \in {"readdir", "missing", "start"}
           /\ SameCourse
<1> USE DEF SameCourse
<1>1. CASE SkipScan \/ OpendirFails \/ Opendir \/ Closedir
  BY <1>1 DEF SkipScan, OpendirFails, Opendir, Closedir, local_vars
<1>2. ASSUME \E n \in Names :
                 \/ PassEntry(n)
                 \/ \E i \in Slots : FindEntry(n, i) \/ AddEntry(n, i)
      PROVE  pc = "readdir" /\ pc' = pc /\ SameCourse
  BY <1>2 DEF PassEntry, FindEntry, AddEntry
<1>3. CASE KeepService \/ StopMissing \/ DropService
  BY <1>3 DEF KeepService, StopMissing, DropService, NextSlot
<1> QED
  BY <1>1, <1>2, <1>3 DEF Scan

\* The steps of a scan that find nothing to do.
ScanIdles ==
    \/ SkipScan \/ OpendirFails \/ Closedir \/ KeepService
    \/ \E n \in Names : PassEntry(n)

\* They leave the table and the children alone.
LEMMA IdleCourse ==
    ASSUME ScanIdles
    PROVE  services' = services /\ procs' = procs /\ sig_pipe' = sig_pipe
<1>1. CASE SkipScan
  BY <1>1 DEF SkipScan, kernel_vars
<1>2. CASE OpendirFails
  BY <1>2 DEF OpendirFails, kernel_vars
<1>3. CASE Closedir
  BY <1>3 DEF Closedir, kernel_vars
<1>4. CASE KeepService
  BY <1>4 DEF KeepService, kernel_vars
<1>5. CASE \E n \in Names : PassEntry(n)
  BY <1>5 DEF PassEntry, kernel_vars
<1> QED
  BY <1>1, <1>2, <1>3, <1>4, <1>5 DEF ScanIdles

\* The start loop.
LEMMA StartCourse ==
    ASSUME Start
    PROVE  pc = "start" /\ pc' \in {"start", "signals"} /\ SameCourse
BY DEF Start, PassSlot, PostponeStart, StartService, NextSlot, SameCourse

\* What follows poll() changes no table and no child.
LEMMA PollCourse ==
    ASSUME Poll
    PROVE  /\ pc \in {"signals", "control"}
           /\ pc' \in {"reap", "control", "client", "stopall"}
           /\ services' = services /\ procs' = procs /\ SameCourse
BY DEF Poll, PollInterrupted, NoSignal, NoClient, Accept, DrainSignalPipe,
       local_vars, kernel_vars, SameCourse

\* A command, and the wait for a check script.
LEMMA ServeCourse ==
    ASSUME Serve
    PROVE  /\ pc \in {"client", "check"}
           /\ pc' \in {"reap", "check"}
           /\ SameCourse
<1> USE DEF SameCourse, Receive, local_vars
<1>1. ASSUME NEW n \in Names, NEW i \in Slots,
             CmdStart(n, i) \/ CmdStop(n, i) \/ CmdRestart(n, i)
             \/ CmdDown(n, i)
      PROVE  pc = "client" /\ pc' = "reap" /\ SameCourse
  BY <1>1 DEF CmdStart, CmdStop, CmdRestart, CmdDown
<1>2. ASSUME NEW n \in Names, NEW i \in Slots,
             CmdUp(n, i) \/ CmdOnce(n, i) \/ CmdSignal(n, i)
      PROVE  pc = "client" /\ pc' = "reap" /\ SameCourse
  BY <1>2 DEF CmdUp, CmdOnce, CmdSignal
<1>3. ASSUME NEW n \in Names, NEW i \in Slots, CmdCheck(n, i)
      PROVE  pc = "client" /\ pc' = "check" /\ SameCourse
  BY <1>3 DEF CmdCheck
<1>4. CASE CmdReload \/ Query
  BY <1>4 DEF CmdReload, Query
<1>5. ASSUME NEW c \in Pids, CheckDone(c)
      PROVE  pc = "check" /\ pc' = "reap" /\ SameCourse
  BY <1>5 DEF CheckDone
<1> QED
  BY <1>1, <1>2, <1>3, <1>4, <1>5 DEF Serve, Command

\* The shutdown: entered by stop_all_in_order() alone, left by CloseAll alone.
LEMMA ShutdownCourse ==
    ASSUME Shutdown
    PROVE  /\ stop_deps' = stop_deps
           /\ \/ StopAll /\ pc = "stopall" /\ pc' = "reap" /\ phase' = "term"
              \/ /\ SettleAgain \/ KillRest
                 /\ pc = "settle" /\ pc' = "reap"
                 /\ phase' = phase \/ (phase = "term" /\ phase' = "kill")
              \/ /\ CloseAll /\ pc = "settle" /\ pc' = "done"
                 /\ phase = "kill" /\ phase' = phase
<1>1. CASE StopAll
  BY <1>1 DEF StopAll
<1>2. CASE SettleAgain
  BY <1>2 DEF SettleAgain, local_vars
<1>3. CASE KillRest
  BY <1>3 DEF KillRest
<1>4. CASE CloseAll
  BY <1>4 DEF CloseAll, local_vars
<1> QED
  BY <1>1, <1>2, <1>3, <1>4 DEF Shutdown

\* The world outside, and main() when it has returned.
LEMMA OutsideCourse ==
    ASSUME Environment \/ UNCHANGED vars
    PROVE  services' = services /\ pc' = pc /\ SameCourse
BY DEF Environment, Exec, Exit, SendSignal, Touch, local_vars, vars,
       SameCourse

-----------------------------------------------------------------------------
(* Type correctness.                                                       *)

\* The program starts with an empty table and no child.
LEMMA InitType == Init => TypeOK
<1> SUFFICES ASSUME Init PROVE TypeOK
  OBVIOUS
<1>1. SERVICE_EMPTY \in Service
  BY MaxRestartsAssumption DEF SERVICE_EMPTY, Service, States
<1>2. sig_pipe \in Seq(SignalNames) /\ Len(sig_pipe) <= PipeCapacity
  BY PipeCapacityAssumption DEF Init
<1>3. services \in [Slots -> Service] /\ procs \in [Pids -> Proc]
  BY <1>1, NoProcType DEF Init
<1>4. cursor \in Slots
  BY DEF Init
<1> QED
  BY <1>2, <1>3, <1>4, DirectoryAssumption DEF Init, TypeOK, Locations

\* Children that reach exec or exit, signals, and the directory.
LEMMA EnvironmentType == TypeOK /\ Environment => TypeOK'
<1> SUFFICES ASSUME TypeOK, Environment PROVE TypeOK'
  OBVIOUS
<1> USE DEF TypeOK, PipeOK
<1>1. ASSUME NEW p \in Pids, Exec(p) \/ Exit(p) PROVE TypeOK'
  <2>1. \A st \in Stages : [procs[p] EXCEPT !.stage = st] \in Proc
    <3>1. procs[p] \in Proc
      OBVIOUS
    <3> QED
      BY <3>1 DEF Proc
  <2>2. PICK st \in Stages : procs' = [procs EXCEPT ![p].stage = st]
    BY <1>1 DEF Exec, Exit, Stages
  <2>3. procs' \in [Pids -> Proc]
    BY <2>1, <2>2
  <2> QED
    BY <1>1, <2>3 DEF Exec, Exit, local_vars, file_vars, PipeOK
<1>2. ASSUME NEW sig \in Signals, SendSignal(sig) PROVE TypeOK'
  <2>1. PipeOK(sig_pipe')
    BY <1>2, PushType, EnvironmentAssumption DEF SendSignal
  <2> QED
    BY <1>2, <2>1 DEF SendSignal, local_vars, file_vars
<1>3. ASSUME NEW n \in Vanishing, Touch(n) PROVE TypeOK'
  BY <1>3, DirectoryAssumption DEF Touch, local_vars, kernel_vars, PipeOK
<1> QED
  BY <1>1, <1>2, <1>3 DEF Environment

\* reap_children(), each of its loops and its two calls at the end.
LEMMA ReapType == TypeOK /\ Reap => TypeOK'
<1> SUFFICES ASSUME TypeOK, Reap PROVE TypeOK'
  OBVIOUS
<1> USE DEF TypeOK, PipeOK
<1>1. ASSUME NEW p \in Pids, NEW i \in Slots, ReapLog(p, i) PROVE TypeOK'
  <2>1. procs' \in [Pids -> Proc]
    BY <1>1, NoProcType DEF ReapLog
  <2>2. [services[i] EXCEPT !.log_pid = None, !.log_stopping = FALSE]
            \in Service
    <3>1. services[i] \in Service
      OBVIOUS
    <3> QED
      BY <3>1 DEF Service
  <2>3. services' \in [Slots -> Service]
    BY <1>1, <2>2 DEF ReapLog
  <2> QED
    BY <1>1, <2>1, <2>3 DEF ReapLog, local_vars, file_vars, PipeOK
<1>2. ASSUME NEW p \in Pids, NEW i \in Slots, ReapMain(p, i) PROVE TypeOK'
  <2> DEFINE s == services[i]
             stop_log == s.log_pid # None /\ s.stopping
             P == IF stop_log THEN {s.log_pid} ELSE {}
             after == Terminated(P, [procs EXCEPT ![p] = NoProc])
  <2>1. s \in Service
    OBVIOUS
  <2>2. procs' \in [Pids -> Proc]
    <3>1. after \in [Pids -> Proc]
      BY NoProcType, TerminatedType
    <3>2. PICK f \in FinishOutcomes(s.name, Free \cup {p}) :
              procs' = IF f = None THEN after
                       ELSE [after EXCEPT ![f] = NewProc("finish", s.name)]
      BY <1>2 DEF ReapMain
    <3>3. NewProc("finish", s.name) \in Proc
      BY <2>1, NewProcType DEF Service, Roles
    <3> HIDE DEF after
    <3> QED
      BY <3>1, <3>2, <3>3
  <2>3. services' \in [Slots -> Service]
    <3>1. PICK long \in BOOLEAN :
              services' = [services EXCEPT ![i] =
                  [AfterExit(s, long) EXCEPT !.log_stopping = (@ \/ stop_log)]]
      BY <1>2 DEF ReapMain
    <3>2. stop_log \in BOOLEAN
      OBVIOUS
    <3> HIDE DEF stop_log
    <3> QED
      BY <2>1, <3>1, <3>2, AfterExitType
  <2>4. PipeOK(sig_pipe')
    BY <1>2, EchoesType DEF ReapMain, SignalNames
  <2>5. stop_deps' \in BOOLEAN
    BY <1>2 DEF ReapMain
  <2> QED
    BY <1>2, <2>2, <2>3, <2>4, <2>5 DEF ReapMain, file_vars
<1>3. ASSUME NEW p \in Pids, ReapUnknown(p) PROVE TypeOK'
  <2>1. procs' \in [Pids -> Proc]
    BY <1>3, NoProcType DEF ReapUnknown
  <2> QED
    BY <1>3, <2>1 DEF ReapUnknown, local_vars, file_vars, PipeOK
<1>4. ASSUME ReapEnd PROVE TypeOK'
  <2>1. services' \in [Slots -> Service]
    BY <1>4, HaltType DEF ReapEnd, stop_transitive_deps
  <2>2. procs' \in [Pids -> Proc] /\ PipeOK(sig_pipe')
    BY <1>4, KillType DEF ReapEnd, kernel_vars
  <2> QED
    BY <1>4, <2>1, <2>2 DEF ReapEnd, file_vars, Locations
<1>5. ASSUME LogDeath PROVE TypeOK'
  <2>1. services' \in [Slots -> Service]
    BY <1>5, HaltType DEF LogDeath
  <2>2. procs' \in [Pids -> Proc] /\ PipeOK(sig_pipe')
    BY <1>5, KillType DEF LogDeath
  <2> QED
    BY <1>5, <2>1, <2>2
    DEF LogDeath, AfterReap, local_vars, file_vars, Locations
<1> QED
  BY <1>1, <1>2, <1>3, <1>4, <1>5 DEF Reap

\* scan_services() and handle_missing_services().
LEMMA ScanType == TypeOK /\ Scan => TypeOK'
<1> SUFFICES ASSUME TypeOK, Scan PROVE TypeOK'
  OBVIOUS
<1> USE DEF TypeOK, PipeOK
<1>1. ASSUME SkipScan \/ OpendirFails \/ Closedir PROVE TypeOK'
  BY <1>1
  DEF SkipScan, OpendirFails, Closedir, local_vars, kernel_vars, file_vars,
      Locations
<1>2. ASSUME Opendir PROVE TypeOK'
  <2>1. \A t \in Service : [t EXCEPT !.present = FALSE] \in Service
    BY DEF Service
  <2>2. services' \in [Slots -> Service]
    BY <1>2, <2>1 DEF Opendir
  <2> QED
    BY <1>2, <2>2 DEF Opendir, kernel_vars, file_vars, Locations
<1>3. ASSUME NEW n \in Names, PassEntry(n) PROVE TypeOK'
  BY <1>3 DEF PassEntry, kernel_vars, file_vars
<1>4. ASSUME NEW n \in Names, NEW i \in Slots, FindEntry(n, i) PROVE TypeOK'
  <2>1. \A t \in Service :
            [t EXCEPT !.present = TRUE, !.stopping = FALSE] \in Service
    BY DEF Service
  <2>2. services' \in [Slots -> Service]
    BY <1>4, <2>1 DEF FindEntry
  <2> QED
    BY <1>4, <2>2 DEF FindEntry, kernel_vars, file_vars
<1>5. ASSUME NEW n \in Names, NEW i \in Slots, AddEntry(n, i) PROVE TypeOK'
  <2>1. services' \in [Slots -> Service]
    BY <1>5, NewServiceType DEF AddEntry
  <2> QED
    BY <1>5, <2>1 DEF AddEntry, kernel_vars, file_vars
<1>6. "start" \in Locations
  BY DEF Locations
<1>7. ASSUME KeepService PROVE TypeOK'
  BY <1>6, <1>7, NextSlotType DEF KeepService, kernel_vars, file_vars
<1>8. ASSUME StopMissing PROVE TypeOK'
  <2> DEFINE s == services[cursor]
             main == s.pid # None /\ ~s.stopping
             log == s.log_pid # None /\ ~s.log_stopping
             cascade == IF main THEN Doomed(services) ELSE {}
             T == [i \in Slots |->
                      IF i \in cascade \/ (i = cursor /\ main)
                      THEN Halt(services[i]) ELSE services[i]]
  <2>1. T \in [Slots -> Service]
    BY HaltType
  <2>2. log \in BOOLEAN
    OBVIOUS
  <2>3. services' = [T EXCEPT ![cursor].log_stopping = (@ \/ log)]
    BY <1>8 DEF StopMissing
  <2> HIDE DEF T, log
  <2>4. [T[cursor] EXCEPT !.log_stopping = (@ \/ log)] \in Service
    BY <2>1, <2>2, LogMarkType
  <2>5. services' \in [Slots -> Service]
    BY <2>1, <2>3, <2>4, Zenon
  <2>6. procs' \in [Pids -> Proc] /\ PipeOK(sig_pipe')
    BY <1>8, KillType DEF StopMissing
  <2> QED
    BY <1>6, <1>8, <2>5, <2>6, NextSlotType DEF StopMissing, file_vars
<1>9. ASSUME DropService PROVE TypeOK'
  <2>1. "DOWN" \in States
    BY StateTypes
  <2>2. \A t \in Service :
            [t EXCEPT !.active = FALSE, !.state = "DOWN"] \in Service
    BY <2>1, Zenon DEF Service
  <2>3. services' \in [Slots -> Service]
    BY <1>9, <2>2 DEF DropService
  <2> QED
    BY <1>6, <1>9, <2>3, NextSlotType DEF DropService, kernel_vars, file_vars
<1> QED
  BY <1>1, <1>2, <1>3, <1>4, <1>5, <1>7, <1>8, <1>9 DEF Scan

\* The start loop with start_service().
LEMMA StartStepType == TypeOK /\ Start => TypeOK'
<1> SUFFICES ASSUME TypeOK, Start PROVE TypeOK'
  OBVIOUS
<1> USE DEF TypeOK, PipeOK
<1>1. "signals" \in Locations
  BY DEF Locations
<1>2. ASSUME PassSlot PROVE TypeOK'
  BY <1>1, <1>2, NextSlotType DEF PassSlot, kernel_vars, file_vars
<1>3. ASSUME PostponeStart PROVE TypeOK'
  <2>1. \A t \in Service : [t EXCEPT !.restart_at = "later"] \in Service
    BY DEF Service
  <2>2. services' \in [Slots -> Service]
    BY <1>3, <2>1 DEF PostponeStart
  <2> QED
    BY <1>1, <1>3, <2>2, NextSlotType
    DEF PostponeStart, kernel_vars, file_vars
<1>4. ASSUME StartService PROVE TypeOK'
  <2> DEFINE s == services[cursor]
  <2>1. s \in Service
    OBVIOUS
  <2> DEFINE Started(log, main) ==
                 /\ services' = [services EXCEPT ![cursor] =
                                    WithMain(WithLogger(s, log), main)]
                 /\ procs' = [p \in Pids |->
                                 IF p = main THEN NewProc("main", s.name)
                                 ELSE IF p = log THEN NewProc("log", s.name)
                                 ELSE procs[p]]
  <2>a. PICK log \in IF s.has_log THEN ForkOutcomes(Free) ELSE {None} :
             \E main \in ForkOutcomes(Free \ {log}) : Started(log, main)
    BY <1>4 DEF StartService
  <2>2. PICK main \in ForkOutcomes(Free \ {log}) : Started(log, main)
    BY <2>a
  <2>3. log \in Pids \cup {None} /\ main \in Pids \cup {None}
    BY ForkType DEF Free
  <2>4. services' \in [Slots -> Service]
    BY <2>1, <2>2, <2>3, StartType
  <2>5. /\ NewProc("main", s.name) \in Proc
        /\ NewProc("log", s.name) \in Proc
    BY <2>1, NewProcType DEF Service, Roles
  <2>6. procs' \in [Pids -> Proc]
    BY <2>2, <2>5
  <2> QED
    BY <1>1, <1>4, <2>4, <2>6, NextSlotType DEF StartService, file_vars
<1> QED
  BY <1>2, <1>3, <1>4 DEF Start

\* What follows poll(): the self-pipe and the accept.
LEMMA PollType == TypeOK /\ Poll => TypeOK'
<1> SUFFICES ASSUME TypeOK, Poll PROVE TypeOK'
  OBVIOUS
<1> USE DEF TypeOK, PipeOK
<1>1. ASSUME PollInterrupted \/ NoSignal \/ NoClient \/ Accept PROVE TypeOK'
  BY <1>1
  DEF PollInterrupted, NoSignal, NoClient, Accept, local_vars, kernel_vars,
      file_vars, Locations
<1>2. ASSUME NEW k \in 1..PipeCapacity, DrainSignalPipe(k) PROVE TypeOK'
  <2>1. k \in 1..Len(sig_pipe) /\ Len(sig_pipe) \in Nat
    BY <1>2 DEF DrainSignalPipe
  <2>2. sig_pipe' = SubSeq(sig_pipe, k + 1, Len(sig_pipe))
    BY <1>2 DEF DrainSignalPipe
  <2>3. sig_pipe' \in Seq(SignalNames) /\ Len(sig_pipe') <= PipeCapacity
    BY <2>1, <2>2, PipeCapacityAssumption
  <2> QED
    BY <1>2, <2>3 DEF DrainSignalPipe, file_vars, Locations
<1> QED
  BY <1>1, <1>2 DEF Poll

\* The commands of the control socket.
LEMMA ServeType == TypeOK /\ Serve => TypeOK'
<1> SUFFICES ASSUME TypeOK, Serve PROVE TypeOK'
  OBVIOUS
<1> USE DEF TypeOK, PipeOK, Receive
<1>r. "reap" \in Locations /\ "check" \in Locations
  BY DEF Locations
<1>1. ASSUME NEW n \in Names, NEW i \in Slots, CmdStart(n, i)
      PROVE  TypeOK'
  <2>1. \A t \in Service : [t EXCEPT !.manual_start = TRUE,
            !.restart_at = "due", !.stopping = FALSE] \in Service
    BY DEF Service
  <2>2. services' \in [Slots -> Service]
    BY <1>1, <2>1 DEF CmdStart
  <2> QED
    BY <1>1, <1>r, <2>2 DEF CmdStart, local_vars, kernel_vars, file_vars
<1>2. ASSUME NEW n \in Names, NEW i \in Slots, CmdStop(n, i)
      PROVE  TypeOK'
  <2>1. stop_transitive_deps(services) \in [Slots -> Service]
    BY HaltType DEF stop_transitive_deps
  <2>2. services' \in [Slots -> Service]
    BY <1>2, <2>1, HaltType DEF CmdStop
  <2>3. procs' \in [Pids -> Proc] /\ PipeOK(sig_pipe')
    BY <1>2, KillType DEF CmdStop
  <2> QED
    BY <1>2, <1>r, <2>2, <2>3 DEF CmdStop, local_vars, file_vars
<1>3. ASSUME NEW n \in Names, NEW i \in Slots, CmdRestart(n, i)
      PROVE  TypeOK'
  <2>1. \A t \in Service : [t EXCEPT !.manual_start = TRUE] \in Service
    BY DEF Service
  <2>2. services' \in [Slots -> Service]
    BY <1>3, <2>1, HaltType DEF CmdRestart
  <2>3. procs' \in [Pids -> Proc] /\ PipeOK(sig_pipe')
    BY <1>3, KillType DEF CmdRestart
  <2> QED
    BY <1>3, <1>r, <2>2, <2>3 DEF CmdRestart, local_vars, file_vars
<1>4. ASSUME NEW n \in Names, NEW i \in Slots, CmdDown(n, i)
      PROVE  TypeOK'
  <2>1. \A t \in Service : [t EXCEPT !.auto_start = FALSE] \in Service
    BY DEF Service
  <2>2. services' \in [Slots -> Service]
    BY <1>4, <2>1, HaltType DEF CmdDown
  <2>3. procs' \in [Pids -> Proc] /\ PipeOK(sig_pipe')
    BY <1>4, KillType DEF CmdDown
  <2>4. down_files' \subseteq Names
    BY <1>4 DEF CmdDown
  <2> QED
    BY <1>4, <1>r, <2>2, <2>3, <2>4 DEF CmdDown, local_vars
<1>5. ASSUME NEW n \in Names, NEW i \in Slots, CmdUp(n, i)
      PROVE  TypeOK'
  <2>1. \A t \in Service : [t EXCEPT !.auto_start = TRUE,
            !.restart_at = "due", !.stopping = FALSE] \in Service
    BY DEF Service
  <2>2. services' \in [Slots -> Service]
    BY <1>5, <2>1 DEF CmdUp
  <2> QED
    BY <1>5, <1>r, <2>2 DEF CmdUp, local_vars, kernel_vars
<1>6. ASSUME NEW n \in Names, NEW i \in Slots, CmdOnce(n, i)
      PROVE  TypeOK'
  <2>1. \A t \in Service : [t EXCEPT !.once = TRUE] \in Service
    BY DEF Service
  <2>2. services' \in [Slots -> Service]
    BY <1>6, <2>1 DEF CmdOnce
  <2>3. once_files' \subseteq Names
    BY <1>6 DEF CmdOnce
  <2> QED
    BY <1>6, <1>r, <2>2, <2>3 DEF CmdOnce, local_vars, kernel_vars
<1>7. ASSUME NEW n \in Names, NEW i \in Slots, CmdSignal(n, i)
      PROVE  TypeOK'
  <2>1. procs' \in [Pids -> Proc] /\ PipeOK(sig_pipe')
    BY <1>7, <1>r, SignalType DEF CmdSignal
  <2> QED
    BY <1>7, <1>r, <2>1 DEF CmdSignal, local_vars, file_vars
<1>8. ASSUME NEW n \in Names, NEW i \in Slots, CmdCheck(n, i)
      PROVE  TypeOK'
  <2>1. PICK c \in Free : procs' = [procs EXCEPT ![c] = NewProc("check", n)]
    BY <1>8 DEF CmdCheck
  <2>2. NewProc("check", n) \in Proc
    BY NewProcType DEF Roles
  <2>3. procs' \in [Pids -> Proc]
    BY <2>1, <2>2
  <2> QED
    BY <1>8, <1>r, <2>3 DEF CmdCheck, local_vars, file_vars
<1>9. ASSUME CmdReload PROVE TypeOK'
  <2>1. PipeOK(sig_pipe')
    BY <1>9, PushType DEF CmdReload, SignalNames
  <2> QED
    BY <1>9, <1>r, <2>1 DEF CmdReload, local_vars, file_vars
<1>10. ASSUME Query PROVE TypeOK'
  BY <1>10, <1>r DEF Query, local_vars, kernel_vars, file_vars
<1>11. ASSUME NEW p \in Pids, CheckDone(p) PROVE TypeOK'
  <2>1. procs' \in [Pids -> Proc]
    BY <1>11, NoProcType DEF CheckDone
  <2> QED
    BY <1>11, <1>r, <2>1 DEF CheckDone, local_vars, file_vars
<1> QED
  BY <1>1, <1>2, <1>3, <1>4, <1>5, <1>6, <1>7, <1>8, <1>9, <1>10, <1>11
  DEF Serve, Command

\* The passes and the waits of the shutdown.
LEMMA ShutdownType == TypeOK /\ Shutdown => TypeOK'
<1> SUFFICES ASSUME TypeOK, Shutdown PROVE TypeOK'
  OBVIOUS
<1> USE DEF TypeOK, PipeOK
<1>1. ASSUME StopAll PROVE TypeOK'
  <2>1. \A t \in Service, b \in BOOLEAN :
            /\ [t EXCEPT !.log_stopping = (@ \/ b)] \in Service
            /\ [Halt(t) EXCEPT !.log_stopping = (@ \/ b)] \in Service
    BY LogMarkType, HaltType, Zenon
  <2>2. services' \in [Slots -> Service]
    BY <1>1, <2>1 DEF StopAll, StoppedAll
  <2>3. procs' \in [Pids -> Proc] /\ PipeOK(sig_pipe')
    BY <1>1, KillType DEF StopAll
  <2> QED
    BY <1>1, <2>2, <2>3 DEF StopAll, file_vars, Locations
<1>2. ASSUME SettleAgain PROVE TypeOK'
  BY <1>2 DEF SettleAgain, local_vars, kernel_vars, file_vars, Locations
<1>3. ASSUME KillRest PROVE TypeOK'
  <2>1. \A r \in Proc : [r EXCEPT !.stage = "ending"] \in Proc
    BY DEF Proc, Stages
  <2>2. procs' \in [Pids -> Proc]
    BY <1>3, <2>1 DEF KillRest
  <2> QED
    BY <1>3, <2>2 DEF KillRest, file_vars, Locations
<1>4. ASSUME CloseAll PROVE TypeOK'
  <2>1. "DOWN" \in States
    BY StateTypes
  <2>2. \A t \in Service : [t EXCEPT !.pid = None, !.log_pid = None,
                                     !.state = "DOWN"] \in Service
    BY <2>1, Zenon DEF Service
  <2>3. services' \in [Slots -> Service]
    BY <1>4, <2>2 DEF CloseAll
  <2> QED
    BY <1>4, <2>3 DEF CloseAll, local_vars, kernel_vars, file_vars, Locations
<1> QED
  BY <1>1, <1>2, <1>3, <1>4 DEF Shutdown

\* The table, the loop and the kernel's side of it keep to their types: in
\* particular the restart counter and the bytes in the self-pipe stay within
\* their bounds, whatever the children, the clients and the directory do.
THEOREM TypeCorrect == Spec => []TypeOK
<1>1. Init => TypeOK
  BY InitType
<1>2. TypeOK /\ [Next]_vars => TypeOK'
  <2> SUFFICES ASSUME TypeOK, [Next]_vars PROVE TypeOK'
    OBVIOUS
  <2>1. CASE Supervise
    BY <2>1, ReapType, ScanType, StartStepType, PollType, ShutdownType
    DEF Supervise
  <2>2. CASE Serve
    BY <2>2, ServeType
  <2>3. CASE Environment
    BY <2>3, EnvironmentType
  <2>4. CASE UNCHANGED vars
    BY <2>4 DEF vars, TypeOK
  <2> QED
    BY <2>1, <2>2, <2>3, <2>4 DEF Next, Terminating
<1> QED
  BY <1>1, <1>2, PTL DEF Spec

=============================================================================
