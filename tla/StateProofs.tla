------------------------------ MODULE StateProofs ------------------------------
(***************************************************************************)
(* What the state of a service says about its main process and its logger. *)
(* The invariants are of single slots: it is enough that whatever a step   *)
(* makes of a slot is sound again.                                         *)
(***************************************************************************)
EXTENDS SupervisorProofs

USE MaxServicesAssumption, NoneAssumption DEF Slots

\* RunningMeansAlive of one slot.
Sound(s) == /\ s.active /\ s.state = "RUNNING" => s.pid # None /\ ~s.stopping
            /\ s.pid # None => s.state \in {"RUNNING", "STOPPING"}

AllSound == \A i \in Slots : Sound(services[i])

-----------------------------------------------------------------------------
(* What is done to one slot.                                               *)

\* A slot that is told to stop is not RUNNING any more, whatever it was.
LEMMA HaltSound ==
    ASSUME NEW s \in Service
    PROVE  /\ Sound(Halt(s)) /\ Sound(HaltWithLog(s))
           /\ Sound([HaltWithLog(s) EXCEPT !.manual_start = TRUE])
           /\ Sound([HaltWithLog(s) EXCEPT !.auto_start = FALSE])
           /\ \A b : Sound([Halt(s) EXCEPT !.log_stopping = b])
BY DEF Halt, HaltWithLog, Sound, Service

\* Marks that say nothing about the process keep a slot sound, and so does
\* lifting the mark `stopping'.
LEMMA MarkSound ==
    ASSUME NEW s \in Service, Sound(s)
    PROVE  /\ Sound([s EXCEPT !.present = FALSE])
           /\ Sound([s EXCEPT !.present = TRUE, !.stopping = FALSE])
           /\ Sound([s EXCEPT !.log_pid = None, !.log_stopping = FALSE])
           /\ Sound([s EXCEPT !.restart_at = "later"])
           /\ Sound([s EXCEPT !.manual_start = TRUE, !.restart_at = "due",
                              !.stopping = FALSE])
           /\ Sound([s EXCEPT !.auto_start = TRUE, !.restart_at = "due",
                              !.stopping = FALSE])
           /\ Sound([s EXCEPT !.auto_start = FALSE])
           /\ Sound([s EXCEPT !.once = TRUE])
           /\ \A b : Sound([s EXCEPT !.log_stopping = b])
BY DEF Sound, Service

\* An exit takes the pid and the state together.
LEMMA ExitSound ==
    ASSUME NEW s \in Service, NEW long, NEW b
    PROVE  Sound([AfterExit(s, long) EXCEPT !.log_stopping = b])
BY DEF AfterExit, Sound, Service

\* A start sets both, in a slot that is not being stopped, or neither.
LEMMA StartSound ==
    ASSUME NEW s \in Service, s.pid = None, ~s.stopping, NEW log,
           NEW main \in Pids \cup {None}
    PROVE  Sound(WithMain(WithLogger(s, log), main))
<1>1. \A t \in {s, [s EXCEPT !.has_log = FALSE],
                [s EXCEPT !.log_pid = log, !.log_stopping = FALSE]} :
          Sound(WithMain(t, main))
  <2>1. Sound(WithMain(s, main))
    BY DEF WithMain, Sound, Service
  <2>2. Sound(WithMain([s EXCEPT !.has_log = FALSE], main))
    BY DEF WithMain, Sound, Service
  <2>3. Sound(WithMain([s EXCEPT !.log_pid = log, !.log_stopping = FALSE],
                       main))
    BY DEF WithMain, Sound, Service
  <2> QED
    BY <2>1, <2>2, <2>3
<1>2. WithLogger(s, log) \in {s, [s EXCEPT !.has_log = FALSE],
                [s EXCEPT !.log_pid = log, !.log_stopping = FALSE]}
  BY DEF WithLogger
<1> QED
  BY <1>1, <1>2

\* A new slot has no process and is DOWN, as is a slot that is given up.
LEMMA EmptySound ==
    /\ Sound(SERVICE_EMPTY)
    /\ \A n : Sound(NewService(n))
    /\ \A s \in Service :
           /\ s.pid = None =>
                  Sound([s EXCEPT !.active = FALSE, !.state = "DOWN"])
           /\ Sound([s EXCEPT !.pid = None, !.log_pid = None,
                              !.state = "DOWN"])
BY DEF Sound, SERVICE_EMPTY, NewService, Service

-----------------------------------------------------------------------------
(* The steps.                                                              *)

\* The cascade halts slots and leaves the others as they are.
LEMMA CascadeSound ==
    ASSUME TypeOK, AllSound, NEW i \in Slots
    PROVE  Sound(stop_transitive_deps(services)[i])
<1>1. services[i] \in Service
  BY DEF TypeOK
<1>2. stop_transitive_deps(services)[i] \in {services[i], Halt(services[i])}
  BY DEF stop_transitive_deps
<1> QED
  BY <1>1, <1>2, HaltSound DEF AllSound

\* Only the supervisor writes the table.
LEMMA UntouchedSound == AllSound /\ UNCHANGED services => AllSound'
BY DEF AllSound

\* A step that writes one slot: it is enough that the new value is sound.
LEMMA OneSlotSound ==
    ASSUME TypeOK, AllSound, NEW i \in Slots, NEW t,
           services' = [services EXCEPT ![i] = t], Sound(t)
    PROVE  AllSound'
BY DEF AllSound, TypeOK

\* reap_children(): exits, then the cascade and kill_main_on_log_death().
LEMMA ReapSound == TypeOK /\ AllSound /\ Reap => AllSound'
<1> SUFFICES ASSUME TypeOK, AllSound, Reap PROVE AllSound'
  OBVIOUS
<1>0. \A i \in Slots : services[i] \in Service /\ Sound(services[i])
  BY DEF TypeOK, AllSound
<1>1. ASSUME NEW p \in Pids, NEW i \in Slots, ReapLog(p, i) PROVE AllSound'
  <2>1. services' = [services EXCEPT ![i] =
            [services[i] EXCEPT !.log_pid = None, !.log_stopping = FALSE]]
    BY <1>1 DEF ReapLog, TypeOK
  <2> QED
    BY <1>0, <2>1, MarkSound, OneSlotSound
<1>2. ASSUME NEW p \in Pids, NEW i \in Slots, ReapMain(p, i) PROVE AllSound'
  <2>1. PICK long \in BOOLEAN : \E b :
            services' = [services EXCEPT ![i] =
                [AfterExit(services[i], long) EXCEPT !.log_stopping = b]]
    BY <1>2 DEF ReapMain
  <2> QED
    BY <1>0, <2>1, ExitSound, OneSlotSound
<1>3. ASSUME NEW p \in Pids, ReapUnknown(p) PROVE AllSound'
  BY <1>3, UntouchedSound DEF ReapUnknown
<1>4. ASSUME ReapEnd PROVE AllSound'
  BY <1>0, <1>4, CascadeSound DEF ReapEnd, stop_transitive_deps, AllSound
<1>5. ASSUME LogDeath PROVE AllSound'
  BY <1>0, <1>5, HaltSound DEF LogDeath, AllSound
<1> QED
  BY <1>1, <1>2, <1>3, <1>4, <1>5 DEF Reap

\* The scan: `stopping' is lifted from slots that are found again, which is
\* why RUNNING must not depend on it alone.
LEMMA ScanSound == TypeOK /\ AllSound /\ Scan => AllSound'
<1> SUFFICES ASSUME TypeOK, AllSound, Scan PROVE AllSound'
  OBVIOUS
<1>0. \A i \in Slots : services[i] \in Service /\ Sound(services[i])
  BY DEF TypeOK, AllSound
<1>1. ASSUME ScanIdles PROVE AllSound'
  BY <1>1, IdleCourse, UntouchedSound
<1>2. ASSUME Opendir PROVE AllSound'
  <2> SUFFICES ASSUME NEW i \in Slots PROVE Sound(services'[i])
    BY DEF AllSound
  <2>1. services'[i] \in {services[i], [services[i] EXCEPT !.present = FALSE]}
    BY <1>2 DEF Opendir
  <2> QED
    BY <1>0, <2>1, MarkSound
<1>3. ASSUME NEW n \in Names, NEW i \in Slots, FindEntry(n, i) PROVE AllSound'
  <2>1. services' = [services EXCEPT ![i] =
            [services[i] EXCEPT !.present = TRUE, !.stopping = FALSE]]
    BY <1>3 DEF FindEntry, TypeOK
  <2> QED
    BY <1>0, <2>1, MarkSound, OneSlotSound
<1>4. ASSUME NEW n \in Names, NEW i \in Slots, AddEntry(n, i) PROVE AllSound'
  BY <1>4, EmptySound, OneSlotSound DEF AddEntry
<1>5. ASSUME StopMissing PROVE AllSound'
  <2> DEFINE s == services[cursor]
             main == s.pid # None /\ ~s.stopping
             log == s.log_pid # None /\ ~s.log_stopping
             cascade == IF main THEN Doomed(services) ELSE {}
             T == [i \in Slots |->
                      IF i \in cascade \/ (i = cursor /\ main)
                      THEN Halt(services[i]) ELSE services[i]]
  <2>1. \A i \in Slots : T[i] \in Service /\ Sound(T[i])
    BY <1>0, HaltSound, HaltType
  <2>2. T \in [Slots -> Service]
    BY <2>1
  <2>3. services' = [T EXCEPT ![cursor].log_stopping = (@ \/ log)]
    BY <1>5 DEF StopMissing
  <2>4. cursor \in Slots
    BY DEF TypeOK
  <2> HIDE DEF T, log
  <2>5. PICK b : services' = [T EXCEPT ![cursor] =
                                 [T[cursor] EXCEPT !.log_stopping = b]]
    BY <2>2, <2>3, <2>4
  <2> QED
    BY <2>1, <2>2, <2>4, <2>5, MarkSound DEF AllSound
<1>6. ASSUME DropService PROVE AllSound'
  <2>1. /\ services[cursor].pid = None /\ cursor \in Slots
        /\ services' = [services EXCEPT ![cursor] =
               [services[cursor] EXCEPT !.active = FALSE, !.state = "DOWN"]]
    BY <1>6 DEF DropService, NoProcess, TypeOK
  <2> QED
    BY <1>0, <2>1, EmptySound, OneSlotSound
<1> QED
  BY <1>1, <1>2, <1>3, <1>4, <1>5, <1>6 DEF Scan, ScanIdles

\* The start loop starts only slots that are not being stopped.
LEMMA StartLoopSound == TypeOK /\ AllSound /\ Start => AllSound'
<1> SUFFICES ASSUME TypeOK, AllSound, Start PROVE AllSound'
  OBVIOUS
<1>0. \A i \in Slots : services[i] \in Service /\ Sound(services[i])
  BY DEF TypeOK, AllSound
<1>1. cursor \in Slots
  BY DEF TypeOK
<1>2. ASSUME PassSlot PROVE AllSound'
  BY <1>2, UntouchedSound DEF PassSlot
<1>3. ASSUME PostponeStart PROVE AllSound'
  <2>1. services' = [services EXCEPT ![cursor] =
            [services[cursor] EXCEPT !.restart_at = "later"]]
    BY <1>1, <1>3 DEF PostponeStart, TypeOK
  <2> QED
    BY <1>0, <1>1, <2>1, MarkSound, OneSlotSound
<1>4. ASSUME StartService PROVE AllSound'
  <2>1. services[cursor].pid = None /\ ~services[cursor].stopping
    BY <1>4 DEF StartService, Startable
  <2>2. PICK log : \E main \in ForkOutcomes(Free \ {log}) :
            services' = [services EXCEPT ![cursor] =
                WithMain(WithLogger(services[cursor], log), main)]
    BY <1>4 DEF StartService
  <2>3. PICK main \in ForkOutcomes(Free \ {log}) :
            services' = [services EXCEPT ![cursor] =
                WithMain(WithLogger(services[cursor], log), main)]
    BY <2>2
  <2>4. main \in Pids \cup {None}
    BY ForkType DEF Free
  <2> QED
    BY <1>0, <1>1, <2>1, <2>3, <2>4, StartSound, OneSlotSound
<1> QED
  BY <1>2, <1>3, <1>4 DEF Start

\* The commands: who is told to stop leaves RUNNING in the same step.
LEMMA ServeSound == TypeOK /\ AllSound /\ Serve => AllSound'
<1> SUFFICES ASSUME TypeOK, AllSound, Serve PROVE AllSound'
  OBVIOUS
<1>0. \A i \in Slots : services[i] \in Service /\ Sound(services[i])
  BY DEF TypeOK, AllSound
<1>1. ASSUME NEW n \in Names, NEW i \in Slots, CmdStart(n, i) PROVE AllSound'
  <2>1. services' = [services EXCEPT ![i] =
            [services[i] EXCEPT !.manual_start = TRUE, !.restart_at = "due",
                                !.stopping = FALSE]]
    BY <1>1 DEF CmdStart, TypeOK
  <2> QED
    BY <1>0, <2>1, MarkSound, OneSlotSound
<1>2. ASSUME NEW n \in Names, NEW i \in Slots, CmdStop(n, i) PROVE AllSound'
  <2> DEFINE T == stop_transitive_deps(services)
  <2>1. T \in [Slots -> Service] /\ \A j \in Slots : Sound(T[j])
    BY <1>0, HaltType, CascadeSound DEF stop_transitive_deps
  <2>2. services' = [T EXCEPT ![i] = HaltWithLog(T[i])]
    BY <1>2 DEF CmdStop
  <2> HIDE DEF T
  <2>3. Sound(HaltWithLog(T[i]))
    BY <2>1, HaltSound
  <2> QED
    BY <2>1, <2>2, <2>3 DEF AllSound
<1>3. ASSUME NEW n \in Names, NEW i \in Slots, CmdRestart(n, i) PROVE AllSound'
  BY <1>0, <1>3, HaltSound, OneSlotSound DEF CmdRestart
<1>4. ASSUME NEW n \in Names, NEW i \in Slots, CmdDown(n, i) PROVE AllSound'
  <2>1. PICK t \in {services[i], HaltWithLog(services[i])} :
            services' = [services EXCEPT ![i] =
                            [t EXCEPT !.auto_start = FALSE]]
    BY <1>4 DEF CmdDown
  <2>2. Sound([services[i] EXCEPT !.auto_start = FALSE])
    BY <1>0, MarkSound
  <2>3. Sound([HaltWithLog(services[i]) EXCEPT !.auto_start = FALSE])
    BY <1>0, HaltSound
  <2>4. Sound([t EXCEPT !.auto_start = FALSE])
    BY <2>2, <2>3
  <2> QED
    BY <2>1, <2>4, OneSlotSound
<1>5. ASSUME NEW n \in Names, NEW i \in Slots, CmdUp(n, i) PROVE AllSound'
  <2>1. services' = [services EXCEPT ![i] =
            [services[i] EXCEPT !.auto_start = TRUE, !.restart_at = "due",
                                !.stopping = FALSE]]
    BY <1>5 DEF CmdUp, TypeOK
  <2> QED
    BY <1>0, <2>1, MarkSound, OneSlotSound
<1>6. ASSUME NEW n \in Names, NEW i \in Slots, CmdOnce(n, i) PROVE AllSound'
  <2>1. services' = [services EXCEPT ![i] =
                        [services[i] EXCEPT !.once = TRUE]]
    BY <1>6 DEF CmdOnce, TypeOK
  <2> QED
    BY <1>0, <2>1, MarkSound, OneSlotSound
<1>7. ASSUME \/ \E n \in Names, i \in Slots : CmdSignal(n, i) \/ CmdCheck(n, i)
             \/ CmdReload \/ Query \/ \E c \in Pids : CheckDone(c)
      PROVE  AllSound'
  BY <1>7, UntouchedSound DEF CmdSignal, CmdCheck, CmdReload, Query, CheckDone
<1> QED
  BY <1>1, <1>2, <1>3, <1>4, <1>5, <1>6, <1>7 DEF Serve, Command

\* The shutdown halts every slot that has a main process.
LEMMA ShutdownSound == TypeOK /\ AllSound /\ Shutdown => AllSound'
<1> SUFFICES ASSUME TypeOK, AllSound, Shutdown PROVE AllSound'
  OBVIOUS
<1>0. \A i \in Slots : services[i] \in Service /\ Sound(services[i])
  BY DEF TypeOK, AllSound
<1>1. ASSUME StopAll PROVE AllSound'
  <2>1. ASSUME NEW i \in Slots PROVE Sound(services'[i])
    <3> DEFINE b == services[i].log_stopping \/ services[i].log_pid # None
    <3>1. \/ services'[i] = services[i]
          \/ services'[i] = [services[i] EXCEPT !.log_stopping = b]
          \/ services'[i] = [Halt(services[i]) EXCEPT !.log_stopping = b]
      <4>1. CASE i \notin ShutdownTargets(services)
        BY <1>1, <4>1 DEF StopAll, StoppedAll
      <4>2. CASE i \in ShutdownTargets(services) /\ services[i].pid = None
        BY <1>1, <4>2 DEF StopAll, StoppedAll
      <4>3. CASE i \in ShutdownTargets(services) /\ services[i].pid # None
        <5>1. Halt(services[i]).log_stopping = services[i].log_stopping
          BY <1>0 DEF Halt, Service
        <5> QED
          BY <1>1, <4>3, <5>1 DEF StopAll, StoppedAll
      <4> QED
        BY <4>1, <4>2, <4>3
    <3> HIDE DEF b
    <3>2. services[i] \in Service /\ Sound(services[i])
      BY <1>0
    <3>3. Sound([services[i] EXCEPT !.log_stopping = b])
      BY <3>2, MarkSound
    <3>4. Sound([Halt(services[i]) EXCEPT !.log_stopping = b])
      BY <3>2, HaltSound
    <3> QED
      BY <3>1, <3>2, <3>3, <3>4
  <2> QED
    BY <2>1 DEF AllSound
<1>2. ASSUME SettleAgain \/ KillRest PROVE AllSound'
  BY <1>2, UntouchedSound DEF SettleAgain, KillRest
<1>3. ASSUME CloseAll PROVE AllSound'
  BY <1>0, <1>3, EmptySound DEF CloseAll, AllSound
<1> QED
  BY <1>1, <1>2, <1>3 DEF Shutdown

-----------------------------------------------------------------------------
\* No step leaves an unsound slot behind.
LEMMA SoundAlways == Spec => []AllSound
<1>1. Init => TypeOK /\ AllSound
  BY InitType, EmptySound DEF Init, AllSound
<1>2. TypeOK /\ TypeOK' /\ AllSound /\ [Next]_vars => AllSound'
  <2> SUFFICES ASSUME TypeOK, AllSound, [Next]_vars PROVE AllSound'
    OBVIOUS
  <2>1. CASE Reap \/ Scan \/ Start \/ Shutdown
    BY <2>1, ReapSound, ScanSound, StartLoopSound, ShutdownSound
  <2>2. CASE Poll \/ Environment \/ UNCHANGED vars
    BY <2>2, UntouchedSound
    DEF Poll, PollInterrupted, NoSignal, NoClient, Accept, DrainSignalPipe,
        Environment, Exec, Exit, SendSignal, Touch, vars
  <2>3. CASE Serve
    BY <2>3, ServeSound
  <2> QED
    BY <2>1, <2>2, <2>3 DEF Next, Supervise, Terminating
<1> QED
  BY <1>1, <1>2, TypeCorrect, PTL DEF Spec

\* STATE_RUNNING means a process that nobody is stopping, and every process is
\* of a service in one of the two states by which stop_all_in_order() finds
\* it, in every reachable state.
THEOREM RunningIsAlive == Spec => []RunningMeansAlive
<1>1. AllSound => RunningMeansAlive
  BY DEF AllSound, Sound, RunningMeansAlive
<1> QED
  BY <1>1, SoundAlways, PTL

-----------------------------------------------------------------------------
(* Loggers.  kill_main_on_log_death() halts the services whose logger is   *)
(* gone by looking at three fields; that it leaves out nobody who is       *)
(* RUNNING takes AllSound.                                                 *)

\* LoggersWatched of one slot.
Watched(s) == s.active /\ s.has_log /\ s.state = "RUNNING" => s.log_pid # None

AllWatched == \A i \in Slots : Watched(services[i])

\* A slot that is told to stop, a new one and an empty one have nobody to
\* watch, and a mark does not touch a logger.
LEMMA MarkWatched ==
    ASSUME NEW s \in Service
    PROVE  /\ Watched(Halt(s))
           /\ \A n : Watched(NewService(n))
           /\ Watched([s EXCEPT !.active = FALSE, !.state = "DOWN"])
           /\ Watched(s) =>
                  /\ Watched([s EXCEPT !.present = FALSE])
                  /\ Watched([s EXCEPT !.present = TRUE, !.stopping = FALSE])
                  /\ Watched([s EXCEPT !.restart_at = "later"])
                  /\ \A b : Watched([s EXCEPT !.log_stopping = b])
           /\ \A b : Watched([Halt(s) EXCEPT !.log_stopping = b])
BY DEF Watched, Halt, NewService, SERVICE_EMPTY, Service

\* A service is started with its logger, or it has none any more.
LEMMA StartWatched ==
    ASSUME NEW s \in Service, NEW log \in Pids \cup {None}, NEW main
    PROVE  Watched(WithMain(WithLogger(s, log), main))
<1>1. CASE ~s.has_log
  <2>1. WithLogger(s, log) = s
    BY <1>1 DEF WithLogger
  <2>2. Watched(WithMain(s, main))
    BY <1>1 DEF WithMain, Watched, Service
  <2> QED
    BY <2>1, <2>2
<1>2. CASE s.has_log /\ log = None
  <2>1. WithLogger(s, log) = [s EXCEPT !.has_log = FALSE]
    BY <1>2 DEF WithLogger
  <2>2. Watched(WithMain([s EXCEPT !.has_log = FALSE], main))
    BY <1>2 DEF WithMain, Watched, Service
  <2> QED
    BY <2>1, <2>2
<1>3. CASE s.has_log /\ log # None
  <2>1. WithLogger(s, log) =
            [s EXCEPT !.log_pid = log, !.log_stopping = FALSE]
    BY <1>3 DEF WithLogger
  <2>2. Watched(WithMain([s EXCEPT !.log_pid = log, !.log_stopping = FALSE],
                         main))
    BY <1>3 DEF WithMain, Watched, Service
  <2> QED
    BY <2>1, <2>2
<1> QED
  BY <1>1, <1>2, <1>3

\* A step that writes one slot.
LEMMA OneSlotWatched ==
    ASSUME TypeOK, AllWatched, NEW i \in Slots, NEW t,
           services' = [services EXCEPT ![i] = t], Watched(t)
    PROVE  AllWatched'
BY DEF AllWatched, TypeOK

\* When kill_main_on_log_death() returns.
LEMMA LogDeathWatched ==
    ASSUME TypeOK, AllSound, LogDeath
    PROVE  AllWatched'
<1> SUFFICES ASSUME NEW i \in Slots PROVE Watched(services'[i])
  BY DEF AllWatched
<1>1. services[i] \in Service /\ Sound(services[i])
  BY DEF TypeOK, AllSound
<1>2. CASE i \in Unlogged(services)
  <2>1. services'[i] = Halt(services[i])
    BY <1>2 DEF LogDeath
  <2> QED
    BY <1>1, <2>1, MarkWatched
<1>3. CASE i \notin Unlogged(services)
  <2>1. services'[i] = services[i]
    BY <1>3 DEF LogDeath
  <2>2. Watched(services[i])
    BY <1>1, <1>3 DEF Unlogged, Sound, Watched
  <2> QED
    BY <2>1, <2>2
<1> QED
  BY <1>2, <1>3

\* The scan and the start loop.
LEMMA ScanWatched ==
    ASSUME TypeOK, AllWatched, Scan
    PROVE  AllWatched'
<1>0. \A i \in Slots : services[i] \in Service /\ Watched(services[i])
  BY DEF TypeOK, AllWatched
<1>1. ASSUME ScanIdles PROVE AllWatched'
  BY <1>1, IdleCourse DEF AllWatched
<1>2. ASSUME Opendir PROVE AllWatched'
  <2> SUFFICES ASSUME NEW i \in Slots PROVE Watched(services'[i])
    BY DEF AllWatched
  <2>1. services'[i] \in {services[i], [services[i] EXCEPT !.present = FALSE]}
    BY <1>2 DEF Opendir
  <2> QED
    BY <1>0, <2>1, MarkWatched
<1>3. ASSUME NEW n \in Names, NEW i \in Slots, FindEntry(n, i)
      PROVE  AllWatched'
  <2>1. services' = [services EXCEPT ![i] =
            [services[i] EXCEPT !.present = TRUE, !.stopping = FALSE]]
    BY <1>3 DEF FindEntry, TypeOK
  <2> QED
    BY <1>0, <2>1, MarkWatched, OneSlotWatched
<1>4. ASSUME NEW n \in Names, NEW i \in Slots, AddEntry(n, i)
      PROVE  AllWatched'
  BY <1>0, <1>4, MarkWatched, OneSlotWatched DEF AddEntry
<1>5. ASSUME StopMissing PROVE AllWatched'
  <2> DEFINE s == services[cursor]
             main == s.pid # None /\ ~s.stopping
             log == s.log_pid # None /\ ~s.log_stopping
             cascade == IF main THEN Doomed(services) ELSE {}
             T == [i \in Slots |->
                      IF i \in cascade \/ (i = cursor /\ main)
                      THEN Halt(services[i]) ELSE services[i]]
  <2>1. \A i \in Slots : T[i] \in Service /\ Watched(T[i])
    BY <1>0, HaltType, MarkWatched
  <2>2. T \in [Slots -> Service]
    BY <2>1
  <2>3. services' = [T EXCEPT ![cursor].log_stopping = (@ \/ log)]
    BY <1>5 DEF StopMissing
  <2>4. cursor \in Slots
    BY DEF TypeOK
  <2> HIDE DEF T, log
  <2>5. PICK b : services' = [T EXCEPT ![cursor] =
                                 [T[cursor] EXCEPT !.log_stopping = b]]
    BY <2>2, <2>3, <2>4
  <2>6. Watched([T[cursor] EXCEPT !.log_stopping = b])
    BY <2>1, <2>4, MarkWatched
  <2>7. \A i \in Slots : Watched(services'[i])
    BY <2>1, <2>2, <2>5, <2>6
  <2> QED
    BY <2>7 DEF AllWatched
<1>6. ASSUME DropService PROVE AllWatched'
  <2>1. /\ cursor \in Slots
        /\ services' = [services EXCEPT ![cursor] =
               [services[cursor] EXCEPT !.active = FALSE, !.state = "DOWN"]]
    BY <1>6 DEF DropService, TypeOK
  <2> QED
    BY <1>0, <2>1, MarkWatched, OneSlotWatched
<1> QED
  BY <1>1, <1>2, <1>3, <1>4, <1>5, <1>6 DEF Scan, ScanIdles

\* Only a start makes a service RUNNING.
LEMMA StartLoopWatched ==
    ASSUME TypeOK, AllWatched, Start
    PROVE  AllWatched'
<1>0. \A i \in Slots : services[i] \in Service /\ Watched(services[i])
  BY DEF TypeOK, AllWatched
<1>1. cursor \in Slots
  BY DEF TypeOK
<1>2. ASSUME PassSlot PROVE AllWatched'
  BY <1>2 DEF PassSlot, AllWatched
<1>3. ASSUME PostponeStart PROVE AllWatched'
  <2>1. services' = [services EXCEPT ![cursor] =
            [services[cursor] EXCEPT !.restart_at = "later"]]
    BY <1>1, <1>3 DEF PostponeStart, TypeOK
  <2> QED
    BY <1>0, <1>1, <2>1, MarkWatched, OneSlotWatched
<1>4. ASSUME StartService PROVE AllWatched'
  <2>1. PICK log \in IF services[cursor].has_log THEN ForkOutcomes(Free)
                     ELSE {None} :
            \E main : services' = [services EXCEPT ![cursor] =
                          WithMain(WithLogger(services[cursor], log), main)]
    BY <1>4 DEF StartService
  <2>2. log \in Pids \cup {None}
    BY ForkType DEF Free
  <2> QED
    BY <1>0, <1>1, <2>1, <2>2, StartWatched, OneSlotWatched
<1> QED
  BY <1>2, <1>3, <1>4 DEF Start

\* From the end of kill_main_on_log_death() to the next wait for children no
\* running service has lost its logger: nothing in between, be it the scan, a
\* start with a logger that cannot be forked, the poll or a command, makes one.
THEOREM LoggersAreWatched == Spec => []LoggersWatched
<1> DEFINE Inv == pc \notin {"reap", "logdeath", "done"} => AllWatched
<1>1. Init => Inv
  BY DEF Init
<1>2. TypeOK /\ AllSound /\ Inv /\ [Next]_vars => Inv'
  <2> SUFFICES ASSUME TypeOK, AllSound, Inv, [Next]_vars,
                      pc' \notin {"reap", "logdeath", "done"}
               PROVE  AllWatched'
    OBVIOUS
  <2>1. CASE Reap
    BY <2>1, LogDeathWatched
    DEF Reap, ReapLog, ReapMain, ReapUnknown, ReapEnd
  <2>2. CASE Scan
    <3>1. AllWatched
      BY <2>2, ScanCourse
    <3> QED
      BY <2>2, <3>1, ScanWatched
  <2>3. CASE Start
    <3>1. AllWatched
      BY <2>3, StartCourse
    <3> QED
      BY <2>3, <3>1, StartLoopWatched
  <2>4. CASE Poll
    BY <2>4, PollCourse DEF AllWatched
  <2>5. CASE Shutdown
    BY <2>5, ShutdownCourse
  <2>6. CASE Serve
    <3>1. AllWatched /\ pc' = "check"
      BY <2>6, ServeCourse
    <3>2. services' = services
      BY <2>6, <3>1 DEF Serve, Command, CmdStart, CmdStop, CmdRestart, CmdDown,
                        CmdUp, CmdOnce, CmdSignal, CmdReload, CmdCheck,
                        CheckDone, Query, Receive
    <3> QED
      BY <3>1, <3>2 DEF AllWatched
  <2>7. CASE Environment \/ UNCHANGED vars
    BY <2>7, OutsideCourse DEF AllWatched
  <2> QED
    BY <2>1, <2>2, <2>3, <2>4, <2>5, <2>6, <2>7 DEF Next, Supervise,
       Terminating
<1>3. Inv => LoggersWatched
  BY DEF AllWatched, Watched, LoggersWatched
<1> QED
  BY <1>1, <1>2, <1>3, TypeCorrect, SoundAlways, PTL DEF Spec

=============================================================================
