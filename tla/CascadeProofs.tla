----------------------------- MODULE CascadeProofs -----------------------------
(***************************************************************************)
(* The cascade of reap_children() stops all dependents of a crash, however *)
(* indirect, and nobody else.  Doomed(T) is the least set of slots closed  *)
(* under the propagation of stop_transitive_deps(), and both halves follow *)
(* from just that, for every dependency graph, cyclic ones included.       *)
(***************************************************************************)
EXTENDS StateProofs, OwnershipProofs

USE MaxServicesAssumption, NoneAssumption DEF Slots

-----------------------------------------------------------------------------
(* The least fixpoint.                                                     *)

\* When every doomed slot is stopped, the propagation finds nobody else.
LEMMA DoomedClosed ==
    ASSUME NEW T PROVE ClosedUnder(T, Doomed(T))
<1> SUFFICES ASSUME NEW i \in Stoppable(T),
                    NEW d \in HardDeps[T[i].name],
                    \A j \in Slots \ Doomed(T) :
                        ~(T[j].active /\ T[j].name = d
                          /\ T[j].state = "RUNNING")
             PROVE  i \in Doomed(T)
  BY DEF ClosedUnder
<1>1. ASSUME NEW C \in SUBSET Slots, ClosedUnder(T, C) PROVE i \in C
  <2>1. Doomed(T) \subseteq C
    BY <1>1 DEF Doomed
  <2>2. \A j \in Slots \ C :
            ~(T[j].active /\ T[j].name = d /\ T[j].state = "RUNNING")
    BY <2>1
  <2> QED
    BY <1>1, <2>2 DEF ClosedUnder
<1> QED
  BY <1>1 DEF Doomed

\* Whoever could be stopped and is not has all its dependencies among those
\* that go on running.
LEMMA SparedHaveDeps ==
    ASSUME NEW T, NEW i \in Stoppable(T) \ Doomed(T),
           NEW d \in HardDeps[T[i].name]
    PROVE  \E j \in Slots \ Doomed(T) :
               T[j].active /\ T[j].name = d /\ T[j].state = "RUNNING"
BY DoomedClosed DEF ClosedUnder

\* Whoever is doomed has a dependency that runs in no slot but doomed ones:
\* without it the set would still be closed.
LEMMA DoomedLackDep ==
    ASSUME NEW T, NEW i \in Doomed(T)
    PROVE  \E d \in HardDeps[T[i].name] : \A j \in Slots \ Doomed(T) :
               ~(T[j].active /\ T[j].name = d /\ T[j].state = "RUNNING")
<1> SUFFICES ASSUME \A d \in HardDeps[T[i].name] : \E j \in Slots \ Doomed(T) :
                        T[j].active /\ T[j].name = d /\ T[j].state = "RUNNING"
             PROVE  FALSE
  OBVIOUS
<1> DEFINE C == Doomed(T) \ {i}
<1>1. C \in SUBSET Slots
  BY DEF Doomed, Stoppable
<1>2. ClosedUnder(T, C)
  <2> SUFFICES ASSUME NEW k \in Stoppable(T), NEW d \in HardDeps[T[k].name],
                      \A j \in Slots \ C :
                          ~(T[j].active /\ T[j].name = d
                            /\ T[j].state = "RUNNING")
               PROVE  k \in C
    BY DEF ClosedUnder
  <2>1. k # i
    OBVIOUS
  <2>2. k \in Doomed(T)
    BY DoomedClosed DEF ClosedUnder
  <2> QED
    BY <2>1, <2>2
<1> QED
  BY <1>1, <1>2 DEF Doomed

-----------------------------------------------------------------------------
(* The step of reap_children() that runs the cascade.                      *)

\* need_stop_deps is a local of reap_children(): the cascade has run when the
\* supervisor is anywhere else.
DepsPending == stop_deps => pc = "reap"

\* reap_children() returns only after it has looked at need_stop_deps.
LEMMA DepsPendingStep == TypeOK /\ DepsPending /\ [Next]_vars => DepsPending'
<1> SUFFICES ASSUME TypeOK, DepsPending, [Next]_vars PROVE DepsPending'
  OBVIOUS
<1>1. CASE Reap
  BY <1>1, ReapCourse DEF DepsPending
<1>2. CASE Supervise \/ Serve
  BY <1>1, <1>2, ScanCourse, StartCourse, PollCourse, ShutdownCourse,
     ServeCourse
  DEF Supervise, SameCourse, DepsPending
<1>3. CASE Environment \/ UNCHANGED vars
  BY <1>3, OutsideCourse DEF SameCourse, DepsPending
<1> QED
  BY <1>2, <1>3 DEF Next, Terminating

\* The step that goes on to kill_main_on_log_death() with dependents to stop
\* is the one that has stopped them.
LEMMA CascadeStep ==
    ASSUME TypeOK, DepsPending, [Next]_vars, stop_deps, pc' = "logdeath"
    PROVE  services' = stop_transitive_deps(services)
<1>1. pc = "reap"
  BY DEF DepsPending
<1>2. CASE Reap
  BY <1>1, <1>2 DEF Reap, ReapLog, ReapMain, ReapUnknown, ReapEnd, LogDeath
<1>3. CASE ~Reap
  <2>1. Environment \/ UNCHANGED vars
    BY <1>1, <1>3, ScanCourse, StartCourse, PollCourse, ShutdownCourse,
       ServeCourse
    DEF Next, Supervise, Terminating
  <2> QED
    BY <1>1, <2>1, OutsideCourse
<1> QED
  BY <1>2, <1>3

\* After the cascade who runs has its dependencies running.
LEMMA CascadeStopsAll ==
    ASSUME TypeOK, AllSound, services' = stop_transitive_deps(services),
           NEW i \in Slots, services'[i].active, services'[i].state = "RUNNING"
    PROVE  deps_satisfied(services', i)
<1>1. \A j \in Slots : services'[j] = IF j \in Doomed(services)
                                      THEN Halt(services[j]) ELSE services[j]
  BY DEF stop_transitive_deps
<1>2. \A s \in Service : Halt(s).state = "STOPPING" /\ Halt(s).name = s.name
  BY DEF Halt, Service
<1>3. i \notin Doomed(services) /\ services'[i] = services[i]
  BY <1>1, <1>2 DEF TypeOK
<1>4. i \in Stoppable(services)
  BY <1>3 DEF Stoppable, AllSound, Sound
<1>5. ASSUME NEW d \in HardDeps[services'[i].name]
      PROVE  IsRunning(services', d)
  <2>1. PICK j \in Slots \ Doomed(services) :
            /\ services[j].active /\ services[j].name = d
            /\ services[j].state = "RUNNING"
    BY <1>3, <1>4, SparedHaveDeps
  <2> QED
    BY <1>1, <2>1 DEF IsRunning
<1> QED
  BY <1>5 DEF deps_satisfied

\* Whoever the cascade stops has lost a dependency.
LEMMA CascadeStopsOnly ==
    ASSUME TypeOK, services' = stop_transitive_deps(services),
           NEW i \in Slots, services'[i].stopping, ~services[i].stopping
    PROVE  ~deps_satisfied(services', i)
<1>1. \A j \in Slots : services'[j] = IF j \in Doomed(services)
                                      THEN Halt(services[j]) ELSE services[j]
  BY DEF stop_transitive_deps
<1>2. \A s \in Service : Halt(s).state = "STOPPING" /\ Halt(s).name = s.name
  BY DEF Halt, Service
<1>3. i \in Doomed(services) /\ services'[i].name = services[i].name
  BY <1>1, <1>2 DEF TypeOK
<1>4. PICK d \in HardDeps[services[i].name] :
          \A j \in Slots \ Doomed(services) :
              ~(services[j].active /\ services[j].name = d
                /\ services[j].state = "RUNNING")
  BY <1>3, DoomedLackDep
<1>5. ~IsRunning(services', d)
  BY <1>1, <1>2, <1>4 DEF IsRunning, TypeOK
<1> QED
  BY <1>3, <1>4, <1>5 DEF deps_satisfied

-----------------------------------------------------------------------------
(* The theorems.                                                           *)

\* So no dependents are left to stop outside reap_children().
LEMMA AlwaysDepsPending == Spec => []DepsPending
<1>1. Init => DepsPending
  BY DEF Init, DepsPending
<1> QED
  BY <1>1, DepsPendingStep, TypeCorrect, PTL DEF Spec

\* A crash stops everybody who depends on it in the same pass, for every
\* dependency graph and every number of services that crash at once.
THEOREM CascadeIsComplete == Spec => CascadeComplete
<1>1. TypeOK /\ AllSound /\ DepsPending /\ [Next]_vars
      => [stop_deps /\ pc' = "logdeath" =>
              \A i \in Slots :
                  services'[i].active /\ services'[i].state = "RUNNING"
                  => deps_satisfied(services', i)]_vars
  BY CascadeStep, CascadeStopsAll
<1>2. RunningMeansAlive => AllSound
  BY DEF RunningMeansAlive, AllSound, Sound
<1> QED
  BY <1>1, <1>2, TypeCorrect, RunningIsAlive, AlwaysDepsPending, PTL
  DEF Spec, CascadeComplete

\* The cascade stops nobody whose dependencies all go on running.
THEOREM CascadeIsMinimal == Spec => CascadeMinimal
<1>1. TypeOK /\ DepsPending /\ [Next]_vars
      => [stop_deps /\ pc' = "logdeath" =>
              \A i \in Slots : services'[i].stopping /\ ~services[i].stopping
                               => ~deps_satisfied(services', i)]_vars
  BY CascadeStep, CascadeStopsOnly
<1> QED
  BY <1>1, TypeCorrect, AlwaysDepsPending, PTL DEF Spec, CascadeMinimal

-----------------------------------------------------------------------------
(* Crashes alone.  When nothing else stops a service, what the README says *)
(* of the dependents holds: whoever runs has its dependencies running, but *)
(* for the pass in which a crash is found.                                 *)

\* What stops a service without its dependents: the commands; a directory that
\* is removed, or not found because readdir() fails; the death of a logger.
CrashesOnly ==
    /\ Commands \cap {"stop", "restart", "down"} = {}
    /\ Vanishing = {}
    /\ "readdir" \notin Faults
    /\ Logged = {}

Live(s) == s.active /\ s.state = "RUNNING"

\* Either reap_children() has the dependents of a crash still to stop, or
\* nobody lacks a dependency.
DepsMet ==
    stop_deps \/ \A i \in Slots : Live(services[i])
                                  => deps_satisfied(services, i)

\* A slot of T has become t: a service that runs goes on running, and one that
\* begins to run has its dependencies.
Grown(t, T, i) ==
    /\ Live(T[i]) => Live(t) /\ t.name = T[i].name
    /\ Live(t) /\ ~Live(T[i]) => t.name = T[i].name /\ deps_satisfied(T, i)

LEMMA GrownMet ==
    ASSUME DepsMet, stop_deps => stop_deps',
           \A i \in Slots : Grown(services'[i], services, i)
    PROVE  DepsMet'
<1> SUFFICES ASSUME ~stop_deps, NEW i \in Slots, Live(services'[i]),
                    NEW d \in HardDeps[services'[i].name]
             PROVE  IsRunning(services', d)
  BY DEF DepsMet, deps_satisfied
<1>1. services'[i].name = services[i].name /\ deps_satisfied(services, i)
  BY DEF DepsMet, Grown
<1>2. PICK j \in Slots : Live(services[j]) /\ services[j].name = d
  BY <1>1 DEF deps_satisfied, IsRunning, Live
<1> QED
  BY <1>2 DEF Grown, IsRunning, Live

\* Marks and exits of those that are being stopped change nobody's running.
Steady(t, s) ==
    /\ t.active = s.active /\ t.name = s.name
    /\ t.state = "RUNNING" <=> s.state = "RUNNING"
    /\ t.has_log => s.has_log

LEMMA MarkSteady ==
    ASSUME NEW s \in Service
    PROVE  /\ Steady(s, s)
           /\ Steady([s EXCEPT !.present = FALSE], s)
           /\ Steady([s EXCEPT !.present = TRUE, !.stopping = FALSE], s)
           /\ Steady([s EXCEPT !.log_pid = None, !.log_stopping = FALSE], s)
           /\ Steady([s EXCEPT !.restart_at = "later"], s)
           /\ Steady([s EXCEPT !.manual_start = TRUE, !.restart_at = "due",
                               !.stopping = FALSE], s)
           /\ Steady([s EXCEPT !.auto_start = TRUE, !.restart_at = "due",
                               !.stopping = FALSE], s)
           /\ Steady([s EXCEPT !.once = TRUE], s)
BY DEF Steady, Service

\* No service has a logger, and each has a name.
Plain ==
    \A i \in Slots : /\ ~services[i].has_log
                     /\ services[i].active => services[i].name \in Names

LEMMA SteadyMet ==
    ASSUME DepsMet, Plain, stop_deps => stop_deps',
           \A i \in Slots : Steady(services'[i], services[i])
    PROVE  DepsMet' /\ Plain'
<1>1. \A i \in Slots : Grown(services'[i], services, i)
  BY DEF Steady, Grown, Live
<1> QED
  BY <1>1, GrownMet DEF Plain, Steady

\* A step that marks one slot.
LEMMA OneSlotMet ==
    ASSUME TypeOK, DepsMet, Plain, stop_deps' = stop_deps,
           NEW i \in Slots, NEW t, services' = [services EXCEPT ![i] = t],
           Steady(t, services[i])
    PROVE  DepsMet' /\ Plain'
<1>1. \A j \in Slots : Steady(services'[j], services[j])
  BY MarkSteady DEF TypeOK
<1> QED
  BY <1>1, SteadyMet

\* Nor does a step that leaves the table alone.
LEMMA UntouchedMet ==
    ASSUME DepsMet, Plain, stop_deps' = stop_deps, UNCHANGED services
    PROVE  DepsMet' /\ Plain'
BY DEF DepsMet, Plain, Live, deps_satisfied, IsRunning

-----------------------------------------------------------------------------
(* The steps when services only crash.                                     *)

\* An exit that is not a crash is one of somebody who was being stopped.
LEMMA ExitSteady ==
    ASSUME NEW s \in Service, NEW long, NEW b,
           s.stopping => s.state # "RUNNING"
    PROVE  LET t == [AfterExit(s, long) EXCEPT !.log_stopping = b]
           IN  /\ s.stopping => Steady(t, s)
               /\ t.has_log = s.has_log
               /\ t.active = s.active /\ t.name = s.name
<1> DEFINE Gone(t) == /\ t.active = s.active /\ t.name = s.name
                      /\ t.state # "RUNNING" /\ t.has_log = s.has_log
<1>1. Gone([[s EXCEPT !.pid = None, !.state = "ENDED", !.restart_at = "never",
                      !.once = FALSE] EXCEPT !.log_stopping = b])
  BY DEF Service
<1>2. \A c : Gone([[s EXCEPT !.pid = None, !.state = "FAILED",
                             !.restart_at = "never", !.restarts = c]
                       EXCEPT !.log_stopping = b])
  BY DEF Service
<1>3. \A c : Gone([[s EXCEPT !.pid = None, !.state = "ENDED",
                             !.restart_at = "later", !.restarts = c]
                       EXCEPT !.log_stopping = b])
  BY DEF Service
<1> HIDE DEF Gone
<1>4. Gone([AfterExit(s, long) EXCEPT !.log_stopping = b])
  BY <1>1, <1>2, <1>3, Zenon DEF AfterExit
<1> QED
  BY <1>4 DEF Gone, Steady

\* reap_children(): a crash is remembered until its dependents are stopped.
LEMMA ReapMet ==
    ASSUME TypeOK, AllSound, DepsMet, Plain, Reap
    PROVE  DepsMet' /\ Plain'
<1>0. \A i \in Slots : services[i] \in Service
  BY DEF TypeOK
<1>1. ASSUME NEW p \in Pids, NEW i \in Slots, ReapLog(p, i)
      PROVE  DepsMet' /\ Plain'
  <2>1. services' = [services EXCEPT ![i] =
            [services[i] EXCEPT !.log_pid = None, !.log_stopping = FALSE]]
        /\ stop_deps' = stop_deps
    BY <1>1 DEF ReapLog, TypeOK, local_vars
  <2> QED
    BY <1>0, <2>1, MarkSteady, OneSlotMet
<1>2. ASSUME NEW p \in Pids, NEW i \in Slots, ReapMain(p, i)
      PROVE  DepsMet' /\ Plain'
  <2> DEFINE s == services[i]
  <2>1. PICK long \in BOOLEAN : \E b :
            services' = [services EXCEPT ![i] =
                [AfterExit(s, long) EXCEPT !.log_stopping = b]]
    BY <1>2 DEF ReapMain
  <2>2. PICK b :
            services' = [services EXCEPT ![i] =
                [AfterExit(s, long) EXCEPT !.log_stopping = b]]
    BY <2>1
  <2>3. /\ stop_deps' = (stop_deps \/ ~s.stopping)
        /\ s.stopping => s.state # "RUNNING"
    BY <1>2 DEF ReapMain, AllSound, Sound
  <2> DEFINE t == [AfterExit(s, long) EXCEPT !.log_stopping = b]
  <2>4. /\ s.stopping => Steady(t, s)
        /\ t.has_log = s.has_log /\ t.active = s.active /\ t.name = s.name
    BY <1>0, <2>3, ExitSteady
  <2>5. \A j \in Slots : services'[j] = IF j = i THEN t ELSE services[j]
    BY <2>2 DEF TypeOK
  <2> HIDE DEF s, t
  <2>6. Plain'
    BY <2>4, <2>5 DEF Plain, s
  <2>7. CASE s.stopping
    <3>1. \A j \in Slots : Steady(services'[j], services[j])
      BY <1>0, <2>4, <2>5, <2>7, MarkSteady DEF s
    <3> QED
      BY <2>3, <3>1, SteadyMet
  <2>8. CASE ~s.stopping
    BY <2>3, <2>6, <2>8 DEF DepsMet
  <2> QED
    BY <2>7, <2>8
<1>3. ASSUME NEW p \in Pids, ReapUnknown(p) PROVE DepsMet' /\ Plain'
  BY <1>3, UntouchedMet DEF ReapUnknown, local_vars
<1>4. ASSUME ReapEnd PROVE DepsMet' /\ Plain'
  <2>1. CASE stop_deps
    <3>1. services' = stop_transitive_deps(services)
      BY <1>4, <2>1 DEF ReapEnd
    <3>2. DepsMet'
      BY <3>1, CascadeStopsAll DEF DepsMet, Live
    <3>3. \A s \in Service : /\ Halt(s).has_log = s.has_log
                             /\ Halt(s).active = s.active
                             /\ Halt(s).name = s.name
      BY DEF Halt, Service
    <3>4. Plain'
      BY <1>0, <3>1, <3>3 DEF Plain, stop_transitive_deps
    <3> QED
      BY <3>2, <3>4
  <2>2. CASE ~stop_deps
    BY <1>4, <2>2, UntouchedMet DEF ReapEnd, TypeOK
  <2> QED
    BY <2>1, <2>2
<1>5. ASSUME LogDeath PROVE DepsMet' /\ Plain'
  <2>1. \A i \in Slots : services'[i] = services[i]
    BY <1>5 DEF LogDeath, Unlogged, Plain
  <2>2. \A i \in Slots : Steady(services'[i], services[i])
    BY <1>0, <2>1, MarkSteady
  <2> QED
    BY <1>5, <2>2, SteadyMet DEF LogDeath, local_vars
<1> QED
  BY <1>1, <1>2, <1>3, <1>4, <1>5 DEF Reap

\* The scan in progress has found every service, or still will.
AllListed ==
    /\ run_files = Names
    /\ pc = "readdir" => \A i \in Slots : services[i].active =>
           services[i].present \/ services[i].name \in unread
    /\ pc = "missing" => \A i \in Slots : services[i].active =>
           services[i].present

\* scan_services() finds everybody, so handle_missing_services() stops and
\* drops nobody.
LEMMA ScanMet ==
    ASSUME CrashesOnly, Owned, DepsMet, Plain, AllListed, Scan
    PROVE  DepsMet' /\ Plain' /\ AllListed'
<1>0. TypeOK /\ \A i \in Slots : services[i] \in Service
  BY DEF Owned, TypeOK
<1>1. stop_deps' = stop_deps
  BY ScanCourse DEF SameCourse
<1>2. CASE SkipScan \/ OpendirFails
  <2>1. pc' = "start" /\ UNCHANGED <<services, run_files>>
    BY <1>2 DEF SkipScan, OpendirFails, file_vars
  <2> QED
    BY <1>1, <2>1, UntouchedMet DEF AllListed
<1>3. CASE Opendir
  <2>1. \A i \in Slots : services'[i] =
            IF services[i].active THEN [services[i] EXCEPT !.present = FALSE]
            ELSE services[i]
    BY <1>3 DEF Opendir
  <2>2. \A i \in Slots : Steady(services'[i], services[i])
    BY <1>0, <2>1, MarkSteady
  <2>3. DepsMet' /\ Plain'
    BY <1>1, <2>2, SteadyMet
  <2>4. pc' = "readdir" /\ unread' = Names /\ run_files' = Names
    BY <1>3 DEF Opendir, AllListed, file_vars
  <2> QED
    BY <2>3, <2>4 DEF Plain, AllListed
<1>4. CASE Closedir
  <2>1. pc = "readdir" /\ pc' = "missing" /\ unread = {}
    BY <1>4 DEF Closedir, CrashesOnly
  <2>2. UNCHANGED <<services, run_files>>
    BY <1>4 DEF Closedir, file_vars, kernel_vars
  <2> QED
    BY <1>1, <2>1, <2>2, UntouchedMet DEF AllListed
<1>5. ASSUME NEW n \in Names, PassEntry(n)
      PROVE  DepsMet' /\ Plain' /\ AllListed'
  <2>1. /\ pc = "readdir" /\ pc' = pc /\ unread' = unread \ {n}
        /\ UNCHANGED <<services, run_files>>
    BY <1>5 DEF PassEntry, file_vars
  <2>2. ~Known(n)
    BY <1>5 DEF PassEntry, AllListed
  <2> QED
    BY <1>1, <2>1, <2>2, UntouchedMet DEF AllListed, Known
<1>6. ASSUME NEW n \in Names, NEW i \in Slots, FindEntry(n, i)
      PROVE  DepsMet' /\ Plain' /\ AllListed'
  <2> DEFINE t == [services[i] EXCEPT !.present = TRUE, !.stopping = FALSE]
  <2>1. /\ services' = [services EXCEPT ![i] = t]
        /\ pc = "readdir" /\ pc' = pc /\ unread' = unread \ {n}
        /\ run_files' = run_files
        /\ services[i].active /\ services[i].name = n
    BY <1>0, <1>6 DEF FindEntry, TypeOK, file_vars
  <2>2. Steady(t, services[i]) /\ t.present
    BY <1>0, MarkSteady DEF Service
  <2>3. \A j \in Slots : services'[j] = IF j = i THEN t ELSE services[j]
    BY <1>0, <2>1 DEF TypeOK
  <2> HIDE DEF t
  <2>4. DepsMet' /\ Plain'
    BY <1>0, <1>1, <2>1, <2>2, OneSlotMet
  <2>5. ASSUME NEW j \in Slots, services'[j].active
        PROVE  services'[j].present \/ services'[j].name \in unread'
    <3>1. CASE j = i
      BY <2>2, <2>3, <3>1
    <3>2. CASE j # i
      <4>1. services'[j] = services[j]
        BY <2>3, <3>2
      <4>2. services[j].name # n
        BY <2>1, <2>5, <3>2, <4>1 DEF Owned, OneInstance
      <4> QED
        BY <2>1, <2>5, <4>1, <4>2 DEF AllListed
    <3> QED
      BY <3>1, <3>2
  <2> QED
    BY <2>1, <2>4, <2>5 DEF AllListed
<1>7. ASSUME NEW n \in Names, NEW i \in Slots, AddEntry(n, i)
      PROVE  DepsMet' /\ Plain' /\ AllListed'
  <2> DEFINE t == NewService(n)
  <2>1. /\ services' = [services EXCEPT ![i] = t]
        /\ pc = "readdir" /\ pc' = pc /\ unread' = unread \ {n}
        /\ run_files' = run_files
        /\ ~services[i].active /\ ~Known(n)
    BY <1>0, <1>7 DEF AddEntry, FirstUnused, file_vars
  <2>2. /\ t.state = "DOWN" /\ ~t.has_log /\ t.name = n /\ t.present
    BY DEF NewService, SERVICE_EMPTY, CrashesOnly
  <2>3. \A j \in Slots : services'[j] = IF j = i THEN t ELSE services[j]
    BY <1>0, <2>1 DEF TypeOK
  <2> HIDE DEF t
  <2>4. \A j \in Slots : Grown(services'[j], services, j)
    BY <2>1, <2>2, <2>3 DEF Grown, Live
  <2>5. DepsMet'
    BY <1>1, <2>4, GrownMet
  <2>6. Plain'
    BY <2>2, <2>3 DEF Plain
  <2>7. \A j \in Slots : services'[j].active =>
            services'[j].present \/ services'[j].name \in unread'
    BY <2>1, <2>2, <2>3 DEF AllListed, Known
  <2> QED
    BY <2>1, <2>5, <2>6, <2>7 DEF AllListed
<1>8. CASE KeepService \/ StopMissing \/ DropService
  <2>1. cursor \in Slots /\ pc = "missing"
    BY <1>0, <1>8 DEF TypeOK, KeepService, StopMissing, DropService
  <2>2. ~Missing(services[cursor])
    BY <2>1 DEF Missing, AllListed
  <2>3. KeepService
    BY <1>8, <2>2 DEF StopMissing, DropService
  <2>4. /\ pc' = pc \/ pc' = "start"
        /\ UNCHANGED <<services, run_files>>
    BY <2>3 DEF KeepService, NextSlot, file_vars
  <2> QED
    BY <1>1, <2>1, <2>4, UntouchedMet DEF AllListed
<1> QED
  BY <1>2, <1>3, <1>4, <1>5, <1>6, <1>7, <1>8 DEF Scan

\* A start waits for the dependencies, and starting stops nobody.
LEMMA StartMet ==
    ASSUME TypeOK, AllSound, DepsMet, Plain, Start
    PROVE  DepsMet' /\ Plain'
<1>0. cursor \in Slots /\ \A i \in Slots : services[i] \in Service
  BY DEF TypeOK
<1>1. stop_deps' = stop_deps
  BY StartCourse DEF SameCourse
<1>2. CASE PassSlot
  BY <1>1, <1>2, UntouchedMet DEF PassSlot
<1>3. CASE PostponeStart
  <2>1. services' = [services EXCEPT ![cursor] =
                         [services[cursor] EXCEPT !.restart_at = "later"]]
    BY <1>0, <1>3 DEF PostponeStart, TypeOK
  <2> QED
    BY <1>0, <1>1, <2>1, MarkSteady, OneSlotMet
<1>4. CASE StartService
  <2> DEFINE s == services[cursor]
  <2>1. \E log, main : services' =
            [services EXCEPT ![cursor] = WithMain(WithLogger(s, log), main)]
    BY <1>4 DEF StartService
  <2>2. PICK log, main : services' =
            [services EXCEPT ![cursor] = WithMain(WithLogger(s, log), main)]
    BY <2>1
  <2> DEFINE t == WithMain(s, main)
  <2>3. \A j \in Slots : services'[j] = IF j = cursor THEN t ELSE services[j]
    BY <1>0, <2>2 DEF WithLogger, Plain, TypeOK
  <2>4. t.name = s.name /\ t.has_log = s.has_log /\ t.active = s.active
    BY <1>0 DEF WithMain, Service
  <2>5. deps_satisfied(services, cursor) /\ ~Live(s)
    BY <1>0, <1>4 DEF StartService, Startable, AllSound, Sound, Live
  <2> HIDE DEF s, t
  <2>6. \A j \in Slots : Grown(services'[j], services, j)
    BY <2>3, <2>4, <2>5 DEF Grown, s
  <2>7. Plain'
    BY <1>0, <2>3, <2>4 DEF Plain, s
  <2> QED
    BY <1>1, <2>6, <2>7, GrownMet
<1> QED
  BY <1>2, <1>3, <1>4 DEF Start

\* The commands that are left stop nobody.
LEMMA ServeMet ==
    ASSUME CrashesOnly, TypeOK, DepsMet, Plain, Serve
    PROVE  DepsMet' /\ Plain'
<1>0. \A i \in Slots : services[i] \in Service
  BY DEF TypeOK
<1>1. stop_deps' = stop_deps
  BY ServeCourse DEF SameCourse
<1>2. ASSUME NEW n \in Names, NEW i \in Slots, CmdStart(n, i)
      PROVE  DepsMet' /\ Plain'
  <2>1. services' = [services EXCEPT ![i] =
            [services[i] EXCEPT !.manual_start = TRUE, !.restart_at = "due",
                                !.stopping = FALSE]]
    BY <1>0, <1>2 DEF CmdStart, TypeOK
  <2> QED
    BY <1>0, <1>1, <2>1, MarkSteady, OneSlotMet
<1>3. ASSUME NEW n \in Names, NEW i \in Slots, CmdUp(n, i)
      PROVE  DepsMet' /\ Plain'
  <2>1. services' = [services EXCEPT ![i] =
            [services[i] EXCEPT !.auto_start = TRUE, !.restart_at = "due",
                                !.stopping = FALSE]]
    BY <1>0, <1>3 DEF CmdUp, TypeOK
  <2> QED
    BY <1>0, <1>1, <2>1, MarkSteady, OneSlotMet
<1>4. ASSUME NEW n \in Names, NEW i \in Slots, CmdOnce(n, i)
      PROVE  DepsMet' /\ Plain'
  <2>1. services' = [services EXCEPT ![i] =
            [services[i] EXCEPT !.once = TRUE]]
    BY <1>0, <1>4 DEF CmdOnce, TypeOK
  <2> QED
    BY <1>0, <1>1, <2>1, MarkSteady, OneSlotMet
<1>5. ASSUME \/ CmdReload \/ Query
             \/ \E n \in Names, i \in Slots : CmdSignal(n, i) \/ CmdCheck(n, i)
             \/ \E c \in Pids : CheckDone(c)
      PROVE  DepsMet' /\ Plain'
  <2>1. services' = services
    BY <1>5 DEF CmdReload, Query, CmdSignal, CmdCheck, CheckDone
  <2> QED
    BY <1>1, <2>1, UntouchedMet
<1>6. ASSUME NEW n \in Names, NEW i \in Slots
      PROVE  ~(CmdStop(n, i) \/ CmdRestart(n, i) \/ CmdDown(n, i))
  BY DEF CmdStop, CmdRestart, CmdDown, Receive, CrashesOnly
<1> QED
  BY <1>2, <1>3, <1>4, <1>5, <1>6 DEF Serve, Command

\* The shutdown stops everybody who runs.
LEMMA ShutdownMet ==
    ASSUME TypeOK, AllSound, DepsMet, Plain, Shutdown
    PROVE  DepsMet' /\ Plain'
<1>0. \A i \in Slots : services[i] \in Service
  BY DEF TypeOK
<1>1. CASE SettleAgain \/ KillRest
  <2>1. services' = services /\ stop_deps' = stop_deps
    BY <1>1 DEF SettleAgain, KillRest, local_vars
  <2> QED
    BY <2>1, UntouchedMet
<1>2. CASE StopAll
  <2>1. ASSUME NEW i \in Slots
        PROVE  /\ ~Live(services'[i])
               /\ ~services'[i].has_log
               /\ services'[i].active => services'[i].name \in Names
    <3> DEFINE s == services[i]
               b == s.log_stopping \/ s.log_pid # None
    <3>1. CASE i \notin ShutdownTargets(services)
      <4>1. services'[i] = s /\ ~Live(s)
        BY <1>2, <3>1 DEF StopAll, StoppedAll, ShutdownTargets, Live
      <4> QED
        BY <4>1 DEF Plain
    <3>2. CASE i \in ShutdownTargets(services)
      <4>1. services'[i] = IF s.pid = None THEN [s EXCEPT !.log_stopping = b]
                           ELSE [Halt(s) EXCEPT !.log_stopping = b]
        BY <1>0, <1>2, <3>2 DEF StopAll, StoppedAll, Halt, Service
      <4>2. s.pid = None => ~Live(s)
        BY DEF AllSound, Sound, Live
      <4>3. /\ s.pid # None => services'[i].state = "STOPPING"
            /\ s.pid = None => services'[i].state = s.state
            /\ services'[i].active = s.active /\ services'[i].name = s.name
            /\ services'[i].has_log = s.has_log
        BY <1>0, <4>1 DEF Halt, Service
      <4> QED
        BY <4>2, <4>3 DEF Plain, Live
    <3> QED
      BY <3>1, <3>2
  <2> QED
    BY <2>1 DEF DepsMet, Plain
<1>3. CASE CloseAll
  <2>1. ASSUME NEW i \in Slots
        PROVE  /\ ~Live(services'[i])
               /\ ~services'[i].has_log
               /\ services'[i].active => services'[i].name \in Names
    <3>1. services'[i] =
              IF services[i].active
              THEN [services[i] EXCEPT !.pid = None, !.log_pid = None,
                                       !.state = "DOWN"]
              ELSE services[i]
      BY <1>3 DEF CloseAll
    <3>2. /\ services[i].active => services'[i].state = "DOWN"
          /\ ~services[i].active => ~services'[i].active
          /\ services'[i].name = services[i].name
          /\ services'[i].has_log = services[i].has_log
      BY <1>0, <3>1 DEF Service
    <3> QED
      BY <3>2 DEF Live, Plain
  <2> QED
    BY <2>1 DEF DepsMet, Plain
<1> QED
  BY <1>1, <1>2, <1>3 DEF Shutdown

\* Outside a scan nobody looks for directories, and none is removed.
LEMMA ListedElsewhere ==
    ASSUME CrashesOnly, AllListed, [Next]_vars, ~Scan
    PROVE  AllListed'
<1>1. CASE Reap \/ Start \/ Poll \/ Shutdown \/ Serve
  <2>1. pc' \notin {"readdir", "missing"}
    BY <1>1, ReapCourse, StartCourse, PollCourse, ShutdownCourse, ServeCourse
    DEF AfterReap
  <2>2. run_files' = run_files
    <3>1. CASE Reap
      BY <3>1 DEF Reap, ReapLog, ReapMain, ReapUnknown, ReapEnd, LogDeath,
                  file_vars
    <3>2. CASE Start \/ Poll
      BY <3>2 DEF Start, PassSlot, PostponeStart, StartService, Poll,
                  PollInterrupted, NoSignal, NoClient, Accept, DrainSignalPipe,
                  file_vars
    <3>3. CASE Shutdown
      BY <3>3 DEF Shutdown, StopAll, SettleAgain, KillRest, CloseAll, file_vars
    <3>4. CASE Serve
      BY <3>4 DEF Serve, Command, CmdStart, CmdStop, CmdRestart, CmdDown,
                  CmdUp, CmdOnce, CmdSignal, CmdReload, CmdCheck, CheckDone,
                  Query, file_vars
    <3> QED
      BY <1>1, <3>1, <3>2, <3>3, <3>4
  <2> QED
    BY <2>1, <2>2 DEF AllListed
<1>2. CASE Environment \/ UNCHANGED vars
  <2>1. services' = services /\ pc' = pc
    BY <1>2, OutsideCourse
  <2>2. unread' = unread /\ run_files' = run_files
    BY <1>2 DEF Environment, Exec, Exit, SendSignal, CrashesOnly, file_vars,
                local_vars, vars
  <2> QED
    BY <2>1, <2>2 DEF AllListed
<1> QED
  BY <1>1, <1>2 DEF Next, Supervise, Terminating

\* Together with what is known of every behaviour.
CrashInv == DepsMet /\ Plain /\ AllListed

LEMMA StepMet ==
    ASSUME CrashesOnly, Owned, AllSound, CrashInv, [Next]_vars
    PROVE  CrashInv'
<1>0. TypeOK
  BY DEF Owned
<1>1. CASE Scan
  BY <1>1, ScanMet DEF CrashInv
<1>2. CASE ~Scan
  <2>1. AllListed'
    BY <1>2, ListedElsewhere DEF CrashInv
  <2>2. CASE Reap \/ Start \/ Serve \/ Shutdown
    BY <1>0, <2>1, <2>2, ReapMet, StartMet, ServeMet, ShutdownMet DEF CrashInv
  <2>3. CASE Poll \/ Environment \/ UNCHANGED vars
    <3>1. services' = services /\ stop_deps' = stop_deps
      BY <2>3, PollCourse, OutsideCourse DEF SameCourse
    <3> QED
      BY <2>1, <3>1, UntouchedMet DEF CrashInv
  <2> QED
    BY <1>2, <2>2, <2>3 DEF Next, Supervise, Terminating
<1> QED
  BY <1>1, <1>2

LEMMA InitMet == Init => CrashInv
BY DEF Init, CrashInv, DepsMet, Plain, AllListed, Live, SERVICE_EMPTY

\* When services stop only by crashing, nobody runs on a dependency that has no
\* process once the children that exited have been reaped: README, Dependencies,
\* is right about crashes, for every dependency graph.
THEOREM CrashesReachDependents ==
    CrashesOnly => (Spec => []DependentsFollow)
<1> SUFFICES ASSUME CrashesOnly PROVE Spec => []DependentsFollow
  OBVIOUS
<1>1. RunningMeansAlive => AllSound
  BY DEF RunningMeansAlive, AllSound, Sound
<1>2. Owned /\ AllSound /\ CrashInv /\ [Next]_vars => CrashInv'
  BY StepMet
<1>3. Owned /\ AllSound /\ DepsPending /\ CrashInv => DependentsFollow
  <2> SUFFICES ASSUME Owned, AllSound, DepsPending, CrashInv, pc = "scan",
                      NEW i \in Slots, Live(services[i]),
                      NEW j \in Slots, services[j].active,
                      services[j].pid = None,
                      services[j].name \in HardDeps[services[i].name]
               PROVE  FALSE
    BY DEF DependentsFollow, Live
  <2>1. deps_satisfied(services, i)
    BY DEF DepsPending, CrashInv, DepsMet
  <2>2. PICK k \in Slots : /\ services[k].active
                           /\ services[k].name = services[j].name
                           /\ services[k].state = "RUNNING"
    BY <2>1 DEF deps_satisfied, IsRunning
  <2>3. k = j
    BY <2>2 DEF Owned, OneInstance
  <2> QED
    BY <2>2, <2>3 DEF AllSound, Sound
<1> QED
  BY <1>1, <1>2, <1>3, InitMet, AlwaysOwned, RunningIsAlive,
     AlwaysDepsPending, PTL DEF Spec

=============================================================================
