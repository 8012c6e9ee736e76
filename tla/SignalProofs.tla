----------------------------- MODULE SignalProofs -----------------------------
(***************************************************************************)
(* Who has been sent a signal.  The supervisor signals nobody who is       *)
(* marked as stopping; that is sound as long as a mark is never there      *)
(* without the signal.  A step that sets marks and sends signals keeps     *)
(* this slot by slot (Marked), and a child that is forked gets a pid of    *)
(* nobody who is marked.  On this rests that the shutdown reaches all.     *)
(*                                                                         *)
(* A TERM before exec is lost and the mark stays: the steps are shown to   *)
(* be faithful to the marks whenever signals come, and the invariant and   *)
(* the shutdown for children that have reached exec (~SlowExec).           *)
(***************************************************************************)
EXTENDS ContractProofs

USE MaxServicesAssumption, NoneAssumption DEF Slots

-----------------------------------------------------------------------------
(* Marks and signals.                                                      *)

NoSetup == \A p \in Pids : procs[p].stage # "setup"

\* StoppingIsSignalled, in every location.
AllTold ==
    \A i \in Slots :
        LET s == services[i]
        IN  /\ s.stopping /\ s.pid # None => procs[s.pid].stage # "run"
            /\ s.log_stopping /\ s.log_pid # None
                   => procs[s.log_pid].stage # "run"

\* A marked process was there before the step, and runs after it only if it
\* ran with that mark before.
StaysTold(mark, p, q) ==
    /\ q = p
    /\ procs'[q].stage = "run" => mark /\ procs[p].stage = "run"

\* A step is faithful to the marks.
MarksTold ==
    \A i \in Slots :
        LET s == services[i]
            t == services'[i]
        IN  /\ t.stopping /\ t.pid # None =>
                   StaysTold(s.stopping, s.pid, t.pid)
            /\ t.log_stopping /\ t.log_pid # None =>
                   StaysTold(s.log_stopping, s.log_pid, t.log_pid)

\* s has become t while the processes P were signalled: a mark on t is about
\* the same process, and it was there before or the process is in P.
Marked(t, s, P) ==
    /\ t.stopping /\ t.pid # None
           => t.pid = s.pid /\ (s.stopping \/ s.pid \in P)
    /\ t.log_stopping /\ t.log_pid # None
           => t.log_pid = s.log_pid /\ (s.log_stopping \/ s.log_pid \in P)

\* Besides the children F that are forked, nobody begins to run, and P ends.
Falls(P, F) ==
    \A p \in Pids \ F :
        procs'[p].stage = "run" => procs[p].stage = "run" /\ p \notin P

\* A mark is never about a child that has just been forked.
Spared(t, F) == /\ t.stopping /\ t.pid # None => t.pid \notin F
                /\ t.log_stopping /\ t.log_pid # None => t.log_pid \notin F

\* The step of a whole table.
LEMMA ToldStep ==
    ASSUME TypeOK, NEW P, NEW F, Falls(P, F),
           \A i \in Slots : Marked(services'[i], services[i], P)
                            /\ Spared(services'[i], F)
    PROVE  MarksTold
<1>1. \A i \in Slots : /\ services[i].pid \in Pids \cup {None}
                       /\ services[i].log_pid \in Pids \cup {None}
  BY DEF TypeOK, Service
<1> SUFFICES ASSUME NEW i \in Slots
             PROVE  LET s == services[i]
                        t == services'[i]
                    IN  /\ t.stopping /\ t.pid # None =>
                               StaysTold(s.stopping, s.pid, t.pid)
                        /\ t.log_stopping /\ t.log_pid # None =>
                               StaysTold(s.log_stopping, s.log_pid, t.log_pid)
  BY DEF MarksTold
<1> QED
  BY <1>1 DEF Falls, Marked, Spared, StaysTold

\* Without a fork there is nobody to spare.
LEMMA ToldQuietly ==
    ASSUME TypeOK, NEW P, Falls(P, {}),
           \A i \in Slots : Marked(services'[i], services[i], P)
    PROVE  MarksTold
BY ToldStep DEF Spared

\* kill() ends whom it is sent to.
LEMMA SignalFalls ==
    ASSUME TypeOK, NEW sig, NEW P, Signal(sig, P)
    PROVE  Falls(P, {})
<1>1. \A r \in Proc : [r EXCEPT !.stage = "ending"].stage = "ending"
  BY DEF Proc
<1> QED
  BY <1>1 DEF Signal, Terminated, Falls, TypeOK

LEMMA KillFalls ==
    ASSUME TypeOK, NEW P, Kill(P)
    PROVE  Falls(P, {})
BY SignalFalls DEF Kill

\* Whoever is halted in the table is to be among the signalled.
LEMMA HaltMarked ==
    ASSUME NEW s \in Service, NEW P
    PROVE  /\ Marked(s, s, P)
           /\ s.pid \in P \cup {None} => Marked(Halt(s), s, P)
           /\ Halted(s) \subseteq P =>
                  /\ Marked(HaltWithLog(s), s, P)
                  /\ Marked([HaltWithLog(s) EXCEPT !.manual_start = TRUE],
                            s, P)
                  /\ Marked([HaltWithLog(s) EXCEPT !.auto_start = FALSE],
                            s, P)
BY DEF Marked, Halt, HaltWithLog, Halted, Service

\* Other marks, and marks that are taken back.
LEMMA MarkMarked ==
    ASSUME NEW s \in Service, NEW P
    PROVE  /\ Marked([s EXCEPT !.present = FALSE], s, P)
           /\ Marked([s EXCEPT !.present = TRUE, !.stopping = FALSE], s, P)
           /\ Marked([s EXCEPT !.log_pid = None, !.log_stopping = FALSE], s, P)
           /\ Marked([s EXCEPT !.restart_at = "later"], s, P)
           /\ Marked([s EXCEPT !.active = FALSE, !.state = "DOWN"], s, P)
           /\ Marked([s EXCEPT !.manual_start = TRUE, !.restart_at = "due",
                               !.stopping = FALSE], s, P)
           /\ Marked([s EXCEPT !.auto_start = TRUE, !.restart_at = "due",
                               !.stopping = FALSE], s, P)
           /\ Marked([s EXCEPT !.auto_start = FALSE], s, P)
           /\ Marked([s EXCEPT !.once = TRUE], s, P)
           /\ Marked([s EXCEPT !.pid = None, !.log_pid = None,
                               !.state = "DOWN"], s, P)
           /\ \A n : Marked(NewService(n), s, P)
BY DEF Marked, NewService, SERVICE_EMPTY, Service

\* Steps that write one slot and fork nobody.
LEMMA OneSlotTold ==
    ASSUME TypeOK, NEW P, Falls(P, {}), NEW i \in Slots, NEW t,
           \A j \in Slots : services'[j] = IF j = i THEN t ELSE services[j],
           Marked(t, services[i], P)
    PROVE  MarksTold
<1>1. \A j \in Slots : Marked(services'[j], services[j], P)
  BY HaltMarked DEF TypeOK
<1> QED
  BY <1>1, ToldQuietly

\* Steps that write no slot.
LEMMA UntouchedTold ==
    ASSUME TypeOK, NEW P, Falls(P, {}), UNCHANGED services
    PROVE  MarksTold
<1>1. \A j \in Slots : Marked(services'[j], services[j], P)
  BY HaltMarked DEF TypeOK
<1> QED
  BY <1>1, ToldQuietly

\* Nobody is forked and nobody ends.
LEMMA SameFalls ==
    ASSUME UNCHANGED procs PROVE Falls({}, {})
BY DEF Falls

\* A child that has been waited for does not run.
LEMMA ForgottenFalls ==
    ASSUME TypeOK, NEW p \in Pids, procs' = [procs EXCEPT ![p] = NoProc]
    PROVE  Falls({}, {})
BY DEF Falls, TypeOK, NoProc

-----------------------------------------------------------------------------
(* The steps.                                                              *)

\* The logger of a slot that was being stopped is told when the main process
\* has exited; a finish script may get the pid of that process.
LEMMA ReapMainTold ==
    ASSUME Owned, NEW p \in Pids, NEW i \in Slots, ReapMain(p, i)
    PROVE  MarksTold
<1> DEFINE s == services[i]
           stop_log == s.log_pid # None /\ s.stopping
           P == IF stop_log THEN {s.log_pid} ELSE {}
           reaped == [procs EXCEPT ![p] = NoProc]
           after == Terminated(P, reaped)
<1>1. /\ TypeOK /\ pc # "done" /\ s \in Service /\ s.pid = p
  BY DEF ReapMain, Owned, TypeOK
<1>2. PICK f \in FinishOutcomes(s.name, Free \cup {p}) :
          procs' = IF f = None THEN after
                   ELSE [after EXCEPT ![f] = NewProc("finish", s.name)]
  BY DEF ReapMain
<1>3. f \in {None, p} \cup Free
  BY <1>2 DEF FinishOutcomes, ForkOutcomes
<1>4. Falls(P, {f})
  <2>1. reaped \in [Pids -> Proc] /\ reaped[p].stage = "free"
        /\ \A q \in Pids : q # p => reaped[q] = procs[q]
    BY <1>1, NoProcType DEF TypeOK, NoProc
  <2>2. DOMAIN after = Pids
        /\ \A q \in Pids : after[q].stage = "run"
                           => reaped[q].stage = "run" /\ q \notin P
    <3>1. \A r \in Proc : [r EXCEPT !.stage = "ending"].stage = "ending"
      BY DEF Proc
    <3> HIDE DEF reaped, P
    <3> QED
      BY <2>1, <3>1 DEF Terminated
  <2> HIDE DEF after, reaped, P
  <2>3. \A q \in Pids \ {f} : procs'[q] = after[q]
    BY <1>2, <2>2
  <2> QED
    BY <2>1, <2>2, <2>3 DEF Falls
<1>5. \A j \in Slots : Marked(services'[j], services[j], P)
                       /\ Spared(services'[j], {f})
  <2>1. PICK long \in BOOLEAN :
            services' = [services EXCEPT ![i] =
                [AfterExit(s, long) EXCEPT !.log_stopping = (@ \/ stop_log)]]
    BY DEF ReapMain
  <2>2. LET t == [AfterExit(s, long) EXCEPT !.log_stopping = (@ \/ stop_log)]
        IN  /\ t.pid = None /\ t.log_pid = s.log_pid
            /\ t.log_stopping => s.log_stopping \/ stop_log
    <3>1. /\ AfterExit(s, long).log_stopping = s.log_stopping
          /\ AfterExit(s, long).log_pid = s.log_pid
          /\ AfterExit(s, long).pid = None
      BY <1>1, AfterExitKeeps
    <3>2. AfterExit(s, long) \in Service
      BY <1>1, AfterExitType
    <3> HIDE DEF stop_log
    <3> QED
      BY <3>1, <3>2 DEF Service
  <2>3. Marked(services'[i], s, P) /\ Spared(services'[i], {f})
    <3>1. /\ services'[i].pid = None /\ services'[i].log_pid = s.log_pid
          /\ services'[i].log_stopping => s.log_stopping \/ stop_log
      BY <1>1, <2>1, <2>2 DEF TypeOK
    <3>2. s.log_pid # None => s.log_pid # f
      BY <1>1, <1>3, NobodyFree
    <3>3. stop_log => s.log_pid \in P
      OBVIOUS
    <3> HIDE DEF s, stop_log, P
    <3> QED
      BY <3>1, <3>2, <3>3 DEF Marked, Spared
  <2>4. ASSUME NEW j \in Slots, j # i
        PROVE  Marked(services'[j], services[j], P)
               /\ Spared(services'[j], {f})
    <3>1. services'[j] = services[j] /\ services[j] \in Service
      BY <1>1, <2>1, <2>4 DEF TypeOK
    <3>2. /\ services[j].pid # None => services[j].pid # f
          /\ services[j].log_pid # None => services[j].log_pid # f
      <4>1. services[j].pid # None => services[j].pid # p
        BY <1>1, <2>4 DEF Owned, PidsTracked, OneInstance
      <4> QED
        BY <1>1, <1>3, <4>1, NobodyFree
    <3> QED
      BY <3>1, <3>2, HaltMarked DEF Spared
  <2> QED
    BY <2>3, <2>4
<1> HIDE DEF P
<1> QED
  BY <1>1, <1>4, <1>5, ToldStep

\* reap_children() and its two calls at the end.
LEMMA ReapTold ==
    ASSUME Owned, Reap
    PROVE  MarksTold
<1>0. TypeOK /\ \A i \in Slots : services[i] \in Service
  BY DEF Owned, TypeOK
<1>1. ASSUME NEW p \in Pids, NEW i \in Slots, ReapLog(p, i) PROVE MarksTold
  <2>1. \A j \in Slots : services'[j] =
            IF j = i THEN [services[i] EXCEPT !.log_pid = None,
                                              !.log_stopping = FALSE]
            ELSE services[j]
    BY <1>0, <1>1 DEF ReapLog, TypeOK
  <2>2. Falls({}, {})
    BY <1>0, <1>1, ForgottenFalls DEF ReapLog
  <2>3. Marked([services[i] EXCEPT !.log_pid = None, !.log_stopping = FALSE],
               services[i], {})
    BY <1>0, MarkMarked
  <2> QED
    BY <1>0, <2>1, <2>2, <2>3, OneSlotTold
<1>2. ASSUME NEW p \in Pids, ReapUnknown(p) PROVE MarksTold
  BY <1>0, <1>2, ForgottenFalls, UntouchedTold DEF ReapUnknown
<1>3. ASSUME ReapEnd PROVE MarksTold
  <2>1. CASE stop_deps
    <3> DEFINE P == PidsOf(services, Doomed(services))
    <3>1. Falls(P, {})
      BY <1>0, <1>3, <2>1, KillFalls DEF ReapEnd
    <3>2. ASSUME NEW i \in Slots PROVE Marked(services'[i], services[i], P)
      <4>1. CASE i \in Doomed(services)
        <5>1. services'[i] = Halt(services[i]) /\ services[i].pid \in P
          BY <1>3, <2>1, <4>1 DEF ReapEnd, stop_transitive_deps, PidsOf
        <5> QED
          BY <1>0, <5>1, HaltMarked
      <4>2. CASE i \notin Doomed(services)
        <5>1. services'[i] = services[i]
          BY <1>3, <2>1, <4>2 DEF ReapEnd, stop_transitive_deps
        <5> QED
          BY <1>0, <5>1, HaltMarked
      <4> QED
        BY <4>1, <4>2
    <3> HIDE DEF P
    <3> QED
      BY <1>0, <3>1, <3>2, ToldQuietly
  <2>2. CASE ~stop_deps
    BY <1>0, <1>3, <2>2, SameFalls, UntouchedTold DEF ReapEnd, kernel_vars
  <2> QED
    BY <2>1, <2>2
<1>4. ASSUME LogDeath PROVE MarksTold
  <2> DEFINE P == PidsOf(services, Unlogged(services))
  <2>1. Falls(P, {})
    BY <1>0, <1>4, KillFalls DEF LogDeath
  <2>2. ASSUME NEW i \in Slots PROVE Marked(services'[i], services[i], P)
    <3>1. CASE i \in Unlogged(services)
      <4>1. services'[i] = Halt(services[i]) /\ services[i].pid \in P
        BY <1>4, <3>1 DEF LogDeath, PidsOf
      <4> QED
        BY <1>0, <4>1, HaltMarked
    <3>2. CASE i \notin Unlogged(services)
      <4>1. services'[i] = services[i]
        BY <1>4, <3>2 DEF LogDeath
      <4> QED
        BY <1>0, <4>1, HaltMarked
    <3> QED
      BY <3>1, <3>2
  <2> HIDE DEF P
  <2> QED
    BY <1>0, <2>1, <2>2, ToldQuietly
<1> QED
  BY <1>1, <1>2, <1>3, <1>4, ReapMainTold DEF Reap

\* A missing service is told to stop together with its logger and with those
\* who depend on it.
LEMMA StopMissingTold ==
    ASSUME Owned, StopMissing
    PROVE  MarksTold
<1> DEFINE s == services[cursor]
           main == s.pid # None /\ ~s.stopping
           log == s.log_pid # None /\ ~s.log_stopping
           cascade == IF main THEN Doomed(services) ELSE {}
           T == [i \in Slots |->
                    IF i \in cascade \/ (i = cursor /\ main)
                    THEN Halt(services[i]) ELSE services[i]]
           P == PidsOf(services, cascade) \cup (IF main THEN {s.pid} ELSE {})
                    \cup (IF log THEN {s.log_pid} ELSE {})
<1>0. /\ TypeOK /\ cursor \in Slots
      /\ \A i \in Slots : services[i] \in Service
  BY DEF Owned, TypeOK
<1>1. Falls(P, {})
  BY <1>0, KillFalls DEF StopMissing
<1>2. services' = [T EXCEPT ![cursor].log_stopping = (@ \/ log)]
  BY DEF StopMissing
<1>3. \A i \in Slots :
          T[i] \in Service /\ Marked(T[i], services[i], P)
  <2> SUFFICES ASSUME NEW i \in Slots
               PROVE  T[i] \in Service /\ Marked(T[i], services[i], P)
    OBVIOUS
  <2>1. CASE i \in cascade \/ (i = cursor /\ main)
    <3>1. services[i].pid \in P
      BY <2>1 DEF PidsOf
    <3>2. T[i] = Halt(services[i])
      BY <2>1
    <3> HIDE DEF T, P
    <3> QED
      BY <1>0, <3>1, <3>2, HaltMarked, HaltType
  <2>2. CASE ~(i \in cascade \/ (i = cursor /\ main))
    <3>1. T[i] = services[i]
      BY <2>2
    <3> HIDE DEF T, P
    <3> QED
      BY <1>0, <3>1, HaltMarked
  <2> QED
    BY <2>1, <2>2
<1>4. /\ DOMAIN T = Slots /\ T[cursor].log_pid = s.log_pid
      /\ log => s.log_pid \in P
  BY <1>0 DEF Halt, Service
<1> HIDE DEF T, P, log
<1>5. \A i \in Slots : i # cursor => services'[i] = T[i]
  BY <1>0, <1>2, <1>4
<1>6. Marked(services'[cursor], services[cursor], P)
  <2>1. services'[cursor] =
            [T[cursor] EXCEPT !.log_stopping = (T[cursor].log_stopping \/ log)]
    BY <1>0, <1>2, <1>4
  <2>2. /\ services'[cursor].pid = T[cursor].pid
        /\ services'[cursor].stopping = T[cursor].stopping
        /\ services'[cursor].log_pid = T[cursor].log_pid
        /\ services'[cursor].log_stopping => T[cursor].log_stopping \/ log
    BY <1>0, <1>3, <2>1 DEF Service
  <2>3. Marked(T[cursor], services[cursor], P)
    BY <1>0, <1>3
  <2> QED
    BY <1>4, <2>2, <2>3 DEF Marked
<1> QED
  BY <1>0, <1>1, <1>3, <1>5, <1>6, ToldQuietly

\* The scan takes marks back and sets them with the signal.
LEMMA ScanTold ==
    ASSUME Owned, Scan
    PROVE  MarksTold
<1>0. TypeOK /\ \A i \in Slots : services[i] \in Service
  BY DEF Owned, TypeOK
<1>1. ASSUME \/ SkipScan \/ OpendirFails \/ Closedir \/ KeepService
             \/ \E n \in Names : PassEntry(n)
      PROVE  MarksTold
  BY <1>0, <1>1, SameFalls, UntouchedTold
  DEF SkipScan, OpendirFails, Closedir, KeepService, PassEntry, kernel_vars
<1>2. ASSUME Opendir PROVE MarksTold
  <2>1. \A i \in Slots : Marked(services'[i], services[i], {})
    BY <1>0, <1>2, HaltMarked, MarkMarked DEF Opendir
  <2> QED
    BY <1>0, <1>2, <2>1, SameFalls, ToldQuietly DEF Opendir, kernel_vars
<1>3. ASSUME NEW n \in Names, NEW i \in Slots, FindEntry(n, i)
      PROVE  MarksTold
  <2>1. \A j \in Slots : services'[j] =
            IF j = i THEN [services[i] EXCEPT !.present = TRUE,
                                              !.stopping = FALSE]
            ELSE services[j]
    BY <1>0, <1>3 DEF FindEntry, TypeOK
  <2>2. Marked([services[i] EXCEPT !.present = TRUE, !.stopping = FALSE],
               services[i], {})
    BY <1>0, MarkMarked
  <2> QED
    BY <1>0, <1>3, <2>1, <2>2, SameFalls, OneSlotTold
    DEF FindEntry, kernel_vars
<1>4. ASSUME NEW n \in Names, NEW i \in Slots, AddEntry(n, i)
      PROVE  MarksTold
  <2>1. \A j \in Slots : services'[j] =
            IF j = i THEN NewService(n) ELSE services[j]
    BY <1>0, <1>4 DEF AddEntry, TypeOK
  <2>2. Marked(NewService(n), services[i], {})
    BY <1>0, MarkMarked
  <2> QED
    BY <1>0, <1>4, <2>1, <2>2, SameFalls, OneSlotTold
    DEF AddEntry, kernel_vars
<1>5. ASSUME DropService PROVE MarksTold
  <2>1. cursor \in Slots
    BY <1>0 DEF TypeOK
  <2>2. \A j \in Slots : services'[j] =
            IF j = cursor
            THEN [services[cursor] EXCEPT !.active = FALSE, !.state = "DOWN"]
            ELSE services[j]
    BY <1>0, <1>5, <2>1 DEF DropService, TypeOK
  <2>3. Marked([services[cursor] EXCEPT !.active = FALSE, !.state = "DOWN"],
               services[cursor], {})
    BY <1>0, <2>1, MarkMarked
  <2> QED
    BY <1>0, <1>5, <2>1, <2>2, <2>3, SameFalls, OneSlotTold
    DEF DropService, kernel_vars
<1> QED
  BY <1>1, <1>2, <1>3, <1>4, <1>5, StopMissingTold DEF Scan

\* A service is started in a slot that is not marked, with pids nobody had.
LEMMA StartServiceTold ==
    ASSUME Owned, StartService
    PROVE  MarksTold
<1> DEFINE s == services[cursor]
           Started(log, main) ==
               /\ services' = [services EXCEPT ![cursor] =
                                  WithMain(WithLogger(s, log), main)]
               /\ procs' = [p \in Pids |->
                               IF p = main THEN NewProc("main", s.name)
                               ELSE IF p = log THEN NewProc("log", s.name)
                               ELSE procs[p]]
<1>0. /\ TypeOK /\ pc # "done" /\ cursor \in Slots /\ s \in Service
      /\ ~s.stopping
  BY DEF Owned, TypeOK, StartService, Startable
<1>1. PICK log \in IF s.has_log THEN ForkOutcomes(Free) ELSE {None} :
           \E main \in ForkOutcomes(Free \ {log}) : Started(log, main)
  BY DEF StartService
<1>2. PICK main \in ForkOutcomes(Free \ {log}) : Started(log, main)
  BY <1>1
<1>3. log \in Free \cup {None} /\ main \in Free \cup {None}
  BY DEF ForkOutcomes, Free
<1>4. Falls({}, {main, log})
  BY <1>2 DEF Falls
<1>5. LET t == services'[cursor]
      IN  /\ ~t.stopping
          /\ t.log_stopping => t.log_pid = s.log_pid /\ s.log_stopping
  BY <1>0, <1>2, <1>3 DEF WithMain, WithLogger, Service, TypeOK
<1>6. \A j \in Slots : j # cursor => services'[j] = services[j]
  BY <1>0, <1>2 DEF TypeOK
<1> HIDE DEF s, Started
<1>7. \A j \in Slots :
          /\ services[j].pid # None => services[j].pid \notin {main, log}
          /\ services[j].log_pid # None =>
                 services[j].log_pid \notin {main, log}
  BY <1>0, <1>3, NobodyFree
<1>8. \A j \in Slots : Marked(services'[j], services[j], {})
                       /\ Spared(services'[j], {main, log})
  BY <1>0, <1>5, <1>6, <1>7 DEF Marked, Spared, s
<1> QED
  BY <1>0, <1>4, <1>8, ToldStep

\* The start loop.
LEMMA StartTold ==
    ASSUME Owned, Start
    PROVE  MarksTold
<1>0. TypeOK /\ cursor \in Slots /\ \A i \in Slots : services[i] \in Service
  BY DEF Owned, TypeOK
<1>1. ASSUME PassSlot PROVE MarksTold
  BY <1>0, <1>1, SameFalls, UntouchedTold DEF PassSlot, kernel_vars
<1>2. ASSUME PostponeStart PROVE MarksTold
  <2>1. \A j \in Slots : services'[j] =
            IF j = cursor
            THEN [services[cursor] EXCEPT !.restart_at = "later"]
            ELSE services[j]
    BY <1>0, <1>2 DEF PostponeStart, TypeOK
  <2>2. Marked([services[cursor] EXCEPT !.restart_at = "later"],
               services[cursor], {})
    BY <1>0, MarkMarked
  <2> QED
    BY <1>0, <1>2, <2>1, <2>2, SameFalls, OneSlotTold
    DEF PostponeStart, kernel_vars
<1> QED
  BY <1>1, <1>2, StartServiceTold DEF Start

\* The commands mark whom they signal.
LEMMA CommandTold ==
    ASSUME Owned, NEW n \in Names, NEW i \in Slots,
           \/ CmdStart(n, i) \/ CmdRestart(n, i)
           \/ CmdDown(n, i) \/ CmdUp(n, i) \/ CmdOnce(n, i) \/ CmdSignal(n, i)
    PROVE  MarksTold
<1>0. TypeOK /\ services[i] \in Service
  BY DEF Owned, TypeOK
<1>1. CASE CmdStart(n, i)
  <2>1. \A j \in Slots : services'[j] =
            IF j = i
            THEN [services[i] EXCEPT !.manual_start = TRUE,
                                     !.restart_at = "due", !.stopping = FALSE]
            ELSE services[j]
    BY <1>0, <1>1 DEF CmdStart, TypeOK
  <2>2. Marked([services[i] EXCEPT !.manual_start = TRUE,
                                   !.restart_at = "due", !.stopping = FALSE],
               services[i], {})
    BY <1>0, MarkMarked
  <2> QED
    BY <1>0, <1>1, <2>1, <2>2, SameFalls, OneSlotTold
    DEF CmdStart, kernel_vars
<1>2. CASE CmdRestart(n, i)
  <2> DEFINE P == Halted(services[i])
  <2>1. \A j \in Slots : services'[j] =
            IF j = i
            THEN [HaltWithLog(services[i]) EXCEPT !.manual_start = TRUE]
            ELSE services[j]
    BY <1>0, <1>2 DEF CmdRestart, TypeOK
  <2>2. Marked([HaltWithLog(services[i]) EXCEPT !.manual_start = TRUE],
               services[i], P)
    BY <1>0, HaltMarked
  <2>3. Falls(P, {})
    BY <1>0, <1>2, KillFalls DEF CmdRestart
  <2> QED
    BY <1>0, <2>1, <2>2, <2>3, OneSlotTold
<1>3. CASE CmdDown(n, i)
  <2> DEFINE s == services[i]
             P == IF s.pid = None THEN {} ELSE Halted(s)
  <2>1. \A j \in Slots : services'[j] =
            IF j # i THEN services[j]
            ELSE IF s.pid = None THEN [s EXCEPT !.auto_start = FALSE]
            ELSE [HaltWithLog(s) EXCEPT !.auto_start = FALSE]
    BY <1>0, <1>3 DEF CmdDown, TypeOK
  <2>2. /\ Marked([s EXCEPT !.auto_start = FALSE], s, P)
        /\ s.pid # None => Marked([HaltWithLog(s) EXCEPT !.auto_start = FALSE],
                                  s, P)
    BY <1>0, HaltMarked, MarkMarked
  <2>3. Falls(P, {})
    BY <1>0, <1>3, KillFalls DEF CmdDown
  <2> HIDE DEF P
  <2>4. \E t : /\ Marked(t, s, P)
               /\ \A j \in Slots : services'[j] =
                      IF j = i THEN t ELSE services[j]
    BY <2>1, <2>2
  <2> QED
    BY <1>0, <2>3, <2>4, OneSlotTold
<1>4. CASE CmdUp(n, i)
  <2>1. \A j \in Slots : services'[j] =
            IF j = i
            THEN [services[i] EXCEPT !.auto_start = TRUE,
                                     !.restart_at = "due", !.stopping = FALSE]
            ELSE services[j]
    BY <1>0, <1>4 DEF CmdUp, TypeOK
  <2>2. Marked([services[i] EXCEPT !.auto_start = TRUE,
                                   !.restart_at = "due", !.stopping = FALSE],
               services[i], {})
    BY <1>0, MarkMarked
  <2> QED
    BY <1>0, <1>4, <2>1, <2>2, SameFalls, OneSlotTold DEF CmdUp, kernel_vars
<1>5. CASE CmdOnce(n, i)
  <2>1. \A j \in Slots : services'[j] =
            IF j = i THEN [services[i] EXCEPT !.once = TRUE] ELSE services[j]
    BY <1>0, <1>5 DEF CmdOnce, TypeOK
  <2>2. Marked([services[i] EXCEPT !.once = TRUE], services[i], {})
    BY <1>0, MarkMarked
  <2> QED
    BY <1>0, <1>5, <2>1, <2>2, SameFalls, OneSlotTold DEF CmdOnce, kernel_vars
<1>6. CASE CmdSignal(n, i)
  BY <1>0, <1>6, SignalFalls, UntouchedTold DEF CmdSignal
<1> QED
  BY <1>1, <1>2, <1>3, <1>4, <1>5, <1>6

\* stop marks the service, its logger and those who depend on it, and signals
\* them all.
LEMMA CmdStopTold ==
    ASSUME Owned, NEW n \in Names, NEW i \in Slots, CmdStop(n, i)
    PROVE  MarksTold
<1> DEFINE T == stop_transitive_deps(services)
           P == PidsOf(services, Doomed(services)) \cup Halted(services[i])
<1>0. TypeOK /\ \A j \in Slots : services[j] \in Service
  BY DEF Owned, TypeOK
<1>1. Falls(P, {})
  BY <1>0, KillFalls DEF CmdStop
<1>2. \A j \in Slots : services'[j] = IF j = i THEN HaltWithLog(T[i]) ELSE T[j]
  BY DEF CmdStop, stop_transitive_deps
<1>3. \A j \in Slots :
          /\ T[j] \in {services[j], Halt(services[j])}
          /\ Marked(T[j], services[j], P)
  <2> SUFFICES ASSUME NEW j \in Slots
               PROVE  /\ T[j] \in {services[j], Halt(services[j])}
                      /\ Marked(T[j], services[j], P)
    OBVIOUS
  <2>1. CASE j \in Doomed(services)
    <3>1. T[j] = Halt(services[j]) /\ services[j].pid \in P
      BY <2>1 DEF stop_transitive_deps, PidsOf
    <3> HIDE DEF T, P
    <3> QED
      BY <1>0, <3>1, HaltMarked
  <2>2. CASE j \notin Doomed(services)
    <3>1. T[j] = services[j]
      BY <2>2 DEF stop_transitive_deps
    <3> HIDE DEF T, P
    <3> QED
      BY <1>0, <3>1, HaltMarked
  <2> QED
    BY <2>1, <2>2
<1>4. Halted(services[i]) \subseteq P
  OBVIOUS
<1> HIDE DEF T, P
<1>5. Marked(HaltWithLog(T[i]), services[i], P)
  <2>1. CASE T[i] = services[i]
    BY <1>0, <1>4, <2>1, HaltMarked
  <2>2. CASE T[i] = Halt(services[i])
    <3>1. LET t == HaltWithLog(Halt(services[i]))
          IN  /\ t.pid = services[i].pid /\ t.log_pid = services[i].log_pid
              /\ services[i].pid \in P \cup {None}
              /\ services[i].log_pid \in P \cup {None}
      BY <1>0, <1>4 DEF HaltWithLog, Halt, Halted, Service
    <3> QED
      BY <2>2, <3>1 DEF Marked
  <2> QED
    BY <1>3, <2>1, <2>2
<1>6. \A j \in Slots : Marked(services'[j], services[j], P)
  BY <1>2, <1>3, <1>5
<1> QED
  BY <1>0, <1>1, <1>6, ToldQuietly

\* A check script gets a pid that is free.
LEMMA CmdCheckTold ==
    ASSUME Owned, NEW n \in Names, NEW i \in Slots, CmdCheck(n, i)
    PROVE  MarksTold
<1>0. /\ TypeOK /\ pc # "done"
      /\ services' = services /\ \A j \in Slots : services[j] \in Service
  BY DEF Owned, TypeOK, CmdCheck
<1>1. PICK c \in Free : procs' = [procs EXCEPT ![c] = NewProc("check", n)]
  BY DEF CmdCheck
<1>2. Falls({}, {c})
  BY <1>0, <1>1 DEF Falls, TypeOK
<1>3. \A j \in Slots : Marked(services'[j], services[j], {})
                       /\ Spared(services'[j], {c})
  BY <1>0, NobodyFree, HaltMarked DEF Spared
<1> QED
  BY <1>0, <1>2, <1>3, ToldStep

\* All commands.
LEMMA ServeTold ==
    ASSUME Owned, Serve
    PROVE  MarksTold
<1>0. TypeOK
  BY DEF Owned
<1>1. ASSUME CmdReload \/ Query PROVE MarksTold
  BY <1>0, <1>1, SameFalls, UntouchedTold DEF CmdReload, Query, kernel_vars
<1>2. ASSUME NEW c \in Pids, CheckDone(c) PROVE MarksTold
  BY <1>0, <1>2, ForgottenFalls, UntouchedTold DEF CheckDone
<1> QED
  BY <1>1, <1>2, CommandTold, CmdStopTold, CmdCheckTold DEF Serve, Command

\* The shutdown marks and signals by the state; KILL marks nobody and makes
\* nobody run.
LEMMA StopAllTold ==
    ASSUME Owned, StopAll
    PROVE  MarksTold
<1> DEFINE P == ShutdownPids(services)
<1>0. TypeOK /\ \A i \in Slots : services[i] \in Service
  BY DEF Owned, TypeOK
<1>1. Falls(P, {})
  BY <1>0, KillFalls DEF StopAll
<1>2. ASSUME NEW i \in Slots PROVE Marked(services'[i], services[i], P)
  <2> DEFINE s == services[i]
  <2>1. CASE i \notin ShutdownTargets(services)
    <3>1. services'[i] = s
      BY <2>1 DEF StopAll, StoppedAll
    <3> QED
      BY <1>0, <3>1, HaltMarked
  <2>2. CASE i \in ShutdownTargets(services)
    <3> DEFINE b == s.log_stopping \/ s.log_pid # None
    <3>1. /\ s.pid \in P
          /\ ~s.log_stopping => s.log_pid \in P
      BY <2>2 DEF ShutdownPids
    <3>2. /\ s.pid = None => services'[i] = [s EXCEPT !.log_stopping = b]
          /\ s.pid # None =>
                 services'[i] = [Halt(s) EXCEPT !.log_stopping = b]
      BY <1>0, <2>2 DEF StopAll, StoppedAll, Halt, Service
    <3>3. services'[i].pid = s.pid /\ services'[i].log_pid = s.log_pid
      BY <1>0, <3>2 DEF Halt, Service
    <3> HIDE DEF P
    <3> QED
      BY <3>1, <3>3 DEF Marked
  <2> QED
    BY <2>1, <2>2
<1> HIDE DEF P
<1> QED
  BY <1>0, <1>1, <1>2, ToldQuietly

\* The rest of the shutdown.
LEMMA ShutdownTold ==
    ASSUME Owned, Shutdown
    PROVE  MarksTold
<1>0. TypeOK /\ \A i \in Slots : services[i] \in Service
  BY DEF Owned, TypeOK
<1>1. ASSUME SettleAgain PROVE MarksTold
  BY <1>0, <1>1, SameFalls, UntouchedTold DEF SettleAgain, kernel_vars
<1>2. ASSUME KillRest PROVE MarksTold
  <2>1. \A r \in Proc : [r EXCEPT !.stage = "ending"].stage = "ending"
    BY DEF Proc
  <2>2. \A p \in Pids :
            procs'[p] \in {procs[p], [procs[p] EXCEPT !.stage = "ending"]}
    BY <1>2 DEF KillRest
  <2>3. Falls({}, {})
    BY <1>0, <2>1, <2>2 DEF Falls, TypeOK
  <2> QED
    BY <1>0, <1>2, <2>3, UntouchedTold DEF KillRest
<1>3. ASSUME CloseAll PROVE MarksTold
  <2>1. \A i \in Slots : Marked(services'[i], services[i], {})
    BY <1>0, <1>3, HaltMarked, MarkMarked DEF CloseAll
  <2> QED
    BY <1>0, <1>3, <2>1, SameFalls, ToldQuietly DEF CloseAll, kernel_vars
<1> QED
  BY <1>1, <1>2, <1>3, StopAllTold DEF Shutdown

\* What the supervisor does not do.
LEMMA ElseTold ==
    ASSUME Owned, ~(\E p \in Pids : Exec(p)),
           Poll \/ Environment \/ UNCHANGED vars
    PROVE  MarksTold
<1>0. TypeOK
  BY DEF Owned
<1>1. CASE Poll \/ UNCHANGED vars
  BY <1>0, <1>1, SameFalls, UntouchedTold
  DEF Poll, PollInterrupted, NoSignal, NoClient, Accept, DrainSignalPipe,
      kernel_vars, vars
<1>2. CASE Environment
  <2>1. UNCHANGED services
    BY <1>2 DEF Environment, Exec, Exit, SendSignal, Touch
  <2>2. ASSUME NEW p \in Pids, Exit(p) PROVE Falls({}, {})
    <3>1. procs' = [procs EXCEPT ![p].stage = "zombie"]
      BY <2>2 DEF Exit
    <3>2. \A r \in Proc : [r EXCEPT !.stage = "zombie"].stage = "zombie"
      BY DEF Proc
    <3> QED
      BY <1>0, <3>1, <3>2 DEF Falls, TypeOK
  <2>3. Falls({}, {})
    BY <1>2, <2>2, SameFalls
    DEF Environment, SendSignal, Touch, kernel_vars
  <2> QED
    BY <1>0, <2>1, <2>3, UntouchedTold
<1> QED
  BY <1>1, <1>2

\* Together: only a child that reaches exec may begin to run with a mark, and
\* then it has been signalled too early.
LEMMA StepTold ==
    ASSUME Owned, [Next]_vars
    PROVE  MarksTold \/ \E p \in Pids : Exec(p)
BY ReapTold, ScanTold, StartTold, ServeTold, ShutdownTold, ElseTold
DEF Next, Supervise, Terminating

\* A process is marked only with its signal and a mark is never about a child
\* that has just been forked, whatever the table does to its slots: a signal
\* that comes before exec is the only way to run with a mark and not be told.
THEOREM SignalsBehindMarks == Spec => MarksAreSignalled
<1> DEFINE Told ==
        \A i \in Slots :
            LET s == services[i]
                t == services'[i]
            IN  /\ t.stopping /\ t.pid # None =>
                       /\ t.pid = s.pid
                       /\ procs'[t.pid].stage = "run" =>
                              /\ s.stopping
                              /\ procs[s.pid].stage \in {"setup", "run"}
                /\ t.log_stopping /\ t.log_pid # None =>
                       /\ t.log_pid = s.log_pid
                       /\ procs'[t.log_pid].stage = "run" =>
                              /\ s.log_stopping
                              /\ procs[s.log_pid].stage \in {"setup", "run"}
<1>1. ASSUME LifeInv, [Next]_vars PROVE Told
  <2>1. CASE MarksTold
    BY <2>1 DEF MarksTold, StaysTold
  <2>2. ASSUME NEW p \in Pids, Exec(p) PROVE Told
    <3>1. /\ services' = services
          /\ procs[p].stage = "setup"
          /\ \A q \in Pids : q # p => procs'[q] = procs[q]
      BY <1>1, <2>2 DEF Exec, LifeInv, Owned, TypeOK
    <3>2. \A i \in Slots : /\ services[i].pid \in Pids \cup {None}
                           /\ services[i].log_pid \in Pids \cup {None}
      BY <1>1 DEF LifeInv, Owned, TypeOK, Service
    <3> SUFFICES ASSUME NEW q \in Pids, procs'[q].stage = "run"
                 PROVE  procs[q].stage \in {"setup", "run"}
      BY <3>1, <3>2
    <3> QED
      BY <3>1
  <2> QED
    BY <1>1, <2>1, <2>2, StepTold DEF LifeInv
<1>2. LifeInv /\ [Next]_vars => [Told]_vars
  BY <1>1
<1> HIDE DEF Told
<1>3. Spec => [][Told]_vars
  BY <1>2, LifeAlways, PTL DEF Spec
<1> QED
  BY <1>3 DEF MarksAreSignalled, Told

-----------------------------------------------------------------------------
(* Children that are never before exec.                                    *)

\* A signal, a reaped child and an exit put nobody before exec.
LEMMA NoSetupProcs ==
    ASSUME NEW ps \in [Pids -> Proc], \A p \in Pids : ps[p].stage # "setup"
    PROVE  /\ \A P : \A p \in Pids : Terminated(P, ps)[p].stage # "setup"
           /\ \A p, q \in Pids : /\ [ps EXCEPT ![q] = NoProc][p].stage # "setup"
                                 /\ [ps EXCEPT ![q].stage = "zombie"][p].stage
                                        # "setup"
<1>1. \A r \in Proc : /\ [r EXCEPT !.stage = "ending"].stage = "ending"
                      /\ [r EXCEPT !.stage = "zombie"].stage = "zombie"
  BY DEF Proc
<1>2. NoProc.stage = "free"
  BY DEF NoProc
<1>3. \A P : \A p \in Pids : Terminated(P, ps)[p].stage # "setup"
  BY <1>1 DEF Terminated
<1>4. \A p, q \in Pids : /\ [ps EXCEPT ![q] = NoProc][p].stage # "setup"
                         /\ [ps EXCEPT ![q].stage = "zombie"][p].stage
                                # "setup"
  BY <1>1, <1>2
<1> QED
  BY <1>3, <1>4

\* When a signal cannot come between fork and exec, a fork is one step.
LEMMA NoSetupStep ==
    ASSUME ~SlowExec, TypeOK, NoSetup, [Next]_vars
    PROVE  NoSetup'
<1>0. procs \in [Pids -> Proc]
  BY DEF TypeOK
<1>1. \A role, n : NewProc(role, n).stage = "run"
  BY DEF NewProc
<1>2. ASSUME UNCHANGED procs \/ \E sig, P : Signal(sig, P) PROVE NoSetup'
  BY <1>0, <1>2, NoSetupProcs DEF NoSetup, Signal
<1>3. ASSUME NEW p \in Pids, procs' = [procs EXCEPT ![p] = NoProc]
      PROVE  NoSetup'
  BY <1>0, <1>3, NoSetupProcs DEF NoSetup
<1>4. ASSUME NEW p \in Pids, NEW i \in Slots, ReapMain(p, i) PROVE NoSetup'
  <2> DEFINE s == services[i]
             P == IF s.log_pid # None /\ s.stopping THEN {s.log_pid} ELSE {}
             reaped == [procs EXCEPT ![p] = NoProc]
             after == Terminated(P, reaped)
  <2>1. PICK f \in FinishOutcomes(s.name, Free \cup {p}) :
            procs' = IF f = None THEN after
                     ELSE [after EXCEPT ![f] = NewProc("finish", s.name)]
    BY <1>4 DEF ReapMain
  <2>2. reaped \in [Pids -> Proc] /\ \A q \in Pids : reaped[q].stage # "setup"
    BY <1>0, NoProcType, NoSetupProcs DEF NoSetup
  <2> HIDE DEF reaped
  <2>3. DOMAIN after = Pids /\ \A q \in Pids : after[q].stage # "setup"
    BY <2>2, NoSetupProcs DEF Terminated
  <2> HIDE DEF after
  <2> QED
    BY <1>1, <2>1, <2>3 DEF NoSetup
<1>5. CASE Reap
  BY <1>2, <1>3, <1>4, <1>5
  DEF Reap, ReapLog, ReapUnknown, ReapEnd, LogDeath, kernel_vars, Kill
<1>6. CASE Scan
  BY <1>2, <1>6
  DEF Scan, SkipScan, OpendirFails, Opendir, Closedir, PassEntry, FindEntry,
      AddEntry, KeepService, StopMissing, DropService, kernel_vars, Kill
<1>7. CASE Start
  <2>1. CASE PassSlot \/ PostponeStart
    BY <1>2, <2>1 DEF PassSlot, PostponeStart, kernel_vars
  <2>2. CASE StartService
    <3>1. \A p \in Pids :
              procs'[p] = procs[p] \/ \E role, n : procs'[p] = NewProc(role, n)
      BY <2>2 DEF StartService
    <3> QED
      BY <1>1, <3>1 DEF NoSetup
  <2> QED
    BY <1>7, <2>1, <2>2 DEF Start
<1>8. CASE Poll \/ UNCHANGED vars
  BY <1>2, <1>8
  DEF Poll, PollInterrupted, NoSignal, NoClient, Accept, DrainSignalPipe,
      kernel_vars, vars
<1>9. CASE Shutdown
  <2>1. CASE StopAll \/ SettleAgain \/ CloseAll
    BY <1>2, <2>1 DEF StopAll, SettleAgain, CloseAll, kernel_vars, Kill
  <2>2. CASE KillRest
    <3>1. \A p \in Pids :
              procs'[p] \in {procs[p], [procs[p] EXCEPT !.stage = "ending"]}
      BY <2>2 DEF KillRest
    <3>2. \A r \in Proc : [r EXCEPT !.stage = "ending"].stage = "ending"
      BY DEF Proc
    <3> QED
      BY <1>0, <3>1, <3>2 DEF NoSetup
  <2> QED
    BY <1>9, <2>1, <2>2 DEF Shutdown
<1>10. CASE Serve
  <2>1. ASSUME NEW n \in Names, NEW i \in Slots, CmdCheck(n, i) PROVE NoSetup'
    BY <1>0, <1>1, <2>1 DEF CmdCheck, NoSetup, Free
  <2>2. ASSUME NEW n \in Names, NEW i \in Slots,
               \/ CmdStart(n, i) \/ CmdStop(n, i) \/ CmdRestart(n, i)
               \/ CmdDown(n, i) \/ CmdUp(n, i) \/ CmdOnce(n, i)
               \/ CmdSignal(n, i)
        PROVE  NoSetup'
    BY <1>2, <2>2
    DEF CmdStart, CmdStop, CmdRestart, CmdDown, CmdUp, CmdOnce, CmdSignal,
        kernel_vars, Kill
  <2> QED
    BY <1>2, <1>3, <1>10, <2>1, <2>2
    DEF Serve, Command, CmdReload, Query, CheckDone, kernel_vars
<1>11. CASE Environment
  <2>1. ASSUME NEW p \in Pids, Exit(p) PROVE NoSetup'
    BY <1>0, <2>1, NoSetupProcs DEF NoSetup, Exit
  <2> QED
    BY <1>2, <1>11, <2>1
    DEF NoSetup, Environment, Exec, SendSignal, Touch, kernel_vars
<1> QED
  BY <1>5, <1>6, <1>7, <1>8, <1>9, <1>10, <1>11
  DEF Next, Supervise, Terminating

ToldInv == LifeInv /\ NoSetup /\ AllTold

\* At the start there is no child and no mark.
LEMMA InitTold == Init => NoSetup /\ AllTold
BY DEF Init, NoSetup, AllTold, NoProc, SERVICE_EMPTY

\* The invariant of this module.
LEMMA ToldAlways == ~SlowExec => (Spec => []ToldInv)
<1> SUFFICES ASSUME ~SlowExec PROVE Spec => []ToldInv
  OBVIOUS
<1>1. LifeInv /\ NoSetup /\ AllTold /\ [Next]_vars => NoSetup' /\ AllTold'
  <2> SUFFICES ASSUME LifeInv, NoSetup, AllTold, [Next]_vars
               PROVE  NoSetup' /\ AllTold'
    OBVIOUS
  <2>1. TypeOK /\ Owned
    BY DEF LifeInv, Owned
  <2>2. MarksTold
    BY <2>1, StepTold DEF NoSetup, Exec
  <2>3. AllTold'
    BY <2>2 DEF AllTold, MarksTold, StaysTold
  <2> QED
    BY <2>1, <2>3, NoSetupStep
<1> QED
  BY <1>1, InitTold, LifeAlways, PTL DEF Spec, ToldInv

\* Whoever is marked as stopping has been sent TERM, in the table and among the
\* loggers, through failing forks, pids that are used again and marks that are
\* taken back by a scan or a command: that is why the supervisor may pass over
\* whoever is marked.
THEOREM MarkedIsSignalled == ~SlowExec => (Spec => []StoppingIsSignalled)
<1> SUFFICES ASSUME ~SlowExec PROVE Spec => []StoppingIsSignalled
  OBVIOUS
<1>1. ToldInv => StoppingIsSignalled
  BY DEF ToldInv, AllTold, StoppingIsSignalled
<1> QED
  BY <1>1, ToldAlways, PTL

-----------------------------------------------------------------------------
(* The shutdown.                                                           *)

\* After stop_all_in_order() every slot with a main process is marked.
AllHalted ==
    phase # "serve" /\ pc # "done" =>
        \A i \in Slots : services[i].pid # None => services[i].stopping

\* After the KILL pass no logger in the table runs.
LoggersKilled ==
    phase = "kill" /\ pc # "done" =>
        \A i \in Slots : services[i].log_pid # None
                         => procs[services[i].log_pid].stage # "run"

\* What main() leaves behind.
NobodyLeft ==
    pc = "done" =>
        \A p \in Pids : procs[p].role = "main" => procs[p].stage # "run"

ReachInv == AllHalted /\ LoggersKilled /\ NobodyLeft

\* A shutdown finds every process by the state of its slot.
LEMMA StopAllReach ==
    ASSUME LifeInv, StopAll
    PROVE  ReachInv'
<1>1. phase' = "term" /\ pc' = "reap"
  BY DEF StopAll
<1>2. ASSUME NEW i \in Slots, services'[i].pid # None
      PROVE  services'[i].stopping
  <2> DEFINE s == services[i]
             b == s.log_stopping \/ s.log_pid # None
  <2>1. s \in Service /\ pc = "stopall"
    BY DEF LifeInv, Owned, TypeOK, StopAll
  <2>2. s.pid # None => i \in ShutdownTargets(services)
    BY <2>1 DEF LifeInv, AllSound, Sound, Owned, PidsTracked, ShutdownTargets
  <2>3. CASE s.pid # None
    <3>1. services'[i] = [Halt(s) EXCEPT !.log_stopping = b]
      BY <2>1, <2>2, <2>3 DEF StopAll, StoppedAll, Halt, Service
    <3> QED
      BY <2>1, <3>1 DEF Halt, Service
  <2>4. CASE s.pid = None
    <3>1. services'[i] \in {s, [s EXCEPT !.log_stopping = b]}
      BY <2>1, <2>4 DEF StopAll, StoppedAll, Service
    <3> QED
      BY <1>2, <2>1, <2>4, <3>1 DEF Service
  <2> QED
    BY <2>3, <2>4
<1> QED
  BY <1>1, <1>2 DEF ReachInv, AllHalted, LoggersKilled, NobodyLeft

\* While the supervisor serves nothing is claimed.
LEMMA ServingReach ==
    ASSUME phase' = "serve", pc' # "done"
    PROVE  ReachInv'
BY DEF ReachInv, AllHalted, LoggersKilled, NobodyLeft

\* Steps of the shutdown that neither end it nor go on to KILL.
LEMMA WaitingReach ==
    ASSUME TypeOK, ReachInv, phase' = phase, pc # "done", pc' # "done",
           \A i \in Slots :
               LET s == services[i]
                   t == services'[i]
               IN  /\ t.pid # None
                          => t.pid = s.pid /\ (s.stopping => t.stopping)
                   /\ t.log_pid # None
                          => /\ t.log_pid = s.log_pid
                             /\ procs'[s.log_pid].stage = "run"
                                    => procs[s.log_pid].stage = "run"
    PROVE  ReachInv'
<1>1. AllHalted'
  BY DEF ReachInv, AllHalted
<1>2. LoggersKilled'
  BY DEF ReachInv, LoggersKilled
<1>3. NobodyLeft'
  BY DEF NobodyLeft
<1> QED
  BY <1>1, <1>2, <1>3 DEF ReachInv

\* An exit is reaped during the shutdown; the finish script that may follow is
\* no logger.
LEMMA ReapMainReach ==
    ASSUME LifeInv, ReachInv, NEW p \in Pids, NEW i \in Slots, ReapMain(p, i)
    PROVE  ReachInv'
<1> DEFINE s == services[i]
           P == IF s.log_pid # None /\ s.stopping THEN {s.log_pid} ELSE {}
           reaped == [procs EXCEPT ![p] = NoProc]
           after == Terminated(P, reaped)
<1>0. /\ TypeOK /\ Owned /\ pc = "reap" /\ pc' = "reap" /\ phase' = phase
      /\ s \in Service
      /\ \A j \in Slots : services[j].log_pid \in Pids \cup {None}
  BY DEF LifeInv, Owned, TypeOK, Service, ReapMain
<1>1. PICK f \in FinishOutcomes(s.name, Free \cup {p}) :
          procs' = IF f = None THEN after
                   ELSE [after EXCEPT ![f] = NewProc("finish", s.name)]
  BY DEF ReapMain
<1>2. \A j \in Slots : services[j].log_pid # None =>
          services[j].log_pid \notin {f, p}
  <2>1. f \in {None, p} \cup Free
    BY <1>1 DEF FinishOutcomes, ForkOutcomes
  <2>2. services[i].pid = p
    BY DEF ReapMain
  <2> QED
    BY <1>0, <2>1, <2>2, NobodyFree
<1>3. \A q \in Pids \ {f, p} :
          procs'[q].stage = "run" => procs[q].stage = "run"
  <2>1. DOMAIN after = Pids
        /\ \A q \in Pids \ {p} : after[q].stage = "run"
                                 => procs[q].stage = "run"
    <3>1. \A r \in Proc : [r EXCEPT !.stage = "ending"].stage = "ending"
      BY DEF Proc
    <3>2. reaped \in [Pids -> Proc]
          /\ \A q \in Pids : q # p => reaped[q] = procs[q]
      BY <1>0, NoProcType DEF TypeOK
    <3> HIDE DEF reaped, P
    <3> QED
      BY <3>1, <3>2 DEF Terminated
  <2> HIDE DEF after
  <2> QED
    BY <1>1, <2>1
<1>4. services'[i].pid = None /\ services'[i].log_pid = s.log_pid
      /\ \A j \in Slots : j # i => services'[j] = services[j]
  <2>1. PICK long \in BOOLEAN : \E b :
            services' = [services EXCEPT ![i] =
                [AfterExit(s, long) EXCEPT !.log_stopping = b]]
    BY DEF ReapMain
  <2> QED
    BY <1>0, <2>1, AfterExitOwner DEF TypeOK
<1> HIDE DEF s
<1> QED
  BY <1>0, <1>2, <1>3, <1>4, WaitingReach DEF s

\* The rest of reap_children().
LEMMA ReapReach ==
    ASSUME LifeInv, ReachInv, Reap, phase # "serve"
    PROVE  ReachInv'
<1>0. /\ TypeOK /\ Owned
      /\ \A i \in Slots :
             /\ services[i] \in Service
             /\ services[i].log_pid \in Pids \cup {None}
  BY DEF LifeInv, Owned, TypeOK, Service
<1>1. ASSUME NEW p \in Pids, NEW i \in Slots, ReapLog(p, i) PROVE ReachInv'
  <2>1. /\ services'[i].log_pid = None
        /\ services'[i].pid = services[i].pid
        /\ services'[i].stopping = services[i].stopping
        /\ \A j \in Slots : j # i => services'[j] = services[j]
    BY <1>0, <1>1 DEF ReapLog, TypeOK, Service
  <2>2. \A q \in Pids : procs'[q].stage = "run" => procs[q].stage = "run"
    BY <1>0, <1>1, ForgottenFalls DEF ReapLog, Falls
  <2>3. pc = "reap" /\ pc' = "reap" /\ phase' = phase
    BY <1>1 DEF ReapLog, local_vars
  <2> QED
    BY <1>0, <2>1, <2>2, <2>3, WaitingReach
<1>2. ASSUME NEW p \in Pids, ReapUnknown(p) PROVE ReachInv'
  <2>1. \A q \in Pids : procs'[q].stage = "run" => procs[q].stage = "run"
    BY <1>0, <1>2, ForgottenFalls DEF ReapUnknown, Falls
  <2>2. /\ pc = "reap" /\ pc' = "reap" /\ phase' = phase
        /\ services' = services
    BY <1>2 DEF ReapUnknown, local_vars
  <2> QED
    BY <1>0, <2>1, <2>2, WaitingReach
<1>3. ASSUME ReapEnd \/ LogDeath PROVE ReachInv'
  <2>1. \A q \in Pids : procs'[q].stage = "run" => procs[q].stage = "run"
    BY <1>0, <1>3, KillFalls DEF ReapEnd, LogDeath, Falls, kernel_vars
  <2>2. \A i \in Slots : services'[i] \in {services[i], Halt(services[i])}
    BY <1>3 DEF ReapEnd, LogDeath, stop_transitive_deps
  <2>3. \A s \in Service : /\ Halt(s).stopping /\ Halt(s).pid = s.pid
                           /\ Halt(s).log_pid = s.log_pid
    BY DEF Halt, Service
  <2>4. /\ pc \in {"reap", "logdeath"} /\ pc' \in {"logdeath", "settle"}
        /\ phase' = phase
    BY <1>3 DEF ReapEnd, LogDeath, AfterReap, local_vars
  <2> QED
    BY <1>0, <2>1, <2>2, <2>3, <2>4, WaitingReach
<1> QED
  BY <1>1, <1>2, <1>3, ReapMainReach DEF Reap

\* KILL goes to every logger in the table, and nobody is before setsid().
LEMMA KillRestReach ==
    ASSUME LifeInv, NoSetup, ReachInv, KillRest
    PROVE  ReachInv'
<1>1. /\ services' = services /\ phase = "term" /\ phase' = "kill"
      /\ pc = "settle" /\ pc' = "reap"
  BY DEF KillRest
<1>2. ASSUME NEW i \in Slots, services[i].log_pid # None
      PROVE  procs'[services[i].log_pid].stage # "run"
  <2> DEFINE q == services[i].log_pid
  <2>1. q \in Pids /\ procs[q] \in Proc /\ i \in Tracked
    BY <1>1, <1>2
    DEF LifeInv, Owned, TypeOK, PidsTracked, Tracked, NoProcess, Service
  <2>2. q \in {services[j].log_pid : j \in Tracked} \ {None}
    BY <1>2, <2>1
  <2>3. procs'[q] = IF procs[q].stage \in {"setup", "run"}
                    THEN [procs[q] EXCEPT !.stage = "ending"] ELSE procs[q]
    BY <2>1, <2>2 DEF KillRest
  <2> QED
    BY <2>1, <2>3 DEF Proc
<1> QED
  BY <1>1, <1>2 DEF ReachInv, AllHalted, LoggersKilled, NobodyLeft

\* The table is closed when every main process in it has been sent TERM, and
\* there is no main process that is not in it.
LEMMA CloseAllReach ==
    ASSUME ToldInv, ReachInv, CloseAll
    PROVE  ReachInv'
<1>1. /\ pc = "settle" /\ pc' = "done" /\ procs' = procs
      /\ phase = "kill" /\ phase' = "kill"
  BY DEF CloseAll, kernel_vars, local_vars
<1>2. ASSUME NEW p \in Pids, procs[p].role = "main"
      PROVE  procs[p].stage # "run"
  <2>1. PICK i \in Slots : services[i].pid = p
    BY <1>1, <1>2 DEF ToldInv, LifeInv, Owned, OneInstance, IsMain
  <2>2. services[i].stopping
    BY <1>1, <2>1 DEF ReachInv, AllHalted
  <2> QED
    BY <2>1, <2>2 DEF ToldInv, AllTold
<1> QED
  BY <1>1, <1>2 DEF ReachInv, AllHalted, LoggersKilled, NobodyLeft

\* Children exit, and none begins to run.
LEMMA ElseReach ==
    ASSUME TypeOK, NoSetup, ReachInv, Environment \/ UNCHANGED vars
    PROVE  ReachInv'
<1>1. /\ services' = services /\ phase' = phase /\ pc' = pc
  BY OutsideCourse DEF SameCourse
<1>2. \A p \in Pids : /\ procs'[p].stage = "run" => procs[p].stage = "run"
                      /\ procs'[p].role = procs[p].role
  <2>1. ASSUME NEW q \in Pids, Exit(q)
        PROVE  \A p \in Pids :
                   /\ procs'[p].stage = "run" => procs[p].stage = "run"
                   /\ procs'[p].role = procs[p].role
    <3>1. procs' = [procs EXCEPT ![q].stage = "zombie"]
      BY <2>1 DEF Exit
    <3>2. \A r \in Proc : /\ [r EXCEPT !.stage = "zombie"].stage = "zombie"
                          /\ [r EXCEPT !.stage = "zombie"].role = r.role
      BY DEF Proc
    <3> QED
      BY <3>1, <3>2 DEF TypeOK
  <2> QED
    BY <2>1 DEF NoSetup, Environment, Exec, SendSignal, Touch, kernel_vars,
                vars
<1>3. \A i \in Slots : services[i].log_pid \in Pids \cup {None}
  BY DEF TypeOK, Service
<1> QED
  BY <1>1, <1>2, <1>3 DEF ReachInv, AllHalted, LoggersKilled, NobodyLeft

\* Together.
LEMMA StepReach ==
    ASSUME ToldInv, ToldInv', ReachInv, [Next]_vars
    PROVE  ReachInv'
<1>0. /\ LifeInv /\ TypeOK /\ NoSetup /\ PlaceOK /\ PlaceOK'
      /\ pc \in Locations
  BY DEF ToldInv, LifeInv, Owned, TypeOK
<1>1. CASE phase' = "serve"
  BY <1>0, <1>1, ServingReach DEF PlaceOK
<1>2. CASE phase = "serve" /\ phase' # "serve"
  <2>1. StopAll
    BY <1>2, ReapCourse, ScanCourse, StartCourse, PollCourse, ServeCourse,
       ShutdownCourse, OutsideCourse
    DEF Next, Supervise, Terminating, SameCourse
  <2> QED
    BY <1>0, <2>1, StopAllReach
<1>3. CASE phase # "serve" /\ phase' # "serve"
  <2>1. pc \in {"reap", "logdeath", "settle", "done"}
    BY <1>0, <1>3 DEF PlaceOK, Locations
  <2>2. Reap \/ SettleAgain \/ KillRest \/ CloseAll \/ Environment
        \/ UNCHANGED vars
    BY <2>1, ScanCourse, StartCourse, PollCourse, ServeCourse, ShutdownCourse
    DEF Next, Supervise, Terminating
  <2>3. CASE SettleAgain
    <3>1. /\ services' = services /\ procs' = procs /\ phase' = phase
          /\ pc = "settle" /\ pc' = "reap"
      BY <2>3 DEF SettleAgain, local_vars, kernel_vars
    <3> QED
      BY <1>0, <3>1, WaitingReach
  <2> QED
    BY <1>0, <1>3, <2>2, <2>3, ReapReach, KillRestReach, CloseAllReach,
       ElseReach
<1> QED
  BY <1>1, <1>2, <1>3

\* The shutdown reaches everybody: once stop_all_in_order() has returned every
\* main process in the table has been sent TERM, after the KILL pass no logger
\* in it runs, and main() returns with no main process running, in the table or
\* not, whatever exits, echoes and commands came before.
THEOREM ShutdownIsComplete == ~SlowExec => (Spec => []ShutdownReachesAll)
<1> SUFFICES ASSUME ~SlowExec PROVE Spec => []ShutdownReachesAll
  OBVIOUS
<1>1. Init => ReachInv
  BY DEF Init, ReachInv, AllHalted, LoggersKilled, NobodyLeft
<1>2. ToldInv /\ ToldInv' /\ ReachInv /\ [Next]_vars => ReachInv'
  BY StepReach
<1>3. ToldInv /\ ReachInv => ShutdownReachesAll
  BY DEF ToldInv, AllTold, ReachInv, AllHalted, LoggersKilled, NobodyLeft,
         ShutdownReachesAll
<1> QED
  BY <1>1, <1>2, <1>3, ToldAlways, PTL DEF Spec

=============================================================================
