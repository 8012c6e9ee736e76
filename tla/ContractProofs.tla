---------------------------- MODULE ContractProofs ----------------------------
(***************************************************************************)
(* Supervisor implements ServiceContract, for every table, dependency      *)
(* graph and set of commands.  Most steps leave the view of the contract   *)
(* as it is or tell some services to go (SlotsKept); the other ones are    *)
(* taken one by one.  The last section is about services given up.         *)
(***************************************************************************)
EXTENDS SupervisorContract, OwnershipProofs, StateProofs

USE MaxServicesAssumption, NoneAssumption DEF Slots

-----------------------------------------------------------------------------
(* What a step does to a slot in the eyes of the contract.                 *)

\* t has become u: it is the same service, has a process if it had one, is
\* given up if it was, and if its state has changed it is told to go.
SlotKept(u, t) ==
    /\ u.active = t.active /\ u.name = t.name
    /\ u.pid = t.pid
    /\ u.restart_at = "never" <=> t.restart_at = "never"
    /\ t.pid # None => u.state \in {t.state, "STOPPING"}
    /\ u.state = "RUNNING" => t.state = "RUNNING"

SlotsKept == \A i \in Slots : SlotKept(services'[i], services[i])

\* The places of the main loop, and those of the shutdown only.
PlaceOK ==
    /\ pc \in {"scan", "readdir", "missing", "start", "signals", "control",
               "client", "check", "stopall"} => phase = "serve"
    /\ pc \in {"settle", "done"} => phase # "serve"

\* A service is given up when its process has ended, not before.
BarredOK ==
    \A i \in Slots : services[i].restart_at = "never" => services[i].pid = None

\* Nobody runs once the shutdown has begun.
StoppedOK ==
    phase # "serve" =>
        \A i \in Slots : ~(services[i].active /\ services[i].state = "RUNNING")

LifeInv == /\ Owned /\ AllSound
           /\ PlaceOK /\ BarredOK /\ StoppedOK

\* What has to be shown of a step.
StepKept == /\ [Contract!ContractNext]_(Contract!cvars)
            /\ BarredOK' /\ StoppedOK'

\* What the helpers make of a slot.
LEMMA KeptByHalting ==
    ASSUME NEW s \in Service
    PROVE  /\ SlotKept(s, s)
           /\ SlotKept(Halt(s), s) /\ SlotKept(HaltWithLog(s), s)
           /\ SlotKept([HaltWithLog(s) EXCEPT !.manual_start = TRUE], s)
           /\ SlotKept([HaltWithLog(s) EXCEPT !.auto_start = FALSE], s)
BY DEF SlotKept, Halt, HaltWithLog, Service, States

\* Marking the logger as told to go.
LEMMA KeptByLogMark ==
    ASSUME NEW s, NEW t \in Service, NEW b, SlotKept(t, s)
    PROVE  SlotKept([t EXCEPT !.log_stopping = b], s)
BY DEF SlotKept, Service

\* The fields the contract does not look at.
LEMMA KeptByMarking ==
    ASSUME NEW s \in Service
    PROVE  /\ SlotKept([s EXCEPT !.present = FALSE], s)
           /\ SlotKept([s EXCEPT !.present = TRUE, !.stopping = FALSE], s)
           /\ SlotKept([s EXCEPT !.log_pid = None, !.log_stopping = FALSE], s)
           /\ SlotKept([s EXCEPT !.auto_start = FALSE], s)
           /\ SlotKept([s EXCEPT !.once = TRUE], s)
           /\ s.restart_at # "never"
              => SlotKept([s EXCEPT !.restart_at = "later"], s)
BY DEF SlotKept, Service, States

\* A start without a process.
LEMMA KeptByFailedStart ==
    ASSUME NEW s \in Service, s.pid = None, s.restart_at # "never",
           NEW log \in Pids \cup {None}
    PROVE  SlotKept(WithMain(WithLogger(s, log), None), s)
<1> DEFINE t == WithLogger(s, log)
<1>1. /\ t \in Service /\ t.active = s.active /\ t.name = s.name
      /\ t.pid = s.pid
  <2> DEFINE Like(u) == u \in Service /\ u.active = s.active
                        /\ u.name = s.name /\ u.pid = s.pid
  <2>1. Like(s)
    OBVIOUS
  <2>2. Like([s EXCEPT !.has_log = FALSE])
    BY DEF Service
  <2>3. Like([s EXCEPT !.log_pid = log, !.log_stopping = FALSE])
    BY DEF Service
  <2> HIDE DEF Like
  <2>4. Like(t)
    BY <2>1, <2>2, <2>3 DEF WithLogger
  <2> QED
    BY <2>4 DEF Like
<1>2. WithMain(t, None) = [t EXCEPT !.state = "FAILED", !.restart_at = "later"]
  BY DEF WithMain
<1> HIDE DEF t
<1>3. SlotKept([t EXCEPT !.state = "FAILED", !.restart_at = "later"], s)
  BY <1>1 DEF SlotKept, Service
<1> QED
  BY <1>2, <1>3 DEF t

\* No two slots have one name: the slot of a service is the only one.
LEMMA OnlySlot ==
    ASSUME Owned, NEW n, NEW i \in Slots, NEW j \in Slots,
           Named(n, i), Named(n, j)
    PROVE  i = j
BY DEF Owned, OneInstance, Named

-----------------------------------------------------------------------------
(* Steps that tell some to go, or nobody.                                  *)

\* Such a step is Leave, of nobody if need be.
LEMMA KeptIsLeave ==
    ASSUME Owned, SlotsKept
    PROVE  /\ Leaving' = Leaving \cup (Alive \ Alive')
           /\ Alive' \subseteq Alive /\ Barred' = Barred
<1>1. \A n \in Names, i \in Slots :
          /\ Named(n, i)' <=> Named(n, i)
          /\ services'[i].pid = services[i].pid
          /\ services'[i].restart_at = "never"
             <=> services[i].restart_at = "never"
          /\ services'[i].state = "RUNNING" => services[i].state = "RUNNING"
          /\ services[i].pid # None
             => services'[i].state \in {services[i].state, "STOPPING"}
  BY DEF SlotsKept, SlotKept, Named
<1>2. Barred' = Barred
  BY <1>1 DEF Barred
<1>3. Alive' \subseteq Alive
  BY <1>1 DEF Alive
<1>4. ASSUME NEW n \in Leaving' PROVE n \in Leaving \cup (Alive \ Alive')
  <2>1. PICK i \in Slots : /\ Named(n, i)' /\ services'[i].pid # None
                           /\ services'[i].state # "RUNNING"
    BY <1>4 DEF Leaving
  <2>2. n \in Names
    BY <1>4 DEF Leaving
  <2>3. CASE services[i].state # "RUNNING"
    BY <1>1, <2>1, <2>2, <2>3 DEF Leaving
  <2>4. CASE services[i].state = "RUNNING"
    <3>1. n \in Alive
      BY <1>1, <2>1, <2>2, <2>4 DEF Alive
    <3>2. n \notin Alive'
      BY <1>1, <2>1, <2>2, OnlySlot DEF Alive
    <3> QED
      BY <3>1, <3>2
  <2> QED
    BY <2>3, <2>4
<1>5. ASSUME NEW n \in Leaving PROVE n \in Leaving'
  <2>1. PICK i \in Slots : /\ Named(n, i) /\ services[i].pid # None
                           /\ services[i].state # "RUNNING"
    BY <1>5 DEF Leaving
  <2>2. n \in Names
    BY <1>5 DEF Leaving
  <2> QED
    BY <1>1, <2>1, <2>2 DEF Leaving
<1>6. ASSUME NEW n \in Alive \ Alive' PROVE n \in Leaving'
  <2>1. PICK i \in Slots : /\ Named(n, i) /\ services[i].pid # None
                           /\ services[i].state = "RUNNING"
    BY <1>6 DEF Alive
  <2>2. n \in Names
    BY <1>6 DEF Alive
  <2>3. services'[i].state # "RUNNING"
    BY <1>1, <1>6, <2>1, <2>2 DEF Alive
  <2> QED
    BY <1>1, <2>1, <2>2, <2>3 DEF Leaving
<1> QED
  BY <1>2, <1>3, <1>4, <1>5, <1>6

\* While the supervisor serves, or while it shuts down, it is Leave.
LEMMA KeptStep ==
    ASSUME Owned, SlotsKept, phase = "serve" <=> phase' = "serve"
    PROVE  [Contract!ContractNext]_(Contract!cvars)
<1> DEFINE S == Alive \ Alive'
<1>1. S \in SUBSET Names
  BY DEF Alive
<1>2. Alive' = Alive \ S /\ Leaving' = Leaving \cup S /\ Barred' = Barred
      /\ S \subseteq Alive
  BY KeptIsLeave
<1>3. (phase = "serve")' = (phase = "serve")
  OBVIOUS
<1> HIDE DEF S
<1>4. Contract!Leave(S)
  BY <1>2, <1>3 DEF Contract!Leave
<1> QED
  BY <1>1, <1>4 DEF Contract!ContractNext

\* And it keeps what LifeInv says of the table.
LEMMA KeptLife ==
    ASSUME Owned, BarredOK, StoppedOK, SlotsKept,
           phase = "serve" => phase' = "serve"
    PROVE  BarredOK' /\ StoppedOK'
BY DEF SlotsKept, SlotKept, BarredOK, StoppedOK

Quiet == SlotsKept /\ (phase = "serve" <=> phase' = "serve")

\* A step that leaves the table alone.
LEMMA UntouchedKept ==
    ASSUME TypeOK, UNCHANGED services
    PROVE  SlotsKept
BY KeptByHalting DEF SlotsKept, TypeOK

\* A cascade tells its services to go.
LEMMA CascadeKept ==
    ASSUME TypeOK, NEW i \in Slots
    PROVE  SlotKept(stop_transitive_deps(services)[i], services[i])
BY KeptByHalting DEF stop_transitive_deps, TypeOK

\* A step that changes one slot.
LEMMA OneSlotKept ==
    ASSUME TypeOK, NEW i \in Slots, NEW t, SlotKept(t, services[i]),
           \A j \in Slots : services'[j] = IF j = i THEN t ELSE services[j]
    PROVE  SlotsKept
BY KeptByHalting DEF SlotsKept, TypeOK

\* What reap_children() does besides the exit of a main process.
LEMMA ReapQuiet ==
    ASSUME TypeOK,
           \/ \E p \in Pids, i \in Slots : ReapLog(p, i)
           \/ \E p \in Pids : ReapUnknown(p)
           \/ ReapEnd \/ LogDeath
    PROVE  Quiet
<1>0. \A i \in Slots : services[i] \in Service
  BY DEF TypeOK
<1>1. ASSUME NEW p \in Pids, NEW i \in Slots, ReapLog(p, i) PROVE Quiet
  <2>1. \A j \in Slots : services'[j] =
            IF j = i THEN [services[i] EXCEPT !.log_pid = None,
                                              !.log_stopping = FALSE]
            ELSE services[j]
    BY <1>1 DEF ReapLog, TypeOK
  <2>2. SlotKept([services[i] EXCEPT !.log_pid = None,
                                     !.log_stopping = FALSE], services[i])
    BY <1>0, KeptByMarking
  <2>3. SlotsKept
    BY <2>1, <2>2, OneSlotKept
  <2> QED
    BY <1>1, <2>3 DEF ReapLog, Quiet, local_vars
<1>2. ASSUME NEW p \in Pids, ReapUnknown(p) PROVE Quiet
  BY <1>2, UntouchedKept DEF ReapUnknown, Quiet, local_vars
<1>3. ASSUME ReapEnd PROVE Quiet
  <2>1. CASE stop_deps
    BY <1>3, <2>1, CascadeKept DEF ReapEnd, Quiet, SlotsKept
  <2>2. CASE ~stop_deps
    BY <1>3, <2>2, UntouchedKept DEF ReapEnd, Quiet
  <2> QED
    BY <2>1, <2>2
<1>4. ASSUME LogDeath PROVE Quiet
  BY <1>0, <1>4, KeptByHalting DEF LogDeath, Quiet, SlotsKept, local_vars
<1> QED
  BY <1>1, <1>2, <1>3, <1>4

\* What a scan does besides adding and dropping services.
LEMMA ScanQuiet ==
    ASSUME TypeOK,
           \/ SkipScan \/ OpendirFails \/ Opendir \/ Closedir
           \/ \E n \in Names : PassEntry(n)
           \/ \E n \in Names, i \in Slots : FindEntry(n, i)
           \/ KeepService \/ StopMissing
    PROVE  Quiet
<1>0. \A i \in Slots : services[i] \in Service
  BY DEF TypeOK
<1>1. ASSUME SkipScan \/ OpendirFails \/ Closedir \/ KeepService PROVE Quiet
  BY <1>1, UntouchedKept
  DEF SkipScan, OpendirFails, Closedir, KeepService, Quiet, local_vars
<1>2. ASSUME NEW n \in Names, PassEntry(n) PROVE Quiet
  BY <1>2, UntouchedKept DEF PassEntry, Quiet
<1>3. ASSUME Opendir PROVE Quiet
  BY <1>0, <1>3, KeptByHalting, KeptByMarking DEF Opendir, Quiet, SlotsKept
<1>4. ASSUME NEW n \in Names, NEW i \in Slots, FindEntry(n, i) PROVE Quiet
  <2>1. \A j \in Slots : services'[j] =
            IF j = i THEN [services[i] EXCEPT !.present = TRUE,
                                              !.stopping = FALSE]
            ELSE services[j]
    BY <1>4 DEF FindEntry, TypeOK
  <2>2. SlotKept([services[i] EXCEPT !.present = TRUE, !.stopping = FALSE],
                 services[i])
    BY <1>0, KeptByMarking
  <2>3. SlotsKept
    BY <2>1, <2>2, OneSlotKept
  <2> QED
    BY <1>4, <2>3 DEF FindEntry, Quiet
<1>5. ASSUME StopMissing PROVE Quiet
  <2> DEFINE s == services[cursor]
             main == s.pid # None /\ ~s.stopping
             log == s.log_pid # None /\ ~s.log_stopping
             C == IF main THEN Doomed(services) ELSE {}
             T == [i \in Slots |->
                      IF i \in C \/ (i = cursor /\ main)
                      THEN Halt(services[i]) ELSE services[i]]
  <2>1. services' = [T EXCEPT ![cursor].log_stopping = (@ \/ log)]
        /\ phase' = phase
    BY <1>5 DEF StopMissing
  <2>2. \A i \in Slots : T[i] \in Service /\ SlotKept(T[i], services[i])
    BY <1>0, HaltType, KeptByHalting
  <2>4. DOMAIN T = Slots
    OBVIOUS
  <2> HIDE DEF T, log
  <2>5. \A i \in Slots : SlotKept(services'[i], services[i])
    <3> SUFFICES ASSUME NEW i \in Slots
                 PROVE  SlotKept(services'[i], services[i])
      OBVIOUS
    <3>1. CASE i = cursor
      <4>1. services'[i] =
                [T[i] EXCEPT !.log_stopping = (T[cursor].log_stopping \/ log)]
        BY <2>1, <2>4, <3>1
      <4> QED
        BY <2>2, <4>1, KeptByLogMark
    <3>2. CASE i # cursor
      <4>1. services'[i] = T[i]
        BY <2>1, <2>4, <3>2
      <4> QED
        BY <2>2, <4>1
    <3> QED
      BY <3>1, <3>2
  <2> QED
    BY <2>1, <2>5 DEF Quiet, SlotsKept
<1> QED
  BY <1>1, <1>2, <1>3, <1>4, <1>5

\* The commands besides start and up.
LEMMA ServeQuiet ==
    ASSUME TypeOK,
           \/ \E n \in Names, i \in Slots :
                 \/ CmdStop(n, i) \/ CmdRestart(n, i) \/ CmdDown(n, i)
                 \/ CmdOnce(n, i) \/ CmdSignal(n, i) \/ CmdCheck(n, i)
           \/ CmdReload \/ Query
           \/ \E c \in Pids : CheckDone(c)
    PROVE  Quiet
<1>0. \A i \in Slots : services[i] \in Service
  BY DEF TypeOK
<1>1. ASSUME NEW n \in Names, NEW i \in Slots, CmdStop(n, i) PROVE Quiet
  <2> DEFINE T == stop_transitive_deps(services)
  <2>1. /\ services' = [T EXCEPT ![i] = HaltWithLog(T[i])]
        /\ phase' = phase
    BY <1>1 DEF CmdStop, local_vars
  <2>2. DOMAIN T = Slots
        /\ \A j \in Slots : T[j] = Halt(services[j]) \/ T[j] = services[j]
    BY DEF stop_transitive_deps
  <2> HIDE DEF T
  <2>3. SlotKept(HaltWithLog(T[i]), services[i])
    <3>1. SlotKept(HaltWithLog(Halt(services[i])), services[i])
      BY <1>0 DEF SlotKept, Halt, HaltWithLog, Service
    <3> QED
      BY <1>0, <2>2, <3>1, KeptByHalting
  <2>4. \A j \in Slots : SlotKept(T[j], services[j])
    BY <1>0, <2>2, KeptByHalting
  <2> QED
    BY <2>1, <2>2, <2>3, <2>4 DEF Quiet, SlotsKept
<1>2. ASSUME NEW n \in Names, NEW i \in Slots, CmdRestart(n, i) PROVE Quiet
  <2>1. \A j \in Slots : services'[j] =
            IF j = i
            THEN [HaltWithLog(services[i]) EXCEPT !.manual_start = TRUE]
            ELSE services[j]
    BY <1>2 DEF CmdRestart, TypeOK
  <2> QED
    BY <1>0, <1>2, <2>1, KeptByHalting
    DEF CmdRestart, Quiet, SlotsKept, local_vars
<1>3. ASSUME NEW n \in Names, NEW i \in Slots, CmdDown(n, i) PROVE Quiet
  <2>1. \A j \in Slots : services'[j] =
            IF j # i THEN services[j]
            ELSE IF services[i].pid = None
            THEN [services[i] EXCEPT !.auto_start = FALSE]
            ELSE [HaltWithLog(services[i]) EXCEPT !.auto_start = FALSE]
    BY <1>3 DEF CmdDown, TypeOK
  <2>2. /\ SlotKept([services[i] EXCEPT !.auto_start = FALSE], services[i])
        /\ SlotKept([HaltWithLog(services[i]) EXCEPT !.auto_start = FALSE],
                    services[i])
    BY <1>0, KeptByHalting, KeptByMarking
  <2>3. SlotsKept
    BY <1>0, <2>1, <2>2, KeptByHalting DEF SlotsKept
  <2> QED
    BY <1>3, <2>3 DEF CmdDown, Quiet, local_vars
<1>4. ASSUME NEW n \in Names, NEW i \in Slots, CmdOnce(n, i) PROVE Quiet
  <2>1. \A j \in Slots : services'[j] =
            IF j = i THEN [services[i] EXCEPT !.once = TRUE] ELSE services[j]
    BY <1>4 DEF CmdOnce, TypeOK
  <2>2. SlotKept([services[i] EXCEPT !.once = TRUE], services[i])
    BY <1>0, KeptByMarking
  <2>3. SlotsKept
    BY <2>1, <2>2, OneSlotKept
  <2> QED
    BY <1>4, <2>3 DEF CmdOnce, Quiet, local_vars
<1>5. ASSUME NEW n \in Names, NEW i \in Slots,
             CmdSignal(n, i) \/ CmdCheck(n, i)
      PROVE  Quiet
  BY <1>5, UntouchedKept DEF CmdSignal, CmdCheck, Quiet, local_vars
<1>6. ASSUME CmdReload \/ Query PROVE Quiet
  BY <1>6, UntouchedKept DEF CmdReload, Query, Quiet, local_vars
<1>7. ASSUME NEW c \in Pids, CheckDone(c) PROVE Quiet
  BY <1>7, UntouchedKept DEF CheckDone, Quiet, local_vars
<1> QED
  BY <1>1, <1>2, <1>3, <1>4, <1>5, <1>6, <1>7

-----------------------------------------------------------------------------
(* Steps that change what one service is to the contract.                  *)

\* The slot of a service tells all about it.
LEMMA ViewOfSlot ==
    ASSUME Owned, NEW i \in Slots, services[i].active,
           services[i].name \in Names
    PROVE  LET n == services[i].name
           IN  /\ n \in Alive <=> /\ services[i].pid # None
                                  /\ services[i].state = "RUNNING"
               /\ n \in Leaving <=> /\ services[i].pid # None
                                    /\ services[i].state # "RUNNING"
               /\ n \in Barred <=> services[i].restart_at = "never"
<1> DEFINE n == services[i].name
<1>1. Named(n, i) /\ \A j \in Slots : Named(n, j) => j = i
  BY OnlySlot DEF Named
<1> QED
  BY <1>1 DEF Alive, Leaving, Barred

\* The slot of a service becomes t, of the same name or empty: the contract
\* sees t and no change in any other service.
LEMMA ViewOfStep ==
    ASSUME Owned, NEW i \in Slots, services[i].active,
           NEW t, t.name = services[i].name,
           \A j \in Slots : services'[j] = IF j = i THEN t ELSE services[j],
           NEW n \in Names
    PROVE  /\ n \in Alive' <=>
                  IF n = services[i].name
                  THEN t.active /\ t.pid # None /\ t.state = "RUNNING"
                  ELSE n \in Alive
           /\ n \in Leaving' <=>
                  IF n = services[i].name
                  THEN t.active /\ t.pid # None /\ t.state # "RUNNING"
                  ELSE n \in Leaving
           /\ n \in Barred' <=>
                  IF n = services[i].name
                  THEN t.active /\ t.restart_at = "never"
                  ELSE n \in Barred
<1>1. CASE n = services[i].name
  <2>1. \A j \in Slots : Named(n, j)' <=> j = i /\ t.active
    BY <1>1, OnlySlot DEF Named
  <2>2. services'[i] = t
    OBVIOUS
  <2> QED
    BY <1>1, <2>1, <2>2 DEF Alive, Leaving, Barred
<1>2. CASE n # services[i].name
  <2>1. \A j \in Slots : /\ Named(n, j)' <=> Named(n, j)
                         /\ Named(n, j) => services'[j] = services[j]
    BY <1>2 DEF Named
  <2> QED
    BY <1>2, <2>1 DEF Alive, Leaving, Barred
<1> QED
  BY <1>1, <1>2

\* The state of the last process of a service, and its end.
LEMMA ExitView ==
    ASSUME NEW s \in Service, NEW long, NEW b
    PROVE  LET t == [AfterExit(s, long) EXCEPT !.log_stopping = b]
           IN  /\ t.active = s.active /\ t.name = s.name /\ t.pid = None
               /\ t.state # "RUNNING"
BY DEF AfterExit, Service

\* The exit of a main process is Gone.
LEMMA ReapMainStep ==
    ASSUME LifeInv, NEW p \in Pids, NEW i \in Slots, ReapMain(p, i)
    PROVE  StepKept
<1> DEFINE s == services[i]
<1>1. /\ s \in Service /\ s.active /\ s.pid = p /\ p # None
      /\ phase' = phase
  BY DEF LifeInv, Owned, TypeOK, ReapMain
<1>2. PICK long \in BOOLEAN :
          services' = [services EXCEPT ![i] =
              [AfterExit(s, long) EXCEPT
                   !.log_stopping = (@ \/ (s.log_pid # None /\ s.stopping))]]
  BY DEF ReapMain
<1> DEFINE b == AfterExit(s, long).log_stopping
                \/ (s.log_pid # None /\ s.stopping)
           t == [AfterExit(s, long) EXCEPT !.log_stopping = b]
<1>3. \A j \in Slots : services'[j] = IF j = i THEN t ELSE services[j]
  BY <1>2 DEF LifeInv, Owned, TypeOK
<1>4. /\ t.active = s.active /\ t.name = s.name /\ t.pid = None
      /\ t.state # "RUNNING"
  BY <1>1, ExitView
<1> HIDE DEF t, b
<1>5. BarredOK' /\ StoppedOK'
  BY <1>1, <1>3, <1>4 DEF LifeInv, BarredOK, StoppedOK
<1>6. /\ Alive' = Alive \ {s.name} /\ Leaving' = Leaving \ {s.name}
      /\ Barred' \in {Barred, Barred \cup {s.name}}
  <2>1. \A n \in Names :
            /\ n \in Alive' <=> n \in Alive /\ n # s.name
            /\ n \in Leaving' <=> n \in Leaving /\ n # s.name
            /\ n \in Barred' <=> IF n = s.name THEN t.restart_at = "never"
                                 ELSE n \in Barred
    <3> SUFFICES ASSUME NEW n \in Names
                 PROVE  /\ n \in Alive' <=> n \in Alive /\ n # s.name
                        /\ n \in Leaving' <=> n \in Leaving /\ n # s.name
                        /\ n \in Barred' <=> IF n = s.name
                                             THEN t.restart_at = "never"
                                             ELSE n \in Barred
      OBVIOUS
    <3>1. Owned
      BY DEF LifeInv
    <3>2. /\ n \in Alive' <=> IF n = s.name
                              THEN t.active /\ t.pid # None
                                   /\ t.state = "RUNNING"
                              ELSE n \in Alive
          /\ n \in Leaving' <=> IF n = s.name
                                THEN t.active /\ t.pid # None
                                     /\ t.state # "RUNNING"
                                ELSE n \in Leaving
          /\ n \in Barred' <=> IF n = s.name
                               THEN t.active /\ t.restart_at = "never"
                               ELSE n \in Barred
      BY <1>1, <1>3, <1>4, <3>1, ViewOfStep
    <3> QED
      BY <1>1, <1>4, <3>2
  <2>2. s.name \in Names => s.name \notin Barred
    BY <1>1, ViewOfSlot DEF LifeInv, BarredOK
  <2>3. /\ Alive \subseteq Names /\ Alive' \subseteq Names
        /\ Leaving \subseteq Names /\ Leaving' \subseteq Names
        /\ Barred \subseteq Names /\ Barred' \subseteq Names
    BY DEF Alive, Leaving, Barred
  <2>4. Alive' = Alive \ {s.name} /\ Leaving' = Leaving \ {s.name}
    BY <2>1, <2>3
  <2>5. CASE s.name \in Names /\ t.restart_at = "never"
    BY <2>1, <2>3, <2>4, <2>5
  <2>6. CASE ~(s.name \in Names /\ t.restart_at = "never")
    <3>1. Barred' = Barred
      BY <2>1, <2>2, <2>3, <2>6
    <3> QED
      BY <2>4, <3>1
  <2> QED
    BY <2>5, <2>6
<1>7. CASE s.name \in Names
  <2>1. s.name \in Alive \cup Leaving
    BY <1>1, <1>7, ViewOfSlot DEF LifeInv
  <2>2. Contract!Gone(s.name)
    BY <1>1, <1>6, <2>1 DEF Contract!Gone
  <2> QED
    BY <1>5, <1>7, <2>2 DEF Contract!ContractNext, StepKept
<1>8. CASE s.name \notin Names
  <2>1. Alive' = Alive /\ Leaving' = Leaving /\ Barred' = Barred
    BY <1>6, <1>8 DEF Alive, Leaving, Barred
  <2> QED
    BY <1>1, <1>5, <2>1 DEF Contract!cvars, StepKept
<1> QED
  BY <1>7, <1>8

\* A directory that is added has no process and is not given up: the contract
\* does not see it.
LEMMA AddEntryStep ==
    ASSUME LifeInv, NEW n \in Names, NEW i \in Slots, AddEntry(n, i)
    PROVE  StepKept
<1>1. /\ \A j \in Slots : services'[j] =
             IF j = i THEN NewService(n) ELSE services[j]
      /\ ~services[i].active /\ phase' = phase
  BY DEF AddEntry, FirstUnused, LifeInv, Owned, TypeOK
<1>2. /\ NewService(n).pid = None /\ NewService(n).restart_at = "due"
      /\ NewService(n).state = "DOWN"
  BY DEF NewService, SERVICE_EMPTY
<1>3. BarredOK' /\ StoppedOK'
  BY <1>1, <1>2 DEF LifeInv, BarredOK, StoppedOK
<1>4. \A m \in Names : \A j \in Slots :
          /\ j # i => /\ services'[j] = services[j]
                      /\ Named(m, j)' <=> Named(m, j)
          /\ ~Named(m, i)
          /\ services'[i].pid = None /\ services'[i].restart_at = "due"
  BY <1>1, <1>2 DEF Named
<1>5. Alive' = Alive
  BY <1>4 DEF Alive
<1>6. Leaving' = Leaving
  BY <1>4 DEF Leaving
<1>7. Barred' = Barred
  BY <1>4 DEF Barred
<1> QED
  BY <1>1, <1>3, <1>5, <1>6, <1>7 DEF Contract!cvars, StepKept

\* A step after which a service without a process is not given up, if it was,
\* is Revive or a stutter.
LEMMA ReviveStep ==
    ASSUME LifeInv, NEW i \in Slots, services[i].active, phase = "serve",
           phase' = phase, NEW t, t.name = services[i].name,
           \A j \in Slots : services'[j] = IF j = i THEN t ELSE services[j],
           t.active = services[i].active \/ services[i].pid = None,
           t.pid = services[i].pid,
           t.pid # None => t.state = services[i].state,
           t.active => t.restart_at # "never"
    PROVE  [Contract!ContractNext]_(Contract!cvars)
<1> DEFINE n == services[i].name
<1>1. \A m \in Names :
          /\ m \in Alive' <=> m \in Alive
          /\ m \in Leaving' <=> m \in Leaving
          /\ m \in Barred' <=> m \in Barred /\ m # n
  <2> SUFFICES ASSUME NEW m \in Names
               PROVE  /\ m \in Alive' <=> m \in Alive
                      /\ m \in Leaving' <=> m \in Leaving
                      /\ m \in Barred' <=> m \in Barred /\ m # n
    OBVIOUS
  <2>1. CASE m = n
    <3>1. /\ m \in Alive' <=> t.active /\ t.pid # None /\ t.state = "RUNNING"
          /\ m \in Leaving' <=>
                 t.active /\ t.pid # None /\ t.state # "RUNNING"
          /\ m \notin Barred'
      BY <2>1, ViewOfStep DEF LifeInv
    <3>2. /\ m \in Alive <=> /\ services[i].pid # None
                             /\ services[i].state = "RUNNING"
          /\ m \in Leaving <=> /\ services[i].pid # None
                               /\ services[i].state # "RUNNING"
      BY <2>1, ViewOfSlot DEF LifeInv
    <3> QED
      BY <2>1, <3>1, <3>2
  <2>2. CASE m # n
    BY <2>2, ViewOfStep DEF LifeInv
  <2> QED
    BY <2>1, <2>2
<1>2. Alive' = Alive /\ Leaving' = Leaving /\ Barred' = Barred \ {n}
  <2>1. /\ Alive \subseteq Names /\ Alive' \subseteq Names
        /\ Leaving \subseteq Names /\ Leaving' \subseteq Names
        /\ Barred \subseteq Names /\ Barred' \subseteq Names
    BY DEF Alive, Leaving, Barred
  <2> QED
    BY <1>1, <2>1
<1>3. CASE n \in Barred
  <2>1. n \in Names
    BY <1>3 DEF Barred
  <2>2. Contract!Revive(n)
    BY <1>2, <1>3 DEF Contract!Revive
  <2> QED
    BY <2>1, <2>2 DEF Contract!ContractNext
<1>4. CASE n \notin Barred
  <2>1. Barred' = Barred
    BY <1>2, <1>4
  <2> QED
    BY <1>2, <2>1 DEF Contract!cvars
<1> QED
  BY <1>3, <1>4

\* A directory that is gone takes what was known of its service with it.
LEMMA DropServiceStep ==
    ASSUME LifeInv, DropService
    PROVE  StepKept
<1> DEFINE s == services[cursor]
           t == [s EXCEPT !.active = FALSE, !.state = "DOWN"]
<1>1. /\ s \in Service /\ s.active /\ s.pid = None /\ cursor \in Slots
      /\ phase' = phase /\ phase = "serve"
      /\ \A j \in Slots : services'[j] =
             IF j = cursor THEN t ELSE services[j]
  BY DEF LifeInv, Owned, TypeOK, DropService, Missing, NoProcess, PlaceOK
<1>2. /\ ~t.active /\ t.name = s.name /\ t.pid = None /\ t.state = "DOWN"
      /\ t.restart_at = s.restart_at
  BY <1>1 DEF Service
<1> HIDE DEF t
<1>3. BarredOK' /\ StoppedOK'
  BY <1>1, <1>2 DEF LifeInv, BarredOK, StoppedOK
<1> QED
  BY <1>1, <1>2, <1>3, ReviveStep DEF StepKept

\* The operator starts it again.
LEMMA CommandStep ==
    ASSUME LifeInv, NEW n \in Names, NEW i \in Slots,
           CmdStart(n, i) \/ CmdUp(n, i)
    PROVE  StepKept
<1> DEFINE s == services[i]
           t == IF CmdStart(n, i)
                THEN [s EXCEPT !.manual_start = TRUE, !.restart_at = "due",
                               !.stopping = FALSE]
                ELSE [s EXCEPT !.auto_start = TRUE, !.restart_at = "due",
                               !.stopping = FALSE]
<1>1. /\ s \in Service /\ s.active /\ phase' = phase /\ phase = "serve"
  BY DEF LifeInv, Owned, TypeOK, CmdStart, CmdUp, Named, PlaceOK, Receive,
         local_vars
<1>2. \A j \in Slots : services'[j] = IF j = i THEN t ELSE services[j]
  BY DEF LifeInv, Owned, TypeOK, CmdStart, CmdUp
<1>3. /\ t.active /\ t.name = s.name /\ t.pid = s.pid /\ t.state = s.state
      /\ t.restart_at = "due"
  BY <1>1 DEF Service
<1> HIDE DEF t
<1>4. BarredOK' /\ StoppedOK'
  BY <1>1, <1>2, <1>3 DEF LifeInv, BarredOK, StoppedOK
<1> QED
  BY <1>1, <1>2, <1>3, <1>4, ReviveStep DEF StepKept

\* What a start makes of a slot.
LEMMA StartedView ==
    ASSUME NEW s \in Service, NEW log \in Pids \cup {None}, NEW main \in Pids
    PROVE  LET t == WithMain(WithLogger(s, log), main)
           IN  /\ t.active = s.active /\ t.name = s.name /\ t.pid = main
               /\ t.state = "RUNNING" /\ t.restart_at = s.restart_at
<1> DEFINE u == WithLogger(s, log)
           Like(x) == /\ x \in Service /\ x.active = s.active
                      /\ x.name = s.name /\ x.restart_at = s.restart_at
<1>1. Like(s)
  OBVIOUS
<1>2. Like([s EXCEPT !.has_log = FALSE])
  BY DEF Service
<1>3. Like([s EXCEPT !.log_pid = log, !.log_stopping = FALSE])
  BY DEF Service
<1> HIDE DEF Like
<1>4. Like(u)
  BY <1>1, <1>2, <1>3 DEF WithLogger
<1> HIDE DEF u
<1>5. WithMain(u, main) =
          [u EXCEPT !.pid = main, !.state = "RUNNING", !.manual_start = FALSE]
  BY DEF WithMain
<1>6. u \in Service /\ u.active = s.active /\ u.name = s.name
      /\ u.restart_at = s.restart_at
  BY <1>4 DEF Like
<1>7. LET t == [u EXCEPT !.pid = main, !.state = "RUNNING",
                         !.manual_start = FALSE]
      IN  /\ t.active = s.active /\ t.name = s.name /\ t.pid = main
          /\ t.state = "RUNNING" /\ t.restart_at = s.restart_at
  BY <1>6 DEF Service
<1> QED
  BY <1>5, <1>7 DEF u

\* With all its dependencies running, they are alive.
LEMMA DepsAlive ==
    ASSUME Owned, AllSound, NEW i \in Slots, deps_satisfied(services, i),
           services[i].name \in Names
    PROVE  HardDeps[services[i].name] \subseteq Alive
<1> SUFFICES ASSUME NEW d \in HardDeps[services[i].name] PROVE d \in Alive
  OBVIOUS
<1>1. d \in Names
  BY HardDepsAssumption
<1>2. PICK j \in Slots : /\ services[j].active /\ services[j].name = d
                         /\ services[j].state = "RUNNING"
  BY DEF deps_satisfied, IsRunning
<1>3. services[j].pid # None
  BY <1>2 DEF AllSound, Sound
<1> QED
  BY <1>1, <1>2, <1>3 DEF Alive, Named

\* start_service() is Start if a process comes of it.
LEMMA StartServiceStep ==
    ASSUME LifeInv, StartService
    PROVE  StepKept
<1> DEFINE s == services[cursor]
<1>1. /\ cursor \in Slots /\ s \in Service /\ Startable(s)
      /\ deps_satisfied(services, cursor)
      /\ phase' = phase /\ phase = "serve"
  BY DEF LifeInv, Owned, TypeOK, PlaceOK, StartService
<1>2. /\ s.active /\ s.pid = None /\ s.restart_at # "never"
  BY <1>1 DEF Startable
<1>3. PICK log \in Pids \cup {None}, main \in Pids \cup {None} :
          services' = [services EXCEPT ![cursor] =
                          WithMain(WithLogger(s, log), main)]
  <2>1. PICK log \in IF s.has_log THEN ForkOutcomes(Free) ELSE {None} :
             \E main \in ForkOutcomes(Free \ {log}) :
                 services' = [services EXCEPT ![cursor] =
                                 WithMain(WithLogger(s, log), main)]
    BY DEF StartService
  <2>2. PICK main \in ForkOutcomes(Free \ {log}) :
             services' = [services EXCEPT ![cursor] =
                             WithMain(WithLogger(s, log), main)]
    BY <2>1
  <2>3. log \in Pids \cup {None} /\ main \in Pids \cup {None}
    BY ForkType DEF Free
  <2> QED
    BY <2>2, <2>3
<1> DEFINE t == WithMain(WithLogger(s, log), main)
<1>4. \A j \in Slots : services'[j] = IF j = cursor THEN t ELSE services[j]
  BY <1>3 DEF LifeInv, Owned, TypeOK
<1>5. CASE main = None
  <2>1. SlotKept(t, s)
    BY <1>1, <1>2, <1>5, KeptByFailedStart
  <2> HIDE DEF t
  <2>2. SlotsKept
    BY <1>1, <1>4, <2>1, OneSlotKept DEF LifeInv, Owned
  <2> QED
    BY <1>1, <2>2, KeptStep, KeptLife DEF LifeInv, StepKept
<1>6. CASE main # None
  <2>1. /\ t.active /\ t.name = s.name /\ t.pid = main
        /\ t.state = "RUNNING" /\ t.restart_at # "never"
    BY <1>1, <1>2, <1>6, StartedView
  <2> HIDE DEF t
  <2>2. BarredOK' /\ StoppedOK'
    BY <1>1, <1>4, <2>1 DEF LifeInv, BarredOK, StoppedOK
  <2>3. \A n \in Names :
            /\ n \in Alive' <=> n \in Alive \/ n = s.name
            /\ n \in Leaving' <=> n \in Leaving /\ n # s.name
            /\ n \in Barred' <=> n \in Barred /\ n # s.name
    BY <1>1, <1>2, <1>4, <1>6, <2>1, ViewOfStep DEF LifeInv
  <2>4. /\ Alive \subseteq Names /\ Alive' \subseteq Names
        /\ Leaving \subseteq Names /\ Leaving' \subseteq Names
        /\ Barred \subseteq Names /\ Barred' \subseteq Names
    BY DEF Alive, Leaving, Barred
  <2>5. CASE s.name \in Names
    <3>1. s.name \notin Alive \cup Leaving \cup Barred
      BY <1>1, <1>2, <2>5, ViewOfSlot DEF LifeInv
    <3>2. /\ Alive' = Alive \cup {s.name} /\ Leaving' = Leaving
          /\ Barred' = Barred
      BY <2>3, <2>4, <2>5, <3>1
    <3>3. HardDeps[s.name] \subseteq Alive
      BY <1>1, <2>5, DepsAlive DEF LifeInv
    <3>4. Contract!Start(s.name)
      BY <1>1, <3>1, <3>2, <3>3 DEF Contract!Start
    <3> QED
      BY <2>2, <2>5, <3>4 DEF Contract!ContractNext, StepKept
  <2>6. CASE s.name \notin Names
    <3>1. Alive' = Alive /\ Leaving' = Leaving /\ Barred' = Barred
      BY <2>3, <2>4, <2>6
    <3> QED
      BY <1>1, <2>2, <3>1 DEF Contract!cvars, StepKept
  <2> QED
    BY <2>5, <2>6
<1> QED
  BY <1>5, <1>6

\* The shutdown tells everybody who runs to go, and they are all who run.
LEMMA StopAllStep ==
    ASSUME LifeInv, StopAll
    PROVE  StepKept
<1>0. \A i \in Slots : services[i] \in Service /\ Sound(services[i])
  BY DEF LifeInv, Owned, TypeOK, AllSound
<1>1. /\ services' = StoppedAll(services)
      /\ phase = "serve" /\ phase' = "term"
  BY DEF StopAll, LifeInv, PlaceOK
<1>2. \A i \in Slots : /\ SlotKept(services'[i], services[i])
                        /\ ~(services'[i].active
                             /\ services'[i].state = "RUNNING")
  <2> SUFFICES ASSUME NEW i \in Slots
               PROVE  /\ SlotKept(services'[i], services[i])
                      /\ ~(services'[i].active
                           /\ services'[i].state = "RUNNING")
    OBVIOUS
  <2> DEFINE s == services[i]
             u == IF s.pid = None THEN s ELSE Halt(s)
             b == u.log_stopping \/ s.log_pid # None
  <2>1. services'[i] = IF i \notin ShutdownTargets(services) THEN s
                       ELSE [u EXCEPT !.log_stopping = b]
    BY <1>1 DEF StoppedAll
  <2>2. /\ u \in Service /\ SlotKept(u, s)
        /\ s.active => u.state # "RUNNING"
    <3>1. CASE s.pid = None
      BY <1>0, <3>1, KeptByHalting DEF Sound
    <3>2. CASE s.pid # None
      <4>1. Halt(s).state # "RUNNING"
        BY <1>0 DEF Halt, Service
      <4> QED
        BY <1>0, <3>2, <4>1, HaltType, KeptByHalting
    <3> QED
      BY <3>1, <3>2
  <2>3. i \notin ShutdownTargets(services)
        => ~(s.active /\ s.state = "RUNNING")
    BY DEF ShutdownTargets
  <2>4. u.active = s.active
    BY <2>2 DEF SlotKept
  <2> HIDE DEF u, b
  <2>5. [u EXCEPT !.log_stopping = b].active = u.active
        /\ [u EXCEPT !.log_stopping = b].state = u.state
    BY <2>2 DEF Service
  <2>6. SlotKept([u EXCEPT !.log_stopping = b], s)
    BY <2>2, KeptByLogMark
  <2>7. SlotKept(s, s)
    BY <1>0, KeptByHalting
  <2> QED
    BY <2>1, <2>2, <2>3, <2>4, <2>5, <2>6, <2>7
<1>3. BarredOK' /\ StoppedOK'
  BY <1>2 DEF LifeInv, BarredOK, StoppedOK, SlotKept
<1>4. Alive' = {}
  BY <1>2 DEF Alive, Named
<1>5. Leaving' = Leaving \cup Alive /\ Barred' = Barred
  BY <1>2, <1>4, KeptIsLeave DEF SlotsKept, LifeInv
<1>6. Contract!Shutdown
  BY <1>1, <1>4, <1>5 DEF Contract!Shutdown
<1> QED
  BY <1>3, <1>6 DEF Contract!ContractNext, StepKept

\* The supervisor returns with an empty table.
LEMMA CloseAllStep ==
    ASSUME LifeInv, CloseAll
    PROVE  StepKept
<1>1. /\ phase # "serve" /\ phase' = phase
      /\ \A i \in Slots : services'[i] =
             IF services[i].active
             THEN [services[i] EXCEPT !.pid = None, !.log_pid = None,
                                      !.state = "DOWN"]
             ELSE services[i]
  BY DEF CloseAll, LifeInv, PlaceOK, local_vars
<1>2. \A s \in Service :
          LET t == [s EXCEPT !.pid = None, !.log_pid = None, !.state = "DOWN"]
          IN  /\ t.active = s.active /\ t.name = s.name
              /\ t.restart_at = s.restart_at
              /\ t.pid = None /\ t.state = "DOWN"
  BY DEF Service
<1>3. \A i \in Slots :
          /\ services'[i].active = services[i].active
          /\ services'[i].name = services[i].name
          /\ services'[i].restart_at = services[i].restart_at
          /\ services[i].active => /\ services'[i].pid = None
                                  /\ services'[i].state = "DOWN"
          /\ ~services[i].active => services'[i].pid = services[i].pid
  <2> SUFFICES ASSUME NEW i \in Slots
               PROVE  /\ services'[i].active = services[i].active
                      /\ services'[i].name = services[i].name
                      /\ services'[i].restart_at = services[i].restart_at
                      /\ services[i].active => /\ services'[i].pid = None
                                              /\ services'[i].state = "DOWN"
                      /\ ~services[i].active
                         => services'[i].pid = services[i].pid
    OBVIOUS
  <2>1. services[i] \in Service
    BY DEF LifeInv, Owned, TypeOK
  <2>2. CASE services[i].active
    <3> DEFINE t == [services[i] EXCEPT !.pid = None, !.log_pid = None,
                                        !.state = "DOWN"]
    <3>1. services'[i] = t
      BY <1>1, <2>2
    <3>2. /\ t.active = services[i].active /\ t.name = services[i].name
          /\ t.restart_at = services[i].restart_at
          /\ t.pid = None /\ t.state = "DOWN"
      BY <1>2, <2>1
    <3> HIDE DEF t
    <3> QED
      BY <2>2, <3>1, <3>2
  <2>3. CASE ~services[i].active
    BY <1>1, <2>3
  <2> QED
    BY <2>2, <2>3
<1>4. BarredOK' /\ StoppedOK'
  BY <1>3 DEF LifeInv, BarredOK, StoppedOK
<1>5. \A n \in Names : \A i \in Slots :
          /\ Named(n, i)' <=> Named(n, i)
          /\ Named(n, i) => services'[i].pid = None
          /\ services'[i].restart_at = services[i].restart_at
  BY <1>3 DEF Named
<1>6. Alive' = {} /\ Leaving' = {}
  BY <1>5 DEF Alive, Leaving
<1>7. Barred' = Barred
  BY <1>5 DEF Barred
<1>8. Alive = {}
  BY <1>1 DEF LifeInv, StoppedOK, Alive, Named
<1>9. Contract!Abandon
  BY <1>1, <1>6, <1>7, <1>8 DEF Contract!Abandon
<1> QED
  BY <1>4, <1>9 DEF Contract!ContractNext, StepKept

-----------------------------------------------------------------------------
(* The theorem.                                                            *)

\* The loop leaves the shutdown only at its end and enters it only by StopAll.
LEMMA PlaceStep == TypeOK /\ PlaceOK /\ [Next]_vars => PlaceOK'
<1> SUFFICES ASSUME TypeOK, PlaceOK, [Next]_vars PROVE PlaceOK'
  OBVIOUS
<1>1. CASE Reap
  BY <1>1, ReapCourse DEF AfterReap, PlaceOK
<1>2. CASE Scan \/ Start
  BY <1>2, ScanCourse, StartCourse DEF SameCourse, PlaceOK
<1>3. CASE Poll \/ Serve
  BY <1>3, PollCourse, ServeCourse DEF SameCourse, PlaceOK
<1>4. CASE Shutdown
  BY <1>4, ShutdownCourse DEF PlaceOK
<1>5. CASE Environment \/ UNCHANGED vars
  BY <1>5, OutsideCourse DEF SameCourse, PlaceOK
<1> QED
  BY <1>1, <1>2, <1>3, <1>4, <1>5 DEF Next, Supervise, Terminating

\* A quiet step is one of the contract.
LEMMA QuietStep ==
    ASSUME LifeInv, Quiet
    PROVE  StepKept
BY KeptStep, KeptLife DEF LifeInv, Quiet, StepKept

\* Every step is a step of the contract, or none.
LEMMA ContractStep ==
    ASSUME LifeInv, [Next]_vars
    PROVE  StepKept
<1>0. TypeOK
  BY DEF LifeInv, Owned
<1>q. Quiet => StepKept
  BY QuietStep
<1>1. CASE Reap
  <2>1. ASSUME NEW p \in Pids, NEW i \in Slots, ReapMain(p, i) PROVE StepKept
    BY <2>1, ReapMainStep
  <2> QED
    BY <1>0, <1>1, <1>q, <2>1, ReapQuiet DEF Reap
<1>2. CASE Scan
  <2>1. ASSUME NEW n \in Names, NEW i \in Slots, AddEntry(n, i) PROVE StepKept
    BY <2>1, AddEntryStep
  <2>2. ASSUME DropService PROVE StepKept
    BY <2>2, DropServiceStep
  <2> QED
    BY <1>0, <1>2, <1>q, <2>1, <2>2, ScanQuiet DEF Scan
<1>3. CASE Start
  <2>1. ASSUME PassSlot PROVE StepKept
    BY <1>0, <1>q, <2>1, UntouchedKept DEF PassSlot, Quiet
  <2>2. ASSUME PostponeStart PROVE StepKept
    <3>1. /\ cursor \in Slots /\ services[cursor] \in Service
          /\ services[cursor].restart_at # "never" /\ phase' = phase
      BY <1>0, <2>2 DEF PostponeStart, Startable, TypeOK
    <3>2. \A j \in Slots : services'[j] =
              IF j = cursor
              THEN [services[cursor] EXCEPT !.restart_at = "later"]
              ELSE services[j]
      BY <1>0, <2>2 DEF PostponeStart, TypeOK
    <3>3. SlotKept([services[cursor] EXCEPT !.restart_at = "later"],
                   services[cursor])
      BY <3>1, KeptByMarking
    <3>4. SlotsKept
      BY <1>0, <3>1, <3>2, <3>3, OneSlotKept
    <3> QED
      BY <1>q, <3>1, <3>4 DEF Quiet
  <2>3. ASSUME StartService PROVE StepKept
    BY <2>3, StartServiceStep
  <2> QED
    BY <1>3, <2>1, <2>2, <2>3 DEF Start
<1>4. CASE Poll
  BY <1>0, <1>4, <1>q, UntouchedKept
  DEF Poll, PollInterrupted, NoSignal, NoClient, Accept, DrainSignalPipe,
      Quiet, local_vars
<1>5. CASE Shutdown
  <2>1. ASSUME SettleAgain \/ KillRest PROVE StepKept
    BY <1>0, <1>q, <2>1, UntouchedKept
    DEF SettleAgain, KillRest, Quiet, local_vars
  <2>2. ASSUME StopAll PROVE StepKept
    BY <2>2, StopAllStep
  <2>3. ASSUME CloseAll PROVE StepKept
    BY <2>3, CloseAllStep
  <2> QED
    BY <1>5, <2>1, <2>2, <2>3 DEF Shutdown
<1>6. CASE Serve
  <2>1. ASSUME NEW n \in Names, NEW i \in Slots, CmdStart(n, i) \/ CmdUp(n, i)
        PROVE  StepKept
    BY <2>1, CommandStep
  <2> QED
    BY <1>0, <1>6, <1>q, <2>1, ServeQuiet DEF Serve, Command
<1>7. CASE Environment \/ UNCHANGED vars
  BY <1>0, <1>7, <1>q, UntouchedKept
  DEF Environment, Exec, Exit, SendSignal, Touch, Quiet, local_vars, vars
<1> QED
  BY <1>1, <1>2, <1>3, <1>4, <1>5, <1>6, <1>7 DEF Next, Supervise, Terminating

\* The supervisor starts as the contract does.
LEMMA ContractInitially == Init => Contract!ContractInit
<1> SUFFICES ASSUME Init PROVE Contract!ContractInit
  OBVIOUS
<1>1. \A n : \A i \in Slots : ~Named(n, i)
  BY DEF Init, SERVICE_EMPTY, Named
<1>2. Alive = {} /\ Leaving = {} /\ Barred = {}
  BY <1>1 DEF Alive, Leaving, Barred
<1>3. (phase = "serve") = TRUE
  BY DEF Init
<1> QED
  BY <1>2, <1>3 DEF Contract!ContractInit

\* The invariant all of this rests on.
LEMMA LifeAlways == Spec => []LifeInv
<1>1. Init => PlaceOK /\ BarredOK /\ StoppedOK
  BY DEF Init, PlaceOK, BarredOK, StoppedOK, SERVICE_EMPTY
<1>2. RunningMeansAlive => AllSound
  BY DEF RunningMeansAlive, AllSound, Sound
<1>3. Owned /\ AllSound /\ (PlaceOK /\ BarredOK /\ StoppedOK) /\ [Next]_vars
      => (PlaceOK /\ BarredOK /\ StoppedOK)'
  BY ContractStep, PlaceStep DEF LifeInv, Owned, StepKept
<1> QED
  BY <1>1, <1>2, <1>3, AlwaysOwned, RunningIsAlive, PTL DEF Spec, LifeInv

\* What svc-rs promises about its services holds for every dependency graph,
\* any number of services and any commands: one instance, started only when it
\* is gone, not given up and its dependencies run, and nothing is started or
\* revived once the shutdown has begun.
THEOREM ContractIsKept == Spec => KeepsContract
<1>1. LifeInv /\ [Next]_vars => [Contract!ContractNext]_(Contract!cvars)
  BY ContractStep DEF StepKept
<1> QED
  BY <1>1, ContractInitially, LifeAlways, PTL
  DEF Spec, KeepsContract, Contract!ContractSpec

-----------------------------------------------------------------------------
(* What was given up stays so.  Any number of starts, exits, scans and     *)
(* cascades may come between two commands; only the steps that write       *)
(* restart_at matter, and of these the ones that follow an exit or a       *)
(* failed start need BarredOK: a service that is given up has no process.  *)

\* The active slots that were given up still are.
StillBarred ==
    \A i \in Slots :
        services[i].active /\ services[i].restart_at = "never"
        => services'[i].restart_at = "never"

\* Steps that change one slot at most, and that one was not given up or not in
\* use, or its restart_at is what it was.
LEMMA OneSlotBarred ==
    ASSUME NEW i \in Slots, NEW t,
           \A j \in Slots : services'[j] = IF j = i THEN t ELSE services[j],
           \/ ~services[i].active
           \/ services[i].restart_at # "never"
           \/ t.restart_at = services[i].restart_at
    PROVE  StillBarred
BY DEF StillBarred

\* Steps that only tell services to go.
LEMMA KeptBarred == ASSUME SlotsKept PROVE StillBarred
BY DEF SlotsKept, SlotKept, StillBarred

\* No exit belongs to a service that was given up.
LEMMA ReapBarred ==
    ASSUME LifeInv, Reap
    PROVE  StillBarred
<1>0. TypeOK
  BY DEF LifeInv, Owned
<1>1. ASSUME NEW p \in Pids, NEW i \in Slots, ReapMain(p, i)
      PROVE  StillBarred
  <2>1. services[i].pid # None
    BY <1>1, NoneAssumption DEF ReapMain
  <2>2. services[i].restart_at # "never"
    BY <2>1 DEF LifeInv, BarredOK
  <2>3. PICK t : services' = [services EXCEPT ![i] = t]
    BY <1>1 DEF ReapMain
  <2> QED
    BY <1>0, <2>2, <2>3, OneSlotBarred DEF TypeOK
<1> QED
  BY <1>0, <1>1, ReapQuiet, KeptBarred DEF Reap, Quiet

\* A scan fills unused slots and empties others.
LEMMA ScanBarred ==
    ASSUME LifeInv, Scan
    PROVE  StillBarred
<1>0. TypeOK
  BY DEF LifeInv, Owned
<1>1. ASSUME NEW n \in Names, NEW i \in Slots, AddEntry(n, i)
      PROVE  StillBarred
  BY <1>0, <1>1, OneSlotBarred DEF AddEntry, FirstUnused, TypeOK
<1>2. ASSUME DropService PROVE StillBarred
  <2> DEFINE s == services[cursor]
  <2>1. /\ cursor \in Slots /\ s \in Service
        /\ services' = [services EXCEPT
               ![cursor] = [s EXCEPT !.active = FALSE, !.state = "DOWN"]]
    BY <1>0, <1>2 DEF DropService, TypeOK
  <2>2. [s EXCEPT !.active = FALSE, !.state = "DOWN"].restart_at = s.restart_at
    BY <2>1 DEF Service
  <2> QED
    BY <1>0, <2>1, <2>2, OneSlotBarred DEF TypeOK
<1> QED
  BY <1>0, <1>1, <1>2, ScanQuiet, KeptBarred DEF Scan, Quiet

\* The start loop passes over what was given up.
LEMMA StartBarred ==
    ASSUME LifeInv, Start
    PROVE  StillBarred
<1>0. TypeOK
  BY DEF LifeInv, Owned
<1>1. CASE PassSlot
  BY <1>1 DEF PassSlot, StillBarred
<1>2. CASE PostponeStart \/ StartService
  <2>1. cursor \in Slots /\ services[cursor].restart_at # "never"
    BY <1>0, <1>2 DEF PostponeStart, StartService, Startable, TypeOK
  <2>2. \E t : services' = [services EXCEPT ![cursor] = t]
    BY <1>2 DEF PostponeStart, StartService
  <2> QED
    BY <1>0, <2>1, <2>2, OneSlotBarred DEF TypeOK
<1> QED
  BY <1>1, <1>2 DEF Start

\* The shutdown does not touch restart_at.
LEMMA ShutdownBarred ==
    ASSUME LifeInv, Shutdown
    PROVE  StillBarred
<1>0. \A i \in Slots : services[i] \in Service
  BY DEF LifeInv, Owned, TypeOK
<1>1. CASE StopAll
  <2> SUFFICES ASSUME NEW i \in Slots
               PROVE  services'[i].restart_at = services[i].restart_at
    BY DEF StillBarred
  <2> DEFINE s == services[i]
             u == IF s.pid = None THEN s ELSE Halt(s)
             b == u.log_stopping \/ s.log_pid # None
  <2>1. services'[i] = IF i \notin ShutdownTargets(services) THEN s
                       ELSE [u EXCEPT !.log_stopping = b]
    BY <1>1 DEF StopAll, StoppedAll
  <2>2. s \in Service
    BY <1>0
  <2>a. Halt(s) \in Service /\ Halt(s).restart_at = s.restart_at
    BY <2>2, HaltType DEF Halt, Service
  <2>b. u \in Service /\ u.restart_at = s.restart_at
    BY <2>2, <2>a
  <2> HIDE DEF u, b, s
  <2>3. [u EXCEPT !.log_stopping = b].restart_at = u.restart_at
    BY <2>b DEF Service
  <2> QED
    BY <2>1, <2>b, <2>3 DEF s
<1>2. CASE SettleAgain \/ KillRest
  BY <1>2 DEF SettleAgain, KillRest, local_vars, StillBarred
<1>3. CASE CloseAll
  BY <1>0, <1>3 DEF CloseAll, StillBarred, Service
<1> QED
  BY <1>1, <1>2, <1>3 DEF Shutdown

\* Commands other than start and up do not revive, and these two are commands.
LEMMA ServeBarred ==
    ASSUME LifeInv, Serve, pc # "client"
    PROVE  StillBarred
<1>0. TypeOK
  BY DEF LifeInv, Owned
<1>1. ASSUME NEW n \in Names, NEW i \in Slots
      PROVE ~CmdStart(n, i) /\ ~CmdUp(n, i)
  BY DEF CmdStart, CmdUp, Receive
<1> QED
  BY <1>0, <1>1, ServeQuiet, KeptBarred DEF Serve, Command, Quiet

\* Every step that is not a command.
LEMMA StepBarred ==
    ASSUME LifeInv, [Next]_vars, pc # "client"
    PROVE  StillBarred
<1>1. CASE Poll
  BY <1>1, PollCourse DEF StillBarred
<1>2. CASE Environment \/ UNCHANGED vars
  BY <1>2, OutsideCourse DEF StillBarred
<1> QED
  BY <1>1, <1>2, ReapBarred, ScanBarred, StartBarred, ShutdownBarred,
     ServeBarred
  DEF Next, Supervise, Terminating

\* What start, exits, scans, cascades and the clock do to a service that was
\* given up (restart_at = i64::MAX): nothing, for any table and dependencies and
\* whatever the interleaving; only a client revives it.
THEOREM GivenUpStaysSo == Spec => GivenUpIsFinal
<1>1. LifeInv /\ [Next]_vars =>
          [\A i \in Slots :
               services[i].active /\ services[i].restart_at = "never"
               /\ services'[i].restart_at # "never" => pc = "client"]_vars
  BY StepBarred DEF StillBarred
<1> QED
  BY <1>1, LifeAlways, PTL DEF Spec, GivenUpIsFinal

=============================================================================
