---------------------------- MODULE OwnershipProofs ----------------------------
(***************************************************************************)
(* Who owns which child.  The pids in the table and the kernel's children  *)
(* agree in both directions: a pid in a slot is a child of that slot       *)
(* (PidsTracked), and a main process is in a slot, one for each service    *)
(* (OneInstance).  Neither is inductive without the other: a reaped pid is *)
(* taken out of one slot, and only because the slots agree with the        *)
(* children, and no two slots have one name, is it out of the whole table. *)
(***************************************************************************)
EXTENDS SupervisorProofs

USE MaxServicesAssumption, NoneAssumption DEF Slots

Owned == TypeOK /\ PidsTracked /\ OneInstance

-----------------------------------------------------------------------------
(* Steps that leave the owners alone.                                      *)

\* What PidsTracked and OneInstance look at in a slot, in the table and in the
\* kernel.
SameSlot(u, t) == /\ u.active = t.active /\ u.name = t.name
                  /\ u.pid = t.pid /\ u.log_pid = t.log_pid

SameSlots == \A i \in Slots : SameSlot(services'[i], services[i])

USE DEF SameSlot

SameChildren ==
    \A p \in Pids : /\ procs'[p].role = procs[p].role
                    /\ procs'[p].name = procs[p].name

\* A step that changes neither the owners nor the owned keeps the invariant.
LEMMA SameOwners ==
    ASSUME Owned, TypeOK', SameSlots, SameChildren, pc = "done" => pc' = "done"
    PROVE  Owned'
<1>0. \A i \in Slots : /\ services[i].pid \in Pids \cup {None}
                       /\ services[i].log_pid \in Pids \cup {None}
  BY DEF Owned, TypeOK, Service
<1>1. PidsTracked'
  <2> SUFFICES ASSUME pc' # "done", NEW i \in Slots
               PROVE  LET s == services'[i]
                      IN  /\ s.pid # None => /\ s.active
                                             /\ procs'[s.pid].role = "main"
                                             /\ procs'[s.pid].name = s.name
                          /\ s.log_pid # None =>
                                 /\ s.active
                                 /\ procs'[s.log_pid].role = "log"
                                 /\ procs'[s.log_pid].name = s.name
    BY DEF PidsTracked
  <2> QED
    BY <1>0 DEF Owned, PidsTracked, SameSlots, SameChildren
<1>2. OneInstance'
  <2>1. \A i, j \in Slots : services'[i].active /\ services'[j].active
                            /\ services'[i].name = services'[j].name => i = j
    BY DEF Owned, OneInstance, SameSlots
  <2>2. \A p \in Pids : procs'[p].role = "main" /\ pc' # "done" => IsMain(p)'
    BY DEF Owned, OneInstance, SameSlots, SameChildren, IsMain
  <2>3. \A p, q \in Pids :
            procs'[p].role = "main" /\ procs'[q].role = "main"
            /\ procs'[p].name = procs'[q].name => p = q
    BY DEF Owned, OneInstance, SameChildren
  <2> QED
    BY <2>1, <2>2, <2>3 DEF OneInstance
<1> QED
  BY <1>1, <1>2 DEF Owned

\* kill() ends processes and makes nobody another one.
LEMMA SignalSame ==
    ASSUME TypeOK, NEW sig, NEW P, Signal(sig, P) PROVE SameChildren
BY TerminatedType DEF Signal, SameChildren, TypeOK

LEMMA KillSame ==
    ASSUME TypeOK, NEW P, Kill(P) PROVE SameChildren
BY SignalSame DEF Kill

\* Nor does a service become another one by what it is told, by a command or
\* by the cascade.
LEMMA HaltSame ==
    ASSUME NEW s \in Service
    PROVE  SameSlot(Halt(s), s) /\ SameSlot(HaltWithLog(s), s)
BY DEF Halt, HaltWithLog, Service

\* The table after the cascade names the same services and children.
LEMMA CascadeSame ==
    ASSUME TypeOK, NEW i \in Slots
    PROVE  SameSlot(stop_transitive_deps(services)[i], services[i])
<1>1. services[i] \in Service
  BY DEF TypeOK
<1>2. stop_transitive_deps(services)[i] \in {services[i], Halt(services[i])}
  BY DEF stop_transitive_deps
<1> QED
  BY <1>1, <1>2, HaltSame

\* Children and signals from outside: no child becomes another one.
LEMMA EnvironmentOwned == Owned /\ Environment => Owned'
<1> SUFFICES ASSUME Owned, Environment PROVE Owned'
  OBVIOUS
<1>1. TypeOK'
  BY EnvironmentType DEF Owned
<1>2. SameSlots /\ pc' = pc
  BY DEF Environment, Exec, Exit, SendSignal, Touch, SameSlots, local_vars
<1>3. SameChildren
  <2>1. ASSUME NEW p \in Pids, Exec(p) \/ Exit(p) PROVE SameChildren
    <3>1. PICK st : procs' = [procs EXCEPT ![p].stage = st]
      BY <2>1 DEF Exec, Exit
    <3>2. /\ procs \in [Pids -> Proc]
          /\ \A r \in Proc : /\ [r EXCEPT !.stage = st].role = r.role
                             /\ [r EXCEPT !.stage = st].name = r.name
      BY DEF Owned, TypeOK, Proc
    <3> QED
      BY <3>1, <3>2 DEF SameChildren
  <2>2. ASSUME UNCHANGED procs PROVE SameChildren
    BY <2>2 DEF SameChildren
  <2> QED
    BY <2>1, <2>2 DEF Environment, SendSignal, Touch, kernel_vars
<1> QED
  BY <1>1, <1>2, <1>3, SameOwners

-----------------------------------------------------------------------------
(* reap_children().                                                        *)

\* The exit of a main process leaves its slot with the same name and logger.
LEMMA AfterExitOwner ==
    ASSUME NEW s \in Service, NEW long \in BOOLEAN, NEW b
    PROVE  LET t == [AfterExit(s, long) EXCEPT !.log_stopping = b]
           IN  /\ t.active = s.active /\ t.name = s.name
               /\ t.pid = None /\ t.log_pid = s.log_pid
BY DEF AfterExit, Service

\* A logger is taken out of the only slot that holds its pid.
LEMMA ReapLogOwned ==
    ASSUME Owned, NEW p \in Pids, NEW i \in Slots, ReapLog(p, i), TypeOK'
    PROVE  Owned'
<1>1. /\ pc' = pc /\ pc # "done"
      /\ procs' = [procs EXCEPT ![p] = NoProc]
      /\ services[i].active /\ services[i].log_pid = p
      /\ procs[p].role = "log" /\ procs[p].name = services[i].name
  BY DEF ReapLog, Owned, PidsTracked, TypeOK
<1>2. \A j \in Slots : /\ services'[j].active = services[j].active
                       /\ services'[j].name = services[j].name
                       /\ services'[j].pid = services[j].pid
                       /\ services'[j].log_pid = IF j = i THEN None
                                                 ELSE services[j].log_pid
  BY DEF ReapLog, Owned, TypeOK, Service
<1>3. \A j \in Slots : /\ services[j].pid # p
                       /\ j # i => services[j].log_pid # p
  BY <1>1 DEF Owned, PidsTracked, OneInstance
<1>4. /\ \A q \in Pids : q # p => procs'[q] = procs[q]
      /\ procs'[p].role # "main"
  BY <1>1 DEF Owned, TypeOK, NoProc
<1>5. \A j \in Slots : /\ services[j].pid \in Pids \cup {None}
                       /\ services[j].log_pid \in Pids \cup {None}
  BY DEF Owned, TypeOK, Service
<1>6. PidsTracked'
  BY <1>1, <1>2, <1>3, <1>4, <1>5 DEF Owned, PidsTracked
<1>7. OneInstance'
  <2>1. \A j, k \in Slots : services'[j].active /\ services'[k].active
                            /\ services'[j].name = services'[k].name => j = k
    BY <1>2 DEF Owned, OneInstance
  <2>2. \A q \in Pids : procs'[q].role = "main" /\ pc' # "done" => IsMain(q)'
    BY <1>1, <1>2, <1>4 DEF Owned, OneInstance, IsMain
  <2>3. \A q, r \in Pids :
            procs'[q].role = "main" /\ procs'[r].role = "main"
            /\ procs'[q].name = procs'[r].name => q = r
    BY <1>4 DEF Owned, OneInstance
  <2> QED
    BY <2>1, <2>2, <2>3 DEF OneInstance
<1> QED
  BY <1>6, <1>7 DEF Owned

\* A main process is taken out of the only slot that holds its pid; the finish
\* script may get that pid or one that no slot holds.
LEMMA ReapMainOwned ==
    ASSUME Owned, NEW p \in Pids, NEW i \in Slots, ReapMain(p, i), TypeOK'
    PROVE  Owned'
<1> DEFINE s == services[i]
           stop_log == s.log_pid # None /\ s.stopping
           P == IF stop_log THEN {s.log_pid} ELSE {}
           reaped == [procs EXCEPT ![p] = NoProc]
           after == Terminated(P, reaped)
<1>1. /\ pc' = pc /\ pc # "done"
      /\ s.active /\ s.pid = p
      /\ procs[p].role = "main" /\ procs[p].name = s.name
      /\ s \in Service
  BY DEF ReapMain, Owned, PidsTracked, TypeOK
<1>2. \A j \in Slots : /\ services'[j].active = services[j].active
                       /\ services'[j].name = services[j].name
                       /\ services'[j].pid = IF j = i THEN None
                                             ELSE services[j].pid
                       /\ services'[j].log_pid = services[j].log_pid
  <2>1. PICK long \in BOOLEAN :
            services' = [services EXCEPT ![i] =
                [AfterExit(s, long) EXCEPT !.log_stopping = (@ \/ stop_log)]]
    BY DEF ReapMain
  <2>2. PICK b : [AfterExit(s, long) EXCEPT !.log_stopping = (@ \/ stop_log)]
                     = [AfterExit(s, long) EXCEPT !.log_stopping = b]
    OBVIOUS
  <2> QED
    BY <1>1, <2>1, <2>2, AfterExitOwner DEF Owned, TypeOK
<1>3. \A j \in Slots : /\ services[j].log_pid # p
                       /\ j # i => services[j].pid # p
  BY <1>1 DEF Owned, PidsTracked, OneInstance
<1>4. \A q \in Pids : procs'[q].role = "main" =>
          q # p /\ procs[q].role = "main" /\ procs'[q].name = procs[q].name
  <2>1. reaped \in [Pids -> Proc]
    BY NoProcType DEF Owned, TypeOK
  <2>2. /\ after \in [Pids -> Proc]
        /\ \A q \in Pids : /\ after[q].role = reaped[q].role
                           /\ after[q].name = reaped[q].name
    BY <2>1, TerminatedType
  <2>3. PICK f \in FinishOutcomes(s.name, Free \cup {p}) :
            procs' = IF f = None THEN after
                     ELSE [after EXCEPT ![f] = NewProc("finish", s.name)]
    BY DEF ReapMain
  <2>4. NewProc("finish", s.name).role = "finish"
    BY DEF NewProc
  <2>5. \A q \in Pids : procs'[q].role = "main" => procs'[q] = after[q]
    <3> HIDE DEF after
    <3> QED
      BY <2>2, <2>3, <2>4
  <2>6. reaped[p] = NoProc /\ \A q \in Pids : q # p => reaped[q] = procs[q]
    BY DEF Owned, TypeOK
  <2> HIDE DEF reaped, after
  <2> QED
    BY <2>2, <2>5, <2>6 DEF NoProc
<1>5. \A q \in Pids : procs[q].role \in {"main", "log"} /\ q # p =>
          procs'[q].role = procs[q].role /\ procs'[q].name = procs[q].name
  <2>1. reaped \in [Pids -> Proc]
    BY NoProcType DEF Owned, TypeOK
  <2>2. /\ after \in [Pids -> Proc]
        /\ \A q \in Pids : /\ after[q].role = reaped[q].role
                           /\ after[q].name = reaped[q].name
    BY <2>1, TerminatedType
  <2>3. PICK f \in FinishOutcomes(s.name, Free \cup {p}) :
            procs' = IF f = None THEN after
                     ELSE [after EXCEPT ![f] = NewProc("finish", s.name)]
    BY DEF ReapMain
  <2>4. f = None \/ f = p \/ (f \in Pids /\ procs[f].role = "none")
    BY <2>3 DEF FinishOutcomes, ForkOutcomes, Free, NoProc
  <2>6. \A q \in Pids : q # p => reaped[q] = procs[q]
    BY DEF Owned, TypeOK
  <2> HIDE DEF reaped, after
  <2> QED
    BY <2>2, <2>3, <2>4, <2>6
<1> HIDE DEF s, stop_log, P, reaped, after
<1>6. \A j \in Slots : /\ services[j].pid \in Pids \cup {None}
                       /\ services[j].log_pid \in Pids \cup {None}
  BY DEF Owned, TypeOK, Service
<1>7. PidsTracked'
  BY <1>1, <1>2, <1>3, <1>5, <1>6 DEF Owned, PidsTracked
<1>8. OneInstance'
  <2>1. \A j, k \in Slots : services'[j].active /\ services'[k].active
                            /\ services'[j].name = services'[k].name => j = k
    BY <1>2 DEF Owned, OneInstance
  <2>3. \A q \in Pids : procs'[q].role = "main" /\ pc' # "done" => IsMain(q)'
    BY <1>1, <1>2, <1>4 DEF Owned, OneInstance, IsMain, s
  <2>4. \A q, r \in Pids :
            procs'[q].role = "main" /\ procs'[r].role = "main"
            /\ procs'[q].name = procs'[r].name => q = r
    BY <1>4 DEF Owned, OneInstance
  <2> QED
    BY <2>1, <2>3, <2>4 DEF OneInstance
<1> QED
  BY <1>7, <1>8 DEF Owned

\* A child that no slot knows is no main process, so forgetting it is safe.
LEMMA ForgetChild ==
    ASSUME Owned, NEW p \in Pids, procs[p].role \notin {"main", "log"},
           procs' = [procs EXCEPT ![p] = NoProc], SameSlots, TypeOK',
           pc # "done"
    PROVE  Owned'
<1>1. \A q \in Pids : q # p => procs'[q] = procs[q]
  BY DEF Owned, TypeOK
<1>2. procs'[p].role # "main"
  BY DEF Owned, TypeOK, NoProc
<1>3. \A j \in Slots : services[j].pid # p /\ services[j].log_pid # p
  BY DEF Owned, PidsTracked
<1>4. \A j \in Slots : /\ services[j].pid \in Pids \cup {None}
                       /\ services[j].log_pid \in Pids \cup {None}
  BY DEF Owned, TypeOK, Service
<1>5. PidsTracked'
  BY <1>1, <1>3, <1>4 DEF Owned, PidsTracked, SameSlots
<1>6. OneInstance'
  <2>1. \A j, k \in Slots : services'[j].active /\ services'[k].active
                            /\ services'[j].name = services'[k].name => j = k
    BY DEF Owned, OneInstance, SameSlots
  <2>2. \A q \in Pids : procs'[q].role = "main" /\ pc' # "done" => IsMain(q)'
    BY <1>1, <1>2 DEF Owned, OneInstance, IsMain, SameSlots
  <2>3. \A q, r \in Pids :
            procs'[q].role = "main" /\ procs'[r].role = "main"
            /\ procs'[q].name = procs'[r].name => q = r
    BY <1>1, <1>2 DEF Owned, OneInstance
  <2> QED
    BY <2>1, <2>2, <2>3 DEF OneInstance
<1> QED
  BY <1>5, <1>6 DEF Owned

\* A logger whose slot has moved on is no longer in any slot: the same holds.
LEMMA ReapUnknownOwned ==
    ASSUME Owned, NEW p \in Pids, ReapUnknown(p), TypeOK' PROVE Owned'
<1>1. /\ pc' = pc /\ pc # "done" /\ services' = services
      /\ procs' = [procs EXCEPT ![p] = NoProc]
      /\ ~IsMain(p) /\ ~IsLogger(p)
  BY DEF ReapUnknown
<1>2. procs[p].role # "main"
  BY <1>1 DEF Owned, OneInstance
<1>3. \A j \in Slots : services[j].pid # p /\ services[j].log_pid # p
  BY <1>1 DEF Owned, PidsTracked, IsMain, IsLogger
<1>4. \A q \in Pids : q # p => procs'[q] = procs[q]
  BY <1>1 DEF Owned, TypeOK
<1>5. procs'[p].role # "main"
  BY <1>1 DEF Owned, TypeOK, NoProc
<1>6. \A j \in Slots : /\ services[j].pid \in Pids \cup {None}
                       /\ services[j].log_pid \in Pids \cup {None}
  BY DEF Owned, TypeOK, Service
<1>7. PidsTracked'
  BY <1>1, <1>3, <1>4, <1>6 DEF Owned, PidsTracked
<1>8. OneInstance'
  BY <1>1, <1>4, <1>5 DEF Owned, OneInstance, IsMain
<1> QED
  BY <1>7, <1>8 DEF Owned

\* All of reap_children(); the cascade and kill_main_on_log_death() mark
\* services and signal them, and change no owner.
LEMMA ReapOwned == Owned /\ Reap => Owned'
<1> SUFFICES ASSUME Owned, Reap PROVE Owned'
  OBVIOUS
<1>1. TypeOK' /\ TypeOK
  BY ReapType DEF Owned
<1>2. ASSUME NEW p \in Pids, NEW i \in Slots, ReapLog(p, i) PROVE Owned'
  BY <1>1, <1>2, ReapLogOwned
<1>3. ASSUME NEW p \in Pids, NEW i \in Slots, ReapMain(p, i) PROVE Owned'
  BY <1>1, <1>3, ReapMainOwned
<1>4. ASSUME NEW p \in Pids, ReapUnknown(p) PROVE Owned'
  BY <1>1, <1>4, ReapUnknownOwned
<1>5. ASSUME ReapEnd PROVE Owned'
  <2>1. SameSlots
    BY <1>1, <1>5, CascadeSame DEF ReapEnd, SameSlots
  <2>2. SameChildren
    <3>1. CASE UNCHANGED procs
      BY <3>1 DEF SameChildren
    <3>2. CASE Kill(PidsOf(services, Doomed(services)))
      BY <1>1, <3>2, KillSame
    <3> QED
      BY <1>5, <3>1, <3>2 DEF ReapEnd, kernel_vars
  <2> QED
    BY <1>1, <1>5, <2>1, <2>2, SameOwners DEF ReapEnd
<1>6. ASSUME LogDeath PROVE Owned'
  <2>1. SameSlots
    BY <1>1, <1>6, HaltSame DEF LogDeath, SameSlots, TypeOK
  <2>2. SameChildren
    BY <1>1, <1>6, KillSame DEF LogDeath
  <2> QED
    BY <1>1, <1>6, <2>1, <2>2, SameOwners DEF LogDeath
<1> QED
  BY <1>2, <1>3, <1>4, <1>5, <1>6 DEF Reap

-----------------------------------------------------------------------------
(* The directory scan.                                                     *)

\* A slot is taken by a service of a name no slot has, and only when it is
\* empty: by PidsTracked an empty slot names no child.
LEMMA AddEntryOwned ==
    ASSUME Owned, NEW n \in Names, NEW i \in Slots, AddEntry(n, i), TypeOK'
    PROVE  Owned'
<1>1. /\ pc' = pc /\ pc # "done" /\ procs' = procs
      /\ ~services[i].active
      /\ \A j \in Slots : services[j].active => services[j].name # n
  BY DEF AddEntry, FirstUnused, Known, kernel_vars
<1>2. services'[i].name = n /\ services'[i].pid = None
      /\ services'[i].log_pid = None
  BY DEF AddEntry, NewService, SERVICE_EMPTY, Owned, TypeOK
<1>3. \A j \in Slots : j # i => services'[j] = services[j]
  BY DEF AddEntry, Owned, TypeOK
<1>4. PidsTracked'
  BY <1>1, <1>2, <1>3 DEF Owned, PidsTracked
<1>5. OneInstance'
  <2>1. \A j, k \in Slots : services'[j].active /\ services'[k].active
                            /\ services'[j].name = services'[k].name => j = k
    BY <1>1, <1>2, <1>3 DEF Owned, OneInstance
  <2>2. \A q \in Pids : procs'[q].role = "main" /\ pc' # "done" => IsMain(q)'
    BY <1>1, <1>3 DEF Owned, OneInstance, IsMain
  <2> QED
    BY <1>1, <2>1, <2>2 DEF Owned, OneInstance
<1> QED
  BY <1>4, <1>5 DEF Owned

\* A slot is given up only when it names no child.
LEMMA DropServiceOwned ==
    ASSUME Owned, DropService, TypeOK' PROVE Owned'
<1>1. /\ pc # "done" /\ pc' \in {pc, "start"} /\ procs' = procs
      /\ services[cursor].pid = None /\ services[cursor].log_pid = None
      /\ cursor \in Slots
  BY DEF DropService, NoProcess, NextSlot, kernel_vars, Owned, TypeOK
<1>2. /\ ~services'[cursor].active
      /\ services'[cursor].pid = None /\ services'[cursor].log_pid = None
  BY <1>1 DEF DropService, Owned, TypeOK, Service
<1>3. \A j \in Slots : j # cursor => services'[j] = services[j]
  BY DEF DropService, Owned, TypeOK
<1>4. PidsTracked'
  BY <1>1, <1>2, <1>3 DEF Owned, PidsTracked
<1>5. OneInstance'
  <2>1. \A j, k \in Slots : services'[j].active /\ services'[k].active
                            /\ services'[j].name = services'[k].name => j = k
    BY <1>1, <1>2, <1>3 DEF Owned, OneInstance
  <2>2. \A q \in Pids : procs'[q].role = "main" /\ pc' # "done" => IsMain(q)'
    BY <1>1, <1>3 DEF Owned, OneInstance, IsMain
  <2> QED
    BY <1>1, <2>1, <2>2 DEF Owned, OneInstance
<1> QED
  BY <1>4, <1>5 DEF Owned

\* The whole scan; the other steps change marks only.
LEMMA ScanOwned == Owned /\ Scan => Owned'
<1> SUFFICES ASSUME Owned, Scan PROVE Owned'
  OBVIOUS
<1>1. TypeOK' /\ TypeOK
  BY ScanType DEF Owned
<1>2. ASSUME \/ SkipScan \/ OpendirFails \/ Closedir \/ KeepService
             \/ \E n \in Names : PassEntry(n)
      PROVE  Owned'
  <2>1. SameSlots /\ SameChildren /\ pc # "done"
    BY <1>2
    DEF SkipScan, OpendirFails, Closedir, KeepService, PassEntry, kernel_vars,
        SameSlots, SameChildren
  <2> QED
    BY <1>1, <2>1, SameOwners
<1>3. ASSUME Opendir PROVE Owned'
  <2>1. \A t \in Service : SameSlot([t EXCEPT !.present = FALSE], t)
    BY DEF Service
  <2>2. SameSlots /\ SameChildren /\ pc # "done"
    BY <1>1, <1>3, <2>1
    DEF Opendir, kernel_vars, SameSlots, SameChildren, TypeOK
  <2> QED
    BY <1>1, <2>2, SameOwners
<1>4. ASSUME NEW n \in Names, NEW i \in Slots, FindEntry(n, i) PROVE Owned'
  <2>1. \A t \in Service :
            SameSlot([t EXCEPT !.present = TRUE, !.stopping = FALSE], t)
    BY DEF Service
  <2>2. SameSlots /\ SameChildren /\ pc # "done"
    BY <1>1, <1>4, <2>1
    DEF FindEntry, kernel_vars, SameSlots, SameChildren, TypeOK
  <2> QED
    BY <1>1, <2>2, SameOwners
<1>5. ASSUME NEW n \in Names, NEW i \in Slots, AddEntry(n, i) PROVE Owned'
  BY <1>1, <1>5, AddEntryOwned
<1>6. ASSUME StopMissing PROVE Owned'
  <2> DEFINE s == services[cursor]
             main == s.pid # None /\ ~s.stopping
             log == s.log_pid # None /\ ~s.log_stopping
             cascade == IF main THEN Doomed(services) ELSE {}
             T == [i \in Slots |->
                      IF i \in cascade \/ (i = cursor /\ main)
                      THEN Halt(services[i]) ELSE services[i]]
  <2>1. T \in [Slots -> Service]
    BY <1>1, HaltType DEF TypeOK
  <2>2. \A i \in Slots : SameSlot(T[i], services[i])
    BY <1>1, HaltSame DEF TypeOK
  <2>3. services' = [T EXCEPT ![cursor].log_stopping = (@ \/ log)]
    BY <1>6 DEF StopMissing
  <2>4. \A t \in Service : \A b :
            SameSlot([t EXCEPT !.log_stopping = (@ \/ b)], t)
    BY DEF Service
  <2> HIDE DEF T, log
  <2>5. SameSlots
    BY <2>1, <2>2, <2>3, <2>4 DEF SameSlots
  <2>6. SameChildren /\ pc # "done"
    BY <1>1, <1>6, KillSame DEF StopMissing
  <2> QED
    BY <1>1, <2>5, <2>6, SameOwners
<1>7. ASSUME DropService PROVE Owned'
  BY <1>1, <1>7, DropServiceOwned
<1> QED
  BY <1>2, <1>3, <1>4, <1>5, <1>6, <1>7 DEF Scan

-----------------------------------------------------------------------------
(* The start loop.                                                         *)

\* No pid in the table is free, and none is of both kinds.
LEMMA NobodyFree ==
    ASSUME Owned, pc # "done", NEW i \in Slots
    PROVE  /\ services[i].pid \notin Free
           /\ services[i].log_pid \notin Free
           /\ \A j \in Slots : services[j].log_pid # None
                               => services[j].log_pid # services[i].pid
BY DEF Owned, PidsTracked, Free, NoProc

\* A start fills a slot without a main process with children whose pids were
\* free, and no main process of that name was left.
LEMMA StartServiceOwned ==
    ASSUME Owned, StartService, TypeOK' PROVE Owned'
<1> DEFINE s == services[cursor]
           Started(log, main) ==
               /\ services' = [services EXCEPT ![cursor] =
                                  WithMain(WithLogger(s, log), main)]
               /\ procs' = [p \in Pids |->
                               IF p = main THEN NewProc("main", s.name)
                               ELSE IF p = log THEN NewProc("log", s.name)
                               ELSE procs[p]]
<1>1. /\ s \in Service /\ cursor \in Slots
      /\ s.active /\ s.pid = None
      /\ pc # "done"
  BY DEF StartService, Startable, Owned, TypeOK
<1>2. PICK log \in IF s.has_log THEN ForkOutcomes(Free) ELSE {None} :
           \E main \in ForkOutcomes(Free \ {log}) : Started(log, main)
  BY DEF StartService
<1>3. PICK main \in ForkOutcomes(Free \ {log}) : Started(log, main)
  BY <1>2
<1>4. /\ log \in Free \cup {None} /\ main \in Free \cup {None}
      /\ main # None => main # log
      /\ log # None => s.has_log
  BY DEF ForkOutcomes, Free
<1>5. LET t == services'[cursor]
      IN  /\ t.active /\ t.name = s.name
          /\ t.pid = main
          /\ t.log_pid = IF log = None THEN s.log_pid ELSE log
  BY <1>1, <1>3, <1>4 DEF WithMain, WithLogger, Service, Owned, TypeOK
<1>6. \A j \in Slots : j # cursor => services'[j] = services[j]
  BY <1>3 DEF Owned, TypeOK
<1>7. \A p \in Pids :
          /\ p = main => procs'[p].role = "main" /\ procs'[p].name = s.name
          /\ p = log => procs'[p].role = "log" /\ procs'[p].name = s.name
          /\ p # main /\ p # log => procs'[p] = procs[p]
  BY <1>3, <1>4 DEF NewProc
<1> HIDE DEF s, Started
<1>8. \A j \in Slots :
          /\ services[j].pid # None =>
                 services[j].pid \in Pids \ {main, log}
          /\ services[j].log_pid # None =>
                 services[j].log_pid \in Pids \ {main, log}
  <2>1. \A j \in Slots : /\ services[j].pid \in Pids \cup {None}
                         /\ services[j].log_pid \in Pids \cup {None}
    BY DEF Owned, TypeOK, Service
  <2>2. \A j \in Slots : /\ services[j].pid \notin Free
                         /\ services[j].log_pid \notin Free
    BY <1>1, NobodyFree
  <2> QED
    BY <1>4, <2>1, <2>2
<1>9. PidsTracked'
  <2>1. ASSUME NEW j \in Slots, j # cursor
        PROVE  LET t == services'[j]
               IN  /\ t.pid # None => /\ t.active
                                      /\ procs'[t.pid].role = "main"
                                      /\ procs'[t.pid].name = t.name
                   /\ t.log_pid # None => /\ t.active
                                          /\ procs'[t.log_pid].role = "log"
                                          /\ procs'[t.log_pid].name = t.name
    BY <1>1, <1>6, <1>7, <1>8, <2>1 DEF Owned, PidsTracked
  <2>2. LET t == services'[cursor]
        IN  /\ t.pid # None => /\ t.active
                               /\ procs'[t.pid].role = "main"
                               /\ procs'[t.pid].name = t.name
            /\ t.log_pid # None => /\ t.active
                                   /\ procs'[t.log_pid].role = "log"
                                   /\ procs'[t.log_pid].name = t.name
    <3>1. s.log_pid # None => /\ procs'[s.log_pid].role = "log"
                              /\ procs'[s.log_pid].name = s.name
      BY <1>1, <1>7, <1>8 DEF Owned, PidsTracked, s
    <3>2. main \in Pids \cup {None} /\ log \in Pids \cup {None}
      BY <1>4 DEF Free
    <3> QED
      BY <1>5, <1>7, <3>1, <3>2
  <2> QED
    BY <2>1, <2>2 DEF PidsTracked
<1>10. OneInstance'
  <2>1. \A j \in Slots : services'[j].active = services[j].active
                         /\ services'[j].name = services[j].name
    <3>1. services'[cursor].active = TRUE /\ services[cursor].active = TRUE
      BY <1>1, <1>5 DEF s, Owned, TypeOK, Service
    <3>2. services'[cursor].name = services[cursor].name
      BY <1>5 DEF s
    <3> QED
      BY <1>6, <3>1, <3>2
  <2>2. \A j, k \in Slots : services'[j].active /\ services'[k].active
                            /\ services'[j].name = services'[k].name => j = k
    BY <2>1 DEF Owned, OneInstance
  <2>3. \A p \in Pids : procs[p].role = "main" => procs[p].name # s.name
    BY <1>1 DEF Owned, PidsTracked, OneInstance, IsMain, s
  <2>4. \A p \in Pids : procs'[p].role = "main" =>
            \/ p = main /\ procs'[p].name = s.name
            \/ p # main /\ procs'[p] = procs[p]
    BY <1>7
  <2>5. \A p \in Pids : procs'[p].role = "main" /\ pc' # "done" => IsMain(p)'
    <3>1. ASSUME NEW p \in Pids, procs'[p].role = "main"
          PROVE  \E j \in Slots : services'[j].active /\ services'[j].pid = p
      <4>1. CASE p = main
        BY <1>1, <1>5, <4>1
      <4>2. CASE p # main
        <5>1. PICK j \in Slots : services[j].active /\ services[j].pid = p
          BY <1>1, <2>4, <3>1, <4>2 DEF Owned, OneInstance, IsMain
        <5>2. j # cursor
          BY <1>1, <5>1 DEF s
        <5> QED
          BY <1>6, <5>1, <5>2
      <4> QED
        BY <4>1, <4>2
    <3> QED
      BY <3>1 DEF IsMain
  <2>6. \A p, q \in Pids :
            procs'[p].role = "main" /\ procs'[q].role = "main"
            /\ procs'[p].name = procs'[q].name => p = q
    BY <2>3, <2>4 DEF Owned, OneInstance
  <2> QED
    BY <2>2, <2>5, <2>6 DEF OneInstance
<1> QED
  BY <1>9, <1>10 DEF Owned

\* The start loop: a slot is passed over, postponed or started.
LEMMA StartOwned == Owned /\ Start => Owned'
<1> SUFFICES ASSUME Owned, Start PROVE Owned'
  OBVIOUS
<1>1. TypeOK' /\ TypeOK
  BY StartStepType DEF Owned
<1>2. ASSUME PassSlot PROVE Owned'
  <2>1. SameSlots /\ SameChildren /\ pc # "done"
    BY <1>2 DEF PassSlot, kernel_vars, SameSlots, SameChildren
  <2> QED
    BY <1>1, <2>1, SameOwners
<1>3. ASSUME PostponeStart PROVE Owned'
  <2>1. \A t \in Service : SameSlot([t EXCEPT !.restart_at = "later"], t)
    BY DEF Service
  <2>2. SameSlots /\ SameChildren /\ pc # "done"
    BY <1>1, <1>3, <2>1
    DEF PostponeStart, kernel_vars, SameSlots, SameChildren, TypeOK
  <2> QED
    BY <1>1, <2>2, SameOwners
<1> QED
  BY <1>1, <1>2, <1>3, StartServiceOwned DEF Start

-----------------------------------------------------------------------------
(* Poll, the commands and the shutdown.                                    *)

\* Reading the self-pipe and accepting a client change no slot and no child.
LEMMA PollOwned == Owned /\ Poll => Owned'
<1> SUFFICES ASSUME Owned, Poll PROVE Owned'
  OBVIOUS
<1>1. TypeOK'
  BY PollType DEF Owned
<1>2. SameSlots /\ SameChildren /\ pc # "done"
  BY DEF Poll, PollInterrupted, NoSignal, NoClient, Accept, DrainSignalPipe,
         kernel_vars, SameSlots, SameChildren
<1> QED
  BY <1>1, <1>2, SameOwners

\* A check script gets a free pid, which no slot holds.
LEMMA CmdCheckOwned ==
    ASSUME Owned, NEW n \in Names, NEW i \in Slots, CmdCheck(n, i), TypeOK'
    PROVE  Owned'
<1>1. PICK c \in Free : procs' = [procs EXCEPT ![c] = NewProc("check", n)]
  BY DEF CmdCheck
<1>2. services' = services /\ pc # "done"
  BY DEF CmdCheck
<1>3. /\ c \in Pids /\ procs[c].role = "none" /\ procs'[c].role = "check"
      /\ \A q \in Pids : q # c => procs'[q] = procs[q]
  BY <1>1 DEF Free, NoProc, NewProc, Owned, TypeOK
<1>4. \A j \in Slots : /\ services[j].pid \in (Pids \cup {None}) \ {c}
                       /\ services[j].log_pid \in (Pids \cup {None}) \ {c}
  BY <1>2, <1>3 DEF Owned, PidsTracked, TypeOK, Service
<1>5. PidsTracked'
  BY <1>2, <1>3, <1>4 DEF Owned, PidsTracked
<1>6. OneInstance'
  BY <1>2, <1>3 DEF Owned, OneInstance, IsMain
<1> QED
  BY <1>5, <1>6 DEF Owned

\* A command marks services, signals them, and changes files.
LEMMA CommandOwned ==
    ASSUME Owned, NEW n \in Names, NEW i \in Slots,
           \/ CmdStart(n, i) \/ CmdStop(n, i) \/ CmdRestart(n, i)
           \/ CmdDown(n, i) \/ CmdUp(n, i) \/ CmdOnce(n, i) \/ CmdSignal(n, i)
    PROVE  SameSlots /\ SameChildren /\ pc # "done"
<1>1. TypeOK
  BY DEF Owned
<1> USE DEF Receive, kernel_vars, SameSlots
<1>2. SameChildren
  <2>1. CASE UNCHANGED procs
    BY <2>1 DEF SameChildren
  <2>2. CASE \E sig, P : Signal(sig, P)
    BY <1>1, <2>2, SignalSame
  <2> QED
    BY <2>1, <2>2 DEF CmdStart, CmdStop, CmdRestart, CmdDown, CmdUp, CmdOnce,
                      CmdSignal, Kill
<1>3. \A t \in Service :
          /\ SameSlot([t EXCEPT !.manual_start = TRUE, !.restart_at = "due",
                                !.stopping = FALSE], t)
          /\ SameSlot([t EXCEPT !.auto_start = TRUE, !.restart_at = "due",
                                !.stopping = FALSE], t)
          /\ SameSlot([t EXCEPT !.once = TRUE], t)
          /\ SameSlot([t EXCEPT !.auto_start = FALSE], t)
          /\ SameSlot([t EXCEPT !.manual_start = TRUE], t)
  BY DEF Service
<1>4. CASE CmdStart(n, i)
  BY <1>1, <1>2, <1>3, <1>4 DEF CmdStart, TypeOK
<1>5. CASE CmdStop(n, i)
  <2>1. stop_transitive_deps(services) \in [Slots -> Service]
    BY <1>1, HaltType DEF stop_transitive_deps, TypeOK
  <2>2. services' = [stop_transitive_deps(services)
                        EXCEPT ![i] = HaltWithLog(@)]
    BY <1>5 DEF CmdStop
  <2>3. SameSlots
    BY <1>1, <2>1, <2>2, CascadeSame, HaltSame
  <2> QED
    BY <1>2, <1>5, <2>3 DEF CmdStop
<1>6. CASE CmdRestart(n, i)
  BY <1>1, <1>2, <1>3, <1>6, HaltSame, HaltType DEF CmdRestart, TypeOK
<1>7. CASE CmdDown(n, i)
  <2>1. PICK t \in {services[i], HaltWithLog(services[i])} :
            services' =
                [services EXCEPT ![i] = [t EXCEPT !.auto_start = FALSE]]
    BY <1>7 DEF CmdDown
  <2>2. t \in Service
    BY <1>1, HaltType DEF TypeOK
  <2>3. SameSlots
    BY <1>1, <1>3, <2>1, <2>2, HaltSame DEF TypeOK
  <2> QED
    BY <1>2, <1>7, <2>3 DEF CmdDown
<1>8. CASE CmdUp(n, i)
  BY <1>1, <1>2, <1>3, <1>8 DEF CmdUp, TypeOK
<1>9. CASE CmdOnce(n, i)
  BY <1>1, <1>2, <1>3, <1>9 DEF CmdOnce, TypeOK
<1>10. CASE CmdSignal(n, i)
  BY <1>2, <1>10 DEF CmdSignal
<1> QED
  BY <1>4, <1>5, <1>6, <1>7, <1>8, <1>9, <1>10

\* All commands, and the check script that is waited for.
LEMMA ServeOwned == Owned /\ Serve => Owned'
<1> SUFFICES ASSUME Owned, Serve PROVE Owned'
  OBVIOUS
<1>1. TypeOK'
  BY ServeType DEF Owned
<1>2. ASSUME NEW n \in Names, NEW i \in Slots,
             \/ CmdStart(n, i) \/ CmdStop(n, i) \/ CmdRestart(n, i)
             \/ CmdDown(n, i) \/ CmdUp(n, i) \/ CmdOnce(n, i)
             \/ CmdSignal(n, i)
      PROVE  Owned'
  BY <1>1, <1>2, CommandOwned, SameOwners
<1>3. ASSUME NEW n \in Names, NEW i \in Slots, CmdCheck(n, i) PROVE Owned'
  BY <1>1, <1>3, CmdCheckOwned
<1>4. ASSUME CmdReload \/ Query PROVE Owned'
  <2>1. SameSlots /\ SameChildren /\ pc # "done"
    BY <1>4
    DEF CmdReload, Query, Receive, kernel_vars, SameSlots, SameChildren
  <2> QED
    BY <1>1, <2>1, SameOwners
<1>5. ASSUME NEW c \in Pids, CheckDone(c) PROVE Owned'
  <2>1. /\ procs[c].role \notin {"main", "log"} /\ pc # "done"
        /\ procs' = [procs EXCEPT ![c] = NoProc] /\ SameSlots
    BY <1>5 DEF CheckDone, SameSlots
  <2> QED
    BY <1>1, <2>1, ForgetChild
<1> QED
  BY <1>2, <1>3, <1>4, <1>5 DEF Serve, Command

\* The shutdown signals and waits; what it forgets at the very end, when the
\* supervisor returns, it forgets on purpose.
LEMMA ShutdownOwned == Owned /\ Shutdown => Owned'
<1> SUFFICES ASSUME Owned, Shutdown PROVE Owned'
  OBVIOUS
<1>1. TypeOK' /\ TypeOK
  BY ShutdownType DEF Owned
<1>2. ASSUME StopAll PROVE Owned'
  <2>1. \A t \in Service : \A b :
            /\ SameSlot(t, t)
            /\ SameSlot([t EXCEPT !.log_stopping = (@ \/ b)], t)
            /\ SameSlot([Halt(t) EXCEPT !.log_stopping = (@ \/ b)], t)
    BY DEF Service, Halt
  <2>2. \A i \in Slots : services[i] \in Service
    BY <1>1 DEF TypeOK
  <2> HIDE DEF SameSlot
  <2>3. SameSlots
    BY <1>2, <2>1, <2>2 DEF StopAll, StoppedAll, SameSlots
  <2>4. SameChildren /\ pc # "done"
    BY <1>1, <1>2, KillSame DEF StopAll
  <2> QED
    BY <1>1, <2>3, <2>4, SameOwners
<1>3. ASSUME SettleAgain PROVE Owned'
  <2>1. SameSlots /\ SameChildren /\ pc # "done"
    BY <1>3 DEF SettleAgain, kernel_vars, SameSlots, SameChildren
  <2> QED
    BY <1>1, <2>1, SameOwners
<1>4. ASSUME KillRest PROVE Owned'
  <2>1. \A r \in Proc : LET k == [r EXCEPT !.stage = "ending"]
                        IN  k.role = r.role /\ k.name = r.name
    BY DEF Proc
  <2>2. \A p \in Pids :
            procs'[p] \in {procs[p], [procs[p] EXCEPT !.stage = "ending"]}
    BY <1>4 DEF KillRest
  <2>3. SameChildren
    BY <1>1, <2>1, <2>2 DEF SameChildren, TypeOK
  <2>4. SameSlots /\ pc # "done"
    BY <1>4 DEF KillRest, SameSlots
  <2> QED
    BY <1>1, <2>3, <2>4, SameOwners
<1>5. ASSUME CloseAll PROVE Owned'
  <2>1. pc' = "done" /\ procs' = procs
    BY <1>5 DEF CloseAll, kernel_vars
  <2>2. \A i \in Slots : /\ services'[i].active = services[i].active
                         /\ services'[i].name = services[i].name
    <3>1. \A t \in Service :
              LET u == [t EXCEPT !.pid = None, !.log_pid = None,
                                 !.state = "DOWN"]
              IN  u.active = t.active /\ u.name = t.name
      BY DEF Service
    <3> QED
      BY <1>1, <1>5, <3>1 DEF CloseAll, TypeOK
  <2> QED
    BY <1>1, <2>1, <2>2 DEF Owned, PidsTracked, OneInstance
<1> QED
  BY <1>2, <1>3, <1>4, <1>5 DEF Shutdown

-----------------------------------------------------------------------------
(* The theorems.                                                           *)

\* At the start the table is empty and there is no child.
LEMMA InitOwned == Init => Owned
<1> SUFFICES ASSUME Init PROVE Owned
  OBVIOUS
<1>1. TypeOK
  BY InitType
<1>2. \A i \in Slots : /\ ~services[i].active
                       /\ services[i].pid = None /\ services[i].log_pid = None
  BY DEF Init, SERVICE_EMPTY
<1>3. \A p \in Pids : procs[p].role = "none"
  BY DEF Init, NoProc
<1> QED
  BY <1>1, <1>2, <1>3 DEF Owned, PidsTracked, OneInstance

\* Every step of the supervisor and of the world keeps the owners.
LEMMA StepOwned == Owned /\ [Next]_vars => Owned'
<1> SUFFICES ASSUME Owned, [Next]_vars PROVE Owned'
  OBVIOUS
<1>1. CASE Supervise
  BY <1>1, ReapOwned, ScanOwned, StartOwned, PollOwned, ShutdownOwned
  DEF Supervise
<1>2. CASE Serve
  BY <1>2, ServeOwned
<1>3. CASE Environment
  BY <1>3, EnvironmentOwned
<1>4. CASE UNCHANGED vars
  <2>1. TypeOK'
    BY <1>4 DEF vars, TypeOK, Owned
  <2> QED
    BY <1>4, <2>1, SameOwners DEF vars, SameSlots, SameChildren
<1> QED
  BY <1>1, <1>2, <1>3, <1>4 DEF Next, Terminating

\* The table and the children agree, and no two main processes are of one
\* service, in every reachable state.
LEMMA AlwaysOwned == Spec => []Owned
BY InitOwned, StepOwned, PTL DEF Spec

\* A pid in the table is a child, not waited for yet, of that slot's role and
\* name: reap_children() finds the right owner by the number alone, however
\* pids and slots are used again.
THEOREM PidsAreTracked == Spec => []PidsTracked
<1>1. Owned => PidsTracked
  BY DEF Owned
<1> QED
  BY <1>1, AlwaysOwned, PTL

\* A service has at most one main process and the table knows it, through
\* crashes, commands, failing forks and the removal and return of directories.
THEOREM OnlyOneInstance == Spec => []OneInstance
<1>1. Owned => OneInstance
  BY DEF Owned
<1> QED
  BY <1>1, AlwaysOwned, PTL

=============================================================================
