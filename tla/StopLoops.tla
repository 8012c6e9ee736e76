------------------------------- MODULE StopLoops -------------------------------
(***************************************************************************)
(* The two loops of service.rs that stop services, slot by slot:           *)
(*                                                                         *)
(*   stop_transitive_deps()  pass over the table until a pass changes      *)
(*                           nothing;                                      *)
(*   stop_all_in_order()     put the running services into an order, then  *)
(*                           signal them, then signal those left over.     *)
(*                                                                         *)
(* Supervisor takes either of them as one step: the first as the least set *)
(* closed under the propagation (Doomed), the second as the set of the     *)
(* processes that are signalled (StoppedAll, ShutdownPids).  This module   *)
(* shows what the loops do to one table, and that it is that.              *)
(*                                                                         *)
(* Neither loop waits for anything or looks at a child, so nothing of the  *)
(* supervisor but services, cursor (the loop index) and the locals below   *)
(* takes part.                                                             *)
(***************************************************************************)
EXTENDS Supervisor

CONSTANT Tables   \* the tables the loops are called on

\* What the slots of SERVICES never share: names (OneInstance) and processes
\* (PidsTracked).
Separate(T) ==
    \A i, j \in Slots :
        /\ T[i].active /\ T[j].active /\ T[i].name = T[j].name => i = j
        /\ T[i].pid # None /\ T[i].pid = T[j].pid => i = j
        /\ T[i].log_pid # None /\ T[i].log_pid = T[j].log_pid => i = j
        /\ T[i].pid # None => T[i].pid # T[j].log_pid

ASSUME TablesAssumption ==
    Tables \subseteq [Slots -> Service] /\ \A T \in Tables : Separate(T)

VARIABLES
    at,         \* where the loop is
    entry,      \* the table when the loop was entered
    changed,    \* `changed', and `found' of the ordering loop
    remaining,  \* remaining[]: the slots not yet in the order
    order,      \* order[0..pos]; the slots signalled are taken off
    sent        \* the pids sent TERM, oldest first

others == <<stop_deps, reload_needed, unread, phase, pc, kernel_vars,
            file_vars, entry>>
lvars == <<vars, at, entry, changed, remaining, order, sent>>

Places == {"cascade", "cascaded", "order", "signal", "rest", "stopped"}

LoopTypeOK ==
    /\ services \in [Slots -> Service]
    /\ cursor \in Slots
    /\ at \in Places
    /\ entry \in [Slots -> Service]
    /\ changed \in BOOLEAN
    /\ remaining \subseteq Slots
    /\ order \in Seq(Slots)
    /\ sent \in Seq(Pids)

LoopInit ==
    /\ services \in Tables
    /\ at \in {"cascade", "order"}
    /\ entry = services
    /\ changed = FALSE
    /\ remaining = IF at = "order" THEN ShutdownTargets(services) ELSE {}
    /\ order = <<>>
    /\ sent = <<>>
    /\ stop_deps = FALSE /\ reload_needed = FALSE /\ unread = {}
    /\ cursor = 1 /\ pc = "reap" /\ phase = "serve"
    /\ procs = [p \in Pids |-> NoProc] /\ sig_pipe = <<>>
    /\ run_files = {} /\ down_files = {} /\ once_files = {}

-----------------------------------------------------------------------------
(* What the loops look at and do.                                          *)

\* find_service_by_name(): the first active slot of that name, 0 for none.
find_service_by_name(T, n) ==
    LET found == {i \in Slots : T[i].active /\ T[i].name = n}
    IN  IF found = {} THEN 0
        ELSE CHOOSE i \in found : \A j \in found : i <= j

\* `depends': a hard dependency is not there or not running.
LacksDep(T, i) ==
    \E d \in HardDeps[T[i].name] :
        LET k == find_service_by_name(T, d)
        IN  ~(k # 0 /\ T[k].state = "RUNNING")

ReadyAtOnce(T, left, i) == TRUE                                      \* mutant

\* `ready': no hard dependency is still to be put into the order.
Ready(T, left, i) ==
    \A d \in HardDeps[T[i].name] : find_service_by_name(T, d) \notin left

StopOneMain(i) ==                                                    \* mutant
    /\ services' = [services EXCEPT ![i] =
                       IF @.pid = None THEN @ ELSE Halt(@)]
    /\ sent' = IF services[i].pid = None THEN sent
               ELSE Append(sent, services[i].pid)

\* One service of stop_all_in_order(): TERM to its main process, and to its
\* logger if that has not been told before.
StopOne(i) ==
    LET s == services[i]
        main == IF s.pid = None THEN <<>> ELSE <<s.pid>>
        log == IF s.log_pid = None \/ s.log_stopping THEN <<>>
               ELSE <<s.log_pid>>
    IN  /\ services' = [services EXCEPT ![i] =
               [IF s.pid = None THEN s ELSE Halt(s)
                EXCEPT !.log_stopping = (@ \/ s.log_pid # None)]]
        /\ sent' = sent \o main \o log

\* Mutants: one pass is enough; `changed' is not reset for a new pass; the
\* loop runs past the end of the table.
NextInPassOnce(c, again, after) ==
    IF cursor < MaxServices
    THEN cursor' = cursor + 1 /\ changed' = c /\ at' = at
    ELSE cursor' = 1 /\ changed' = FALSE /\ at' = after
NextInPassSticky(c, again, after) ==
    IF cursor < MaxServices
    THEN cursor' = cursor + 1 /\ changed' = c /\ at' = at
    ELSE cursor' = 1 /\ changed' = c /\ at' = IF c THEN again ELSE after
NextInPassBeyond(c, again, after) ==
    IF cursor <= MaxServices
    THEN cursor' = cursor + 1 /\ changed' = c /\ at' = at
    ELSE cursor' = 1 /\ changed' = FALSE /\ at' = IF c THEN again ELSE after

\* The pass goes on; or it has ended and there is another one, since something
\* has changed (c), or none.
NextInPass(c, again, after) ==
    IF cursor < MaxServices
    THEN cursor' = cursor + 1 /\ changed' = c /\ at' = at
    ELSE cursor' = 1 /\ changed' = FALSE /\ at' = IF c THEN again ELSE after

-----------------------------------------------------------------------------
(* stop_transitive_deps().                                                 *)

PassOver ==
    /\ at = "cascade"
    /\ ~(cursor \in Stoppable(services) /\ LacksDep(services, cursor))
    /\ NextInPass(changed, "cascade", "cascaded")
    /\ UNCHANGED <<services, sent, remaining, order, others>>

StopDependent ==
    /\ at = "cascade"
    /\ cursor \in Stoppable(services) /\ LacksDep(services, cursor)
    /\ services' = [services EXCEPT ![cursor] = Halt(@)]
    /\ sent' = Append(sent, services[cursor].pid)
    /\ NextInPass(TRUE, "cascade", "cascaded")
    /\ UNCHANGED <<remaining, order, others>>

-----------------------------------------------------------------------------
(* stop_all_in_order().                                                    *)

\* The loop ends when the order is complete (pos = count) or when a pass has
\* found nobody to put into it.
NextInOrder(found, left) ==
    NextInPass(found, IF left = {} THEN "signal" ELSE "order", "signal")

LeaveOut ==
    /\ at = "order"
    /\ ~(cursor \in remaining /\ Ready(services, remaining, cursor))
    /\ NextInOrder(changed, remaining)
    /\ UNCHANGED <<services, sent, remaining, order, others>>

PutInOrder ==
    /\ at = "order" /\ cursor \in remaining
    /\ Ready(services, remaining, cursor)
    /\ order' = Append(order, cursor)
    /\ remaining' = remaining \ {cursor}
    /\ NextInOrder(TRUE, remaining')
    /\ UNCHANGED <<services, sent, others>>

SignalInOrder ==
    /\ at = "signal" /\ order # <<>>
    /\ StopOne(Head(order))
    /\ order' = Tail(order)
    /\ UNCHANGED <<cursor, at, changed, remaining, others>>

EndOfOrder ==
    /\ at = "signal" /\ order = <<>>
    /\ at' = "rest"
    /\ UNCHANGED <<services, sent, cursor, changed, remaining, order, others>>

SignalRestOfAll ==                                                   \* mutant
    /\ at = "rest"
    /\ IF cursor \in ShutdownTargets(entry) THEN StopOne(cursor)
       ELSE UNCHANGED <<services, sent>>
    /\ NextInPass(FALSE, "rest", "stopped")
    /\ UNCHANGED <<remaining, order, others>>

\* Whoever is on a cycle of dependencies, or depends on one that is.
SignalRest ==
    /\ at = "rest"
    /\ IF cursor \in remaining THEN StopOne(cursor)
       ELSE UNCHANGED <<services, sent>>
    /\ NextInPass(FALSE, "rest", "stopped")
    /\ UNCHANGED <<remaining, order, others>>

Returned == at \in {"cascaded", "stopped"} /\ UNCHANGED lvars

LoopNext ==
    \/ PassOver \/ StopDependent
    \/ LeaveOut \/ PutInOrder \/ SignalInOrder \/ EndOfOrder \/ SignalRest
    \/ Returned

LoopSpec == LoopInit /\ [][LoopNext]_lvars

\* Nothing in the loops waits for anybody.
FairLoopSpec == LoopSpec /\ WF_lvars(LoopNext)

-----------------------------------------------------------------------------
(* What the loops compute.                                                 *)

SentTo == {sent[x] : x \in DOMAIN sent}

\* Repeating the pass over the slots until nothing changes stops the least
\* set of services that the rule "a hard dependency is not running" demands,
\* whatever the order of the slots and the cycles among the dependencies, and
\* TERM goes to just these: the one step that Supervisor takes.
CascadeIsLeast ==
    at = "cascaded" =>
        /\ services = stop_transitive_deps(entry)
        /\ SentTo = PidsOf(entry, Doomed(entry))

\* However the order comes out, stop_all_in_order() leaves out nobody: the
\* services on a cycle, which never become ready, and the loggers of services
\* without a main process are reached as well.
EverybodyIsStopped ==
    at = "stopped" =>
        /\ services = StoppedAll(entry)
        /\ SentTo = ShutdownPids(entry) \ {None}

\* The loops signal nobody twice: no slot is in the order and left over.
NobodyTwice == \A x, y \in DOMAIN sent : sent[x] = sent[y] => x = y

\* Slot i of the table T depends on slot j.
DependsOn(T, i, j) == T[j].active /\ T[j].name \in HardDeps[T[i].name]

\* The services the shutdown cannot put into an order: the greatest set in
\* which each one depends on another of the set.
Entangled(T) ==
    UNION {C \in SUBSET ShutdownTargets(T) :
              \A i \in C : \E j \in C : DependsOn(T, i, j)}

SentBefore(p, q) ==
    \E x, y \in DOMAIN sent : x < y /\ sent[x] = p /\ sent[y] = q

\* What the order of stop_all_in_order() is: a dependency is signalled before
\* those that depend on it, as at the start, and whoever cannot be ordered comes
\* last.  The README promises the opposite: see DependentsFirst.
DependenciesFirst ==
    at = "stopped" =>
        \A i, j \in {k \in ShutdownTargets(entry) : entry[k].pid # None} :
            /\ i # j /\ i \notin Entangled(entry)
            /\ DependsOn(entry, i, j) \/ j \in Entangled(entry)
            => IF j \in Entangled(entry)
               THEN SentBefore(entry[i].pid, entry[j].pid)
               ELSE SentBefore(entry[j].pid, entry[i].pid)

\* What the loop at this place has still to stop, to order or to signal.
Undone ==
    CASE at = "cascade" -> Stoppable(services)
      [] at = "order" -> remaining
      [] at = "signal" -> DOMAIN order
      [] OTHER -> {}

\* Why the loops end: a step goes on to the next loop, or leaves less to be
\* done, or begins another pass and takes `changed' back, or goes on to the
\* next slot.  So `changed' and `found' are set only by a step that has done
\* something, and a pass that has done nothing is the last.
LoopsShrink ==
    [][\/ <<at, at'>> \in {<<"cascade", "cascaded">>, <<"order", "signal">>,
                           <<"signal", "rest">>, <<"rest", "stopped">>}
       \/ /\ at' = at
          /\ \/ Undone' \subseteq Undone /\ Undone' # Undone
             \/ Undone' = Undone /\ changed /\ ~changed'
             \/ /\ Undone' = Undone /\ changed' = changed
                /\ cursor' = cursor + 1
    ]_lvars

\* Both loops end: each further pass has stopped or ordered somebody.
LoopsEnd == <>(at \in {"cascaded", "stopped"})

-----------------------------------------------------------------------------
(* What the README says and the code does not do.                          *)

\* README, Dependencies: "On supervisor shutdown, services are stopped in
\* reverse dependency order", and Shutdown: "All services are stopped in reverse
\* dependency order (SIGTERM sent to process groups)".  Whoever is on no cycle
\* is signalled before the services it depends on.
DependentsFirst ==
    at = "stopped" =>
        \A i, j \in {k \in ShutdownTargets(entry) : entry[k].pid # None} :
            /\ DependsOn(entry, i, j)
            /\ {i, j} \cap Entangled(entry) = {}
            => SentBefore(entry[i].pid, entry[j].pid)
=============================================================================
