------------------------------ MODULE LoopsProofs ------------------------------
(***************************************************************************)
(* The loops of service.rs, slot by slot, do what the single steps of      *)
(* Supervisor say, for every table and every dependency graph:             *)
(*                                                                         *)
(*   stop_transitive_deps()  stops the least fixpoint (Doomed), and        *)
(*   stop_all_in_order()     stops and signals everybody, once per slot    *)
(*                           and dependencies first.                       *)
(*                                                                         *)
(* The argument for the first is the usual one for a least fixpoint: what  *)
(* has been stopped so far is part of it, and it is closed when a whole    *)
(* pass has found nobody.  The argument for the order is the dual one: the *)
(* slots that are never put into it are the greatest set in which each     *)
(* one depends on another (Entangled), since they are closed when a whole  *)
(* pass has found all of them waiting, and none of that set is ever ready. *)
(***************************************************************************)
EXTENDS StopLoops, CascadeProofs, OwnershipProofs, SequenceTheorems

USE MaxServicesAssumption, NoneAssumption DEF Slots

-----------------------------------------------------------------------------
(* Sequences.                                                              *)

RangeOf(s) == {s[x] : x \in DOMAIN s}

\* What is in a sequence after something has been appended.
LEMMA RangeAppend ==
    ASSUME NEW S, NEW s \in Seq(S), NEW e \in S
    PROVE  /\ Append(s, e) \in Seq(S)
           /\ RangeOf(Append(s, e)) = RangeOf(s) \cup {e}
<1>1. /\ Append(s, e) \in Seq(S) /\ Len(s) \in Nat
      /\ DOMAIN s = 1..Len(s) /\ DOMAIN Append(s, e) = 1..(Len(s) + 1)
      /\ \A x \in 1..Len(s) : Append(s, e)[x] = s[x]
      /\ Append(s, e)[Len(s) + 1] = e
  OBVIOUS
<1>2. 1..(Len(s) + 1) = (1..Len(s)) \cup {Len(s) + 1}
  BY <1>1
<1> QED
  BY <1>1, <1>2 DEF RangeOf

\* What is in two sequences one after the other.
LEMMA RangeConcat ==
    ASSUME NEW S, NEW s \in Seq(S), NEW t \in Seq(S)
    PROVE  /\ s \o t \in Seq(S)
           /\ RangeOf(s \o t) = RangeOf(s) \cup RangeOf(t)
<1>1. /\ s \o t \in Seq(S) /\ Len(s) \in Nat /\ Len(t) \in Nat
      /\ DOMAIN s = 1..Len(s) /\ DOMAIN t = 1..Len(t)
      /\ DOMAIN (s \o t) = 1..(Len(s) + Len(t))
      /\ \A x \in 1..Len(s) : (s \o t)[x] = s[x]
      /\ \A x \in 1..Len(t) : (s \o t)[Len(s) + x] = t[x]
  OBVIOUS
<1>2. ASSUME NEW x \in DOMAIN (s \o t)
      PROVE  (s \o t)[x] \in RangeOf(s) \cup RangeOf(t)
  <2>1. CASE x \in 1..Len(s)
    BY <1>1, <2>1 DEF RangeOf
  <2>2. CASE x \notin 1..Len(s)
    <3>1. x - Len(s) \in 1..Len(t) /\ x = Len(s) + (x - Len(s))
      BY <1>1, <2>2
    <3> QED
      BY <1>1, <3>1 DEF RangeOf
  <2> QED
    BY <2>1, <2>2
<1>3. ASSUME NEW x \in DOMAIN s PROVE s[x] \in RangeOf(s \o t)
  <2>1. x \in DOMAIN (s \o t) /\ (s \o t)[x] = s[x]
    BY <1>1
  <2> QED
    BY <2>1 DEF RangeOf
<1>4. ASSUME NEW x \in DOMAIN t PROVE t[x] \in RangeOf(s \o t)
  <2>1. (s \o t)[Len(s) + x] = t[x]
    BY <1>1
  <2>2. x \in 1..Len(t)
    BY <1>1
  <2>3. Len(s) + x \in 1..(Len(s) + Len(t))
    BY <1>1, <2>2
  <2> QED
    BY <1>1, <2>1, <2>3 DEF RangeOf
<1> QED
  BY <1>1, <1>2, <1>3, <1>4 DEF RangeOf

Distinct(s) == \A x, y \in DOMAIN s : s[x] = s[y] => x = y

\* The head of a sequence without repetitions is not in its tail.
LEMMA HeadAndTail ==
    ASSUME NEW S, NEW s \in Seq(S), s # <<>>
    PROVE  /\ Head(s) \in S /\ Tail(s) \in Seq(S)
           /\ RangeOf(s) = {Head(s)} \cup RangeOf(Tail(s))
           /\ Distinct(s) => /\ Distinct(Tail(s))
                             /\ Head(s) \notin RangeOf(Tail(s))
<1>1. /\ Head(s) \in S /\ Tail(s) \in Seq(S) /\ Head(s) = s[1]
      /\ Len(s) \in Nat \ {0} /\ DOMAIN s = 1..Len(s)
      /\ DOMAIN Tail(s) = 1..(Len(s) - 1)
      /\ \A x \in 1..(Len(s) - 1) : Tail(s)[x] = s[x + 1]
  OBVIOUS
<1>2. RangeOf(s) \subseteq {Head(s)} \cup RangeOf(Tail(s))
  <2> SUFFICES ASSUME NEW x \in 1..Len(s), x # 1
               PROVE  s[x] \in RangeOf(Tail(s))
    BY <1>1 DEF RangeOf
  <2>1. x - 1 \in 1..(Len(s) - 1) /\ Tail(s)[x - 1] = s[x]
    BY <1>1
  <2> QED
    BY <1>1, <2>1 DEF RangeOf
<1>3. ASSUME NEW x \in 1..(Len(s) - 1)
      PROVE  Tail(s)[x] = s[x + 1] /\ x + 1 \in DOMAIN s /\ x + 1 # 1
  BY <1>1
<1>4. 1 \in DOMAIN s
  BY <1>1
<1>5. {Head(s)} \cup RangeOf(Tail(s)) \subseteq RangeOf(s)
  <2>1. Head(s) \in RangeOf(s)
    BY <1>1, <1>4 DEF RangeOf
  <2>2. RangeOf(Tail(s)) \subseteq RangeOf(s)
    BY <1>1, <1>3 DEF RangeOf
  <2> QED
    BY <2>1, <2>2
<1>6. ASSUME Distinct(s) PROVE Distinct(Tail(s))
  <2> SUFFICES ASSUME NEW x \in 1..(Len(s) - 1), NEW y \in 1..(Len(s) - 1),
                      Tail(s)[x] = Tail(s)[y]
               PROVE  x = y
    BY <1>1 DEF Distinct
  <2>1. x + 1 = y + 1
    BY <1>3, <1>6 DEF Distinct
  <2> QED
    BY <2>1
<1>7. ASSUME Distinct(s) PROVE Head(s) \notin RangeOf(Tail(s))
  <2> SUFFICES ASSUME NEW x \in 1..(Len(s) - 1), Tail(s)[x] = Head(s)
               PROVE  FALSE
    BY <1>1 DEF RangeOf
  <2>1. s[x + 1] = s[1] /\ x + 1 \in DOMAIN s /\ x + 1 # 1
    BY <1>1, <1>3
  <2> QED
    BY <1>4, <1>7, <2>1 DEF Distinct
<1> QED
  BY <1>1, <1>2, <1>5, <1>6, <1>7

\* A sequence stays without repetitions when something new is appended.
LEMMA DistinctAppend ==
    ASSUME NEW S, NEW s \in Seq(S), NEW e \in S, Distinct(s),
           e \notin RangeOf(s)
    PROVE  Distinct(Append(s, e))
<1>1. /\ Len(s) \in Nat
      /\ DOMAIN s = 1..Len(s) /\ DOMAIN Append(s, e) = 1..(Len(s) + 1)
      /\ \A x \in 1..Len(s) : Append(s, e)[x] = s[x]
      /\ Append(s, e)[Len(s) + 1] = e
  OBVIOUS
<1>2. \A x \in 1..(Len(s) + 1) : x \in 1..Len(s) \/ x = Len(s) + 1
  BY <1>1
<1> QED
  BY <1>1, <1>2 DEF Distinct, RangeOf

\* Two sequences without repetitions that have nothing in common.
LEMMA DistinctConcat ==
    ASSUME NEW S, NEW s \in Seq(S), NEW t \in Seq(S), Distinct(s), Distinct(t),
           RangeOf(s) \cap RangeOf(t) = {}
    PROVE  Distinct(s \o t)
<1>1. /\ Len(s) \in Nat /\ Len(t) \in Nat
      /\ DOMAIN s = 1..Len(s) /\ DOMAIN t = 1..Len(t)
      /\ DOMAIN (s \o t) = 1..(Len(s) + Len(t))
      /\ \A x \in 1..(Len(s) + Len(t)) :
             (s \o t)[x] = IF x <= Len(s) THEN s[x] ELSE t[x - Len(s)]
  OBVIOUS
<1>2. \A x \in 1..(Len(s) + Len(t)) :
          \/ /\ x \in DOMAIN s /\ (s \o t)[x] = s[x]
             /\ (s \o t)[x] \in RangeOf(s)
          \/ /\ x - Len(s) \in DOMAIN t /\ (s \o t)[x] = t[x - Len(s)]
             /\ (s \o t)[x] \in RangeOf(t) /\ x \notin DOMAIN s
  BY <1>1 DEF RangeOf
<1> QED
  BY <1>1, <1>2 DEF Distinct

\* p comes before q in s.
Precedes(s, p, q) == \E x, y \in DOMAIN s : x < y /\ s[x] = p /\ s[y] = q

\* What is appended comes last.
LEMMA PrecedesConcat ==
    ASSUME NEW S, NEW s \in Seq(S), NEW t \in Seq(S), NEW p, NEW q,
           Precedes(s, p, q) \/ (p \in RangeOf(s) /\ q \in RangeOf(t))
    PROVE  Precedes(s \o t, p, q)
<1>1. /\ Len(s) \in Nat /\ Len(t) \in Nat
      /\ DOMAIN s = 1..Len(s) /\ DOMAIN t = 1..Len(t)
      /\ DOMAIN (s \o t) = 1..(Len(s) + Len(t))
      /\ \A x \in 1..Len(s) : (s \o t)[x] = s[x]
      /\ \A x \in 1..Len(t) : (s \o t)[Len(s) + x] = t[x]
  OBVIOUS
<1>2. CASE Precedes(s, p, q)
  <2>1. PICK x, y \in DOMAIN s : x < y /\ s[x] = p /\ s[y] = q
    BY <1>2 DEF Precedes
  <2>2. /\ x \in DOMAIN (s \o t) /\ y \in DOMAIN (s \o t)
        /\ (s \o t)[x] = p /\ (s \o t)[y] = q
    BY <1>1, <2>1
  <2> QED
    BY <2>1, <2>2 DEF Precedes
<1>3. CASE p \in RangeOf(s) /\ q \in RangeOf(t)
  <2>1. PICK x \in DOMAIN s : s[x] = p
    BY <1>3 DEF RangeOf
  <2>2. PICK y \in DOMAIN t : t[y] = q
    BY <1>3 DEF RangeOf
  <2>3. /\ x \in DOMAIN (s \o t) /\ Len(s) + y \in DOMAIN (s \o t)
        /\ x < Len(s) + y
        /\ (s \o t)[x] = p /\ (s \o t)[Len(s) + y] = q
    BY <1>1, <2>1, <2>2
  <2> QED
    BY <2>3 DEF Precedes
<1> QED
  BY <1>2, <1>3

-----------------------------------------------------------------------------
(* Types.                                                                  *)

\* What stop_all_in_order() makes of a service, and whom it signals for it.
OneStopped(s) ==
    [IF s.pid = None THEN s ELSE Halt(s)
     EXCEPT !.log_stopping = (@ \/ s.log_pid # None)]

OnePids(s) ==
    ({s.pid} \cup (IF s.log_stopping THEN {} ELSE {s.log_pid})) \ {None}

\* The record of a service that is stopped is that of a service.
LEMMA OneStoppedType ==
    ASSUME NEW s \in Service
    PROVE  OneStopped(s) \in Service
<1>1. \A t \in Service, x \in BOOLEAN :
          [t EXCEPT !.log_stopping = (@ \/ x)] \in Service
  BY DEF Service
<1> QED
  BY <1>1, HaltType DEF OneStopped

\* One service of stop_all_in_order(): its slot and the signals.
LEMMA StopOneStep ==
    ASSUME LoopTypeOK, NEW i \in Slots, StopOne(i)
    PROVE  /\ services' = [services EXCEPT ![i] = OneStopped(services[i])]
           /\ services' \in [Slots -> Service]
           /\ sent' \in Seq(Pids)
           /\ SentTo' = SentTo \cup OnePids(services[i])
<1> DEFINE s == services[i]
           main == IF s.pid = None THEN <<>> ELSE <<s.pid>>
           log == IF s.log_pid = None \/ s.log_stopping THEN <<>>
                  ELSE <<s.log_pid>>
<1>1. s \in Service /\ s.pid \in Pids \cup {None}
      /\ s.log_pid \in Pids \cup {None} /\ sent \in Seq(Pids)
  BY DEF LoopTypeOK, Service
<1>2. services' = [services EXCEPT ![i] = OneStopped(s)]
      /\ sent' = sent \o main \o log
  BY DEF StopOne, OneStopped
<1>3. main \in Seq(Pids) /\ RangeOf(main) = {s.pid} \ {None}
  BY <1>1 DEF RangeOf
<1>4. log \in Seq(Pids)
      /\ RangeOf(log) = (IF s.log_stopping THEN {} ELSE {s.log_pid}) \ {None}
  BY <1>1 DEF RangeOf
<1> HIDE DEF main, log, s
<1>5. sent \o main \in Seq(Pids)
      /\ RangeOf(sent \o main) = RangeOf(sent) \cup RangeOf(main)
  BY <1>1, <1>3, RangeConcat
<1>6. sent' \in Seq(Pids)
      /\ RangeOf(sent') = RangeOf(sent) \cup RangeOf(main) \cup RangeOf(log)
  <2> DEFINE t == sent \o main
  <2>1. sent' = t \o log /\ t \in Seq(Pids)
    BY <1>2, <1>5
  <2> HIDE DEF t
  <2>2. t \o log \in Seq(Pids)
        /\ RangeOf(t \o log) = RangeOf(t) \cup RangeOf(log)
    BY <1>4, <2>1, RangeConcat
  <2> QED
    BY <1>5, <2>1, <2>2 DEF t
<1>7. SentTo' = SentTo \cup OnePids(s)
  BY <1>3, <1>4, <1>6 DEF SentTo, RangeOf, OnePids
<1>8. services' \in [Slots -> Service]
  BY <1>1, <1>2, OneStoppedType DEF LoopTypeOK
<1> QED
  BY <1>2, <1>6, <1>7, <1>8 DEF s

\* What it appends to the signals.
LEMMA StopOneSends ==
    ASSUME LoopTypeOK, NEW i \in Slots, StopOne(i),
           services[i].pid # None => services[i].pid # services[i].log_pid
    PROVE  \E u \in Seq(Pids) : /\ sent' = sent \o u /\ Distinct(u)
                                /\ RangeOf(u) = OnePids(services[i])
<1> DEFINE s == services[i]
           main == IF s.pid = None THEN <<>> ELSE <<s.pid>>
           log == IF s.log_pid = None \/ s.log_stopping THEN <<>>
                  ELSE <<s.log_pid>>
<1>1. s.pid \in Pids \cup {None} /\ s.log_pid \in Pids \cup {None}
      /\ sent \in Seq(Pids)
  BY DEF LoopTypeOK, Service
<1>2. sent' = (sent \o main) \o log
  BY DEF StopOne
<1>3. /\ main \in Seq(Pids) /\ RangeOf(main) = {s.pid} \ {None}
      /\ Distinct(main)
  BY <1>1 DEF RangeOf, Distinct
<1>4. /\ log \in Seq(Pids) /\ Distinct(log)
      /\ RangeOf(log) = (IF s.log_stopping THEN {} ELSE {s.log_pid}) \ {None}
  BY <1>1 DEF RangeOf, Distinct
<1>5. s.pid # None => s.pid # s.log_pid
  OBVIOUS
<1> HIDE DEF main, log, s
<1>6. /\ main \o log \in Seq(Pids)
      /\ RangeOf(main \o log) = RangeOf(main) \cup RangeOf(log)
  BY <1>3, <1>4, RangeConcat
<1>7. RangeOf(main \o log) = OnePids(s)
  BY <1>3, <1>4, <1>6 DEF OnePids
<1>8. Distinct(main \o log)
  BY <1>3, <1>4, <1>5, DistinctConcat
<1>9. sent' = sent \o (main \o log)
  BY <1>1, <1>2, <1>3, <1>4, ConcatAssociative
<1> QED
  BY <1>6, <1>7, <1>8, <1>9 DEF s

\* A pass stays within the table and ends where it should.
LEMMA NextInPassType ==
    ASSUME cursor \in Slots, at \in Places, NEW c \in BOOLEAN,
           NEW again \in Places, NEW after \in Places,
           NextInPass(c, again, after)
    PROVE  cursor' \in Slots /\ at' \in Places /\ changed' \in BOOLEAN
<1>1. CASE cursor < MaxServices
  BY <1>1 DEF NextInPass
<1>2. CASE ~(cursor < MaxServices)
  <2>1. cursor' = 1 /\ changed' = FALSE /\ at' = IF c THEN again ELSE after
    BY <1>2 DEF NextInPass
  <2>2. changed' \in BOOLEAN
    BY <2>1
  <2>3. cursor' \in Slots /\ at' \in Places
    BY <2>1
  <2> QED
    BY <2>2, <2>3
<1> QED
  BY <1>1, <1>2

\* What the loops are entered with has the right types.
LEMMA LoopInitType == LoopInit => LoopTypeOK
<1> SUFFICES ASSUME LoopInit PROVE LoopTypeOK
  OBVIOUS
<1>1. services \in [Slots -> Service]
  BY TablesAssumption DEF LoopInit
<1>2. ShutdownTargets(services) \subseteq Slots
  BY DEF ShutdownTargets
<1>3. order \in Seq(Slots) /\ sent \in Seq(Pids)
  BY DEF LoopInit
<1>4. remaining \subseteq Slots
  BY <1>2 DEF LoopInit
<1>5. cursor \in Slots /\ at \in Places
  BY DEF LoopInit, Places
<1>7. changed \in BOOLEAN
  BY DEF LoopInit
<1>6. entry \in [Slots -> Service]
  BY <1>1 DEF LoopInit
<1> QED
  BY <1>1, <1>3, <1>4, <1>5, <1>6, <1>7 DEF LoopTypeOK

\* LoopTypeOK is inductive by itself.
LEMMA LoopTypeStep == LoopTypeOK /\ [LoopNext]_lvars => LoopTypeOK'
<1> SUFFICES ASSUME LoopTypeOK, [LoopNext]_lvars PROVE LoopTypeOK'
  OBVIOUS
<1>p. {"cascade", "cascaded", "order", "signal", "rest", "stopped"} = Places
  BY DEF Places
<1>1. CASE PassOver
  BY <1>1, <1>p, NextInPassType DEF PassOver, LoopTypeOK, others
<1>2. CASE StopDependent
  <2>1. services[cursor] \in Service /\ services[cursor].pid \in Pids
    BY <1>2 DEF StopDependent, Stoppable, LoopTypeOK, Service
  <2>2. services' \in [Slots -> Service] /\ sent' \in Seq(Pids)
    BY <1>2, <2>1, HaltType DEF StopDependent, LoopTypeOK
  <2> QED
    BY <1>2, <2>2, <1>p, NextInPassType DEF StopDependent, LoopTypeOK, others
<1>3. CASE LeaveOut
  BY <1>3, <1>p, NextInPassType DEF LeaveOut, NextInOrder, LoopTypeOK, others
<1>4. CASE PutInOrder
  <2>1. order' \in Seq(Slots) /\ remaining' \subseteq Slots
    BY <1>4 DEF PutInOrder, LoopTypeOK
  <2> QED
    BY <1>4, <2>1, <1>p, NextInPassType
    DEF PutInOrder, NextInOrder, LoopTypeOK, others
<1>5. CASE SignalInOrder
  <2>1. Head(order) \in Slots /\ order' \in Seq(Slots)
    BY <1>5, HeadAndTail DEF SignalInOrder, LoopTypeOK
  <2> QED
    BY <1>5, <2>1, StopOneStep DEF SignalInOrder, LoopTypeOK, others
<1>6. CASE EndOfOrder
  BY <1>6, <1>p DEF EndOfOrder, LoopTypeOK, others
<1>7. CASE SignalRest
  <2>1. services' \in [Slots -> Service] /\ sent' \in Seq(Pids)
    BY <1>7, StopOneStep DEF SignalRest, LoopTypeOK
  <2> QED
    BY <1>7, <2>1, <1>p, NextInPassType DEF SignalRest, LoopTypeOK, others
<1>8. CASE UNCHANGED lvars
  BY <1>8 DEF lvars, vars, LoopTypeOK
<1> QED
  BY <1>1, <1>2, <1>3, <1>4, <1>5, <1>6, <1>7, <1>8 DEF LoopNext, Returned

\* The locals of both loops have the right types: the cursor stays within the
\* table whatever a pass finds, and whoever is signalled is a process.
THEOREM LoopTypeCorrect == LoopSpec => []LoopTypeOK
BY LoopInitType, LoopTypeStep, PTL DEF LoopSpec

-----------------------------------------------------------------------------
(* stop_transitive_deps() ends in the least fixpoint.                      *)

UniqueNames(T) ==
    \A i, j \in Slots :
        T[i].active /\ T[j].active /\ T[i].name = T[j].name => i = j

Lacking(i) == i \in Stoppable(services) /\ LacksDep(services, i)

\* What the loop has stopped so far.
Gone == {i \in Slots : services[i] # entry[i]}

\* Only the doomed have been stopped, TERM went to just these, and the slots
\* a pass without a change has left behind have their dependencies.
CascadeSoFar ==
    at \in {"cascade", "cascaded"} =>
        /\ Gone \subseteq Doomed(entry)
        /\ \A i \in Gone : services[i] = Halt(entry[i])
        /\ SentTo = PidsOf(entry, Gone)
        /\ at = "cascade" /\ ~changed =>
               \A i \in Slots : i < cursor => ~Lacking(i)
        /\ at = "cascaded" => \A i \in Slots : ~Lacking(i)

LoopInv == LoopTypeOK /\ entry \in Tables /\ CascadeSoFar

\* With unique names a search by name finds the one slot there is.
LEMMA FindByName ==
    ASSUME NEW T, UniqueNames(T), NEW n
    PROVE  /\ \A j \in Slots : T[j].active /\ T[j].name = n
                  => find_service_by_name(T, n) = j
           /\ find_service_by_name(T, n) # 0
              => /\ find_service_by_name(T, n) \in Slots
                 /\ T[find_service_by_name(T, n)].active
                 /\ T[find_service_by_name(T, n)].name = n
<1> DEFINE found == {i \in Slots : T[i].active /\ T[i].name = n}
<1>1. \A i, j \in found : i = j
  BY DEF UniqueNames
<1>2. ASSUME NEW j \in found PROVE find_service_by_name(T, n) = j
  <2>1. found = {j} /\ j \in Nat
    BY <1>1, <1>2
  <2>2. (CHOOSE i \in found : \A k \in found : i <= k) = j
    BY <2>1
  <2> QED
    BY <2>1, <2>2 DEF find_service_by_name
<1>3. found = {} => find_service_by_name(T, n) = 0
  BY DEF find_service_by_name
<1> QED
  BY <1>2, <1>3

\* Halting services does not touch their names.
LEMMA HaltKeeps ==
    \A s \in Service : /\ Halt(s).name = s.name /\ Halt(s).active = s.active
                        /\ Halt(s).state = "STOPPING" /\ Halt(s).stopping
BY DEF Halt, Service

\* The table in the middle of the cascade.
LEMMA Midway ==
    ASSUME LoopInv, at \in {"cascade", "cascaded"}
    PROVE  /\ UniqueNames(services)
           /\ \A i \in Slots : /\ services[i] \in Service
                                /\ entry[i] \in Service
                                /\ services[i].active = entry[i].active
                                /\ services[i].name = entry[i].name
           /\ \A i \in Gone : services[i].state = "STOPPING"
           /\ \A i \in Slots \ Gone : services[i] = entry[i]
<1>1. \A i \in Slots : services[i] \in Service /\ entry[i] \in Service
  BY DEF LoopInv, LoopTypeOK
<1>2. \A i \in Slots \ Gone : services[i] = entry[i]
  BY DEF Gone
<1>3. \A i \in Gone : /\ services[i].active = entry[i].active
                       /\ services[i].name = entry[i].name
                       /\ services[i].state = "STOPPING"
  BY <1>1, HaltKeeps DEF LoopInv, CascadeSoFar, Gone
<1>4. \A i \in Slots : /\ services[i].active = entry[i].active
                        /\ services[i].name = entry[i].name
  BY <1>2, <1>3
<1>5. UniqueNames(entry)
  BY TablesAssumption DEF LoopInv, Separate, UniqueNames
<1> QED
  BY <1>1, <1>2, <1>3, <1>4, <1>5 DEF UniqueNames

\* The loop stops nobody but the doomed.
LEMMA LackingIsDoomed ==
    ASSUME LoopInv, at = "cascade", NEW i \in Slots, Lacking(i)
    PROVE  i \in Doomed(entry) \ Gone
<1>1. i \notin Gone /\ services[i] = entry[i] /\ i \in Stoppable(entry)
  BY Midway DEF Lacking, Stoppable, LoopInv, CascadeSoFar, Gone
<1>2. PICK d \in HardDeps[services[i].name] :
          ~(/\ find_service_by_name(services, d) # 0
            /\ services[find_service_by_name(services, d)].state = "RUNNING")
  BY DEF Lacking, LacksDep
<1>3. ASSUME NEW j \in Slots \ Doomed(entry), entry[j].active,
             entry[j].name = d, entry[j].state = "RUNNING"
      PROVE  FALSE
  <2>1. services[j] = entry[j]
    BY Midway DEF LoopInv, CascadeSoFar
  <2>2. find_service_by_name(services, d) = j
    BY <1>3, <2>1, Midway, FindByName
  <2>3. j # 0
    OBVIOUS
  <2> QED
    BY <1>2, <1>3, <2>1, <2>2, <2>3
<1> QED
  BY <1>1, <1>2, <1>3, DoomedClosed DEF ClosedUnder

\* When nobody lacks a dependency, everybody doomed has been stopped.
LEMMA NobodyLacking ==
    ASSUME LoopInv, at = "cascaded"
    PROVE  Gone = Doomed(entry)
<1>1. ClosedUnder(entry, Gone)
  <2> SUFFICES ASSUME NEW i \in Stoppable(entry), i \notin Gone,
                      NEW d \in HardDeps[entry[i].name],
                      \A j \in Slots \ Gone :
                          ~(entry[j].active /\ entry[j].name = d
                            /\ entry[j].state = "RUNNING")
               PROVE  FALSE
    BY DEF ClosedUnder
  <2> DEFINE k == find_service_by_name(services, d)
  <2>1. i \in Slots /\ services[i] = entry[i] /\ i \in Stoppable(services)
    BY Midway DEF Stoppable
  <2>2. ~LacksDep(services, i)
    BY <2>1 DEF LoopInv, CascadeSoFar, Lacking
  <2>3. k # 0 /\ services[k].state = "RUNNING"
    BY <2>1, <2>2 DEF LacksDep
  <2>4. k \in Slots /\ services[k].active /\ services[k].name = d
    BY <2>3, Midway, FindByName
  <2>5. k \notin Gone
    BY <2>3, Midway
  <2> HIDE DEF k
  <2> QED
    BY <2>3, <2>4, <2>5, Midway
<1>2. Gone \in SUBSET Slots
  BY DEF Gone
<1>3. Doomed(entry) \subseteq Gone
  BY <1>1, <1>2 DEF Doomed
<1> QED
  BY <1>3 DEF LoopInv, CascadeSoFar

\* The loop is entered with nobody stopped.
LEMMA LoopInitInv == LoopInit => LoopInv
<1> SUFFICES ASSUME LoopInit PROVE LoopInv
  OBVIOUS
<1>1. Gone = {} /\ cursor = 1 /\ SentTo = {} /\ at # "cascaded"
  BY DEF LoopInit, Gone, SentTo
<1>2. PidsOf(entry, {}) = {}
  BY DEF PidsOf
<1>3. \A i \in Slots : ~(i < 1)
  OBVIOUS
<1> QED
  BY <1>1, <1>2, <1>3, LoopInitType DEF LoopInit, LoopInv, CascadeSoFar

\* A slot that the pass leaves as it is has its dependencies.
LEMMA PassOverStep == LoopInv /\ PassOver => CascadeSoFar'
<1> SUFFICES ASSUME LoopInv, PassOver PROVE CascadeSoFar'
  OBVIOUS
<1>1. /\ services' = services /\ entry' = entry /\ sent' = sent
      /\ at = "cascade" /\ ~Lacking(cursor)
      /\ NextInPass(changed, "cascade", "cascaded")
  BY DEF PassOver, others, Lacking
<1>2. Gone' = Gone /\ SentTo' = SentTo /\ \A i : Lacking(i)' = Lacking(i)
  BY <1>1 DEF Gone, SentTo, Lacking, LacksDep, Stoppable,
              find_service_by_name
<1>3. /\ Gone \subseteq Doomed(entry)
      /\ \A i \in Gone : services[i] = Halt(entry[i])
      /\ SentTo = PidsOf(entry, Gone)
      /\ ~changed => \A i \in Slots : i < cursor => ~Lacking(i)
  BY <1>1 DEF LoopInv, CascadeSoFar
<1>4. cursor \in Slots
  BY DEF LoopInv, LoopTypeOK
<1>5. at' = "cascade" /\ ~changed'
      => \A i \in Slots : i < cursor' => ~Lacking(i)
  <2>1. CASE cursor < MaxServices
    <3>1. cursor' = cursor + 1 /\ changed' = changed
      BY <1>1, <2>1 DEF NextInPass
    <3>2. \A i \in Slots : i < cursor + 1 => i < cursor \/ i = cursor
      BY <1>4
    <3> QED
      BY <1>1, <1>3, <3>1, <3>2
  <2>2. CASE ~(cursor < MaxServices)
    <3>1. cursor' = 1
      BY <1>1, <2>2 DEF NextInPass
    <3> QED
      BY <3>1
  <2> QED
    BY <2>1, <2>2
<1>6. at' = "cascaded" => \A i \in Slots : ~Lacking(i)
  <2> SUFFICES ASSUME at' = "cascaded" PROVE \A i \in Slots : ~Lacking(i)
    OBVIOUS
  <2>1. ~(cursor < MaxServices) /\ ~changed
    BY <1>1 DEF NextInPass
  <2>2. \A i \in Slots : i < cursor \/ i = cursor
    BY <1>4, <2>1
  <2> QED
    BY <1>1, <1>3, <2>1, <2>2
<1> QED
  BY <1>1, <1>2, <1>3, <1>5, <1>6 DEF CascadeSoFar

\* A slot that is stopped is one of the doomed, and another pass follows.
LEMMA StopDependentStep == LoopInv /\ StopDependent => CascadeSoFar'
<1> SUFFICES ASSUME LoopInv, StopDependent PROVE CascadeSoFar'
  OBVIOUS
<1>1. /\ services' = [services EXCEPT ![cursor] = Halt(services[cursor])]
      /\ entry' = entry /\ at = "cascade" /\ Lacking(cursor)
      /\ sent' = Append(sent, services[cursor].pid)
      /\ NextInPass(TRUE, "cascade", "cascaded")
  BY DEF StopDependent, others, Lacking
<1>2. /\ cursor \in Slots /\ services \in [Slots -> Service]
      /\ sent \in Seq(Pids)
  BY DEF LoopInv, LoopTypeOK
<1>3. cursor \in Doomed(entry) \ Gone
  BY <1>1, <1>2, LackingIsDoomed
<1>4. services[cursor] = entry[cursor] /\ entry[cursor] \in Service
  BY <1>1, <1>2, <1>3, Midway
<1>5. entry[cursor].state = "RUNNING" /\ entry[cursor].pid \in Pids
  BY <1>3, <1>4 DEF Doomed, Stoppable, Service
<1>6. Halt(entry[cursor]) # entry[cursor]
  BY <1>4, <1>5, HaltKeeps
<1>7. Gone' = Gone \cup {cursor}
  BY <1>1, <1>2, <1>4, <1>6 DEF Gone
<1>8. \A i \in Gone' : services'[i] = Halt(entry[i])
  BY <1>1, <1>2, <1>4, <1>7 DEF LoopInv, CascadeSoFar, Gone
<1>9. SentTo' = SentTo \cup {entry[cursor].pid}
  <2>1. sent' = Append(sent, entry[cursor].pid)
    BY <1>1, <1>4
  <2>2. RangeOf(sent') = RangeOf(sent) \cup {entry[cursor].pid}
    BY <1>2, <1>5, <2>1, RangeAppend
  <2> QED
    BY <2>2 DEF SentTo, RangeOf
<1>10. SentTo' = PidsOf(entry, Gone')
  BY <1>1, <1>7, <1>9 DEF LoopInv, CascadeSoFar, PidsOf
<1>11. at' = "cascade" /\ (~changed' => cursor' = 1)
  BY <1>1 DEF NextInPass
<1>12. \A i \in Slots : ~(i < 1)
  OBVIOUS
<1>13. Gone' \subseteq Doomed(entry)
  BY <1>1, <1>3, <1>7 DEF LoopInv, CascadeSoFar
<1> QED
  BY <1>1, <1>8, <1>10, <1>11, <1>12, <1>13 DEF CascadeSoFar

\* stop_all_in_order() is not that loop, and no step goes from one to the
\* other.
LEMMA LoopInvStep == LoopInv /\ [LoopNext]_lvars => LoopInv'
<1> SUFFICES ASSUME LoopInv, [LoopNext]_lvars PROVE LoopInv'
  OBVIOUS
<1>1. LoopTypeOK'
  BY LoopTypeStep DEF LoopInv
<1>2. entry' = entry
  BY DEF LoopNext, PassOver, StopDependent, LeaveOut, PutInOrder,
         SignalInOrder, EndOfOrder, SignalRest, Returned, others, lvars
<1>3. CASE PassOver
  BY <1>3, PassOverStep, <1>1, <1>2 DEF LoopInv
<1>4. CASE StopDependent
  BY <1>4, StopDependentStep, <1>1, <1>2 DEF LoopInv
<1>5. CASE LeaveOut \/ PutInOrder
  <2>1. at' \in {"order", "signal"}
    BY <1>5 DEF LeaveOut, PutInOrder, NextInOrder, NextInPass
  <2> QED
    BY <1>1, <1>2, <2>1 DEF LoopInv, CascadeSoFar
<1>6. CASE SignalInOrder \/ EndOfOrder \/ SignalRest
  <2>1. at' \in {"signal", "rest", "stopped"}
    BY <1>6 DEF SignalInOrder, EndOfOrder, SignalRest, NextInPass
  <2> QED
    BY <1>1, <1>2, <2>1 DEF LoopInv, CascadeSoFar
<1>7. CASE UNCHANGED lvars
  <2>1. UNCHANGED <<services, at, entry, changed, cursor, sent>>
    BY <1>7 DEF lvars, vars
  <2>2. Gone' = Gone /\ SentTo' = SentTo
        /\ \A i \in Slots : Lacking(i)' = Lacking(i)
    BY <2>1 DEF Gone, SentTo, Lacking, LacksDep, Stoppable,
                find_service_by_name
  <2>3. CascadeSoFar'
    BY <2>1, <2>2 DEF LoopInv, CascadeSoFar
  <2> QED
    BY <1>1, <2>1, <2>3 DEF LoopInv
<1> QED
  BY <1>3, <1>4, <1>5, <1>6, <1>7 DEF LoopNext, Returned

\* The loop of stop_transitive_deps() is the one step that Supervisor takes:
\* for every table and dependency graph it stops the least set closed under
\* the propagation, and TERM goes to the processes of this set.
THEOREM CascadeLoopIsLeast == LoopSpec => []CascadeIsLeast
<1>1. LoopInv => CascadeIsLeast
  <2> SUFFICES ASSUME LoopInv, at = "cascaded"
               PROVE  /\ services = stop_transitive_deps(entry)
                      /\ SentTo = PidsOf(entry, Doomed(entry))
    BY DEF CascadeIsLeast
  <2>1. Gone = Doomed(entry)
    BY NobodyLacking
  <2>2. /\ \A i \in Gone : services[i] = Halt(entry[i])
        /\ SentTo = PidsOf(entry, Gone)
    BY DEF LoopInv, CascadeSoFar
  <2>3. services \in [Slots -> Service]
    BY DEF LoopInv, LoopTypeOK
  <2>4. services = stop_transitive_deps(entry)
    BY <2>1, <2>2, <2>3, Midway DEF stop_transitive_deps
  <2> QED
    BY <2>1, <2>2, <2>4
<1> QED
  BY <1>1, LoopInitInv, LoopInvStep, PTL DEF LoopSpec

-----------------------------------------------------------------------------
(* stop_all_in_order() stops everybody.                                    *)

Targets == ShutdownTargets(entry)

\* The services still to be signalled: in the order, or left over by it.
Waiting ==
    CASE at \in {"order", "signal"} -> RangeOf(order) \cup remaining
      [] at = "rest" -> {i \in remaining : i >= cursor}
      [] OTHER -> {}

\* The slots are split into those signalled and those waiting, and none waits
\* twice, so that it is signalled in the state it was found in.
OrderSoFar ==
    at \in {"order", "signal", "rest", "stopped"} =>
        /\ RangeOf(order) \cup remaining \subseteq Targets
        /\ RangeOf(order) \cap remaining = {}
        /\ Distinct(order)
        /\ at = "order" => Waiting = Targets
        /\ at = "signal" => cursor = 1
        /\ \A i \in Slots : services[i] =
               IF i \in Targets \ Waiting THEN OneStopped(entry[i])
               ELSE entry[i]
        /\ SentTo = UNION {OnePids(entry[i]) : i \in Targets \ Waiting}

StopInv == LoopTypeOK /\ OrderSoFar

\* Everybody is waiting in the beginning.
LEMMA StopInitInv == LoopInit => StopInv
<1> SUFFICES ASSUME LoopInit, at = "order" PROVE OrderSoFar
  BY LoopInitType DEF LoopInit, StopInv, OrderSoFar
<1>1. RangeOf(order) = {} /\ remaining = Targets /\ SentTo = {}
      /\ Distinct(order)
  BY DEF LoopInit, RangeOf, SentTo, Targets, Distinct
<1>2. Waiting = Targets
  BY <1>1 DEF Waiting
<1>3. \A i \in Slots : services[i] = entry[i]
  BY DEF LoopInit
<1>4. Targets \ Waiting = {}
  BY <1>2
<1>5. SentTo = UNION {OnePids(entry[i]) : i \in Targets \ Waiting}
  BY <1>1, <1>4
<1> QED
  BY <1>1, <1>2, <1>3, <1>4, <1>5 DEF OrderSoFar

\* Putting the slots into the order changes nothing else.
LEMMA OrderingStep == StopInv /\ (LeaveOut \/ PutInOrder) => OrderSoFar'
<1> SUFFICES ASSUME StopInv, LeaveOut \/ PutInOrder PROVE OrderSoFar'
  OBVIOUS
<1>1. /\ at = "order" /\ services' = services /\ entry' = entry
      /\ sent' = sent /\ at' \in {"order", "signal"}
      /\ at' = "signal" => cursor' = 1
  BY DEF LeaveOut, PutInOrder, NextInOrder, NextInPass, others, StopInv,
         LoopTypeOK
<1>2. /\ RangeOf(order) \cup remaining = Targets
      /\ RangeOf(order) \cap remaining = {} /\ Distinct(order)
      /\ order \in Seq(Slots)
  BY <1>1 DEF StopInv, OrderSoFar, Waiting, LoopTypeOK
<1>3. /\ RangeOf(order') \cup remaining' = Targets
      /\ RangeOf(order') \cap remaining' = {}
      /\ Distinct(order')
  <2>1. CASE LeaveOut
    <3>1. order' = order /\ remaining' = remaining
      BY <2>1 DEF LeaveOut
    <3> QED
      BY <1>2, <3>1
  <2>2. CASE PutInOrder
    <3>1. /\ order' = Append(order, cursor) /\ cursor \in remaining
          /\ remaining' = remaining \ {cursor} /\ cursor \in Slots
      BY <2>2 DEF PutInOrder, StopInv, LoopTypeOK
    <3>2. RangeOf(order') = RangeOf(order) \cup {cursor}
      BY <1>2, <3>1, RangeAppend
    <3>3. Distinct(order')
      BY <1>2, <3>1, DistinctAppend
    <3> QED
      BY <1>2, <3>1, <3>2, <3>3
  <2> QED
    BY <2>1, <2>2
<1>4. Waiting = Targets /\ Waiting' = Targets /\ Targets' = Targets
      /\ SentTo' = SentTo
  BY <1>1, <1>2, <1>3 DEF Waiting, Targets, SentTo, RangeOf
<1>5. /\ RangeOf(order)' = RangeOf(order')
      /\ Distinct(order') => Distinct(order)'
  BY DEF RangeOf, Distinct
<1> QED
  BY <1>1, <1>3, <1>4, <1>5 DEF OrderSoFar, StopInv

\* A service is signalled once, in the state it had when the loop began.
LEMMA StoppedStep ==
    ASSUME StopInv, at \in {"signal", "rest"}, NEW i \in Waiting, StopOne(i),
           entry' = entry, Waiting' = Waiting \ {i}
    PROVE  /\ \A j \in Slots : services'[j] =
                  IF j \in Targets \ Waiting' THEN OneStopped(entry[j])
                  ELSE entry[j]
           /\ SentTo' = UNION {OnePids(entry[j]) : j \in Targets \ Waiting'}
<1>1. i \in Targets /\ i \in Slots
  BY DEF StopInv, OrderSoFar, Waiting, Targets, ShutdownTargets
<1>2. services[i] = entry[i]
  BY <1>1 DEF StopInv, OrderSoFar
<1>3. /\ services' = [services EXCEPT ![i] = OneStopped(entry[i])]
      /\ SentTo' = SentTo \cup OnePids(entry[i])
  BY <1>1, <1>2, StopOneStep DEF StopInv
<1>4. Targets \ Waiting' = (Targets \ Waiting) \cup {i}
  BY <1>1
<1>5. /\ \A j \in Slots : services[j] =
             IF j \in Targets \ Waiting THEN OneStopped(entry[j])
             ELSE entry[j]
      /\ SentTo = UNION {OnePids(entry[j]) : j \in Targets \ Waiting}
      /\ services \in [Slots -> Service]
  BY DEF StopInv, OrderSoFar, LoopTypeOK
<1> HIDE DEF Waiting, Targets
<1>6. \A j \in Slots : services'[j] =
          IF j \in Targets \ Waiting' THEN OneStopped(entry[j]) ELSE entry[j]
  BY <1>1, <1>3, <1>4, <1>5
<1>7. SentTo' = UNION {OnePids(entry[j]) : j \in Targets \ Waiting'}
  BY <1>3, <1>4, <1>5
<1> QED
  BY <1>6, <1>7

\* The loop over the order takes its head.
LEMMA HeadWaits ==
    ASSUME StopInv, SignalInOrder
    PROVE  /\ at = "signal" /\ at' = at /\ entry' = entry /\ cursor' = cursor
           /\ remaining' = remaining /\ order # <<>> /\ order' = Tail(order)
           /\ order \in Seq(Slots) /\ StopOne(Head(order))
           /\ Head(order) \in Waiting /\ Waiting' = Waiting \ {Head(order)}
           /\ RangeOf(order') = RangeOf(order) \ {Head(order)}
           /\ Distinct(order')
<1>1. /\ at = "signal" /\ at' = at /\ entry' = entry /\ cursor' = cursor
      /\ remaining' = remaining /\ order # <<>> /\ order' = Tail(order)
      /\ StopOne(Head(order))
  BY DEF SignalInOrder, others
<1>2. /\ order \in Seq(Slots)
      /\ RangeOf(order) \cap remaining = {} /\ Distinct(order)
  BY <1>1 DEF StopInv, OrderSoFar, LoopTypeOK
<1>3. /\ Head(order) \in RangeOf(order) /\ Distinct(order')
      /\ RangeOf(order') = RangeOf(order) \ {Head(order)}
  BY <1>1, <1>2, HeadAndTail
<1>4. Waiting = RangeOf(order) \cup remaining
      /\ Waiting' = RangeOf(order') \cup remaining
  BY <1>1 DEF Waiting, RangeOf
<1>5. Waiting' = Waiting \ {Head(order)} /\ Head(order) \in Waiting
  BY <1>2, <1>3, <1>4
<1> QED
  BY <1>1, <1>2, <1>3, <1>5

\* The loop over the order.
LEMMA SignalInOrderStep == StopInv /\ SignalInOrder => OrderSoFar'
<1> SUFFICES ASSUME StopInv, SignalInOrder PROVE OrderSoFar'
  OBVIOUS
<1>1. /\ at = "signal" /\ at' = at /\ entry' = entry /\ cursor' = cursor
      /\ remaining' = remaining /\ StopOne(Head(order))
      /\ Head(order) \in Waiting /\ Waiting' = Waiting \ {Head(order)}
      /\ RangeOf(order') = RangeOf(order) \ {Head(order)}
      /\ Distinct(order')
  BY HeadWaits
<1>2. /\ RangeOf(order) \cup remaining \subseteq Targets
      /\ RangeOf(order) \cap remaining = {} /\ cursor = 1
  BY <1>1 DEF StopInv, OrderSoFar
<1>3. /\ \A j \in Slots : services'[j] =
             IF j \in Targets \ Waiting' THEN OneStopped(entry[j])
             ELSE entry[j]
      /\ SentTo' = UNION {OnePids(entry[j]) : j \in Targets \ Waiting'}
  BY <1>1, StoppedStep
<1>4. /\ RangeOf(order)' = RangeOf(order')
      /\ Distinct(order)' /\ Targets' = Targets
  BY <1>1 DEF RangeOf, Distinct, Targets
<1> QED
  BY <1>1, <1>2, <1>3, <1>4 DEF OrderSoFar

\* With the order done, the rest is all that waits.
LEMMA EndOfOrderStep == StopInv /\ EndOfOrder => OrderSoFar'
<1> SUFFICES ASSUME StopInv, EndOfOrder PROVE OrderSoFar'
  OBVIOUS
<1>1. /\ at = "signal" /\ at' = "rest" /\ order = <<>>
      /\ UNCHANGED <<services, entry, sent, order, remaining, cursor>>
  BY DEF EndOfOrder, others
<1>2. cursor = 1 /\ remaining \subseteq Slots
  BY <1>1 DEF StopInv, OrderSoFar, LoopTypeOK
<1>3. RangeOf(order) = {}
  BY <1>1 DEF RangeOf
<1>4. Waiting = remaining /\ Waiting' = {i \in remaining : i >= 1}
  BY <1>1, <1>2, <1>3 DEF Waiting
<1>5. \A i \in remaining : i >= 1
  BY <1>2
<1>6. Waiting' = Waiting
  BY <1>4, <1>5
<1>7. Targets' = Targets /\ SentTo' = SentTo
      /\ RangeOf(order)' = RangeOf(order)
  BY <1>1 DEF Targets, SentTo, RangeOf
<1>8. Distinct(order) => Distinct(order)'
  BY <1>1 DEF Distinct
<1> QED
  BY <1>1, <1>6, <1>7, <1>8 DEF StopInv, OrderSoFar

\* The loop over the rest takes the slots left over one by one.
LEMMA RestWaits ==
    ASSUME StopInv, SignalRest
    PROVE  /\ at = "rest" /\ at' \in {"rest", "stopped"}
           /\ UNCHANGED <<entry, order, remaining>>
           /\ \/ /\ cursor \in remaining /\ StopOne(cursor)
                 /\ cursor \in Waiting /\ Waiting' = Waiting \ {cursor}
              \/ UNCHANGED <<services, sent>> /\ Waiting' = Waiting
<1>1. /\ at = "rest" /\ at' \in {"rest", "stopped"} /\ cursor \in Slots
      /\ UNCHANGED <<entry, order, remaining>> /\ remaining \subseteq Slots
      /\ NextInPass(FALSE, "rest", "stopped")
  BY DEF SignalRest, others, NextInPass, StopInv, LoopTypeOK
<1>2. Waiting = {i \in remaining : i >= cursor}
  BY <1>1 DEF Waiting
<1>3. Waiting' = {i \in remaining : i > cursor}
  <2>1. CASE cursor < MaxServices
    <3>1. cursor' = cursor + 1 /\ at' = "rest"
      BY <1>1, <2>1 DEF NextInPass
    <3>2. Waiting' = {i \in remaining : i >= cursor + 1}
      BY <1>1, <3>1 DEF Waiting
    <3>3. \A i \in remaining : i >= cursor + 1 <=> i > cursor
      BY <1>1
    <3> QED
      BY <3>2, <3>3
  <2>2. CASE ~(cursor < MaxServices)
    <3>1. at' = "stopped"
      BY <1>1, <2>2 DEF NextInPass
    <3>2. Waiting' = {}
      BY <3>1 DEF Waiting
    <3>3. \A i \in remaining : ~(i > cursor)
      BY <1>1, <2>2
    <3> QED
      BY <3>2, <3>3
  <2> QED
    BY <2>1, <2>2
<1>4. CASE cursor \in remaining
  <2>1. \A i \in remaining : i > cursor <=> i >= cursor /\ i # cursor
    BY <1>1
  <2>2. cursor >= cursor
    BY <1>1
  <2>3. Waiting' = Waiting \ {cursor} /\ cursor \in Waiting
    BY <1>2, <1>3, <1>4, <2>1, <2>2
  <2> QED
    BY <1>1, <1>4, <2>3 DEF SignalRest
<1>5. CASE cursor \notin remaining
  <2>1. \A i \in remaining : i > cursor <=> i >= cursor
    BY <1>1, <1>5
  <2>2. Waiting' = Waiting
    BY <1>2, <1>3, <2>1
  <2> QED
    BY <1>1, <1>5, <2>2 DEF SignalRest
<1> QED
  BY <1>4, <1>5

\* The loop over the rest.
LEMMA SignalRestStep == StopInv /\ SignalRest => OrderSoFar'
<1> SUFFICES ASSUME StopInv, SignalRest PROVE OrderSoFar'
  OBVIOUS
<1>1. /\ at = "rest" /\ at' \in {"rest", "stopped"}
      /\ UNCHANGED <<entry, order, remaining>>
  BY RestWaits
<1>2. Targets' = Targets /\ RangeOf(order)' = RangeOf(order)
      /\ Distinct(order)' = Distinct(order)
  BY <1>1 DEF Targets, RangeOf, Distinct
<1>3. /\ \A j \in Slots : services'[j] =
             IF j \in Targets \ Waiting' THEN OneStopped(entry[j])
             ELSE entry[j]
      /\ SentTo' = UNION {OnePids(entry[j]) : j \in Targets \ Waiting'}
  <2>1. CASE /\ cursor \in remaining /\ StopOne(cursor)
             /\ cursor \in Waiting /\ Waiting' = Waiting \ {cursor}
    BY <1>1, <2>1, StoppedStep
  <2>2. CASE UNCHANGED <<services, sent>> /\ Waiting' = Waiting
    <3>1. SentTo' = SentTo
      BY <2>2 DEF SentTo
    <3> QED
      BY <1>1, <2>2, <3>1 DEF StopInv, OrderSoFar
  <2> QED
    BY <2>1, <2>2, RestWaits
<1> QED
  BY <1>1, <1>2, <1>3 DEF StopInv, OrderSoFar

\* Each step of either loop keeps the split.
LEMMA StopInvStep == StopInv /\ [LoopNext]_lvars => StopInv'
<1> SUFFICES ASSUME StopInv, [LoopNext]_lvars PROVE OrderSoFar'
  BY LoopTypeStep DEF StopInv
<1>1. CASE PassOver \/ StopDependent
  <2>1. at' \in {"cascade", "cascaded"}
    BY <1>1 DEF PassOver, StopDependent, NextInPass
  <2> QED
    BY <2>1 DEF OrderSoFar
<1>2. CASE LeaveOut \/ PutInOrder
  BY <1>2, OrderingStep
<1>3. CASE SignalInOrder
  BY <1>3, SignalInOrderStep
<1>4. CASE EndOfOrder
  BY <1>4, EndOfOrderStep
<1>5. CASE SignalRest
  BY <1>5, SignalRestStep
<1>6. CASE UNCHANGED lvars
  <2>1. UNCHANGED <<services, at, entry, remaining, order, cursor, sent>>
    BY <1>6 DEF lvars, vars
  <2>2. Waiting' = Waiting /\ Targets' = Targets /\ SentTo' = SentTo
        /\ RangeOf(order)' = RangeOf(order)
    BY <2>1 DEF Waiting, Targets, SentTo, RangeOf
  <2>3. Distinct(order) => Distinct(order)'
    BY <2>1 DEF Distinct
  <2> QED
    BY <2>1, <2>2, <2>3 DEF StopInv, OrderSoFar
<1> QED
  BY <1>1, <1>2, <1>3, <1>4, <1>5, <1>6 DEF LoopNext, Returned

\* stop_all_in_order() leaves nobody out, for every table and every graph,
\* cyclic ones included: it is the one step StopAll of Supervisor.
THEOREM EverybodyIsReached == LoopSpec => []EverybodyIsStopped
<1>1. StopInv => EverybodyIsStopped
  <2> SUFFICES ASSUME StopInv, at = "stopped"
               PROVE  /\ services = StoppedAll(entry)
                      /\ SentTo = ShutdownPids(entry) \ {None}
    BY DEF EverybodyIsStopped
  <2>1. Waiting = {}
    BY DEF Waiting
  <2>2. /\ \A i \in Slots : services[i] =
               IF i \in Targets THEN OneStopped(entry[i]) ELSE entry[i]
        /\ SentTo = UNION {OnePids(entry[i]) : i \in Targets}
        /\ services \in [Slots -> Service]
    BY <2>1 DEF StopInv, OrderSoFar, LoopTypeOK
  <2>3. services = StoppedAll(entry)
    BY <2>2 DEF StoppedAll, OneStopped, Targets
  <2>4. UNION {OnePids(entry[i]) : i \in Targets}
            = ShutdownPids(entry) \ {None}
    BY DEF ShutdownPids, OnePids, Targets
  <2> QED
    BY <2>2, <2>3, <2>4
<1> QED
  BY <1>1, StopInitInv, StopInvStep, PTL DEF LoopSpec

-----------------------------------------------------------------------------
(* Nobody is signalled twice.                                              *)

\* The table of the supervisor is one the loops may be called on: what
\* TablesAssumption asks of a table follows from PidsTracked and OneInstance.
THEOREM TableIsSeparate == Spec => [](pc # "done" => Separate(services))
<1>1. Owned /\ pc # "done" => Separate(services)
  <2> SUFFICES ASSUME Owned, pc # "done", NEW i \in Slots, NEW j \in Slots
               PROVE  LET s == services[i]
                          t == services[j]
                      IN  /\ s.active /\ t.active /\ s.name = t.name => i = j
                          /\ s.pid # None /\ s.pid = t.pid => i = j
                          /\ s.log_pid # None /\ s.log_pid = t.log_pid => i = j
                          /\ s.pid # None => s.pid # t.log_pid
    BY DEF Separate
  <2> QED
    BY DEF Owned, PidsTracked, OneInstance
<1> QED
  BY <1>1, AlwaysOwned, PTL

OnceInv == LoopInv /\ StopInv /\ NobodyTwice

\* The cascade: a slot that is stopped was not stopped before.
LEMMA StopDependentOnce ==
    ASSUME OnceInv, StopDependent
    PROVE  NobodyTwice'
<1>1. /\ at = "cascade" /\ Lacking(cursor) /\ cursor \in Slots
      /\ sent' = Append(sent, services[cursor].pid) /\ sent \in Seq(Pids)
  BY DEF StopDependent, Lacking, OnceInv, LoopInv, LoopTypeOK
<1>2. cursor \in Doomed(entry) \ Gone /\ services[cursor] = entry[cursor]
  BY <1>1, LackingIsDoomed, Midway DEF OnceInv
<1>3. entry[cursor] \in Service /\ entry[cursor].pid \in Pids
  BY <1>2 DEF OnceInv, LoopInv, LoopTypeOK, Doomed, Stoppable, Service
<1>4. SentTo = {entry[j].pid : j \in Gone} /\ Gone \subseteq Slots
  BY <1>1 DEF OnceInv, LoopInv, CascadeSoFar, PidsOf, Gone
<1>5. entry[cursor].pid \notin SentTo
  BY <1>1, <1>2, <1>3, <1>4, TablesAssumption DEF OnceInv, LoopInv, Separate
<1>6. Distinct(sent) /\ SentTo = RangeOf(sent)
  BY DEF OnceInv, NobodyTwice, Distinct, SentTo, RangeOf
<1>7. Distinct(sent')
  BY <1>1, <1>2, <1>3, <1>5, <1>6, DistinctAppend
<1> QED
  BY <1>7 DEF NobodyTwice, Distinct

\* The shutdown: what is sent for a slot that waits is new.
LEMMA WaitingSends ==
    ASSUME OnceInv, at \in {"signal", "rest"}, NEW i \in Waiting, StopOne(i)
    PROVE  \E u \in Seq(Pids) : /\ sent' = sent \o u /\ Distinct(u)
                                /\ RangeOf(u) = OnePids(entry[i])
                                /\ RangeOf(sent) \cap RangeOf(u) = {}
<1>1. i \in Targets /\ i \in Slots
  BY DEF OnceInv, StopInv, OrderSoFar, Waiting, Targets, ShutdownTargets
<1>2. services[i] = entry[i]
  BY <1>1 DEF OnceInv, StopInv, OrderSoFar
<1>3. RangeOf(sent) = UNION {OnePids(entry[j]) : j \in Targets \ Waiting}
  BY DEF OnceInv, StopInv, OrderSoFar, SentTo, RangeOf
<1>4. Separate(entry) /\ Targets \subseteq Slots
  BY TablesAssumption DEF OnceInv, LoopInv, Targets, ShutdownTargets
<1>5. PICK u \in Seq(Pids) : /\ sent' = sent \o u /\ Distinct(u)
                             /\ RangeOf(u) = OnePids(entry[i])
  <2>1. services[i].pid # None => services[i].pid # services[i].log_pid
    BY <1>1, <1>2, <1>4 DEF Separate
  <2> QED
    BY <1>1, <1>2, <2>1, StopOneSends DEF OnceInv, StopInv
<1>6. \A j \in Targets \ Waiting : OnePids(entry[j]) \cap OnePids(entry[i]) = {}
  <2> SUFFICES ASSUME NEW j \in Slots, j # i
               PROVE  OnePids(entry[j]) \cap OnePids(entry[i]) = {}
    BY <1>4
  <2> QED
    BY <1>1, <1>4 DEF OnePids, Separate
<1>7. RangeOf(sent) \cap RangeOf(u) = {}
  BY <1>3, <1>5, <1>6
<1> QED
  BY <1>5, <1>7

\* So a slot that waits has had neither of its processes signalled.
LEMMA WaitingOnce ==
    ASSUME OnceInv, at \in {"signal", "rest"}, NEW i \in Waiting, StopOne(i)
    PROVE  NobodyTwice'
<1>1. PICK u \in Seq(Pids) : /\ sent' = sent \o u /\ Distinct(u)
                             /\ RangeOf(sent) \cap RangeOf(u) = {}
  BY WaitingSends
<1>2. Distinct(sent) /\ sent \in Seq(Pids)
  BY DEF OnceInv, LoopInv, LoopTypeOK, NobodyTwice, Distinct
<1>3. Distinct(sent')
  BY <1>1, <1>2, DistinctConcat
<1> QED
  BY <1>3 DEF NobodyTwice, Distinct

\* Nothing has been sent in the beginning.
LEMMA OnceInit == LoopInit => OnceInv
BY LoopInitInv, StopInitInv DEF LoopInit, OnceInv, NobodyTwice

\* Each step of either loop sends to nobody it has sent to before.
LEMMA OnceStep == OnceInv /\ [LoopNext]_lvars => OnceInv'
<1> SUFFICES ASSUME OnceInv, [LoopNext]_lvars PROVE NobodyTwice'
  BY LoopInvStep, StopInvStep DEF OnceInv
<1>1. ASSUME UNCHANGED sent PROVE NobodyTwice'
  BY <1>1 DEF OnceInv, NobodyTwice
<1>2. CASE SignalInOrder
  BY <1>2, HeadWaits, WaitingOnce DEF OnceInv
<1>3. CASE SignalRest
  BY <1>1, <1>3, RestWaits, WaitingOnce DEF OnceInv
<1> QED
  BY <1>1, <1>2, <1>3, StopDependentOnce
  DEF LoopNext, PassOver, LeaveOut, PutInOrder, EndOfOrder, Returned, lvars

\* No loop sends TERM twice to one process, whatever the table and the graph:
\* a slot is stopped once, and no two slots have a process in common.
THEOREM NobodyIsSignalledTwice == LoopSpec => []NobodyTwice
<1>1. OnceInv => NobodyTwice
  BY DEF OnceInv
<1> QED
  BY <1>1, OnceInit, OnceStep, PTL DEF LoopSpec

-----------------------------------------------------------------------------
(* Dependencies are signalled first.                                       *)

Tangle == Entangled(entry)

\* The services that have been signalled.
Told == Targets \ Waiting

\* The processes of the slots i and j have been signalled in this order.
InTurn(i, j) ==
    entry[i].pid # None /\ entry[j].pid # None
        => SentBefore(entry[i].pid, entry[j].pid)

\* Nobody of the tangle gets into the order, and a pass that has found nobody
\* has shown that the slots behind it have to wait.
TangleStays ==
    at = "order" =>
        /\ Tangle \subseteq remaining
        /\ ~changed => \A i \in remaining :
                           i < cursor => ~Ready(entry, remaining, i)

\* The order lacks the tangle and nobody else.
TangleIsLeft == at \in {"signal", "rest", "stopped"} => remaining = Tangle

\* A dependency is told already or comes earlier in the order.
OrderIsSorted ==
    at \in {"order", "signal"} =>
        \A x \in DOMAIN order, j \in Targets :
            DependsOn(entry, order[x], j) =>
                j \in Told \/ \E y \in DOMAIN order : y < x /\ order[y] = j

\* Who is told, and is not of the tangle, was told after its dependencies.
ToldInTurn ==
    at \in {"order", "signal", "rest", "stopped"} =>
        \A i \in Told \ Tangle, j \in Targets :
            DependsOn(entry, i, j) => j \in Told /\ InTurn(j, i)

\* The tangle is told after everybody else.
TangleLast ==
    at \in {"rest", "stopped"} =>
        /\ Targets \ Tangle \subseteq Told
        /\ \A i \in Targets \ Tangle, j \in Tangle \cap Told : InTurn(i, j)

SortedInv ==
    /\ TangleStays /\ TangleIsLeft /\ OrderIsSorted
    /\ ToldInTurn /\ TangleLast

FirstInv == OnceInv /\ SortedInv

\* The tangle is closed: it is a set in which each one depends on another, and
\* it contains all such sets.
LEMMA TangleClosed ==
    /\ Tangle \subseteq Targets
    /\ \A i \in Tangle : \E j \in Tangle : DependsOn(entry, i, j)
    /\ \A C \in SUBSET Targets :
           (\A i \in C : \E j \in C : DependsOn(entry, i, j))
               => C \subseteq Tangle
<1> DEFINE Closed == {C \in SUBSET Targets :
                          \A i \in C : \E j \in C : DependsOn(entry, i, j)}
<1>1. Tangle = UNION Closed
  BY DEF Tangle, Entangled, Targets
<1> QED
  BY <1>1

\* With unique names `ready' says that no dependency is left.
LEMMA ReadyMeans ==
    ASSUME NEW T, UniqueNames(T), NEW left \in SUBSET Slots, NEW i
    PROVE  Ready(T, left, i) <=> \A j \in left : ~DependsOn(T, i, j)
<1>1. ASSUME NEW d \in HardDeps[T[i].name], find_service_by_name(T, d) \in left
      PROVE  \E j \in left : DependsOn(T, i, j)
  <2> DEFINE k == find_service_by_name(T, d)
  <2>1. k # 0 /\ k \in left
    BY <1>1
  <2>2. T[k].active /\ T[k].name = d
    BY <2>1, FindByName
  <2> QED
    BY <2>1, <2>2 DEF DependsOn
<1>2. ASSUME NEW j \in left, DependsOn(T, i, j)
      PROVE  find_service_by_name(T, T[j].name) \in left
             /\ T[j].name \in HardDeps[T[i].name]
  BY <1>2, FindByName DEF DependsOn
<1> QED
  BY <1>1, <1>2 DEF Ready

\* While the order is made, the table is as it was and nobody is told.
LEMMA Ordering ==
    ASSUME FirstInv, at = "order"
    PROVE  /\ services = entry /\ UniqueNames(entry)
           /\ RangeOf(order) \cup remaining = Targets
           /\ remaining \in SUBSET Slots /\ Told = {}
<1>1. Waiting = Targets /\ Targets \subseteq Slots
  BY DEF FirstInv, OnceInv, StopInv, OrderSoFar, Targets, ShutdownTargets
<1>2. services = entry
  BY <1>1 DEF FirstInv, OnceInv, StopInv, OrderSoFar, LoopTypeOK
<1>3. UniqueNames(entry)
  BY TablesAssumption DEF FirstInv, OnceInv, LoopInv, Separate, UniqueNames
<1> QED
  BY <1>1, <1>2, <1>3
  DEF Told, Waiting, FirstInv, OnceInv, StopInv, LoopTypeOK

\* A step that makes the order tells nobody.
LEMMA NobodyTold ==
    ASSUME FirstInv, LeaveOut \/ PutInOrder
    PROVE  /\ at = "order" /\ at' \in {"order", "signal"}
           /\ UNCHANGED <<services, entry>>
           /\ Targets' = Targets /\ Told' = {} /\ Tangle' = Tangle
           /\ ToldInTurn' /\ TangleLast'
<1>1. /\ at = "order" /\ at' \in {"order", "signal"}
      /\ UNCHANGED <<services, entry>>
  BY DEF LeaveOut, PutInOrder, NextInOrder, NextInPass, others
<1>2. Targets' = Targets /\ Tangle' = Tangle
  BY <1>1 DEF Targets, Tangle
<1>3. Told' = {}
  <2>1. OrderSoFar'
    BY OrderingStep DEF FirstInv, OnceInv
  <2>2. RangeOf(order) \cup remaining = Targets
    BY <1>1, Ordering
  <2>3. RangeOf(order)' \cup remaining' = Targets
    <3>1. CASE LeaveOut
      BY <2>2, <3>1 DEF LeaveOut, RangeOf
    <3>2. CASE PutInOrder
      <4>1. /\ order' = Append(order, cursor) /\ cursor \in remaining
            /\ remaining' = remaining \ {cursor} /\ order \in Seq(Slots)
            /\ cursor \in Slots
        BY <3>2 DEF PutInOrder, FirstInv, OnceInv, StopInv, LoopTypeOK
      <4>2. RangeOf(order') = RangeOf(order) \cup {cursor}
        BY <4>1, RangeAppend
      <4> QED
        BY <2>2, <4>1, <4>2 DEF RangeOf
    <3> QED
      BY <3>1, <3>2
  <2> QED
    BY <1>1, <1>2, <2>3 DEF Told, Waiting, RangeOf
<1> QED
  BY <1>1, <1>2, <1>3 DEF ToldInTurn, TangleLast

\* A slot is left out of the order because it has to wait; when a whole pass
\* has found that of all that are left, they are a tangle.
LEMMA LeaveOutSorted ==
    ASSUME FirstInv, LeaveOut
    PROVE  SortedInv'
<1>1. /\ at = "order" /\ order' = order /\ remaining' = remaining
      /\ ~(cursor \in remaining /\ Ready(services, remaining, cursor))
      /\ NextInOrder(changed, remaining) /\ cursor \in Slots
  BY DEF LeaveOut, FirstInv, OnceInv, StopInv, LoopTypeOK
<1>2. /\ at' \in {"order", "signal"} /\ entry' = entry /\ Tangle' = Tangle
      /\ Targets' = Targets /\ Told' = {} /\ ToldInTurn' /\ TangleLast'
  BY NobodyTold
<1>3. /\ services = entry /\ UniqueNames(entry) /\ remaining \in SUBSET Slots
      /\ remaining \subseteq Targets /\ Told = {}
  BY <1>1, Ordering
<1>4. /\ Tangle \subseteq remaining
      /\ ~changed => \A i \in remaining :
                         i < cursor => ~Ready(entry, remaining, i)
  BY <1>1 DEF FirstInv, SortedInv, TangleStays
<1>5. ~changed /\ ~(cursor < MaxServices) => remaining \subseteq Tangle
  <2> SUFFICES ASSUME ~changed, ~(cursor < MaxServices)
               PROVE  remaining \subseteq Tangle
    OBVIOUS
  <2>1. \A i \in remaining : i < cursor \/ i = cursor
    BY <1>1, <1>3
  <2>2. \A i \in remaining : ~Ready(entry, remaining, i)
    BY <1>1, <1>3, <1>4, <2>1
  <2>3. \A i \in remaining : \E j \in remaining : DependsOn(entry, i, j)
    BY <1>3, <2>2, ReadyMeans
  <2> QED
    BY <1>3, <2>3, TangleClosed
<1>6. TangleStays'
  <2>1. CASE cursor < MaxServices
    <3>1. cursor' = cursor + 1 /\ changed' = changed
      BY <1>1, <2>1 DEF NextInOrder, NextInPass
    <3>2. \A i \in remaining : i < cursor + 1 => i < cursor \/ i = cursor
      BY <1>1, <1>3
    <3>3. ~changed => \A i \in remaining :
                          i < cursor' => ~Ready(entry, remaining, i)
      BY <1>1, <1>3, <1>4, <3>1, <3>2
    <3> QED
      BY <1>1, <1>2, <1>4, <3>1, <3>3 DEF TangleStays, Ready,
                                          find_service_by_name
  <2>2. CASE ~(cursor < MaxServices)
    <3>1. cursor' = 1
      BY <1>1, <2>2 DEF NextInOrder, NextInPass
    <3>2. \A i \in remaining : ~(i < 1)
      BY <1>3
    <3> QED
      BY <1>1, <1>2, <1>4, <3>1, <3>2 DEF TangleStays
  <2> QED
    BY <2>1, <2>2
<1>7. TangleIsLeft'
  <2> SUFFICES ASSUME at' = "signal" PROVE remaining = Tangle
    BY <1>1, <1>2 DEF TangleIsLeft
  <2>1. ~(cursor < MaxServices) /\ (remaining = {} \/ ~changed)
    BY <1>1 DEF NextInOrder, NextInPass
  <2> QED
    BY <1>4, <1>5, <2>1
<1>8. OrderIsSorted'
  BY <1>1, <1>2, <1>3 DEF FirstInv, SortedInv, OrderIsSorted, DependsOn
<1> QED
  BY <1>2, <1>6, <1>7, <1>8 DEF SortedInv

\* Whoever is put into the order is not of the tangle, and its dependencies
\* are in the order.
LEMMA PutInOrderSorted ==
    ASSUME FirstInv, PutInOrder
    PROVE  SortedInv'
<1>1. /\ at = "order" /\ order' = Append(order, cursor)
      /\ remaining' = remaining \ {cursor} /\ cursor \in remaining
      /\ Ready(services, remaining, cursor)
      /\ NextInOrder(TRUE, remaining') /\ cursor \in Slots
      /\ order \in Seq(Slots)
  BY DEF PutInOrder, FirstInv, OnceInv, StopInv, LoopTypeOK
<1>2. /\ at' \in {"order", "signal"} /\ entry' = entry /\ Tangle' = Tangle
      /\ Targets' = Targets /\ Told' = {} /\ ToldInTurn' /\ TangleLast'
  BY NobodyTold
<1>3. /\ services = entry /\ UniqueNames(entry) /\ remaining \in SUBSET Slots
      /\ RangeOf(order) \cup remaining = Targets /\ Told = {}
  BY <1>1, Ordering
<1>4. \A j \in remaining : ~DependsOn(entry, cursor, j)
  BY <1>1, <1>3, ReadyMeans
<1>5. Tangle \subseteq remaining'
  <2>1. Tangle \subseteq remaining
    BY <1>1 DEF FirstInv, SortedInv, TangleStays
  <2>2. cursor \notin Tangle
    BY <1>4, <2>1, TangleClosed
  <2> QED
    BY <1>1, <2>1, <2>2
<1>6. TangleStays'
  <2>1. ~changed' => cursor' = 1
    BY <1>1 DEF NextInOrder, NextInPass
  <2>2. \A i \in remaining' : ~(i < 1)
    BY <1>1, <1>3
  <2> QED
    BY <1>2, <1>5, <2>1, <2>2 DEF TangleStays
<1>7. TangleIsLeft'
  <2> SUFFICES ASSUME at' = "signal" PROVE remaining' = Tangle
    BY <1>2 DEF TangleIsLeft
  <2>1. remaining' = {}
    BY <1>1 DEF NextInOrder, NextInPass
  <2> QED
    BY <1>5, <2>1
<1>8. OrderIsSorted'
  <2>1. /\ Len(order) \in Nat /\ DOMAIN order = 1..Len(order)
        /\ DOMAIN order' = 1..(Len(order) + 1)
        /\ \A x \in 1..Len(order) : order'[x] = order[x]
        /\ order'[Len(order) + 1] = cursor
    BY <1>1
  <2>2. SUFFICES ASSUME NEW x \in DOMAIN order', NEW j \in Targets,
                        DependsOn(entry, order'[x], j)
                 PROVE  \E y \in DOMAIN order' : y < x /\ order'[y] = j
    BY <1>2 DEF OrderIsSorted, DependsOn
  <2>3. CASE x \in 1..Len(order)
    <3>1. PICK y \in DOMAIN order : y < x /\ order[y] = j
      BY <1>1, <1>3, <2>1, <2>2, <2>3 DEF FirstInv, SortedInv, OrderIsSorted
    <3> QED
      BY <2>1, <3>1
  <2>4. CASE x = Len(order) + 1
    <3>1. j \in RangeOf(order)
      BY <1>3, <1>4, <2>1, <2>2, <2>4
    <3>2. PICK y \in DOMAIN order : order[y] = j
      BY <3>1 DEF RangeOf
    <3> QED
      BY <2>1, <2>4, <3>2
  <2> QED
    BY <2>1, <2>3, <2>4
<1> QED
  BY <1>2, <1>6, <1>7, <1>8 DEF SortedInv

\* Telling one more slot: what was in turn stays so, and everybody told before
\* comes before it.
LEMMA TellOne ==
    ASSUME FirstInv, at \in {"signal", "rest"}, NEW i \in Waiting, StopOne(i),
           entry' = entry, Waiting' = Waiting \ {i}
    PROVE  /\ i \in Targets /\ Told' = Told \cup {i}
           /\ Targets' = Targets /\ Tangle' = Tangle
           /\ \A j, k \in Slots : InTurn(j, k) => InTurn(j, k)'
           /\ \A j \in Told : InTurn(j, i)'
<1>1. Waiting \subseteq Targets /\ Targets' = Targets /\ Tangle' = Tangle
  BY DEF FirstInv, OnceInv, StopInv, OrderSoFar, Waiting, Targets, Tangle
<1>2. PICK u \in Seq(Pids) : /\ sent' = sent \o u
                             /\ RangeOf(u) = OnePids(entry[i])
  BY WaitingSends DEF FirstInv
<1>3. sent \in Seq(Pids)
  BY DEF FirstInv, OnceInv, LoopInv, LoopTypeOK
<1>4. \A p, q : SentBefore(p, q) <=> Precedes(sent, p, q)
  BY DEF SentBefore, Precedes
<1>5. \A p, q : SentBefore(p, q)' <=> Precedes(sent', p, q)
  BY DEF SentBefore, Precedes
<1>6. \A p, q : SentBefore(p, q) => SentBefore(p, q)'
  BY <1>2, <1>3, <1>4, <1>5, PrecedesConcat
<1>7. ASSUME NEW j \in Told PROVE InTurn(j, i)'
  <2> SUFFICES ASSUME entry[j].pid # None, entry[i].pid # None
               PROVE  SentBefore(entry[j].pid, entry[i].pid)'
    BY DEF InTurn
  <2>1. RangeOf(sent) = UNION {OnePids(entry[k]) : k \in Told}
    BY DEF FirstInv, OnceInv, StopInv, OrderSoFar, SentTo, RangeOf, Told
  <2>2. entry[j].pid \in RangeOf(sent) /\ entry[i].pid \in RangeOf(u)
    BY <1>2, <2>1 DEF OnePids
  <2> QED
    BY <1>2, <1>3, <1>5, <2>2, PrecedesConcat
<1> QED
  BY <1>1, <1>6, <1>7 DEF Told, InTurn

\* The head of the order is not of the tangle, and its dependencies are told.
LEMMA SignalInOrderSorted ==
    ASSUME FirstInv, SignalInOrder
    PROVE  SortedInv'
<1>h. PICK h : h = Head(order)
  OBVIOUS
<1>1. /\ at = "signal" /\ at' = at /\ remaining' = remaining /\ entry' = entry
      /\ order # <<>> /\ order' = Tail(order) /\ order \in Seq(Slots)
      /\ StopOne(h) /\ h \in Waiting /\ Waiting' = Waiting \ {h}
  BY <1>h, HeadWaits DEF FirstInv, OnceInv
<1>2. /\ h \in Targets /\ Told' = Told \cup {h}
      /\ Targets' = Targets /\ Tangle' = Tangle /\ Targets \subseteq Slots
      /\ \A j, k \in Slots : InTurn(j, k) => InTurn(j, k)'
      /\ \A j \in Told : InTurn(j, h)'
  <2>1. Targets \subseteq Slots
    BY DEF Targets, ShutdownTargets
  <2> QED
    BY <1>1, <2>1, TellOne
<1>3. /\ h = order[1] /\ Len(order) \in Nat /\ 1 \in DOMAIN order
      /\ DOMAIN order = 1..Len(order) /\ DOMAIN order' = 1..(Len(order) - 1)
      /\ \A x \in 1..(Len(order) - 1) : order'[x] = order[x + 1]
  BY <1>1, <1>h
<1>4. \A x \in DOMAIN order, j \in Targets :
          DependsOn(entry, order[x], j) =>
              j \in Told \/ \E y \in DOMAIN order : y < x /\ order[y] = j
  BY <1>1 DEF FirstInv, SortedInv, OrderIsSorted
<1>5. TangleStays' /\ TangleIsLeft' /\ TangleLast'
  BY <1>1, <1>2 DEF FirstInv, SortedInv, TangleStays, TangleIsLeft, TangleLast
<1>6. OrderIsSorted'
  <2> SUFFICES ASSUME NEW x \in DOMAIN order', NEW j \in Targets,
                      DependsOn(entry, order'[x], j)
               PROVE  \/ j \in Told \cup {h}
                      \/ \E y \in DOMAIN order' : y < x /\ order'[y] = j
    BY <1>1, <1>2 DEF OrderIsSorted, DependsOn
  <2>1. x + 1 \in DOMAIN order /\ order'[x] = order[x + 1]
    BY <1>3
  <2>2. j \in Told \/ \E y \in DOMAIN order : y < x + 1 /\ order[y] = j
    BY <1>4, <2>1
  <2>3. ASSUME NEW y \in DOMAIN order, y < x + 1, order[y] = j, y # 1
        PROVE  y - 1 \in DOMAIN order' /\ y - 1 < x /\ order'[y - 1] = j
    BY <1>3, <2>3
  <2> QED
    BY <1>3, <2>2, <2>3
<1>7. ToldInTurn'
  <2> SUFFICES ASSUME NEW i \in Told \cup {h}, i \notin Tangle,
                      NEW j \in Targets, DependsOn(entry, i, j)
               PROVE  j \in Told \cup {h} /\ InTurn(j, i)'
    BY <1>1, <1>2 DEF ToldInTurn, DependsOn
  <2>1. CASE i \in Told
    <3>1. j \in Told /\ InTurn(j, i) /\ i \in Slots
      BY <1>1, <1>2, <2>1 DEF FirstInv, SortedInv, ToldInTurn, Told
    <3> QED
      BY <1>2, <3>1
  <2>2. CASE i = h
    <3>1. \A y \in DOMAIN order : ~(y < 1)
      BY <1>3
    <3>2. j \in Told
      BY <1>3, <1>4, <2>2, <3>1
    <3>3. InTurn(j, h)'
      BY <1>2, <3>2
    <3> QED
      BY <2>2, <3>2, <3>3
  <2> QED
    BY <2>1, <2>2
<1> QED
  BY <1>5, <1>6, <1>7 DEF SortedInv

\* With the order done, everybody but the tangle is told.
LEMMA EndOfOrderSorted ==
    ASSUME FirstInv, EndOfOrder
    PROVE  SortedInv'
<1>1. /\ at = "signal" /\ at' = "rest" /\ order = <<>>
      /\ UNCHANGED <<services, entry, sent, order, remaining, cursor>>
  BY DEF EndOfOrder, others
<1>2. cursor = 1 /\ remaining \subseteq Slots /\ remaining = Tangle
  BY <1>1 DEF FirstInv, OnceInv, StopInv, OrderSoFar, LoopTypeOK,
              SortedInv, TangleIsLeft
<1>3. RangeOf(order) = {} /\ \A i \in remaining : i >= 1
  BY <1>1, <1>2 DEF RangeOf
<1>4. Waiting = Tangle /\ Waiting' = Tangle
  <2>1. Waiting = RangeOf(order) \cup remaining
    BY <1>1 DEF Waiting
  <2>2. Waiting' = {i \in remaining : i >= 1}
    BY <1>1, <1>2 DEF Waiting
  <2> QED
    BY <1>2, <1>3, <2>1, <2>2
<1>5. /\ Told' = Told /\ Targets' = Targets /\ Tangle' = Tangle
      /\ Told = Targets \ Tangle
      /\ \A i, j : InTurn(i, j)' = InTurn(i, j)
  BY <1>1, <1>4 DEF Told, Targets, Tangle, InTurn, SentBefore
<1>6. TangleStays' /\ OrderIsSorted'
  BY <1>1 DEF TangleStays, OrderIsSorted
<1>7. TangleIsLeft'
  BY <1>1, <1>2, <1>5 DEF TangleIsLeft
<1>8. ToldInTurn'
  BY <1>1, <1>5 DEF FirstInv, SortedInv, ToldInTurn, DependsOn
<1>9. TangleLast'
  BY <1>5 DEF TangleLast
<1> QED
  BY <1>6, <1>7, <1>8, <1>9 DEF SortedInv

\* Whoever is left over is of the tangle, and told after everybody else.
LEMMA SignalRestSorted ==
    ASSUME FirstInv, SignalRest
    PROVE  SortedInv'
<1>1. /\ at = "rest" /\ at' \in {"rest", "stopped"}
      /\ UNCHANGED <<entry, order, remaining>>
      /\ \/ /\ cursor \in remaining /\ StopOne(cursor)
            /\ cursor \in Waiting /\ Waiting' = Waiting \ {cursor}
         \/ UNCHANGED <<services, sent>> /\ Waiting' = Waiting
  BY RestWaits DEF FirstInv, OnceInv
<1>2. /\ remaining = Tangle /\ Targets \ Tangle \subseteq Told
      /\ \A i \in Told \ Tangle, j \in Targets :
             DependsOn(entry, i, j) => j \in Told /\ InTurn(j, i)
      /\ \A i \in Targets \ Tangle, j \in Tangle \cap Told : InTurn(i, j)
      /\ Targets \subseteq Slots /\ Told \subseteq Targets
  BY <1>1 DEF FirstInv, SortedInv, TangleIsLeft, ToldInTurn, TangleLast,
              Targets, ShutdownTargets, Told
<1>3. Targets' = Targets /\ Tangle' = Tangle
  BY <1>1 DEF Targets, Tangle
<1>4. TangleStays' /\ OrderIsSorted' /\ TangleIsLeft'
  BY <1>1, <1>2, <1>3 DEF TangleStays, OrderIsSorted, TangleIsLeft
<1>5. CASE /\ cursor \in remaining /\ StopOne(cursor)
           /\ cursor \in Waiting /\ Waiting' = Waiting \ {cursor}
  <2>c. PICK c : c = cursor
    OBVIOUS
  <2>1. /\ c \in Targets /\ Told' = Told \cup {c}
        /\ \A j, k \in Slots : InTurn(j, k) => InTurn(j, k)'
        /\ \A j \in Told : InTurn(j, c)'
    <3>1. /\ at \in {"signal", "rest"} /\ c \in Waiting /\ StopOne(c)
          /\ entry' = entry /\ Waiting' = Waiting \ {c}
      BY <1>1, <1>5, <2>c
    <3> QED
      BY <3>1, TellOne
  <2>2. c \in Tangle
    BY <1>2, <1>5, <2>c
  <2>3. ToldInTurn'
    <3>1. \A i \in Told' \ Tangle, j \in Targets :
              DependsOn(entry, i, j) => j \in Told' /\ InTurn(j, i)'
      BY <1>2, <2>1, <2>2
    <3> QED
      BY <1>1, <1>3, <3>1 DEF ToldInTurn, DependsOn
  <2>4. TangleLast'
    <3> SUFFICES ASSUME NEW i \in Targets \ Tangle,
                        NEW j \in Tangle \cap (Told \cup {c})
                 PROVE  InTurn(i, j)'
      BY <1>2, <1>3, <2>1 DEF TangleLast
    <3>1. CASE j \in Told
      <4>1. InTurn(i, j) /\ i \in Slots /\ j \in Slots
        BY <1>2, <3>1
      <4> QED
        BY <2>1, <4>1
    <3>2. CASE j = c
      <4>1. i \in Told
        BY <1>2
      <4> QED
        BY <2>1, <3>2, <4>1
    <3> QED
      BY <3>1, <3>2
  <2> QED
    BY <1>4, <2>3, <2>4 DEF SortedInv
<1>6. CASE UNCHANGED <<services, sent>> /\ Waiting' = Waiting
  <2>1. Told' = Told /\ \A i, j : InTurn(i, j)' = InTurn(i, j)
    BY <1>1, <1>3, <1>6 DEF Told, InTurn, SentBefore
  <2> QED
    BY <1>1, <1>2, <1>3, <1>4, <2>1
    DEF SortedInv, ToldInTurn, TangleLast, DependsOn
<1> QED
  BY <1>1, <1>5, <1>6

\* The order is empty in the beginning.
LEMMA FirstInit == LoopInit => FirstInv
<1> SUFFICES ASSUME LoopInit PROVE SortedInv
  BY OnceInit DEF FirstInv
<1>1. /\ at = "order" => remaining = Targets /\ Waiting = Targets
      /\ order = <<>> /\ cursor = 1 /\ at \in {"cascade", "order"}
  BY DEF LoopInit, Targets, Waiting, RangeOf
<1>2. \A i \in Targets : ~(i < 1)
  BY DEF Targets, ShutdownTargets
<1>3. at = "order" => Told = {}
  BY <1>1 DEF Told
<1> QED
  BY <1>1, <1>2, <1>3, TangleClosed
  DEF SortedInv, TangleStays, TangleIsLeft, OrderIsSorted, ToldInTurn,
      TangleLast

\* Each step of either loop keeps the turn.
LEMMA FirstStep == FirstInv /\ [LoopNext]_lvars => FirstInv'
<1> SUFFICES ASSUME FirstInv, [LoopNext]_lvars PROVE SortedInv'
  BY OnceStep DEF FirstInv
<1>1. CASE PassOver \/ StopDependent
  <2>1. at' \in {"cascade", "cascaded"}
    BY <1>1 DEF PassOver, StopDependent, NextInPass
  <2> QED
    BY <2>1 DEF SortedInv, TangleStays, TangleIsLeft, OrderIsSorted,
                ToldInTurn, TangleLast
<1>2. CASE UNCHANGED lvars
  <2>1. UNCHANGED <<services, at, entry, changed, remaining, order, cursor,
                    sent>>
    BY <1>2 DEF lvars, vars
  <2>2. Waiting' = Waiting /\ Targets' = Targets /\ Tangle' = Tangle
    BY <2>1 DEF Waiting, Targets, RangeOf, Tangle
  <2>3. /\ Told' = Told /\ \A i, j : InTurn(i, j)' = InTurn(i, j)
        /\ \A R, i : Ready(entry, R, i)' = Ready(entry, R, i)
        /\ \A i, j : DependsOn(entry, i, j)' = DependsOn(entry, i, j)
    BY <2>1, <2>2 DEF Told, InTurn, SentBefore, Ready, DependsOn,
                      find_service_by_name
  <2>4. TangleStays'
    BY <2>1, <2>2 DEF FirstInv, SortedInv, TangleStays, Ready,
                      find_service_by_name
  <2>5. OrderIsSorted' /\ TangleIsLeft'
    BY <2>1, <2>2, <2>3 DEF FirstInv, SortedInv, OrderIsSorted, TangleIsLeft,
                            DependsOn
  <2>6. ToldInTurn' /\ TangleLast'
    BY <2>1, <2>2, <2>3 DEF FirstInv, SortedInv, ToldInTurn, TangleLast,
                            DependsOn
  <2> QED
    BY <2>4, <2>5, <2>6 DEF SortedInv
<1> QED
  BY <1>1, <1>2, LeaveOutSorted, PutInOrderSorted, SignalInOrderSorted,
     EndOfOrderSorted, SignalRestSorted
  DEF LoopNext, Returned

\* stop_all_in_order() tells a dependency before those that depend on it, and
\* whoever is on a cycle, or depends on one that is, after everybody else: for
\* every table, graph and order of the slots.
THEOREM DependenciesComeFirst == LoopSpec => []DependenciesFirst
<1>1. FirstInv => DependenciesFirst
  <2> SUFFICES ASSUME FirstInv, at = "stopped",
                      NEW i \in Targets, entry[i].pid # None,
                      NEW j \in Targets, entry[j].pid # None,
                      i # j, i \notin Tangle,
                      DependsOn(entry, i, j) \/ j \in Tangle
               PROVE  IF j \in Tangle
                      THEN SentBefore(entry[i].pid, entry[j].pid)
                      ELSE SentBefore(entry[j].pid, entry[i].pid)
    BY DEF DependenciesFirst, Targets, Tangle
  <2>1. Told = Targets
    BY DEF Told, Waiting
  <2>2. CASE j \in Tangle
    <3>1. InTurn(i, j)
      BY <2>1, <2>2 DEF FirstInv, SortedInv, TangleLast
    <3> QED
      BY <2>2, <3>1 DEF InTurn
  <2>3. CASE j \notin Tangle
    <3>1. InTurn(j, i)
      BY <2>1, <2>3 DEF FirstInv, SortedInv, ToldInTurn
    <3> QED
      BY <2>3, <3>1 DEF InTurn
  <2> QED
    BY <2>2, <2>3
<1> QED
  BY <1>1, FirstInit, FirstStep, PTL DEF LoopSpec

-----------------------------------------------------------------------------
(* Why the loops end.                                                      *)

MovesOn ==
    <<at, at'>> \in {<<"cascade", "cascaded">>, <<"order", "signal">>,
                     <<"signal", "rest">>, <<"rest", "stopped">>}

DoesSome == Undone' \subseteq Undone /\ Undone' # Undone

GoesOn == Undone' = Undone /\ \/ changed /\ ~changed'
                              \/ changed' = changed /\ cursor' = cursor + 1

\* One step of a pass: another slot, another pass, or the end.
LEMMA InPass ==
    ASSUME NEW c \in BOOLEAN, NEW again, NEW after,
           NextInPass(c, again, after)
    PROVE  \/ at' = at /\ changed' = c /\ cursor' = cursor + 1
           \/ c /\ at' = again /\ ~changed'
           \/ ~c /\ at' = after
BY DEF NextInPass

\* A slot that is passed over leaves as much to be done, and `changed' as it
\* is; the last one leads to another pass only if `changed' is set.
LEMMA PassOverShrinks ==
    ASSUME LoopTypeOK, PassOver \/ LeaveOut
    PROVE  MovesOn \/ (at' = at /\ GoesOn)
<1>0. changed \in BOOLEAN
  BY DEF LoopTypeOK
<1>1. CASE PassOver
  <2>1. at = "cascade" /\ services' = services
    BY <1>1 DEF PassOver
  <2>2. NextInPass(changed, "cascade", "cascaded")
    BY <1>1 DEF PassOver
  <2>3. at' = at => Undone' = Undone
    BY <2>1 DEF Undone, Stoppable
  <2> QED
    BY <1>0, <2>1, <2>2, <2>3, InPass DEF MovesOn, GoesOn
<1>2. CASE LeaveOut
  <2>1. at = "order" /\ remaining' = remaining
    BY <1>2 DEF LeaveOut
  <2>2. NextInPass(changed, IF remaining = {} THEN "signal" ELSE "order",
                   "signal")
    BY <1>2 DEF LeaveOut, NextInOrder
  <2>3. at' = at => Undone' = Undone
    BY <2>1 DEF Undone
  <2> QED
    BY <1>0, <2>1, <2>2, <2>3, InPass DEF MovesOn, GoesOn
<1> QED
  BY <1>1, <1>2

\* A service that is stopped is not stoppable any more.
LEMMA StopDependentShrinks ==
    ASSUME LoopTypeOK, StopDependent
    PROVE  at' = at /\ DoesSome
<1>1. /\ cursor \in Slots /\ services[cursor] \in Service
      /\ services \in [Slots -> Service]
  BY DEF LoopTypeOK
<1>2. services' = [services EXCEPT ![cursor] = Halt(services[cursor])]
      /\ at = "cascade" /\ cursor \in Stoppable(services)
  BY <1>1 DEF StopDependent
<1>3. NextInPass(TRUE, "cascade", "cascaded")
  BY DEF StopDependent
<1>4. at' = at
  BY <1>2, <1>3 DEF NextInPass
<1>5. Halt(services[cursor]).stopping = TRUE
  BY <1>1 DEF Halt, Service
<1>6. \A i \in Slots : services'[i] = IF i = cursor THEN Halt(services[cursor])
                                      ELSE services[i]
  BY <1>1, <1>2
<1>7. Undone' = Stoppable(services')
  BY <1>2, <1>4 DEF Undone, Stoppable
<1>8. Undone = Stoppable(services)
  BY <1>2 DEF Undone
<1>9. Stoppable(services') \subseteq Stoppable(services) \ {cursor}
  BY <1>5, <1>6 DEF Stoppable
<1> QED
  BY <1>2, <1>4, <1>7, <1>8, <1>9 DEF DoesSome

\* A slot that is put into the order is not remaining, and one that is
\* signalled is not in the order any more.
LEMMA OrderShrinks ==
    ASSUME LoopTypeOK, PutInOrder \/ SignalInOrder
    PROVE  MovesOn \/ (at' = at /\ DoesSome)
<1>1. CASE PutInOrder
  <2>1. at = "order" /\ cursor \in remaining
        /\ remaining' = remaining \ {cursor}
    BY <1>1 DEF PutInOrder
  <2>2. NextInPass(TRUE, IF remaining' = {} THEN "signal" ELSE "order",
                   "signal")
    BY <1>1 DEF PutInOrder, NextInOrder
  <2>3. at' \in {"order", "signal"}
    BY <2>1, <2>2 DEF NextInPass
  <2>4. at' = at => DoesSome
    BY <2>1 DEF DoesSome, Undone
  <2> QED
    BY <2>1, <2>3, <2>4 DEF MovesOn
<1>2. CASE SignalInOrder
  <2>1. /\ at = "signal" /\ at' = at
        /\ order # <<>> /\ order \in Seq(Slots) /\ order' = Tail(order)
    BY <1>2 DEF SignalInOrder, LoopTypeOK
  <2>2. /\ Len(order) \in Nat \ {0} /\ DOMAIN order = 1..Len(order)
        /\ DOMAIN Tail(order) = 1..(Len(order) - 1)
    BY <2>1
  <2>3. /\ DOMAIN Tail(order) \subseteq DOMAIN order
        /\ Len(order) \in DOMAIN order /\ Len(order) \notin DOMAIN Tail(order)
    BY <2>2
  <2>4. Undone = DOMAIN order /\ Undone' = DOMAIN Tail(order)
    BY <2>1 DEF Undone
  <2> QED
    BY <2>1, <2>3, <2>4 DEF DoesSome
<1> QED
  BY <1>1, <1>2

\* The last loop passes over the table once.
LEMMA RestShrinks ==
    ASSUME LoopTypeOK, EndOfOrder \/ SignalRest
    PROVE  MovesOn \/ (at' = at /\ GoesOn)
<1>1. CASE EndOfOrder
  BY <1>1 DEF EndOfOrder, MovesOn
<1>2. CASE SignalRest
  <2>1. at = "rest" /\ NextInPass(FALSE, "rest", "stopped")
    BY <1>2 DEF SignalRest
  <2>2. changed \in BOOLEAN
    BY DEF LoopTypeOK
  <2>3. at' = at => Undone' = Undone
    BY <2>1 DEF Undone
  <2> QED
    BY <2>1, <2>2, <2>3, InPass DEF MovesOn, GoesOn
<1> QED
  BY <1>1, <1>2

\* Both loops come nearer to their end with every step, for every table and
\* every dependency graph: `changed' and `found' are set only by a step that
\* has stopped or ordered somebody, so that no pass is repeated for nothing.
THEOREM LoopsComeToAnEnd == LoopSpec => LoopsShrink
<1>1. ASSUME LoopTypeOK, LoopNext, ~UNCHANGED lvars
      PROVE  MovesOn \/ (at' = at /\ (DoesSome \/ GoesOn))
  BY <1>1, PassOverShrinks, StopDependentShrinks, OrderShrinks, RestShrinks
  DEF LoopNext, Returned
<1>2. LoopTypeOK /\ [LoopNext]_lvars
      => [\/ <<at, at'>> \in {<<"cascade", "cascaded">>, <<"order", "signal">>,
                              <<"signal", "rest">>, <<"rest", "stopped">>}
          \/ /\ at' = at
             /\ \/ Undone' \subseteq Undone /\ Undone' # Undone
                \/ Undone' = Undone /\ changed /\ ~changed'
                \/ /\ Undone' = Undone /\ changed' = changed
                   /\ cursor' = cursor + 1
         ]_lvars
  BY <1>1 DEF MovesOn, DoesSome, GoesOn
<1> QED
  BY <1>2, LoopTypeCorrect, PTL DEF LoopSpec, LoopsShrink

=============================================================================
