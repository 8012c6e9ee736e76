----------------------------- MODULE StreamsProofs -----------------------------
(***************************************************************************)
(* What a service writes is accounted for, byte by byte and descriptor by  *)
(* descriptor, however many times the service is started, however much it  *)
(* writes, whatever the sizes of pipe, buffer and log, and whatever of     *)
(* pipe(), fork(), open(), read() and write() fails.                       *)
(*                                                                         *)
(* Each step is of one of six kinds (StepKinds): quiet, closing the        *)
(* stream, a start that succeeds, one that fails, a read, or a step of the *)
(* service's processes.  The invariants are shown for each kind.           *)
(***************************************************************************)
EXTENDS Streams, SequenceTheorems, TLAPS

USE StreamsAssumption DEF Starts

-----------------------------------------------------------------------------
(* Sequences.                                                              *)

\* A sequence is two of its parts, one after the other.
LEMMA Split ==
    ASSUME NEW S, NEW q \in Seq(S), NEW n \in 0..Len(q)
    PROVE  /\ SubSeq(q, 1, n) \in Seq(S) /\ Len(SubSeq(q, 1, n)) = n
           /\ SubSeq(q, n + 1, Len(q)) \in Seq(S)
           /\ Len(SubSeq(q, n + 1, Len(q))) = Len(q) - n
           /\ \A x \in 1..n : SubSeq(q, 1, n)[x] = q[x]
           /\ \A x \in 1..(Len(q) - n) : SubSeq(q, n + 1, Len(q))[x] = q[n + x]
           /\ ToSet(q) = ToSet(SubSeq(q, 1, n))
                             \cup ToSet(SubSeq(q, n + 1, Len(q)))
<1> DEFINE a == SubSeq(q, 1, n)
           b == SubSeq(q, n + 1, Len(q))
<1>1. /\ a \in Seq(S) /\ Len(a) = n /\ \A x \in 1..n : a[x] = q[x]
  OBVIOUS
<1>2. /\ b \in Seq(S) /\ Len(b) = Len(q) - n
      /\ \A x \in 1..(Len(q) - n) : b[x] = q[n + x]
  OBVIOUS
<1> HIDE DEF a, b
<1>3. DOMAIN a = 1..n /\ DOMAIN b = 1..(Len(q) - n) /\ DOMAIN q = 1..Len(q)
  BY <1>1, <1>2
<1>4. ToSet(a) \subseteq ToSet(q)
  BY <1>1, <1>3 DEF ToSet
<1>5. ToSet(b) \subseteq ToSet(q)
  <2> SUFFICES ASSUME NEW x \in DOMAIN b PROVE b[x] \in ToSet(q)
    BY DEF ToSet
  <2>1. b[x] = q[n + x] /\ n + x \in DOMAIN q
    BY <1>2, <1>3
  <2> QED
    BY <2>1 DEF ToSet
<1>6. ToSet(q) \subseteq ToSet(a) \cup ToSet(b)
  <2> SUFFICES ASSUME NEW x \in DOMAIN q PROVE q[x] \in ToSet(a) \cup ToSet(b)
    BY DEF ToSet
  <2>1. CASE x <= n
    <3>1. x \in DOMAIN a /\ a[x] = q[x]
      BY <1>1, <1>3, <2>1
    <3> QED
      BY <3>1 DEF ToSet
  <2>2. CASE ~(x <= n)
    <3>1. x - n \in 1..(Len(q) - n) /\ n + (x - n) = x
      BY <1>3, <2>2
    <3>2. x - n \in DOMAIN b /\ b[x - n] = q[x]
      BY <1>2, <1>3, <3>1
    <3> QED
      BY <3>2 DEF ToSet
  <2> QED
    BY <1>3, <2>1, <2>2
<1> QED
  <2>1. ToSet(q) = ToSet(a) \cup ToSet(b)
    BY <1>4, <1>5, <1>6
  <2>2. /\ a \in Seq(S) /\ b \in Seq(S)
        /\ Len(a) = n /\ Len(b) = Len(q) - n
        /\ \A x \in 1..n : a[x] = q[x]
        /\ \A x \in 1..(Len(q) - n) : b[x] = q[n + x]
        /\ ToSet(q) = ToSet(a) \cup ToSet(b)
    BY <1>1, <1>2, <2>1
  <2> QED
    BY <2>2, Zenon DEF a, b

\* What is in two sequences one after the other.
LEMMA SetOfConcat ==
    ASSUME NEW S, NEW q \in Seq(S), NEW t \in Seq(S)
    PROVE  q \o t \in Seq(S) /\ ToSet(q \o t) = ToSet(q) \cup ToSet(t)
<1>1. /\ q \o t \in Seq(S) /\ Len(q) \in Nat /\ Len(t) \in Nat
      /\ DOMAIN q = 1..Len(q) /\ DOMAIN t = 1..Len(t)
      /\ DOMAIN (q \o t) = 1..(Len(q) + Len(t))
      /\ \A x \in 1..Len(q) : (q \o t)[x] = q[x]
      /\ \A x \in 1..Len(t) : (q \o t)[Len(q) + x] = t[x]
  OBVIOUS
<1>2. ASSUME NEW x \in DOMAIN (q \o t)
      PROVE  (q \o t)[x] \in ToSet(q) \cup ToSet(t)
  <2>1. CASE x <= Len(q)
    BY <1>1, <2>1 DEF ToSet
  <2>2. CASE ~(x <= Len(q))
    <3>1. x - Len(q) \in DOMAIN t /\ (q \o t)[x] = t[x - Len(q)]
      BY <1>1, <2>2
    <3> QED
      BY <3>1 DEF ToSet
  <2> QED
    BY <1>1, <2>1, <2>2
<1>3. ASSUME NEW x \in DOMAIN q PROVE q[x] \in ToSet(q \o t)
  <2>1. x \in DOMAIN (q \o t) /\ (q \o t)[x] = q[x]
    BY <1>1
  <2> QED
    BY <2>1 DEF ToSet
<1>4. ASSUME NEW x \in DOMAIN t PROVE t[x] \in ToSet(q \o t)
  <2>1. Len(q) + x \in DOMAIN (q \o t) /\ (q \o t)[Len(q) + x] = t[x]
    BY <1>1
  <2> QED
    BY <2>1 DEF ToSet
<1>5. ToSet(q \o t) \subseteq ToSet(q) \cup ToSet(t)
  BY <1>2 DEF ToSet
<1>6. ToSet(q) \subseteq ToSet(q \o t)
  BY <1>3 DEF ToSet
<1>7. ToSet(t) \subseteq ToSet(q \o t)
  BY <1>4 DEF ToSet
<1> QED
  BY <1>1, <1>5, <1>6, <1>7

-----------------------------------------------------------------------------
(* The log file.                                                           *)

Accounts == [fd: BOOLEAN, len: Nat, file: Seq(Bytes), lost: SUBSET Bytes]

\* log_len is the size of the file if the file is open.
LenTrue(a) == a.fd => a.len = Len(a.file)

\* What write_log() may make of an account: a part of the data is appended,
\* the rest is given up, and log_len stays true.
Outcome(a, data, r) ==
    /\ r \in Accounts
    /\ LenTrue(a) => LenTrue(r)
    /\ a.lost \subseteq r.lost
    /\ \E n \in 0..Len(data) :
           /\ r.file = a.file \o SubSeq(data, 1, n)
           /\ ToSet(SubSeq(data, n + 1, Len(data))) \subseteq r.lost

\* open_log() and rotate_log() leave the file as it is, and log_len is true
\* after them.
LEMMA Opened ==
    ASSUME NEW a \in Accounts, NEW r \in open_log(a) \cup rotate_log(a)
    PROVE  /\ r \in Accounts /\ r.file = a.file /\ r.lost = a.lost
           /\ LenTrue(r)
<1>1. a.file \in Seq(Bytes) /\ Len(a.file) \in Nat
  BY DEF Accounts
<1>2. r \in {[a EXCEPT !.fd = TRUE, !.len = Len(a.file)],
             [a EXCEPT !.fd = FALSE, !.len = 0]}
  BY DEF open_log, rotate_log, OpenFails
<1>3. CASE r = [a EXCEPT !.fd = TRUE, !.len = Len(a.file)]
  BY <1>1, <1>3 DEF Accounts, LenTrue
<1>4. CASE r = [a EXCEPT !.fd = FALSE, !.len = 0]
  BY <1>4 DEF Accounts, LenTrue
<1> QED
  BY <1>2, <1>3, <1>4

\* Data that is not written is given up.
LEMMA GivenUpOutcome ==
    ASSUME NEW a \in Accounts, NEW data \in Seq(Bytes)
    PROVE  Outcome(a, data, GivenUp(a, data))
<1> DEFINE r == GivenUp(a, data)
<1>1. ToSet(data) \subseteq Bytes
  BY DEF ToSet
<1>2. /\ r \in Accounts /\ r.file = a.file /\ r.fd = a.fd /\ r.len = a.len
      /\ r.lost = a.lost \cup ToSet(data)
  BY <1>1 DEF GivenUp, Accounts
<1>3. SubSeq(data, 1, 0) = <<>> /\ SubSeq(data, 0 + 1, Len(data)) = data
  BY SubSeqFull
<1>4. a.file \o <<>> = a.file
  BY ConcatEmptySeq DEF Accounts
<1>5. 0 \in 0..Len(data)
  OBVIOUS
<1> HIDE DEF r
<1>6. \E n \in 0..Len(data) :
          /\ r.file = a.file \o SubSeq(data, 1, n)
          /\ ToSet(SubSeq(data, n + 1, Len(data))) \subseteq r.lost
  BY <1>2, <1>3, <1>4, <1>5
<1> QED
  BY <1>2, <1>6 DEF Outcome, LenTrue, r

\* write_all() writes all of it, or a part before it fails.
LEMMA AppendedOutcome ==
    ASSUME NEW a \in Accounts, a.fd, NEW data \in Seq(Bytes),
           NEW r \in Appended(a, data)
    PROVE  Outcome(a, data, r)
<1>1. a.file \in Seq(Bytes) /\ a.len \in Nat /\ Len(data) \in Nat
  BY DEF Accounts
<1>2. CASE r = [a EXCEPT !.file = @ \o data, !.len = @ + Len(data)]
  <2>1. a.file \o data \in Seq(Bytes)
        /\ Len(a.file \o data) = Len(a.file) + Len(data)
    BY <1>1
  <2>2. /\ r \in Accounts /\ r.file = a.file \o data /\ r.lost = a.lost
        /\ r.len = a.len + Len(data)
    <3> DEFINE f == a.file \o data
               l == a.len + Len(data)
    <3>1. r = [a EXCEPT !.file = f, !.len = l] /\ l \in Nat
          /\ f \in Seq(Bytes)
      BY <1>1, <1>2, <2>1
    <3> HIDE DEF f, l
    <3>2. r \in Accounts /\ r.file = f /\ r.lost = a.lost /\ r.len = l
      BY <3>1 DEF Accounts
    <3> QED
      BY <3>2 DEF f, l
  <2>3. /\ SubSeq(data, 1, Len(data)) = data
        /\ SubSeq(data, Len(data) + 1, Len(data)) = <<>>
        /\ ToSet(<<>>) = {} /\ Len(data) \in 0..Len(data)
    BY SubSeqFull DEF ToSet
  <2>4. LenTrue(a) => LenTrue(r)
    BY <1>1, <2>1, <2>2 DEF LenTrue
  <2>5. \E n \in 0..Len(data) :
            /\ r.file = a.file \o SubSeq(data, 1, n)
            /\ ToSet(SubSeq(data, n + 1, Len(data))) \subseteq r.lost
    BY <2>2, <2>3
  <2> QED
    BY <2>2, <2>4, <2>5 DEF Outcome
<1>3. ASSUME NEW n \in 0..(Len(data) - 1),
             r = GivenUp([a EXCEPT !.file = @ \o SubSeq(data, 1, n),
                                   !.fd = FALSE],
                         SubSeq(data, n + 1, Len(data)))
      PROVE  Outcome(a, data, r)
  <2> DEFINE p == SubSeq(data, 1, n)
             q == SubSeq(data, n + 1, Len(data))
             b == [a EXCEPT !.file = @ \o p, !.fd = FALSE]
  <2>1. n \in 0..Len(data)
    BY <1>1
  <2>2. p \in Seq(Bytes) /\ q \in Seq(Bytes)
    BY <2>1, Split
  <2>3. ToSet(q) \subseteq Bytes
    BY <2>2 DEF ToSet
  <2> HIDE DEF p, q
  <2>4. a.file \o p \in Seq(Bytes)
    BY <1>1, <2>2
  <2>5. /\ b \in Accounts /\ b.file = a.file \o p /\ b.fd = FALSE
        /\ b.lost = a.lost
    BY <1>1, <2>4 DEF Accounts
  <2>6. r = GivenUp(b, q)
    BY <1>3 DEF p, q
  <2> HIDE DEF b
  <2>7. /\ r \in Accounts /\ r.file = a.file \o p /\ r.fd = FALSE
        /\ r.lost = a.lost \cup ToSet(q)
    BY <2>3, <2>5, <2>6 DEF GivenUp, Accounts
  <2>8. /\ r.file = a.file \o SubSeq(data, 1, n)
        /\ ToSet(SubSeq(data, n + 1, Len(data))) \subseteq r.lost
    BY <2>7 DEF p, q
  <2> QED
    BY <2>1, <2>7, <2>8 DEF Outcome, LenTrue
<1> QED
  BY <1>2, <1>3 DEF Appended

\* write_log(), whatever of open() and write() fails.
LEMMA WriteLogOutcome ==
    ASSUME NEW a \in Accounts, NEW data \in Seq(Bytes),
           NEW r \in write_log(a, data)
    PROVE  Outcome(a, data, r)
<1>1. PICK o \in IF a.fd THEN {a} ELSE open_log(a) :
          r \in IF ~o.fd THEN {GivenUp(o, data)}
                ELSE UNION {IF p.fd THEN Appended(p, data)
                            ELSE {GivenUp(p, data)} :
                               p \in IF o.len + Len(data) > LogLimit
                                     THEN rotate_log(o) ELSE {o}}
  BY DEF write_log
<1>2. /\ o \in Accounts /\ o.file = a.file /\ o.lost = a.lost
      /\ LenTrue(a) => LenTrue(o)
  BY <1>1, Opened
<1>3. PICK p \in Accounts :
          /\ p.file = o.file /\ p.lost = o.lost
          /\ LenTrue(o) => LenTrue(p)
          /\ r \in IF p.fd THEN Appended(p, data) ELSE {GivenUp(p, data)}
  <2>1. CASE ~o.fd
    BY <1>1, <1>2, <2>1
  <2>2. CASE o.fd
    <3>1. PICK p \in IF o.len + Len(data) > LogLimit
                     THEN rotate_log(o) ELSE {o} :
              r \in IF p.fd THEN Appended(p, data) ELSE {GivenUp(p, data)}
      BY <1>1, <2>2
    <3>2. /\ p \in Accounts /\ p.file = o.file /\ p.lost = o.lost
          /\ LenTrue(o) => LenTrue(p)
      BY <1>2, <3>1, Opened
    <3> QED
      BY <3>1, <3>2
  <2> QED
    BY <2>1, <2>2
<1>4. Outcome(p, data, r)
  BY <1>3, GivenUpOutcome, AppendedOutcome
<1> QED
  BY <1>2, <1>3, <1>4 DEF Outcome

-----------------------------------------------------------------------------
(* Types.                                                                  *)

\* The main loop: which places it passes when it serves and when it shuts
\* down, and which stream the slot may have.
Placed ==
    /\ s.read_fd \in {0, starts}
    /\ ~s.active => s.read_fd = 0
    /\ pc = "drain" => s.read_fd # 0
    /\ pc \in {"scan", "start", "poll"} => phase = "serve"
    /\ pc = "settle" => phase # "serve"

Based == StreamTypeOK /\ Placed

\* The processes of a start.
LEMMA OwnersOf ==
    ASSUME NEW k \in Starts
    PROVE  /\ <<"main", k>> \in Owners \ {svc}
           /\ <<"helper", k>> \in Owners \ {svc}
           /\ <<"logger", k>> \in Owners \ {svc}
           /\ <<"main", k>> # <<"helper", k>>
           /\ <<"main", k>> # <<"logger", k>>
           /\ <<"helper", k>> # <<"logger", k>>
<1>1. <<"main", k>> \in Owners /\ <<"helper", k>> \in Owners
      /\ <<"logger", k>> \in Owners
  BY DEF Owners
<1>2. <<"main", k>> # svc /\ <<"helper", k>> # svc /\ <<"logger", k>> # svc
  BY DEF svc
<1>3. /\ <<"main", k>> # <<"helper", k>>
      /\ <<"main", k>> # <<"logger", k>>
      /\ <<"helper", k>> # <<"logger", k>>
  OBVIOUS
<1> QED
  BY <1>1, <1>2, <1>3

\* The sizes are positive numbers.
LEMMA Sizes ==
    /\ MaxStarts \in Nat \ {0} /\ PipeSize \in Nat \ {0}
    /\ BufSize \in Nat \ {0}
BY DEF StreamsAssumption

\* What one read() of drain_stream() does.
LEMMA ReadDoes ==
    ASSUME Based, Read
    PROVE  \E k \in Starts, n \in Nat \ {0}, a \in Accounts :
               /\ k = s.read_fd /\ k = starts /\ n <= Len(pipe[k])
               /\ Outcome(Account, SubSeq(pipe[k], 1, n), a)
               /\ s' = [s EXCEPT !.log_fd = a.fd, !.log_len = a.len]
               /\ file' = a.file /\ given_up' = given_up \cup a.lost
               /\ pipe' = [pipe EXCEPT ![k] = SubSeq(@, n + 1, Len(@))]
               /\ \/ UNCHANGED pc
                  \/ n = Len(pipe[k]) /\ Drained
               /\ UNCHANGED <<starts, phase, procs, held, written, unread>>
<1> DEFINE k == s.read_fd
           n == Min({Len(pipe[k]), BufSize})
           data == SubSeq(pipe[k], 1, n)
<1>1. /\ pc = "drain" /\ pipe[k] # <<>>
      /\ \E a \in write_log(Account, data) :
             /\ s' = [s EXCEPT !.log_fd = a.fd, !.log_len = a.len]
             /\ file' = a.file
             /\ given_up' = given_up \cup a.lost
      /\ pipe' = [pipe EXCEPT ![k] = SubSeq(@, Len(data) + 1, Len(@))]
      /\ IF Len(data) = BufSize THEN UNCHANGED pc ELSE Drained
      /\ UNCHANGED <<starts, phase, procs, held, written, unread>>
  BY DEF Read
<1>2. k \in Starts /\ k = starts
  BY <1>1 DEF Based, Placed, StreamTypeOK
<1>3. pipe[k] \in Seq(Bytes) /\ Len(pipe[k]) \in Nat \ {0}
  BY <1>1, <1>2 DEF Based, StreamTypeOK
<1>4. /\ n \in Nat \ {0} /\ n <= Len(pipe[k])
      /\ n = Len(pipe[k]) \/ n = BufSize
  <2>1. \A l, b \in Nat : Min({l, b}) = IF l <= b THEN l ELSE b
    BY DEF Min
  <2> QED
    BY <1>3, <2>1
<1> HIDE DEF k, n
<1>5. data \in Seq(Bytes) /\ Len(data) = n
  BY <1>3, <1>4, Split
<1>6. PICK a \in write_log(Account, data) :
          /\ s' = [s EXCEPT !.log_fd = a.fd, !.log_len = a.len]
          /\ file' = a.file
          /\ given_up' = given_up \cup a.lost
  BY <1>1
<1>7. Account \in Accounts
  BY DEF Account, Accounts, Based, StreamTypeOK, Slot
<1>8. Outcome(Account, data, a)
  BY <1>5, <1>6, <1>7, WriteLogOutcome
<1>9. a \in Accounts
  BY <1>8 DEF Outcome
<1>10. pipe' = [pipe EXCEPT ![k] = SubSeq(@, n + 1, Len(@))]
  BY <1>1, <1>5
<1>11. \/ UNCHANGED pc
       \/ n = Len(pipe[k]) /\ Drained
  BY <1>1, <1>4, <1>5
<1> QED
  BY <1>1, <1>2, <1>4, <1>6, <1>8, <1>9, <1>10, <1>11 DEF k

\* The service in the beginning.
LEMMA StreamInitType == StreamInit => Based
<1> SUFFICES ASSUME StreamInit PROVE Based
  OBVIOUS
<1>1. s \in Slot /\ s.read_fd = 0
  BY DEF StreamInit, NewService, Slot
<1>2. Placed
  BY <1>1 DEF StreamInit, Placed
<1>3. /\ pipe \in [Starts -> Seq(Bytes)]
      /\ \A k \in Starts : Len(pipe[k]) <= PipeSize
  BY DEF StreamInit
<1>4. written \in [Starts -> Nat] /\ file \in Seq(Bytes)
  BY DEF StreamInit
<1> QED
  BY <1>1, <1>2, <1>3, <1>4 DEF Based, StreamTypeOK, StreamInit

\* What services, helpers and loggers do.
LEMMA WorldTypes == Based /\ World => Based'
<1> SUFFICES ASSUME Based, World PROVE Based'
  OBVIOUS
<1>1. ASSUME NEW k \in Starts, Write(k) PROVE Based'
  <2>1. /\ UNCHANGED <<s, starts, pc, phase, procs, held, file, given_up,
                       unread>>
        /\ written' = [written EXCEPT ![k] = @ + 1]
        /\ pipe' = [pipe EXCEPT ![k] = Append(@, <<k, written[k] + 1>>)]
        /\ Len(pipe[k]) < PipeSize
    BY <1>1 DEF Write, service_vars, rest_vars, log_vars
  <2>2. /\ pipe[k] \in Seq(Bytes) /\ written[k] + 1 \in Nat \ {0}
        /\ <<k, written[k] + 1>> \in Bytes
    BY DEF Based, StreamTypeOK, Bytes
  <2>3. Append(pipe[k], <<k, written[k] + 1>>) \in Seq(Bytes)
        /\ Len(Append(pipe[k], <<k, written[k] + 1>>)) <= PipeSize
    BY <2>1, <2>2
  <2> QED
    BY <2>1, <2>2, <2>3 DEF Based, StreamTypeOK, Placed
<1>2. ASSUME NEW k \in Starts, Spawn(k) PROVE Based'
  <2>1. /\ UNCHANGED <<s, starts, pc, phase, pipe, written, file, given_up,
                       unread>>
        /\ procs' = [procs EXCEPT ![<<"helper", k>>] = "run"]
        /\ held' = held \cup {<<<<"helper", k>>, e[2], e[3]>> :
                                  e \in EndsOf(<<"main", k>>)}
    BY <1>2 DEF Spawn, service_vars, rest_vars, log_vars
  <2>2. held' \subseteq Owners \X Starts \X {"r", "w"}
    <3>1. <<"helper", k>> \in Owners
      BY OwnersOf
    <3>2. \A e \in held : e[2] \in Starts /\ e[3] \in {"r", "w"}
      BY DEF Based, StreamTypeOK
    <3>3. \A e \in held : <<<<"helper", k>>, e[2], e[3]>>
                              \in Owners \X Starts \X {"r", "w"}
      BY <3>1, <3>2
    <3> QED
      BY <2>1, <3>3 DEF EndsOf, Based, StreamTypeOK
  <2> QED
    BY <2>1, <2>2 DEF Based, StreamTypeOK, Placed
<1>3. ASSUME NEW o \in Owners \ {svc}, End(o) PROVE Based'
  BY <1>3 DEF End, service_vars, rest_vars, log_vars, Based, StreamTypeOK,
              Placed
<1>4. ASSUME NEW k \in Starts, LoggerReads(k) PROVE Based'
  <2>1. /\ UNCHANGED <<s, starts, pc, phase, procs, held, written, file,
                       given_up, unread>>
        /\ pipe' = [pipe EXCEPT ![k] = Tail(@)] /\ pipe[k] # <<>>
    BY <1>4 DEF LoggerReads, service_vars, rest_vars, log_vars
  <2>2. Tail(pipe[k]) \in Seq(Bytes) /\ Len(Tail(pipe[k])) <= PipeSize
    BY <2>1 DEF Based, StreamTypeOK
  <2> QED
    BY <2>1, <2>2 DEF Based, StreamTypeOK, Placed
<1>5. CASE Tick
  BY <1>5 DEF Tick, world_vars, rest_vars, log_vars, Based, StreamTypeOK,
              Placed, Slot
<1> QED
  BY <1>1, <1>2, <1>3, <1>4, <1>5 DEF World


\* reap_children() and the scan.
LEMMA ReapTypes ==
    Based /\ (\/ \E k \in Starts : ReapMain(k) \/ ReapLog(k)
              \/ ReapEnd \/ NoScan \/ Found \/ Removed \/ Dropped) => Based'
<1> USE DEF service_vars, world_vars, rest_vars, log_vars
<1>1. ASSUME Based, NEW k \in Starts, ReapMain(k) PROVE Based'
  <2>1. /\ UNCHANGED <<starts, pc, phase, held, pipe, written, file, given_up,
                       unread>>
        /\ procs' = [procs EXCEPT ![<<"main", k>>] = "none"]
    BY <1>1 DEF ReapMain
  <2>2. PICK when \in {"later", "never"} :
            s' = IF s.active /\ s.pid = k
                 THEN [s EXCEPT !.pid = 0, !.restart_at = when] ELSE s
    BY <1>1 DEF ReapMain, AfterExit
  <2>3. s' \in Slot /\ s'.read_fd = s.read_fd /\ s'.active = s.active
    <3>1. s \in Slot
      BY <1>1 DEF Based, StreamTypeOK
    <3>2. CASE s' = [s EXCEPT !.pid = 0, !.restart_at = when]
      <4>1. 0 \in 0..MaxStarts /\ when \in {"due", "later", "never"}
        BY Sizes
      <4> QED
        BY <3>1, <3>2, <4>1 DEF Slot
    <3>3. CASE s' = s
      BY <3>1, <3>3
    <3> QED
      BY <2>2, <3>2, <3>3
  <2> QED
    BY <1>1, <2>1, <2>3 DEF Based, StreamTypeOK, Placed
<1>2. ASSUME Based, NEW k \in Starts, ReapLog(k) PROVE Based'
  <2>1. /\ UNCHANGED <<starts, pc, phase, held, pipe, written, file, given_up,
                       unread>>
        /\ procs' = [procs EXCEPT ![<<"logger", k>>] = "none"]
        /\ s' = IF s.active /\ s.log_pid = k THEN [s EXCEPT !.log_pid = 0]
                ELSE s
    BY <1>2 DEF ReapLog
  <2>2. s' \in Slot /\ s'.read_fd = s.read_fd /\ s'.active = s.active
    <3>1. s \in Slot
      BY <1>2 DEF Based, StreamTypeOK
    <3>2. CASE s' = [s EXCEPT !.log_pid = 0]
      BY <3>1, <3>2 DEF Slot
    <3>3. CASE s' = s
      BY <3>1, <3>3
    <3> QED
      BY <2>1, <3>2, <3>3
  <2> QED
    BY <1>2, <2>1, <2>2 DEF Based, StreamTypeOK, Placed
<1>3. ASSUME Based, ReapEnd PROVE Based'
  <2>1. /\ s' \in Slot /\ s'.read_fd = s.read_fd /\ s'.active = s.active
    BY <1>3 DEF ReapEnd, Based, StreamTypeOK, Slot
  <2> QED
    BY <1>3, <2>1 DEF ReapEnd, Based, StreamTypeOK, Placed
<1>4. ASSUME Based, NoScan PROVE Based'
  BY <1>4 DEF NoScan, Based, StreamTypeOK, Placed
<1>5. ASSUME Based, Found PROVE Based'
  <2>1. s' \in Slot /\ s'.read_fd \in {0, s.read_fd} /\ s'.active
    <3>1. NewService \in Slot /\ NewService.read_fd = 0 /\ NewService.active
      BY DEF NewService, Slot
    <3>2. s \in Slot /\ s' = IF s.active
                             THEN [s EXCEPT !.present = TRUE,
                                            !.stopping = FALSE]
                             ELSE NewService
      BY <1>5 DEF Found, Based, StreamTypeOK
    <3>3. CASE s.active
      BY <3>2, <3>3 DEF Slot
    <3>4. CASE ~s.active
      BY <3>1, <3>2, <3>4
    <3> QED
      BY <3>3, <3>4
  <2> QED
    BY <1>5, <2>1 DEF Found, Based, StreamTypeOK, Placed
<1>6. ASSUME Based, Removed PROVE Based'
  <2>1. s' \in Slot /\ s'.read_fd = s.read_fd /\ s'.active
    BY <1>6 DEF Removed, Based, StreamTypeOK, Slot
  <2> QED
    BY <1>6, <2>1 DEF Removed, Based, StreamTypeOK, Placed
<1>7. ASSUME Based, Dropped PROVE Based'
  <2>1. s' \in Slot /\ s'.read_fd = 0
    BY <1>7 DEF Dropped, Based, StreamTypeOK, Slot
  <2>2. s.read_fd \in Starts \cup {0}
    BY <1>7 DEF Based, StreamTypeOK, Slot
  <2> QED
    BY <1>7, <2>1, <2>2 DEF Dropped, WithoutRead, Based, StreamTypeOK, Placed
<1> QED
  BY <1>1, <1>2, <1>3, <1>4, <1>5, <1>6, <1>7

\* The slot while start_service() works on it.
LEMMA PreparedSlot ==
    ASSUME s \in Slot, NEW k \in Starts, NEW logged \in BOOLEAN
    PROVE  /\ Prepared(k, logged) \in Slot
           /\ Prepared(k, logged).active = s.active
           /\ Prepared(k, logged).pid = s.pid
           /\ Prepared(k, logged).restart_at = s.restart_at
           /\ Prepared(k, logged).read_fd = 0
           /\ Prepared(k, logged).log_fd = s.log_fd
           /\ Prepared(k, logged).log_len = s.log_len
<1> DEFINE l == IF logged THEN k ELSE s.log_pid
<1>1. l \in 0..MaxStarts
  BY DEF Slot
<1>2. Prepared(k, logged)
          = [s EXCEPT !.read_fd = 0, !.has_log = logged, !.log_pid = l]
  BY DEF Prepared
<1> HIDE DEF l
<1> DEFINE r == [s EXCEPT !.read_fd = 0, !.has_log = logged, !.log_pid = l]
<1>3. /\ r.active = s.active /\ r.pid = s.pid /\ r.restart_at = s.restart_at
      /\ r.read_fd = 0 /\ r.log_fd = s.log_fd /\ r.log_len = s.log_len
  BY DEF Slot
<1>4. r \in Slot
  <2>1. 0 \in 0..MaxStarts
    BY Sizes
  <2> QED
    BY <1>1, <2>1 DEF Slot
<1> QED
  BY <1>2, <1>3, <1>4

\* What start_service() does when it succeeds.
LEMMA StartServiceDoes ==
    ASSUME Based, StartService
    PROVE  \E logged \in BOOLEAN, k \in Starts :
               /\ starts' = k /\ k = starts + 1 /\ Startable
               /\ procs' = [procs EXCEPT
                      ![<<"main", k>>] = "run",
                      ![<<"logger", k>>] = IF logged THEN "run" ELSE @]
               /\ held' = WithoutRead(s.read_fd) \cup LeftOpen(k, logged)
                          \cup MainEnds(k)
                          \cup (IF logged THEN LoggerEnds(k) ELSE {})
               /\ s' \in Slot /\ s'.active = s.active /\ s'.pid = k
               /\ s'.restart_at = s.restart_at
               /\ s'.read_fd = IF logged THEN 0 ELSE k
               /\ LogLenTrue => (s'.log_fd => s'.log_len = Len(file))
               /\ unread' = unread \cup (IF logged THEN {k} ELSE {})
               /\ pc' = "poll"
               /\ UNCHANGED <<phase, pipe, written, file, given_up>>
<1>1. PICK logged \in LoggerOutcomes :
          LET k == starts + 1
              r == Prepared(k, logged)
          IN  /\ Startable
              /\ starts' = k
              /\ procs' = [procs EXCEPT
                     ![<<"main", k>>] = "run",
                     ![<<"logger", k>>] = IF logged THEN "run" ELSE @]
              /\ held' = WithoutRead(s.read_fd) \cup LeftOpen(k, logged)
                         \cup MainEnds(k)
                         \cup (IF logged THEN LoggerEnds(k) ELSE {})
              /\ \E a \in IF logged THEN {Account} ELSE open_log(Account) :
                     s' = [r EXCEPT !.pid = k, !.log_fd = a.fd,
                                    !.log_len = a.len,
                                    !.read_fd = IF logged THEN 0 ELSE k]
              /\ unread' = unread \cup (IF logged THEN {k} ELSE {})
              /\ pc' = "poll"
              /\ UNCHANGED <<phase, pipe, written, file, given_up>>
  BY DEF StartService, log_vars
<1>2. logged \in BOOLEAN
  BY DEF LoggerOutcomes
<1>3. PICK k \in Starts : k = starts + 1
  BY <1>1 DEF Startable, Based, StreamTypeOK
<1>4. Account \in Accounts /\ Account.file = file
      /\ Account.fd = s.log_fd /\ Account.len = s.log_len
  BY DEF Account, Accounts, Based, StreamTypeOK, Slot
<1>5. PICK a \in Accounts :
          /\ s' = [Prepared(k, logged) EXCEPT
                       !.pid = k, !.log_fd = a.fd, !.log_len = a.len,
                       !.read_fd = IF logged THEN 0 ELSE k]
          /\ LogLenTrue => LenTrue(a)
          /\ a.file = file
  <2>1. PICK a \in IF logged THEN {Account} ELSE open_log(Account) :
            s' = [Prepared(k, logged) EXCEPT
                      !.pid = k, !.log_fd = a.fd, !.log_len = a.len,
                      !.read_fd = IF logged THEN 0 ELSE k]
    BY <1>1, <1>3
  <2>2. a \in Accounts /\ a.file = file /\ (LogLenTrue => LenTrue(a))
    BY <1>4, Opened DEF LogLenTrue, LenTrue
  <2> QED
    BY <2>1, <2>2
<1>6. a.fd \in BOOLEAN /\ a.len \in Nat
  BY DEF Accounts
<1>7. s \in Slot
  BY DEF Based, StreamTypeOK
<1>8. /\ s' \in Slot /\ s'.active = s.active /\ s'.pid = k
      /\ s'.restart_at = s.restart_at
      /\ s'.read_fd = IF logged THEN 0 ELSE k
      /\ s'.log_fd = a.fd /\ s'.log_len = a.len
  <2> DEFINE r == Prepared(k, logged)
             fd == IF logged THEN 0 ELSE k
  <2>1. /\ r \in Slot /\ r.active = s.active /\ r.restart_at = s.restart_at
        /\ fd \in 0..MaxStarts /\ k \in 0..MaxStarts
    BY <1>2, <1>7, PreparedSlot
  <2>2. s' = [r EXCEPT !.pid = k, !.log_fd = a.fd, !.log_len = a.len,
                       !.read_fd = fd]
    BY <1>5
  <2> HIDE DEF r, fd
  <2>3. /\ s' \in Slot /\ s'.active = r.active /\ s'.pid = k
        /\ s'.restart_at = r.restart_at /\ s'.read_fd = fd
        /\ s'.log_fd = a.fd /\ s'.log_len = a.len
    BY <1>6, <2>1, <2>2 DEF Slot
  <2> QED
    BY <2>1, <2>3 DEF fd
<1>9. LogLenTrue => (s'.log_fd => s'.log_len = Len(file))
  BY <1>5, <1>8 DEF LenTrue
<1> QED
  BY <1>1, <1>2, <1>3, <1>8, <1>9

\* What it does when a pipe or a fork fails.
LEMMA StartFailsDoes ==
    ASSUME Based, StartFails
    PROVE  \E logged \in BOOLEAN, k \in Starts :
               /\ starts' = k /\ k = starts + 1 /\ Startable
               /\ procs' = [procs EXCEPT
                      ![<<"logger", k>>] = IF logged THEN "run" ELSE @]
               /\ held' = WithoutRead(s.read_fd) \cup LeftByFailure(k, logged)
                          \cup (IF logged THEN LoggerEnds(k) ELSE {})
               /\ s' \in Slot /\ s'.active = s.active /\ s'.pid = s.pid
               /\ s'.restart_at = "later" /\ s'.read_fd = 0
               /\ s'.log_fd = s.log_fd /\ s'.log_len = s.log_len
               /\ pc' = "poll"
               /\ UNCHANGED <<phase, pipe, written, file, given_up, unread>>
<1>1. PICK logged \in LoggerOutcomes :
          LET k == starts + 1
          IN  /\ Startable
              /\ starts' = k
              /\ procs' = [procs EXCEPT
                     ![<<"logger", k>>] = IF logged THEN "run" ELSE @]
              /\ held' = WithoutRead(s.read_fd) \cup LeftByFailure(k, logged)
                         \cup (IF logged THEN LoggerEnds(k) ELSE {})
              /\ s' = [Prepared(k, logged) EXCEPT !.restart_at = "later"]
              /\ pc' = "poll"
              /\ UNCHANGED <<phase, pipe, written, file, given_up, unread>>
  BY DEF StartFails, rest_vars, log_vars
<1>2. logged \in BOOLEAN
  BY DEF LoggerOutcomes
<1>3. PICK k \in Starts : k = starts + 1
  BY <1>1 DEF Startable, Based, StreamTypeOK
<1>4. /\ s' \in Slot /\ s'.active = s.active /\ s'.pid = s.pid
      /\ s'.restart_at = "later" /\ s'.read_fd = 0
      /\ s'.log_fd = s.log_fd /\ s'.log_len = s.log_len
  <2> DEFINE r == Prepared(k, logged)
  <2>1. /\ r \in Slot /\ r.active = s.active /\ r.pid = s.pid
        /\ r.read_fd = 0 /\ r.log_fd = s.log_fd /\ r.log_len = s.log_len
    BY <1>2, PreparedSlot DEF Based, StreamTypeOK
  <2>2. s' = [r EXCEPT !.restart_at = "later"]
    BY <1>1, <1>3
  <2> HIDE DEF r
  <2> QED
    BY <2>1, <2>2 DEF Slot
<1> QED
  BY <1>1, <1>2, <1>3, <1>4

Ends == Owners \X Starts \X {"r", "w"}

\* start_service() keeps the types.
LEMMA StartTypes == Based /\ (NoStart \/ StartService \/ StartFails) => Based'
<1>1. ASSUME Based, NoStart PROVE Based'
  BY <1>1 DEF NoStart, Based, StreamTypeOK, Placed, service_vars, world_vars,
              rest_vars, log_vars
<1>2. ASSUME Based, NEW k \in Starts, NEW logged \in BOOLEAN
      PROVE  /\ LeftOpen(k, logged) \subseteq Ends
             /\ LeftByFailure(k, logged) \subseteq Ends
             /\ MainEnds(k) \subseteq Ends /\ LoggerEnds(k) \subseteq Ends
             /\ WithoutRead(s.read_fd) \subseteq Ends
  <2>1. svc \in Owners
    BY DEF svc, Owners
  <2>2. <<"main", k>> \in Owners /\ <<"logger", k>> \in Owners
    BY OwnersOf
  <2>3. LeftOpen(k, logged) \subseteq Ends /\ LeftByFailure(k, logged) = {}
    BY <2>1 DEF LeftOpen, LeftByFailure, Ends
  <2>4. MainEnds(k) \subseteq Ends /\ LoggerEnds(k) \subseteq Ends
    BY <2>2 DEF MainEnds, LoggerEnds, Ends
  <2>5. WithoutRead(s.read_fd) \subseteq Ends
    BY <1>2 DEF WithoutRead, Based, StreamTypeOK, Ends
  <2> QED
    BY <2>3, <2>4, <2>5
<1>3. ASSUME Based, StartService PROVE Based'
  <2>1. PICK logged \in BOOLEAN, k \in Starts :
            /\ starts' = k /\ Startable
            /\ procs' = [procs EXCEPT
                   ![<<"main", k>>] = "run",
                   ![<<"logger", k>>] = IF logged THEN "run" ELSE @]
            /\ held' = WithoutRead(s.read_fd) \cup LeftOpen(k, logged)
                       \cup MainEnds(k)
                       \cup (IF logged THEN LoggerEnds(k) ELSE {})
            /\ s' \in Slot /\ s'.active = s.active
            /\ s'.read_fd = IF logged THEN 0 ELSE k
            /\ unread' = unread \cup (IF logged THEN {k} ELSE {})
            /\ pc' = "poll"
            /\ UNCHANGED <<phase, pipe, written, file, given_up>>
    BY <1>3, StartServiceDoes
  <2>2. held' \subseteq Ends
    BY <1>2, <1>3, <2>1
  <2>3. procs' \in [Owners \ {svc} -> {"none", "run", "zombie"}]
    BY <1>3, <2>1 DEF Based, StreamTypeOK
  <2>4. phase = "serve" /\ s.active
    BY <1>3, <2>1 DEF Startable, Based, Placed
  <2>5. unread' \subseteq Starts
    BY <1>3, <2>1 DEF Based, StreamTypeOK
  <2>6. Placed'
    BY <2>1, <2>4 DEF Placed
  <2> QED
    <3>1. pc' \in {"reap", "scan", "start", "poll", "drain", "settle", "done"}
          /\ starts' \in 0..MaxStarts
      BY <2>1
    <3> QED
      BY <1>3, <2>1, <2>2, <2>3, <2>5, <2>6, <3>1 DEF Based, StreamTypeOK, Ends
<1>4. ASSUME Based, StartFails PROVE Based'
  <2>1. PICK logged \in BOOLEAN, k \in Starts :
            /\ starts' = k /\ Startable
            /\ procs' = [procs EXCEPT
                   ![<<"logger", k>>] = IF logged THEN "run" ELSE @]
            /\ held' = WithoutRead(s.read_fd) \cup LeftByFailure(k, logged)
                       \cup (IF logged THEN LoggerEnds(k) ELSE {})
            /\ s' \in Slot /\ s'.active = s.active /\ s'.read_fd = 0
            /\ pc' = "poll"
            /\ UNCHANGED <<phase, pipe, written, file, given_up, unread>>
    BY <1>4, StartFailsDoes
  <2>2. held' \subseteq Ends
    BY <1>2, <1>4, <2>1
  <2>3. procs' \in [Owners \ {svc} -> {"none", "run", "zombie"}]
    BY <1>4, <2>1 DEF Based, StreamTypeOK
  <2>4. phase = "serve"
    BY <1>4, <2>1 DEF Startable, Based, Placed
  <2>5. Placed'
    BY <2>1, <2>4 DEF Placed
  <2> QED
    BY <1>4, <2>1, <2>2, <2>3, <2>5 DEF Based, StreamTypeOK, Ends
<1> QED
  BY <1>1, <1>3, <1>4

\* Clients and TERM.
LEMMA PollTypes == Based /\ (NoClient \/ Stop \/ Start \/ Term) => Based'
<1> USE DEF service_vars, world_vars, rest_vars, log_vars, Streaming
<1>1. ASSUME Based, NoClient PROVE Based'
  BY <1>1 DEF NoClient, Based, StreamTypeOK, Placed
<1>2. ASSUME Based, Stop PROVE Based'
  <2>1. s' \in Slot /\ s'.read_fd = s.read_fd /\ s'.active = s.active
    BY <1>2 DEF Stop, Based, StreamTypeOK, Slot
  <2> QED
    BY <1>2, <2>1 DEF Stop, Based, StreamTypeOK, Placed
<1>3. ASSUME Based, Start PROVE Based'
  <2>1. s' \in Slot /\ s'.read_fd = s.read_fd /\ s'.active = s.active
    BY <1>3 DEF Start, Based, StreamTypeOK, Slot
  <2> QED
    BY <1>3, <2>1 DEF Start, Based, StreamTypeOK, Placed
<1>4. ASSUME Based, Term PROVE Based'
  <2>1. s' \in Slot /\ s'.read_fd = s.read_fd /\ s'.active = s.active
    BY <1>4 DEF Term, Based, StreamTypeOK, Slot
  <2> QED
    BY <1>4, <2>1 DEF Term, Based, StreamTypeOK, Placed
<1> QED
  BY <1>1, <1>2, <1>3, <1>4

\* The slot after its stream has been closed.
LEMMA Unhooked ==
    ASSUME s \in Slot
    PROVE  LET r == [s EXCEPT !.read_fd = 0]
           IN  /\ r \in Slot /\ r.read_fd = 0 /\ r.active = s.active
               /\ r.pid = s.pid /\ r.restart_at = s.restart_at
               /\ r.log_fd = s.log_fd /\ r.log_len = s.log_len
<1>1. 0 \in 0..MaxStarts
  BY Sizes
<1> QED
  BY <1>1 DEF Slot

\* drain_stream().
LEMMA DrainTypes ==
    Based /\ (Read \/ ReadNothing \/ ReadEof \/ ReadFails) => Based'
<1> USE DEF service_vars, world_vars, rest_vars, log_vars, Drained
<1>1. ASSUME Based, Read PROVE Based'
  <2>1. PICK k \in Starts, n \in Nat \ {0}, a \in Accounts :
            /\ n <= Len(pipe[k])
            /\ s' = [s EXCEPT !.log_fd = a.fd, !.log_len = a.len]
            /\ file' = a.file /\ given_up' = given_up \cup a.lost
            /\ pipe' = [pipe EXCEPT ![k] = SubSeq(@, n + 1, Len(@))]
            /\ UNCHANGED pc \/ Drained
            /\ UNCHANGED <<starts, phase, procs, held, written, unread>>
    BY <1>1, ReadDoes
  <2>2. /\ a.fd \in BOOLEAN /\ a.len \in Nat /\ a.file \in Seq(Bytes)
        /\ a.lost \subseteq Bytes
    BY DEF Accounts
  <2>3. s' \in Slot /\ s'.read_fd = s.read_fd /\ s'.active = s.active
    BY <1>1, <2>1, <2>2 DEF Based, StreamTypeOK, Slot
  <2>4. pipe[k] \in Seq(Bytes) /\ Len(pipe[k]) <= PipeSize
    BY <1>1 DEF Based, StreamTypeOK
  <2>5. /\ SubSeq(pipe[k], n + 1, Len(pipe[k])) \in Seq(Bytes)
        /\ Len(SubSeq(pipe[k], n + 1, Len(pipe[k]))) <= PipeSize
    <3>1. n \in 0..Len(pipe[k]) /\ Len(pipe[k]) \in Nat
      BY <2>1, <2>4
    <3>2. /\ SubSeq(pipe[k], n + 1, Len(pipe[k])) \in Seq(Bytes)
          /\ Len(SubSeq(pipe[k], n + 1, Len(pipe[k]))) = Len(pipe[k]) - n
      BY <2>4, <3>1, Split
    <3> QED
      BY <2>4, <3>1, <3>2, Sizes
  <2>6. /\ pipe' \in [Starts -> Seq(Bytes)]
        /\ \A j \in Starts : Len(pipe'[j]) <= PipeSize
    BY <1>1, <2>1, <2>5 DEF Based, StreamTypeOK
  <2>7. Placed'
    BY <1>1, <2>1, <2>3 DEF Based, Placed, Read
  <2> QED
    BY <1>1, <2>1, <2>2, <2>3, <2>6, <2>7 DEF Based, StreamTypeOK
<1>2. ASSUME Based, ReadNothing PROVE Based'
  BY <1>2 DEF ReadNothing, Based, StreamTypeOK, Placed
<1>3. ASSUME Based, ReadEof PROVE Based'
  <2>1. s' \in Slot /\ s'.read_fd = 0
    BY <1>3, Unhooked DEF ReadEof, Based, StreamTypeOK
  <2> QED
    BY <1>3, <2>1 DEF ReadEof, WithoutRead, Based, StreamTypeOK, Placed
<1>4. ASSUME Based, ReadFails PROVE Based'
  <2>1. s' \in Slot /\ s'.read_fd = 0
    BY <1>4, Unhooked DEF ReadFails, Based, StreamTypeOK
  <2>2. s.read_fd \in Starts
    BY <1>4 DEF ReadFails, Based, StreamTypeOK, Placed, Slot
  <2> QED
    BY <1>4, <2>1, <2>2
    DEF ReadFails, WithoutRead, Based, StreamTypeOK, Placed
<1> QED
  BY <1>1, <1>2, <1>3, <1>4

\* The shutdown.
LEMMA ShutdownTypes == Based /\ (SettleAgain \/ KillRest \/ CloseAll) => Based'
<1> USE DEF service_vars, world_vars, rest_vars, log_vars
<1>1. ASSUME Based, SettleAgain PROVE Based'
  BY <1>1 DEF SettleAgain, Based, StreamTypeOK, Placed
<1>2. ASSUME Based, KillRest PROVE Based'
  BY <1>2 DEF KillRest, Based, StreamTypeOK, Placed
<1>3. ASSUME Based, CloseAll PROVE Based'
  <2>1. s' \in Slot /\ s'.read_fd = 0
    <3>1. CASE s.active
      <4>1. 0 \in 0..MaxStarts
        BY Sizes
      <4> QED
        BY <1>3, <3>1, <4>1 DEF CloseAll, Based, StreamTypeOK, Slot
    <3>2. CASE ~s.active
      BY <1>3, <3>2 DEF CloseAll, Based, StreamTypeOK, Placed
    <3> QED
      BY <3>1, <3>2
  <2>2. s.read_fd \in Starts \cup {0}
    BY <1>3 DEF Based, StreamTypeOK, Slot
  <2> QED
    BY <1>3, <2>1, <2>2
    DEF CloseAll, WithoutRead, Based, StreamTypeOK, Placed
<1> QED
  BY <1>1, <1>2, <1>3

\* Each step keeps the types and the places.
LEMMA StreamTypeStep == Based /\ [StreamNext]_svars => Based'
<1>1. Based /\ UNCHANGED svars => Based'
  BY DEF svars, Based, StreamTypeOK, Placed
<1> QED
  BY <1>1, WorldTypes, ReapTypes, StartTypes, PollTypes, DrainTypes,
     ShutdownTypes
  DEF StreamNext, Serve, StreamTerminating

\* The slot, the processes and descriptors, the pipes and the file have the
\* right types: log_len is never negative, whatever open() and write() make of
\* the log, and no pipe overflows.
THEOREM StreamTypeCorrect == StreamSpec => []StreamTypeOK
<1>1. Based => StreamTypeOK
  BY DEF Based
<1> QED
  BY <1>1, StreamInitType, StreamTypeStep, PTL DEF StreamSpec

-----------------------------------------------------------------------------
(* The kinds of steps.                                                     *)

\* A process stays as it is or is waited for.
Waited ==
    \A o \in Owners \ {svc} :
        procs'[o] = procs[o] \/ (procs[o] = "zombie" /\ procs'[o] = "none")

\* The log stays as it is or is closed.
LogKept == s'.log_fd => s.log_fd /\ s'.log_len = s.log_len

\* A step that has nothing to do with pipes and files.
QuietStep ==
    /\ s'.read_fd = s.read_fd /\ LogKept /\ Waited
    /\ UNCHANGED <<starts, held, pipe, written, file, given_up, unread>>

\* A step that closes the stream: at its end, or without reading the rest.
CloseStep ==
    /\ s'.read_fd = 0 /\ held' = WithoutRead(s.read_fd) /\ LogKept
    /\ UNCHANGED <<starts, procs, pipe, written, file, given_up>>
    /\ unread \subseteq unread'
    /\ s.read_fd # 0 => s.read_fd \in unread' \/ pipe[s.read_fd] = <<>>

\* reap_children() and the scan but for Dropped.
LEMMA ReapQuiet ==
    Based /\ (\/ \E k \in Starts : ReapMain(k) \/ ReapLog(k)
              \/ ReapEnd \/ NoScan \/ Found \/ Removed) => QuietStep
<1> USE DEF service_vars, world_vars, rest_vars, log_vars, QuietStep, LogKept
<1>s. Based => /\ s \in Slot
               /\ procs \in [Owners \ {svc} -> {"none", "run", "zombie"}]
  BY DEF Based, StreamTypeOK
<1>1. ASSUME Based, NEW k \in Starts, ReapMain(k) PROVE QuietStep
  <2>1. Waited
    BY <1>1, <1>s, OwnersOf DEF ReapMain, Waited
  <2>2. PICK when \in {"later", "never"} :
            s' = IF s.active /\ s.pid = k
                 THEN [s EXCEPT !.pid = 0, !.restart_at = when] ELSE s
    BY <1>1 DEF ReapMain, AfterExit
  <2>3. /\ s'.read_fd = s.read_fd /\ s'.log_fd = s.log_fd
        /\ s'.log_len = s.log_len
    BY <1>1, <1>s, <2>2 DEF Slot
  <2> QED
    BY <1>1, <2>1, <2>3 DEF ReapMain
<1>2. ASSUME Based, NEW k \in Starts, ReapLog(k) PROVE QuietStep
  <2>1. Waited
    BY <1>2, <1>s, OwnersOf DEF ReapLog, Waited
  <2>2. /\ s'.read_fd = s.read_fd /\ s'.log_fd = s.log_fd
        /\ s'.log_len = s.log_len
    BY <1>2, <1>s DEF ReapLog, Slot
  <2> QED
    BY <1>2, <2>1, <2>2 DEF ReapLog
<1>3. ASSUME Based, ReapEnd PROVE QuietStep
  <2>1. /\ s'.read_fd = s.read_fd /\ s'.log_fd = s.log_fd
        /\ s'.log_len = s.log_len
    BY <1>3, <1>s DEF ReapEnd, Slot
  <2> QED
    BY <1>3, <2>1 DEF ReapEnd, Waited
<1>4. ASSUME Based, NoScan PROVE QuietStep
  BY <1>4 DEF NoScan, Waited
<1>5. ASSUME Based, Found PROVE QuietStep
  <2>1. CASE s.active
    <3>1. /\ s'.read_fd = s.read_fd /\ s'.log_fd = s.log_fd
          /\ s'.log_len = s.log_len
      BY <1>5, <1>s, <2>1 DEF Found, Slot
    <3> QED
      BY <1>5, <3>1 DEF Found, Waited
  <2>2. CASE ~s.active
    <3>1. s'.read_fd = s.read_fd /\ s'.log_fd = FALSE
      BY <1>5, <2>2 DEF Found, NewService, Based, Placed
    <3> QED
      BY <1>5, <3>1 DEF Found, Waited
  <2> QED
    BY <2>1, <2>2
<1>6. ASSUME Based, Removed PROVE QuietStep
  <2>1. /\ s'.read_fd = s.read_fd /\ s'.log_fd = s.log_fd
        /\ s'.log_len = s.log_len
    BY <1>6, <1>s DEF Removed, Slot
  <2> QED
    BY <1>6, <2>1 DEF Removed, Waited
<1> QED
  BY <1>1, <1>2, <1>3, <1>4, <1>5, <1>6

\* The clients, the shutdown, and what else leaves pipes and files alone.
LEMMA OtherQuiet ==
    Based /\ (\/ NoStart \/ NoClient \/ Stop \/ Start \/ Term \/ ReadNothing
              \/ SettleAgain \/ KillRest \/ Tick \/ UNCHANGED svars)
        => QuietStep
<1> USE DEF service_vars, world_vars, rest_vars, log_vars, QuietStep, LogKept,
            Waited
<1>s. Based => s \in Slot
  BY DEF Based, StreamTypeOK
<1>1. ASSUME Based,
             \/ NoStart \/ NoClient \/ ReadNothing \/ SettleAgain \/ KillRest
             \/ UNCHANGED svars
      PROVE  QuietStep
  BY <1>1 DEF NoStart, NoClient, ReadNothing, SettleAgain, KillRest, svars
<1>2. ASSUME Based, Stop \/ Start \/ Term \/ Tick PROVE QuietStep
  <2>1. /\ s'.read_fd = s.read_fd /\ s'.log_fd = s.log_fd
        /\ s'.log_len = s.log_len
    BY <1>2, <1>s DEF Stop, Start, Term, Tick, Slot
  <2> QED
    BY <1>2, <2>1 DEF Stop, Start, Term, Tick
<1> QED
  BY <1>1, <1>2

\* The ways to close the stream.
LEMMA Closings ==
    Based /\ (Dropped \/ ReadEof \/ ReadFails \/ CloseAll) => CloseStep
<1> USE DEF service_vars, world_vars, rest_vars, log_vars, CloseStep, LogKept
<1>s. Based => s \in Slot
  BY DEF Based, StreamTypeOK
<1>1. ASSUME Based, Dropped PROVE CloseStep
  <2>1. s'.read_fd = 0 /\ s'.log_fd = FALSE
    BY <1>1, <1>s DEF Dropped, Slot
  <2> QED
    BY <1>1, <2>1 DEF Dropped
<1>2. ASSUME Based, ReadEof \/ ReadFails PROVE CloseStep
  <2>1. s' = [s EXCEPT !.read_fd = 0]
    BY <1>2 DEF ReadEof, ReadFails
  <2>2. /\ s'.read_fd = 0 /\ s'.log_fd = s.log_fd
        /\ s'.log_len = s.log_len
    BY <1>2, <1>s, <2>1, Unhooked
  <2> QED
    BY <1>2, <2>2 DEF ReadEof, ReadFails
<1>3. ASSUME Based, CloseAll PROVE CloseStep
  <2>1. CASE s.active
    <3>1. s'.read_fd = 0 /\ s'.log_fd = FALSE
      BY <1>3, <1>s, <2>1 DEF CloseAll, Slot
    <3>2. unread' = unread \cup (IF any_open_services THEN {s.read_fd} \ {0}
                                 ELSE {})
      BY <1>3 DEF CloseAll
    <3>3. s.read_fd # 0 => s.read_fd \in unread'
      BY <2>1, <3>2 DEF any_open_services
    <3> QED
      BY <1>3, <3>1, <3>2, <3>3 DEF CloseAll
  <2>2. CASE ~s.active
    BY <1>3, <2>2 DEF CloseAll, Based, Placed
  <2> QED
    BY <2>1, <2>2
<1> QED
  BY <1>1, <1>2, <1>3

\* What services, helpers and loggers do to the pipes.
OutsideStep ==
    \/ \E k \in Starts : Write(k) \/ Spawn(k) \/ LoggerReads(k)
    \/ \E o \in Owners \ {svc} : End(o)

\* Each step is of one of these kinds.
LEMMA StepKinds ==
    Based /\ [StreamNext]_svars =>
        \/ QuietStep \/ CloseStep \/ StartService \/ StartFails \/ Read
        \/ OutsideStep
BY ReapQuiet, OtherQuiet, Closings
DEF StreamNext, Serve, World, StreamTerminating, OutsideStep

-----------------------------------------------------------------------------
(* log_len is the size of the file.                                        *)

\* rotate_log() is decided by log_len; it is the size of the file at any time
\* at which the file is open, over restarts of the service, failed opens and
\* writes that break off in the middle.
THEOREM LogLenIsTrue == StreamSpec => []LogLenTrue
<1>1. StreamInit => LogLenTrue
  BY DEF StreamInit, NewService, LogLenTrue
<1>2. Based /\ LogLenTrue /\ [StreamNext]_svars => LogLenTrue'
  <2> SUFFICES ASSUME Based, LogLenTrue, [StreamNext]_svars PROVE LogLenTrue'
    OBVIOUS
  <2>1. CASE QuietStep \/ CloseStep
    BY <2>1 DEF QuietStep, CloseStep, LogKept, LogLenTrue
  <2>2. CASE StartService
    <3>1. file' = file /\ (s'.log_fd => s'.log_len = Len(file))
      BY <2>2, StartServiceDoes
    <3> QED
      BY <3>1 DEF LogLenTrue
  <2>3. CASE StartFails
    <3>1. file' = file /\ s'.log_fd = s.log_fd /\ s'.log_len = s.log_len
      BY <2>3, StartFailsDoes
    <3> QED
      BY <3>1 DEF LogLenTrue
  <2>4. CASE Read
    <3>1. PICK k \in Starts, n \in Nat \ {0}, a \in Accounts :
              /\ Outcome(Account, SubSeq(pipe[k], 1, n), a)
              /\ s' = [s EXCEPT !.log_fd = a.fd, !.log_len = a.len]
              /\ file' = a.file
      BY <2>4, ReadDoes
    <3>2. LenTrue(Account)
      BY DEF LenTrue, LogLenTrue, Account
    <3>3. LenTrue(a)
      BY <3>1, <3>2 DEF Outcome
    <3>4. s'.log_fd = a.fd /\ s'.log_len = a.len
      BY <3>1 DEF Based, StreamTypeOK, Slot
    <3> QED
      BY <3>1, <3>3, <3>4 DEF LogLenTrue, LenTrue
  <2>5. CASE OutsideStep
    BY <2>5 DEF OutsideStep, Write, Spawn, LoggerReads, End, LogLenTrue,
                service_vars, rest_vars, log_vars
  <2> QED
    BY <2>1, <2>2, <2>3, <2>4, <2>5, StepKinds
<1> QED
  BY <1>1, <1>2, StreamInitType, StreamTypeStep, PTL DEF StreamSpec

-----------------------------------------------------------------------------
(* Descriptors.                                                            *)

\* Each step keeps the descriptors exact.
LEMMA DescriptorsStep ==
    ASSUME Based, DescriptorsExact, [StreamNext]_svars
    PROVE  DescriptorsExact'
<1>1. \A e \in held : e[1] = svc =>
          s.read_fd # 0 /\ e = <<svc, s.read_fd, "r">>
  BY DEF DescriptorsExact, EndsOf
<1>2. \A e \in WithoutRead(s.read_fd) : e[1] # svc
  BY <1>1 DEF WithoutRead
<1>3. ASSUME NEW k \in Starts
      PROVE  /\ <<"main", k>> # svc /\ <<"helper", k>> # svc
             /\ <<"logger", k>> # svc
  BY OwnersOf
<1>4. CASE QuietStep
  BY <1>4 DEF QuietStep, DescriptorsExact, EndsOf
<1>5. CASE CloseStep
  BY <1>2, <1>5 DEF CloseStep, DescriptorsExact, EndsOf
<1>6. CASE StartService
  <2>1. PICK logged \in BOOLEAN, k \in Starts :
            /\ held' = WithoutRead(s.read_fd) \cup LeftOpen(k, logged)
                       \cup MainEnds(k)
                       \cup (IF logged THEN LoggerEnds(k) ELSE {})
            /\ s'.read_fd = IF logged THEN 0 ELSE k
    BY <1>6, StartServiceDoes
  <2>2. \A e \in MainEnds(k) \cup LoggerEnds(k) : e[1] # svc
    BY <1>3 DEF MainEnds, LoggerEnds
  <2>3. EndsOf(svc)' = LeftOpen(k, logged)
    BY <1>2, <2>1, <2>2 DEF EndsOf, LeftOpen
  <2> QED
    BY <2>1, <2>3 DEF DescriptorsExact, LeftOpen
<1>7. CASE StartFails
  <2>1. PICK logged \in BOOLEAN, k \in Starts :
            /\ held' = WithoutRead(s.read_fd) \cup LeftByFailure(k, logged)
                       \cup (IF logged THEN LoggerEnds(k) ELSE {})
            /\ s'.read_fd = 0
    BY <1>7, StartFailsDoes
  <2>2. \A e \in LoggerEnds(k) : e[1] # svc
    BY <1>3 DEF LoggerEnds
  <2>3. EndsOf(svc)' = {}
    BY <1>2, <2>1, <2>2 DEF EndsOf, LeftByFailure
  <2> QED
    BY <2>1, <2>3 DEF DescriptorsExact
<1>8. CASE Read
  <2>1. held' = held /\ s'.read_fd = s.read_fd
    BY <1>8, ReadDoes DEF Based, StreamTypeOK, Slot
  <2> QED
    BY <2>1 DEF DescriptorsExact, EndsOf
<1>9. CASE OutsideStep
  <2>1. s' = s
    BY <1>9 DEF OutsideStep, Write, Spawn, LoggerReads, End, service_vars
  <2>2. ASSUME NEW k \in Starts, Write(k) \/ LoggerReads(k)
        PROVE  held' = held
    BY <2>2 DEF Write, LoggerReads
  <2>3. ASSUME NEW k \in Starts, Spawn(k) PROVE EndsOf(svc)' = EndsOf(svc)
    BY <1>3, <2>3 DEF Spawn, EndsOf
  <2>4. ASSUME NEW o \in Owners \ {svc}, End(o)
        PROVE  EndsOf(svc)' = EndsOf(svc)
    BY <2>4 DEF End, EndsOf
  <2>5. EndsOf(svc)' = EndsOf(svc)
    BY <1>9, <2>2, <2>3, <2>4 DEF OutsideStep, EndsOf
  <2> QED
    BY <2>1, <2>5 DEF DescriptorsExact
<1> QED
  BY <1>4, <1>5, <1>6, <1>7, <1>8, <1>9, StepKinds

\* Over failed starts, restarts, removals and the shutdown, svc-rs has the read
\* end of the stream it reads open and no other end of any pipe: it runs out of
\* descriptors in no sequence of starts, however long.
THEOREM DescriptorsAreExact == StreamSpec => []DescriptorsExact
<1>1. StreamInit => DescriptorsExact
  BY DEF StreamInit, NewService, DescriptorsExact, EndsOf
<1>2. Based /\ DescriptorsExact /\ [StreamNext]_svars => DescriptorsExact'
  BY DescriptorsStep
<1> QED
  BY <1>1, <1>2, StreamInitType, StreamTypeStep, PTL DEF StreamSpec

-----------------------------------------------------------------------------
(* The order of the log.                                                   *)

Sorted(q) == \A i, j \in DOMAIN q : i < j => Earlier(q[i], q[j])

\* t is a run of bytes of the pipe k, the first of them number c + 1.
Run(t, k, c) == \A x \in 1..Len(t) : t[x] = <<k, c + x>>

\* The bytes of the pipe k that have left it.
Taken(k) == written[k] - Len(pipe[k])

\* A pipe holds the last bytes written into it, in their order.
PipesRun ==
    \A k \in Starts : Taken(k) \in Nat /\ Run(pipe[k], k, Taken(k))

\* The file is sorted, and nothing in it is of a later start or still in a
\* pipe.
FileRuns ==
    /\ Sorted(file)
    /\ \A b \in ToSet(file) : b[1] <= starts /\ b[2] <= Taken(b[1])

OrderInv == Based /\ PipesRun /\ FileRuns

\* A byte is a pipe and a number.
LEMMA BytesAre ==
    \A b \in Bytes : b[1] \in Starts /\ b[1] \in Nat /\ b[2] \in Nat \ {0}
<1> SUFFICES ASSUME NEW k \in Starts, NEW n \in Nat \ {0}
             PROVE  <<k, n>>[1] \in Starts /\ <<k, n>>[1] \in Nat
                    /\ <<k, n>>[2] \in Nat \ {0}
  BY DEF Bytes
<1> QED
  BY Sizes

\* A run stays in order behind what comes before it.
LEMMA ConcatRun ==
    ASSUME NEW q \in Seq(Bytes), Sorted(q), NEW t \in Seq(Bytes),
           NEW k \in Starts, NEW c \in Nat, Run(t, k, c),
           \A b \in ToSet(q) : b[1] <= k /\ (b[1] = k => b[2] <= c)
    PROVE  Sorted(q \o t)
<1>1. /\ Len(q) \in Nat /\ Len(t) \in Nat /\ DOMAIN q = 1..Len(q)
      /\ DOMAIN (q \o t) = 1..(Len(q) + Len(t))
      /\ \A x \in 1..(Len(q) + Len(t)) :
             (q \o t)[x] = IF x <= Len(q) THEN q[x] ELSE t[x - Len(q)]
  OBVIOUS
<1>2. SUFFICES ASSUME NEW i \in 1..(Len(q) + Len(t)),
                      NEW j \in 1..(Len(q) + Len(t)), i < j
               PROVE  Earlier((q \o t)[i], (q \o t)[j])
  BY <1>1 DEF Sorted
<1>3. CASE j <= Len(q)
  <2>1. /\ i \in DOMAIN q /\ j \in DOMAIN q
        /\ (q \o t)[i] = q[i] /\ (q \o t)[j] = q[j]
    BY <1>1, <1>2, <1>3
  <2> QED
    BY <1>2, <2>1 DEF Sorted
<1>4. CASE ~(j <= Len(q))
  <2>1. j - Len(q) \in 1..Len(t) /\ (q \o t)[j] = t[j - Len(q)]
    BY <1>1, <1>4
  <2>2. (q \o t)[j] = <<k, c + (j - Len(q))>>
    BY <2>1 DEF Run
  <2>3. CASE i <= Len(q)
    <3>1. (q \o t)[i] = q[i] /\ q[i] \in ToSet(q) /\ q[i] \in Bytes
      BY <1>1, <2>3 DEF ToSet
    <3>2. q[i][1] \in Nat /\ q[i][2] \in Nat
      BY <3>1, BytesAre
    <3>3. q[i][1] <= k /\ (q[i][1] = k => q[i][2] <= c)
      BY <3>1
    <3>4. c < c + (j - Len(q))
      BY <1>1, <2>1
    <3>5. q[i][1] < k \/ (q[i][1] = k /\ q[i][2] < c + (j - Len(q)))
      <4>1. CASE q[i][1] = k
        <5>1. c + (j - Len(q)) \in Nat
          BY <1>1, <2>1
        <5>2. \A x, y, z \in Nat : x <= y /\ y < z => x < z
          OBVIOUS
        <5> QED
          BY <3>2, <3>3, <3>4, <4>1, <5>1, <5>2, Zenon
      <4>2. CASE q[i][1] # k
        BY <3>2, <3>3, <4>2, Sizes
      <4> QED
        BY <4>1, <4>2
    <3> QED
      BY <2>2, <3>1, <3>5 DEF Earlier
  <2>4. CASE ~(i <= Len(q))
    <3>1. i - Len(q) \in 1..Len(t) /\ (q \o t)[i] = t[i - Len(q)]
      BY <1>1, <2>4
    <3>2. (q \o t)[i] = <<k, c + (i - Len(q))>>
      BY <3>1 DEF Run
    <3>3. c + (i - Len(q)) < c + (j - Len(q))
      BY <1>1, <1>2
    <3> QED
      BY <2>2, <3>2, <3>3 DEF Earlier
  <2> QED
    BY <2>3, <2>4
<1> QED
  BY <1>3, <1>4

\* A byte comes in at the end of a pipe.
LEMMA WriteRuns ==
    ASSUME OrderInv, NEW k \in Starts, Write(k)
    PROVE  PipesRun' /\ FileRuns'
<1>1. /\ pipe' = [pipe EXCEPT ![k] = Append(@, <<k, written[k] + 1>>)]
      /\ written' = [written EXCEPT ![k] = @ + 1]
      /\ UNCHANGED <<file, starts>>
  BY DEF Write, service_vars, rest_vars, log_vars
<1>2. /\ pipe \in [Starts -> Seq(Bytes)] /\ written \in [Starts -> Nat]
  BY DEF OrderInv, Based, StreamTypeOK
<1> DEFINE q == pipe[k]
           t == Append(q, <<k, written[k] + 1>>)
<1>3. /\ q \in Seq(Bytes) /\ Len(q) \in Nat /\ Len(t) = Len(q) + 1
      /\ \A x \in 1..Len(q) : t[x] = q[x]
      /\ t[Len(q) + 1] = <<k, written[k] + 1>>
  BY <1>2
<1> HIDE DEF q, t
<1>4. written[k] - Len(q) \in Nat /\ Run(q, k, written[k] - Len(q))
      /\ written[k] \in Nat
  BY <1>2 DEF OrderInv, PipesRun, Taken, q
<1>5. Run(t, k, written[k] - Len(q))
  <2> SUFFICES ASSUME NEW x \in 1..(Len(q) + 1)
               PROVE  t[x] = <<k, (written[k] - Len(q)) + x>>
    BY <1>3 DEF Run
  <2>1. CASE x \in 1..Len(q)
    BY <1>3, <1>4, <2>1 DEF Run
  <2>2. CASE x = Len(q) + 1
    <3>1. written[k] + 1 = (written[k] - Len(q)) + x
      BY <1>3, <1>4, <2>2
    <3> QED
      BY <1>3, <2>2, <3>1
  <2> QED
    BY <1>3, <2>1, <2>2
<1>6. /\ pipe'[k] = t /\ written'[k] = written[k] + 1
      /\ \A j \in Starts \ {k} : pipe'[j] = pipe[j] /\ written'[j] = written[j]
  BY <1>1, <1>2 DEF t, q
<1>7. \A j \in Starts : Taken(j)' = Taken(j)
  <2>1. (written[k] + 1) - (Len(q) + 1) = written[k] - Len(q)
    BY <1>3, <1>4
  <2>2. Taken(k)' = Taken(k)
    BY <1>3, <1>6, <2>1 DEF Taken, q
  <2> QED
    BY <1>6, <2>2 DEF Taken
<1>8. PipesRun'
  <2> SUFFICES ASSUME NEW j \in Starts
               PROVE  Taken(j) \in Nat /\ Run(pipe'[j], j, Taken(j))
    BY <1>7 DEF PipesRun, Run
  <2>1. Taken(k) = written[k] - Len(q)
    BY DEF Taken, q
  <2> QED
    BY <1>4, <1>5, <1>6, <2>1 DEF OrderInv, PipesRun
<1>9. FileRuns'
  <2>1. \A b \in ToSet(file) : b[1] \in Starts
    BY DEF OrderInv, Based, StreamTypeOK, ToSet, Bytes
  <2> QED
    BY <1>1, <1>7, <2>1 DEF OrderInv, FileRuns, Sorted, Earlier, ToSet
<1> QED
  BY <1>8, <1>9

\* The first n bytes of a pipe are taken, by svc-rs or by a logger.
LEMMA TakeRuns ==
    ASSUME OrderInv, NEW k \in Starts, NEW n \in 0..Len(pipe[k]),
           pipe' = [pipe EXCEPT ![k] = SubSeq(@, n + 1, Len(@))],
           written' = written
    PROVE  /\ PipesRun' /\ Taken(k)' = Taken(k) + n
           /\ \A j \in Starts \ {k} : Taken(j)' = Taken(j)
<1>1. pipe \in [Starts -> Seq(Bytes)] /\ written \in [Starts -> Nat]
  BY DEF OrderInv, Based, StreamTypeOK
<1> DEFINE q == pipe[k]
           t == SubSeq(q, n + 1, Len(q))
<1>2. /\ q \in Seq(Bytes) /\ Len(q) \in Nat /\ n \in 0..Len(q)
      /\ Len(t) = Len(q) - n
      /\ \A x \in 1..(Len(q) - n) : t[x] = q[n + x]
  <2>1. q \in Seq(Bytes) /\ n \in 0..Len(q)
    BY <1>1
  <2> HIDE DEF q
  <2> QED
    BY <2>1, Split
<1>3. pipe'[k] = t /\ \A j \in Starts \ {k} : pipe'[j] = pipe[j]
  BY <1>1
<1> HIDE DEF q, t
<1>4. Taken(k) \in Nat /\ Run(q, k, Taken(k)) /\ Taken(k) = written[k] - Len(q)
      /\ written[k] \in Nat
  BY <1>1 DEF OrderInv, PipesRun, Taken, q
<1>5. Taken(k)' = Taken(k) + n
  <2>1. Taken(k)' = written[k] - Len(t)
    BY <1>3 DEF Taken
  <2> QED
    BY <1>2, <1>4, <2>1
<1>6. Run(t, k, Taken(k) + n)
  <2> SUFFICES ASSUME NEW x \in 1..(Len(q) - n)
               PROVE  t[x] = <<k, (Taken(k) + n) + x>>
    BY <1>2 DEF Run
  <2>1. n + x \in 1..Len(q) /\ (Taken(k) + n) + x = Taken(k) + (n + x)
    BY <1>2, <1>4
  <2> QED
    BY <1>2, <1>4, <2>1 DEF Run
<1>7. \A j \in Starts \ {k} : Taken(j)' = Taken(j)
  BY <1>3 DEF Taken
<1>8. PipesRun'
  <2> SUFFICES ASSUME NEW j \in Starts
               PROVE  Taken(j)' \in Nat /\ Run(pipe'[j], j, Taken(j)')
    BY DEF PipesRun, Run
  <2>1. CASE j = k
    <3>1. Taken(k) \in Nat /\ n \in Nat
      BY <1>4
    <3>2. Taken(k) + n \in Nat
      BY <3>1
    <3> QED
      BY <1>3, <1>5, <1>6, <2>1, <3>2
  <2>2. CASE j # k
    BY <1>3, <1>7, <2>2 DEF OrderInv, PipesRun
  <2> QED
    BY <2>1, <2>2
<1> QED
  BY <1>5, <1>7, <1>8

\* What drain_stream() takes from the pipe comes behind everything in the file.
LEMMA ReadRuns ==
    ASSUME OrderInv, Read
    PROVE  PipesRun' /\ FileRuns'
<1>1. PICK k \in Starts, n \in Nat \ {0}, a \in Accounts :
          /\ k = starts /\ n <= Len(pipe[k])
          /\ Outcome(Account, SubSeq(pipe[k], 1, n), a) /\ file' = a.file
          /\ pipe' = [pipe EXCEPT ![k] = SubSeq(@, n + 1, Len(@))]
          /\ UNCHANGED <<starts, written>>
  BY ReadDoes DEF OrderInv
<1> DEFINE q == pipe[k]
           data == SubSeq(q, 1, n)
<1>2. /\ q \in Seq(Bytes) /\ Len(q) \in Nat /\ file \in Seq(Bytes)
      /\ n \in 0..Len(q)
  <2>1. q \in Seq(Bytes) /\ file \in Seq(Bytes)
    BY DEF OrderInv, Based, StreamTypeOK
  <2> QED
    BY <1>1, <2>1
<1>3. /\ PipesRun' /\ Taken(k)' = Taken(k) + n
      /\ \A j \in Starts \ {k} : Taken(j)' = Taken(j)
  BY <1>1, <1>2, TakeRuns
<1>4. /\ data \in Seq(Bytes) /\ Len(data) = n
      /\ \A x \in 1..n : data[x] = q[x]
  <2> HIDE DEF q
  <2> QED
    BY <1>2, Split
<1>a. \E m \in 0..n : file' = file \o SubSeq(data, 1, m)
  <2>1. Outcome(Account, data, a) /\ file' = a.file
    BY <1>1
  <2>2. Account.file = file
    BY DEF Account
  <2> HIDE DEF data
  <2> QED
    BY <1>4, <2>1, <2>2 DEF Outcome
<1>5. PICK m \in 0..n : file' = file \o SubSeq(data, 1, m)
  BY <1>a
<1> DEFINE t == SubSeq(data, 1, m)
<1>6. /\ t \in Seq(Bytes) /\ Len(t) = m
      /\ \A x \in 1..m : t[x] = data[x]
  BY <1>4, Split
<1> HIDE DEF t, data
<1>7. Taken(k) \in Nat /\ Run(q, k, Taken(k))
  BY DEF OrderInv, PipesRun
<1>8. Run(t, k, Taken(k))
  <2> SUFFICES ASSUME NEW x \in 1..m PROVE t[x] = <<k, Taken(k) + x>>
    BY <1>6 DEF Run
  <2>1. x \in 1..n /\ x \in 1..Len(q)
    BY <1>2
  <2> QED
    BY <1>4, <1>6, <1>7, <2>1 DEF Run
<1>9. \A b \in ToSet(file) : /\ b \in Bytes /\ b[1] <= k
                             /\ b[2] <= Taken(b[1])
  BY <1>1, <1>2 DEF OrderInv, FileRuns, ToSet
<1>10. Sorted(file \o t)
  <2>1. \A b \in ToSet(file) : b[1] <= k /\ (b[1] = k => b[2] <= Taken(k))
    BY <1>9
  <2>2. Sorted(file)
    BY DEF OrderInv, FileRuns
  <2> QED
    BY <1>2, <1>6, <1>7, <1>8, <2>1, <2>2, ConcatRun
<1>11. ASSUME NEW b \in ToSet(file \o t)
       PROVE  b[1] <= k /\ b[2] <= Taken(b[1])'
  <2>1. b \in ToSet(file) \/ b \in ToSet(t)
    BY <1>2, <1>6, SetOfConcat
  <2>2. CASE b \in ToSet(file)
    <3>1. b[1] \in Starts /\ b[2] \in Nat
      BY <1>9, <2>2, BytesAre
    <3>2. CASE b[1] = k
      <4>1. b[2] <= Taken(k)
        BY <1>9, <2>2, <3>2
      <4>2. b[2] <= Taken(k) + n
        BY <1>2, <1>7, <3>1, <4>1
      <4> QED
        BY <1>1, <1>3, <1>9, <2>2, <3>2, <4>2 DEF Taken
    <3>3. CASE b[1] # k
      BY <1>3, <1>9, <2>2, <3>1, <3>3
    <3> QED
      BY <3>2, <3>3
  <2>3. CASE b \in ToSet(t)
    <3>1. PICK x \in 1..m : b = t[x]
      BY <1>6, <2>3 DEF ToSet
    <3>2. b = <<k, Taken(k) + x>>
      BY <1>6, <1>8, <3>1 DEF Run
    <3>3. b[1] = k /\ b[2] = Taken(k) + x
      BY <3>2
    <3>4. Taken(k) + x <= Taken(k) + n /\ k <= k
      BY <1>2, <1>7, Sizes
    <3> QED
      BY <1>3, <3>3, <3>4
  <2> QED
    BY <2>1, <2>2, <2>3
<1>12. FileRuns'
  <2>1. file' = file \o t /\ starts' = k
    BY <1>1, <1>5 DEF t
  <2>2. /\ Sorted(file')
        /\ \A b \in ToSet(file') : b[1] <= k /\ b[2] <= Taken(b[1])'
    BY <1>10, <1>11, <2>1
  <2> QED
    BY <2>1, <2>2 DEF FileRuns, Sorted, ToSet
<1> QED
  BY <1>3, <1>12

\* A logger takes the first byte of its pipe.
LEMMA LoggerReadsRuns ==
    ASSUME OrderInv, NEW k \in Starts, LoggerReads(k)
    PROVE  PipesRun' /\ FileRuns'
<1>1. /\ pipe' = [pipe EXCEPT ![k] = Tail(@)] /\ pipe[k] # <<>>
      /\ UNCHANGED <<starts, written, file>>
  BY DEF LoggerReads, service_vars, rest_vars, log_vars
<1>2. pipe \in [Starts -> Seq(Bytes)] /\ file \in Seq(Bytes)
  BY DEF OrderInv, Based, StreamTypeOK
<1>3. /\ Tail(pipe[k]) = SubSeq(pipe[k], 1 + 1, Len(pipe[k]))
      /\ 1 \in 0..Len(pipe[k])
  BY <1>1, <1>2, TailIsSubSeq
<1>4. pipe' = [pipe EXCEPT ![k] = SubSeq(@, 1 + 1, Len(@))]
  BY <1>1, <1>3
<1>5. /\ PipesRun' /\ Taken(k)' = Taken(k) + 1
      /\ \A j \in Starts \ {k} : Taken(j)' = Taken(j)
  BY <1>1, <1>3, <1>4, TakeRuns
<1>6. \A b \in ToSet(file) : b[1] \in Starts /\ b[2] \in Nat
  BY <1>2, BytesAre DEF ToSet
<1>7. \A j \in Starts, c \in Nat : c <= Taken(j) => c <= Taken(j)'
  <2> SUFFICES ASSUME NEW c \in Nat, c <= Taken(k) PROVE c <= Taken(k) + 1
    BY <1>5
  <2>1. Taken(k) \in Nat
    BY DEF OrderInv, PipesRun
  <2> QED
    BY <2>1
<1>8. \A b \in ToSet(file) : b[2] <= Taken(b[1])'
  BY <1>6, <1>7 DEF OrderInv, FileRuns
<1>9. FileRuns'
  BY <1>1, <1>8 DEF OrderInv, FileRuns, Sorted, ToSet
<1> QED
  BY <1>5, <1>9

\* Nothing is written into a pipe before its start.
LEMMA OrderInit == StreamInit => OrderInv
<1> SUFFICES ASSUME StreamInit PROVE PipesRun /\ FileRuns
  BY StreamInitType DEF OrderInv
<1>1. \A k \in Starts : pipe[k] = <<>> /\ written[k] = 0
  BY DEF StreamInit
<1>2. file = <<>> /\ ToSet(<<>>) = {}
  BY DEF StreamInit, ToSet
<1>3. \A k \in Starts : Taken(k) = 0 /\ Run(pipe[k], k, 0)
  BY <1>1 DEF Taken, Run
<1> QED
  BY <1>2, <1>3 DEF PipesRun, FileRuns, Sorted

\* Each step keeps the pipes and the file in order.
LEMMA OrderStep == OrderInv /\ [StreamNext]_svars => OrderInv'
<1> SUFFICES ASSUME OrderInv, [StreamNext]_svars PROVE PipesRun' /\ FileRuns'
  BY StreamTypeStep DEF OrderInv
<1>b. Based
  BY DEF OrderInv
<1>1. ASSUME UNCHANGED <<pipe, written, file>>,
             starts' = starts \/ (starts' \in Starts /\ starts' = starts + 1)
      PROVE  PipesRun' /\ FileRuns'
  <2>1. \A k : Taken(k)' = Taken(k)
    BY <1>1 DEF Taken
  <2>2. PipesRun'
    BY <1>1, <2>1 DEF OrderInv, PipesRun, Run
  <2>3. \A b \in ToSet(file) : b[1] <= starts'
    <3>1. \A b \in ToSet(file) : b[1] \in Nat /\ b[1] <= starts
      BY BytesAre DEF OrderInv, FileRuns, Based, StreamTypeOK, ToSet
    <3>2. starts \in Nat
      BY Sizes DEF OrderInv, Based, StreamTypeOK
    <3> QED
      BY <1>1, <3>1, <3>2
  <2>4. FileRuns'
    BY <1>1, <2>1, <2>3 DEF OrderInv, FileRuns, Sorted, Earlier, ToSet, Taken
  <2> QED
    BY <2>2, <2>4
<1>2. CASE QuietStep \/ CloseStep
  BY <1>1, <1>2 DEF QuietStep, CloseStep
<1>3. CASE StartService
  BY <1>1, <1>3, <1>b, StartServiceDoes
<1>4. CASE StartFails
  BY <1>1, <1>4, <1>b, StartFailsDoes
<1>5. CASE Read
  BY <1>5, ReadRuns
<1>6. CASE OutsideStep
  <2>1. ASSUME NEW k \in Starts, Spawn(k) PROVE PipesRun' /\ FileRuns'
    BY <1>1, <2>1 DEF Spawn, service_vars, rest_vars, log_vars
  <2>2. ASSUME NEW o \in Owners \ {svc}, End(o) PROVE PipesRun' /\ FileRuns'
    BY <1>1, <2>2 DEF End, service_vars, rest_vars, log_vars
  <2> QED
    BY <1>6, <2>1, <2>2, WriteRuns, LoggerReadsRuns DEF OutsideStep
<1> QED
  BY <1>2, <1>3, <1>4, <1>5, <1>6, <1>b, StepKinds

\* The bytes of the log, and behind them those still in the pipe, are in the
\* order in which they were written, over restarts, short and failed writes
\* and the reopening of the file, and none is there twice.
THEOREM LogIsInOrder == StreamSpec => []InOrder
<1>1. OrderInv => InOrder
  <2> SUFFICES ASSUME OrderInv PROVE InOrder
    OBVIOUS
  <2> DEFINE t == IF s.read_fd = 0 THEN <<>> ELSE pipe[s.read_fd]
  <2>1. file \in Seq(Bytes) /\ Sorted(file)
    BY DEF OrderInv, Based, StreamTypeOK, FileRuns
  <2>2. t \in Seq(Bytes) /\ Sorted(file \o t)
    <3>1. CASE s.read_fd = 0
      <4>1. file \o <<>> = file
        BY <2>1, ConcatEmptySeq
      <4> QED
        BY <2>1, <3>1, <4>1
    <3>2. CASE s.read_fd # 0
      <4>1. PICK k \in Starts : k = s.read_fd /\ k = starts
        BY <3>2 DEF OrderInv, Based, Placed, StreamTypeOK, Slot
      <4>2. /\ pipe[k] \in Seq(Bytes) /\ Taken(k) \in Nat
            /\ Run(pipe[k], k, Taken(k))
        BY DEF OrderInv, PipesRun, Based, StreamTypeOK
      <4>3. \A b \in ToSet(file) : b[1] <= k /\ (b[1] = k => b[2] <= Taken(k))
        BY <4>1 DEF OrderInv, FileRuns
      <4>4. Sorted(file \o pipe[k])
        BY <2>1, <4>2, <4>3, ConcatRun
      <4> QED
        BY <3>2, <4>1, <4>2, <4>4
    <3> QED
      BY <3>1, <3>2
  <2> DEFINE all == file \o t
  <2>3. all \in Seq(Bytes) /\ Sorted(all)
    BY <2>1, <2>2
  <2>4. InOrder <=> \A i \in 1..(Len(all) - 1) : Earlier(all[i], all[i + 1])
    BY DEF InOrder
  <2> HIDE DEF all
  <2>5. ASSUME NEW i \in 1..(Len(all) - 1)
        PROVE  i \in DOMAIN all /\ i + 1 \in DOMAIN all /\ i < i + 1
    BY <2>3
  <2>6. \A i \in 1..(Len(all) - 1) : Earlier(all[i], all[i + 1])
    BY <2>3, <2>5 DEF Sorted
  <2> QED
    BY <2>4, <2>6
<1> QED
  BY <1>1, OrderInit, OrderStep, PTL DEF StreamSpec

-----------------------------------------------------------------------------
(* Who reads and writes a pipe.                                            *)

\* A start that has not been yet has no processes and no output.
Fresh ==
    \A k \in Starts : k > starts =>
        /\ procs[<<"main", k>>] = "none" /\ procs[<<"helper", k>>] = "none"
        /\ procs[<<"logger", k>>] = "none" /\ written[k] = 0

\* Whoever has a read end open is svc-rs, or the logger of that pipe.
ReadersAre ==
    \A e \in held : e[3] = "r" =>
        e[1] = svc \/ (e[1] = <<"logger", e[2]>> /\ procs[e[1]] = "run")

\* A logger reads a pipe that svc-rs leaves to it, or it is left over from a
\* start that has failed, and then nobody writes into its pipe.
LoggersRead ==
    \A k \in Starts :
        procs[<<"logger", k>>] # "none" /\ k \notin unread =>
            procs[<<"main", k>>] = "none" /\ written[k] = 0

UsersInv == Fresh /\ ReadersAre /\ LoggersRead

\* A step of the service or one of its processes.
LEMMA UsersOutside ==
    ASSUME Based, UsersInv, OutsideStep
    PROVE  UsersInv'
<1> USE DEF service_vars, rest_vars, log_vars
<1>t. /\ procs \in [Owners \ {svc} -> {"none", "run", "zombie"}]
      /\ written \in [Starts -> Nat]
      /\ \A e \in held : e[2] \in Starts
  BY DEF Based, StreamTypeOK
<1>1. ASSUME NEW k \in Starts, Write(k) PROVE UsersInv'
  <2>1. /\ procs[<<"main", k>>] = "run"
        /\ written' = [written EXCEPT ![k] = @ + 1]
        /\ UNCHANGED <<starts, procs, held, unread>>
    BY <1>1 DEF Write
  <2>2. ~(k > starts)
    BY <2>1 DEF UsersInv, Fresh
  <2>3. \A j \in Starts \ {k} : written'[j] = written[j]
    BY <1>t, <2>1
  <2>4. Fresh'
    BY <2>1, <2>2, <2>3 DEF UsersInv, Fresh
  <2>5. LoggersRead'
    BY <2>1, <2>3 DEF UsersInv, LoggersRead
  <2> QED
    BY <2>1, <2>4, <2>5 DEF UsersInv, ReadersAre
<1>2. ASSUME NEW k \in Starts, Spawn(k) PROVE UsersInv'
  <2>1. /\ procs[<<"main", k>>] = "run"
        /\ procs' = [procs EXCEPT ![<<"helper", k>>] = "run"]
        /\ held' = held \cup {<<<<"helper", k>>, e[2], e[3]>> :
                                  e \in EndsOf(<<"main", k>>)}
        /\ UNCHANGED <<starts, written, unread>>
    BY <1>2 DEF Spawn
  <2>2. ~(k > starts)
    BY <2>1 DEF UsersInv, Fresh
  <2>3. \A j \in Starts : /\ procs'[<<"main", j>>] = procs[<<"main", j>>]
                          /\ procs'[<<"logger", j>>] = procs[<<"logger", j>>]
                          /\ j # k => procs'[<<"helper", j>>]
                                          = procs[<<"helper", j>>]
    BY <1>t, <2>1, OwnersOf
  <2>4. Fresh' /\ LoggersRead'
    BY <2>1, <2>2, <2>3 DEF UsersInv, Fresh, LoggersRead
  <2>5. ASSUME NEW e \in EndsOf(<<"main", k>>) PROVE e[3] # "r"
    <3>1. e \in held /\ e[1] = <<"main", k>>
      BY DEF EndsOf
    <3>2. e[1] # svc
      BY <3>1, OwnersOf
    <3>3. e[1] # <<"logger", e[2]>>
      <4>1. e[1][1] = "main"
        BY <3>1
      <4> QED
        BY <4>1
    <3> QED
      BY <3>1, <3>2, <3>3 DEF UsersInv, ReadersAre
  <2>6. \A e \in held' : e[3] = "r" => e \in held
    BY <2>1, <2>5
  <2>7. ReadersAre'
    <3> SUFFICES ASSUME NEW e \in held, e[3] = "r", e[1] # svc
                 PROVE  e[1] = <<"logger", e[2]>> /\ procs'[e[1]] = "run"
      BY <2>6 DEF ReadersAre
    <3>1. e[1] = <<"logger", e[2]>> /\ procs[e[1]] = "run" /\ e[2] \in Starts
      BY <1>t DEF UsersInv, ReadersAre
    <3> QED
      BY <2>3, <3>1
  <2> QED
    BY <2>4, <2>7 DEF UsersInv
<1>3. ASSUME NEW k \in Starts, LoggerReads(k) PROVE UsersInv'
  BY <1>3 DEF LoggerReads, UsersInv, Fresh, ReadersAre, LoggersRead
<1>4. ASSUME NEW o \in Owners \ {svc}, End(o) PROVE UsersInv'
  <2>1. /\ procs[o] = "run" /\ held' = held \ EndsOf(o)
        /\ UNCHANGED <<starts, written, unread>>
        /\ \A p \in (Owners \ {svc}) \ {o} : procs'[p] = procs[p]
        /\ procs'[o] = "none" \/ procs'[o] = "zombie"
    BY <1>4, <1>t DEF End
  <2>2. \A p \in Owners \ {svc} : procs[p] = "none" => procs'[p] = "none"
    BY <2>1
  <2>3. Fresh'
    BY <2>1, <2>2, OwnersOf DEF UsersInv, Fresh
  <2>4. LoggersRead'
    BY <2>1, <2>2, OwnersOf DEF UsersInv, LoggersRead
  <2>5. ReadersAre'
    <3> SUFFICES ASSUME NEW e \in held, e[1] # o, e[3] = "r", e[1] # svc
                 PROVE  e[1] = <<"logger", e[2]>> /\ procs'[e[1]] = "run"
      BY <2>1 DEF ReadersAre, EndsOf
    <3>1. e[1] = <<"logger", e[2]>> /\ procs[e[1]] = "run" /\ e[2] \in Starts
      BY <1>t DEF UsersInv, ReadersAre
    <3> QED
      BY <2>1, <3>1, OwnersOf
  <2> QED
    BY <2>3, <2>4, <2>5 DEF UsersInv
<1> QED
  BY <1>1, <1>2, <1>3, <1>4 DEF OutsideStep

\* A step of svc-rs that starts nobody.
LEMMA UsersInside ==
    ASSUME Based, UsersInv, QuietStep \/ CloseStep \/ Read
    PROVE  UsersInv'
<1>1. CASE QuietStep
  <2>1. UNCHANGED <<starts, held, written, unread>> /\ Waited
    BY <1>1 DEF QuietStep
  <2>2. \A k \in Starts :
            /\ procs[<<"main", k>>] = "none" => procs'[<<"main", k>>] = "none"
            /\ procs[<<"helper", k>>] = "none"
                   => procs'[<<"helper", k>>] = "none"
            /\ procs[<<"logger", k>>] = "none"
                   => procs'[<<"logger", k>>] = "none"
            /\ procs[<<"logger", k>>] = "run"
                   => procs'[<<"logger", k>>] = "run"
    BY <2>1, OwnersOf DEF Waited
  <2>3. Fresh' /\ LoggersRead'
    BY <2>1, <2>2 DEF UsersInv, Fresh, LoggersRead
  <2>4. ReadersAre'
    <3> SUFFICES ASSUME NEW e \in held, e[3] = "r", e[1] # svc
                 PROVE  e[1] = <<"logger", e[2]>> /\ procs'[e[1]] = "run"
      BY <2>1 DEF ReadersAre
    <3>1. e[2] \in Starts
      BY DEF Based, StreamTypeOK
    <3>2. e[1] = <<"logger", e[2]>> /\ procs[<<"logger", e[2]>>] = "run"
      BY DEF UsersInv, ReadersAre
    <3> QED
      BY <2>2, <3>1, <3>2
  <2> QED
    BY <2>3, <2>4 DEF UsersInv
<1>2. CASE CloseStep
  BY <1>2 DEF CloseStep, WithoutRead, UsersInv, Fresh, ReadersAre, LoggersRead
<1>3. CASE Read
  <2>1. UNCHANGED <<starts, procs, held, written, unread>>
    BY <1>3, ReadDoes
  <2> QED
    BY <2>1 DEF UsersInv, Fresh, ReadersAre, LoggersRead
<1> QED
  BY <1>1, <1>2, <1>3

\* start_service() gives the read end to itself or to the logger, and the pipe
\* of a start that fails has no writer.
LEMMA UsersStart ==
    ASSUME Based, UsersInv, StartService \/ StartFails
    PROVE  UsersInv'
<1>1. PICK logged \in BOOLEAN, k \in Starts :
          /\ starts' = k /\ k = starts + 1 /\ written' = written
          /\ held' \subseteq held \cup LeftOpen(k, logged) \cup MainEnds(k)
                             \cup (IF logged THEN LoggerEnds(k) ELSE {})
          /\ \/ /\ procs' = [procs EXCEPT
                       ![<<"main", k>>] = "run",
                       ![<<"logger", k>>] = IF logged THEN "run" ELSE @]
                /\ unread' = unread \cup (IF logged THEN {k} ELSE {})
             \/ /\ procs' = [procs EXCEPT
                       ![<<"logger", k>>] = IF logged THEN "run" ELSE @]
                /\ unread' = unread
  <2>1. CASE StartService
    <3>1. WithoutRead(s.read_fd) \subseteq held
      BY DEF WithoutRead
    <3> QED
      BY <2>1, <3>1, StartServiceDoes
  <2>2. CASE StartFails
    <3>1. WithoutRead(s.read_fd) \subseteq held
      BY DEF WithoutRead
    <3>2. \A l, j : LeftByFailure(j, l) = {}
      BY DEF LeftByFailure
    <3> QED
      BY <2>2, <3>1, <3>2, StartFailsDoes
  <2> QED
    BY <2>1, <2>2
<1>t. /\ procs \in [Owners \ {svc} -> {"none", "run", "zombie"}]
      /\ starts \in Nat /\ \A e \in held : e[2] \in Starts
  BY Sizes DEF Based, StreamTypeOK
<1>2. \A j \in Starts \ {k} :
          /\ procs'[<<"main", j>>] = procs[<<"main", j>>]
          /\ procs'[<<"helper", j>>] = procs[<<"helper", j>>]
          /\ procs'[<<"logger", j>>] = procs[<<"logger", j>>]
  BY <1>1, <1>t, OwnersOf
<1>3. /\ procs[<<"main", k>>] = "none" /\ procs[<<"logger", k>>] = "none"
      /\ written[k] = 0
  <2>1. k > starts
    BY <1>1, <1>t
  <2> QED
    BY <2>1 DEF UsersInv, Fresh
<1>4. procs'[<<"logger", k>>] = IF logged THEN "run" ELSE "none"
  BY <1>1, <1>3, <1>t, OwnersOf
<1>5. Fresh'
  <2>1. \A j \in Starts : j > k => j # k /\ j > starts
    BY <1>1, <1>t
  <2> QED
    BY <1>1, <1>2, <2>1 DEF UsersInv, Fresh
<1>6. LoggersRead'
  <2> SUFFICES ASSUME NEW j \in Starts, procs'[<<"logger", j>>] # "none",
                      j \notin unread'
               PROVE  procs'[<<"main", j>>] = "none" /\ written[j] = 0
    BY <1>1 DEF LoggersRead
  <2>1. CASE j = k
    <3>1. logged
      BY <1>4, <2>1
    <3>2. procs' = [procs EXCEPT ![<<"logger", k>>] = "run"]
      BY <1>1, <2>1, <3>1
    <3>3. procs'[<<"main", k>>] = "none"
      BY <1>3, <1>t, <3>2, OwnersOf
    <3> QED
      BY <1>3, <2>1, <3>3
  <2>2. CASE j # k
    <3>1. j \notin unread
      BY <1>1
    <3> QED
      BY <1>2, <2>2, <3>1 DEF UsersInv, LoggersRead
  <2> QED
    BY <2>1, <2>2
<1>7. ReadersAre'
  <2> SUFFICES ASSUME NEW e \in held', e[3] = "r", e[1] # svc
               PROVE  e[1] = <<"logger", e[2]>> /\ procs'[e[1]] = "run"
    BY DEF ReadersAre
  <2>1. CASE e \in held
    <3>1. e[1] = <<"logger", e[2]>> /\ procs[e[1]] = "run" /\ e[2] \in Starts
      BY <1>t, <2>1 DEF UsersInv, ReadersAre
    <3>2. e[2] # k
      BY <1>3, <3>1
    <3> QED
      BY <1>2, <3>1, <3>2
  <2>2. CASE e \in LeftOpen(k, logged) \cup MainEnds(k)
    BY <2>2 DEF LeftOpen, MainEnds
  <2>3. CASE logged /\ e \in LoggerEnds(k)
    BY <1>4, <2>3 DEF LoggerEnds
  <2> QED
    BY <1>1, <2>1, <2>2, <2>3
<1> QED
  BY <1>5, <1>6, <1>7 DEF UsersInv

-----------------------------------------------------------------------------
(* The service's process, and the pass that drains its stream.             *)

\* The one main process that has not been waited for is the slot's.
MainsAre ==
    pc # "done" =>
        \A k \in Starts : procs[<<"main", k>>] # "none" =>
            s.active /\ s.pid = k

\* From poll() to the next start: a service that may be started has nothing
\* left in its old stream.
DrainedFirst ==
    (/\ s.active /\ s.pid = 0 /\ s.restart_at = "due" /\ phase = "serve"
     /\ pc \in {"reap", "scan", "start"})
        => s.read_fd = 0 \/ pipe[s.read_fd] = <<>>

ChildInv == MainsAre /\ DrainedFirst

\* reap_children().
LEMMA ChildReaped ==
    ASSUME Based, ChildInv,
           \/ \E k \in Starts : ReapMain(k) \/ ReapLog(k)
           \/ ReapEnd
    PROVE  ChildInv'
<1> USE DEF service_vars, world_vars, rest_vars, log_vars
<1>s. s \in Slot /\ procs \in [Owners \ {svc} -> {"none", "run", "zombie"}]
  BY DEF Based, StreamTypeOK
<1>1. ASSUME NEW k \in Starts, ReapMain(k) PROVE ChildInv'
  <2>1. s.active /\ s.pid = k
    BY <1>1 DEF ReapMain, ChildInv, MainsAre
  <2>2. PICK when \in {"later", "never"} :
            s' = [s EXCEPT !.pid = 0, !.restart_at = when]
    BY <1>1, <2>1 DEF ReapMain, AfterExit
  <2>3. s'.restart_at # "due"
    BY <1>s, <2>2 DEF Slot
  <2>4. ASSUME NEW j \in Starts PROVE procs'[<<"main", j>>] = "none"
    <3>1. procs' = [procs EXCEPT ![<<"main", k>>] = "none"]
      BY <1>1 DEF ReapMain
    <3>2. CASE j = k
      BY <1>s, <3>1, <3>2, OwnersOf
    <3>3. CASE j # k
      <4>1. procs'[<<"main", j>>] = procs[<<"main", j>>]
        BY <1>s, <3>1, <3>3, OwnersOf
      <4>2. procs[<<"main", j>>] = "none"
        BY <1>1, <2>1, <3>3 DEF ReapMain, ChildInv, MainsAre
      <4> QED
        BY <4>1, <4>2
    <3> QED
      BY <3>2, <3>3
  <2> QED
    BY <2>3, <2>4 DEF ChildInv, MainsAre, DrainedFirst
<1>2. ASSUME NEW k \in Starts, ReapLog(k) PROVE ChildInv'
  <2>1. /\ s'.active = s.active /\ s'.pid = s.pid /\ s'.read_fd = s.read_fd
        /\ s'.restart_at = s.restart_at
    BY <1>2, <1>s DEF ReapLog, Slot
  <2>2. \A j \in Starts : procs'[<<"main", j>>] = procs[<<"main", j>>]
    BY <1>2, <1>s, OwnersOf DEF ReapLog
  <2>3. pc' = pc /\ phase' = phase /\ pipe' = pipe /\ pc = "reap"
    BY <1>2 DEF ReapLog
  <2> QED
    BY <2>1, <2>2, <2>3 DEF ChildInv, MainsAre, DrainedFirst
<1>3. ASSUME ReapEnd PROVE ChildInv'
  <2>1. /\ s'.active = s.active /\ s'.pid = s.pid /\ s'.read_fd = s.read_fd
        /\ s'.restart_at = s.restart_at
    BY <1>3, <1>s DEF ReapEnd, Slot
  <2>2. /\ pc = "reap" /\ UNCHANGED <<phase, procs, pipe>>
    BY <1>3 DEF ReapEnd
  <2> QED
    BY <2>1, <2>2 DEF ChildInv, MainsAre, DrainedFirst
<1> QED
  BY <1>1, <1>2, <1>3

\* The scan.
LEMMA ChildScanned ==
    ASSUME Based, ChildInv, NoScan \/ Found \/ Removed \/ Dropped
    PROVE  ChildInv'
<1> USE DEF service_vars, world_vars, rest_vars, log_vars
<1>s. s \in Slot
  BY DEF Based, StreamTypeOK
<1>1. CASE NoScan
  BY <1>1 DEF NoScan, ChildInv, MainsAre, DrainedFirst
<1>2. CASE (Found /\ s.active) \/ Removed
  <2>1. /\ s'.active = s.active /\ s'.pid = s.pid /\ s'.read_fd = s.read_fd
        /\ s'.restart_at = s.restart_at
    BY <1>2, <1>s DEF Found, Removed, Slot
  <2>2. /\ pc = "scan" /\ UNCHANGED <<phase, procs, pipe>>
    BY <1>2 DEF Found, Removed
  <2> QED
    BY <2>1, <2>2 DEF ChildInv, MainsAre, DrainedFirst
<1>3. CASE Found /\ ~s.active
  <2>1. s'.read_fd = 0 /\ procs' = procs /\ pc = "scan"
    BY <1>3 DEF Found, NewService
  <2> QED
    BY <1>3, <2>1 DEF ChildInv, MainsAre, DrainedFirst
<1>4. CASE Dropped
  <2>1. /\ s.pid = 0 /\ s' = [s EXCEPT !.active = FALSE, !.read_fd = 0,
                                       !.log_fd = FALSE]
        /\ procs' = procs /\ pc = "scan"
    BY <1>4 DEF Dropped
  <2>2. s'.active = FALSE
    BY <1>s, <2>1 DEF Slot
  <2>3. \A k \in Starts : procs[<<"main", k>>] = "none"
    <3>1. \A k \in Starts : k # 0
      OBVIOUS
    <3> QED
      BY <2>1, <3>1 DEF ChildInv, MainsAre
  <2> QED
    BY <2>1, <2>2, <2>3 DEF ChildInv, MainsAre, DrainedFirst
<1> QED
  BY <1>1, <1>2, <1>3, <1>4

\* start_service().
LEMMA ChildStarted ==
    ASSUME Based, ChildInv, NoStart \/ StartService \/ StartFails
    PROVE  ChildInv'
<1>p. procs \in [Owners \ {svc} -> {"none", "run", "zombie"}]
  BY DEF Based, StreamTypeOK
<1>z. Startable => s.active /\ \A j \in Starts : procs[<<"main", j>>] = "none"
  <2>1. \A j \in Starts : j # 0
    OBVIOUS
  <2> QED
    BY <2>1 DEF Startable, ChildInv, MainsAre
<1>1. CASE NoStart
  BY <1>1
  DEF NoStart, ChildInv, MainsAre, DrainedFirst, service_vars, world_vars
<1>2. CASE StartService
  <2>1. PICK logged \in BOOLEAN, k \in Starts :
            /\ Startable /\ s'.active = s.active /\ s'.pid = k /\ pc' = "poll"
            /\ procs' = [procs EXCEPT
                   ![<<"main", k>>] = "run",
                   ![<<"logger", k>>] = IF logged THEN "run" ELSE @]
    BY <1>2, StartServiceDoes
  <2>2. \A j \in Starts \ {k} : procs'[<<"main", j>>] = procs[<<"main", j>>]
    BY <1>p, <2>1, OwnersOf
  <2> QED
    BY <1>z, <2>1, <2>2 DEF ChildInv, MainsAre, DrainedFirst
<1>3. CASE StartFails
  <2>1. PICK logged \in BOOLEAN, k \in Starts :
            /\ Startable /\ pc' = "poll"
            /\ procs' = [procs EXCEPT
                   ![<<"logger", k>>] = IF logged THEN "run" ELSE @]
    BY <1>3, StartFailsDoes
  <2>2. \A j \in Starts : procs'[<<"main", j>>] = procs[<<"main", j>>]
    BY <1>p, <2>1, OwnersOf
  <2> QED
    BY <1>z, <2>1, <2>2 DEF ChildInv, MainsAre, DrainedFirst
<1> QED
  BY <1>1, <1>2, <1>3

\* poll() and the clients: a stream with something in it is drained next.
LEMMA ChildPolled ==
    ASSUME Based, ChildInv, NoClient \/ Stop \/ Start \/ Term
    PROVE  ChildInv'
<1>s. s \in Slot
  BY DEF Based, StreamTypeOK
<1>1. /\ s'.active = s.active /\ s'.pid = s.pid /\ s'.read_fd = s.read_fd
      /\ pc = "poll" /\ UNCHANGED <<procs, pipe>>
  BY <1>s DEF NoClient, Stop, Start, Term, Slot, service_vars, world_vars
<1>2. MainsAre'
  BY <1>1 DEF ChildInv, MainsAre
<1>3. CASE Term
  <2>1. phase' = "term"
    BY <1>3 DEF Term
  <2> QED
    BY <1>2, <2>1 DEF ChildInv, DrainedFirst
<1>4. CASE NoClient \/ Stop \/ Start
  <2>1. Streaming
    BY <1>4 DEF NoClient, Stop, Start
  <2>2. s.active /\ s.read_fd # 0 /\ pipe[s.read_fd] # <<>> => pc' = "drain"
    BY <2>1 DEF Streaming, Readable
  <2> QED
    BY <1>1, <1>2, <2>2 DEF ChildInv, DrainedFirst
<1> QED
  BY <1>3, <1>4

\* drain_stream() returns with an empty pipe or without a stream.
LEMMA ChildDrained ==
    ASSUME Based, ChildInv, Read \/ ReadNothing \/ ReadEof \/ ReadFails
    PROVE  ChildInv'
<1>s. s \in Slot
  BY DEF Based, StreamTypeOK
<1>1. pc = "drain" /\ pc' # "done"
  BY DEF Read, ReadNothing, ReadEof, ReadFails, Drained
<1>2. CASE Read
  <2>1. PICK k \in Starts, n \in Nat \ {0}, a \in Accounts :
            /\ k = s.read_fd /\ n <= Len(pipe[k])
            /\ s' = [s EXCEPT !.log_fd = a.fd, !.log_len = a.len]
            /\ pipe' = [pipe EXCEPT ![k] = SubSeq(@, n + 1, Len(@))]
            /\ UNCHANGED pc \/ (n = Len(pipe[k]) /\ Drained)
            /\ UNCHANGED procs
    BY <1>2, ReadDoes
  <2>2. /\ s'.active = s.active /\ s'.pid = s.pid /\ s'.read_fd = s.read_fd
    BY <1>s, <2>1 DEF Slot
  <2>3. pipe \in [Starts -> Seq(Bytes)]
    BY DEF Based, StreamTypeOK
  <2>4. pc' = pc \/ pipe'[k] = <<>>
    <3> SUFFICES ASSUME n = Len(pipe[k]) PROVE pipe'[k] = <<>>
      BY <2>1
    <3>1. pipe'[k] = SubSeq(pipe[k], n + 1, Len(pipe[k]))
      BY <2>1, <2>3
    <3>2. pipe[k] \in Seq(Bytes)
      BY <2>3
    <3> QED
      BY <3>1, <3>2
  <2> QED
    BY <1>1, <2>1, <2>2, <2>4 DEF ChildInv, MainsAre, DrainedFirst
<1>3. CASE ReadNothing
  BY <1>1, <1>3
  DEF ReadNothing, Readable, ChildInv, MainsAre, DrainedFirst, service_vars,
      world_vars
<1>4. CASE ReadEof \/ ReadFails
  <2>1. s' = [s EXCEPT !.read_fd = 0] /\ procs' = procs
    BY <1>4 DEF ReadEof, ReadFails
  <2>2. s'.active = s.active /\ s'.pid = s.pid /\ s'.read_fd = 0
    BY <1>s, <2>1, Unhooked
  <2> QED
    BY <1>1, <2>1, <2>2 DEF ChildInv, MainsAre, DrainedFirst
<1> QED
  BY <1>2, <1>3, <1>4

\* The shutdown.
LEMMA ChildShutDown ==
    ASSUME Based, ChildInv, SettleAgain \/ KillRest \/ CloseAll
    PROVE  ChildInv'
<1>1. CASE SettleAgain
  <2>1. phase' # "serve"
    BY <1>1 DEF SettleAgain, Based, Placed
  <2> QED
    BY <1>1, <2>1
    DEF SettleAgain, ChildInv, MainsAre, DrainedFirst, service_vars, world_vars
<1>2. CASE KillRest
  BY <1>2
  DEF KillRest, ChildInv, MainsAre, DrainedFirst, service_vars, world_vars
<1>3. CASE CloseAll
  BY <1>3 DEF CloseAll, ChildInv, MainsAre, DrainedFirst
<1> QED
  BY <1>1, <1>2, <1>3

\* The service and its processes: nobody writes into the stream of a service
\* that has no process.
LEMMA ChildOutside ==
    ASSUME Based, ChildInv, World
    PROVE  ChildInv'
<1> USE DEF service_vars, rest_vars, log_vars
<1>t. /\ procs \in [Owners \ {svc} -> {"none", "run", "zombie"}]
      /\ pipe \in [Starts -> Seq(Bytes)]
      /\ s \in Slot
  BY DEF Based, StreamTypeOK
<1>1. ASSUME NEW k \in Starts, Write(k) PROVE ChildInv'
  <2>1. /\ procs[<<"main", k>>] = "run" /\ UNCHANGED <<s, pc, phase, procs>>
    BY <1>1 DEF Write
  <2>2. pc # "done" => s.pid = k /\ k # 0
    BY <2>1 DEF ChildInv, MainsAre
  <2> QED
    BY <2>1, <2>2 DEF ChildInv, MainsAre, DrainedFirst
<1>2. ASSUME NEW k \in Starts, Spawn(k) PROVE ChildInv'
  <2>1. \A j \in Starts : procs'[<<"main", j>>] = procs[<<"main", j>>]
    BY <1>2, <1>t, OwnersOf DEF Spawn
  <2> QED
    BY <1>2, <2>1 DEF Spawn, ChildInv, MainsAre, DrainedFirst
<1>3. ASSUME NEW k \in Starts, LoggerReads(k) PROVE ChildInv'
  <2>1. /\ pipe[k] # <<>> /\ pipe' = [pipe EXCEPT ![k] = Tail(@)]
        /\ UNCHANGED <<s, pc, phase, procs>>
    BY <1>3 DEF LoggerReads
  <2>2. \A j \in Starts : pipe[j] = <<>> => pipe'[j] = <<>>
    BY <1>t, <2>1
  <2>3. s.read_fd = 0 \/ s.read_fd \in Starts
    BY <1>t DEF Slot
  <2> QED
    BY <2>1, <2>2, <2>3 DEF ChildInv, MainsAre, DrainedFirst
<1>4. ASSUME NEW o \in Owners \ {svc}, End(o) PROVE ChildInv'
  <2>1. \A p \in Owners \ {svc} : procs[p] = "none" => procs'[p] = "none"
    BY <1>4, <1>t DEF End
  <2>2. UNCHANGED <<s, pc, phase, pipe>>
    BY <1>4 DEF End
  <2> QED
    BY <2>1, <2>2, OwnersOf DEF ChildInv, MainsAre, DrainedFirst
<1>5. CASE Tick
  <2>1. /\ s'.active = s.active /\ s'.pid = s.pid
    BY <1>5, <1>t DEF Tick, Slot
  <2> QED
    BY <1>5, <2>1 DEF Tick, world_vars, ChildInv, MainsAre, DrainedFirst
<1> QED
  BY <1>1, <1>2, <1>3, <1>4, <1>5 DEF World

LEMMA ChildStep ==
    Based /\ ChildInv /\ [StreamNext]_svars => ChildInv'
<1>1. ChildInv /\ UNCHANGED svars => ChildInv'
  BY DEF svars, ChildInv, MainsAre, DrainedFirst
<1> QED
  BY <1>1, ChildReaped, ChildScanned, ChildStarted, ChildPolled, ChildDrained,
     ChildShutDown, ChildOutside
  DEF StreamNext, Serve, StreamTerminating

-----------------------------------------------------------------------------
(* No output is lost in silence.                                           *)

UsedInv == Based /\ UsersInv /\ ChildInv /\ DescriptorsExact

LEMMA UsedInit == StreamInit => UsedInv
<1> SUFFICES ASSUME StreamInit PROVE UsedInv
  OBVIOUS
<1>1. /\ procs = [o \in Owners \ {svc} |-> "none"] /\ held = {}
      /\ written = [k \in Starts |-> 0] /\ s.read_fd = 0
  BY DEF StreamInit, NewService
<1>2. \A k \in Starts : /\ procs[<<"main", k>>] = "none"
                        /\ procs[<<"helper", k>>] = "none"
                        /\ procs[<<"logger", k>>] = "none"
                        /\ written[k] = 0
  BY <1>1, OwnersOf
<1>3. UsersInv
  BY <1>1, <1>2 DEF UsersInv, Fresh, ReadersAre, LoggersRead
<1>4. ChildInv
  BY <1>1, <1>2 DEF ChildInv, MainsAre, DrainedFirst
<1>5. DescriptorsExact
  BY <1>1 DEF DescriptorsExact, EndsOf
<1> QED
  BY <1>3, <1>4, <1>5, StreamInitType DEF UsedInv

LEMMA UsedStep == UsedInv /\ [StreamNext]_svars => UsedInv'
BY StreamTypeStep, StepKinds, UsersOutside, UsersInside, UsersStart, ChildStep,
   DescriptorsStep
DEF UsedInv

\* What write_log() is given is in the file or given up.
LEMMA OutcomeKeeps ==
    ASSUME NEW a \in Accounts, NEW data \in Seq(Bytes), NEW r,
           Outcome(a, data, r)
    PROVE  /\ ToSet(data) \subseteq ToSet(r.file) \cup r.lost
           /\ ToSet(a.file) \subseteq ToSet(r.file)
<1>1. PICK n \in 0..Len(data) :
          /\ r.file = a.file \o SubSeq(data, 1, n)
          /\ ToSet(SubSeq(data, n + 1, Len(data))) \subseteq r.lost
  BY DEF Outcome
<1> DEFINE p == SubSeq(data, 1, n)
           q == SubSeq(data, n + 1, Len(data))
<1>2. p \in Seq(Bytes) /\ ToSet(data) = ToSet(p) \cup ToSet(q)
  BY Split
<1> HIDE DEF p, q
<1>3. a.file \in Seq(Bytes)
  BY DEF Accounts
<1>4. ToSet(a.file \o p) = ToSet(a.file) \cup ToSet(p)
  BY <1>2, <1>3, SetOfConcat
<1>5. r.file = a.file \o p /\ ToSet(q) \subseteq r.lost
  BY <1>1 DEF p, q
<1> QED
  BY <1>2, <1>4, <1>5

\* An empty stream can be closed without reading it.
LEMMA EmptyClosed ==
    ASSUME OutputKept, s.read_fd = 0 \/ pipe[s.read_fd] = <<>>,
           NEW k \in (1..starts) \ unread
    PROVE  {k} \X (1..written[k]) \subseteq ToSet(file) \cup given_up
<1>1. ToSet(<<>>) = {}
  BY DEF ToSet
<1>2. s.read_fd = k => pipe[k] = <<>>
  OBVIOUS
<1> QED
  BY <1>1, <1>2 DEF OutputKept

\* A stream is closed at its end or counted as unread.
LEMMA KeptClose ==
    ASSUME UsedInv, OutputKept, CloseStep
    PROVE  OutputKept'
<1>1. /\ s'.read_fd = 0 /\ unread \subseteq unread'
      /\ UNCHANGED <<starts, written, file, given_up>>
      /\ s.read_fd # 0 => s.read_fd \in unread' \/ pipe[s.read_fd] = <<>>
  BY DEF CloseStep
<1> SUFFICES ASSUME NEW k \in (1..starts) \ unread'
             PROVE  {k} \X (1..written[k]) \subseteq ToSet(file) \cup given_up
  BY <1>1 DEF OutputKept
<1>2. ToSet(<<>>) = {}
  BY DEF ToSet
<1>3. k \in (1..starts) \ unread
  BY <1>1
<1>4. starts \in Nat
  BY Sizes DEF UsedInv, Based, StreamTypeOK
<1>5. k # 0
  BY <1>4
<1>6. s.read_fd = k => pipe[k] = <<>>
  BY <1>1, <1>5
<1> QED
  BY <1>2, <1>3, <1>6 DEF OutputKept

\* start_service() closes an empty stream.
LEMMA KeptStart ==
    ASSUME UsedInv, OutputKept, StartService \/ StartFails
    PROVE  OutputKept'
<1>1. PICK k \in Starts :
          /\ starts' = k /\ k = starts + 1 /\ Startable
          /\ unread \subseteq unread' /\ s'.read_fd \in {0, k}
          /\ UNCHANGED <<pipe, written, file, given_up>>
  <2>1. CASE StartService
    BY <2>1, StartServiceDoes DEF UsedInv
  <2>2. CASE StartFails
    BY <2>2, StartFailsDoes DEF UsedInv
  <2> QED
    BY <2>1, <2>2
<1>2. starts \in Nat
  BY Sizes DEF UsedInv, Based, StreamTypeOK
<1>3. s.read_fd = 0 \/ pipe[s.read_fd] = <<>>
  <2>1. phase = "serve"
    BY <1>1 DEF Startable, UsedInv, Based, Placed
  <2> QED
    BY <1>1, <2>1 DEF Startable, UsedInv, ChildInv, DrainedFirst
<1>4. written[k] = 0
  <2>1. k > starts
    BY <1>1, <1>2
  <2> QED
    BY <2>1 DEF UsedInv, UsersInv, Fresh
<1> SUFFICES ASSUME NEW j \in (1..k) \ unread'
             PROVE  {j} \X (1..written[j]) \subseteq ToSet(file) \cup given_up
  BY <1>1 DEF OutputKept
<1>5. CASE j = k
  <2>1. 1..written[j] = {}
    BY <1>4, <1>5
  <2> QED
    BY <2>1
<1>6. CASE j # k
  <2>1. j \in (1..starts) \ unread
    BY <1>1, <1>2, <1>6
  <2> QED
    BY <1>3, <2>1, EmptyClosed
<1> QED
  BY <1>5, <1>6

\* What leaves the pipe goes through write_log().
LEMMA KeptRead ==
    ASSUME UsedInv, OutputKept, Read
    PROVE  OutputKept'
<1>1. PICK k \in Starts, n \in Nat \ {0}, a \in Accounts :
          /\ k = s.read_fd /\ n <= Len(pipe[k])
          /\ Outcome(Account, SubSeq(pipe[k], 1, n), a)
          /\ s' = [s EXCEPT !.log_fd = a.fd, !.log_len = a.len]
          /\ file' = a.file /\ given_up' = given_up \cup a.lost
          /\ pipe' = [pipe EXCEPT ![k] = SubSeq(@, n + 1, Len(@))]
          /\ UNCHANGED <<starts, written, unread>>
  BY ReadDoes DEF UsedInv
<1> DEFINE q == pipe[k]
           data == SubSeq(q, 1, n)
           rest == SubSeq(q, n + 1, Len(q))
<1>2. /\ q \in Seq(Bytes) /\ n \in 0..Len(q) /\ pipe'[k] = rest
      /\ s'.read_fd = k /\ Account \in Accounts /\ Account.file = file
  <2>0. /\ pipe \in [Starts -> Seq(Bytes)] /\ s \in Slot
        /\ file \in Seq(Bytes)
    BY DEF UsedInv, Based, StreamTypeOK
  <2>a. s.log_fd \in BOOLEAN /\ s.log_len \in Nat
    BY <2>0 DEF Slot
  <2>1. /\ pipe \in [Starts -> Seq(Bytes)] /\ s \in Slot
        /\ Account \in Accounts /\ Account.file = file
    BY <2>0, <2>a DEF Account, Accounts
  <2>2. q \in Seq(Bytes) /\ pipe'[k] = rest
    BY <1>1, <2>1
  <2>3. n \in 0..Len(q)
    BY <1>1, <2>2
  <2>4. s'.read_fd = k
    BY <1>1, <2>1 DEF Slot
  <2> QED
    BY <2>1, <2>2, <2>3, <2>4
<1>3. data \in Seq(Bytes) /\ ToSet(q) = ToSet(data) \cup ToSet(rest)
  BY <1>2, Split
<1>4. /\ ToSet(data) \subseteq ToSet(file') \cup given_up'
      /\ ToSet(file) \subseteq ToSet(file') /\ given_up \subseteq given_up'
  <2>1. Outcome(Account, data, a)
    BY <1>1
  <2> HIDE DEF q, data, rest
  <2>2. /\ ToSet(data) \subseteq ToSet(a.file) \cup a.lost
        /\ ToSet(Account.file) \subseteq ToSet(a.file)
    BY <1>2, <1>3, <2>1, OutcomeKeeps
  <2>3. file' = a.file /\ given_up' = given_up \cup a.lost
    BY <1>1
  <2>4. Account.file = file
    BY <1>2
  <2> QED
    BY <2>2, <2>3, <2>4
<1> HIDE DEF q, data, rest
<1>5. /\ starts' = starts /\ written' = written /\ unread' = unread
      /\ s'.read_fd = k /\ pipe'[k] = rest /\ s.read_fd = k
  BY <1>1, <1>2
<1> SUFFICES ASSUME NEW j \in (1..starts) \ unread
             PROVE  {j} \X (1..written[j]) \subseteq
                        ToSet(file') \cup given_up'
                        \cup (IF k = j THEN ToSet(pipe'[j]) ELSE {})
  BY <1>5 DEF OutputKept
<1>6. {j} \X (1..written[j]) \subseteq
          ToSet(file) \cup given_up \cup (IF k = j THEN ToSet(q) ELSE {})
  BY <1>5 DEF OutputKept, q
<1>7. CASE j = k
  BY <1>3, <1>4, <1>5, <1>6, <1>7
<1>8. CASE j # k
  BY <1>4, <1>6, <1>8
<1> QED
  BY <1>7, <1>8

\* Whoever is written to is read by svc-rs, unless its pipe is a logger's.
LEMMA KeptWrite ==
    ASSUME UsedInv, OutputKept, NEW k \in Starts, Write(k)
    PROVE  OutputKept'
<1>1. /\ procs[<<"main", k>>] = "run" /\ Readers(k) # {}
      /\ pipe' = [pipe EXCEPT ![k] = Append(@, <<k, written[k] + 1>>)]
      /\ written' = [written EXCEPT ![k] = @ + 1]
      /\ UNCHANGED <<s, starts, file, given_up, unread>>
  BY DEF Write, service_vars, rest_vars, log_vars
<1>2. /\ pipe \in [Starts -> Seq(Bytes)] /\ written \in [Starts -> Nat]
      /\ starts \in 0..MaxStarts
  BY DEF UsedInv, Based, StreamTypeOK
<1>3. k \notin unread => s.read_fd = k
  <2> SUFFICES ASSUME k \notin unread PROVE s.read_fd = k
    OBVIOUS
  <2>1. PICK e \in held : e[2] = k /\ e[3] = "r"
    BY <1>1 DEF Readers
  <2>2. CASE e[1] = svc
    <3>1. e \in EndsOf(svc)
      BY <2>2 DEF EndsOf
    <3>2. e = <<svc, s.read_fd, "r">>
      BY <3>1 DEF UsedInv, DescriptorsExact
    <3> QED
      BY <2>1, <3>2
  <2>3. CASE e[1] # svc
    <3>1. procs[<<"logger", k>>] = "run"
      BY <2>1, <2>3 DEF UsedInv, UsersInv, ReadersAre
    <3> QED
      BY <1>1, <3>1 DEF UsedInv, UsersInv, LoggersRead
  <2> QED
    BY <2>2, <2>3
<1> DEFINE b == <<k, written[k] + 1>>
<1>4. /\ pipe'[k] = Append(pipe[k], b) /\ written'[k] = written[k] + 1
      /\ \A j \in Starts \ {k} : pipe'[j] = pipe[j] /\ written'[j] = written[j]
  BY <1>1, <1>2
<1>5. ToSet(pipe[k]) \cup {b} \subseteq ToSet(pipe'[k])
  <2> DEFINE q == pipe[k]
  <2>1. q \in Seq(Bytes) /\ pipe'[k] = Append(q, b)
    BY <1>2, <1>4
  <2> HIDE DEF q, b
  <2>2. /\ DOMAIN q = 1..Len(q) /\ Len(q) \in Nat
        /\ DOMAIN Append(q, b) = 1..(Len(q) + 1)
        /\ Append(q, b)[Len(q) + 1] = b
        /\ \A x \in 1..Len(q) : Append(q, b)[x] = q[x]
    BY <2>1
  <2>3. \A x \in 1..Len(q) : x \in 1..(Len(q) + 1)
    BY <2>2
  <2>4. Len(q) + 1 \in 1..(Len(q) + 1)
    BY <2>2
  <2>5. \A x \in DOMAIN q : q[x] \in ToSet(Append(q, b))
    BY <2>2, <2>3 DEF ToSet
  <2>6. b \in ToSet(Append(q, b))
    BY <2>2, <2>4 DEF ToSet
  <2> QED
    BY <2>1, <2>5, <2>6 DEF ToSet, q
<1> SUFFICES ASSUME NEW j \in (1..starts) \ unread
             PROVE  {j} \X (1..written'[j]) \subseteq
                        ToSet(file) \cup given_up
                        \cup (IF s.read_fd = j THEN ToSet(pipe'[j]) ELSE {})
  BY <1>1 DEF OutputKept
<1>6. j \in Starts
  BY <1>2, Sizes
<1>7. {j} \X (1..written[j]) \subseteq
          ToSet(file) \cup given_up
          \cup (IF s.read_fd = j THEN ToSet(pipe[j]) ELSE {})
  BY Zenon DEF OutputKept
<1>8. CASE j = k
  <2>1. 1..(written[k] + 1) = (1..written[k]) \cup {written[k] + 1}
    BY <1>2
  <2>2. {k} \X (1..written'[k]) = ({k} \X (1..written[k])) \cup {b}
    BY <1>4, <2>1
  <2>3. {k} \X (1..written[k]) \subseteq
            ToSet(file) \cup given_up \cup ToSet(pipe[k])
    BY <1>3, <1>7, <1>8
  <2> HIDE DEF b
  <2> QED
    BY <1>3, <1>5, <1>8, <2>2, <2>3
<1>9. CASE j # k
  BY <1>4, <1>6, <1>7, <1>9
<1> QED
  BY <1>8, <1>9

\* A logger that svc-rs does not know of reads a pipe nobody has written into.
LEMMA KeptOutside ==
    ASSUME UsedInv, OutputKept, OutsideStep
    PROVE  OutputKept'
<1> USE DEF service_vars, rest_vars, log_vars
<1>1. ASSUME NEW k \in Starts, LoggerReads(k) PROVE OutputKept'
  <2>1. /\ procs[<<"logger", k>>] = "run"
        /\ pipe' = [pipe EXCEPT ![k] = Tail(@)]
        /\ UNCHANGED <<s, starts, written, file, given_up, unread>>
    BY <1>1 DEF LoggerReads
  <2>2. pipe \in [Starts -> Seq(Bytes)]
    BY DEF UsedInv, Based, StreamTypeOK
  <2> SUFFICES ASSUME NEW j \in (1..starts) \ unread
               PROVE  {j} \X (1..written[j]) \subseteq
                          ToSet(file) \cup given_up
                          \cup (IF s.read_fd = j THEN ToSet(pipe'[j]) ELSE {})
    BY <2>1 DEF OutputKept
  <2>3. CASE j = k
    <3>1. written[j] = 0
      BY <2>1, <2>3 DEF UsedInv, UsersInv, LoggersRead
    <3>2. 1..written[j] = {}
      BY <3>1
    <3> QED
      BY <3>2
  <2>4. CASE j # k
    <3>1. j \in Starts
      BY Sizes DEF UsedInv, Based, StreamTypeOK
    <3>2. pipe'[j] = pipe[j]
      BY <2>1, <2>2, <2>4, <3>1
    <3> QED
      BY <3>2 DEF OutputKept
  <2> QED
    BY <2>3, <2>4
<1>2. ASSUME NEW k \in Starts, Spawn(k) PROVE OutputKept'
  BY <1>2 DEF Spawn, OutputKept
<1>3. ASSUME NEW o \in Owners \ {svc}, End(o) PROVE OutputKept'
  BY <1>3 DEF End, OutputKept
<1> QED
  BY <1>1, <1>2, <1>3, KeptWrite DEF OutsideStep

\* No output is lost in silence: a byte that the service has written into a
\* pipe svc-rs reads is in the log, still in the pipe that svc-rs reads, or
\* write_log() has returned without writing it.  start_service() closes the old
\* stream unread, and is never called while there is something in it.
THEOREM OutputIsKept == StreamSpec => []OutputKept
<1>1. StreamInit => OutputKept
  BY DEF StreamInit, OutputKept
<1>2. UsedInv /\ OutputKept /\ [StreamNext]_svars => OutputKept'
  <2> SUFFICES ASSUME UsedInv, OutputKept, [StreamNext]_svars
               PROVE  OutputKept'
    OBVIOUS
  <2>1. CASE QuietStep
    BY <2>1 DEF QuietStep, OutputKept
  <2> QED
    BY <2>1, StepKinds, KeptClose, KeptStart, KeptRead, KeptOutside DEF UsedInv
<1> QED
  BY <1>1, <1>2, UsedInit, UsedStep, PTL DEF StreamSpec

-----------------------------------------------------------------------------
(* The end of a stream.                                                    *)

\* A write end is open only in the main process of that start and in the
\* helper it has left behind, while they run.
WritersAre ==
    \A e \in held : e[3] = "w" =>
        /\ e[1] \in {<<"main", e[2]>>, <<"helper", e[2]>>}
        /\ procs[e[1]] = "run"

\* A start without main and helper is one whose pipe has no writer.
ClosedBehind ==
    \A k \in Starts :
        procs[<<"main", k>>] # "run" /\ procs[<<"helper", k>>] # "run"
            => Writers(k) = {}

\* svc-rs and its loggers never get a write end that outlives fork and exec.
LEMMA WritersInside ==
    ASSUME UsedInv, WritersAre,
           QuietStep \/ CloseStep \/ Read \/ StartService \/ StartFails
    PROVE  WritersAre'
<1>t. /\ procs \in [Owners \ {svc} -> {"none", "run", "zombie"}]
      /\ starts \in Nat /\ \A e \in held : e[2] \in Starts
  BY Sizes DEF UsedInv, Based, StreamTypeOK
<1>1. CASE QuietStep
  <2>1. held' = held /\ Waited
    BY <1>1 DEF QuietStep
  <2>2. \A k \in Starts :
            /\ procs[<<"main", k>>] = "run" => procs'[<<"main", k>>] = "run"
            /\ procs[<<"helper", k>>] = "run"
                   => procs'[<<"helper", k>>] = "run"
    BY <2>1, OwnersOf DEF Waited
  <2> SUFFICES ASSUME NEW e \in held, e[3] = "w"
               PROVE  /\ e[1] \in {<<"main", e[2]>>, <<"helper", e[2]>>}
                      /\ procs'[e[1]] = "run"
    BY <2>1 DEF WritersAre
  <2>3. e[1] \in {<<"main", e[2]>>, <<"helper", e[2]>>} /\ procs[e[1]] = "run"
    BY DEF WritersAre
  <2> QED
    BY <1>t, <2>2, <2>3
<1>2. CASE CloseStep
  BY <1>2 DEF CloseStep, WithoutRead, WritersAre
<1>3. CASE Read
  BY <1>3, ReadDoes DEF UsedInv, WritersAre
<1>4. CASE StartService \/ StartFails
  <2>1. PICK logged \in BOOLEAN, k \in Starts :
            /\ k = starts + 1
            /\ held' \subseteq held \cup LeftOpen(k, logged)
                               \cup MainEnds(k) \cup LoggerEnds(k)
            /\ \/ procs' = [procs EXCEPT
                      ![<<"main", k>>] = "run",
                      ![<<"logger", k>>] = IF logged THEN "run" ELSE @]
               \/ /\ procs' = [procs EXCEPT
                         ![<<"logger", k>>] = IF logged THEN "run" ELSE @]
                  /\ held' \subseteq held \cup LoggerEnds(k)
    <3>1. WithoutRead(s.read_fd) \subseteq held
      BY DEF WithoutRead
    <3>2. \A l, j : LeftByFailure(j, l) = {}
      BY DEF LeftByFailure
    <3>3. CASE StartService
      BY <3>1, <3>3, StartServiceDoes DEF UsedInv
    <3>4. CASE StartFails
      BY <3>1, <3>2, <3>4, StartFailsDoes DEF UsedInv
    <3> QED
      BY <1>4, <3>3, <3>4
  <2>2. \A j \in Starts \ {k} :
            /\ procs'[<<"main", j>>] = procs[<<"main", j>>]
            /\ procs'[<<"helper", j>>] = procs[<<"helper", j>>]
    BY <1>t, <2>1, OwnersOf
  <2>3. procs[<<"main", k>>] = "none" /\ procs[<<"helper", k>>] = "none"
    <3>1. k > starts
      BY <1>t, <2>1
    <3> QED
      BY <3>1 DEF UsedInv, UsersInv, Fresh
  <2> SUFFICES ASSUME NEW e \in held', e[3] = "w"
               PROVE  /\ e[1] \in {<<"main", e[2]>>, <<"helper", e[2]>>}
                      /\ procs'[e[1]] = "run"
    BY DEF WritersAre
  <2>4. CASE e \in held
    <3>1. /\ e[1] \in {<<"main", e[2]>>, <<"helper", e[2]>>}
          /\ procs[e[1]] = "run" /\ e[2] \in Starts
      BY <1>t, <2>4 DEF WritersAre
    <3>2. e[2] # k
      BY <2>3, <3>1
    <3> QED
      BY <2>2, <3>1, <3>2
  <2>5. CASE e \notin held
    <3>1. e \notin LeftOpen(k, logged) /\ e \notin LoggerEnds(k)
      BY DEF LeftOpen, LoggerEnds
    <3>2. e \in MainEnds(k)
          /\ procs' = [procs EXCEPT
                 ![<<"main", k>>] = "run",
                 ![<<"logger", k>>] = IF logged THEN "run" ELSE @]
      BY <2>1, <2>5, <3>1
    <3>3. procs'[<<"main", k>>] = "run"
      BY <1>t, <3>2, OwnersOf
    <3> QED
      BY <3>2, <3>3 DEF MainEnds
  <2> QED
    BY <2>4, <2>5
<1> QED
  BY <1>1, <1>2, <1>3, <1>4

\* A helper inherits main's end, and the ends of a process close with it.
LEMMA WritersOutside ==
    ASSUME UsedInv, WritersAre, OutsideStep
    PROVE  WritersAre'
<1>t. /\ procs \in [Owners \ {svc} -> {"none", "run", "zombie"}]
      /\ \A e \in held : e[2] \in Starts
  BY DEF UsedInv, Based, StreamTypeOK
<1>1. ASSUME NEW k \in Starts, Write(k) \/ LoggerReads(k) PROVE WritersAre'
  BY <1>1 DEF Write, LoggerReads, WritersAre
<1>2. ASSUME NEW k \in Starts, Spawn(k) PROVE WritersAre'
  <2>1. /\ procs' = [procs EXCEPT ![<<"helper", k>>] = "run"]
        /\ held' = held \cup {<<<<"helper", k>>, e[2], e[3]>> :
                                  e \in EndsOf(<<"main", k>>)}
    BY <1>2 DEF Spawn
  <2>2. /\ procs'[<<"helper", k>>] = "run"
        /\ \A o \in Owners \ {svc} : procs[o] = "run" => procs'[o] = "run"
    BY <1>t, <2>1, OwnersOf
  <2>3. ASSUME NEW e \in EndsOf(<<"main", k>>), e[3] = "w" PROVE e[2] = k
    <3>1. e[1] = <<"main", k>> /\ e \in held
      BY DEF EndsOf
    <3>2. e[1] \in {<<"main", e[2]>>, <<"helper", e[2]>>}
      BY <2>3, <3>1 DEF WritersAre
    <3>3. e[1][1] = "main" /\ e[1][2] = k
      BY <3>1
    <3> QED
      BY <3>2, <3>3
  <2> SUFFICES ASSUME NEW e \in held', e[3] = "w"
               PROVE  /\ e[1] \in {<<"main", e[2]>>, <<"helper", e[2]>>}
                      /\ procs'[e[1]] = "run"
    BY DEF WritersAre
  <2>4. CASE e \in held
    <3>1. /\ e[1] \in {<<"main", e[2]>>, <<"helper", e[2]>>}
          /\ procs[e[1]] = "run" /\ e[2] \in Starts
      BY <1>t, <2>4 DEF WritersAre
    <3> QED
      BY <2>2, <3>1, OwnersOf
  <2>5. CASE e \notin held
    <3>1. PICK f \in EndsOf(<<"main", k>>) : e = <<<<"helper", k>>, f[2], f[3]>>
      BY <2>1, <2>5
    <3>2. f[3] = "w" /\ e[2] = f[2] /\ e[1] = <<"helper", k>>
      BY <3>1
    <3>3. f[2] = k
      BY <2>3, <3>2
    <3> QED
      BY <2>2, <3>2, <3>3
  <2> QED
    BY <2>4, <2>5
<1>3. ASSUME NEW o \in Owners \ {svc}, End(o) PROVE WritersAre'
  <2>1. /\ held' = held \ EndsOf(o)
        /\ \A p \in (Owners \ {svc}) \ {o} : procs'[p] = procs[p]
    BY <1>3, <1>t DEF End
  <2> SUFFICES ASSUME NEW e \in held, e[1] # o, e[3] = "w"
               PROVE  /\ e[1] \in {<<"main", e[2]>>, <<"helper", e[2]>>}
                      /\ procs'[e[1]] = "run"
    BY <2>1 DEF WritersAre, EndsOf
  <2>2. /\ e[1] \in {<<"main", e[2]>>, <<"helper", e[2]>>}
        /\ procs[e[1]] = "run" /\ e[2] \in Starts
    BY <1>t DEF WritersAre
  <2> QED
    BY <2>1, <2>2, OwnersOf
<1> QED
  BY <1>1, <1>2, <1>3 DEF OutsideStep

\* Once main and its helper are gone nobody can write into their pipe: not
\* svc-rs, not a logger, not a process of another start.  So whoever reads the
\* pipe comes to its end: drain_stream() closes the stream, and a logger that
\* the slot has forgotten ends.
THEOREM PipesCloseBehindThem == StreamSpec => []ClosedBehind
<1>1. StreamInit => WritersAre
  BY DEF StreamInit, WritersAre
<1>2. UsedInv /\ WritersAre /\ [StreamNext]_svars => WritersAre'
  BY StepKinds, WritersInside, WritersOutside DEF UsedInv
<1>3. WritersAre => ClosedBehind
  BY DEF WritersAre, ClosedBehind, Writers
<1> QED
  BY <1>1, <1>2, <1>3, UsedInit, UsedStep, PTL DEF StreamSpec

=============================================================================
