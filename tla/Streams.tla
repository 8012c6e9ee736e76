-------------------------------- MODULE Streams --------------------------------
(***************************************************************************)
(* What one service writes on stdout, from the pipe to its log file, and   *)
(* the descriptors that carry it: start_service(), the streams' part of    *)
(* the main loop and of the shutdown, drain_stream(), write_log(),         *)
(* rotate_log(), open_log(), close_service_fds().  stderr goes the same    *)
(* way through a pipe and a file of its own.                               *)
(*                                                                         *)
(* Each start of the service has a number, which is also the number of its *)
(* pipe, of its main process, of a helper that main may leave behind and,  *)
(* with log/run, of its logger; 0 stands for -1.  Reads and writes of the  *)
(* pipes interleave with every step of the supervisor.                     *)
(*                                                                         *)
(* Supervisor is the account of who is started and stopped; here this is   *)
(* kept only as far as it decides when a pipe is made, read and closed.    *)
(***************************************************************************)
EXTENDS Integers, SequencesExt

CONSTANTS
    MaxStarts,  \* bound: starts of the service
    MaxBytes,   \* bound: bytes written in all
    PipeSize,   \* bytes a pipe holds
    BufSize,    \* IO_BUF
    LogLimit,   \* LOG_LIMIT
    HasLog,     \* there is an executable log/run
    Faults      \* what may fail: of "pipe", "fork", "open", "write", "read"

ASSUME StreamsAssumption ==
    /\ {MaxStarts, MaxBytes, PipeSize, BufSize, LogLimit} \subseteq Nat \ {0}
    /\ HasLog \in BOOLEAN
    /\ Faults \subseteq {"pipe", "fork", "open", "write", "read"}

Starts == 1..MaxStarts
Owners == ({"main", "helper", "logger"} \X Starts) \cup {<<"svc-rs", 0>>}
svc == <<"svc-rs", 0>>

VARIABLES
    s,         \* the service's slot of SERVICES
    starts,    \* pipes made so far
    pc,        \* where the main loop is
    phase,     \* "serve", then the two waits of the shutdown
    procs,     \* main, helper and logger of each start
    held,      \* who has which end of which pipe open
    pipe,      \* the bytes in each pipe
    written,   \* bytes written into each pipe
    file,      \* log/current.out
    given_up,  \* bytes write_log() has returned without writing
    unread     \* pipes svc-rs does not read to their end: those of a logger,
               \* and those it closes when the directory is gone, when the
               \* shutdown's deadline has passed, or when read() fails

service_vars == <<s, starts>>
world_vars == <<procs, held, pipe, written>>
log_vars == <<file, given_up>>
rest_vars == <<log_vars, unread>>
svars == <<s, starts, pc, phase, procs, held, pipe, written, file,
           given_up, unread>>

\* A byte is told by its pipe and its place in what was written into it.
Bytes == Starts \X (Nat \ {0})

Slot ==
    [active: BOOLEAN, present: BOOLEAN, stopping: BOOLEAN, has_log: BOOLEAN,
     pid: 0..MaxStarts, log_pid: 0..MaxStarts,
     restart_at: {"due", "later", "never"}, read_fd: 0..MaxStarts,
     log_fd: BOOLEAN, log_len: Nat]

StreamTypeOK ==
    /\ s \in Slot
    /\ starts \in 0..MaxStarts
    /\ pc \in {"reap", "scan", "start", "poll", "drain", "settle", "done"}
    /\ phase \in {"serve", "term", "kill"}
    /\ procs \in [Owners \ {svc} -> {"none", "run", "zombie"}]
    /\ held \subseteq Owners \X Starts \X {"r", "w"}
    /\ pipe \in [Starts -> Seq(Bytes)]
    /\ \A k \in Starts : Len(pipe[k]) <= PipeSize
    /\ written \in [Starts -> Nat]
    /\ file \in Seq(Bytes)
    /\ given_up \subseteq Bytes
    /\ unread \subseteq Starts

\* add_service(): the slot as a new directory fills it.
NewService ==
    [active |-> TRUE, present |-> TRUE, stopping |-> FALSE, has_log |-> HasLog,
     pid |-> 0, log_pid |-> 0, restart_at |-> "due", read_fd |-> 0,
     log_fd |-> FALSE, log_len |-> 0]

StreamInit ==
    /\ s = NewService
    /\ starts = 0 /\ pc = "start" /\ phase = "serve"
    /\ procs = [o \in Owners \ {svc} |-> "none"]
    /\ held = {}
    /\ pipe = [k \in Starts |-> <<>>]
    /\ written = [k \in Starts |-> 0]
    /\ file = <<>> /\ given_up = {} /\ unread = {}

-----------------------------------------------------------------------------
(* Descriptors.                                                            *)

EndsOf(o) == {e \in held : e[1] = o}
Writers(k) == {e \in held : e[2] = k /\ e[3] = "w"}
Readers(k) == {e \in held : e[2] = k /\ e[3] = "r"}

\* close(read_fd): 0 is nobody's descriptor.
WithoutRead(k) == held \ {<<svc, k, "r">>}

\* The ends svc-rs has open after start_service(), of the pipe k it has made.
LeftOpen(k, logged) == IF logged THEN {} ELSE {<<svc, k, "r">>}

\* The ends it has open when the main process could not be forked.
LeftByFailureRead(k, logged) == LeftOpen(k, logged)                  \* mutant
LeftByFailure(k, logged) == {}

\* What main and logger have open when they reach exec: the rest has been
\* dropped, or closed by close_from(3).
MainEnds(k) == {<<<<"main", k>>, k, "w">>}
LoggerEndsBoth(k) ==                                                 \* mutant
    {<<<<"logger", k>>, k, "r">>, <<<<"logger", k>>, k, "w">>}
LoggerEnds(k) == {<<<<"logger", k>>, k, "r">>}

-----------------------------------------------------------------------------
(* The world.                                                              *)

WrittenInAll == FoldFunction(+, 0, written)

\* main writes a byte.  Nothing gets into a full pipe (the descriptor is
\* O_NONBLOCK), nor into one nobody reads.
Write(k) ==
    /\ procs[<<"main", k>>] = "run" /\ Readers(k) # {}
    /\ WrittenInAll < MaxBytes /\ Len(pipe[k]) < PipeSize
    /\ written' = [written EXCEPT ![k] = @ + 1]
    /\ pipe' = [pipe EXCEPT ![k] = Append(@, <<k, written[k] + 1>>)]
    /\ UNCHANGED <<service_vars, pc, phase, procs, held, rest_vars>>

\* main leaves a helper behind, which keeps stdout open and stays silent.
Spawn(k) ==
    /\ procs[<<"main", k>>] = "run" /\ procs[<<"helper", k>>] = "none"
    /\ procs' = [procs EXCEPT ![<<"helper", k>>] = "run"]
    /\ held' = held \cup {<<<<"helper", k>>, e[2], e[3]>> :
                              e \in EndsOf(<<"main", k>>)}
    /\ UNCHANGED <<service_vars, pc, phase, pipe, written, rest_vars>>

\* A process ends, by itself or by a signal; a helper is not our child.
End(o) ==
    /\ procs[o] = "run"
    /\ procs' = [procs EXCEPT ![o] = IF o[1] = "helper" THEN "none"
                                     ELSE "zombie"]
    /\ held' = held \ EndsOf(o)
    /\ UNCHANGED <<service_vars, pc, phase, pipe, written, rest_vars>>

\* A logger takes a byte; at end of file it ends.
LoggerReads(k) ==
    /\ procs[<<"logger", k>>] = "run" /\ pipe[k] # <<>>
    /\ pipe' = [pipe EXCEPT ![k] = Tail(@)]
    /\ UNCHANGED <<service_vars, pc, phase, procs, held, written,
                   rest_vars>>

LoggerEof(k) ==
    /\ pipe[k] = <<>> /\ Writers(k) = {}
    /\ End(<<"logger", k>>)

\* A backoff, of BACKOFF_SHORT or more, ends while poll() waits; it does not
\* end between the waitpid() that sets it and the reading of the clock by which
\* main() starts services in that pass.
Tick ==
    /\ pc = "poll" /\ s.restart_at = "later"
    /\ s' = [s EXCEPT !.restart_at = "due"]
    /\ UNCHANGED <<starts, pc, phase, world_vars, rest_vars>>

World ==
    \/ \E k \in Starts : Write(k) \/ Spawn(k) \/ LoggerReads(k)
    \/ \E o \in Owners \ {svc} : End(o)
    \/ Tick

-----------------------------------------------------------------------------
(* The log file: open_log(), rotate_log(), write_log().  An account is what *)
(* they work on: the slot's log_fd and log_len, the file and the bytes      *)
(* given up.  Each of them yields the set of accounts it may end with.      *)

Account == [fd |-> s.log_fd, len |-> s.log_len, file |-> file, lost |-> {}]

OpenFails(a) ==
    IF "open" \in Faults THEN {[a EXCEPT !.fd = FALSE, !.len = 0]} ELSE {}

\* Mutants: log_len starts from 0; lseek() of a failed open().
open_log_from_zero(a) ==
    {[a EXCEPT !.fd = TRUE, !.len = 0]} \cup OpenFails(a)
open_log_unchecked(a) ==
    {[a EXCEPT !.fd = TRUE, !.len = Len(a.file)],
     [a EXCEPT !.fd = FALSE, !.len = -1]}

\* close, mkdir, open for appending, seek to the end.
open_log(a) == {[a EXCEPT !.fd = TRUE, !.len = Len(a.file)]} \cup OpenFails(a)

\* The file that is renamed is <dir>/current.out, and there is none: the log
\* is opened again as it was.
rotate_log(a) == open_log(a)

GivenUp(a, data) == [a EXCEPT !.lost = @ \cup ToSet(data)]

\* Mutant: the data is written again from its beginning after an error.
AppendedAgain(a, data) ==
    {[a EXCEPT !.file = @ \o data, !.len = @ + Len(data)]} \cup
    {[a EXCEPT !.file = @ \o SubSeq(data, 1, n) \o data,
               !.len = @ + n + Len(data)] : n \in 0..(Len(data) - 1)}

\* write_all(): all of it, or a part and then an error, after which the
\* descriptor is closed.
Appended(a, data) ==
    {[a EXCEPT !.file = @ \o data, !.len = @ + Len(data)]} \cup
    (IF "write" \notin Faults THEN {}
     ELSE {GivenUp([a EXCEPT !.file = @ \o SubSeq(data, 1, n), !.fd = FALSE],
                   SubSeq(data, n + 1, Len(data))) : n \in 0..(Len(data) - 1)})

write_log(a, data) ==
    UNION {IF ~o.fd THEN {GivenUp(o, data)}
           ELSE UNION {IF r.fd THEN Appended(r, data) ELSE {GivenUp(r, data)} :
                          r \in IF o.len + Len(data) > LogLimit
                                THEN rotate_log(o) ELSE {o}} :
              o \in IF a.fd THEN {a} ELSE open_log(a)}

-----------------------------------------------------------------------------
(* The main loop: reap_children() and the scan.                            *)

AtOnce == IF s.stopping THEN {"never"} ELSE {"due", "never"}         \* mutant

\* restart_at after an exit.  Whether a crash is one too many, and `once', are
\* left open.
AfterExit == IF s.stopping THEN {"never"} ELSE {"later", "never"}

\* The main process has been waited for.
ReapMain(k) ==
    /\ pc = "reap" /\ procs[<<"main", k>>] = "zombie"
    /\ procs' = [procs EXCEPT ![<<"main", k>>] = "none"]
    /\ \E when \in AfterExit :
           s' = IF s.active /\ s.pid = k
                THEN [s EXCEPT !.pid = 0, !.restart_at = when] ELSE s
    /\ UNCHANGED <<starts, pc, phase, held, pipe, written, rest_vars>>

\* A logger that is not the slot's any more is waited for and forgotten.
ReapLog(k) ==
    /\ pc = "reap" /\ procs[<<"logger", k>>] = "zombie"
    /\ procs' = [procs EXCEPT ![<<"logger", k>>] = "none"]
    /\ s' = IF s.active /\ s.log_pid = k THEN [s EXCEPT !.log_pid = 0] ELSE s
    /\ UNCHANGED <<starts, pc, phase, held, pipe, written, rest_vars>>

\* kill_main_on_log_death(), and on to the scan or to drain_all_once().  Whether
\* a service that is not `stopping' is STATE_RUNNING, or was told to stop before
\* a scan took the mark back, is left open.
ReapEnd ==
    /\ pc = "reap" /\ \A o \in Owners \ {svc} : procs[o] # "zombie"
    /\ \/ UNCHANGED s
       \/ /\ s.active /\ s.has_log /\ s.log_pid = 0 /\ s.pid # 0 /\ ~s.stopping
          /\ s' = [s EXCEPT !.stopping = TRUE]
    /\ pc' = IF phase = "serve" THEN "scan"
             ELSE IF s.active /\ s.read_fd # 0 THEN "drain" ELSE "settle"
    /\ UNCHANGED <<starts, phase, world_vars, rest_vars>>

\* Whether the directory is there is open: it matters only when a scan looks,
\* and not every pass scans.
NoScan ==
    /\ pc = "scan"
    /\ pc' = "start"
    /\ UNCHANGED <<service_vars, phase, world_vars, rest_vars>>

\* The directory is found: a new service, or `stopping' is cleared.
Found ==
    /\ pc = "scan"
    /\ s' = IF s.active THEN [s EXCEPT !.present = TRUE, !.stopping = FALSE]
            ELSE NewService
    /\ pc' = "start"
    /\ UNCHANGED <<starts, phase, world_vars, rest_vars>>

\* It is not: main and logger are told to go.
Removed ==
    /\ pc = "scan" /\ s.active /\ (s.pid # 0 \/ s.log_pid # 0)
    /\ s' = [s EXCEPT !.present = FALSE, !.stopping = (@ \/ s.pid # 0)]
    /\ pc' = "start"
    /\ UNCHANGED <<starts, phase, world_vars, rest_vars>>

\* They are gone: close_service_fds(), with what is left in the pipe.
Dropped ==
    /\ pc = "scan" /\ s.active /\ s.pid = 0 /\ s.log_pid = 0
    /\ s' = [s EXCEPT !.active = FALSE, !.read_fd = 0, !.log_fd = FALSE]
    /\ held' = WithoutRead(s.read_fd)
    /\ unread' = unread \cup ({s.read_fd} \ {0})
    /\ pc' = "start"
    /\ UNCHANGED <<starts, phase, procs, pipe, written, log_vars>>

-----------------------------------------------------------------------------
(* start_service().                                                        *)

\* The condition of the start loop and of start_service(); dependencies,
\* `down' and `once' are left open (NoStart).
Startable ==
    /\ pc = "start" /\ starts < MaxStarts
    /\ s.active /\ s.present /\ ~s.stopping /\ s.pid = 0
    /\ s.restart_at = "due"

NoStart ==
    /\ pc = "start"
    /\ pc' = "poll"
    /\ UNCHANGED <<service_vars, phase, world_vars, rest_vars>>

\* Whether log/run gets its process; if not, has_log is given up for good.
LoggerOutcomes ==
    IF ~s.has_log THEN {FALSE}
    ELSE IF Faults \cap {"pipe", "fork"} # {} THEN {TRUE, FALSE} ELSE {TRUE}

\* The slot once the old stream is closed and the logger of start k is there
\* or not.
Prepared(k, logged) ==
    [s EXCEPT !.read_fd = 0, !.has_log = logged,
              !.log_pid = IF logged THEN k ELSE @]

StartService ==
    \E logged \in LoggerOutcomes :
        LET k == starts + 1
            r == Prepared(k, logged)
        IN  /\ Startable
            /\ starts' = k
            /\ procs' = [procs EXCEPT
                   ![<<"main", k>>] = "run",
                   ![<<"logger", k>>] = IF logged THEN "run" ELSE @]
            /\ held' = WithoutRead(s.read_fd) \cup LeftOpen(k, logged)
                       \cup MainEnds(k)
                       \cup (IF logged THEN LoggerEnds(k) ELSE {})
            /\ \E a \in IF logged THEN {Account} ELSE open_log(Account) :
                   s' = [r EXCEPT !.pid = k, !.log_fd = a.fd,
                                  !.log_len = a.len,
                                  !.read_fd = IF logged THEN 0 ELSE k]
            /\ unread' = unread \cup (IF logged THEN {k} ELSE {})
            /\ pc' = "poll"
            /\ UNCHANGED <<phase, pipe, written, log_vars>>

\* A pipe or the fork of main fails: the next try is BACKOFF_SHORT away.  With
\* a logger only the fork is left to fail, and the logger finds its pipe at
\* its end.
StartFails ==
    \E logged \in LoggerOutcomes :
        LET k == starts + 1
        IN  /\ Startable
            /\ IF logged THEN "fork" \in Faults
                         ELSE Faults \cap {"pipe", "fork"} # {}
            /\ starts' = k
            /\ procs' = [procs EXCEPT
                   ![<<"logger", k>>] = IF logged THEN "run" ELSE @]
            /\ held' = WithoutRead(s.read_fd) \cup LeftByFailure(k, logged)
                       \cup (IF logged THEN LoggerEnds(k) ELSE {})
            /\ s' = [Prepared(k, logged) EXCEPT !.restart_at = "later"]
            /\ pc' = "poll"
            /\ UNCHANGED <<phase, pipe, written, rest_vars>>

-----------------------------------------------------------------------------
(* poll(), the clients and the streams.                                    *)

\* POLLIN or POLLHUP
Readable(k) == pipe[k] # <<>> \/ Writers(k) = {}

\* poll() reports the stream if it is ready then, and does not fail while it
\* is.  The stream's turn comes after that of the clients.
Streaming == pc' = IF s.active /\ s.read_fd # 0 /\ Readable(s.read_fd)
                   THEN "drain" ELSE "reap"

\* No client, or one that changes nothing here.
NoClient ==
    /\ pc = "poll"
    /\ Streaming
    /\ UNCHANGED <<service_vars, phase, world_vars, rest_vars>>

\* stop, restart and down
Stop ==
    /\ pc = "poll" /\ s.active
    /\ s' = [s EXCEPT !.stopping = TRUE]
    /\ Streaming
    /\ UNCHANGED <<starts, phase, world_vars, rest_vars>>

\* start and up: without a backoff
Start ==
    /\ pc = "poll" /\ s.active
    /\ s' = [s EXCEPT !.stopping = FALSE, !.restart_at = "due"]
    /\ Streaming
    /\ UNCHANGED <<starts, phase, world_vars, rest_vars>>

\* TERM: main() leaves the loop before it comes to the streams; everybody is
\* told to go.
Term ==
    /\ pc = "poll"
    /\ s' = [s EXCEPT !.stopping = (@ \/ (s.active /\ s.pid # 0))]
    /\ phase' = "term"
    /\ pc' = "reap"
    /\ UNCHANGED <<starts, world_vars, rest_vars>>

\* drain_stream() has returned.
Drained == pc' = IF phase = "serve" THEN "reap" ELSE "settle"

\* read() returns what there is, a buffer at most; after a full buffer
\* drain_stream() reads again.
Read ==
    LET k == s.read_fd
        data == SubSeq(pipe[k], 1, Min({Len(pipe[k]), BufSize}))
    IN  /\ pc = "drain" /\ pipe[k] # <<>>
        /\ \E a \in write_log(Account, data) :
               /\ s' = [s EXCEPT !.log_fd = a.fd, !.log_len = a.len]
               /\ file' = a.file
               /\ given_up' = given_up \cup a.lost
        /\ pipe' = [pipe EXCEPT ![k] = SubSeq(@, Len(data) + 1, Len(@))]
        /\ IF Len(data) = BufSize THEN UNCHANGED pc ELSE Drained
        /\ UNCHANGED <<starts, phase, procs, held, written,
                       unread>>

\* EAGAIN
ReadNothing ==
    /\ pc = "drain" /\ ~Readable(s.read_fd)
    /\ Drained
    /\ UNCHANGED <<service_vars, phase, world_vars, rest_vars>>

\* Mutant: end of file is taken for EAGAIN.
ReadEofAsAgain ==
    /\ pc = "drain" /\ pipe[s.read_fd] = <<>> /\ Writers(s.read_fd) = {}
    /\ Drained
    /\ UNCHANGED <<service_vars, phase, world_vars, rest_vars>>

\* End of file: nobody can write into the pipe any more.
ReadEof ==
    /\ pc = "drain" /\ pipe[s.read_fd] = <<>> /\ Writers(s.read_fd) = {}
    /\ held' = WithoutRead(s.read_fd)
    /\ s' = [s EXCEPT !.read_fd = 0]
    /\ Drained
    /\ UNCHANGED <<starts, phase, procs, pipe, written, rest_vars>>

ReadFails ==
    /\ pc = "drain" /\ "read" \in Faults
    /\ held' = WithoutRead(s.read_fd)
    /\ s' = [s EXCEPT !.read_fd = 0]
    /\ unread' = unread \cup {s.read_fd}
    /\ Drained
    /\ UNCHANGED <<starts, phase, procs, pipe, written, log_vars>>

-----------------------------------------------------------------------------
(* The shutdown.                                                           *)

any_open_services ==
    s.active /\ (s.pid # 0 \/ s.read_fd # 0 \/ s.log_pid # 0)

SettleAgain ==
    /\ pc = "settle" /\ any_open_services
    /\ pc' = "reap"
    /\ UNCHANGED <<service_vars, phase, world_vars, rest_vars>>

\* Nothing is open, or the first deadline is reached: KILL, and one more wait.
KillRest ==
    /\ pc = "settle" /\ phase = "term"
    /\ phase' = "kill"
    /\ pc' = "reap"
    /\ UNCHANGED <<service_vars, world_vars, rest_vars>>

\* Nothing is open, or the second is reached: close_service_fds().
CloseAll ==
    /\ pc = "settle" /\ phase = "kill"
    /\ s' = IF s.active THEN [s EXCEPT !.pid = 0, !.log_pid = 0,
                                       !.read_fd = 0, !.log_fd = FALSE]
            ELSE s
    /\ held' = WithoutRead(s.read_fd)
    /\ unread' = unread \cup (IF any_open_services THEN {s.read_fd} \ {0}
                            ELSE {})
    /\ pc' = "done"
    /\ UNCHANGED <<starts, phase, procs, pipe, written, log_vars>>

StreamTerminating == pc = "done" /\ UNCHANGED svars

-----------------------------------------------------------------------------
(* The specification.                                                      *)

Serve ==
    \/ \E k \in Starts : ReapMain(k) \/ ReapLog(k)
    \/ ReapEnd
    \/ NoScan \/ Found \/ Removed \/ Dropped
    \/ NoStart \/ StartService \/ StartFails
    \/ NoClient \/ Stop \/ Start \/ Term
    \/ Read \/ ReadNothing \/ ReadEof \/ ReadFails
    \/ SettleAgain \/ KillRest \/ CloseAll

StreamNext == Serve \/ World \/ StreamTerminating

StreamSpec == StreamInit /\ [][StreamNext]_svars

\* The supervisor is scheduled; a logger reads what it is given and ends at
\* end of file.
FairStreams ==
    /\ StreamSpec
    /\ WF_svars(Serve)
    /\ \A k \in Starts : WF_svars(LoggerReads(k) \/ LoggerEof(k))

-----------------------------------------------------------------------------
(* What a reader of the logs may rely on.                                  *)

\* log_len is the size of the file whenever the file is open, whatever has
\* failed before: rotate_log() is decided by it.
LogLenTrue == s.log_fd => s.log_len = Len(file)

Earlier(b, c) == b[1] < c[1] \/ (b[1] = c[1] /\ b[2] < c[2])

\* The bytes of the file, and after them those still in the pipe, are in the
\* order in which they were written, over restarts, failed writes and the
\* reopening of the file, and none is there twice.
InOrder ==
    LET all == file \o (IF s.read_fd = 0 THEN <<>> ELSE pipe[s.read_fd])
    IN  \A i \in 1..(Len(all) - 1) : Earlier(all[i], all[i + 1])

\* No output is lost in silence.  A byte that main has written into a pipe
\* svc-rs reads is in the file or still in the pipe, or write_log() has given
\* it up.  start_service() closes the old stream without reading it: that loses
\* nothing only because a pass of poll() that drains it lies between the exit
\* and the next start, whatever clients ask for in that pass.
OutputKept ==
    \A k \in (1..starts) \ unread :
        {k} \X (1..written[k]) \subseteq
            ToSet(file) \cup given_up
            \cup (IF s.read_fd = k THEN ToSet(pipe[k]) ELSE {})

\* Over failed starts, restarts, removals and the shutdown, svc-rs has the read
\* end of the stream it reads open and no other end of any pipe.
DescriptorsExact ==
    EndsOf(svc) = IF s.read_fd = 0 THEN {} ELSE {<<svc, s.read_fd, "r">>}

\* A stream is closed once main and its helper are gone, so that it keeps
\* neither a slot of the pollfd array nor the shutdown busy.
EofNoticed ==
    (\E k \in Starts : /\ s.read_fd = k
                       /\ procs[<<"main", k>>] # "run"
                       /\ procs[<<"helper", k>>] # "run")
    ~> (\A k \in Starts : s.read_fd = k =>
                               \/ procs[<<"main", k>>] = "run"
                               \/ procs[<<"helper", k>>] = "run")

\* A restart overwrites log_pid and forgets a logger that still runs; nothing
\* signals it again.  It ends all the same once nobody is left to write to it,
\* because nobody else has the write end of its pipe open.
LoggersEnd ==
    \A k \in Starts :
        (/\ procs[<<"main", k>>] # "run" /\ procs[<<"helper", k>>] # "run"
         /\ procs[<<"logger", k>>] = "run") ~> procs[<<"logger", k>>] # "run"

=============================================================================
