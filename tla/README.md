# svc-rs: a verification development

svc-rs is a process supervisor in about 2700 lines of `no_std` Rust: one thread,
a fixed table of 256 services, one directory per service. This directory holds
TLA+ models of it, TLC configurations that check them on small instances, and
proofs checked by TLAPS. Paths below are relative to `src/`; `main.rs:239` is
line 239 of `src/main.rs`.

Contents: 1 inventory, 2 modules and how they correspond to the code, 3 runs,
4 fairness, 5 proofs, 6 disagreements between documents and code, 7 what is
not modelled, 8 plan.

## 1. Inventory

| component | state | operations | interacts with |
|---|---|---|---|
| main loop (`main.rs:46-237`) | `next_scan`, `reload_needed`, `shutdown` | reap, scan, start loop, poll, two waits of the shutdown | everything below, by calls |
| reaping and restart policy (`main.rs:239-325`) | per service: `pid`, `state`, `restart_at`, `restarts`, `stopping`, `once` | `reap_children` | kernel (`waitpid`), `run_finish`, cascade |
| life cycle, cascade (`service.rs:22-464`) | `SERVICES` | `start_service`, `run_finish`, `stop_transitive_deps`, `stop_all_in_order`, `kill_main_on_log_death` | kernel (`fork`, `kill`) |
| directory scan (`scan.rs`) | `present`, the slots of the table | `scan_services`, `add_service`, `handle_missing_services` | file system, cascade |
| control socket (`ctrl.rs`) | none of its own | one command per connection | table, kernel, `down` and `once` files |
| self-pipe (`signal.rs`) | a pipe, the handlers | `signal_handler`, `drain_signal_pipe` | kernel, every child until it reaches exec |
| streams and service logs (`service.rs:479-595`) | per stream: `read_fd`, `log_fd`, `log_len`, `rotations` | `drain_stream`, `write_log`, `rotate_log`, `open_log` | pipes, files |
| descriptors (`fd.rs`) | `OwnedFd`, `Pipe` | `close_from`, `read_all_nonblock`, `write_all` | kernel |
| supervisor log (`log.rs`), status files (`status.rs`) | a descriptor | append, rename; rewrite | files only |
| environment, users, limits, paths (`user.rs`, `security.rs`, `path.rs`) | byte buffers | parsing, `setrlimit` in the child | files, child |

What is hard. The supervisor is sequential, so there are no data races inside
it; everything difficult comes from what happens between two of its system
calls, and from state that is spread over several fields of a slot.

* Children exit in any order and are seen only in `reap_children`; pids are
  reused; a child is not yet itself between `fork` and `execve`.
* A directory changes between `readdir`, `access` and the start.
* Signals arrive as bytes in a bounded pipe and are acted upon a chunk at a
  time.
* `stopping`, `state`, `manual_start`, `restart_at`, `once` and `auto_start`
  together say what a service is meant to do; commands, scans, exits and the
  cascade each write some of them.
* `fork`, `pipe` and `opendir` fail, and `start_service` has two processes to
  start.
* Clients and check scripts are waited for in blocking mode.

What makes each component correct: a pid in the table is a live child of that
slot, and every main process is in the table (reaping, scan, start); `RUNNING`
means a process nobody is stopping (life cycle); who is marked as stopping has
been told (control, shutdown); a crash stops all transitive dependents and
nobody else (cascade); what was given up stays so and what crashed comes back
(restart policy); a removed directory gives its slot back (scan); the shutdown
reaches everybody and ends. Each place where that could go wrong is in the list
of hazards in `PROJECT.json`.

## 2. Modules

| module | what it is |
|---|---|
| `Supervisor` | the loop, reaping, the life cycle, the scan, the commands, the self-pipe and the shutdown in one specification, since all of them write the same table |
| `SupervisorHistory` | `Supervisor` with two history variables, for properties about what has been asked for |
| `ServiceContract` | the abstract specification: what svc-rs promises about its services, without tables, pids, scans and signals |
| `SupervisorContract` | `Supervisor` implements `ServiceContract`: the refinement mapping |
| `StopLoops` | the loops of `stop_transitive_deps` and `stop_all_in_order` slot by slot, on any table; shows that they do what `Supervisor` takes as one step |
| `Streams` | what one service writes, from the pipe to its log file, and the descriptors that carry it |
| `MCSupervisor`, `MCHistory`, `MCStopLoops` | values for the constants that a `.cfg` cannot spell |
| `SupervisorProofs`, `OwnershipProofs`, `StateProofs`, `CascadeProofs`, `ContractProofs`, `SignalProofs`, `LoopsProofs`, `StreamsProofs` | the theorems |

### Supervisor

State of `Supervisor`:

| variable | code |
|---|---|
| `services` | `SERVICES`; a record per slot without descriptors, text and clock values |
| `stop_deps` | `need_stop_deps` in `reap_children` |
| `reload_needed` | the local of the same name in `main` |
| `unread` | what `readdir` has not returned yet |
| `cursor`, `pc`, `phase` | where the supervisor is: loop index, place, serving or in which wait |
| `procs` | the kernel's children: role, service, and stage `setup` (before exec), `run`, `ending` (sent TERM or KILL), `zombie` |
| `sig_pipe` | TERM and HUP bytes in the self-pipe |
| `run_files`, `down_files`, `once_files` | the files whose presence matters |

The grain. A step of the supervisor is what it does between two points where
the world can influence it: one reaped child (`ReapLog`, `ReapMain`,
`ReapUnknown`, `ReapEnd`, `LogDeath`), one directory entry (`Opendir`,
`FindEntry`, `AddEntry`, `PassEntry`, `Closedir`), one slot of the removal loop
(`KeepService`, `StopMissing`, `DropService`), one slot of the start loop
(`PassSlot`, `PostponeStart`, `StartService`), the reading of the pipe
(`DrainSignalPipe`), one command (`CmdStart` ...), one pass of the shutdown
(`StopAll`, `SettleAgain`, `KillRest`, `CloseAll`). `Environment` steps in
between: children reach exec or exit, signals arrive, directories change.

Abstractions, each of which keeps more behaviours than the code has or drops
only data:

* *Time.* `restart_at` is `due` (0 or now), `later` (some time ahead) or
  `never` (`i64::MAX`). A `later` may be over or not whenever the loop looks; so
  may the next scan and the deadlines of the shutdown. RESTART_WINDOW_S is a
  choice (`long` in `ReapMain`). `restarts` stops counting one above its limit,
  beyond which the code treats all values alike.
* *The cascade* is the least set closed under one step of the propagation
  (`Doomed`), and `stop_all_in_order` the set of those it signals (`StoppedAll`,
  `ShutdownPids`). `StopLoops` shows that the loops come to just that.
* *Exits.* STATE_EXITED and STATE_SIGNALED are one state; no code tells them
  apart. `waitpid` is called without WUNTRACED, so the stopped branch of
  `decode_wait_status` is never taken.
* *Signals to services* that do not end them change nothing here (`Query`).
* *Pids* come from a small set; running out of it is one more way for `fork`
  to fail, which the code has to bear anyway.
* *Names* are values. The 63-byte limit of names is not modelled.
* *Streams* are in a module of their own and the status file in none; an open
  pipe may keep `any_open_services` true, so both ways out of a wait are always
  enabled.

### The contract

A service, for `ServiceContract`, has no process, or one that runs (`alive`), or
one that has been told to go (`leaving`); it may be `barred` from being started.
It is started only when it has no process, is not barred and its hard
dependencies are alive; a shutdown tells all at once and ends all starts.

| of the contract | in the table of `Supervisor` |
|---|---|
| `alive` | the names of slots with `pid > 0` and STATE_RUNNING |
| `leaving` | the names of slots with `pid > 0` and another state |
| `barred` | the names of slots with `restart_at = i64::MAX` |
| `serving` | the main loop has not been left |

No field of the code holds any of these. That they fit together is what has to
be shown: a start must find no process of that *name*, though the code looks at
one *slot*; the cascade must leave each start with its dependencies alive, though
it runs only after exits; nobody may be revived in the shutdown.

### StopLoops

`StopLoops` starts in any table of `Tables` with one of the two loops at its
first slot. `cursor` is the loop index, `at` the loop, `changed` the `changed` of
`stop_transitive_deps` and the `found` of `stop_all_in_order`, `remaining` and
`order` are the arrays of those names (a slot is taken off `order` once it has
been signalled), `sent` the signals in the order of the calls of `kill`. One
action is one turn of a loop: `PassOver` and `StopDependent`
(`service.rs:339-363`), `LeaveOut` and `PutInOrder` (`380-402`), `SignalInOrder`
(`407-419`), `SignalRest` (`420-434`). `NextInPass` is the end of a turn: the
next slot, another pass, or the end.

### Streams

One service, one of its two streams (the other is the same code with another
index), and the part of its slot that decides when a pipe is made, read and
closed.

| variable | code |
|---|---|
| `s` | the slot: `active`, `present`, `stopping`, `has_log`, `pid`, `log_pid`, `restart_at`, and of `streams[0]`: `read_fd`, `log_fd`, `log_len` |
| `starts` | number of pipes made; the number of a start also names its processes |
| `pc`, `phase` | where the main loop is, and in which wait |
| `procs` | main process, logger, and a helper main may leave behind, of each start |
| `held` | who has which end of which pipe open |
| `pipe`, `written` | the bytes in each pipe, and how many were written into it |
| `file`, `given_up` | `log/current.out`; the bytes with which `write_log` returned unwritten |
| `unread` | pipes svc-rs does not read to the end, by what it does |

A byte is a pair of the start that wrote it and its number, so that the order of
the file can be compared with the order of writing. `StartService` and
`StartFails` are `start_service` (the pipe, the logger, the main process, what
the parent closes on each way out); `Read`, `ReadNothing`, `ReadEof` and
`ReadFails` are the turns of the loop of `drain_stream`; `write_log`,
`rotate_log` and `open_log` are operators on an account of the file (descriptor,
length, contents, bytes given up) that yield the set of its outcomes, one for
each way the calls may fail. Writing, reading by loggers, helpers and exits
(`World`) interleave with all of it.

Two things are decided there. What `rotate_log` renames is
`<dir>/current.out`, while the log is `<dir>/log/current.out`; the rename finds
nothing, so that in the model, as in the code, rotating is opening the same file
again. And a backoff does not end between the `waitpid` that sets it and the
reading of the clock by which the same pass of `main` starts services (`Tick`):
it is two seconds or more, counted in whole seconds of the monotonic clock, and
the two readings are separated by one loop over the exits. `OutputKept` needs
it.

## 3. Runs

All bounds are in the `.cfg` files. Pids are symmetric in the safety runs: the
supervisor compares pids and does nothing else with them.

| run | instance | shows |
|---|---|---|
| `cascade` | chain of 3 services, crashes, TERM | `CascadeComplete`, `CascadeMinimal`, `DependentsFollow`: after a crash all transitive dependents are being stopped in the same pass, and only those. Three is the least length at which one pass over the table is not enough |
| `control` | 2 services, one with a logger and depending on the other; start, stop, TERM; forks that fail; no restart allowed | `StoppingIsSignalled`, `LoggersWatched`, `ShutdownReachesAll`, and `KeepsContract`: each step is one of `ServiceContract` or none |
| `directory` | 2 directories for 1 slot, one of which comes and goes, a logger, a finish script, a `once` service, slow exec, failing opendir and readdir; start, stop, restart, signals, check, reload | `TypeOK`, `RunningMeansAlive`, `PidsTracked`, `OneInstance`, `MarksAreSignalled` |
| `progress` | 1 service that comes and goes, slow exec, failing opendir; start, stop, check, down, up, once, TERM; fairness | `GivenUpIsFinal`, `CrashRecovered`, `ShutdownCompletes`, `RemovedIsDropped` |
| `loops` | 4 services (a chain that hangs on a cycle) in every order in a table of 4 slots, each in one of 6 situations, not being there among them; both loops | `CascadeIsLeast`, `EverybodyIsStopped`, `NobodyTwice`, `DependenciesFirst`, `LoopsEnd`, `LoopsShrink` |
| `streams` | 2 starts, 2 bytes, a pipe, a buffer and a log limit of 2 bytes; with a logger until its pipe or fork fails; `pipe`, `fork`, `open`, `write` and `read` fail at any time | `LogLenTrue`, `InOrder`, `OutputKept`, `DescriptorsExact`; `EofNoticed`, `LoggersEnd` |
| `dependents`, `restart`, `stop_final`, `asked`, `term_lost`, `reverse` | the least instance each | the counterexamples of section 6 |

Why the bounds are enough for what the runs ask. No step looks at more than one
slot and, through the dependencies, at the slots it depends on, so two services
cover the interactions of a pair and three those of a chain; a table with fewer
slots than names is the only way for slots to be reused by another service; two
or three pids force their reuse, and with it every failing fork;
`MaxRestarts` of 0 or 1 opens the circuit breaker within a few crashes; a pipe
of one byte is full at once, and `term_lost` has one of two. `directory` leaves
`fork` out of `Faults` because running out of pids already makes it fail;
`control` lets it fail at any time, so that a logger may fail and its service
start. The commands are shared out: those that only mark, signal or fork are in
`directory`, those that write `auto_start`, `once` and the files as well are in
`progress`, where one service is enough for them.

In `loops` four slots hold a chain of three and a cycle that its end hangs on. A
service that is not there leaves its slot empty, so that smaller tables are
among them, and three slots are already enough for a cycle with a service that
hangs on it, and for a table in which one pass in its order does not suffice.
Since the services are placed in every way, a dependency may come before or
after those who depend on it, or be missing. The proofs (section 5) are for
every table. In `streams` two starts are the least in which an old pipe, logger
or helper meets a new one; two bytes are the least that can be swapped, split by
a failing write, or lie on both sides of the limit, of a full pipe and of a full
buffer.

`directory`, `progress` and `asked` set `SlowExec`: a child is then a process of
its own stage before exec. In the other runs `fork` and `exec` are one step. Two
properties need that, `StoppingIsSignalled` and `ShutdownReachesAll`, both of
`control`: with slow children a TERM may be lost before exec (the process group
does not exist yet, or the inherited handler takes it), which is listed as a
hazard and seen in `asked`. What is left of them then is said by two others.
`MarksAreSignalled` (`directory`): a mark is never about a child that the same
step has forked, and who runs with a mark was marked before reaching exec.
`RemovedIsDropped` (`progress`): a directory that is removed for good gives its
slot back, or keeps it with a process that was marked before exec and runs on
(`Untold`). The second case is real: `handle_missing_services` takes the mark for
the signal (`scan.rs:150`), so that nothing but the KILL of the shutdown, or the
operator, ends that process; without `Untold` TLC refutes the property.

Every property has a mutant in `PROJECT.json`: a plausible error in one
definition (a field not reset, a guard dropped, one level of dependents instead
of all) with which TLC refutes it. The mutants are the definitions marked
`mutant`; no specification uses them.

## 4. Fairness

`FairSpec`, used by `progress`, `restart` and `term_lost`, assumes:

* `WF(Supervise)`: the supervisor process is scheduled.
* `WF(Serve)`: a client that has connected writes a command or goes away, and
  `waitpid` on a finished check script returns. The code itself does not
  guarantee it: it reads the client in blocking mode (`main.rs:170`).
* `SF(DrainSignalPipe)`: `poll` is not interrupted for ever when a byte waits.
* `SF(Opendir)`, and `SF` of a start at each slot: time passes, so that a due
  scan (15 s) and a due restart are found due in the end, and `opendir` does
  not fail for ever.
* `SF(KillRest)`, `SF(CloseAll)`: the two deadlines of the shutdown pass.
* `WF(Exec)`, and `WF` of the exit of a child that was sent TERM or KILL or
  runs a check. This is an assumption about the services, not about svc-rs:
  `RemovedIsDropped` needs it, since a removed service is sent TERM once and
  never KILL.

`FairLoopSpec`, used by `loops`, is weak fairness of the loops alone, which wait
for nobody. `FairStreams`, used by `streams`, is `WF(Serve)`, the supervisor
being scheduled, and that a logger reads what it is given and ends at end of
file: without a reader of that kind a pipe never empties, and without the second
nobody but the KILL of the shutdown ends a logger that was forgotten.

No fairness is assumed of services, signals, clients' arrival or directories.

## 5. Proofs

`SupervisorProofs` proves `TypeCorrect == Spec => []TypeOK` for all values of
the constants that meet the named assumptions of `Supervisor`. `TypeOK` is
inductive by itself. The proof has one lemma per part of the next-state
relation (`EnvironmentType`, `ReapType`, `ScanType`, `StartStepType`,
`PollType`, `ServeType`, `ShutdownType`) and one step per action below; the
helpers on records have lemmas of their own (`HaltType`, `AfterExitType`,
`StartType`, ...). Here are also the lemmas on where the supervisor goes
(`ReapCourse`, `ScanCourse`, `StartCourse`, ..., one per part of the next-state
relation): from where to where a step leads and which of the loop's variables it
leaves alone. The later proofs cite them for every invariant that depends on the
place in the loop.

`OwnershipProofs` proves `PidsAreTracked == Spec => []PidsTracked` and
`OnlyOneInstance == Spec => []OneInstance` from one inductive invariant,
`Owned == TypeOK /\ PidsTracked /\ OneInstance`. Neither half is inductive
alone. A reaped pid is taken out of one slot; that it is then in no slot
follows from the agreement of slots and children together with the uniqueness
of names. A main process is started in a slot without one; that none of that
name is left follows from every main process being in the table. Most actions
change neither owners nor owned and need only the lemma `SameOwners`; those
that do (`ReapLog`, `ReapMain`, `ReapUnknown`, `AddEntry`, `DropService`,
`StartService`, `CmdCheck`, `CheckDone`) have a lemma each.

`StateProofs` proves `RunningIsAlive == Spec => []RunningMeansAlive`. The
invariant is about single slots, so the proof is about what the code does to
one: `HaltSound`, `MarkSound`, `ExitSound`, `StartSound`, `EmptySound`. It also
proves `LoggersAreWatched == Spec => []LoggersWatched` from an invariant of the
same kind: outside `reap_children` no running service lacks its logger, because
whoever loses one there is stopped before the pass ends
(`kill_main_on_log_death`), and a service whose logger could not be forked gives
`has_log` up.

`CascadeProofs` proves `CascadeIsComplete` and `CascadeIsMinimal`, the two
action properties of the run `cascade`, for every dependency graph (cyclic
graphs and dependencies on themselves or on names that are not there
included). `DoomedClosed` and `DoomedLackDep` say that `Doomed` is a fixpoint
and the least one; completeness also needs `RunningMeansAlive`, since the code
propagates only to services with a process that are not being stopped already,
and `DepsPending`: `need_stop_deps` does not outlive `reap_children`.

It also proves `CrashesReachDependents`: `DependentsFollow`, which the run
`dependents` refutes for `stop`, holds when services only crash (`CrashesOnly`:
no `stop`, `restart` or `down`, no directory that goes away or is missed by a
failing `readdir`, no logger that could take its service with it). These are the
ways in which the code stops a service without its dependents, and the proof has
a place for each. The invariant is `DepsMet`: either `need_stop_deps` is set, or
whoever is STATE_RUNNING has its dependencies running. A start asks for the
dependencies first; an exit that sets no `need_stop_deps` is one of a service
that was not STATE_RUNNING any more (`RunningMeansAlive`); and the scan finds
every service again (`AllListed`), so that `handle_missing_services` has nobody to
stop.

`ContractProofs` proves `ContractIsKept == Spec => KeepsContract`: the initial
states map to `ContractInit`, and each step of `Supervisor` to a step of the
contract or a stutter (`ContractStep`, with a lemma for each action that does
more than tell services to go). It rests on `LifeInv`: `Owned` and
`RunningMeansAlive` from above, and three facts about the place where the
supervisor is (`PlaceOK`: nothing is scanned, started or served outside the main
loop), about those barred (`BarredOK`: only a service without a process has
`restart_at = i64::MAX`, so that no start and no cascade meets one), and about
the shutdown (`StoppedOK`: after `stop_all_in_order` no slot is STATE_RUNNING).
`OneInstance` is what turns statements about slots into statements about names.

It ends with `GivenUpStaysSo == Spec => GivenUpIsFinal`, from the same
`LifeInv`, with one lemma per part of the next-state relation. What makes it
true of exits is `BarredOK`: `reap_children` writes `restart_at` of a slot with a
process, and such a slot has not been given up.

`SignalProofs` is about marks (`stopping`, `log_stopping`) and the signals they
stand for. A step that sets marks and sends signals is one on single slots:
whoever keeps his pid and is newly marked is among those signalled (`Marked`),
nobody begins to run (`Falls`), and a pid that a fork hands out is in no slot
(`Owned`), so that nobody inherits a mark (`Spared`). So every step but `Exec`
is faithful to the marks (`StepTold`), and three theorems follow.

* `SignalsBehindMarks`: `MarksAreSignalled` holds whether signals come between
  fork and exec or not. The only step by which a child with a mark begins to run
  is its own exec, after a signal that came too early.
* `MarkedIsSignalled`: for `~SlowExec` nobody is before exec (`NoSetup`), so
  `StoppingIsSignalled` always holds.
* `ShutdownIsComplete`: for `~SlowExec` so does `ShutdownReachesAll`. The
  invariant says what the shutdown has done at each of its places: every slot
  with a main process is marked (`AllHalted`), hence signalled; after the KILL
  pass no logger in the table runs (`LoggersKilled`); and nothing is started any
  more (`PlaceOK`), so that `main` returns with no main process running
  (`NobodyLeft`).

`~SlowExec` says that children have reached exec when they are signalled. That
is not a convenience: with `SlowExec` the last two properties are false (one
service, a TERM or a `stop_all_in_order` between its fork and its exec).
`kill(-pid)` before the child's `setsid` finds no group, and a TERM before exec
is taken by the handler the child has inherited; the mark stays in both cases.

`LoopsProofs` is about `StopLoops`, for tables of any size. `LoopTypeCorrect` is
inductive by itself. `CascadeLoopIsLeast` says that when `stop_transitive_deps`
returns, the table is `stop_transitive_deps(entry)` of `Supervisor` and the pids
signalled are those of `Doomed(entry)`. Its invariant has two halves: whoever
has been stopped is in every set closed under the propagation, so that the loop
stops no more than the least; and in a pass that has changed nothing, no slot
behind the cursor lacks a dependency, so that at the end of such a pass what has
been stopped is closed, and no less than the least. `EverybodyIsReached` says
the same of `stop_all_in_order`, `StoppedAll` and `ShutdownPids`: at each moment
the services to be stopped are split into those in the order, those remaining
and those done, and remaining is empty behind the cursor of the last loop.
Together they justify the two places where `Supervisor` takes a loop as a step.

The order of the shutdown has two theorems. `NobodyIsSignalledTwice`: a slot is
in the order once, and no pid is signalled twice, since two slots have no
process in common. `DependenciesComeFirst`: when a service is told to go, the
dependencies it has among those to be stopped have been told before, unless it
is part of a tangle of services that wait for each other. (That is the order of
the code. The README of svc-rs promises the reverse; see section 6.) The
argument is dual to that of the cascade. What never gets into the order is the
greatest set in which each one has a dependency in the set (`Entangled`): such a
set stays out because nobody in it ever becomes ready (`TangleStays`), and there
is nothing else left out because a whole pass has found nobody ready
(`TangleIsLeft`). The order is sorted by dependencies at any moment
(`OrderIsSorted`), and the tangle is signalled behind it (`TangleLast`).

`LoopsComeToAnEnd` is the safety half of `LoopsEnd`. The loops of the code have
no bound: `while changed` and `loop` repeat a pass as long as it has done
something. Each step goes on to the next loop, leaves less to be stopped, ordered
or signalled (`Undone`), takes `changed` back for one more pass, or goes on to
the next slot (`LoopsShrink`). The table is finite, so that this ends; only the
last conclusion is left to TLC.

`TablesAssumption` of `StopLoops` says that the tables hold services of which no
two have a name or a process in common. `TableIsSeparate` proves that the
tables of `Supervisor` are such, from `Owned`, at any time at which either loop
can run.

`StreamsProofs` is about `Streams`, for any number of starts and of bytes and
all sizes of pipe, buffer and log. A step is one of six kinds (`StepKinds`):
quiet, closing the stream, a start that succeeds or fails, a read, or a step of
the service's processes; each invariant is shown for the six kinds.

* `StreamTypeCorrect`, with `Placed`: the stream of a slot is that of its last
  start, an empty slot has none, and `drain_stream` is called only with one.
* `LogLenIsTrue` and the lemmas on the log (`Opened`, `AppendedOutcome`,
  `WriteLogOutcome`): whatever `open` and `write` do, `write_log` appends a part
  of its data and gives up the rest, and `log_len` is the size of an open file.
* `DescriptorsAreExact`: inductive by itself given the types.
* `LogIsInOrder`: a pipe holds the last bytes written into it (`PipesRun`), and
  the file is sorted and holds none of these nor any of a later start
  (`FileRuns`). `InOrder` alone says nothing of the bytes still to be written.
* `OutputIsKept`: a start that has not been has no output (`Fresh`); who reads a
  pipe is svc-rs or its logger (`ReadersAre`), and a logger reads what svc-rs
  leaves to it, or is left over from a failed start and gets nothing
  (`LoggersRead`), so that the bytes of a pipe that svc-rs reads are written while
  it has the read end (`DescriptorsExact`). The heart of it is `DrainedFirst`,
  about the pass between an exit and the next start: whoever may be started at
  once has an empty stream or none. It rests on `MainsAre`: the only main process
  that has not been waited for is the slot's, so that nobody writes meanwhile.
* `PipesCloseBehindThem`: once main and its helper are gone nobody has a write
  end of their pipe. That is the safety half of `EofNoticed` and `LoggersEnd`.

The assumptions are those that `Supervisor` names and every run evaluates:
`None` is no pid and no name, the limits are natural numbers (the table and the
pipe not empty), the sets of names are sets of names. Nothing is assumed about
the graph, the number of services or the commands. `StopLoops` adds
`TablesAssumption` (see above), and `Streams` that its sizes are positive.

Every invariant and every action property that a passing run checks is thus
proved. Only model-checked are the liveness properties (`CrashRecovered`,
`ShutdownCompletes`, `RemovedIsDropped`, `LoopsEnd`, `EofNoticed`,
`LoggersEnd`), since fairness and ENABLED are out of the prover's reach, and the
counterexamples. `StoppingIsSignalled` and `ShutdownReachesAll` are proved, and
checked, for `~SlowExec` only; `DependentsFollow` for `CrashesOnly`.
`RemovedIsDropped` is checked with slow children and excepts the services they
leave `Untold`.

## 6. Documents and code

Six statements of the README of svc-rs are not what the program does. Each
violation run checks the statement as a property and finds a behaviour of the
model, which is a behaviour of the code.

* `dependents`: `stop` on a service does not stop who depends on it
  (`ctrl.rs:195` propagates before the state changes; `main.rs:282` does not
  propagate at the exit of a stopping service). For crashes alone the same
  property holds: `cascade` checks it, and `CrashesReachDependents` proves it.
* `stop_final`: a stopped service is started again when a scan comes before
  its exit (`scan.rs:132` clears `stopping`).
* `restart`: `restart` stops the service and never starts it (`main.rs:290`
  sets `restart_at = i64::MAX`; no later step but `start` and `up` resets it).
* `asked`: the supervisor shuts down without a signal to it, when a child is
  signalled between `fork` and `exec` (`signal.rs:16` runs in the child, whose
  descriptor is the supervisor's pipe).
* `term_lost`: signals are not free of races: `drain_signal_pipe`
  (`signal.rs:63`) returns at the first TERM, INT or HUP of a chunk and drops
  the rest of it. A TERM behind a HUP is lost, and the supervisor serves on.

* `reverse`: services are not stopped in reverse dependency order
  (`README.md:96` and `171`). `stop_all_in_order` (`service.rs:386`) takes a
  service as soon as none of its dependencies remains, and signals in that
  order: a dependency is sent TERM before those who run on it. What the order of
  the code is, `DependenciesFirst` says, and `DependenciesComeFirst` proves.

Further differences met on the way, for which no property is stated:

* `README.md:103` has logs rotate at the limit. The rename names a file that is
  not there (`service.rs:520`), and the log grows (see `Streams` in section 2).
* `README.md:84-89` describes a sliding window and a delay for 20 and more
  restarts. `restarts` is a counter that only a run of more than 60 seconds
  resets; no delay is chosen once it is above 5, so the one for 20 is never used,
  and after `start` the next early crash opens the breaker again at once.
* `README.md:163` has descriptors closed before exec. Service logs are opened
  without O_CLOEXEC (`service.rs:496`), and `finish` and `check` scripts are run
  without `close_from`.
* The two waits of the shutdown have deadlines, which a service that writes fast
  enough defeats: `drain_stream` reads on while it gets full buffers.
* What lies in a pipe is lost when its directory is removed (`scan.rs:163`), and
  so is what a helper of the last run writes after a restart (`service.rs:73`).
* A `stop` by `handle_missing_services` does not rewrite the status file
  (`scan.rs:149-161`), and a reply to `list` is cut at the end of its buffer.

## 7. Not modelled

* *Failures at boot.* `init_signal_pipe` may fail, after which no signal is ever
  read, and so may the creation of the control socket (`main.rs:67-72`). The
  models start with both in place.
* *Exact delays and the window of restarts.* The models have due, later and
  never; which delay follows how many crashes is a table in one `if`.
* *SIGCHLD bytes.* They wake `poll` and take room in the pipe; the pipe of the
  model may be full anyway, and `poll` may return at any time.
* *The second stream*, and streams of several services: they share nothing but
  the pollfd array, which has room for all of them.
* *A fast writer.* `streams` bounds the bytes written, so that `drain_stream`
  comes to an end; the code does not promise it.
* *EAGAIN in services and loggers.* The pipe ends they are given are O_NONBLOCK
  (`fd.rs:55`). What a service does about it is its own affair; in `Streams` a
  logger may end at any time, and nothing gets into a full pipe.
* The supervisor log, status files, path buffers, environment and user parsing
  and resource limits are data and output that no other part reads back. The
  text of commands and replies, and the parsing of `depends`, are data: the
  models start from what was parsed. Build files hold no behaviour.

## 8. Plan

Done: `Supervisor` and its runs; the contract and its refinement; the loops; the
streams; the theorems of section 5, which state every safety property of the
passing runs, and under which condition one of those that the violation runs
refute, `DependentsFollow`, holds. What could still be proved beyond these
properties is what the liveness of the shutdown rests on, as
`PipesCloseBehindThem` and `LoopsShrink` do for the streams and the loops: that
it always has a step nearer to its end.
