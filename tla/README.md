# eTrace-Diag: a TLA+ model of the collector

eTrace-Diag watches a Linux host with eBPF programs, asks a model service
whether what it sees is an anomaly, and, when it is, collects deep evidence
for a while and asks a second model for a diagnosis.  This directory holds
TLA+ specifications of its stateful core, TLC configurations that check them
on small instances, and proofs that TLAPS checks.

## 1. The system

One process, the collector (`src/src`), runs one thread: the main loop of
`RunCollector` (`app.cpp`).  Everything concurrent happens around it.

| part | state it keeps | operations | interacts with |
|---|---|---|---|
| main loop, `app.cpp`, `main.cpp` | due times, configuration in force, last host snapshot, recorder interval | one iteration: reload, host snapshot, features, target evaluation, DEEP duties, manual requests, interval | signal handlers set four flags; calls all other parts |
| phase manager, `phase_manager.cpp` | phase, episode ordinal, window, deadline, debounce, indicators | `TickAnomaly`, `TickDeep`, `RequestDeep`, `RequestBase`, `Shutdown` | calls the model client, the deep collector, the writer |
| deep collector, `collect/deep_collector.cpp` | links, profiler fds, ordinal, ring position, baselines | `Enter`, `Tick`, `Finalize`, `Exit` | attaches and wipes in-kernel state; reads the flight recorder |
| in-kernel programs, `bpf/` | hash maps per thread, the flight recorder ring, OOM ring | hooks, a timer or per-CPU sampler that writes the ring | share maps with the collector without locks |
| eBPF manager and map reader, `collect/ebpf_manager.cpp`, `collect/map_reader.cpp` | skeleton, links, scratch buffers | attach, look up, iterate, drain, wipe | kernel |
| target selector, `collect/target_selector.cpp` | history window, hysteresis per process, member threads | `ApplyPinned`, `Probe`, `Evaluate` | writes the kernel's `targets` map |
| output writer, `output/writer.cpp` | database, batch depth, episode ordinal | `Init`, `Write...`, `OpenDeep`, `CloseDeep`, `BeginBatch`, `CommitBatch`, `Close` | the logger's sink writes into it |
| logger, `logging.cpp` | mutex, level, sink | `Log`, `SetSink` | called by everything, the writer included |
| model client, `model/ws_client.cpp`, `model/ws_model_client.cpp` | two connections | `InferAnomaly`, `InferCausal` | blocks the main loop |
| model service, `models/src/alg_models/ws_server.py` | one anomaly session per process | `/anomaly`, `/causal` | its detectors run in worker threads |
| detection, causal, distributed and interactive Python packages | mostly none | algorithms | model service |
| viewer, `tools/viz` | none that is shared | reads the finished database | - |

What makes each part correct, and what is hard to test in it, is the list of
hazards in `PROJECT.json`; in short:

* *phase manager and deep collector*: an episode is opened, bounded in time,
  summarised exactly once and left with everything switched off again, whichever
  step fails and whoever ends it.  Two clocks (the iteration's and the host
  snapshot's) stamp its window.
* *main loop*: nothing a signal asks for is lost; the recorder's interval
  follows the phase; every episode ends.
* *flight recorder*: a reader without locks never takes a half-written record
  for a whole one and loses none.
* *writer and logger*: a failing database neither loses rows silently nor stops
  the collector.
* *target selector*: the kernel records a bounded, stable and non-empty set of
  threads.
* *model client and service*: an answer belongs to the question; the fitted
  detector survives reconnects.

## 2. Modules

| module | models | state |
|---|---|---|
| `DeepCollector` | `DeepCollector::Enter`, `Exit`, `AttachDeepLinks`; `OutputWriter::OpenDeep`, `CloseDeep`, `WriteMeta`, `WriteSummary` | kernel flags, live links, profiler, `active_`, the writer's ordinal, the state of each row of `deep_episodes` |
| `PhaseManager` (extends it) | every public operation of `PhaseManager`, one action each | the fields of the class, three clock readings, the episode `diagnosis.json` describes |
| `EpisodeLog` | nothing in the code: what a reader of the database is promised | attempts, the open episode, the summarised ones |
| `Collector` (extends `PhaseManager`) | the loop of `RunCollector`, one action per step of an iteration; signal handlers and time interleave between any two | step, configuration, due times, interval, signal flags |
| `FlightRecorder` | `rec_commit` in the kernel against `ExtractPre` and `DrainPost`, one memory access per action | the ring, each producer's progress, the reader's loop, the series it has written |
| `OutputWriter` | `BeginBatch`, `CommitBatch`, `Exec`, `Step`, `Close` and the log sink | the transaction, batch depth, rows |
| `TargetSelector` | `Probe`, `ApplyPinned`, `Evaluate` and the reload's second `Probe` | budget, pinned threads, hysteresis per process id, `members_`, the kernel's `targets` map |
| `ModelService` | `InferAnomaly`, `RoundTrip`, `WsClient` against the `/anomaly` handlers of `ws_server.py` | the call in progress, every connection with its queues and its handler, the shared session |
| `KernelHooks` | the scheduler, system call and file hooks of `etrace_common.h` and `etrace_x86.bpf.c` against `Enter`, `ResetEpisodeMaps`, `Exit` and `ResetTidCounters` | the start maps, `targets`, what each thread does, how far the collector has come |
| `IoHooks` | the block request and lock contention hooks | the entry of each request and of the thread's wait |
| `OomRing` | `on_mark_victim` against `DumpOomEvents` | `oom_seq`, the ring, `last_seq`, the rows |
| `MapReader` | `MapSlice::ForEach`, `Wipe` and the per-CPU sum against changes by the kernel | the map, the iteration |
| `ProcessTable` | the iterator program `task_iter` against `ReadProcessTable` | tasks, the pipe, the rows |
| `Session` | `main`, the start and end of `RunCollector`, `ReloadConfig`, `MergeConfig`, `ApplyEnvOverrides`, `Sanitize`, the sysctl | file, environment, configuration in use, what each component was given, what is held |
| `SessionDb` | the primary keys of the database and the times the loop stamps rows with | the clocks and due times, rows stored and refused |
| `Snapshots` | how `HostMetrics`, `NetworkMetrics` and `GpuMetrics` fill a snapshot and `WriteHostRow`, `WriteDeepProc` and `to_json` show it | what a tick has read, the snapshot, the row, the document |
| `PhaseManagerProofs` | theorems about `PhaseManager` | |
| `CollectorProofs` | theorems about `Collector` | |
| `FlightRecorderProofs` | theorems about `FlightRecorder` | |
| `TargetSelectorProofs` | theorems about `TargetSelector` | |
| `ModelServiceProofs` | theorems about `ModelService` | |
| `HooksProofs` | theorems about `KernelHooks` and `IoHooks` | |
| `ReaderProofs` | theorems about `OomRing`, `MapReader`, `ProcessTable`, and the whole of `MCHooks` | |
| `SessionProofs` | theorems about `Session`, `OutputWriter`, `SessionDb`, `Snapshots`, and the whole of `MCSession` | |
| `MCPhaseManager`, `MCCollector`, `MCFlightRecorder`, `MCTargetSelector` | constants for TLC | |
| `MCHooks` | the five modules of hooks and of what reads them, for TLC | which of them is explored |
| `MCSession` | `OutputWriter`, `Session`, `SessionDb`, `Snapshots`, for TLC | which of them is explored |

Operators whose names begin with `Fault` are not part of a specification.  Each
is the operator after it with one plausible bug; substituting it must make the
property its comment names fail.  They document what each property is able to
notice.

### How the models correspond to the code

*DeepCollector.*  An attempt to enter takes the set `ok` of programs the kernel
accepts.  `SyscallLinks` and `VfsLinks` follow the attach loops: a loop stops
at the first refusal and what it attached stays.  `DeepEnter`,
`DeepEnterUncovered` and `DeepEnterNoRow` are the three ways `Enter` can
return.  `deepLinks` is a set: a program attached twice after a leaked link is
one member.

*PhaseManager.*  `now` is the reading the loop passes on, `hostTs` the stamp of
the last host snapshot (the time `TickAnomaly` is given) and `clock` the clock
itself, which `Shutdown` reads.  Between any two calls a reload may happen, so
each operation takes its window and debounce count from a set.
`FinalizeAndExit` is `FinalizeDeep` and `ExitDeep`, which the code always calls
together.  That an UPDATE of an existing row may fail is left to
`OutputWriter`; the insertion of the row may fail here.

*Collector.*  An iteration is `Top`, `Host`, `Feature`, `Deep`, `ReqDeep`,
`ReqBase`, `Sync`.  The overhead table, the target evaluation and
`DeepCollector::Tick` change none of this state.  A blocking model call is time
passing before the next step.  `run_seconds` is a stop signal.

*FlightRecorder.*  A record has three words: `seq`, the time stamp (what the
pre window is cut by) and one for everything else.  The producer's words are
stored in the order of `memcpy`; both copies of the reader follow the same
order, and the first copy matters only for its `seq`.  The timer producer is
the case in which only one of two producers moves.  `SlotFree` bounds the
producers: nobody laps a record that is still being written (32768 records
would have to be committed while one is copied).  The sorting, merging
and decoding after the loop change no record the properties look at.

*OutputWriter.*  Any statement may fail; SQLite then keeps the transaction or
rolls it back (`Failures`), which is why a failed INSERT in a batch can take
earlier rows with it.  `LogLine` is the sink, called with the logger's mutex
held.  Close's failing branch logs before the connection is gone.

*TargetSelector.*  `Evaluate` is one action; its numbered steps are the
operators `Counted` (6, 7), `Left`, `Joined` (8), `Selected` (9) and `Apply`
(9, fallback, 10).  The process table may be any non-empty set of threads at
each evaluation, so processes come, go and return.  Scores only order things,
so each evaluation chooses an order of the processes and, per process, of its
threads; the order in which an `unordered_map` gives the selected processes is
a choice as well.  One evaluation is one unit of time for `min_residency`.
The two nested loops that add threads until the budget is met are stated without
recursion: `DesiredAt` is the set at each point of the loops, `Stages` all of
them, and what the loops end with is the union of those that fit (`Fits`), since
each stage contains the one before.

*ModelService.*  A connection is a record of the collector's end, the
handler's place, two queues and the request in hand.  `Ask`, `Connect`, `Send`,
`Receive` and the ways they fail are `RoundTrip` cut where the collector waits.
A handler is cut at its awaits: `Handle` runs from `receive_text` to the reply
or to the thread of a fit or a scoring; `FitDone`, `FitFails` and `ScoreEnds`
are the thread's end and the reply.  That a connection the collector has given
up still has its handler is the point of the model.  A connection whose both
ends are gone is forgotten, so `MaxConns` bounds the handlers alive at once.
Only the waits for input have a time-out.  `Poll` starts it, and each ping
(`Pinged`, `Pong`) starts it again.  The look-up of the name
(`ws_client.cpp:95`), the sends of the handshake (`:139`), of the question
(`:190`) and of a pong (`:258`) block without a limit: while `stalled`, the
collector may stay in them (`Held`).  `Stalls` turns this on and off at any time.
The comment at `ws_server.py:219` speaks of a session per connection; the code
has one for the process, and so has the model.

*KernelHooks.*  A program is one step, since it runs without preemption.  A time
in a map is replaced by who stored it: the task that bore the thread id, and
the episode.  A measurement is a pair of such an entry and the moment it is
completed, so one that reaches across a reuse of the id or across two episodes
shows.  A rate limit is a choice.  `Enter` is cut at `SetDeep`,
`AttachDeepLinks`, `OpenDeep` and each single wipe, `Exit` at the flag and the
links, and leaving a target at the removal and the deletion of its counters,
because the hooks run on other CPUs between any two.

*IoHooks.*  A time is the use of the request structure, or the lock waited for,
at whose start it was read.  The block layer may issue without an insert,
requeue with one or without, merge silently, and complete in parts.  One
thread's contentions nest, because an interrupt may contend too.

*OomRing.*  The claim of a number and the write of the slot are two steps, and
each lookup of the dump is one.

*MapReader.*  Keys are numbered by bucket.  A key that is gone makes the kernel
begin again at the first, as `bpf_map_get_next_key` promises.  Values are added
byte by byte, as the code does, with a byte of base `Byte`.

*ProcessTable.*  A line is its letter, its task and how `sscanf` fares with it;
the five kinds of task names are those that make a difference.

*Session.*  One field stands for all that are treated alike.  Every acquisition
may fail.  `ReturnEarly` is a return before the loop: the destructor of
`EbpfManager` closes what is in the kernel, but `OutputWriter` has none, so the
database with its WAL and statements, the logger's sink and the sysctl stay as
they are until the process ends.  The file may change, or be half written, at
any time.

*SessionDb.*  A row is what its primary key is made of.  Tables with keys of the
same kind that are written together are one; `deep_series`, the other deep
tables and the host tables keep their own.  Network interfaces and GPUs are such
a pair: at each snapshot `Interfaces` gives every one its own key, except those
whose index (`network_metrics.cpp:184`, when the interface goes between the
listing and `if_nametoindex`) or handle (`gpu_metrics.cpp:229-232`) is not to be
had, which share one.  `HostTick` chooses which are.  `InsertRows` refuses a row whose key
is there, which is what SQLite does with a plain INSERT.

*Snapshots.*  Each group of fields has three lists that the code keeps in three
places: fields and bits as they are read, columns of the INSERT, and fields and
bits as they are bound.  A tick reads any part of the group that its source can
answer in part.

## 3. Runs

| run | what it asks | bounds |
|---|---|---|
| `PhaseEpisodes` | phase, collector and writer stay in step and implement `EpisodeLog`, whatever is refused and whoever ends the episode; the debounce closes a window once and over a quiet stretch | 2 episodes, 3 clock values, windows 1-2, debounce 1-2, both system call pairs and one optional hook |
| `CollectorAuto` | windows are ordered and episodes disjoint without manual requests, if the host is sampled as often as the features are built (the default) | 2 episodes, 6 clock values, two cadences, reloads between them |
| `CollectorLive` | the interval follows the phase, requests are not lost, episodes end, a stop is served | 1 episode, 4 clock values, 2 configurations, all signals |
| `Recorder` | the seqlock rejects foreign records, drains lose nothing unaccounted, the overrun margin protects | 4 slots, 6 records, 2 producers, margin 1 |
| `WriterHangs` | (violated) failures are logged and the collector goes on | 3 rows |
| `Selector` | the recorded set stays within the budget and is never empty, and processes leave only after a run of bad ranks | 3 processes, 4 threads, 4 evaluations, with and without a pinned thread, a reload between two configurations at any time |
| `Model` | answers fit questions, scorings are a stride apart, a fit survives reconnects; calls return, if what the collector sends is taken in the end and the pings cease | 4 questions, 5 clock values, 2 connections, 1 restart |
| `ModelRefit` | (violated) no fit begins while another is going on | 5 questions, 6 clock values, 3 connections |
| `Hooks` | no measurement reaches across tasks, episodes, uses of a request or locks; a thread that is no target any more is forgotten; no kill, key or process that is still there is missed | 1 thread id borne by 2 tasks on 2 CPUs, 2 episodes; 2 requests used twice, 2 locks, 2 waits nested; a ring of 4, dumps of 5, 10 kills; 3 keys on 2 CPUs, wipes of 4 rounds, 3 changes; 3 processes |
| `Session` | loss is reported and only the outermost commit stores; the environment wins over every reload; what runs follows the configuration; everything is released; rows are refused for the known reasons only; a column shows what this tick has read | 5 rows, depth 2; 5 files, 3 environments; 2 names, any of them lost at a snapshot, intervals 2 and 5, clock values 0 to 6, 2 episodes; up to 2 sources of a group missing at a tick, or all |
| `PercpuSum` | (violated) `ForEach` hands over the sum over the CPUs | 2 keys, 2 CPUs, bytes of base 2 |
| `DrainStart` | (violated) a drain covers its interval from the first record on | as `Recorder`, with the timer's one producer |

The bounds are small because the interesting cases need few steps.  Two
episodes show state left from one to the next.  Six records in four slots wrap
the ring and let the producer overwrite what the reader has not reached.  Two
nested batches are what the code ever opens.  Four evaluations are a baseline,
a streak of two and what follows it; two configurations give a budget of three
threads and, with a backlog longer than the ring, of one.  Four questions are a
fit, a scoring, one given up and the next; two connections are one given up whose
handler goes on, and the one in its place.

In `KernelHooks` threads meet only in the maps, under keys of their own, so one
id suffices for what the run checks, and the theorems carry it to any number.
Ten kills lap the ring and the dump's limit twice; the code's dump, too, visits
more than the ring holds.  Three keys and three changes put a key before, at and
after the one an iteration stands at.  The intervals 2 and 5 give features taken
more often than snapshots, less often, and alike; seven clock values cover a
snapshot skipped and the next.

`MCHooks` and `MCSession` join modules that share no variable.  The variable
`part` chooses the one that moves and the others keep one initial state, so that
their states add up and do not multiply.

Deadlock is checked in `Selector`, where a reload is always possible.  In the
other models the collector stops after shutdown, or the clock or the ring meets
its bound.

*Fairness.*  `CollectorSpec` assumes that the loop thread is scheduled
(`WF(Step)`) and that time passes (`WF(Tick)`); nothing is assumed about
signals, anomalies or reloads.  In that model a call of the anomaly or the
causal model is time passing before the next step, so `WF(Step)` also assumes
that these calls return; `DeepEnds` and `StopServed` hold as far as they do.
They need not: a time-out of 0, which `Sanitize` lets through, waits for ever;
the look-up of the name and the blocking sends have no time-out at all
(`ws_client.cpp:95`, `:139`, `:190`, `:258`); and each ping that is answered
starts the wait for the reply afresh (`ws_client.cpp:235-262`).

`ModelService` says when they do.  Fairness is assumed of time (`WF(Tick)`) and of
the collector while it is not held (`WF(~Held /\ Call)`), and nothing is assumed
of the service: a handler may hang for ever.  `CallReturns` then has its two
conditions in its statement: from some time on nothing is stalled, and the pings
cease.  How often pings come is the service's choice: its server sends them at
long intervals by default, longer than the 5 s of `config.h:76`, but with a
longer `anomaly_timeout_ms` the wait for a handler that hangs never runs out.
`Timeout > 0` is an assumption of the module.

### What the violated runs show

* `WriterHangs`: a failed INSERT into `logs` is logged from within the sink.
* `ModelRefit`: `fit_done` is set when the awaited fit has ended.  If the fit
  takes longer than the reply time-out, the collector connects again and the new
  handler begins a second fit on a longer buffer, which the comment of
  `_get_session` says must not happen.  Once a fit has ended, reconnects do
  reuse it: `KeepsTheFit` holds.
* `PercpuSum`: `LookupPercpuSum` and `ForEach` add the CPUs' values as arrays of
  bytes (`map_reader.cpp:44`, `:64`) and drop every carry.
* `DrainStart`: `DrainPost` reads `head`, tries index `head`, which is not written
  yet, and goes on from `head + 1` next time (`deep_collector.cpp:408`), so that
  one record between two drains is in no series.

`NothingElseLost`, in the run `Recorder`, exempts that record and follows all the
others.

### Deviations the models show without a run

Some behaviour departs from what a comment, a name or the schema suggests.  The
models have it as the code has it, and the properties that it touches name it as
an exception.

*Episodes.*
* `Enter` clears `deep_enabled` and returns when `AttachDeepLinks` fails
  (`deep_collector.cpp:112-115`); the links attached so far stay until the next
  `Exit`.  `SyscallLinks` and `VfsLinks` keep a partly attached primary pair
  beside the fallback, against the comment at `deep_collector.cpp:211`.
* An automatic entry starts at the host snapshot's time, taken after the
  iteration's `now`; SIGUSR2 in the same iteration ends the episode at `now`, and
  the causal model abstains on the inverted window.
* With the host sampled less often than the features are built, a new episode
  may start before the end of the last one, because it is stamped with the old
  snapshot; this is why `CollectorAuto` samples both alike.
* An anomaly after the debounce closed the window is an indicator outside it.

*Flight recorder.*
* `WholeUnlessLapped` has its exception because the `seq` of the second copy is
  read before the payload and not again after it.

*Hooks.*
* `sys_start` is not among the maps `ResetEpisodeMaps` wipes, so a system call
  begun in one episode is measured in the next (`MeasuredWithin` exempts it).
* The off-CPU fallback stores a start only for a thread with a key in
  `offcpu_last_ts`, which only the hook it replaces creates
  (`etrace_common.h:422-424`, `deep_collector.cpp:183-184`); `FallbackStash`.
* The connect, accept and round trip hooks are not loaded, so that the owner of
  a socket is never known.

*Readers.*
* A key deleted between `get_next_key` and the lookup ends a `ForEach`
  (`Visit`), so that the keys behind it are not visited, although
  `map_reader.h:63` says that it iterates all entries.  A Wipe ends after 8192
  keys, and three of the maps it is used on may hold 16384; what is left is
  counted to the next episode.  `WholeIteration` speaks of the other iterations.
* A victim whose slot is written after the dump has counted it is not looked for
  again (`passed`).
* A task whose name has a space or a line break has no row of its own; its B and
  C lines go into the row before it, and a second line that begins with B or C
  removes one (`Amended`).
* `ParsePsi` keeps one set of averages for the two lines of a pressure file, so
  that `some` shows those of `full` (`LineOf`).  The INSERT of `host_disk`
  (`writer.cpp:427`) lists `io_ticks_ms` where the writer binds `read_ticks_ms`,
  and has one parameter more than is bound, so that from there on a column holds
  the field of its right neighbour (`DiskGroup`).  A counter of `/proc/stat`,
  `/proc/loadavg`, TCP or UDP that was not read is stored as 0, against
  `metrics.h:13-15`, since these have no mask.  `ShownIffRead` exempts these.
* `softnet_stat` is hexadecimal and parsed as decimal, and
  `/proc/softirqs` is parsed as if it had a line for each CPU; `IFLA_STATS`
  comes after the 64-bit counters and overwrites them.  (These are not in
  `Snapshots`.)

*Session.*
* `config.h:18` says that all fields are reloadable at run time; `adapter`,
  `output.dir` and what `misc` gives at start-up are not used again after it.
* A file that cannot be read at a reload brings back the configuration the
  session began with, not the one in use, and a null brings back the default of
  the struct; numbers lose their high bits before they are clamped; the file's
  `output.dir` replaces the one from the command line in the configuration after
  a reload.
* Features taken more often than snapshots are refused by the primary key of
  `anomaly`; so is the second of two interfaces that went before `if_nametoindex`
  asked for them, or of two GPUs without a handle, at one snapshot, and a flow
  that an iteration under eviction meets twice.
* An early return (`app.cpp:311`, `:328`, `:337`) calls neither `writer.Close()`
  nor `RestoreBpfStats`.  The database stays open with its WAL not merged, against
  `README.md:86` of the repository; `kernel.bpf_stats_enabled` stays on, against
  `docs/architecture.md:68`; and the logger's sink stays set, with the writer it
  points to gone from the stack.  `ReleasedAtEnd` says that nothing else stays.
* A ping that is answered starts the wait for a reply afresh, so `RecvText` may
  block longer than the `timeout_ms` that `ws_client.h:21-22` promises (`Pong`).
* `LossReported` speaks of failures the collector survives.  What a killed process
  had not committed is lost without a word.

## 4. Proofs

Every invariant and every action property that a passing run checks is a theorem
as well, for every value of the constants that the `ASSUME`s of the modules
allow; what the runs check beyond the theorems is liveness.  The bounds
(`MaxHead`, `MaxTime`, `MaxKills` and their like) are constants too, so that a
theorem holds for behaviours of any length.

`PhaseManagerProofs` proves, for all hook lists, windows, debounce counts and
bounds (assumptions `DeepConstants` and `PhaseConstants`):

* `TypeCorrect`: `Spec => []TypeOK`.
* `PhaseAgreement`: `Spec => []CollectorFollowsPhase`.
* `NoLostEpisode`: `Spec => []EpisodesSummarised`.
* `AutomaticWindowOrdered`: without manual requests, `Spec => []WindowOrdered`.
* `Refinement`: `Spec => ImplementsEpisodeLog`.
* `EpisodeNotRetimed`: `Spec => DeadlineFixed`.
* `DebounceSound`: `Spec => ClosedWindowIsQuiet`.

The first three follow from one inductive invariant, `IInv`.  Phase agreement
alone is not inductive: that the row of the open episode is inserted needs that
no row exists for ordinals not yet used, and that the complete pair stays
attached needs that links are only destroyed by `Exit`.  `EnterDeepInv` and
`FinalizeInv` carry the two operations that move everything at once, and
`QuietStepInv` the ones that leave the episode alone.  `AutomaticWindowOrdered`
adds an invariant relating the clocks: the start is a host stamp, and the end
is a later host stamp or a reading of `now` past the deadline, which lies after
the start.  `Refinement` maps the open episode to the writer's ordinal while
the collector is active.  `EpisodeNotRetimed` needs only which operation is
possible in which phase; `DebounceSound` adds `QuietInv`, that the newest anomaly
is no later than the snapshot in force and than the first quiet result after it.

`ModelServiceProofs` proves, for all time-outs, strides, warm-ups and bounds
(assumption `ServiceConstants`):

* `TypeCorrect`: `Spec => []TypeOK`.
* `AnswersMatch`: `Spec => []AnswerIsForQuestion`.
* `ScoringsApart`: `Spec => []ScoresApart`.
* `FitKept`: `Spec => KeepsTheFit`.

That answers match follows from where a question can be.  `Carried` says that
the open connection is empty between calls and carries at most the question in
hand during one (on its way, in a handler, or answered); `Abandoned`, that no
reply is left on any other; `CallState`, that nothing has been answered while a
call is in progress.  None is inductive alone: a reply is put on a connection
by a handler, and only `Carried` knows which question that handler read.  The
other half is `ScoresNoted`: every scoring since the last fit lies at or before
`lastScore`, which the next one must follow by a stride.  `OneConnInv` is the
lemma the handlers' steps share: a step that sets one connection keeps the
invariant if what it sets is in flight.  Facts about short sequences come from
`SequenceTheorems`.

`HooksProofs` proves, for all threads, CPUs, requests, locks and bounds
(assumptions `HookConstants` and `IoConstants`):

* `KernelTypeCorrect`: `Spec => []TypeOK`.
* `Forgotten`: `Spec => []LeaversForgotten`.
* `MeasurementsWithin`: `Spec => MeasuredWithin`.
* `Charges`: `IoSpec => []ChargesMatch`.

`MeasuredWithin` speaks of an open episode, when all maps are wiped; what is
inductive is `WipedClean`, that each map is clean from its own wipe on, although
hooks go on storing into it: an entry is of this episode and, if exits are
watched, of the task that bears the id and is not dying.  `KernelStepClean` is
what the hooks' steps share; `WakeupNewInv`, where an id gets a new task, needs
that a dead task has left no entry.  `MeasuredFrom` says that what is recorded
was in the map before the step.  `LeaversForgotten` is inductive with the types:
`NoneStored`, that a step stores nothing for a thread outside `targets`, is what
`ForgottenStep` asks of each step that leaves the target set alone.
`ChargesMatch` follows from `EntriesCurrent`: the entry of an issued request
carries an issue of its use, and the entry of the thread's wait is of its
innermost contention.

`CollectorProofs` proves, for all configurations (`ConfigsAssumption`) and on
top of the assumptions of `PhaseManager`:

* `LoopDrivesPhases`: `CollectorSpec => Spec`, where `Spec` is that of
  `PhaseManager`: the loop calls it only as its specification allows.  All
  theorems above hold in the loop; `LoopKeepsLog` and `LoopWindowOrdered` state
  two of them.
* `CollectorTypeCorrect`, `IntervalSynchronised` (`IntervalFollowsPhase`),
  `RequestsServed` (`RequestsNotLost`).
* `NoOverlap`: if all configurations sample the host as often as they build
  features (`InLockstep`) and nobody sends signals for an episode
  (`~ManualRequests`), `CollectorSpec => []EpisodesDisjoint`.

`LoopInv` joins the invariant of `PhaseManager` to the two invariants of the
loop.  `NoOverlap` has two assumptions because the property is false without
them (see the deviations above); both are what `EpisodesDisjoint` is checked
under.  Its strengthening, `DisjointInv`, says that the due times of snapshots
and features agree between iterations (`CadenceInv`), so that an anomaly is
judged on a snapshot of its own iteration, and that every episode ended before
the reading that iteration began with (`EndsInv`).

`FlightRecorderProofs` proves, for any number of producers, ring, margin and
window (`RecorderConstants`):

* `RecorderTypeCorrect`: `Spec => []TypeOK`.
* `SeqlockSound`: `Spec => []WholeUnlessLapped`.
* `DrainsComplete`: `Spec => []NothingElseLost`.
* `MarginSuffices`: `Spec => []SlackProtects`.

The argument about the ring is `RingInv`: producers hold different indices among
the last `Cap` (`ClaimInv`, which is where the guard `SlotFree` is used), what is
in the slot of each at each of its stages (`WritingInv`), no slot shows an index
that nobody has claimed (`SeqInv`), and a complete record is in its slot until
the slot is claimed again (`CompleteInv`).  That two indices less than `Cap`
apart have different slots (`SlotsDiffer`) is all the arithmetic it needs.
`CopyInv` says what the reader's half-made copy is worth, `EpisodeInv` and
`DrainInv` which indices are accounted for at each point of a drain.

`TargetSelectorProofs` proves, for all processes, threads, tables, rankings and
configurations that `Sanitize` lets through (`SelectorConstants`):

* `SelectorTypeCorrect`: `Spec => []TypeOK`.
* `BudgetKept`: `Spec => []BudgetRespected`.
* `AlwaysRecording`: `Spec => []RecorderNeverEmpty`.
* `LeavingIsEarned`: `Spec => LeaveNeedsHold`.

Beside the properties themselves `IInv` has two parts: the map and `members_`
agree (`MapFollows`), without which the difference `Evaluate` applies would not
give the set it selected, and a streak is no longer than the run of bad ranks it
counts (`StreakInv`).  The budget rests on a fact about chains of finite sets
(the union of a chain of sets of at most n elements has at most n), and that on
the least-number principle of `WellFoundedInduction`.

`SessionProofs` proves, for all files and environments whose settings have their
fields' types (`SessionConstants`), and all bounds (`WriterConstants`,
`DbConstants`, `SnapshotConstants`):

* `EnvironmentRules` (`EnvironmentKept`), `ReloadReaches`
  (`ComponentsFollowConfig`), `EverythingReleased` (`ReleasedAtEnd`),
  `SessionTypeCorrect`, of `SessionSpec`.
* `NothingLostInSilence` (`LossReported`) and `OnlyOutermostCommits`
  (`OutermostCommits`), of `Spec`, that of `OutputWriter`.
* `RefusalsKnown` (`RefusalsExplained`) and `DbTypeCorrect`, of `DbSpec`.
* `ColumnsOwn` (`ShownIffRead`), of `SnapshotsSpec`.
* `PartsOfSession`: a behaviour of the run `Session` is one of each of the four;
  `WholeTypeCorrect`: `MCSpec => []MCTypeOK`.

For the configuration the invariant is that the configuration in use `Follows`
the environment: it is the sanitised form of what the environment names,
whatever the file held.  `HoldingsInv` gives what is held at each step of
`main`, from which the release follows.  For the writer it is `Sound`: each row
waits, is stored or is lost, and has a number below the next; a transaction
outside any batch has been reported (`OpenReported`).  For the database,
`RowBehind` says of each stored row that it lies behind the clock its kind is
stamped with, so that the next row of that kind is new.  A feature row is the
exception: it bears the time of the last snapshot, and a second one under the
same time is due at the earliest the features' interval after the snapshot,
and before the next snapshot is due, which is the host's interval after it.  So
a refusal means that the features' interval is the shorter one.  `TimeBounded` is
only about the bound `MaxTime`.  `ColumnsOwn` shows, per kind of group, that
the three lists agree at every position; `NamedOnce`, that no field is listed
twice, makes a bit stand for one field.

`ReaderProofs` proves, for any ring and dump limit not below it
(`OomConstants`), any keys, CPUs and rounds (`ReaderConstants`) and any tasks
(`TableConstants`):

* `NoKillMissed`: `OomSpec => []NewestKillsKept`.
* `IterationWhole`: `ReaderSpec => []WholeIteration`.
* `OwnRow`: `TableSpec => []RowsWhole`.
* `PartsOfHooks` and `HooksTypeCorrect`, as for `MCSession`.

A dump looks at more numbers than the ring has slots, which is why it meets
every slot (`EverySlotMet`); `OomInv` says that a kill that is still in the ring
is in the table or in a slot the dump has yet to visit.  The assumption that the
limit is not below the ring's size holds of the code: 64 slots and a limit of
1000.  `ReaderInv` relates the cursor of an iteration
to what it has handed over or deleted: what lies up to the cursor was visited
once, and what remains lies beyond it, as long as no deletion makes the kernel
begin again.  `TableInv` says how the rows look after n lines of a task: pids
ascend, only the last row changes, and the rows of earlier tasks are complete,
unless a name spoils them.

Liveness (`DeepEnds`, `StopServed`, `CallReturns`) is only model-checked, since
the provers do not reason about fairness.  The properties of the violated runs
are false, and no theorem is about them.  No theorem has an assumption on the
behaviour besides the two of `NoOverlap` and `~ManualRequests` of the ordering of
windows.

## 5. Not modelled, and the plan

Not modelled because TLC or a specification would show nothing: the numerical
detectors and causal algorithms, the wording of the files of `/proc` and of JSON,
the model API and its command line, the data conversions of the Python package,
the viewer, scripts and vendored code, and `etrace.bpf.c`, an earlier copy of
`etrace_common.h` that the build does not compile.  The distributed coordinator
keeps a list of messages and sorts it; it shares nothing with the collector.

Left out of modelled parts: the network hooks, the profiler, the page fault
counters and the accounting of slices on a CPU in `on_switch`; the merging of a tick's per-CPU records
(`MergePerCpu`) and `BuildEvidence`; the baselines that the deep dumps subtract;
the scores of the target selector and the counters they come from; the `/causal`
endpoint; the symboliser and the statistics of BPF programs.

Simplified where they are modelled:

* uptime is taken to exceed the pre window, so the window's start is not below
  time 0;
* model replies that cannot be parsed count as quiet, as in the code, and a
  continuation frame, which `RecvText` takes for an empty reply, is one of them;
* a frame arrives whole; the code starts the time-out again for each part of one,
  as it does for a ping, so a peer that sends a byte at a time can hold the
  collector as one that pings does;
* `ScoresApart` begins anew with each fit, since overlapping fits set
  `last_score_ts_ns` back;
* in `KernelHooks` one file call lies within one system call, and a thread is
  moved between CPUs only by `Switch`;
* a hook is one step there: one that has tested `targets` and then stores after
  `ResetTidCounters` has deleted, which nothing in the code excludes, is left out,
  so `LeaversForgotten` holds up to that window;
* `Wakeup` there is of a blocked task only;
* in `IoHooks` an entry's value before `issue_ts` is set is one value, `Unset`,
  where the kernel's stack may hold any;
* in `SessionDb` every reading of the clock is later than the one before, and the
  intervals of the overhead and of the process dumps are the host's.

What is left, in this order:

1. Proofs of what the next three add, in the modules of proofs there are.
2. `SampleMerge`: a tick's per-CPU records split by a drain, as a part of
   `FlightRecorder`.
3. `DeepDumps`: cumulative counters, their baselines, and which are deltas.
4. `NetHooks`: the socket and drop hooks and the LRU maps behind them.
