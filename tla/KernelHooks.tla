----------------------------- MODULE KernelHooks -----------------------------
(***************************************************************************)
(* The in-kernel programs that measure how long something took: a hook at  *)
(* the start stores an entry under the thread id, a hook at the end reads  *)
(* it, records the difference and deletes it.  Off-CPU dwell, run queue    *)
(* latency, system calls and sampled file I/O all work this way.           *)
(* Against them run the collector, which enables them for an episode and   *)
(* wipes their maps one after another, and which adds and removes targets, *)
(* and the kernel, which gives the id of a dead thread to a new one.       *)
(*                                                                         *)
(* Times are abstracted to what a wrong pair shows: an entry carries the   *)
(* task and the episode that stored it.  A rate limit is a choice between  *)
(* sampling and not.  A program is one step: it runs without preemption,   *)
(* and what has passed its test when a target is removed is taken to store *)
(* its entry before the next system call of the collector.                 *)
(***************************************************************************)
EXTENDS Integers, FiniteSets, Sequences

CONSTANTS
  Tids,         \* thread ids, numbers other than that of the idle task
  Cpus,
  MaxTasks,     \* bound: tasks that bear one id after another
  MaxEpisodes   \* bound: episodes of one session

Idle == 0       \* pid of the idle task

ASSUME HookConstants ==
  /\ Tids \subseteq Nat \ {Idle} /\ IsFiniteSet(Tids)
  /\ IsFiniteSet(Cpus) /\ Cpus # {}
  /\ MaxTasks \in Nat \ {0} /\ MaxEpisodes \in Nat

VARIABLES
  deep,      \* deep_enabled
  links,     \* the programs attached for the episode
  fallback,  \* offcpu_fallback
  stage,     \* how far Enter or Exit has come
  wiped,     \* how many maps of ResetList are wiped
  episode,   \* number of the last episode
  targets,   \* keys of the targets map
  leaving,   \* threads removed from targets whose entries are still to be deleted
  started,   \* started[map][tid]: the entry of a start map
  sampled,   \* keys of offcpu_last_ts
  running,   \* the thread each CPU runs
  doing,     \* state of the task that bears each id
  task,      \* its number
  inside,    \* the calls it is in
  measured   \* the pairs recorded by the last step

control == <<deep, links, fallback, stage, wiped, episode>>
members == <<targets, leaving>>
tasks == <<running, doing, task, inside>>
vars == <<control, members, started, sampled, tasks, measured>>

Calls == {"sys", "file"}
StartMaps == Calls \cup {"offcpu", "runq"}
  \* sys_start and io_start; offcpu_stash and wakeup_ts
None == [task |-> 0, episode |-> 0]

\* The maps with starts among those ResetEpisodeMaps wipes, in its order.
ResetList == <<"file", "runq", "offcpu", "sampled">>
ResetStarts == {ResetList[i] : i \in 1..Len(ResetList)} \ {"sampled"}

SyscallPairs == { {"fentry_sys", "fexit_sys"}, {"on_sys_enter", "on_sys_exit"},
                  {"fentry_sys", "on_sys_enter", "on_sys_exit"} }
OptionalPrograms == {"offcpu_schedule", "on_process_exit"}
FilePrograms == {"file"}   \* the kprobes of vfs_read and vfs_write

TypeOK ==
  /\ deep \in BOOLEAN /\ fallback \in BOOLEAN
  /\ stage \in {"base", "attach", "row", "reset", "open", "exit"}
  /\ wiped \in 0..Len(ResetList) /\ episode \in 0..MaxEpisodes
  /\ targets \subseteq Tids /\ leaving \subseteq Tids /\ sampled \subseteq Tids
  /\ started \in [StartMaps ->
                   [Tids -> [task : 0..MaxTasks, episode : 0..MaxEpisodes]]]
  /\ running \in [Cpus -> Tids \cup {Idle}]
  /\ doing \in [Tids -> {"running", "ready", "blocked", "exiting", "dead"}]
  /\ task \in [Tids -> 1..MaxTasks] /\ inside \in [Tids -> SUBSET Calls]

\* The always-on programs are attached while threads run; no entry exists.
Init ==
  /\ deep = FALSE /\ links = {} /\ fallback = FALSE
  /\ stage = "base" /\ wiped = 0 /\ episode = 0
  /\ targets = {} /\ leaving = {} /\ sampled = {}
  /\ started = [m \in StartMaps |-> [t \in Tids |-> None]]
  /\ running = [c \in Cpus |-> Idle]
  /\ doing \in [Tids -> {"ready", "blocked"}]
  /\ task = [t \in Tids |-> 1] /\ inside = [t \in Tids |-> {}]
  /\ measured = {}

----------------------------------------------------------------------------
\* Entries

\* tid_is_target and deep_mode.
Watched(t) == deep /\ t \in targets

Entry(t) == [task |-> task[t], episode |-> episode]
Stored(maps, t) ==
  [m \in StartMaps |-> IF m \in maps THEN [started[m] EXCEPT ![t] = Entry(t)] ELSE started[m]]
Deleted(maps, t) ==
  [m \in StartMaps |-> IF m \in maps THEN [started[m] EXCEPT ![t] = None] ELSE started[m]]

\* What the completing hooks record for t from its entries in maps.
Pairs(maps, t) ==
  {[map |-> m, tid |-> t, from |-> started[m][t]] : m \in {n \in maps : started[n][t] # None}}

----------------------------------------------------------------------------
\* The scheduler

\* The entries on_switch completes when t is switched in.
Completed(t) == IF t # Idle /\ Watched(t) THEN {"offcpu", "runq"} ELSE {}

\* on_switch's stackless stash for the outgoing thread: only a blocked one, only
\* when offcpu_schedule is unavailable, and only if offcpu_last_ts has its key.
FallbackStash(t, state) == Watched(t) /\ state = "blocked" /\ fallback /\ t \in sampled

\* on_switch: CPU cpu goes from its thread, which is left in state, to next.
Switch(cpu, next, state) ==
  LET prev == running[cpu] IN
  /\ next # prev
  /\ next # Idle => doing[next] = "ready"
  /\ IF prev = Idle THEN state = "ready"
     ELSE state \in (IF doing[prev] = "exiting" THEN {"dead"} ELSE {"ready", "blocked"})
  /\ running' = [running EXCEPT ![cpu] = next]
  /\ doing' = [t \in Tids |-> CASE t = next -> "running"
                                [] t = prev -> state
                                [] OTHER -> doing[t]]
  /\ measured' = IF next = Idle THEN {} ELSE Pairs(Completed(next), next)
  /\ \E stashed \in SUBSET {t \in {prev} \ {Idle} : FallbackStash(t, state)} :
       started' = [m \in StartMaps |->
                    [t \in Tids |-> IF t = next /\ m \in Completed(next) THEN None
                                    ELSE IF t \in stashed /\ m = "offcpu" THEN Entry(t)
                                    ELSE started[m][t]]]
  /\ UNCHANGED <<control, members, sampled, task, inside>>

\* record_wakeup keeps the earliest wakeup that has not been completed.
Wakeup(t) ==
  /\ doing[t] = "blocked"
  /\ doing' = [doing EXCEPT ![t] = "ready"]
  /\ started' = IF Watched(t) /\ started["runq"][t] = None
                THEN Stored({"runq"}, t) ELSE started
  /\ measured' = {}
  /\ UNCHANGED <<control, members, sampled, running, task, inside>>

\* on_wakeup_new: a new task bears the id of one that is dead.
WakeupNew(t) ==
  /\ doing[t] = "dead" /\ task[t] < MaxTasks
  /\ doing' = [doing EXCEPT ![t] = "ready"]
  /\ task' = [task EXCEPT ![t] = @ + 1]
  /\ started' = IF Watched(t) /\ started["runq"][t] = None
                THEN [started EXCEPT !["runq"][t] = [task |-> task[t] + 1, episode |-> episode]]
                ELSE started
  /\ measured' = {}
  /\ UNCHANGED <<control, members, sampled, running, inside>>

\* offcpu_schedule: __schedule is entered by a running thread, whether or not it
\* then switches.  What the rate limit leaves out changes nothing.
Schedule(t) ==
  /\ doing[t] \in {"running", "exiting"} /\ "offcpu_schedule" \in links
  /\ Watched(t)
  /\ started' = Stored({"offcpu"}, t)
  /\ sampled' = sampled \cup {t}
  /\ measured' = {}
  /\ UNCHANGED <<control, members, tasks>>

\* The start maps on_process_exit deletes from.
ExitDeletes == {"runq", "offcpu", "sys", "file"}

\* on_process_exit runs in the dying task, before its last __schedule.
ProcessExit(t) ==
  /\ doing[t] = "running"
  /\ doing' = [doing EXCEPT ![t] = "exiting"]
  /\ inside' = [inside EXCEPT ![t] = {}]
  /\ IF "on_process_exit" \in links
     THEN /\ started' = Deleted(ExitDeletes, t)
          /\ sampled' = sampled \ {t}
     ELSE UNCHANGED <<started, sampled>>
  /\ measured' = {}
  /\ UNCHANGED <<control, members, running, task>>

----------------------------------------------------------------------------
\* Calls of a running thread

\* Whether the entry hooks of a call store a start: the tracepoint pair does not
\* test deep_enabled, and file I/O is sampled.
Stores(call, t) ==
  CASE call = "sys"  -> \/ "fentry_sys" \in links /\ Watched(t)
                        \/ "on_sys_enter" \in links /\ t \in targets
    [] OTHER         -> call \in links /\ Watched(t)
\* Whether its exit hooks look for one.
Completes(call, t) ==
  CASE call = "sys"  -> \/ "fexit_sys" \in links /\ Watched(t)
                        \/ "on_sys_exit" \in links /\ t \in targets
    [] OTHER         -> call \in links /\ Watched(t)

\* fentry_sys or on_sys_enter, iofile_enter.
CallEnter(call, t) ==
  /\ doing[t] = "running" /\ call \notin inside[t]
  /\ call # "sys" => inside[t] = {"sys"}    \* a call within a system call
  /\ call = "sys" => inside[t] = {}
  /\ inside' = [inside EXCEPT ![t] = @ \cup {call}]
  /\ started' \in {IF Stores(call, t) THEN Stored({call}, t) ELSE started}
                    \cup IF call = "file" THEN {started} ELSE {}
  /\ measured' = {}
  /\ UNCHANGED <<control, members, sampled, running, doing, task>>

\* fexit_sys or on_sys_exit with syslat_account, iofile_exit.
CallExit(call, t) ==
  /\ doing[t] = "running" /\ call \in inside[t]
  /\ call = "sys" => inside[t] = {"sys"}
  /\ inside' = [inside EXCEPT ![t] = @ \ {call}]
  /\ IF Completes(call, t)
     THEN measured' = Pairs({call}, t) /\ started' = Deleted({call}, t)
     ELSE measured' = {} /\ UNCHANGED started
  /\ UNCHANGED <<control, members, sampled, running, doing, task>>

----------------------------------------------------------------------------
\* The collector

Control ==
  /\ measured' = {}
  /\ UNCHANGED <<members, tasks>>

\* Enter sets deep_enabled before anything else.
SetDeep ==
  /\ stage = "base" /\ episode < MaxEpisodes
  /\ deep' = TRUE /\ stage' = "attach" /\ episode' = episode + 1
  /\ UNCHANGED <<links, fallback, wiped, started, sampled>> /\ Control

\* AttachDeepLinks and the fallback flag.  Of the programs that RunCollector has not
\* loaded (the connect hooks, the VFS hooks of the first choice) none attaches.
AttachDeepLinks ==
  /\ stage = "attach"
  /\ \E pair \in SyscallPairs, optional \in SUBSET OptionalPrograms :
       /\ links' = links \cup pair \cup optional \cup FilePrograms
       /\ fallback' = ("offcpu_schedule" \notin optional)
  /\ stage' = "row"
  /\ UNCHANGED <<deep, wiped, episode, started, sampled>> /\ Control

\* Neither pair attaches: Enter clears the flag and keeps what it has attached.
AttachFails ==
  /\ stage = "attach"
  /\ \E some \in {{}, {"fentry_sys"}, {"fentry_sys", "on_sys_enter"}} :
       links' = links \cup some
  /\ deep' = FALSE /\ stage' = "base"
  /\ UNCHANGED <<fallback, wiped, episode, started, sampled>> /\ Control

\* OpenDeep succeeds and the reset begins, or it fails and Exit follows.
OpenDeep ==
  /\ stage = "row"
  /\ \/ stage' = "reset" /\ wiped' = 0 /\ UNCHANGED deep
     \/ stage' = "exit" /\ deep' = FALSE /\ UNCHANGED wiped
  /\ UNCHANGED <<links, fallback, episode, started, sampled>> /\ Control

\* Fault: wakeup_ts is left out of the list.
FaultWipes(i) == IF i = 2 THEN {} ELSE {ResetList[i]}
\* The map ResetEpisodeMaps wipes as its i-th.
Wipes(i) == {ResetList[i]}

\* One Wipe of ResetEpisodeMaps.
ResetEpisodeMap ==
  /\ stage = "reset"
  /\ started' = [m \in StartMaps |-> IF m \in Wipes(wiped + 1) THEN [t \in Tids |-> None]
                                                              ELSE started[m]]
  /\ sampled' = IF "sampled" \in Wipes(wiped + 1) THEN {} ELSE sampled
  /\ wiped' = wiped + 1
  /\ stage' = IF wiped + 1 = Len(ResetList) THEN "open" ELSE "reset"
  /\ UNCHANGED <<deep, links, fallback, episode>> /\ Control

\* Exit: the flag first, then the links.
ClearDeep ==
  /\ stage = "open" /\ deep' = FALSE /\ stage' = "exit"
  /\ UNCHANGED <<links, fallback, wiped, episode, started, sampled>> /\ Control
CloseDeepLinks ==
  /\ stage = "exit" /\ links' = {} /\ stage' = "base" /\ wiped' = 0
  /\ UNCHANGED <<deep, fallback, episode, started, sampled>> /\ Control

Join(t) ==
  /\ t \notin targets \cup leaving
  /\ targets' = targets \cup {t} /\ measured' = {}
  /\ UNCHANGED <<control, leaving, started, sampled, tasks>>
\* Leave: RemoveTarget, then ResetTidCounters.
RemoveTarget(t) ==
  /\ t \in targets
  /\ targets' = targets \ {t} /\ leaving' = leaving \cup {t} /\ measured' = {}
  /\ UNCHANGED <<control, started, sampled, tasks>>

\* Fault: sys_start is not among them.
FaultTidDeletes == {"offcpu", "runq", "file"}
\* The start maps ResetTidCounters deletes from.
TidDeletes == {"offcpu", "runq", "sys", "file"}

ResetTidCounters(t) ==
  /\ t \in leaving
  /\ leaving' = leaving \ {t}
  /\ started' = Deleted(TidDeletes, t) /\ sampled' = sampled \ {t} /\ measured' = {}
  /\ UNCHANGED <<control, targets, tasks>>

----------------------------------------------------------------------------

KernelNext ==
  \/ \E c \in Cpus, n \in Tids \cup {Idle}, s \in {"ready", "blocked", "dead"} : Switch(c, n, s)
  \/ \E t \in Tids : Wakeup(t) \/ WakeupNew(t) \/ Schedule(t) \/ ProcessExit(t)
  \/ \E call \in Calls, t \in Tids : CallEnter(call, t) \/ CallExit(call, t)

CollectorNext ==
  \/ SetDeep \/ AttachDeepLinks \/ AttachFails \/ OpenDeep \/ ResetEpisodeMap
  \/ ClearDeep \/ CloseDeepLinks
  \/ \E t \in Tids : Join(t) \/ RemoveTarget(t) \/ ResetTidCounters(t)

Next == KernelNext \/ CollectorNext

Spec == Init /\ [][Next]_vars

----------------------------------------------------------------------------
\* Properties

\* Once ResetEpisodeMaps is over, what is recorded began in this episode, so that
\* no dwell, run queue latency or file access reaches across the time
\* between two episodes; and, if on_process_exit is attached, it began in the same
\* task.  Two exceptions are the code's: sys_start is not among the maps wiped, so
\* a start left by one episode is completed in the next; and a dying task enters
\* __schedule once more after the exit hook has run, where it is sampled again.
MeasuredWithin ==
  [][stage = "open" =>
       \A p \in measured' :
         /\ p.map # "sys" => p.from.episode = episode
         /\ p.map \notin {"sys", "offcpu"} /\ "on_process_exit" \in links
              => p.from.task = task[p.tid]]_vars

\* A thread that is no target any more is forgotten: no start of it is left that
\* could be completed when it, or another thread under its id, becomes a target
\* again ("avoid recorder delta spikes on rejoin/PID reuse", target_selector.cpp:211).
\* While it was a target it may have switched, slept, died and begun anew, and episodes
\* may have begun and ended.
LeaversForgotten ==
  \A t \in Tids \ (targets \cup leaving) :
    t \notin sampled /\ \A m \in StartMaps : started[m][t] = None
=============================================================================
