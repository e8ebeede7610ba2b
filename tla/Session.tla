------------------------------ MODULE Session ------------------------------
(***************************************************************************)
(* A session of the collector from main() to its return: how the           *)
(* configuration is put together, which component takes what from it and   *)
(* when, what a reload changes, and in which order things are acquired and *)
(* released, the early returns included.                                   *)
(*                                                                         *)
(* One field stands for all that are treated alike: "rate" for a number    *)
(* that is clamped and pushed to the kernel, "max" and "min" for a number  *)
(* that bounds another (max_targets and min_targets, enter_rank and        *)
(* leave_rank), "gpu" for gpu_source, "adapter" for model.*, "dir" for     *)
(* output.dir, "stats" for what misc gives at start-up.                    *)
(***************************************************************************)
EXTENDS Integers, FiniteSets

CONSTANTS
  Files,       \* contents the file may have: settings, Malformed or Absent
  Environs,    \* environments: settings
  OutputDirs,  \* arguments of --output-dir, "" for none
  Width,       \* 2^32: what a 32-bit field can hold
  Malformed,   \* contents that are not JSON, or have a value of the wrong type
  Absent,
  Null         \* a JSON null, which a merge patch takes as a removal

VARIABLES
  file,     \* what is in the configuration file now
  environ, cliDir,
  pc,       \* where main and RunCollector are
  sig,      \* signals set and not consumed
  initial,  \* the configuration main hands over
  config,   \* cfg of RunCollector
  used,     \* what each component was given
  held,     \* what is acquired and not released
  found,    \* kernel.bpf_stats_enabled before the session
  sysctl,   \* what it is now
  prev      \* bpf_stats_prev

sessionVars == <<file, environ, cliDir, pc, sig, initial, config, used, held, found, sysctl, prev>>

Unread == ""   \* a previous value that is not known

Fields == {"rate", "max", "min", "gpu", "adapter", "dir", "stats"}
Numbers == {"rate", "max", "min"}

WellTyped(f, v) == (f \in Numbers => v \in Int) /\ (f = "stats" => v \in BOOLEAN)

\* A value of the wrong type makes a file malformed; an environment has no null.
ASSUME SessionConstants ==
  /\ Width \in Nat \ {0}
  /\ \A s \in Environs \cup (Files \ {Malformed, Absent}) : DOMAIN s \subseteq Fields
  /\ \A s \in Environs : \A f \in DOMAIN s : WellTyped(f, s[f])
  /\ \A s \in Files \ {Malformed, Absent} : \A f \in DOMAIN s :
       s[f] = Null \/ WellTyped(f, s[f])

\* The initialisers of the structs; ranges, those of max_targets also for min.
Blank == [rate |-> 1, max |-> 2, min |-> 1, gpu |-> "auto", adapter |-> "ws", dir |-> "",
          stats |-> TRUE]
Lowest == 1
Highest == 2
DefaultConfig == [Blank EXCEPT !.dir = "out"]

\* from_json and the setters of ApplyEnvOverrides keep the low bits of a number.
Narrow(f, v) == IF f \in Numbers THEN v % Width ELSE v

\* MergeConfig: what the file does not have keeps base's value, and a null takes
\* that of the struct.
MergeConfig(base, s) ==
  [f \in Fields |-> IF f \notin DOMAIN s THEN base[f]
                    ELSE IF s[f] = Null THEN Blank[f] ELSE Narrow(f, s[f])]

ApplyEnvOverrides(c) ==
  [f \in Fields |-> IF f \in DOMAIN environ THEN Narrow(f, environ[f]) ELSE c[f]]

Clamp(v, lo, hi) == IF v < lo THEN lo ELSE IF v > hi THEN hi ELSE v

Sanitize(c) ==
  LET max == Clamp(c.max, Lowest, Highest) IN
  [c EXCEPT !.rate = Clamp(@, Lowest, Highest), !.max = max, !.min = Clamp(@, Lowest, max),
            !.gpu = IF @ \in {"auto", "off", "nvml", "drm"} THEN @ ELSE "auto",
            !.adapter = IF @ \in {"ws", "onnx"} THEN @ ELSE "ws",
            !.dir = IF @ = "" THEN "out" ELSE @]

Sane(c) ==
  /\ c.rate \in Lowest..Highest /\ c.max \in Lowest..Highest /\ c.min \in Lowest..c.max
  /\ c.gpu \in {"auto", "off", "nvml", "drm"} /\ c.adapter \in {"ws", "onnx"} /\ c.dir # ""
  /\ c.stats \in BOOLEAN

\* Fault: the file is merged last.
FaultReloadConfig(base) ==
  Sanitize(IF file \in {Malformed, Absent} THEN ApplyEnvOverrides(base)
           ELSE MergeConfig(ApplyEnvOverrides(base), file))
\* base is what the session began with, so that a file that cannot be read brings
\* that back, and not what is in use.  --output-dir is not applied again.
ReloadConfig(base) ==
  Sanitize(ApplyEnvOverrides(IF file \in {Malformed, Absent} THEN base
                             ELSE MergeConfig(base, file)))

Unused == [rate |-> 0, budget |-> <<0, 0>>, gpu |-> "off", adapter |-> "", dir |-> "", stats |-> FALSE]

SessionTypeOK ==
  /\ file \in Files /\ environ \in Environs /\ cliDir \in OutputDirs
  /\ pc \in {"main", "writer", "stats", "open", "load", "recorder", "probe", "loop",
             "shutdown", "release", "returned", "over"}
  /\ sig \subseteq {"reload", "stop"}
  /\ pc # "main" => Sane(initial) /\ Sane(config)
  /\ held \subseteq {"writer", "sink", "skeleton", "links", "recorder", "gpu", "phase"}
  /\ found \in {"0", "1"} /\ sysctl \in {"0", "1"} /\ prev \in {"0", "1", Unread}

SessionInit ==
  /\ file \in Files /\ environ \in Environs /\ cliDir \in OutputDirs
  /\ pc = "main" /\ sig = {} /\ held = {}
  /\ initial = DefaultConfig /\ config = DefaultConfig /\ used = Unused
  /\ found \in {"0", "1"} /\ sysctl = found /\ prev = Unread

----------------------------------------------------------------------------
\* The outside world

\* The file is rewritten, and may be seen half written.
EditFile ==
  /\ \E f \in Files \ {file} : file' = f
  /\ UNCHANGED <<environ, cliDir, pc, sig, initial, config, used, held, found, sysctl, prev>>

\* A signal once main has installed the handlers.
Signal ==
  /\ pc \notin {"main", "returned", "over"}
  /\ \E s \in {"reload", "stop"} \ sig : sig' = sig \cup {s}
  /\ UNCHANGED <<file, environ, cliDir, pc, initial, config, used, held, found, sysctl, prev>>

----------------------------------------------------------------------------
\* main

World == UNCHANGED <<file, environ, cliDir, found>>

\* Help, a wrong option, a file that cannot be used, --list-categories.
MainEnds ==
  /\ pc = "main" /\ pc' = "over"
  /\ UNCHANGED <<sig, initial, config, used, held, sysctl, prev>> /\ World

MainConfigures ==
  /\ pc = "main" /\ file \notin {Malformed, Absent}
  /\ LET read == ApplyEnvOverrides(MergeConfig(DefaultConfig, file))
         named == IF cliDir = "" THEN read ELSE [read EXCEPT !.dir = cliDir] IN
     initial' = Sanitize(named) /\ config' = Sanitize(named)
  /\ pc' = "writer"
  /\ UNCHANGED <<sig, used, held, sysctl, prev>> /\ World

----------------------------------------------------------------------------
\* RunCollector before its loop

RunVars == <<initial, config, sig>>

\* A return before the loop: the destructor of EbpfManager closes what the kernel
\* holds.  OutputWriter has none, and nothing calls its Close: the database stays
\* open, with its WAL and its statements, the sink stays with the logger, and the
\* sysctl as it is.  (An Init that fails has closed the database itself.)
ReturnEarly ==
  /\ pc' = "returned" /\ held' = held \cap {"writer", "sink"}
  /\ UNCHANGED <<used, sysctl, prev>>

WriterInit ==
  /\ pc = "writer"
  /\ \/ /\ pc' = "stats" /\ held' = held \cup {"writer", "sink"}
        /\ used' = [used EXCEPT !.dir = initial.dir]
        /\ UNCHANGED <<sysctl, prev>>
     \/ ReturnEarly
  /\ UNCHANGED RunVars /\ World

\* EnableBpfStats: the value may be unreadable, or may not be writable.
EnableBpfStats ==
  /\ pc = "stats" /\ pc' = "open"
  /\ \/ /\ config.stats /\ sysctl' \in {"1", sysctl} /\ prev' \in {sysctl, Unread}
        /\ used' = [used EXCEPT !.stats = TRUE]
     \/ UNCHANGED <<used, sysctl>> /\ prev' = Unread
  /\ UNCHANGED held /\ UNCHANGED RunVars /\ World

\* Open, and the optional programs are not to be loaded.
Open ==
  /\ pc = "open"
  /\ \/ pc' = "load" /\ held' = held \cup {"skeleton"} /\ UNCHANGED <<used, sysctl, prev>>
     \/ ReturnEarly
  /\ UNCHANGED RunVars /\ World

\* Load fails in the kernel, by the size of a recorder entry, or when one of the
\* always-on programs is not attached; each time everything is closed.
Load ==
  /\ pc = "load"
  /\ \/ pc' = "recorder" /\ held' = held \cup {"links"} /\ UNCHANGED <<used, sysctl, prev>>
     \/ ReturnEarly
  /\ UNCHANGED RunVars /\ World

\* WriteSampleRateCfg and StartSnapshotter, whose samplers are opened on every
\* possible CPU or not at all.
StartSnapshotter ==
  /\ pc = "recorder"
  /\ \/ /\ pc' = "probe" /\ held' = held \cup {"recorder"}
        /\ used' = [used EXCEPT !.rate = config.rate] /\ UNCHANGED <<sysctl, prev>>
     \/ ReturnEarly
  /\ UNCHANGED RunVars /\ World

\* gpu.Init, selector.Probe, MakeModelClient and the phase manager.
Construct ==
  /\ pc = "probe" /\ pc' = "loop"
  /\ held' = held \cup {"gpu", "phase"}
  /\ used' = [used EXCEPT !.gpu = config.gpu, !.budget = <<config.min, config.max>>,
                          !.adapter = config.adapter]
  /\ UNCHANGED <<sysctl, prev>> /\ UNCHANGED RunVars /\ World

----------------------------------------------------------------------------
\* The loop and the end

\* Fault: the source is compared after cfg was assigned, and never differs.
FaultGpuAfter(old, new) == used.gpu
\* The source the GPU metrics are initialised from after a reload.
GpuAfter(old, new) == IF new # old THEN new ELSE used.gpu

Reload ==
  /\ pc = "loop" /\ "reload" \in sig
  /\ sig' = sig \ {"reload"}
  /\ config' = ReloadConfig(initial)
  /\ used' = [used EXCEPT !.rate = config'.rate, !.gpu = GpuAfter(config.gpu, config'.gpu),
                          !.budget = <<config'.min, config'.max>>]
  /\ UNCHANGED <<pc, initial, held, sysctl, prev>> /\ World

\* A stop request or the end of --run-seconds, before a reload is looked at; then
\* phase.Shutdown ends an episode.
LeaveLoop ==
  /\ pc = "loop" /\ pc' = "shutdown"
  /\ UNCHANGED <<sig, initial, config, used, held, sysctl, prev>> /\ World
Shutdown ==
  /\ pc = "shutdown" /\ pc' = "release" /\ held' = held \ {"phase"}
  /\ UNCHANGED <<sig, initial, config, used, sysctl, prev>> /\ World

\* Fault: a value that was not known is taken for off.
FaultRestored == IF prev = Unread THEN "0" ELSE prev
\* RestoreBpfStats
Restored == IF prev = Unread THEN sysctl ELSE prev

\* StopSnapshotter, gpu.Close, ebpf.Close, writer.Close, RestoreBpfStats.
Release ==
  /\ pc = "release"
  /\ \/ "recorder" \in held /\ held' = held \ {"recorder"} /\ UNCHANGED <<pc, sysctl>>
     \/ /\ "recorder" \notin held /\ "gpu" \in held
        /\ held' = held \ {"gpu"} /\ UNCHANGED <<pc, sysctl>>
     \/ /\ "gpu" \notin held /\ "skeleton" \in held
        /\ held' = held \ {"skeleton", "links"} /\ UNCHANGED <<pc, sysctl>>
     \/ /\ "skeleton" \notin held /\ "writer" \in held
        /\ held' = held \ {"writer"} /\ UNCHANGED <<pc, sysctl>>
     \/ /\ "writer" \notin held /\ pc' = "over"
        /\ sysctl' = Restored /\ UNCHANGED held
  /\ UNCHANGED <<sig, initial, config, used, prev>> /\ World

SessionNext ==
  \/ EditFile \/ Signal
  \/ MainEnds \/ MainConfigures
  \/ WriterInit \/ EnableBpfStats \/ Open \/ Load \/ StartSnapshotter \/ Construct
  \/ Reload \/ LeaveLoop \/ Shutdown \/ Release

SessionSpec == SessionInit /\ [][SessionNext]_sessionVars

----------------------------------------------------------------------------
\* Properties

\* What the environment sets, the file never changes, at the start or by any number
\* of reloads, whether it has the field, has it as null, or cannot be read.  Two
\* exceptions: a lower bound is held below its upper one all the same, and a
\* directory named on the command line goes before that of the environment until
\* the first reload, when nothing uses it any more.
EnvironmentKept ==
  pc \in {"loop", "shutdown", "release"} =>
    /\ \A f \in (DOMAIN environ) \ {"min", "dir"} : config[f] = initial[f]
    /\ used.dir = initial.dir

\* What runs has been given what the configuration in use says, and that is within
\* its ranges: the kernel's sampling rates, the source of the GPU metrics and the
\* bounds of the thread budget follow every reload.
ComponentsFollowConfig ==
  pc = "loop" =>
    /\ Sane(config)
    /\ used.rate = config.rate /\ used.gpu = config.gpu
    /\ used.budget = <<config.min, config.max>> /\ used.budget[1] <= used.budget[2]

\* After the loop everything is released but the logger's sink, and the sysctl is as
\* it was found, or still on where its value could not be read; an early return
\* gives back what the kernel holds.  As long as one of these is held, what it logs
\* has a database to go to, and a phase manager, whose Shutdown writes and reads
\* maps, has all that it uses.
ReleasedAtEnd ==
  /\ pc = "returned" => held \subseteq {"writer", "sink"}
  /\ pc = "over" => held \subseteq {"sink"}
  /\ pc = "over" => sysctl = found \/ (prev = Unread /\ sysctl = "1")
  /\ held \cap {"skeleton", "links", "recorder", "gpu", "phase"} # {} => "writer" \in held
  /\ "phase" \in held => {"skeleton", "links", "recorder", "gpu"} \subseteq held
=============================================================================
